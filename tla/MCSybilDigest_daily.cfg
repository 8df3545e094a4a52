\* Normal operation: only the scheduled digest, one row at a time, leases that
\* outlast it, two conversations, three queue calls, one fault.
SPECIFICATION FairSpec
CONSTANTS
  c1 = c1  c2 = c2  d1 = d1  d2 = d2  m1 = m1  m2 = m2  m3 = m3  m4 = m4
  NoMarker = NoMarker  NoDraft = NoDraft
  Convs = {c1, c2}
  Digests = {d1}
  Daily = d1
  Markers = {m1, m2}
  Limit = 1
  Fitting = 1
  MaxQueued = 3
  MaxFaults = 1
  Punctual = TRUE
PROPERTIES
  DismissedIsNotPosted
  EveryRowSettles
