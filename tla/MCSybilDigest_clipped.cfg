\* Two notifications in one digest whose text holds only one of them.
SPECIFICATION Spec
CONSTANTS
  c1 = c1  c2 = c2  d1 = d1  d2 = d2  m1 = m1  m2 = m2  m3 = m3  m4 = m4
  NoMarker = NoMarker  NoDraft = NoDraft
  Convs = {c1, c2}
  Digests = {d1}
  Daily = d1
  Markers = {m1, m2, m3}
  Limit = 2
  Fitting = 1
  MaxQueued = 2
  MaxFaults = 0
  Punctual = TRUE
INVARIANTS
  SentWasShown
