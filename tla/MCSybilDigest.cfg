\* The scheduled digest and one from the command line, one conversation, three
\* queue calls, two faults; a lease may expire under a run that is still going.
SPECIFICATION Spec
SYMMETRY MarkerSymmetry
CONSTANTS
  c1 = c1  c2 = c2  d1 = d1  d2 = d2  m1 = m1  m2 = m2  m3 = m3  m4 = m4
  NoMarker = NoMarker  NoDraft = NoDraft
  Convs = {c1}
  Digests = {d1, d2}
  Daily = d1
  Markers = {m1, m2, m3, m4}
  Limit = 2
  Fitting = 1
  MaxQueued = 3
  MaxFaults = 2
  Punctual = FALSE
INVARIANTS
  TypeOK
  SentWasAccepted
  RepostNeedsFault
PROPERTIES
  StaleDigestHarmless
  FinalStatesAreFinal
