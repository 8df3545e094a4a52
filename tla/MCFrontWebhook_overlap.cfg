\* The old process and the new one during a restart share the database: one task
\* in the old one, a request task and the retry job in the new one, which has one
\* permit.
SPECIFICATION FairSpec
CONSTANTS
  e1 = e1  e2 = e2  c1 = c1  p1 = p1  p2 = p2
  w1 = w1  w2 = w2  r1 = r1
  NoWorker = NoWorker  NoEvent = NoEvent
  Events = {e1}
  Convs = {c1}
  ConvOf <- OneConv
  Procs = {p1, p2}
  Workers = {w1, w2, r1}
  Retriers = {r1}
  ProcOf <- Overlap
  MaxAttempts = 2
  RetryDelay <- ShortDelay
  LeaseDuration = 1
  Capacity = 1
  BatchLimit = 1
  MaxFaults = 1
INVARIANTS
  UniqueOwner
PROPERTIES
  StaleWorkerHarmless
  ImplementsDelivery
  EventuallySettled
