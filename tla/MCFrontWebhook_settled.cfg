\* A recorded event whose last attempt is interrupted before complete_webhook.
SPECIFICATION Spec
CONSTANTS
  e1 = e1  e2 = e2  c1 = c1  p1 = p1  p2 = p2
  w1 = w1  w2 = w2  r1 = r1
  NoWorker = NoWorker  NoEvent = NoEvent
  Events = {e1}
  Convs = {c1}
  ConvOf <- OneConv
  Procs = {p1}
  Workers = {w1, r1}
  Retriers = {r1}
  ProcOf <- OneProc
  MaxAttempts = 2
  RetryDelay <- ShortDelay
  LeaseDuration = 1
  Capacity = 1
  BatchLimit = 2
  MaxFaults = 1
INVARIANTS
  RecordedIsNotDeadLetter
