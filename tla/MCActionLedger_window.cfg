\* One request, repeated after its window and once more soon after that; nothing
\* fails.
SPECIFICATION Spec
CONSTANTS
  t1 = t1  t2 = t2  c1 = c1  c2 = c2  k1 = k1  k2 = k2  title = title  s1 = s1
  NoTask = NoTask  NoCall = NoCall
  Tasks = {t1, t2}
  Convs = {c1}
  Keys = {k1}
  TicketKeys = {k1}
  TitleKeys = {}
  Senders = {s1}
  SenderOf <- OneSender
  Identities <- OneRequest
  Window = 1
  MaxCandidates = 1
  MarkedResults = FALSE
  MaxCalls = 3
  MaxFaults = 0
CHECK_DEADLOCK FALSE
INVARIANTS
  OneTicketPerWindow
