\* Two tasks, two conversations; two requests of one sender and a ticket without one;
\* three calls, one fault.  The calls are bounded, so the model may stop.
SPECIFICATION FairSpec
CONSTANTS
  t1 = t1  t2 = t2  c1 = c1  c2 = c2  k1 = k1  k2 = k2  title = title  s1 = s1
  NoTask = NoTask  NoCall = NoCall
  Tasks = {t1, t2}
  Convs = {c1, c2}
  Keys = {k1, k2, title}
  TicketKeys = {k1, k2}
  TitleKeys = {title}
  Senders = {s1}
  SenderOf <- OneSender
  Identities <- SomeIdentities
  Window = 1
  MaxCandidates = 1
  MarkedResults = TRUE
  MaxCalls = 3
  MaxFaults = 1
CHECK_DEADLOCK FALSE
INVARIANTS
  TypeOK
  CheckStaysTrue
  RepeatNeedsFault
  RecordedWasPerformed
PROPERTIES
  EveryCallReturns
