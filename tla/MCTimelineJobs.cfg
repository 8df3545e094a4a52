\* Two conversations, one with a draft, in overlapping searches; the scan and one
\* refresh, or both refreshes, at the same time; one fault.  People act twice, so
\* the model may stop.
SPECIFICATION Spec
CONSTANTS
  c1 = c1  c2 = c2  job = job  ops = ops
  Convs = {c1, c2}
  FirstMail <- MailTimes
  Drafted = {c1}
  Dated = {c2}
  PageSize = 1
  Steps = {"draft_created", "forwarded_keep_open"}
  Support = {c1}
  Assigned = {c1, c2}
  Kinds = {"customer", "internal", "exact", "bobby_wait"}
  Refreshers = {job, ops}
  Forcing = {ops}
  ScanLimit = 2
  RemindAfter = 1
  StartAt = 1
  Weekdays = {2, 3}
  PendingAfter = 1
  MaxTime = 3
  MaxEvents = 2
  MaxFaults = 1
  MaxBusy = 2
CHECK_DEADLOCK FALSE
INVARIANTS
  TypeOK
  RepeatedReminderNeedsLoss
  HiddenNeedsOverlap
  StagingOnlySkipsComments
  HandledNeedsWork
PROPERTIES
  
  ScanServesDue
