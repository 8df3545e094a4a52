---------------------------- MODULE MCTimelineJobs -----------------------------
(* Model values for the reminder scan and the draft refreshes: one mail came    *)
(* before the reminders were introduced, the other one after.                   *)
EXTENDS TimelineJobs
CONSTANTS c1, c2, job, ops
MailTimes == c1 :> 1 @@ c2 :> 0
================================================================================
