------------------------------ MODULE TimelineJobs -----------------------------
(* The reminder scan and the draft refreshes beside each other: both read the   *)
(* timelines that people write meanwhile, and the checks that the scan records  *)
(* in conversation_actions are evidence for the refreshes.                      *)
EXTENDS UnansweredReminders, DraftAdoption

CONSTANT MaxBusy   \* bound of the jobs that are under way at the same time

vars == <<timelineVars, reminderVars, adoptionVars>>

Crash ==
  /\ Fault
  /\ scan' = NoScan
  /\ scan # NoScan \/ \E r \in Refreshers : refresh[r] # NoRefresh
  /\ StopRefreshes
  /\ UNCHANGED <<front, checks, history>>

RoomForJob ==
  Cardinality({r \in Refreshers : refresh[r] # NoRefresh})
    + (IF scan = NoScan THEN 0 ELSE 1) < MaxBusy

Init == TimelineInit /\ ReminderInit /\ AdoptionInit

Start(r) == \E c \in Convs : StartRefresh(r, c)
\* A room for one more job: the bound is no part of the system.
RunScan == (scan = NoScan => RoomForJob) /\ Scan /\ UNCHANGED adoptionVars
RunRefresh(r) ==
  /\ \/ RoomForJob /\ Start(r)
     \/ Refresh(r)
  /\ UNCHANGED reminderVars

Next ==
  \/ (People \/ Tick) /\ UNCHANGED <<reminderVars, adoptionVars>>
  \/ RunScan
  \/ \E r \in Refreshers : RunRefresh(r) \/ (LoadFails(r) /\ UNCHANGED reminderVars)
  \/ Crash

Spec == Init /\ [][Next]_vars

\* The timelines, the scan and the refreshes keep their shapes; what is still to
\* be decided or refreshed belongs to conversations in scope.
TypeOK ==
  /\ now \in Times /\ events \in 0..MaxEvents /\ faults \in 0..MaxFaults
  /\ \A c \in Convs : items[c] \subseteq [kind : ItemKinds, at : Times]
  /\ open \subseteq Convs
  /\ updated \in [Convs -> Times]
  /\ step \in [Convs -> StepNames \cup {"none"}]
  /\ waiting \cup acted \cup stepped \subseteq Drafted
  /\ \A c \in Convs : checks[c] \subseteq [message : Times, at : Times]
  /\ scan.pc \in {"idle", "load", "decide", "record"}
  /\ ToSet(scan.load) \cup {d.conv : d \in ToSet(scan.decide)} \subseteq Support \cup Assigned
  /\ {d.verdict : d \in ToSet(scan.decide)} \subseteq Verdicts
  /\ scan.pc = "record" => Current.verdict = "due"
  /\ adoption \in [Convs -> Statuses \cup {"none"}]
  /\ \A r \in Refreshers : refresh[r] # NoRefresh => refresh[r].conv \in Drafted
================================================================================
