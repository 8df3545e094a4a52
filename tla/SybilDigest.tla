----------------------------- MODULE SybilDigest -----------------------------
(***************************************************************************)
(* tools/sybil_digest.py: the table sybil_notifications, the handlers that *)
(* queue a notification, the digest runs that claim, post and settle the   *)
(* queued rows (the scheduler's daily job, the command line), and the      *)
(* operator who dismisses one from the Ops page.                           *)
(*                                                                         *)
(* A row's lease lives in its error column: a digest run's marker (expiry  *)
(* and uuid4), a note left by a failed or lapsed send, or "".  Expiry is a *)
(* set of markers, so that no clock is needed; a marker may be drawn again *)
(* once no row and no run holds it.                                        *)
(*                                                                         *)
(* The first transaction of a digest run recovers lapsed rows, lists the   *)
(* pending ones and claims them.  It is one action: every update of it is  *)
(* conditional on the status it read, so what other transactions do        *)
(* between two of its statements could as well have come before or after.  *)
(***************************************************************************)
EXTENDS Naturals, FiniteSets, Sequences

CONSTANTS
  Convs,       \* conversations
  Digests,     \* digest runs that may be active at once
  Daily,       \* the run the scheduler starts every day
  Markers,     \* lease markers
  Limit,       \* rows one digest takes (100)
  Fitting,     \* notifications that fit in the 3500 characters Feishu is sent
  MaxQueued,   \* bound: calls of queue_sybil_notification
  MaxFaults,   \* bound: failed or unanswered sends, lost or stalled runs
  Punctual,    \* TRUE: a lease (30 min) outlasts the run that took it
  NoMarker, NoDraft

ASSUME ConvsAssumption == Convs # {}
ASSUME DigestsAssumption == IsFiniteSet(Digests)
ASSUME DailyAssumption == Daily \in Digests
ASSUME MarkersAssumption == NoMarker \notin Markers /\ Markers \cap {"", "note"} = {}
ASSUME LimitAssumption == Limit \in Nat \ {0}
ASSUME FittingAssumption == Fitting \in Nat \ {0}
ASSUME MaxQueuedAssumption == MaxQueued \in Nat
ASSUME DigestFaultsAssumption == MaxFaults \in Nat
ASSUME PunctualAssumption == Punctual \in BOOLEAN

\* Every call that inserts uses the next id; messages are numbered by the call.
Ids == 1..MaxQueued
Messages == 1..MaxQueued

VARIABLES
  rows,      \* sybil_notifications
  queued,    \* calls of queue_sybil_notification so far
  draft,     \* conversation -> the call in progress for it, after its select
  pc,        \* digest run -> the await it is at
  marker,    \* digest run -> its claim_marker
  lapsed,    \* digest run -> the expired (id, marker) pairs it read
  claimed,   \* digest run -> claimed_ids
  text,      \* digest run -> the (id, message) pairs of the text it posts
  expired,   \* markers whose time has passed
  accepted,  \* history: ids in a text that Feishu accepted
  delivered, \* history: id -> the messages that were to be read in the group
  audits,    \* ids with a sybil_dismiss action
  faults

runVars == <<pc, marker, lapsed, claimed, text>>
vars == <<rows, queued, draft, pc, marker, lapsed, claimed, text, expired,
          accepted, delivered, audits, faults>>

-----------------------------------------------------------------------------

Status == {"absent", "pending", "sending", "sent", "dismissed"}
Errors == Markers \cup {"", "note"}

Row == [status: Status, conv: Convs, message: Messages, error: Errors]

Stored(i) == rows[i].status # "absent"

\* Mutants of SendingLeaseExpired and Restored: every lease taken for expired, and
\* the error column set to NULL.
SendingLeaseExpiredAlways(error) == TRUE
RestoredWithNull(r) == [r EXCEPT !.status = "pending", !.error = NoMarker]

\* _sending_lease_expired: text that is no marker counts as expired.
SendingLeaseExpired(error) == error \notin Markers \/ error \in expired

Owned(i, m) == rows[i].status = "sending" /\ rows[i].error = m

Restored(r) == [r EXCEPT !.status = "pending", !.error = "note"]

Fault == faults < MaxFaults /\ faults' = faults + 1

-----------------------------------------------------------------------------
(* queue_sybil_notification; the conversation lock of the webhook allows one *)
(* call per conversation at a time.                                        *)

\* The select for a pending row, in autocommit: nothing is locked.
QueueRead(c) ==
  LET found == {i \in Ids : rows[i].status = "pending" /\ rows[i].conv = c} IN
  /\ draft[c] = NoDraft
  /\ queued < MaxQueued
  /\ queued' = queued + 1
  /\ \/ \E i \in found :
          draft' = [draft EXCEPT ![c] = [message |-> queued + 1, row |-> i,
                                         clears |-> rows[i].error # ""]]
     \/ /\ found = {}
        /\ draft' = [draft EXCEPT ![c] = [message |-> queued + 1, row |-> 0,
                                          clears |-> FALSE]]
  /\ UNCHANGED <<rows, runVars, expired, accepted, delivered, audits, faults>>

\* The flush: an insert, or UPDATE .. WHERE id of the columns that differ from
\* what was loaded, whatever has become of the row since.
QueueWrite(c) ==
  LET d == draft[c] IN
  /\ d # NoDraft
  /\ \/ /\ d.row = 0
        /\ \E i \in Ids :
             /\ ~Stored(i) /\ \A j \in 1..i - 1 : Stored(j)
             /\ rows' = [rows EXCEPT ![i] = [status |-> "pending", conv |-> c,
                                             message |-> d.message, error |-> ""]]
     \/ /\ d.row # 0
        /\ rows' = [rows EXCEPT ![d.row].message = d.message,
                                ![d.row].error = IF d.clears THEN "" ELSE @]
  /\ draft' = [draft EXCEPT ![c] = NoDraft]
  /\ UNCHANGED <<queued, runVars, expired, accepted, delivered, audits, faults>>

\* The commit raises: the caller is told, and leaves a comment in Front.
QueueFail(c) ==
  /\ draft[c] # NoDraft
  /\ Fault
  /\ draft' = [draft EXCEPT ![c] = NoDraft]
  /\ UNCHANGED <<rows, queued, runVars, expired, accepted, delivered, audits>>

-----------------------------------------------------------------------------
(* send_pending_sybil_digest *)

\* The run is over, however it ended.
EndRun(d) ==
  /\ pc' = [pc EXCEPT ![d] = "idle"]
  /\ marker' = [marker EXCEPT ![d] = NoMarker]
  /\ lapsed' = [lapsed EXCEPT ![d] = {}]
  /\ claimed' = [claimed EXCEPT ![d] = {}]
  /\ text' = [text EXCEPT ![d] = {}]

InUse(m) ==
  \/ \E i \in Ids : rows[i].error = m
  \/ \E d \in Digests : marker[d] = m \/ \E l \in lapsed[d] : l[2] = m

\* _new_sending_lease, then the select of the rows being sent.
StartDigest(d) ==
  /\ pc[d] = "idle"
  /\ \E m \in Markers :
       /\ ~InUse(m)
       /\ marker' = [marker EXCEPT ![d] = m]
       /\ expired' = expired \ {m}
  /\ lapsed' = [lapsed EXCEPT ![d] =
       {<<i, rows[i].error>> : i \in {j \in Ids : /\ rows[j].status = "sending"
                                                  /\ SendingLeaseExpired(rows[j].error)}}]
  /\ pc' = [pc EXCEPT ![d] = "claim"]
  /\ UNCHANGED <<rows, queued, draft, claimed, text, accepted, delivered, audits, faults>>

\* Mutant of Recovered: nobody takes over the rows of a lost run.
RecoveredNever(d) == {}

\* The lapsed rows that nobody else has recovered in the meantime.
Recovered(d) == {i \in Ids : rows[i].status = "sending" /\ <<i, rows[i].error>> \in lapsed[d]}

\* The oldest Limit pending rows, those just recovered included.
Batch(d) ==
  LET open == {i \in Ids : rows[i].status = "pending"} \cup Recovered(d) IN
  {i \in open : Cardinality({j \in open : j < i}) < Limit}

ClaimBatch(d) ==
  /\ pc[d] = "claim"
  /\ rows' = [i \in Ids |->
       IF i \in Batch(d)
       THEN [rows[i] EXCEPT !.status = "sending", !.error = marker[d]]
       ELSE IF i \in Recovered(d) THEN Restored(rows[i]) ELSE rows[i]]
  /\ \/ /\ Batch(d) # {}
        /\ claimed' = [claimed EXCEPT ![d] = Batch(d)]
        /\ lapsed' = [lapsed EXCEPT ![d] = {}]
        /\ pc' = [pc EXCEPT ![d] = "select"]
        /\ UNCHANGED <<marker, text>>
     \/ Batch(d) = {} /\ EndRun(d)
  /\ UNCHANGED <<queued, draft, expired, accepted, delivered, audits, faults>>

\* The rows still under this run's marker are read back for the text.
SelectClaimed(d) ==
  LET mine == {i \in claimed[d] : Owned(i, marker[d])} IN
  /\ pc[d] = "select"
  /\ \/ /\ mine # {}
        /\ text' = [text EXCEPT ![d] = {<<i, rows[i].message>> : i \in mine}]
        /\ pc' = [pc EXCEPT ![d] = "send"]
        /\ UNCHANGED <<marker, lapsed, claimed>>
     \/ mine = {} /\ EndRun(d)
  /\ UNCHANGED <<rows, queued, draft, expired, accepted, delivered, audits, faults>>

\* send_sybil_group_text tries the app's group first ("send") and, when that answers
\* with an error, the webhook ("fallback"); an exception ends it.
Sending(d) == pc[d] \in {"send", "fallback"}

NotSent(d) == pc' = [pc EXCEPT ![d] = "restore"]
NextRoute(d) == pc[d] = "send" /\ pc' = [pc EXCEPT ![d] = "fallback"]

\* The text lists the notifications by age; the client's _clip cuts off its end.
Clipped(d) == {l \in text[d] : Cardinality({k \in text[d] : k[1] < l[1]}) < Fitting}

\* Feishu posts the text and says so, or its answer is lost or an error.
Post(d) ==
  /\ Sending(d)
  /\ accepted' = accepted \cup {l[1] : l \in text[d]}
  /\ delivered' = [i \in Ids |->
       LET said == {l \in Clipped(d) : l[1] = i} IN
       IF said = {} THEN delivered[i]
                    ELSE Append(delivered[i], (CHOOSE l \in said : TRUE)[2])]
  /\ \/ pc' = [pc EXCEPT ![d] = "mark"] /\ UNCHANGED faults
     \/ NotSent(d) /\ Fault
     \/ NextRoute(d) /\ Fault
  /\ UNCHANGED <<rows, queued, draft, marker, lapsed, claimed, text, expired, audits>>

\* Mutant of PostFails: the answer not looked at.
PostFailsIgnored(d) ==
  /\ Sending(d)
  /\ Fault
  /\ pc' = [pc EXCEPT ![d] = "mark"]
  /\ UNCHANGED <<rows, queued, draft, marker, lapsed, claimed, text, expired,
                 accepted, delivered, audits>>

\* Feishu refuses, cannot be reached, or is not configured.
PostFails(d) ==
  /\ Sending(d)
  /\ Fault
  /\ NotSent(d) \/ NextRoute(d)
  /\ UNCHANGED <<rows, queued, draft, marker, lapsed, claimed, text, expired,
                 accepted, delivered, audits>>

\* Mutants of Mine, which both final updates use: the marker, or the status,
\* left out of the condition.
MineWhateverMarker(d) == {i \in claimed[d] : rows[i].status = "sending"}
MineWhateverStatus(d) == claimed[d]

\* The rows the final update matches.
Mine(d) == {i \in claimed[d] : Owned(i, marker[d])}

MarkSent(d) ==
  /\ pc[d] = "mark"
  /\ rows' = [i \in Ids |-> IF i \in Mine(d)
                            THEN [rows[i] EXCEPT !.status = "sent", !.error = ""]
                            ELSE rows[i]]
  /\ EndRun(d)
  /\ UNCHANGED <<queued, draft, expired, accepted, delivered, audits, faults>>

Restore(d) ==
  /\ pc[d] = "restore"
  /\ rows' = [i \in Ids |-> IF i \in Mine(d) THEN Restored(rows[i]) ELSE rows[i]]
  /\ EndRun(d)
  /\ UNCHANGED <<queued, draft, expired, accepted, delivered, audits, faults>>

\* A database error ends the run, as a crash of its process does.
RunLost(d) ==
  /\ pc[d] # "idle"
  /\ Fault
  /\ EndRun(d)
  /\ UNCHANGED <<rows, queued, draft, expired, accepted, delivered, audits>>

-----------------------------------------------------------------------------

\* Mutant of Dismiss: the status not asked for again.
DismissAnyOpen(i) ==
  /\ rows[i].status \in {"pending", "sending"}
  /\ rows' = [rows EXCEPT ![i].status = "dismissed"]
  /\ audits' = audits \cup {i}
  /\ UNCHANGED <<queued, draft, runVars, expired, accepted, delivered, faults>>

\* DELETE /ops/api/sybil/{id}: status and audit in one transaction; any other
\* status is answered without a write.
Dismiss(i) ==
  /\ rows[i].status = "pending"
  /\ rows' = [rows EXCEPT ![i].status = "dismissed"]
  /\ audits' = audits \cup {i}
  /\ UNCHANGED <<queued, draft, runVars, expired, accepted, delivered, faults>>

\* Half an hour passes since m was made.  That its run is still going is a fault.
Expire(m) ==
  /\ InUse(m) /\ m \notin expired
  /\ expired' = expired \cup {m}
  /\ \/ (\A d \in Digests : marker[d] # m) /\ UNCHANGED faults
     \/ (\E d \in Digests : marker[d] = m) /\ ~Punctual /\ Fault
  /\ UNCHANGED <<rows, queued, draft, runVars, accepted, delivered, audits>>

-----------------------------------------------------------------------------

Init ==
  /\ rows = [i \in Ids |-> [status |-> "absent", conv |-> CHOOSE c \in Convs : TRUE,
                            message |-> i, error |-> ""]]
  /\ queued = 0
  /\ draft = [c \in Convs |-> NoDraft]
  /\ pc = [d \in Digests |-> "idle"]
  /\ marker = [d \in Digests |-> NoMarker]
  /\ lapsed = [d \in Digests |-> {}]
  /\ claimed = [d \in Digests |-> {}]
  /\ text = [d \in Digests |-> {}]
  /\ expired = {}
  /\ accepted = {}
  /\ delivered = [i \in Ids |-> <<>>]
  /\ audits = {}
  /\ faults = 0

Run(d) ==
  ClaimBatch(d) \/ SelectClaimed(d) \/ Post(d) \/ MarkSent(d) \/ Restore(d)

Next ==
  \/ \E c \in Convs : QueueRead(c) \/ QueueWrite(c) \/ QueueFail(c)
  \/ \E d \in Digests : StartDigest(d) \/ Run(d) \/ PostFails(d) \/ RunLost(d)
  \/ \E i \in Ids : Dismiss(i)
  \/ \E m \in Markers : Expire(m)

Spec == Init /\ [][Next]_vars

\* Coroutines that can run do; the scheduler starts the digest every day; time
\* passes.  Nobody is obliged to dismiss, or to run the command line.
Fairness ==
  /\ \A c \in Convs : WF_vars(QueueWrite(c))
  /\ \A d \in Digests : WF_vars(Run(d))
  /\ WF_vars(StartDigest(Daily))
  /\ \A m \in Markers : WF_vars(Expire(m))

FairSpec == Spec /\ Fairness

-----------------------------------------------------------------------------
(* Properties *)

TypeOK ==
  /\ rows \in [Ids -> Row]
  /\ queued \in 0..MaxQueued
  /\ \A c \in Convs : \/ draft[c] = NoDraft
                      \/ draft[c] \in [message: Messages, row: Ids \cup {0},
                                       clears: BOOLEAN]
  /\ pc \in [Digests -> {"idle", "claim", "select", "send", "fallback", "mark", "restore"}]
  /\ marker \in [Digests -> Markers \cup {NoMarker}]
  /\ lapsed \in [Digests -> SUBSET (Ids \X Errors)]
  /\ claimed \in [Digests -> SUBSET Ids]
  /\ text \in [Digests -> SUBSET (Ids \X Messages)]
  /\ expired \subseteq Markers
  /\ accepted \subseteq Ids
  /\ delivered \in [Ids -> Seq(Messages)]
  /\ audits \subseteq Ids
  /\ faults \in 0..MaxFaults

\* A stale run cannot touch a newer claim: a row being sent under a marker that
\* has not expired leaves that state only by the run that holds the marker.
StaleDigestHarmless ==
  [][\A i \in Ids :
       /\ rows[i].status = "sending" /\ ~SendingLeaseExpired(rows[i].error)
       /\ rows'[i].status # "sending" \/ rows'[i].error \in Markers \ {rows[i].error}
       => \E d \in Digests : /\ marker[d] = rows[i].error
                             /\ pc[d] \in {"mark", "restore"} /\ pc'[d] = "idle"]_vars

\* What was posted stays sent, and what was dismissed stays dismissed: neither
\* queueing again, nor a run that fails or recovers rows, brings them back.
FinalStatesAreFinal ==
  [][\A i \in Ids : rows[i].status \in {"sent", "dismissed"} =>
                      rows'[i].status = rows[i].status]_vars

\* If leases outlast runs, a notification is never posted once the operator has
\* been told that it was dismissed, through failures and recoveries.
DismissedIsNotPosted ==
  [][\A i \in Ids : rows[i].status = "dismissed" =>
                      delivered'[i] = delivered[i]]_vars

\* A digest is at-least-once, but a message is posted again for its row only after
\* something went wrong in between.
RepostNeedsFault ==
  \A i \in Ids, m \in Messages :
    Cardinality({n \in DOMAIN delivered[i] : delivered[i][n] = m}) <= 1 + faults

\* A row is marked sent only after Feishu accepted a text made from it, whichever
\* run made it and however often the row was recovered.
SentWasAccepted == \A i \in Ids : rows[i].status = "sent" => i \in accepted

\* No queued notification stays pending or sending for ever: a crashed run's rows
\* are recovered and posted by a later one.
EveryRowSettles ==
  \A i \in Ids : Stored(i) ~> rows[i].status \in {"sent", "dismissed"}

\* docs/superpowers/specs/2026-07-14-sybil-queue-dismissal-design.md, on the status
\* "sent": "already included in a successful digest".  First: some message of the
\* row was to be read in the group.
SentWasShown == \A i \in Ids : rows[i].status = "sent" => delivered[i] # <<>>

\* The same line of the design: the message the row holds was to be read there.
SentMessageWasPosted ==
  \A i \in Ids : rows[i].status = "sent" =>
    \E n \in DOMAIN delivered[i] : delivered[i][n] = rows[i].message
=============================================================================
