---------------------------- MODULE FrontWebhook ----------------------------
(***************************************************************************)
(* webhooks/front_webhook.py over the durable inbox: request tasks that    *)
(* store and immediately process an event, the scheduler's retry job, the  *)
(* per-conversation asyncio locks and the semaphore they share within one  *)
(* server process, and the processes that share the database (one in       *)
(* normal operation, two while a restart overlaps).                        *)
(*                                                                         *)
(* Every await that touches the database or the outside world ends an      *)
(* action, so tasks interleave exactly there.  What handle_email does to   *)
(* the conversation is another module's subject: here it succeeds, fails,  *)
(* or the message is ignored, and its success is counted.                  *)
(***************************************************************************)
EXTENDS WebhookInbox, FiniteSets

CONSTANTS
  Convs,        \* conversations
  ConvOf,       \* event -> its conversation
  Procs,        \* server processes sharing the database
  Workers,      \* asyncio tasks
  Retriers,     \* the tasks that are the scheduler's retry job
  ProcOf,       \* task -> the process it runs in
  Capacity,     \* MAX_CONCURRENT_WEBHOOKS (2)
  BatchLimit,   \* the limit given to list_due_event_ids (20)
  MaxFaults,    \* bound: database errors plus process crashes
  NoWorker, NoEvent

ASSUME ConvOfAssumption == ConvOf \in [Events -> Convs]
ASSUME ProcOfAssumption == ProcOf \in [Workers -> Procs]
ASSUME RetriersAssumption == Retriers \subseteq Workers
ASSUME CapacityAssumption == Capacity \in Nat \ {0}
ASSUME BatchLimitAssumption == BatchLimit \in Nat \ {0}
ASSUME MaxFaultsAssumption == MaxFaults \in Nat
ASSUME WorkersAssumption == IsFiniteSet(Workers)
ASSUME NoneAssumption == NoWorker \notin Workers /\ NoEvent \notin Events

VARIABLES
  ledger,   \* webhook_events: the events recorded as handled or ignored
  handled,  \* history: event -> how often handle_email succeeded for it
  pc,       \* task -> the await it is at
  ev,       \* task -> the event it is processing
  token,    \* task -> claim.lease_token, which claim_webhook read back
  won,      \* history: task -> the token its own claiming update wrote
  seen,     \* task -> the attempts fail_webhook's select returned
  convLock, \* process, conversation -> the task holding the asyncio lock
  permits,  \* process -> free permits of the webhook semaphore
  batch,    \* retry job -> due event ids it has yet to process
  faults    \* database errors and crashes so far

taskVars == <<pc, ev, token, won, seen>>
mutexVars == <<convLock, permits>>
vars == <<inbox, claims, ledger, handled, pc, ev, token, won, seen,
          convLock, permits, batch, faults>>

-----------------------------------------------------------------------------
(* Control points *)

Claimed == {"check", "handle", "record", "complete", "fail_read", "fail_write"}
Working == Claimed \cup {"reread"}
Critical == Working \cup {"claim"}
Waiting == {"lookup", "lock", "slot"}
Control == {"idle"} \cup Waiting \cup Critical

LockOf(w) == <<ProcOf[w], ConvOf[ev[w]]>>

Goto(w, label) == pc' = [pc EXCEPT ![w] = label]

\* The task leaves process_inbox_event holding nothing.
Leave(w) ==
  /\ Goto(w, "idle")
  /\ ev' = [ev EXCEPT ![w] = NoEvent]
  /\ token' = [token EXCEPT ![w] = NoToken]
  /\ won' = [won EXCEPT ![w] = NoToken]
  /\ seen' = [seen EXCEPT ![w] = 0]

\* The ends of both async-with blocks: no await separates them.
Release(w) ==
  /\ convLock' = [convLock EXCEPT ![LockOf(w)] = NoWorker]
  /\ permits' = [permits EXCEPT ![ProcOf[w]] = @ + 1]

Exit(w) == Leave(w) /\ Release(w)

-----------------------------------------------------------------------------
(* Entering: a request, or the retry job *)

\* POST /webhook/front commits the event before anything else; Front may
\* deliver the same event again at any time.
Receive(w, e) ==
  /\ w \notin Retriers
  /\ pc[w] = "idle"
  /\ Enqueue(e)
  /\ ev' = [ev EXCEPT ![w] = e]
  /\ Goto(w, "lookup")
  /\ UNCHANGED <<ledger, handled, token, won, seen, mutexVars, batch, faults>>

\* retry_due_front_webhooks reads a bounded batch of due ids.  The order the
\* batch is taken in (available_at, created_at) is left open.
ListDue(w) ==
  LET due == {e \in Events : Due(inbox[e])} IN
  /\ w \in Retriers
  /\ pc[w] = "idle" /\ batch[w] = {} /\ due # {}
  /\ \E some \in SUBSET due :
       /\ some = due \/ Cardinality(some) = BatchLimit
       /\ Cardinality(some) <= BatchLimit
       /\ batch' = [batch EXCEPT ![w] = some]
  /\ UNCHANGED <<inboxVars, ledger, handled, taskVars, mutexVars, faults>>

NextInBatch(w) ==
  /\ w \in Retriers
  /\ pc[w] = "idle"
  /\ \E e \in batch[w] :
       /\ batch' = [batch EXCEPT ![w] = @ \ {e}]
       /\ ev' = [ev EXCEPT ![w] = e]
  /\ Goto(w, "lookup")
  /\ UNCHANGED <<inboxVars, ledger, handled, token, won, seen, mutexVars, faults>>

-----------------------------------------------------------------------------
(* process_inbox_event *)

Lookup(w) ==
  /\ pc[w] = "lookup"
  /\ \/ inbox[ev[w]].status = "processed" /\ Leave(w)
     \/ inbox[ev[w]].status # "processed" /\ Goto(w, "lock")
                                         /\ UNCHANGED <<ev, token, won, seen>>
  /\ UNCHANGED <<inboxVars, ledger, handled, mutexVars, batch, faults>>

\* Mutants of TakeLock and TakeSlot: the lock not awaited, and the lock's block
\* closed before the semaphore's.
TakeLockUnawaited(w) ==
  /\ pc[w] = "lock"
  /\ convLock' = [convLock EXCEPT ![LockOf(w)] = w]
  /\ Goto(w, "slot")
  /\ UNCHANGED <<inboxVars, ledger, handled, ev, token, won, seen, permits, batch,
                 faults>>
TakeSlotOutsideLock(w) ==
  /\ pc[w] = "slot"
  /\ permits[ProcOf[w]] > 0
  /\ permits' = [permits EXCEPT ![ProcOf[w]] = @ - 1]
  /\ convLock' = [convLock EXCEPT ![LockOf(w)] = NoWorker]
  /\ Goto(w, "claim")
  /\ UNCHANGED <<inboxVars, ledger, handled, ev, token, won, seen, batch, faults>>

TakeLock(w) ==
  /\ pc[w] = "lock"
  /\ convLock[LockOf(w)] = NoWorker
  /\ convLock' = [convLock EXCEPT ![LockOf(w)] = w]
  /\ Goto(w, "slot")
  /\ UNCHANGED <<inboxVars, ledger, handled, ev, token, won, seen, permits, batch,
                 faults>>

TakeSlot(w) ==
  /\ pc[w] = "slot"
  /\ permits[ProcOf[w]] > 0
  /\ permits' = [permits EXCEPT ![ProcOf[w]] = @ - 1]
  /\ Goto(w, "claim")
  /\ UNCHANGED <<inboxVars, ledger, handled, ev, token, won, seen, convLock, batch,
                 faults>>

\* Mutant of ClaimEvent: rowcount not looked at.
ClaimEventUncounted(w) ==
  /\ pc[w] = "claim"
  /\ \/ /\ Claim(ev[w])
        /\ won' = [won EXCEPT ![w] = claims[ev[w]] + 1]
     \/ /\ Abandon(ev[w]) \/ (~Due(inbox[ev[w]]) /\ UNCHANGED inboxVars)
        /\ won' = [won EXCEPT ![w] = claims[ev[w]]]
  /\ Goto(w, "reread")
  /\ UNCHANGED <<ledger, handled, ev, token, seen, mutexVars, batch, faults>>

\* The update of claim_webhook, committed: it takes the row, buries an exhausted
\* one (final, so the read that follows returns None), or finds it not due.
ClaimEvent(w) ==
  /\ pc[w] = "claim"
  /\ \/ /\ Claim(ev[w])
        /\ won' = [won EXCEPT ![w] = claims[ev[w]] + 1]
        /\ Goto(w, "reread")
        /\ UNCHANGED <<ev, token, seen, mutexVars>>
     \/ Abandon(ev[w]) /\ Exit(w)
     \/ ~Due(inbox[ev[w]]) /\ Exit(w) /\ UNCHANGED inboxVars
  /\ UNCHANGED <<ledger, handled, batch, faults>>

\* The read that follows gives the task the token the row has by then.  If the
\* lease ran out in between, that is another task's, or none.
ReadBack(w) ==
  /\ pc[w] = "reread"
  /\ \/ /\ inbox[ev[w]].status # "dead_letter"
        /\ token' = [token EXCEPT ![w] = inbox[ev[w]].token]
        /\ Goto(w, "check")
        /\ UNCHANGED <<ev, won, seen, mutexVars>>
     \/ inbox[ev[w]].status = "dead_letter" /\ Exit(w)
  /\ UNCHANGED <<inboxVars, ledger, handled, batch, faults>>

-----------------------------------------------------------------------------
(* _process_front_webhook_event *)

\* Mutant of CheckLedger: no idempotency check.
CheckLedgerSkipped(w) ==
  /\ pc[w] = "check"
  /\ Goto(w, "handle")
  /\ UNCHANGED <<inboxVars, ledger, handled, ev, token, won, seen, mutexVars, batch,
                 faults>>

\* The idempotency check against webhook_events.
CheckLedger(w) ==
  /\ pc[w] = "check"
  /\ Goto(w, IF ev[w] \in ledger THEN "complete" ELSE "handle")
  /\ UNCHANGED <<inboxVars, ledger, handled, ev, token, won, seen, mutexVars, batch,
                 faults>>

\* Not an inbound customer message, or not in an allowed inbox.
Ignore(w) ==
  /\ pc[w] = "handle"
  /\ Goto(w, "record")
  /\ UNCHANGED <<inboxVars, ledger, handled, ev, token, won, seen, mutexVars, batch,
                 faults>>

\* handle_email returns: its effects have happened, the ledger is still to be
\* written.
HandleOk(w) ==
  /\ pc[w] = "handle"
  /\ handled' = [handled EXCEPT ![ev[w]] = @ + 1]
  /\ Goto(w, "record")
  /\ UNCHANGED <<inboxVars, ledger, ev, token, won, seen, mutexVars, batch, faults>>

\* The inbox check or handle_email raises, reported as HTTP 503.
HandleError(w) ==
  /\ pc[w] = "handle"
  /\ Goto(w, "fail_read")
  /\ UNCHANGED <<inboxVars, ledger, handled, ev, token, won, seen, mutexVars, batch,
                 faults>>

\* INSERT INTO webhook_events; event_id is its primary key.
RecordEvent(w) ==
  /\ pc[w] = "record"
  /\ ledger' = ledger \cup {ev[w]}
  /\ Goto(w, IF ev[w] \in ledger THEN "fail_read" ELSE "complete")
  /\ UNCHANGED <<inboxVars, handled, ev, token, won, seen, mutexVars, batch, faults>>

-----------------------------------------------------------------------------
(* The end of _process_inbox_event_with_capacity *)

CompleteEvent(w) ==
  /\ pc[w] = "complete"
  /\ Complete(ev[w], token[w])
  /\ Exit(w)
  /\ UNCHANGED <<ledger, handled, batch, faults>>

FailRead(w) ==
  /\ pc[w] = "fail_read"
  /\ \/ /\ Owned(inbox[ev[w]], token[w])
        /\ seen' = [seen EXCEPT ![w] = inbox[ev[w]].attempts]
        /\ Goto(w, "fail_write")
        /\ UNCHANGED <<ev, token, won, mutexVars>>
     \/ ~Owned(inbox[ev[w]], token[w]) /\ Exit(w)
  /\ UNCHANGED <<inboxVars, ledger, handled, batch, faults>>

FailWrite(w) ==
  /\ pc[w] = "fail_write"
  /\ Fail(ev[w], token[w], seen[w])
  /\ Exit(w)
  /\ UNCHANGED <<ledger, handled, batch, faults>>

-----------------------------------------------------------------------------
(* Faults and time *)

\* The statement a task is at raises instead of committing.  Inside the
\* handler that is one more failure to save; anywhere else the request ends
\* with HTTP 503 and the row is left as it was, at "reread" leased to nobody.
DbErrorHandling(w) ==
  /\ pc[w] \in {"check", "record"}
  /\ Goto(w, "fail_read")
  /\ UNCHANGED <<ev, token, won, seen, mutexVars>>

\* Mutant of DbErrorEnding: the exception path does not release.
DbErrorEndingHolding(w) ==
  /\ pc[w] \in {"lookup", "claim", "reread", "complete", "fail_read", "fail_write"}
  /\ Leave(w) /\ UNCHANGED mutexVars

DbErrorEnding(w) ==
  \/ pc[w] = "lookup" /\ Leave(w) /\ UNCHANGED mutexVars
  \/ pc[w] \in {"claim", "reread", "complete", "fail_read", "fail_write"} /\ Exit(w)

DbError(w) ==
  /\ faults < MaxFaults
  /\ faults' = faults + 1
  /\ DbErrorHandling(w) \/ DbErrorEnding(w)
  /\ UNCHANGED <<inboxVars, ledger, handled, batch>>

\* The process dies or is restarted (on shutdown CancelledError passes every
\* except Exception): tasks, locks and permits are gone, rows stay.
Crash(p) ==
  LET mine == {w \in Workers : ProcOf[w] = p} IN
  /\ faults < MaxFaults
  /\ faults' = faults + 1
  /\ \E w \in mine : pc[w] # "idle" \/ (w \in Retriers /\ batch[w] # {})
  /\ pc' = [w \in Workers |-> IF w \in mine THEN "idle" ELSE pc[w]]
  /\ ev' = [w \in Workers |-> IF w \in mine THEN NoEvent ELSE ev[w]]
  /\ token' = [w \in Workers |-> IF w \in mine THEN NoToken ELSE token[w]]
  /\ won' = [w \in Workers |-> IF w \in mine THEN NoToken ELSE won[w]]
  /\ seen' = [w \in Workers |-> IF w \in mine THEN 0 ELSE seen[w]]
  /\ batch' = [r \in Retriers |-> IF r \in mine THEN {} ELSE batch[r]]
  /\ convLock' = [l \in Procs \X Convs |-> IF l[1] = p THEN NoWorker ELSE convLock[l]]
  /\ permits' = [permits EXCEPT ![p] = Capacity]
  /\ UNCHANGED <<inboxVars, ledger, handled>>

Tick ==
  /\ Elapse
  /\ UNCHANGED <<ledger, handled, taskVars, mutexVars, batch, faults>>

-----------------------------------------------------------------------------

Init ==
  /\ InboxInit
  /\ ledger = {}
  /\ handled = [e \in Events |-> 0]
  /\ pc = [w \in Workers |-> "idle"]
  /\ ev = [w \in Workers |-> NoEvent]
  /\ token = [w \in Workers |-> NoToken]
  /\ won = [w \in Workers |-> NoToken]
  /\ seen = [w \in Workers |-> 0]
  /\ convLock = [l \in Procs \X Convs |-> NoWorker]
  /\ permits = [p \in Procs |-> Capacity]
  /\ batch = [r \in Retriers |-> {}]
  /\ faults = 0

\* What a task does by itself once it has entered.
Step(w) ==
  \/ Lookup(w) \/ ClaimEvent(w) \/ ReadBack(w) \/ CheckLedger(w)
  \/ Ignore(w) \/ HandleOk(w) \/ HandleError(w)
  \/ RecordEvent(w) \/ CompleteEvent(w) \/ FailRead(w) \/ FailWrite(w)

Acquire(w) == TakeLock(w) \/ TakeSlot(w)

Poll(w) == ListDue(w) \/ NextInBatch(w)

Next ==
  \/ \E w \in Workers : \/ \E e \in Events : Receive(w, e)
                        \/ Poll(w) \/ Acquire(w) \/ Step(w)
                        \/ DbError(w)
  \/ \E p \in Procs : Crash(p)
  \/ Tick

Spec == Init /\ [][Next]_vars

\* A coroutine that can run does run, and every external call under the handler
\* has a timeout; asyncio locks and semaphores wake their waiters first in, first
\* out; the scheduler fires the retry job every minute.
Fairness ==
  /\ \A w \in Workers : WF_vars(Step(w)) /\ SF_vars(TakeLock(w)) /\ SF_vars(TakeSlot(w))
  /\ \A r \in Retriers : WF_vars(Poll(r))
  /\ WF_vars(Tick)

FairSpec == Spec /\ Fairness

-----------------------------------------------------------------------------
(* Properties *)

TypeOK ==
  /\ inbox \in [Events -> Row]
  /\ claims \in [Events -> 0..MaxAttempts]
  /\ ledger \subseteq Events
  /\ handled \in [Events -> Nat]
  /\ pc \in [Workers -> Control]
  /\ ev \in [Workers -> Events \cup {NoEvent}]
  /\ token \in [Workers -> Tokens \cup {NoToken}]
  /\ won \in [Workers -> Tokens \cup {NoToken}]
  /\ seen \in [Workers -> 0..MaxAttempts]
  /\ convLock \in [Procs \X Convs -> Workers \cup {NoWorker}]
  /\ permits \in [Procs -> 0..Capacity]
  /\ batch \in [Retriers -> SUBSET Events]
  /\ faults \in 0..MaxFaults

\* A row is only marked processed when webhook_events holds the event.
ProcessedIsRecorded ==
  \A e \in Events : inbox[e].status = "processed" => e \in ledger

\* No accepted event can become unreachable: an open row is one the retry job
\* will find due once its delay or its lease has run out, and it still has the
\* payload a retry needs, which is given up only when webhook_events holds the
\* event.  (_claimable, _exhausted_expired_lease against what fail_webhook,
\* complete_webhook and claim_webhook leave behind.)
RowsRecoverable ==
  /\ ProcessedIsRecorded
  /\ \A e \in Events : Stored(e) =>
       LET r == inbox[e] IN
       /\ r.status \in {"pending", "retry"} => r.attempts < MaxAttempts
       /\ (r.status = "processing") <=> (r.token # NoToken)
       /\ r.payload <=> r.status # "processed"

\* Of the tasks that try to take a row, in whatever processes, one wins each claim;
\* and the token a task then works with is its own, or that of a later claim, or
\* none: never an earlier one, whose task may still be at work.
Winners ==
  \A w \in Workers : pc[w] \in Working =>
    /\ won[w] \in 1..claims[ev[w]]
    /\ \A v \in Workers :
         pc[v] \in Working /\ ev[v] = ev[w] /\ won[v] = won[w] => v = w
    /\ pc[w] \in Claimed /\ token[w] # NoToken => token[w] \in won[w]..claims[ev[w]]

\* Normal operation: one server process uses the database.
OneProcess == \A p, q \in Procs : p = q

\* A claim belongs to one task.  The conversation's lock, held from the update to the
\* read, makes that the task's own as long as there is one process, however long
\* the two are apart; with two processes it is as good as Winners says.
UniqueOwner ==
  /\ Winners
  /\ OneProcess => \A w \in Workers : pc[w] \in Claimed => token[w] = won[w]

\* Only a task that goes by the token in the row moves it on from "processing"; the
\* other way out is claim_webhook, and only once the lease has expired.
StaleWorkerHarmless ==
  [][\A e \in Events : inbox[e].status = "processing" =>
       \/ inbox'[e].status = "processing" /\ inbox'[e].token = inbox[e].token
       \/ inbox[e].lease = 0
       \/ \E w \in Workers : /\ ev[w] = e /\ token[w] = inbox[e].token
                             /\ pc[w] \in {"complete", "fail_write"}
                             /\ pc'[w] = "idle"]_vars

\* The conversation locks, per process: never two tasks past the lock for one
\* conversation.
OneTaskPerConversation ==
  \A v, w \in Workers :
    /\ pc[v] \in Critical /\ pc[w] \in Critical
    /\ LockOf(v) = LockOf(w)
    => v = w

\* The tasks that hold a permit of process p.
Inside(p) == {w \in Workers : ProcOf[w] = p /\ pc[w] \in Critical}

\* Every exit, error paths included, gives back what it took: permits and
\* locks are held by exactly the tasks inside, and nobody else.
NothingLeaks ==
  /\ \A p \in Procs :
       permits[p] + Cardinality(Inside(p)) = Capacity
  /\ \A l \in Procs \X Convs : convLock[l] # NoWorker =>
       /\ pc[convLock[l]] \in Critical \cup {"slot"}
       /\ LockOf(convLock[l]) = l

\* With one process, an event whose outcome is in webhook_events is never
\* handled again, whatever is redelivered, retried or lost afterwards.
HandledOnceRecorded ==
  [][\A e \in Events : e \in ledger => handled'[e] = handled[e]]_vars

\* With one process, handle_email only succeeds twice for an event if a crash or
\* a database error lost the record of the first time, however long it takes.
RepeatNeedsFault == \A e \in Events : handled[e] <= 1 + faults

\* What DurableDelivery sees of a row.
Phase(r) ==
  CASE r.status = "absent" -> "unknown"
    [] r.status = "processed" -> "processed"
    [] r.status = "dead_letter" -> "given_up"
    [] OTHER -> "open"

Delivery == INSTANCE DurableDelivery
              WITH phase <- [e \in Events |-> Phase(inbox[e])],
                   tries <- claims, recorded <- ledger

\* The service keeps the promise of module DurableDelivery: at most MaxAttempts
\* tries, "processed" only with the event in webhook_events, given up only after
\* the last try, and no way out of either.
ImplementsDelivery == Delivery!Spec

\* No accepted event is lost or retried for ever: every stored row is finally
\* processed or dead-lettered, through failures, crashes and lost leases.
EventuallySettled == \A e \in Events : Stored(e) ~> Settled(e)

\* docs/superpowers/specs/2026-07-14-durable-webhook-recovery-design.md lists "email
\* handling completes" and "webhook_events already contains the event ID" as
\* successful terminal outcomes.
RecordedIsNotDeadLetter ==
  \A e \in ledger : inbox[e].status # "dead_letter"
=============================================================================
