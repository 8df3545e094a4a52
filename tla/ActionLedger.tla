---------------------------- MODULE ActionLedger ----------------------------
(***************************************************************************)
(* execute_tool_call of agent/tool_registry.py: the tools that write to    *)
(* Front, Linear or the digest queue, deduplicated through the table       *)
(* conversation_actions under per-identity asyncio locks.                  *)
(*                                                                         *)
(* An identity is a conversation and an action key, where the key stands   *)
(* for the tool and the hash of its content.  Keys in TicketKeys are those *)
(* of linear_create_ticket with a trusted sender and message: they are     *)
(* matched in any conversation but only for Window hours, share the lock   *)
(* of their sender, and are compared with the sender's other tickets.  A   *)
(* ticket without one of these is an action of its conversation like any   *)
(* other (TitleKeys).                                                      *)
(***************************************************************************)
EXTENDS Naturals, FiniteSets, Sequences

CONSTANTS
  Tasks,          \* handler tasks of the server process
  Convs,          \* conversations
  Keys,           \* action keys
  Identities,     \* the conversations and keys that calls may name
  TicketKeys,     \* the "request:" keys of linear_create_ticket
  TitleKeys,      \* its "title:" keys, of calls without a sender or a message
  Senders,
  SenderOf,       \* ticket key -> the sender whose hash it starts with
  Window,         \* LINEAR_DEDUPE_WINDOW_HOURS (24), in ticks of the model
  MaxCandidates,  \* LINEAR_DEDUPE_MAX_CANDIDATES (5)
  MarkedResults,  \* TRUE: a ticket's URL may hold a word _should_record_result
                  \* takes for a failure
  MaxCalls,       \* bound: tool calls
  MaxFaults,      \* bound: unanswered requests, database errors, crashes
  NoTask, NoCall

ASSUME IdentitiesAssumption == Identities \subseteq Convs \X Keys
ASSUME TicketKeysAssumption == TicketKeys \subseteq Keys
ASSUME TitleKeysAssumption == TitleKeys \subseteq Keys \ TicketKeys
ASSUME SenderOfAssumption == SenderOf \in [TicketKeys -> Senders]
ASSUME WindowAssumption == Window \in Nat \ {0}
ASSUME CandidatesAssumption == MaxCandidates \in Nat \ {0}
ASSUME MarkedAssumption == MarkedResults \in BOOLEAN
ASSUME CallsAssumption == MaxCalls \in Nat /\ MaxFaults \in Nat
ASSUME NoneAssumption == NoTask \notin Tasks /\ NoCall \notin Identities

VARIABLES
  actions,  \* conversation_actions, in the order of insertion
  effects,  \* history: the writes the providers accepted, in order
  pc,       \* task -> the await it is at
  call,     \* task -> the identity it executes
  result,   \* task -> what the provider call returned
  locks,    \* lock key -> the task that holds it
  calls, faults

vars == <<actions, effects, pc, call, result, locks, calls, faults>>

-----------------------------------------------------------------------------

Conv(id) == id[1]
Key(id) == id[2]
IsTicket(id) == Key(id) \in TicketKeys
MakesTicket(id) == Key(id) \in TicketKeys \cup TitleKeys

\* Mutant of LockKey: a lock of the conversation's own for every action.
LockKeyOfIdentity(id) == id

\* _action_lock_key.
LockKey(id) == IF IsTicket(id) THEN SenderOf[Key(id)] ELSE id

LockKeys == Senders \cup Identities

\* "done", "marked" (done, but read as a failure), "empty" (linear_create_ticket
\* answered with no issue, which is reported as ticket_created) or "failed".
Results == {"none", "done", "marked", "empty", "failed"}

\* Mutant of ShouldRecord: a failure recorded like a success.
ShouldRecordAlways(r) == TRUE

\* _should_record_result.
ShouldRecord(r) == r \in {"done", "empty"}

Rows == 1..Len(actions)

\* Mutant of Existing: the window applied to every action.
ExistingWithinWindow(id) ==
  {i \in Rows : /\ IF IsTicket(id) THEN Key(actions[i].id) = Key(id)
                                   ELSE actions[i].id = id
                /\ actions[i].left > 0}

\* _existing_action: the rows its query returns.
Existing(id) ==
  {i \in Rows : IF IsTicket(id)
                THEN Key(actions[i].id) = Key(id) /\ actions[i].left > 0
                ELSE actions[i].id = id}

\* get_recent_actions_by_type_key_prefix: the latest tickets of the same sender.
Candidates(id) ==
  LET others == {i \in Rows : /\ IsTicket(actions[i].id)
                              /\ SenderOf[Key(actions[i].id)] = SenderOf[Key(id)]
                              /\ Key(actions[i].id) # Key(id)
                              /\ actions[i].left > 0} IN
  {i \in others : Cardinality({j \in others : j > i}) < MaxCandidates}

Goto(t, label) == pc' = [pc EXCEPT ![t] = label]

\* The end of the async-with block, by return or by exception.
Exit(t) ==
  /\ Goto(t, "idle")
  /\ locks' = [locks EXCEPT ![LockKey(call[t])] = NoTask]
  /\ call' = [call EXCEPT ![t] = NoCall]
  /\ result' = [result EXCEPT ![t] = "none"]

Fault == faults < MaxFaults /\ faults' = faults + 1

-----------------------------------------------------------------------------

Call(t, id) ==
  /\ pc[t] = "idle"
  /\ calls < MaxCalls
  /\ calls' = calls + 1
  /\ call' = [call EXCEPT ![t] = id]
  /\ Goto(t, "lock")
  /\ UNCHANGED <<actions, effects, result, locks, faults>>

TakeLock(t) ==
  /\ pc[t] = "lock"
  /\ locks[LockKey(call[t])] = NoTask
  /\ locks' = [locks EXCEPT ![LockKey(call[t])] = t]
  /\ Goto(t, "check")
  /\ UNCHANGED <<actions, effects, call, result, calls, faults>>

\* A recorded action is not repeated: its result is returned.
CheckLedger(t) ==
  /\ pc[t] = "check"
  /\ \/ Existing(call[t]) # {} /\ Exit(t)
     \/ /\ Existing(call[t]) = {}
        /\ Goto(t, IF IsTicket(call[t]) THEN "review" ELSE "act")
        /\ UNCHANGED <<call, result, locks>>
  /\ UNCHANGED <<actions, effects, calls, faults>>

\* The semantic review: a candidate with a ticket reference may be taken for the
\* same request; refused, failed or without candidates it lets the call go on.
Review(t) ==
  /\ pc[t] = "review"
  /\ \/ /\ \E i \in Candidates(call[t]) : actions[i].result = "done"
        /\ Exit(t)
     \/ Goto(t, "act") /\ UNCHANGED <<call, result, locks>>
  /\ UNCHANGED <<actions, effects, calls, faults>>

Accepted(t, marked) ==
  effects' = Append(effects, [id |-> call[t], left |-> Window, marked |-> marked])

\* The provider performs the write and answers.
Act(t) ==
  /\ pc[t] = "act"
  /\ \E r \in {"done"} \cup IF MakesTicket(call[t]) /\ MarkedResults THEN {"marked"} ELSE {} :
       /\ result' = [result EXCEPT ![t] = r]
       /\ Accepted(t, r = "marked")
  /\ Goto(t, "record")
  /\ UNCHANGED <<actions, call, locks, calls, faults>>

\* It refuses: the tool returns a "failed" text; but an answer without an issue
\* counts as a created ticket.
ActRefused(t) ==
  /\ pc[t] = "act"
  /\ \E r \in {"failed"} \cup IF MakesTicket(call[t]) THEN {"empty"} ELSE {} :
       result' = [result EXCEPT ![t] = r]
  /\ Goto(t, "record")
  /\ UNCHANGED <<actions, effects, call, locks, calls, faults>>

\* It performs the write but the answer is lost: the request is retried, the tool
\* returns its "failed" text, or the exception leaves execute_tool_call.
ActUnanswered(t) ==
  /\ pc[t] = "act"
  /\ Fault
  /\ Accepted(t, FALSE)
  /\ \/ UNCHANGED <<pc, call, result, locks>>
     \/ /\ result' = [result EXCEPT ![t] = "failed"]
        /\ Goto(t, "record")
        /\ UNCHANGED <<call, locks>>
     \/ Exit(t)
  /\ UNCHANGED <<actions, calls>>

\* Mutants of Record and DbError: the result not looked at, and the lock kept when
\* a statement raises.
RecordWhatever(t) ==
  /\ pc[t] = "record"
  /\ actions' = Append(actions, [id |-> call[t], result |-> result[t], left |-> Window])
  /\ Exit(t)
  /\ UNCHANGED <<effects, calls, faults>>

DbErrorHolding(t) ==
  /\ pc[t] \in {"check", "review", "act", "record"}
  /\ Fault
  /\ Goto(t, "idle")
  /\ call' = [call EXCEPT ![t] = NoCall]
  /\ result' = [result EXCEPT ![t] = "none"]
  /\ UNCHANGED <<actions, effects, locks, calls>>

\* record_action: a row of the same identity stays as it is, whether it is found
\* before the insert or by the IntegrityError of the insert.
Record(t) ==
  /\ pc[t] = "record"
  /\ actions' = IF ShouldRecord(result[t]) /\ \A i \in Rows : actions[i].id # call[t]
                THEN Append(actions, [id |-> call[t], result |-> result[t],
                                      left |-> Window])
                ELSE actions
  /\ Exit(t)
  /\ UNCHANGED <<effects, calls, faults>>

\* A database error at any statement leaves execute_tool_call; the tools read the
\* database too, before they write to the provider.
DbError(t) ==
  /\ pc[t] \in {"check", "review", "act", "record"}
  /\ Fault
  /\ Exit(t)
  /\ UNCHANGED <<actions, effects, calls>>

Crash ==
  /\ Fault
  /\ \E t \in Tasks : pc[t] # "idle"
  /\ pc' = [t \in Tasks |-> "idle"]
  /\ call' = [t \in Tasks |-> NoCall]
  /\ result' = [t \in Tasks |-> "none"]
  /\ locks' = [k \in LockKeys |-> NoTask]
  /\ UNCHANGED <<actions, effects, calls>>

Aged(seq) == [i \in 1..Len(seq) |-> [seq[i] EXCEPT !.left = IF @ = 0 THEN 0 ELSE @ - 1]]

Tick ==
  /\ \E i \in 1..Len(effects) : effects[i].left > 0
  /\ actions' = Aged(actions)
  /\ effects' = Aged(effects)
  /\ UNCHANGED <<pc, call, result, locks, calls, faults>>

-----------------------------------------------------------------------------

Init ==
  /\ actions = <<>>
  /\ effects = <<>>
  /\ pc = [t \in Tasks |-> "idle"]
  /\ call = [t \in Tasks |-> NoCall]
  /\ result = [t \in Tasks |-> "none"]
  /\ locks = [k \in LockKeys |-> NoTask]
  /\ calls = 0
  /\ faults = 0

\* What a task does by itself; the provider answers, one way or the other.
Run(t) ==
  \/ TakeLock(t) \/ CheckLedger(t) \/ Review(t)
  \/ Act(t) \/ ActRefused(t) \/ Record(t)

Next ==
  \/ \E t \in Tasks : \/ \E id \in Identities : Call(t, id)
                      \/ Run(t) \/ ActUnanswered(t) \/ DbError(t)
  \/ Crash
  \/ Tick

Spec == Init /\ [][Next]_vars

\* Every provider call has a timeout and every runnable coroutine runs; asyncio
\* locks serve their waiters in order.
Fairness == \A t \in Tasks : SF_vars(TakeLock(t)) /\ WF_vars(Run(t))

FairSpec == Spec /\ Fairness

-----------------------------------------------------------------------------
(* Properties *)

Entry == [id: Identities, left: 0..Window, marked: BOOLEAN]

TypeOK ==
  /\ actions \in Seq([id: Identities, result: {"done", "empty"}, left: 0..Window])
  /\ effects \in Seq(Entry)
  /\ pc \in [Tasks -> {"idle", "lock", "check", "review", "act", "record"}]
  /\ call \in [Tasks -> Identities \cup {NoCall}]
  /\ result \in [Tasks -> Results]
  /\ locks \in [LockKeys -> Tasks \cup {NoTask}]
  /\ calls \in 0..MaxCalls
  /\ faults \in 0..MaxFaults

\* The check is still true when the write is made: no task is about to perform or
\* to record an action that conversation_actions already holds (in the window,
\* for tickets), although reviews and provider calls lie in between.
CheckStaysTrue ==
  \A t \in Tasks : pc[t] \in {"review", "act", "record"} => Existing(call[t]) = {}

\* Outside the ticket window: of the writes of one identity, all but one had an
\* answer, a record or the process lost, or were tickets whose answer holds a word
\* that _should_record_result takes for a failure.
RepeatNeedsFault ==
  \A id \in Identities : ~IsTicket(id) =>
    Cardinality({i \in 1..Len(effects) : effects[i].id = id /\ ~effects[i].marked})
      <= 1 + faults

\* A call is skipped for the sake of a recorded row only if the provider did accept
\* that row's write, although failures come back as mere result texts.  (A ticket
\* answered without an issue is the exception: it is recorded as created.)
RecordedWasPerformed ==
  \A i \in Rows : actions[i].result # "empty" =>
    \E j \in 1..Len(effects) : effects[j].id = actions[i].id

\* Every tool call returns, whatever fails and whoever else wants the lock.
EveryCallReturns == \A t \in Tasks : pc[t] # "idle" ~> pc[t] = "idle"

\* README.md, on linear_create_ticket: "An exact normalized-message match reuses the
\* first successful ticket immediately."
OneTicketPerWindow ==
  \A k \in TicketKeys :
    Cardinality({i \in 1..Len(effects) : Key(effects[i].id) = k /\ effects[i].left > 0})
      <= 1 + faults
=============================================================================
