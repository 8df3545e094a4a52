------------------------- MODULE ActionLedgerProofs --------------------------
(***************************************************************************)
(* What ActionLedger guarantees for any tasks, conversations, keys and     *)
(* senders, any window, and any number of calls and faults.                *)
(***************************************************************************)
EXTENDS ActionLedger, FiniteSetTheorems, SequenceTheorems, TLAPS

ActionRow == [id: Identities, result: {"done", "empty"}, left: 0..Window]

\* The awaits inside the async-with block of execute_tool_call.
Inside == {"check", "review", "act", "record"}

\* A task in the block holds the lock of its identity.
LockHeld == \A t \in Tasks : pc[t] \in Inside => locks[LockKey(call[t])] = t

\* A task outside "idle" executes an identity.
CallKnown == \A t \in Tasks : pc[t] # "idle" => call[t] \in Identities

WasPerformed(id) == \E j \in 1..Len(effects) : effects[j].id = id

\* A task about to record has an answer; a good one was given to a write that
\* the provider performed, and a marked one to a ticket.
ResultBacked ==
  \A t \in Tasks : pc[t] = "record" =>
    /\ result[t] \in {"done", "marked", "empty", "failed"}
    /\ result[t] = "done" => WasPerformed(call[t])
    /\ result[t] \in {"marked", "empty"} => MakesTicket(call[t])

\* The writes accepted for an identity whose answer, if any, does not read as a failure.
Performed(id) == {i \in 1..Len(effects) : effects[i].id = id /\ ~effects[i].marked}

\* One write of an identity is in the ledger or about to be.
Accounted(id) ==
  \/ \E i \in Rows : actions[i].id = id
  \/ \E t \in Tasks : pc[t] = "record" /\ call[t] = id /\ result[t] = "done"

\* Of the writes of an identity a fault has paid for all, or for all but one
\* that is accounted for.
RepeatsPaid ==
  \A id \in Identities : ~IsTicket(id) =>
    \/ Cardinality(Performed(id)) <= faults
    \/ Cardinality(Performed(id)) <= 1 + faults /\ Accounted(id)

IInv ==
  /\ TypeOK
  /\ LockHeld
  /\ CallKnown
  /\ CheckStaysTrue
  /\ ResultBacked
  /\ RecordedWasPerformed
  /\ RepeatsPaid

-----------------------------------------------------------------------------
(* Identities and their locks.                                             *)

LEMMA LockKeyType ==
  ASSUME NEW id \in Identities
  PROVE  LockKey(id) \in LockKeys
BY SenderOfAssumption DEF LockKey, LockKeys, IsTicket

\* Two tasks in the block have different lock keys.
LEMMA LocksExclude ==
  ASSUME LockHeld, NEW t \in Tasks, NEW u \in Tasks, t # u,
         pc[t] \in Inside, pc[u] \in Inside
  PROVE  LockKey(call[t]) # LockKey(call[u])
BY DEF LockHeld

\* A task whose lock is free is not in the block.
LEMMA FreeLock ==
  ASSUME LockHeld, NEW t \in Tasks, pc[t] \in Inside
  PROVE  locks[LockKey(call[t])] # NoTask
BY NoneAssumption DEF LockHeld

-----------------------------------------------------------------------------
(* Sequences that grow and grow old.                                       *)

LEMMA AgedSeq ==
  ASSUME NEW S, NEW seq \in Seq(S),
         \A r \in S : [r EXCEPT !.left = IF @ = 0 THEN 0 ELSE @ - 1] \in S
  PROVE  /\ Aged(seq) \in Seq(S)
         /\ Len(Aged(seq)) = Len(seq)
         /\ \A i \in 1..Len(seq) :
              Aged(seq)[i] = [seq[i] EXCEPT !.left = IF @ = 0 THEN 0 ELSE @ - 1]
<1>1. Len(seq) \in Nat /\ \A i \in 1..Len(seq) : seq[i] \in S
  BY LenProperties, ElementOfSeq
<1>2. Aged(seq) \in [1..Len(seq) -> S]
  BY <1>1 DEF Aged
<1>3. Aged(seq) \in Seq(S)
  BY <1>1, <1>2
<1>4. Len(Aged(seq)) = Len(seq)
  BY <1>1, <1>2, <1>3, LenProperties
<1>5. QED
  BY <1>3, <1>4 DEF Aged

\* Growing old keeps the rows' identities and results, and renews nothing.
LEMMA AgedRows ==
  ASSUME TypeOK, Tick
  PROVE  /\ actions' \in Seq(ActionRow) /\ effects' \in Seq(Entry)
         /\ Len(actions') = Len(actions) /\ Len(effects') = Len(effects)
         /\ \A i \in 1..Len(actions) : /\ actions'[i].id = actions[i].id
                                       /\ actions'[i].result = actions[i].result
                                       /\ actions'[i].left > 0 => actions[i].left > 0
         /\ \A i \in 1..Len(effects) : /\ effects'[i].id = effects[i].id
                                       /\ effects'[i].marked = effects[i].marked
<1>1. actions \in Seq(ActionRow) /\ effects \in Seq(Entry)
  BY DEF TypeOK, ActionRow
<1>2. actions' = Aged(actions) /\ effects' = Aged(effects)
  BY DEF Tick
<1>3. \A n \in 0..Window : (IF n = 0 THEN 0 ELSE n - 1) \in 0..Window
  BY WindowAssumption
<1>4. \A r \in ActionRow : [r EXCEPT !.left = IF @ = 0 THEN 0 ELSE @ - 1] \in ActionRow
  BY <1>3 DEF ActionRow
<1>5. \A r \in Entry : [r EXCEPT !.left = IF @ = 0 THEN 0 ELSE @ - 1] \in Entry
  BY <1>3 DEF Entry
<1>6. \A i \in 1..Len(actions) : actions[i] \in ActionRow
  BY <1>1, ElementOfSeq
<1>7. \A i \in 1..Len(effects) : effects[i] \in Entry
  BY <1>1, ElementOfSeq
<1>8. /\ actions' \in Seq(ActionRow) /\ Len(actions') = Len(actions)
      /\ \A i \in 1..Len(actions) :
           actions'[i] = [actions[i] EXCEPT !.left = IF @ = 0 THEN 0 ELSE @ - 1]
  BY <1>1, <1>2, <1>4, AgedSeq
<1>9. /\ effects' \in Seq(Entry) /\ Len(effects') = Len(effects)
      /\ \A i \in 1..Len(effects) :
           effects'[i] = [effects[i] EXCEPT !.left = IF @ = 0 THEN 0 ELSE @ - 1]
  BY <1>1, <1>2, <1>5, AgedSeq
<1>10. \A i \in 1..Len(actions) : /\ actions'[i].id = actions[i].id
                                  /\ actions'[i].result = actions[i].result
                                  /\ actions'[i].left > 0 => actions[i].left > 0
  <2> TAKE i \in 1..Len(actions)
  <2>1. actions[i] \in ActionRow /\ actions[i].left \in Nat
    BY <1>6, WindowAssumption DEF ActionRow
  <2>2. actions'[i] = [actions[i] EXCEPT !.left = IF @ = 0 THEN 0 ELSE @ - 1]
    BY <1>8
  <2>3. QED
    BY <2>1, <2>2 DEF ActionRow
<1>11. \A i \in 1..Len(effects) : /\ effects'[i].id = effects[i].id
                                  /\ effects'[i].marked = effects[i].marked
  BY <1>7, <1>9 DEF Entry
<1>12. QED
  BY <1>8, <1>9, <1>10, <1>11

LEMMA PerformedFinite ==
  ASSUME TypeOK, NEW id
  PROVE  IsFiniteSet(Performed(id)) /\ Cardinality(Performed(id)) \in Nat
<1>1. Len(effects) \in Nat
  BY LenProperties DEF TypeOK
<1>2. IsFiniteSet(1..Len(effects))
  BY <1>1, FS_Interval
<1>3. Performed(id) \subseteq 1..Len(effects)
  BY DEF Performed
<1>4. QED
  BY <1>2, <1>3, FS_Subset, FS_CardinalityType

\* An accepted write counts for its own identity, unless it is marked, and for no other.
LEMMA AcceptedCounts ==
  ASSUME TypeOK, NEW t \in Tasks, NEW own \in Identities, call[t] = own,
         NEW marked \in BOOLEAN, Accepted(t, marked)
  PROVE  /\ effects' \in Seq(Entry)
         /\ \A id : WasPerformed(id) => WasPerformed(id)'
         /\ WasPerformed(own)'
         /\ ~marked => Cardinality(Performed(own)') = Cardinality(Performed(own)) + 1
         /\ \A id : marked \/ id # own => Performed(id)' = Performed(id)
<1> DEFINE e == [id |-> own, left |-> Window, marked |-> marked]
           n == Len(effects)
<1>1. effects \in Seq(Entry) /\ e \in Entry /\ effects' = Append(effects, e)
  BY WindowAssumption DEF TypeOK, Entry, Accepted
<1>2. n \in Nat
  BY <1>1, LenProperties
<1>3. /\ effects' \in Seq(Entry) /\ Len(effects') = n + 1
      /\ \A i \in 1..n : effects'[i] = effects[i]
      /\ effects'[n + 1] = e
  BY <1>1, AppendProperties
<1>4. 1..n + 1 = (1..n) \cup {n + 1} /\ n + 1 \in 1..n + 1
  BY <1>2
<1>5. \A id : Performed(id)' =
               IF id = own /\ ~marked THEN Performed(id) \cup {n + 1} ELSE Performed(id)
  BY <1>3, <1>4, <1>2 DEF Performed
<1>6. n + 1 \notin Performed(own)
  BY <1>2 DEF Performed
<1>7. ~marked => Cardinality(Performed(own)') = Cardinality(Performed(own)) + 1
  BY <1>5, <1>6, PerformedFinite, FS_AddElement
<1>8. \A id : WasPerformed(id) => WasPerformed(id)'
  BY <1>2, <1>3 DEF WasPerformed
<1>9. WasPerformed(own)'
  BY <1>3, <1>4 DEF WasPerformed
<1>10. QED
  BY <1>3, <1>5, <1>7, <1>8, <1>9

-----------------------------------------------------------------------------
(* What each conjunct needs of a step.                                     *)

\* Only t moves.
Others(t) ==
  \A u \in Tasks : u # t =>
    pc'[u] = pc[u] /\ call'[u] = call[u] /\ result'[u] = result[u]

\* What was performed stays so.
History == \A id : WasPerformed(id) => WasPerformed(id)'

LEMMA CheckKept ==
  ASSUME CheckStaysTrue, NEW t \in Tasks, Others(t), UNCHANGED actions,
         pc'[t] \in {"review", "act", "record"} => Existing(call'[t]) = {}
  PROVE  CheckStaysTrue'
BY DEF CheckStaysTrue, Others, Existing, Rows

LEMMA BackedKept ==
  ASSUME ResultBacked, NEW t \in Tasks, Others(t), History,
         pc'[t] = "record" =>
           /\ result'[t] \in {"done", "marked", "empty", "failed"}
           /\ result'[t] = "done" => WasPerformed(call[t])' /\ call'[t] = call[t]
           /\ result'[t] \in {"marked", "empty"} => MakesTicket(call'[t])
  PROVE  ResultBacked'
<1> SUFFICES ASSUME NEW u \in Tasks, pc'[u] = "record"
             PROVE  /\ result'[u] \in {"done", "marked", "empty", "failed"}
                    /\ result'[u] = "done" => WasPerformed(call[u])'
                    /\ result'[u] \in {"marked", "empty"} => MakesTicket(call'[u])
  BY DEF ResultBacked
<1>1. CASE u = t
  BY <1>1
<1>2. CASE u # t
  BY <1>2 DEF Others, ResultBacked, History, WasPerformed
<1>3. QED
  BY <1>1, <1>2

LEMMA RecordedKept ==
  ASSUME RecordedWasPerformed, UNCHANGED actions, History
  PROVE  RecordedWasPerformed'
BY DEF RecordedWasPerformed, History, WasPerformed, Rows

\* A fault pays for one loss or one more write.
LEMMA PaidKept ==
  ASSUME TypeOK, RepeatsPaid, faults' \in Nat, faults' >= faults,
         \A id \in Identities : Performed(id)' = Performed(id),
         \A id \in Identities :
           ~IsTicket(id) /\ Accounted(id) => Accounted(id)' \/ faults' = faults + 1
  PROVE  RepeatsPaid'
<1> SUFFICES ASSUME NEW id \in Identities, ~IsTicket(id)
             PROVE  \/ Cardinality(Performed(id)') <= faults'
                    \/ Cardinality(Performed(id)') <= 1 + faults' /\ Accounted(id)'
  BY DEF RepeatsPaid
<1>1. Cardinality(Performed(id)) \in Nat /\ faults \in Nat
  BY PerformedFinite, CallsAssumption DEF TypeOK
<1>2. QED
  BY <1>1 DEF RepeatsPaid

\* With the ledger as it was, an identity stays accounted for while no task that
\* is about to record leaves.
LEMMA AccountedKept ==
  ASSUME UNCHANGED actions, NEW t \in Tasks, Others(t), pc[t] # "record"
  PROVE  \A id : Accounted(id) => Accounted(id)'
<1> SUFFICES ASSUME NEW id, Accounted(id)
             PROVE  Accounted(id)'
  OBVIOUS
<1>1. CASE \E i \in Rows : actions[i].id = id
  BY <1>1 DEF Accounted, Rows
<1>2. CASE \E u \in Tasks : pc[u] = "record" /\ call[u] = id /\ result[u] = "done"
  BY <1>2 DEF Accounted, Others
<1>3. QED
  BY <1>1, <1>2 DEF Accounted

\* Leaving the block frees the lock of the task and of no other one.
LEMMA ExitKeeps ==
  ASSUME IInv, NEW t \in Tasks, pc[t] \in Inside, Exit(t)
  PROVE  /\ Others(t) /\ pc'[t] = "idle"
         /\ pc' \in [Tasks -> {"idle", "lock", "check", "review", "act", "record"}]
         /\ call' \in [Tasks -> Identities \cup {NoCall}]
         /\ result' \in [Tasks -> Results]
         /\ locks' \in [LockKeys -> Tasks \cup {NoTask}]
         /\ LockHeld' /\ CallKnown'
<1>1. call[t] \in Identities /\ LockKey(call[t]) \in LockKeys
  BY LockKeyType DEF IInv, CallKnown, Inside
<1>2. /\ pc' = [pc EXCEPT ![t] = "idle"]
      /\ call' = [call EXCEPT ![t] = NoCall]
      /\ result' = [result EXCEPT ![t] = "none"]
      /\ locks' = [locks EXCEPT ![LockKey(call[t])] = NoTask]
  BY DEF Exit, Goto
<1>3. Others(t) /\ pc'[t] = "idle"
  BY <1>2 DEF Others, IInv, TypeOK
<1>4. /\ pc' \in [Tasks -> {"idle", "lock", "check", "review", "act", "record"}]
      /\ call' \in [Tasks -> Identities \cup {NoCall}]
      /\ result' \in [Tasks -> Results]
      /\ locks' \in [LockKeys -> Tasks \cup {NoTask}]
  BY <1>1, <1>2 DEF IInv, TypeOK, Results
<1>5. LockHeld'
  <2> SUFFICES ASSUME NEW u \in Tasks, pc'[u] \in Inside
               PROVE  locks'[LockKey(call'[u])] = u
    BY DEF LockHeld, LockKey, IsTicket, Key
  <2>1. u # t /\ pc[u] \in Inside /\ call'[u] = call[u]
    BY <1>3 DEF Others, Inside
  <2>2. LockKey(call[u]) # LockKey(call[t]) /\ locks[LockKey(call[u])] = u
    BY <2>1, LocksExclude DEF IInv, LockHeld
  <2>3. LockKey(call[u]) \in LockKeys
    BY <2>1, LockKeyType DEF IInv, CallKnown, Inside
  <2>4. QED
    BY <1>2, <2>1, <2>2, <2>3 DEF IInv, TypeOK
<1>6. CallKnown'
  BY <1>3 DEF Others, IInv, CallKnown
<1>7. QED
  BY <1>3, <1>4, <1>5, <1>6

\* A step inside the block that keeps the lock.
LEMMA MoveKeeps ==
  ASSUME IInv, NEW t \in Tasks, pc[t] \in Inside, NEW label \in Inside, Goto(t, label),
         UNCHANGED <<call, locks>>
  PROVE  /\ pc' = [pc EXCEPT ![t] = label] /\ pc'[t] = label
         /\ pc' \in [Tasks -> {"idle", "lock", "check", "review", "act", "record"}]
         /\ LockHeld' /\ CallKnown'
<1>1. pc' = [pc EXCEPT ![t] = label]
  BY DEF Goto
<1>2. /\ pc'[t] = label
      /\ pc' \in [Tasks -> {"idle", "lock", "check", "review", "act", "record"}]
  BY <1>1 DEF IInv, TypeOK, Inside
<1>3. LockHeld' /\ CallKnown'
  BY <1>1 DEF IInv, TypeOK, LockHeld, CallKnown, Inside, LockKey, IsTicket, Key
<1>4. QED
  BY <1>1, <1>2, <1>3

\* Leaving the block without a write: by a return before it, or at a fault.
LEMMA LeaveKeeps ==
  ASSUME IInv, NEW t \in Tasks, pc[t] \in Inside, Exit(t),
         UNCHANGED <<actions, effects, calls>>,
         (UNCHANGED faults /\ pc[t] # "record") \/ Fault
  PROVE  IInv'
<1>1. Others(t) /\ pc'[t] = "idle" /\ LockHeld' /\ CallKnown'
  BY ExitKeeps
<1>2. faults' \in 0..MaxFaults /\ faults' >= faults /\ faults \in Nat /\ faults' \in Nat
  BY CallsAssumption DEF IInv, TypeOK, Fault
<1>3. TypeOK'
  BY <1>2, ExitKeeps DEF IInv, TypeOK
<1>4. History
  BY DEF History, WasPerformed
<1>5. CheckStaysTrue' /\ ResultBacked' /\ RecordedWasPerformed'
  BY <1>1, <1>4, CheckKept, BackedKept, RecordedKept DEF IInv
<1>6. RepeatsPaid'
  <2>1. \A id \in Identities : Performed(id)' = Performed(id)
    BY DEF Performed
  <2>2. \A id \in Identities : Accounted(id) => Accounted(id)' \/ faults' = faults + 1
    BY <1>1, AccountedKept DEF Fault
  <2>3. QED
    BY <1>2, <2>1, <2>2, PaidKept DEF IInv
<1>7. QED
  BY <1>1, <1>3, <1>5, <1>6 DEF IInv

-----------------------------------------------------------------------------
(* The steps.                                                              *)

LEMMA InitIInv == Init => IInv
<1> SUFFICES ASSUME Init PROVE IInv
  OBVIOUS
<1>1. TypeOK
  BY CallsAssumption, EmptySeq DEF Init, TypeOK, Results
<1>2. LockHeld /\ CallKnown /\ CheckStaysTrue /\ ResultBacked
  BY DEF Init, LockHeld, CallKnown, CheckStaysTrue, ResultBacked, Inside
<1>3. Len(actions) = 0 /\ Len(effects) = 0
  BY DEF Init
<1>4. RecordedWasPerformed
  BY <1>3 DEF RecordedWasPerformed, Rows
<1>5. RepeatsPaid
  <2>1. \A id : Performed(id) = {}
    BY <1>3 DEF Performed
  <2>2. faults = 0
    BY DEF Init
  <2>3. QED
    BY <2>1, <2>2, FS_EmptySet DEF RepeatsPaid
<1>6. QED
  BY <1>1, <1>2, <1>4, <1>5 DEF IInv

\* Taking a call: the task was idle and is at the lock.
LEMMA CallKeeps ==
  ASSUME IInv, NEW t \in Tasks, NEW id \in Identities, Call(t, id)
  PROVE  IInv'
<1>1. /\ pc[t] = "idle" /\ pc' = [pc EXCEPT ![t] = "lock"]
      /\ call' = [call EXCEPT ![t] = id]
      /\ UNCHANGED <<actions, effects, result, locks, faults>>
  BY DEF Call, Goto
<1>2. pc'[t] = "lock" /\ Others(t)
  BY <1>1 DEF IInv, TypeOK, Others
<1>3. TypeOK'
  BY <1>1, CallsAssumption DEF Call, IInv, TypeOK
<1>4. LockHeld' /\ CallKnown'
  BY <1>1, <1>2 DEF IInv, TypeOK, LockHeld, CallKnown, Inside, LockKey, IsTicket, Key, Others
<1>5. History /\ \A i \in Identities : Performed(i)' = Performed(i)
  BY <1>1 DEF History, WasPerformed, Performed
<1>6. CheckStaysTrue' /\ ResultBacked' /\ RecordedWasPerformed'
  BY <1>1, <1>2, <1>5, CheckKept, BackedKept, RecordedKept DEF IInv
<1>7. RepeatsPaid'
  <2>1. \A i : Accounted(i) => Accounted(i)'
    BY <1>1, <1>2, AccountedKept
  <2>2. faults' = faults /\ faults \in Nat
    BY <1>1, CallsAssumption DEF IInv, TypeOK
  <2>3. QED
    BY <1>5, <2>1, <2>2, PaidKept DEF IInv
<1>8. QED
  BY <1>3, <1>4, <1>6, <1>7 DEF IInv

LEMMA TakeLockKeeps ==
  ASSUME IInv, NEW t \in Tasks, TakeLock(t)
  PROVE  IInv'
<1>1. /\ pc[t] = "lock" /\ pc' = [pc EXCEPT ![t] = "check"]
      /\ locks[LockKey(call[t])] = NoTask
      /\ locks' = [locks EXCEPT ![LockKey(call[t])] = t]
      /\ UNCHANGED <<actions, effects, call, result, calls, faults>>
  BY DEF TakeLock, Goto
<1>2. pc'[t] = "check" /\ Others(t)
  BY <1>1 DEF IInv, TypeOK, Others
<1>3. call[t] \in Identities /\ LockKey(call[t]) \in LockKeys
  BY <1>1, LockKeyType DEF IInv, CallKnown
<1>4. TypeOK'
  BY <1>1, <1>3 DEF IInv, TypeOK
<1>5. LockHeld'
  <2> SUFFICES ASSUME NEW u \in Tasks, pc'[u] \in Inside
               PROVE  locks'[LockKey(call[u])] = u
    BY <1>1 DEF LockHeld, LockKey, IsTicket, Key
  <2>1. CASE u = t
    BY <1>1, <1>3, <2>1 DEF IInv, TypeOK
  <2>2. CASE u # t
    <3>1. pc[u] \in Inside /\ locks[LockKey(call[u])] = u
      BY <1>2, <2>2 DEF Others, IInv, LockHeld
    <3>2. LockKey(call[u]) # LockKey(call[t])
      BY <1>1, <3>1, FreeLock DEF IInv
    <3>3. LockKey(call[u]) \in LockKeys
      BY <3>1, LockKeyType DEF IInv, CallKnown, Inside
    <3>4. QED
      BY <1>1, <3>1, <3>2, <3>3 DEF IInv, TypeOK
  <2>3. QED
    BY <2>1, <2>2
<1>6. CallKnown'
  BY <1>1, <1>3 DEF IInv, TypeOK, CallKnown
<1>7. History /\ \A i \in Identities : Performed(i)' = Performed(i)
  BY <1>1 DEF History, WasPerformed, Performed
<1>8. CheckStaysTrue' /\ ResultBacked' /\ RecordedWasPerformed'
  BY <1>1, <1>2, <1>7, CheckKept, BackedKept, RecordedKept DEF IInv
<1>9. RepeatsPaid'
  <2>1. \A i : Accounted(i) => Accounted(i)'
    BY <1>1, <1>2, AccountedKept
  <2>2. faults' = faults /\ faults \in Nat
    BY <1>1, CallsAssumption DEF IInv, TypeOK
  <2>3. QED
    BY <1>7, <2>1, <2>2, PaidKept DEF IInv
<1>10. QED
  BY <1>4, <1>5, <1>6, <1>8, <1>9 DEF IInv

\* A step inside the block without a write: what the ledger said is still so.
LEMMA InsideKeeps ==
  ASSUME IInv, NEW t \in Tasks, pc[t] \in Inside \ {"record"}, NEW label \in Inside,
         Goto(t, label), UNCHANGED <<actions, effects, call, locks, calls, faults>>,
         \/ UNCHANGED result /\ label # "record"
         \/ \E r \in {"failed"} \cup IF MakesTicket(call[t]) THEN {"empty"} ELSE {} :
              result' = [result EXCEPT ![t] = r],
         label \in {"review", "act", "record"} => Existing(call[t]) = {}
  PROVE  IInv'
<1>1. /\ pc' = [pc EXCEPT ![t] = label] /\ pc'[t] = label
      /\ pc' \in [Tasks -> {"idle", "lock", "check", "review", "act", "record"}]
      /\ LockHeld' /\ CallKnown'
  BY MoveKeeps
<1>2. /\ result' \in [Tasks -> Results]
      /\ \A u \in Tasks : u # t => result'[u] = result[u]
      /\ label = "record" =>
           result'[t] = "failed" \/ (result'[t] = "empty" /\ MakesTicket(call[t]))
  BY DEF IInv, TypeOK, Results
<1>3. Others(t)
  BY <1>1, <1>2 DEF Others, IInv, TypeOK
<1>4. TypeOK'
  BY <1>1, <1>2 DEF IInv, TypeOK
<1>5. History /\ \A i \in Identities : Performed(i)' = Performed(i)
  BY DEF History, WasPerformed, Performed
<1>6. CheckStaysTrue' /\ ResultBacked' /\ RecordedWasPerformed'
  BY <1>1, <1>2, <1>3, <1>5, CheckKept, BackedKept, RecordedKept DEF IInv
<1>7. RepeatsPaid'
  <2>1. \A i : Accounted(i) => Accounted(i)'
    BY <1>3, AccountedKept
  <2>2. faults' = faults /\ faults \in Nat
    BY CallsAssumption DEF IInv, TypeOK
  <2>3. QED
    BY <1>5, <2>1, <2>2, PaidKept DEF IInv
<1>8. QED
  BY <1>1, <1>4, <1>6, <1>7 DEF IInv

LEMMA CheckLedgerKeeps ==
  ASSUME IInv, NEW t \in Tasks, CheckLedger(t)
  PROVE  IInv'
<1>1. pc[t] = "check" /\ pc[t] \in Inside \ {"record"}
      /\ UNCHANGED <<actions, effects, calls, faults>>
  BY DEF CheckLedger, Inside
<1>2. CASE Exit(t)
  BY <1>1, <1>2, LeaveKeeps
<1>3. CASE /\ Existing(call[t]) = {}
           /\ Goto(t, IF IsTicket(call[t]) THEN "review" ELSE "act")
           /\ UNCHANGED <<call, result, locks>>
  <2> DEFINE label == IF IsTicket(call[t]) THEN "review" ELSE "act"
  <2>1. label \in Inside /\ label # "record" /\ Goto(t, label)
    BY <1>3 DEF Inside
  <2> HIDE DEF label
  <2>2. QED
    BY <1>1, <1>3, <2>1, InsideKeeps
<1>4. QED
  BY <1>2, <1>3 DEF CheckLedger

LEMMA ReviewKeeps ==
  ASSUME IInv, NEW t \in Tasks, Review(t)
  PROVE  IInv'
<1>1. pc[t] = "review" /\ pc[t] \in Inside \ {"record"}
      /\ UNCHANGED <<actions, effects, calls, faults>>
  BY DEF Review, Inside
<1>2. CASE Exit(t)
  BY <1>1, <1>2, LeaveKeeps
<1>3. CASE Goto(t, "act") /\ UNCHANGED <<call, result, locks>>
  <2>1. Existing(call[t]) = {}
    BY <1>1 DEF IInv, CheckStaysTrue
  <2>2. "act" \in Inside /\ "act" # "record"
    BY DEF Inside
  <2>3. QED
    BY <1>1, <1>3, <2>1, <2>2, InsideKeeps
<1>4. QED
  BY <1>2, <1>3 DEF Review

LEMMA ActRefusedKeeps ==
  ASSUME IInv, NEW t \in Tasks, ActRefused(t)
  PROVE  IInv'
<1>1. pc[t] = "act" /\ pc[t] \in Inside \ {"record"} /\ Goto(t, "record")
      /\ UNCHANGED <<actions, effects, call, locks, calls, faults>>
  BY DEF ActRefused, Inside
<1>2. Existing(call[t]) = {} /\ "record" \in Inside
  BY <1>1 DEF IInv, CheckStaysTrue, Inside
<1>3. \E r \in {"failed"} \cup IF MakesTicket(call[t]) THEN {"empty"} ELSE {} :
        result' = [result EXCEPT ![t] = r]
  BY DEF ActRefused
<1>4. QED
  BY <1>1, <1>2, <1>3, InsideKeeps

LEMMA DbErrorKeeps ==
  ASSUME IInv, NEW t \in Tasks, DbError(t)
  PROVE  IInv'
BY LeaveKeeps DEF DbError, Inside

\* Before a write nothing accounts for its identity: every earlier write of it
\* was paid for by a fault.
LEMMA NothingAccounted ==
  ASSUME IInv, NEW t \in Tasks, pc[t] = "act", ~IsTicket(call[t])
  PROVE  ~Accounted(call[t]) /\ Cardinality(Performed(call[t])) <= faults
<1>1. Existing(call[t]) = {} /\ call[t] \in Identities
  BY DEF IInv, CheckStaysTrue, CallKnown
<1>2. ~\E i \in Rows : actions[i].id = call[t]
  BY <1>1 DEF Existing
<1>3. ASSUME NEW u \in Tasks, pc[u] = "record", call[u] = call[t]
      PROVE  FALSE
  <2>1. u # t /\ pc[u] \in Inside /\ pc[t] \in Inside
    BY <1>3 DEF Inside
  <2>2. QED
    BY <1>3, <2>1, LocksExclude DEF IInv
<1>4. ~Accounted(call[t])
  BY <1>2, <1>3 DEF Accounted
<1>5. QED
  BY <1>1, <1>4 DEF IInv, RepeatsPaid

\* An accepted write whose task stays in the block or leaves it.
LEMMA WriteKeeps ==
  ASSUME IInv, NEW t \in Tasks, NEW marked \in BOOLEAN, pc[t] = "act",
         Accepted(t, marked), UNCHANGED <<actions, calls>>,
         Others(t), LockHeld', CallKnown', 
         faults' \in 0..MaxFaults,
         pc' \in [Tasks -> {"idle", "lock", "check", "review", "act", "record"}],
         call' \in [Tasks -> Identities \cup {NoCall}],
         result' \in [Tasks -> Results],
         locks' \in [LockKeys -> Tasks \cup {NoTask}],
         pc'[t] # "idle" => call'[t] = call[t],
         pc'[t] = "record" =>
           \/ result'[t] \in {"done", "failed"}
           \/ result'[t] = "marked" /\ MakesTicket(call[t]),
         \/ faults' = faults + 1
         \/ faults' = faults /\ marked
         \/ faults' = faults /\ pc'[t] = "record" /\ result'[t] = "done"
  PROVE  IInv'
<1> DEFINE own == call[t]
<1>1. own \in Identities /\ pc[t] \in Inside /\ Existing(own) = {}
  BY DEF IInv, CallKnown, CheckStaysTrue, Inside
<1>2. PICK id \in Identities : call[t] = id
  BY <1>1
<1>3. /\ effects' \in Seq(Entry)
      /\ \A i : WasPerformed(i) => WasPerformed(i)'
      /\ WasPerformed(id)'
      /\ ~marked => Cardinality(Performed(id)') = Cardinality(Performed(id)) + 1
      /\ \A i : marked \/ i # id => Performed(i)' = Performed(i)
  BY <1>2, AcceptedCounts DEF IInv
<1>4. TypeOK'
  BY <1>3 DEF IInv, TypeOK, Entry
<1>5. History
  BY <1>3 DEF History
<1>6. CheckStaysTrue' /\ RecordedWasPerformed'
  BY <1>1, <1>5, CheckKept, RecordedKept DEF IInv
<1>7. ResultBacked'
  <2>1. pc'[t] = "record" =>
          /\ call'[t] = id
          /\ result'[t] \in {"done", "marked", "empty", "failed"}
          /\ result'[t] \in {"marked", "empty"} => MakesTicket(id)
    BY <1>2
  <2>2. WasPerformed(call[t])' <=> \E j \in 1..Len(effects') : effects'[j].id = call'[t]
    BY DEF WasPerformed
  <2>3. pc'[t] = "record" => WasPerformed(call[t])'
    BY <1>3, <2>1, <2>2 DEF WasPerformed
  <2> SUFFICES ASSUME NEW u \in Tasks, pc'[u] = "record"
               PROVE  /\ result'[u] \in {"done", "marked", "empty", "failed"}
                      /\ result'[u] = "done" => WasPerformed(call[u])'
                      /\ result'[u] \in {"marked", "empty"} => MakesTicket(call'[u])
    BY DEF ResultBacked
  <2>4. CASE u = t
    BY <2>1, <2>3, <2>4
  <2>5. CASE u # t
    <3>1. pc[u] = "record" /\ call'[u] = call[u] /\ result'[u] = result[u]
      BY <2>5 DEF Others
    <3>2. /\ result[u] \in {"done", "marked", "empty", "failed"}
          /\ result[u] = "done" => WasPerformed(call[u])
          /\ result[u] \in {"marked", "empty"} => MakesTicket(call[u])
      BY <3>1 DEF IInv, ResultBacked
    <3>3. WasPerformed(call[u]) => \E j \in 1..Len(effects') : effects'[j].id = call[u]
      BY <1>5 DEF History, WasPerformed
    <3>4. WasPerformed(call[u]) => WasPerformed(call[u])'
      BY <3>1, <3>3 DEF WasPerformed
    <3>5. QED
      BY <3>1, <3>2, <3>4
  <2>6. QED
    BY <2>4, <2>5
<1>8. RepeatsPaid'
  <2> SUFFICES ASSUME NEW i \in Identities, ~IsTicket(i)
               PROVE  \/ Cardinality(Performed(i)') <= faults'
                      \/ Cardinality(Performed(i)') <= 1 + faults' /\ Accounted(i)'
    BY DEF RepeatsPaid
  <2>1. Cardinality(Performed(i)) \in Nat /\ faults \in Nat
    BY PerformedFinite, CallsAssumption DEF IInv, TypeOK
  <2>2. CASE marked \/ i # id
    <3>1. Performed(i)' = Performed(i)
      BY <1>3, <2>2
    <3>2. Accounted(i) => Accounted(i)'
      BY AccountedKept
    <3>3. faults' \in Nat /\ faults' >= faults
      BY <2>1
    <3>4. QED
      BY <2>1, <3>1, <3>2, <3>3 DEF IInv, RepeatsPaid
  <2>3. CASE ~marked /\ i = id
    <3>1. Cardinality(Performed(i)) <= faults
      BY <1>2, <2>3, NothingAccounted
    <3>2. Cardinality(Performed(i)') = Cardinality(Performed(i)) + 1
      BY <1>3, <2>3
    <3>3. CASE faults' = faults + 1
      BY <2>1, <3>1, <3>2, <3>3
    <3>4. CASE faults' = faults /\ pc'[t] = "record" /\ result'[t] = "done"
      <4>1. call'[t] = i
        BY <1>2, <2>3, <3>4
      <4>2. Accounted(i)'
        BY <3>4, <4>1 DEF Accounted
      <4>3. QED
        BY <2>1, <3>1, <3>2, <3>4, <4>2
    <3>5. QED
      BY <1>2, <2>3, <3>3, <3>4
  <2>4. QED
    BY <2>2, <2>3
<1>9. QED
  BY <1>4, <1>6, <1>7, <1>8 DEF IInv

LEMMA ActKeeps ==
  ASSUME IInv, NEW t \in Tasks, Act(t)
  PROVE  IInv'
<1>1. /\ pc[t] = "act" /\ pc[t] \in Inside /\ "record" \in Inside
      /\ Goto(t, "record")
      /\ UNCHANGED <<actions, call, locks, calls, faults>>
  BY DEF Act, Inside
<1>2. /\ pc' = [pc EXCEPT ![t] = "record"] /\ pc'[t] = "record"
      /\ pc' \in [Tasks -> {"idle", "lock", "check", "review", "act", "record"}]
      /\ LockHeld' /\ CallKnown'
  BY <1>1, MoveKeeps
<1>3. PICK r \in {"done"} \cup IF MakesTicket(call[t]) /\ MarkedResults THEN {"marked"} ELSE {} :
        result' = [result EXCEPT ![t] = r] /\ Accepted(t, r = "marked")
  BY DEF Act
<1>4. /\ result' \in [Tasks -> Results]
      /\ \/ result'[t] = "done"
         \/ result'[t] = "marked" /\ MakesTicket(call[t]) /\ r = "marked"
  BY <1>3 DEF IInv, TypeOK, Results
<1>5. Others(t)
  BY <1>1, <1>2, <1>3 DEF Others, IInv, TypeOK
<1>6. /\ faults' \in 0..MaxFaults
      /\ call' \in [Tasks -> Identities \cup {NoCall}]
      /\ locks' \in [LockKeys -> Tasks \cup {NoTask}]
  BY <1>1 DEF IInv, TypeOK
<1>7. Accepted(t, r = "marked") /\ (r = "marked") \in BOOLEAN
  BY <1>3
<1>8. QED
  BY <1>1, <1>2, <1>4, <1>5, <1>6, <1>7, WriteKeeps

LEMMA ActUnansweredKeeps ==
  ASSUME IInv, NEW t \in Tasks, ActUnanswered(t)
  PROVE  IInv'
<1>1. /\ pc[t] = "act" /\ pc[t] \in Inside /\ "record" \in Inside /\ Accepted(t, FALSE)
      /\ faults' = faults + 1 /\ UNCHANGED <<actions, calls>>
  BY DEF ActUnanswered, Fault, Inside
<1>2. faults' \in 0..MaxFaults
  BY CallsAssumption DEF ActUnanswered, Fault, IInv, TypeOK
<1>3. CASE UNCHANGED <<pc, call, result, locks>>
  <2>1. /\ LockHeld' /\ CallKnown' /\ Others(t)
        /\ pc' \in [Tasks -> {"idle", "lock", "check", "review", "act", "record"}]
        /\ call' \in [Tasks -> Identities \cup {NoCall}]
        /\ result' \in [Tasks -> Results]
        /\ locks' \in [LockKeys -> Tasks \cup {NoTask}]
        /\ pc'[t] = "act" /\ call'[t] = call[t]
    BY <1>1, <1>3 DEF IInv, TypeOK, LockHeld, CallKnown, LockKey, IsTicket, Key, Others
  <2>2. QED
    BY <1>1, <1>2, <2>1, WriteKeeps
<1>4. CASE /\ result' = [result EXCEPT ![t] = "failed"]
           /\ Goto(t, "record")
           /\ UNCHANGED <<call, locks>>
  <2>1. /\ pc' = [pc EXCEPT ![t] = "record"] /\ pc'[t] = "record"
        /\ pc' \in [Tasks -> {"idle", "lock", "check", "review", "act", "record"}]
        /\ LockHeld' /\ CallKnown'
    BY <1>1, <1>4, MoveKeeps
  <2>2. /\ result' \in [Tasks -> Results] /\ result'[t] = "failed"
        /\ call' \in [Tasks -> Identities \cup {NoCall}]
        /\ locks' \in [LockKeys -> Tasks \cup {NoTask}]
        /\ Others(t)
    BY <1>4, <2>1 DEF IInv, TypeOK, Results, Others
  <2>3. QED
    BY <1>1, <1>2, <1>4, <2>1, <2>2, WriteKeeps
<1>5. CASE Exit(t)
  <2>1. /\ Others(t) /\ pc'[t] = "idle"
        /\ pc' \in [Tasks -> {"idle", "lock", "check", "review", "act", "record"}]
        /\ call' \in [Tasks -> Identities \cup {NoCall}]
        /\ result' \in [Tasks -> Results]
        /\ locks' \in [LockKeys -> Tasks \cup {NoTask}]
        /\ LockHeld' /\ CallKnown'
    BY <1>1, <1>5, ExitKeeps
  <2>2. QED
    BY <1>1, <1>2, <2>1, WriteKeeps
<1>6. QED
  BY <1>3, <1>4, <1>5 DEF ActUnanswered

\* record_action's row is of the task's own identity: no task with another lock
\* matches it.
LEMMA RecordKeeps ==
  ASSUME IInv, NEW t \in Tasks, Record(t)
  PROVE  IInv'
<1> DEFINE row == [id |-> call[t], result |-> result[t], left |-> Window]
<1>1. /\ pc[t] = "record" /\ pc[t] \in Inside /\ Exit(t)
      /\ UNCHANGED <<effects, calls, faults>>
      /\ call[t] \in Identities
      /\ \/ UNCHANGED actions
         \/ ShouldRecord(result[t]) /\ actions' = Append(actions, row)
  BY DEF Record, Inside, IInv, CallKnown
<1>2. /\ Others(t) /\ pc'[t] = "idle" /\ LockHeld' /\ CallKnown'
      /\ pc' \in [Tasks -> {"idle", "lock", "check", "review", "act", "record"}]
      /\ call' \in [Tasks -> Identities \cup {NoCall}]
      /\ result' \in [Tasks -> Results]
      /\ locks' \in [LockKeys -> Tasks \cup {NoTask}]
  BY <1>1, ExitKeeps
<1>3. actions \in Seq(ActionRow) /\ Len(actions) \in Nat
  BY LenProperties DEF IInv, TypeOK, ActionRow
<1>4. ASSUME ShouldRecord(result[t]), actions' = Append(actions, row)
      PROVE  /\ row \in ActionRow /\ actions' \in Seq(ActionRow)
             /\ Len(actions') = Len(actions) + 1
             /\ \A i \in 1..Len(actions) : actions'[i] = actions[i]
             /\ actions'[Len(actions) + 1] = row
  <2>1. row \in ActionRow
    BY <1>1, <1>4, WindowAssumption DEF ActionRow, ShouldRecord
  <2>2. QED
    BY <1>3, <1>4, <2>1, AppendProperties
<1>5. TypeOK'
  BY <1>1, <1>2, <1>3, <1>4 DEF IInv, TypeOK, ActionRow
<1>6. History
  BY <1>1 DEF History, WasPerformed
<1>7. ResultBacked'
  BY <1>2, <1>6, BackedKept DEF IInv
<1>8. CheckStaysTrue'
  <2> SUFFICES ASSUME NEW u \in Tasks, pc'[u] \in {"review", "act", "record"}
               PROVE  Existing(call[u])' = {}
    BY DEF CheckStaysTrue
  <2>1. u # t /\ pc[u] = pc'[u] /\ pc[u] \in Inside /\ call'[u] = call[u]
    BY <1>2 DEF Others, Inside
  <2>2. Existing(call[u]) = {}
    BY <2>1 DEF IInv, CheckStaysTrue
  <2>3. CASE UNCHANGED actions
    BY <2>1, <2>2, <2>3 DEF Existing, Rows
  <2>4. CASE ShouldRecord(result[t]) /\ actions' = Append(actions, row)
    <3>1. LockKey(call[u]) # LockKey(call[t])
      BY <1>1, <2>1, LocksExclude DEF IInv
    <3>2. IF IsTicket(call[u]) THEN Key(row.id) # Key(call[u]) ELSE row.id # call[u]
      BY <3>1 DEF LockKey, IsTicket, Key
    <3>3. \A i \in 1..Len(actions') : i \in 1..Len(actions) \/ actions'[i] = row
      BY <1>3, <1>4, <2>4
    <3>4. QED
      BY <1>4, <2>1, <2>2, <2>4, <3>2, <3>3 DEF Existing, Rows
  <2>5. QED
    BY <1>1, <2>3, <2>4
<1>9. RecordedWasPerformed'
  <2>1. CASE UNCHANGED actions
    BY <1>6, <2>1, RecordedKept DEF IInv
  <2>2. CASE ShouldRecord(result[t]) /\ actions' = Append(actions, row)
    <3>1. result[t] # "empty" => WasPerformed(call[t])
      BY <1>1, <2>2 DEF IInv, ResultBacked, ShouldRecord
    <3>2. \A i \in 1..Len(actions') : i \in 1..Len(actions) \/ actions'[i] = row
      BY <1>3, <1>4, <2>2
    <3>3. QED
      BY <1>1, <1>4, <2>2, <3>1, <3>2 DEF IInv, RecordedWasPerformed, WasPerformed, Rows
  <2>3. QED
    BY <1>1, <2>1, <2>2
<1>10. RepeatsPaid'
  <2>1. \A id \in Identities : Performed(id)' = Performed(id)
    BY <1>1 DEF Performed
  <2>2. faults' = faults /\ faults \in Nat
    BY <1>1, CallsAssumption DEF IInv, TypeOK
  <2>3. ASSUME NEW id \in Identities, Accounted(id)
        PROVE  Accounted(id)'
    <3>1. CASE \E i \in Rows : actions[i].id = id
      <4>1. PICK i \in 1..Len(actions) : actions[i].id = id
        BY <3>1 DEF Rows
      <4>2. i \in 1..Len(actions') /\ actions'[i].id = id
        BY <1>1, <1>3, <1>4, <4>1
      <4>3. QED
        BY <4>2 DEF Accounted, Rows
    <3>2. CASE \E u \in Tasks : u # t /\ pc[u] = "record" /\ call[u] = id /\ result[u] = "done"
      BY <1>2, <3>2 DEF Accounted, Others
    <3>3. CASE call[t] = id /\ result[t] = "done" /\ ~\E i \in Rows : actions[i].id = id
      <4>1. actions' = Append(actions, row) /\ ShouldRecord(result[t])
        BY <3>3 DEF Record, ShouldRecord
      <4>2. Len(actions) + 1 \in 1..Len(actions') /\ actions'[Len(actions) + 1].id = id
        BY <1>3, <1>4, <3>3, <4>1
      <4>3. QED
        BY <4>2 DEF Accounted, Rows
    <3>4. QED
      BY <2>3, <3>1, <3>2, <3>3 DEF Accounted
  <2>4. QED
    BY <2>1, <2>2, <2>3, PaidKept DEF IInv
<1>11. QED
  BY <1>2, <1>5, <1>7, <1>8, <1>9, <1>10 DEF IInv

LEMMA CrashKeeps ==
  ASSUME IInv, Crash
  PROVE  IInv'
<1>1. /\ pc' = [t \in Tasks |-> "idle"] /\ call' = [t \in Tasks |-> NoCall]
      /\ result' = [t \in Tasks |-> "none"] /\ locks' = [k \in LockKeys |-> NoTask]
      /\ UNCHANGED <<actions, effects, calls>> /\ faults' = faults + 1
  BY DEF Crash, Fault
<1>2. faults' \in 0..MaxFaults /\ faults \in Nat /\ faults' \in Nat
  BY CallsAssumption DEF Crash, Fault, IInv, TypeOK
<1>3. TypeOK'
  BY <1>1, <1>2 DEF IInv, TypeOK, Results
<1>4. LockHeld' /\ CallKnown' /\ CheckStaysTrue' /\ ResultBacked'
  BY <1>1 DEF LockHeld, CallKnown, CheckStaysTrue, ResultBacked, Inside
<1>5. History /\ \A id \in Identities : Performed(id)' = Performed(id)
  BY <1>1 DEF History, WasPerformed, Performed
<1>6. RecordedWasPerformed' /\ RepeatsPaid'
  BY <1>1, <1>2, <1>5, RecordedKept, PaidKept DEF IInv
<1>7. QED
  BY <1>3, <1>4, <1>6 DEF IInv

LEMMA TickKeeps ==
  ASSUME IInv, Tick
  PROVE  IInv'
<1>1. UNCHANGED <<pc, call, result, locks, calls, faults>>
  BY DEF Tick
<1>2. /\ actions' \in Seq(ActionRow) /\ effects' \in Seq(Entry)
      /\ Len(actions') = Len(actions) /\ Len(effects') = Len(effects)
      /\ \A i \in 1..Len(actions) : /\ actions'[i].id = actions[i].id
                                    /\ actions'[i].result = actions[i].result
                                    /\ actions'[i].left > 0 => actions[i].left > 0
      /\ \A i \in 1..Len(effects) : /\ effects'[i].id = effects[i].id
                                    /\ effects'[i].marked = effects[i].marked
  BY AgedRows DEF IInv
<1>3. TypeOK' /\ LockHeld' /\ CallKnown'
  BY <1>1, <1>2 DEF IInv, TypeOK, ActionRow, Entry, LockHeld, CallKnown, LockKey, IsTicket, Key
<1>4. \A id : Existing(id) = {} => Existing(id)' = {}
  BY <1>2 DEF Existing, Rows
<1>5. CheckStaysTrue'
  <2> SUFFICES ASSUME NEW t \in Tasks, pc'[t] \in {"review", "act", "record"}
               PROVE  Existing(call[t])' = {}
    BY DEF CheckStaysTrue
  <2>1. Existing(call[t]) = {}
    BY <1>1 DEF IInv, CheckStaysTrue
  <2>2. QED
    BY <1>1, <1>2, <2>1 DEF Existing, Rows
<1>6. History /\ \A id \in Identities : Performed(id)' = Performed(id)
  BY <1>2 DEF History, WasPerformed, Performed
<1>7. ResultBacked'
  BY <1>1, <1>6 DEF IInv, ResultBacked, History, WasPerformed
<1>8. RecordedWasPerformed'
  BY <1>2, <1>6 DEF IInv, RecordedWasPerformed, History, WasPerformed, Rows
<1>9. RepeatsPaid'
  <2>1. \A id \in Identities : Accounted(id) => Accounted(id)'
    BY <1>1, <1>2 DEF Accounted, Rows
  <2>2. faults' = faults /\ faults \in Nat
    BY <1>1, CallsAssumption DEF IInv, TypeOK
  <2>3. QED
    BY <1>6, <2>1, <2>2, PaidKept DEF IInv
<1>10. QED
  BY <1>3, <1>5, <1>7, <1>8, <1>9 DEF IInv

LEMMA StepKeeps ==
  ASSUME IInv, [Next]_vars
  PROVE  IInv'
<1>1. ASSUME NEW t \in Tasks, NEW id \in Identities, Call(t, id)
      PROVE  IInv'
  BY <1>1, CallKeeps
<1>2. ASSUME NEW t \in Tasks, Run(t)
      PROVE  IInv'
  BY <1>2, TakeLockKeeps, CheckLedgerKeeps, ReviewKeeps, ActKeeps, ActRefusedKeeps,
     RecordKeeps DEF Run
<1>3. ASSUME NEW t \in Tasks, ActUnanswered(t) \/ DbError(t)
      PROVE  IInv'
  BY <1>3, ActUnansweredKeeps, DbErrorKeeps
<1>4. CASE Crash \/ Tick
  BY <1>4, CrashKeeps, TickKeeps
<1>5. CASE UNCHANGED vars
  <2>1. UNCHANGED <<actions, effects, pc, call, result, locks, calls, faults>>
    BY <1>5 DEF vars
  <2>2. TypeOK' /\ LockHeld' /\ CallKnown'
    BY <2>1 DEF IInv, TypeOK, LockHeld, CallKnown, LockKey, IsTicket, Key
  <2>3. CheckStaysTrue'
    BY <2>1 DEF IInv, CheckStaysTrue, Existing, Rows
  <2>4. ResultBacked' /\ RecordedWasPerformed'
    BY <2>1 DEF IInv, ResultBacked, RecordedWasPerformed, WasPerformed, Rows
  <2>5. \A id \in Identities : Performed(id)' = Performed(id) /\ Accounted(id)' = Accounted(id)
    BY <2>1 DEF Performed, Accounted, Rows
  <2>6. RepeatsPaid'
    BY <2>1, <2>5 DEF IInv, RepeatsPaid
  <2>7. QED
    BY <2>2, <2>3, <2>4, <2>6 DEF IInv
<1>6. QED
  BY <1>1, <1>2, <1>3, <1>4, <1>5 DEF Next

-----------------------------------------------------------------------------

\* Locks, answers, the ledger and the writes agree as IInv says, always.
THEOREM InductiveInvariant == Spec => []IInv
<1>1. Init => IInv
  BY InitIInv
<1>2. IInv /\ [Next]_vars => IInv'
  BY StepKeeps
<1>3. QED
  BY <1>1, <1>2, PTL DEF Spec

\* Every variable stays within its type.
THEOREM TypeCorrect == Spec => []TypeOK
<1>1. IInv => TypeOK
  BY DEF IInv
<1>2. QED
  BY <1>1, InductiveInvariant, PTL

\* What _existing_action found missing is still missing when the write is made
\* and when it is recorded.
THEOREM ChecksStayTrue == Spec => []CheckStaysTrue
<1>1. IInv => CheckStaysTrue
  BY DEF IInv
<1>2. QED
  BY <1>1, InductiveInvariant, PTL

\* A row that makes execute_tool_call skip a call stands for a write that the
\* provider accepted, unless it is of a ticket answered without an issue.
THEOREM RecordsAreBacked == Spec => []RecordedWasPerformed
<1>1. IInv => RecordedWasPerformed
  BY DEF IInv
<1>2. QED
  BY <1>1, InductiveInvariant, PTL

\* Outside the ticket window each repetition of a write takes a fault of its own.
THEOREM RepeatsTakeFaults == Spec => []RepeatNeedsFault
<1>1. ASSUME IInv
      PROVE  RepeatNeedsFault
  <2> SUFFICES ASSUME NEW id \in Identities, ~IsTicket(id)
               PROVE  Cardinality(Performed(id)) <= 1 + faults
    BY DEF RepeatNeedsFault, Performed
  <2>1. Cardinality(Performed(id)) \in Nat /\ faults \in Nat
    BY <1>1, PerformedFinite, CallsAssumption DEF IInv, TypeOK
  <2>2. QED
    BY <1>1, <2>1 DEF IInv, RepeatsPaid
<1>2. QED
  BY <1>1, InductiveInvariant, PTL
=============================================================================
