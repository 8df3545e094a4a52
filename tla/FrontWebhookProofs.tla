------------------------- MODULE FrontWebhookProofs -------------------------
(***************************************************************************)
(* What FrontWebhook guarantees for any number of events, conversations,   *)
(* processes and tasks, any attempt limit, delays, lease and faults.       *)
(***************************************************************************)
EXTENDS FrontWebhook, FiniteSetTheorems, TLAPS

\* TypeOK without the upper bound of permits, which only the count of the tasks
\* inside gives.
Typed ==
  /\ inbox \in [Events -> Row]
  /\ claims \in [Events -> 0..MaxAttempts]
  /\ ledger \subseteq Events
  /\ handled \in [Events -> Nat]
  /\ pc \in [Workers -> Control]
  /\ ev \in [Workers -> Events \cup {NoEvent}]
  /\ token \in [Workers -> Tokens \cup {NoToken}]
  /\ won \in [Workers -> Tokens \cup {NoToken}]
  /\ seen \in [Workers -> 0..MaxAttempts]
  /\ convLock \in [Procs \X Convs -> Workers \cup {NoWorker}]
  /\ permits \in [Procs -> Nat]
  /\ batch \in [Retriers -> SUBSET Events]
  /\ faults \in 0..MaxFaults

\* A task outside "idle" processes an event.
Busy == \A w \in Workers : pc[w] # "idle" => ev[w] \in Events

\* attempts counts the claims; a row holds a token exactly while processing, and
\* only that of the latest claim; an absent row holds nothing.
RowCoherent(r, n) ==
  /\ r.attempts = n
  /\ r.token \in {NoToken, n}
  /\ (r.status = "processing") <=> (r.token # NoToken)
  /\ r.status \in {"absent", "pending", "retry"} => r.attempts < MaxAttempts
  /\ r.status # "absent" => (r.payload <=> r.status # "processed")
  /\ r.status = "absent" => n = 0

RowsCoherent == \A e \in Events : RowCoherent(inbox[e], claims[e])

\* What fail_webhook read is still true if the row is still owned.
SeenIsCurrent ==
  \A w \in Workers :
    pc[w] = "fail_write" /\ Owned(inbox[ev[w]], token[w]) => seen[w] = claims[ev[w]]

\* complete_webhook is only reached with the event in the ledger.
CompleteIsRecorded == \A w \in Workers : pc[w] = "complete" => ev[w] \in ledger

IInv ==
  /\ Typed
  /\ Busy
  /\ RowsCoherent
  /\ Winners
  /\ SeenIsCurrent
  /\ CompleteIsRecorded
  /\ ProcessedIsRecorded

-----------------------------------------------------------------------------
(* The row updates keep rows well-typed *)

LEMMA AbsentRow == Absent \in Row /\ RowCoherent(Absent, 0)
BY MaxAttemptsAssumption DEF Absent, Row, Status, NoToken, Tokens, RowCoherent

LEMMA NewRowType == NewRow \in Row
BY AbsentRow DEF NewRow, Row, Status

LEMMA ClaimedRowType ==
  ASSUME NEW r \in Row, NEW t \in Tokens, r.attempts < MaxAttempts
  PROVE  ClaimedRow(r, t) \in Row
<1>1. r.attempts + 1 \in 0..MaxAttempts
  BY MaxAttemptsAssumption DEF Row
<1>2. QED
  BY <1>1, LeaseDurationAssumption DEF ClaimedRow, Row, Status

LEMMA EndedRowType ==
  ASSUME NEW r \in Row
  PROVE  AbandonedRow(r) \in Row /\ ProcessedRow(r) \in Row
BY DEF AbandonedRow, ProcessedRow, Row, Status

LEMMA FailedRowType ==
  ASSUME NEW r \in Row, NEW a \in 1..MaxAttempts
  PROVE  FailedRow(r, a) \in Row
<1>1. a < MaxAttempts => RetryDelay[a] \in Nat
  BY MaxAttemptsAssumption, RetryDelayAssumption
<1>2. QED
  BY <1>1, EndedRowType DEF FailedRow, RetryRow, Row, Status

LEMMA AgedRowType ==
  ASSUME NEW r \in Row
  PROVE  [r EXCEPT !.wait = Minus1(@), !.lease = Minus1(@)] \in Row
<1>1. Minus1(r.wait) \in Nat /\ Minus1(r.lease) \in Nat
  BY DEF Row, Minus1
<1>2. QED
  BY <1>1 DEF Row

-----------------------------------------------------------------------------
(* The row updates keep rows coherent *)

LEMMA NewRowCoherent == RowCoherent(NewRow, 0)
BY AbsentRow DEF NewRow, Row, Absent, RowCoherent, NoToken

LEMMA ClaimedRowCoherent ==
  ASSUME NEW r \in Row, NEW n \in 0..MaxAttempts, RowCoherent(r, n), Claimable(r)
  PROVE  RowCoherent(ClaimedRow(r, n + 1), n + 1)
<1> DEFINE c == ClaimedRow(r, n + 1)
<1>1. /\ c.attempts = r.attempts + 1 /\ c.status = "processing"
      /\ c.token = n + 1 /\ c.payload = r.payload
  BY DEF ClaimedRow, Row
<1>2. n \in Nat /\ n + 1 # NoToken /\ n + 1 \in 0..n + 1
  BY MaxAttemptsAssumption DEF NoToken
<1>3. r.status \in {"pending", "retry", "processing"}
  BY DEF Claimable, ExpiredLease
<1>4. QED
  BY <1>1, <1>2, <1>3 DEF RowCoherent

LEMMA EndedRowCoherent ==
  ASSUME NEW r \in Row, NEW n \in 0..MaxAttempts, RowCoherent(r, n),
         r.status = "processing"
  PROVE  RowCoherent(AbandonedRow(r), n) /\ RowCoherent(ProcessedRow(r), n)
<1>1. n \in Nat /\ NoToken \in 0..n
  BY MaxAttemptsAssumption DEF NoToken
<1>2. QED
  BY <1>1 DEF AbandonedRow, ProcessedRow, RowCoherent, Row

LEMMA FailedRowCoherent ==
  ASSUME NEW r \in Row, NEW n \in 0..MaxAttempts, RowCoherent(r, n),
         r.status = "processing"
  PROVE  RowCoherent(FailedRow(r, n), n)
<1>1. n \in Nat /\ NoToken \in 0..n
  BY MaxAttemptsAssumption DEF NoToken
<1>2. QED
  BY <1>1, EndedRowCoherent DEF FailedRow, RetryRow, RowCoherent, Row

LEMMA AgedRowOwner ==
  ASSUME NEW r \in Row
  PROVE  LET aged == [r EXCEPT !.wait = Minus1(@), !.lease = Minus1(@)]
         IN  aged.status = r.status /\ aged.token = r.token
BY DEF Row

LEMMA AgedRowCoherent ==
  ASSUME NEW r \in Row, NEW n \in 0..MaxAttempts, RowCoherent(r, n)
  PROVE  RowCoherent([r EXCEPT !.wait = Minus1(@), !.lease = Minus1(@)], n)
BY DEF RowCoherent, Row

-----------------------------------------------------------------------------
(* The inductive invariant: one lemma for each action *)

LEMMA InitIInv == Init => IInv
<1> SUFFICES ASSUME Init PROVE IInv
  OBVIOUS
<1> USE DEF Init, InboxInit
<1>2. Typed
  BY AbsentRow, MaxAttemptsAssumption, CapacityAssumption, MaxFaultsAssumption
  DEF Typed, Control, NoToken
<1>3. RowsCoherent
  BY AbsentRow DEF RowsCoherent
<1>4. Busy /\ Winners /\ SeenIsCurrent /\ CompleteIsRecorded /\ ProcessedIsRecorded
  BY DEF Busy, Winners, SeenIsCurrent, CompleteIsRecorded, ProcessedIsRecorded,
         Working, Claimed, Absent
<1>5. QED
  BY <1>2, <1>3, <1>4 DEF IInv

LEMMA ReceiveIInv ==
  ASSUME IInv, NEW w \in Workers, NEW e \in Events, Receive(w, e)
  PROVE  IInv'
<1> USE DEF IInv, Receive, Enqueue, Goto, mutexVars
<1>1. Typed'
  BY NewRowType DEF Typed, Control, Waiting
<1>2. Busy'
  BY DEF Busy, Typed
<1>3. RowsCoherent'
  BY NewRowCoherent DEF RowsCoherent, RowCoherent, Typed, Stored
<1>4. Winners'
  BY DEF Winners, Typed, Working, Claimed
<1>5. SeenIsCurrent'
  BY DEF SeenIsCurrent, Typed, Owned, Stored, NewRow, Absent, Busy
<1>6. (CompleteIsRecorded /\ ProcessedIsRecorded)'
  BY DEF CompleteIsRecorded, ProcessedIsRecorded, Typed, NewRow, Absent
<1>7. QED
  BY <1>1, <1>2, <1>3, <1>4, <1>5, <1>6

\* Leaving the critical section keeps the types of what it writes.
LEMMA ExitTyped ==
  ASSUME Typed, NEW w \in Workers, ev[w] \in Events, Exit(w)
  PROVE  /\ convLock' \in [Procs \X Convs -> Workers \cup {NoWorker}]
         /\ permits' \in [Procs -> Nat]
         /\ pc' \in [Workers -> Control]
         /\ ev' \in [Workers -> Events \cup {NoEvent}]
         /\ token' \in [Workers -> Tokens \cup {NoToken}]
         /\ won' \in [Workers -> Tokens \cup {NoToken}]
         /\ seen' \in [Workers -> 0..MaxAttempts]
<1> USE DEF Typed, Exit
<1>1. LockOf(w) \in Procs \X Convs /\ ProcOf[w] \in Procs
  BY ProcOfAssumption, ConvOfAssumption DEF LockOf
<1>2. permits[ProcOf[w]] + 1 \in Nat
  BY <1>1
<1>3. /\ convLock' \in [Procs \X Convs -> Workers \cup {NoWorker}]
      /\ permits' \in [Procs -> Nat]
  BY <1>1, <1>2 DEF Release
<1>4. /\ pc' \in [Workers -> Control]
      /\ ev' \in [Workers -> Events \cup {NoEvent}]
  BY DEF Leave, Goto, Control
<1>5. /\ token' \in [Workers -> Tokens \cup {NoToken}]
      /\ won' \in [Workers -> Tokens \cup {NoToken}]
      /\ seen' \in [Workers -> 0..MaxAttempts]
  BY MaxAttemptsAssumption DEF Leave, NoToken
<1>6. QED
  BY <1>3, <1>4, <1>5

\* A task that ends without touching a row, the ledger or the history.
LEMMA LeaveIInv ==
  ASSUME IInv, NEW w \in Workers, Leave(w),
         UNCHANGED <<inboxVars, ledger, handled, batch>>, faults' \in 0..MaxFaults,
         convLock' \in [Procs \X Convs -> Workers \cup {NoWorker}],
         permits' \in [Procs -> Nat]
  PROVE  IInv'
<1> USE DEF IInv, Leave, Goto, inboxVars
<1>1. Typed'
  BY MaxAttemptsAssumption DEF Typed, Control, NoToken
<1>2. Busy'
  BY DEF Busy, Typed
<1>3. RowsCoherent'
  BY DEF RowsCoherent
<1>4. Winners'
  BY DEF Winners, Typed, Working, Claimed
<1>5. SeenIsCurrent'
  BY DEF SeenIsCurrent, Typed, Owned
<1>6. (CompleteIsRecorded /\ ProcessedIsRecorded)'
  BY DEF CompleteIsRecorded, ProcessedIsRecorded, Typed
<1>7. QED
  BY <1>1, <1>2, <1>3, <1>4, <1>5, <1>6

LEMMA ClaimIInv ==
  ASSUME IInv, NEW w \in Workers, ClaimEvent(w)
  PROVE  IInv'
<1> DEFINE e == ev[w]
<1>0. e \in Events /\ inbox[e] \in Row /\ claims[e] \in 0..MaxAttempts
  BY DEF IInv, Typed, Busy, ClaimEvent
<1>1. CASE /\ Claim(e)
           /\ won' = [won EXCEPT ![w] = claims[e] + 1]
           /\ Goto(w, "reread")
           /\ UNCHANGED <<ev, token, seen, mutexVars, ledger, handled, batch, faults>>
  <2> USE <1>0, <1>1 DEF IInv, Claim, Claimable, Goto, mutexVars
  <2>1. claims[e] + 1 \in Tokens /\ claims[e] + 1 # NoToken
    BY MaxAttemptsAssumption DEF RowsCoherent, RowCoherent, Tokens, NoToken
  <2>2. ClaimedRow(inbox[e], claims[e] + 1) \in Row
    BY <2>1, ClaimedRowType
  <2>3. Typed'
    BY <2>1, <2>2 DEF Typed, Tokens, Control, Critical, Working, Claimed
  <2>4. Busy'
    BY DEF Busy, Typed
  <2>5. RowsCoherent'
    BY ClaimedRowCoherent DEF RowsCoherent, Typed
  <2>6. Winners'
    BY <2>1 DEF Winners, Typed, Working, Claimed
  <2>7. SeenIsCurrent'
    BY <2>1 DEF SeenIsCurrent, Typed, Owned, ClaimedRow, Winners, Working, Claimed, Row
  <2>8. (CompleteIsRecorded /\ ProcessedIsRecorded)'
    BY DEF CompleteIsRecorded, ProcessedIsRecorded, Typed, ClaimedRow, Row
  <2>9. QED
    BY <2>3, <2>4, <2>5, <2>6, <2>7, <2>8
<1>2. CASE Abandon(e) /\ Exit(w) /\ UNCHANGED <<ledger, handled, batch, faults>>
  <2> USE <1>0, <1>2 DEF IInv, Abandon, ExhaustedExpiredLease, ExpiredLease, Exit, Leave,
                         Release, Goto
  <2>1. Typed'
    BY EndedRowType, ExitTyped DEF Typed, Exit
  <2>2. Busy'
    BY DEF Busy, Typed
  <2>3. RowsCoherent'
    BY EndedRowCoherent DEF RowsCoherent, Typed
  <2>4. Winners'
    BY DEF Winners, Typed, Working, Claimed
  <2>5. SeenIsCurrent'
    BY DEF SeenIsCurrent, Typed, Owned, AbandonedRow, Row
  <2>6. (CompleteIsRecorded /\ ProcessedIsRecorded)'
    BY DEF CompleteIsRecorded, ProcessedIsRecorded, Typed, AbandonedRow, Row
  <2>7. QED
    BY <2>1, <2>2, <2>3, <2>4, <2>5, <2>6
<1>3. CASE Exit(w) /\ UNCHANGED <<inboxVars, ledger, handled, batch, faults>>
  BY <1>0, <1>3, ExitTyped, LeaveIInv DEF IInv, Exit, Typed
<1>4. QED
  BY <1>1, <1>2, <1>3 DEF ClaimEvent

\* The task moves to another await; no row changes and the ledger only grows.  Moving to
\* "complete" needs the event in the ledger.
LEMMA MoveIInv ==
  ASSUME IInv, NEW w \in Workers, NEW label \in Control \ {"fail_write"},
         Goto(w, label),
         label # "idle" => ev'[w] \in Events,
         label \in Working => label # "reread" /\ pc[w] \in Claimed,
         label = "complete" => ev[w] \in ledger',
         \/ ev' = ev
         \/ pc[w] = "idle" /\ label = "lookup" /\ \E f \in Events : ev' = [ev EXCEPT ![w] = f],
         UNCHANGED <<inboxVars, token, won, seen>>,
         ledger \subseteq ledger', ledger' \subseteq Events,
         handled' \in [Events -> Nat],
         convLock' \in [Procs \X Convs -> Workers \cup {NoWorker}],
         permits' \in [Procs -> Nat],
         batch' \in [Retriers -> SUBSET Events],
         faults' \in 0..MaxFaults
  PROVE  IInv'
<1> USE DEF IInv, Goto, inboxVars
<1>1. Typed'
  BY DEF Typed
<1>2. Busy'
  BY DEF Busy, Typed
<1>3. RowsCoherent'
  BY DEF RowsCoherent
<1>4. Winners'
  BY DEF Winners, Typed, Working, Claimed
<1>5. SeenIsCurrent'
  BY DEF SeenIsCurrent, Typed, Owned
<1>6. (CompleteIsRecorded /\ ProcessedIsRecorded)'
  BY DEF CompleteIsRecorded, ProcessedIsRecorded, Typed
<1>7. QED
  BY <1>1, <1>2, <1>3, <1>4, <1>5, <1>6

LEMMA PollIInv ==
  ASSUME IInv, NEW w \in Workers, Poll(w)
  PROVE  IInv'
<1>1. CASE ListDue(w)
  <2> USE <1>1 DEF ListDue, inboxVars, taskVars, mutexVars, IInv
  <2>1. PICK some \in SUBSET Events : batch' = [batch EXCEPT ![w] = some]
    OBVIOUS
  <2>2. Typed'
    BY <2>1 DEF Typed
  <2>3. QED
    BY <2>2 DEF Busy, RowsCoherent, Winners, SeenIsCurrent, CompleteIsRecorded,
                ProcessedIsRecorded
<1>2. CASE NextInBatch(w)
  <2> USE <1>2 DEF NextInBatch, mutexVars
  <2>1. PICK f \in batch[w] : /\ batch' = [batch EXCEPT ![w] = @ \ {f}]
                             /\ ev' = [ev EXCEPT ![w] = f]
    OBVIOUS
  <2>2. batch[w] \in SUBSET Events /\ f \in Events
    BY DEF IInv, Typed
  <2>3. /\ ev'[w] \in Events
        /\ batch' \in [Retriers -> SUBSET Events]
        /\ convLock' \in [Procs \X Convs -> Workers \cup {NoWorker}]
        /\ permits' \in [Procs -> Nat]
        /\ faults' \in 0..MaxFaults
        /\ handled' \in [Events -> Nat]
        /\ ledger' \subseteq Events
    BY <2>1, <2>2 DEF IInv, Typed
  <2>4. "lookup" \in Control \ {"fail_write"} /\ "lookup" \notin Working
    BY DEF Control, Waiting, Working, Claimed
  <2>5. QED
    BY <2>1, <2>2, <2>3, <2>4, MoveIInv
<1>3. QED
  BY <1>1, <1>2 DEF Poll

LEMMA AcquireIInv ==
  ASSUME IInv, NEW w \in Workers, Acquire(w)
  PROVE  IInv'
<1>1. ev[w] \in Events /\ LockOf(w) \in Procs \X Convs /\ ProcOf[w] \in Procs
  BY ProcOfAssumption, ConvOfAssumption DEF Acquire, TakeLock, TakeSlot, IInv, Busy, LockOf
<1>2. CASE TakeLock(w)
  <2>1. convLock' \in [Procs \X Convs -> Workers \cup {NoWorker}]
    BY <1>1, <1>2 DEF TakeLock, IInv, Typed
  <2>2. "slot" \in Control \ {"fail_write"} /\ "slot" \notin Working
    BY DEF Control, Waiting, Working, Claimed
  <2>3. QED
    BY <1>1, <1>2, <2>1, <2>2, MoveIInv DEF TakeLock, IInv, Typed
<1>3. CASE TakeSlot(w)
  <2>1. permits' \in [Procs -> Nat]
    BY <1>1, <1>3 DEF TakeSlot, IInv, Typed
  <2>2. "claim" \in Control \ {"fail_write"} /\ "claim" \notin Working
    BY DEF Control, Critical, Working, Claimed
  <2>3. QED
    BY <1>1, <1>3, <2>1, <2>2, MoveIInv DEF TakeSlot, IInv, Typed
<1>4. QED
  BY <1>2, <1>3 DEF Acquire

\* The steps of a task that only read: the lookup, the ledger check, and the two
\* ends of the handler that write nothing here.
LEMMA ReadingIInv ==
  ASSUME IInv, NEW w \in Workers,
         Lookup(w) \/ CheckLedger(w) \/ Ignore(w) \/ HandleError(w)
  PROVE  IInv'
<1> DEFINE Kept == UNCHANGED <<inboxVars, ledger, handled, ev, token, won, seen, mutexVars,
                               batch, faults>>
<1>1. ev[w] \in Events
  BY DEF IInv, Busy, Lookup, CheckLedger, Ignore, HandleError
<1>2. ASSUME NEW label \in Control \ {"fail_write", "idle"}, Goto(w, label), Kept,
             label \in Working => label # "reread" /\ pc[w] \in Claimed,
             label = "complete" => ev[w] \in ledger
      PROVE  IInv'
  BY <1>1, <1>2, MoveIInv DEF IInv, Typed, mutexVars
<1>3. CASE Lookup(w)
  <2>1. CASE Leave(w)
    BY <1>3, <2>1, LeaveIInv DEF Lookup, IInv, Typed, mutexVars
  <2>2. CASE Goto(w, "lock") /\ UNCHANGED <<ev, token, won, seen>>
    BY <1>2, <1>3, <2>2 DEF Lookup, Control, Waiting, Working, Claimed
  <2>3. QED
    BY <1>3, <2>1, <2>2 DEF Lookup
<1>4. CASE CheckLedger(w)
  BY <1>2, <1>4 DEF CheckLedger, Control, Critical, Working, Claimed
<1>5. CASE Ignore(w)
  BY <1>2, <1>5 DEF Ignore, Control, Critical, Working, Claimed
<1>6. CASE HandleError(w)
  BY <1>2, <1>6 DEF HandleError, Control, Critical, Working, Claimed
<1>7. QED
  BY <1>3, <1>4, <1>5, <1>6

LEMMA HandleOkIInv ==
  ASSUME IInv, NEW w \in Workers, HandleOk(w)
  PROVE  IInv'
<1>1. ev[w] \in Events /\ handled' \in [Events -> Nat]
  BY DEF IInv, Busy, Typed, HandleOk
<1>2. "record" \in Control \ {"fail_write", "idle"}
  BY DEF Control, Critical, Working, Claimed
<1>3. QED
  BY <1>1, <1>2, MoveIInv DEF HandleOk, IInv, Typed, mutexVars, Working, Claimed

LEMMA RecordIInv ==
  ASSUME IInv, NEW w \in Workers, RecordEvent(w)
  PROVE  IInv'
<1>1. ev[w] \in Events
  BY DEF IInv, Busy, RecordEvent
<1>2. {"complete", "fail_read"} \subseteq Control \ {"fail_write", "idle"}
  BY DEF Control, Critical, Working, Claimed
<1>3. QED
  BY <1>1, <1>2, MoveIInv DEF RecordEvent, IInv, Typed, mutexVars, Working, Claimed

LEMMA ReadBackIInv ==
  ASSUME IInv, NEW w \in Workers, ReadBack(w)
  PROVE  IInv'
<1> DEFINE e == ev[w]
<1>0. e \in Events /\ inbox[e] \in Row /\ RowCoherent(inbox[e], claims[e])
  BY DEF IInv, Typed, Busy, ReadBack, RowsCoherent
<1>1. CASE Exit(w)
  BY <1>0, <1>1, ExitTyped, LeaveIInv DEF ReadBack, Exit, IInv, Typed
<1>2. CASE /\ token' = [token EXCEPT ![w] = inbox[e].token]
           /\ Goto(w, "check")
           /\ UNCHANGED <<ev, won, seen, mutexVars>>
  <2> USE <1>0, <1>2 DEF IInv, ReadBack, Goto, mutexVars, inboxVars
  <2>1. Typed'
    BY DEF Typed, Row, Control, Critical, Working, Claimed
  <2>2. Busy'
    BY DEF Busy, Typed
  <2>3. RowsCoherent'
    BY DEF RowsCoherent
  <2>4. Winners'
    BY DEF Winners, Typed, Working, Claimed, RowCoherent
  <2>5. SeenIsCurrent'
    BY DEF SeenIsCurrent, Typed, Owned
  <2>6. (CompleteIsRecorded /\ ProcessedIsRecorded)'
    BY DEF CompleteIsRecorded, ProcessedIsRecorded, Typed
  <2>7. QED
    BY <2>1, <2>2, <2>3, <2>4, <2>5, <2>6
<1>3. QED
  BY <1>1, <1>2 DEF ReadBack

LEMMA CompleteIInv ==
  ASSUME IInv, NEW w \in Workers, CompleteEvent(w)
  PROVE  IInv'
<1> DEFINE e == ev[w]
<1>1. e \in Events /\ inbox[e] \in Row /\ e \in ledger
  BY DEF IInv, Typed, Busy, CompleteEvent, CompleteIsRecorded
<1>2. CASE ~Owned(inbox[e], token[w])
  <2>1. UNCHANGED inboxVars
    BY <1>2 DEF CompleteEvent, Complete, IInv, Typed, inboxVars
  <2>2. QED
    BY <1>1, <2>1, ExitTyped, LeaveIInv DEF CompleteEvent, Exit, IInv, Typed
<1>3. CASE Owned(inbox[e], token[w])
  <2> USE <1>1, <1>3 DEF IInv, CompleteEvent, Complete, Owned
  <2>1. Typed'
    BY EndedRowType, ExitTyped DEF Typed
  <2> USE DEF Exit, Leave, Goto
  <2>2. Busy'
    BY DEF Busy, Typed
  <2>3. RowsCoherent'
    BY EndedRowCoherent DEF RowsCoherent, Typed
  <2>4. Winners'
    BY DEF Winners, Typed, Working, Claimed
  <2>5. SeenIsCurrent'
    BY DEF SeenIsCurrent, Typed, ProcessedRow, Row
  <2>6. (CompleteIsRecorded /\ ProcessedIsRecorded)'
    BY DEF CompleteIsRecorded, ProcessedIsRecorded, Typed, ProcessedRow, Row
  <2>7. QED
    BY <2>1, <2>2, <2>3, <2>4, <2>5, <2>6
<1>4. QED
  BY <1>2, <1>3

LEMMA FailReadIInv ==
  ASSUME IInv, NEW w \in Workers, FailRead(w)
  PROVE  IInv'
<1> DEFINE e == ev[w]
<1>1. e \in Events /\ inbox[e] \in Row
  BY DEF IInv, Typed, Busy, FailRead
<1>2. CASE ~Owned(inbox[e], token[w]) /\ Exit(w)
  BY <1>1, <1>2, ExitTyped, LeaveIInv DEF FailRead, Exit, IInv, Typed
<1>3. CASE /\ Owned(inbox[e], token[w])
           /\ seen' = [seen EXCEPT ![w] = inbox[e].attempts]
           /\ Goto(w, "fail_write")
           /\ UNCHANGED <<ev, token, won, mutexVars>>
  <2> USE <1>1, <1>3 DEF IInv, FailRead, Goto, mutexVars, inboxVars
  <2>1. Typed'
    BY DEF Typed, Row, Control, Critical, Working, Claimed
  <2>2. Busy'
    BY DEF Busy, Typed
  <2>3. RowsCoherent'
    BY DEF RowsCoherent
  <2>4. Winners'
    BY DEF Winners, Typed, Working, Claimed
  <2>5. SeenIsCurrent'
    BY DEF SeenIsCurrent, Typed, Owned, RowsCoherent, RowCoherent
  <2>6. (CompleteIsRecorded /\ ProcessedIsRecorded)'
    BY DEF CompleteIsRecorded, ProcessedIsRecorded, Typed
  <2>7. QED
    BY <2>1, <2>2, <2>3, <2>4, <2>5, <2>6
<1>4. QED
  BY <1>2, <1>3 DEF FailRead

LEMMA FailWriteIInv ==
  ASSUME IInv, NEW w \in Workers, FailWrite(w)
  PROVE  IInv'
<1> DEFINE e == ev[w]
<1>1. e \in Events /\ inbox[e] \in Row /\ claims[e] \in 0..MaxAttempts
  BY DEF IInv, Typed, Busy, FailWrite
<1>2. CASE ~Owned(inbox[e], token[w])
  <2>1. UNCHANGED inboxVars
    BY <1>2 DEF FailWrite, Fail, IInv, Typed, inboxVars
  <2>2. QED
    BY <1>1, <2>1, ExitTyped, LeaveIInv DEF FailWrite, Exit, IInv, Typed
<1>3. CASE Owned(inbox[e], token[w])
  <2> USE <1>1, <1>3 DEF IInv, FailWrite, Fail, Owned
  <2>1. seen[w] = claims[e]
    BY DEF SeenIsCurrent
  <2>2. claims[e] \in 1..MaxAttempts
    BY DEF RowsCoherent, RowCoherent, NoToken
  <2>3. FailedRow(inbox[e], claims[e]) \in Row
    BY <2>2, FailedRowType
  <2>4. Typed'
    BY <2>1, <2>3, ExitTyped DEF Typed
  <2> USE DEF Exit, Leave, Goto
  <2>5. Busy'
    BY DEF Busy, Typed
  <2>6. RowsCoherent'
    BY <2>1, FailedRowCoherent DEF RowsCoherent, Typed
  <2>7. Winners'
    BY DEF Winners, Typed, Working, Claimed
  <2>8. inbox'[e].status \in {"retry", "dead_letter"}
    BY DEF FailedRow, RetryRow, AbandonedRow, Row, Typed
  <2>9. SeenIsCurrent'
    BY <2>8 DEF SeenIsCurrent, Typed
  <2>10. (CompleteIsRecorded /\ ProcessedIsRecorded)'
    BY <2>8 DEF CompleteIsRecorded, ProcessedIsRecorded, Typed
  <2>11. QED
    BY <2>4, <2>5, <2>6, <2>7, <2>9, <2>10
<1>4. QED
  BY <1>2, <1>3

LEMMA DbErrorIInv ==
  ASSUME IInv, NEW w \in Workers, DbError(w)
  PROVE  IInv'
<1>1. ev[w] \in Events /\ faults' \in 0..MaxFaults
  BY MaxFaultsAssumption
  DEF IInv, Typed, Busy, DbError, DbErrorHandling, DbErrorEnding
<1>2. CASE DbErrorHandling(w)
  <2>1. "fail_read" \in Control \ {"fail_write", "idle"}
    BY DEF Control, Critical, Working, Claimed
  <2>2. QED
    BY <1>1, <1>2, <2>1, MoveIInv
    DEF DbError, DbErrorHandling, IInv, Typed, mutexVars, Working, Claimed
<1>3. CASE DbErrorEnding(w)
  <2>1. CASE Leave(w) /\ UNCHANGED mutexVars
    BY <1>1, <2>1, LeaveIInv DEF DbError, IInv, Typed, mutexVars
  <2>2. CASE Exit(w)
    BY <1>1, <2>2, ExitTyped, LeaveIInv DEF DbError, IInv, Exit
  <2>3. QED
    BY <1>3, <2>1, <2>2 DEF DbErrorEnding
<1>4. QED
  BY <1>2, <1>3 DEF DbError

LEMMA CrashIInv ==
  ASSUME IInv, NEW p \in Procs, Crash(p)
  PROVE  IInv'
<1> USE DEF IInv, Crash, inboxVars
<1>1. Typed'
  <2>1. faults' \in 0..MaxFaults
    BY MaxFaultsAssumption DEF Typed
  <2>2. /\ permits' \in [Procs -> Nat]
        /\ convLock' \in [Procs \X Convs -> Workers \cup {NoWorker}]
    BY CapacityAssumption DEF Typed
  <2>3. /\ pc' \in [Workers -> Control]
        /\ ev' \in [Workers -> Events \cup {NoEvent}]
        /\ batch' \in [Retriers -> SUBSET Events]
    BY DEF Typed, Control
  <2>4. /\ token' \in [Workers -> Tokens \cup {NoToken}]
        /\ won' \in [Workers -> Tokens \cup {NoToken}]
        /\ seen' \in [Workers -> 0..MaxAttempts]
    BY MaxAttemptsAssumption DEF Typed
  <2>5. QED
    BY <2>1, <2>2, <2>3, <2>4 DEF Typed
<1>2. Busy'
  BY DEF Busy
<1>3. RowsCoherent'
  BY DEF RowsCoherent
<1>4. Winners'
  BY DEF Winners, Working, Claimed
<1>5. SeenIsCurrent'
  BY DEF SeenIsCurrent, Owned
<1>6. (CompleteIsRecorded /\ ProcessedIsRecorded)'
  BY DEF CompleteIsRecorded, ProcessedIsRecorded
<1>7. QED
  BY <1>1, <1>2, <1>3, <1>4, <1>5, <1>6

LEMMA TickIInv ==
  ASSUME IInv, Tick
  PROVE  IInv'
<1> USE DEF IInv, Tick, Elapse, taskVars, mutexVars
<1>1. \A e \in Events : /\ inbox'[e].status = inbox[e].status
                        /\ inbox'[e].token = inbox[e].token
  <2>1. ASSUME NEW e \in Events
        PROVE  /\ inbox'[e].status = inbox[e].status
               /\ inbox'[e].token = inbox[e].token
    <3>1. inbox[e] \in Row
      BY DEF Typed
    <3>2. inbox'[e] = [inbox[e] EXCEPT !.wait = Minus1(@), !.lease = Minus1(@)]
      OBVIOUS
    <3>3. QED
      BY <3>1, <3>2, AgedRowOwner
  <2>2. QED
    BY <2>1
<1>2. Typed'
  BY AgedRowType DEF Typed
<1>3. Busy'
  BY DEF Busy
<1>4. RowsCoherent'
  BY AgedRowCoherent DEF RowsCoherent, Typed
<1>5. Winners'
  BY DEF Winners
<1>6. SeenIsCurrent'
  <2> SUFFICES ASSUME NEW w \in Workers, pc[w] = "fail_write",
                      Owned(inbox'[ev[w]], token[w])
               PROVE  seen[w] = claims[ev[w]]
    BY DEF SeenIsCurrent
  <2>1. ev[w] \in Events
    BY DEF Busy
  <2>2. Owned(inbox[ev[w]], token[w])
    BY <1>1, <2>1 DEF Owned
  <2>3. QED
    BY <2>2 DEF SeenIsCurrent
<1>7. (CompleteIsRecorded /\ ProcessedIsRecorded)'
  BY <1>1 DEF CompleteIsRecorded, ProcessedIsRecorded
<1>8. QED
  BY <1>2, <1>3, <1>4, <1>5, <1>6, <1>7

LEMMA StepIInv ==
  ASSUME IInv, NEW w \in Workers, Step(w)
  PROVE  IInv'
BY ReadingIInv, ClaimIInv, ReadBackIInv, HandleOkIInv, RecordIInv, CompleteIInv, FailReadIInv,
   FailWriteIInv
DEF Step

LEMMA NextIInv == IInv /\ [Next]_vars => IInv'
<1> SUFFICES ASSUME IInv, [Next]_vars PROVE IInv'
  OBVIOUS
<1>1. ASSUME NEW w \in Workers, NEW e \in Events, Receive(w, e) PROVE IInv'
  BY <1>1, ReceiveIInv
<1>2. ASSUME NEW w \in Workers,
             Poll(w) \/ Acquire(w) \/ Step(w) \/ DbError(w)
      PROVE  IInv'
  BY <1>2, PollIInv, AcquireIInv, StepIInv, DbErrorIInv
<1>3. ASSUME NEW p \in Procs, Crash(p) PROVE IInv'
  BY <1>3, CrashIInv
<1>4. CASE Tick
  BY <1>4, TickIInv
<1>5. CASE UNCHANGED vars
  BY <1>5 DEF vars, IInv, Typed, Busy, RowsCoherent, Winners, SeenIsCurrent, Owned,
              CompleteIsRecorded, ProcessedIsRecorded
<1>6. QED
  BY <1>1, <1>2, <1>3, <1>4, <1>5 DEF Next

\* IInv holds in every reachable state: rows are well-formed and count their
\* claims, tokens are issued once, and what tasks have read is still true of the
\* rows they own.
THEOREM InductiveInvariant == Spec => []IInv
<1>1. Init => IInv
  BY InitIInv
<1>2. IInv /\ [Next]_vars => IInv'
  BY NextIInv
<1>3. QED
  BY <1>1, <1>2, PTL DEF Spec

-----------------------------------------------------------------------------
(* What follows from the invariant *)

\* Whatever the tasks, processes, delays and faults: every accepted event that
\* is not settled is one the retry job will find, with its payload, and
\* "processed" is only ever written for an event webhook_events holds.
THEOREM RowsStayRecoverable == Spec => []RowsRecoverable
<1>1. IInv => RowsRecoverable
  BY DEF IInv, RowsCoherent, RowCoherent, RowsRecoverable, Stored
<1>2. QED
  BY <1>1, InductiveInvariant, PTL

\* A lease that has not expired is only ended by a task that goes by its token: a
\* worker left with the token of an earlier claim never finalizes or takes over.
THEOREM StaleWorkersAreHarmless == Spec => StaleWorkerHarmless
<1> DEFINE Ends(e) == \E w \in Workers : /\ ev[w] = e /\ token[w] = inbox[e].token
                                         /\ pc[w] \in {"complete", "fail_write"}
                                         /\ pc'[w] = "idle"
           Harmless == \A e \in Events : inbox[e].status = "processing" =>
                         \/ inbox'[e].status = "processing"
                            /\ inbox'[e].token = inbox[e].token
                         \/ inbox[e].lease = 0
                         \/ Ends(e)
<1>1. IInv /\ [Next]_vars => Harmless
  <2> SUFFICES ASSUME IInv, [Next]_vars, NEW e \in Events,
                      inbox[e].status = "processing", inbox[e].lease # 0,
                      inbox'[e] # inbox[e]
               PROVE  \/ inbox'[e].status = "processing"
                         /\ inbox'[e].token = inbox[e].token
                      \/ Ends(e)
    OBVIOUS
  <2> USE DEF IInv, Typed
  <2>1. ASSUME NEW w \in Workers, NEW f \in Events, Receive(w, f) PROVE FALSE
    BY <2>1 DEF Receive, Enqueue, Stored
  <2>2. ASSUME NEW w \in Workers, ClaimEvent(w) PROVE FALSE
    BY <2>2 DEF ClaimEvent, Claim, Claimable, ExpiredLease, Abandon,
                ExhaustedExpiredLease, inboxVars
  <2>3. ASSUME NEW w \in Workers, CompleteEvent(w) PROVE Ends(e)
    BY <2>3 DEF CompleteEvent, Complete, Owned, Exit, Leave, Goto
  <2>4. ASSUME NEW w \in Workers, FailWrite(w) PROVE Ends(e)
    BY <2>4 DEF FailWrite, Fail, Owned, Exit, Leave, Goto
  <2>5. CASE Tick
    <3>1. inbox'[e] = [inbox[e] EXCEPT !.wait = Minus1(@), !.lease = Minus1(@)]
      BY <2>5 DEF Tick, Elapse
    <3>2. inbox[e] \in Row
      OBVIOUS
    <3>3. inbox'[e].status = inbox[e].status /\ inbox'[e].token = inbox[e].token
      BY <3>1, <3>2 DEF Row
    <3>4. QED
      BY <3>3
  <2>6. ASSUME NEW w \in Workers,
               \/ Poll(w) \/ Acquire(w) \/ Lookup(w) \/ ReadBack(w) \/ CheckLedger(w) \/ Ignore(w)
               \/ HandleOk(w) \/ HandleError(w) \/ RecordEvent(w) \/ FailRead(w)
               \/ DbError(w)
        PROVE  FALSE
    BY <2>6 DEF Poll, ListDue, NextInBatch, Acquire, TakeLock, TakeSlot, Lookup,
                ReadBack, CheckLedger, Ignore, HandleOk, HandleError, RecordEvent, FailRead,
                DbError, inboxVars
  <2>7. (\E p \in Procs : Crash(p)) \/ UNCHANGED vars => FALSE
    BY DEF Crash, inboxVars, vars
  <2>8. QED
    BY <2>1, <2>2, <2>3, <2>4, <2>5, <2>6, <2>7 DEF Next, Step
<1>2. [][Harmless]_vars <=> StaleWorkerHarmless
  BY DEF StaleWorkerHarmless
<1>3. QED
  BY <1>1, <1>2, InductiveInvariant, PTL DEF Spec

-----------------------------------------------------------------------------
(* FrontWebhook implements DurableDelivery *)

\* The refinement mapping's value of phase.
MappedPhase == [e \in Events |-> Phase(inbox[e])]

LEMMA PhaseOfUpdate ==
  ASSUME NEW e \in Events, NEW r, inbox \in [Events -> Row],
         inbox' = [inbox EXCEPT ![e] = r]
  PROVE  MappedPhase' = [MappedPhase EXCEPT ![e] = Phase(r)]
BY DEF MappedPhase, Phase

LEMMA PhaseOfStutter ==
  ASSUME inbox \in [Events -> Row], inbox' \in [Events -> Row],
         \A e \in Events : inbox'[e].status = inbox[e].status
  PROVE  MappedPhase' = MappedPhase
BY DEF MappedPhase, Phase

LEMMA InitMaps == Init => Delivery!Init
BY DEF Init, InboxInit, Delivery!Init, Phase, Absent

LEMMA ReceiveMaps ==
  ASSUME IInv, NEW w \in Workers, NEW e \in Events, Receive(w, e)
  PROVE  Delivery!Accept(e) \/ UNCHANGED <<MappedPhase, claims, ledger>>
<1> USE DEF IInv, Typed, Receive, Enqueue
<1>1. CASE Stored(e)
  BY <1>1, PhaseOfStutter
<1>2. CASE ~Stored(e)
  <2>1. MappedPhase' = [MappedPhase EXCEPT ![e] = Phase(NewRow)]
    BY <1>2, PhaseOfUpdate
  <2>2. Phase(inbox[e]) = "unknown" /\ Phase(NewRow) = "open"
    BY <1>2 DEF Phase, Stored, NewRow, Absent
  <2>3. QED
    BY <2>1, <2>2 DEF Delivery!Accept, MappedPhase
<1>3. QED
  BY <1>1, <1>2

LEMMA ClaimMaps ==
  ASSUME IInv, NEW w \in Workers, ClaimEvent(w)
  PROVE  \/ Delivery!Try(ev[w]) \/ Delivery!Settle(ev[w])
         \/ UNCHANGED <<MappedPhase, claims, ledger>>
<1> DEFINE e == ev[w]
<1> USE DEF IInv, Typed
<1>1. e \in Events /\ RowCoherent(inbox[e], claims[e]) /\ claims[e] \in 0..MaxAttempts
  BY DEF Busy, RowsCoherent, ClaimEvent
<1>2. CASE Claim(e)
  <2>1. MappedPhase' = [MappedPhase EXCEPT ![e] = Phase(ClaimedRow(inbox[e], claims[e] + 1))]
    BY <1>1, <1>2, PhaseOfUpdate DEF Claim
  <2>2. /\ Phase(inbox[e]) = "open"
        /\ Phase(ClaimedRow(inbox[e], claims[e] + 1)) = "open"
    BY <1>1, <1>2 DEF Claim, Claimable, ExpiredLease, ClaimedRow, Phase, Row
  <2>3. claims[e] < MaxAttempts
    BY <1>1, <1>2 DEF Claim, Claimable, RowCoherent
  <2>4. MappedPhase' = MappedPhase
    BY <1>1, <2>1, <2>2 DEF MappedPhase
  <2>5. QED
    BY <1>1, <1>2, <2>2, <2>3, <2>4 DEF Delivery!Try, MappedPhase, Claim, ClaimEvent
<1>3. CASE Abandon(e)
  <2>1. MappedPhase' = [MappedPhase EXCEPT ![e] = Phase(AbandonedRow(inbox[e]))]
    BY <1>1, <1>3, PhaseOfUpdate DEF Abandon
  <2>2. /\ Phase(inbox[e]) = "open"
        /\ Phase(AbandonedRow(inbox[e])) = "given_up"
    BY <1>1, <1>3
    DEF Abandon, ExhaustedExpiredLease, ExpiredLease, AbandonedRow, Phase, Row
  <2>3. claims[e] = MaxAttempts
    <3>1. inbox[e].attempts >= MaxAttempts /\ inbox[e].attempts = claims[e]
      BY <1>1, <1>3 DEF Abandon, ExhaustedExpiredLease, RowCoherent
    <3>2. ASSUME NEW n \in 0..MaxAttempts, n >= MaxAttempts PROVE n = MaxAttempts
      BY <3>2, MaxAttemptsAssumption
    <3>3. QED
      BY <1>1, <3>1, <3>2
  <2>4. QED
    BY <1>1, <1>3, <2>1, <2>2, <2>3 DEF Delivery!Settle, MappedPhase, Abandon, ClaimEvent,
        Claim, Claimable, ExhaustedExpiredLease
<1>4. CASE UNCHANGED inboxVars
  BY <1>4, PhaseOfStutter DEF inboxVars, ClaimEvent
<1>5. QED
  BY <1>2, <1>3, <1>4 DEF ClaimEvent

LEMMA RecordMaps ==
  ASSUME IInv, NEW w \in Workers, RecordEvent(w)
  PROVE  Delivery!Record(ev[w])
<1>1. claims[ev[w]] > 0
  BY DEF RecordEvent, IInv, Typed, Winners, Working, Claimed, Busy
<1>2. MappedPhase' = MappedPhase
  BY PhaseOfStutter DEF RecordEvent, inboxVars, IInv, Typed
<1>3. QED
  BY <1>1, <1>2 DEF RecordEvent, inboxVars, Delivery!Record, MappedPhase

LEMMA CompleteMaps ==
  ASSUME IInv, NEW w \in Workers, CompleteEvent(w)
  PROVE  Delivery!Settle(ev[w]) \/ UNCHANGED <<MappedPhase, claims, ledger>>
<1> DEFINE e == ev[w]
<1> USE DEF IInv, Typed, CompleteEvent, Complete
<1>1. e \in Events /\ e \in ledger
  BY DEF Busy, CompleteIsRecorded
<1>2. CASE Owned(inbox[e], token[w])
  <2>1. MappedPhase' = [MappedPhase EXCEPT ![e] = Phase(ProcessedRow(inbox[e]))]
    BY <1>1, <1>2, PhaseOfUpdate
  <2>2. Phase(inbox[e]) = "open" /\ Phase(ProcessedRow(inbox[e])) = "processed"
    BY <1>1, <1>2 DEF Owned, ProcessedRow, Phase, Row
  <2>3. QED
    BY <1>1, <2>1, <2>2 DEF Delivery!Settle, MappedPhase
<1>3. CASE ~Owned(inbox[e], token[w])
  BY <1>1, <1>3, PhaseOfStutter
<1>4. QED
  BY <1>2, <1>3

LEMMA BelowOrAt ==
  ASSUME NEW n \in 0..MaxAttempts
  PROVE  n < MaxAttempts \/ n = MaxAttempts
BY MaxAttemptsAssumption

LEMMA FailWriteMaps ==
  ASSUME IInv, NEW w \in Workers, FailWrite(w)
  PROVE  Delivery!Settle(ev[w]) \/ UNCHANGED <<MappedPhase, claims, ledger>>
<1> DEFINE e == ev[w]
           r == FailedRow(inbox[e], seen[w])
<1> USE DEF IInv, Typed, FailWrite, Fail
<1>1. e \in Events /\ claims[e] \in 0..MaxAttempts
  BY DEF Busy
<1>2. CASE Owned(inbox[e], token[w])
  <2>1. seen[w] = claims[e]
    BY <1>2 DEF SeenIsCurrent
  <2>2. MappedPhase' = [MappedPhase EXCEPT ![e] = Phase(r)]
    BY <1>1, <1>2, PhaseOfUpdate
  <2>3. Phase(inbox[e]) = "open"
    BY <1>1, <1>2 DEF Owned, Phase
  <2>4. CASE claims[e] < MaxAttempts
    <3>1. Phase(r) = "open"
      BY <1>1, <2>1, <2>4 DEF FailedRow, RetryRow, Phase, Row
    <3>2. QED
      BY <1>1, <2>2, <2>3, <3>1 DEF MappedPhase
  <2>5. CASE claims[e] = MaxAttempts
    <3>1. Phase(r) = "given_up"
      BY <1>1, <2>1, <2>5, MaxAttemptsAssumption DEF FailedRow, AbandonedRow, Phase, Row
    <3>2. QED
      BY <1>1, <2>2, <2>3, <2>5, <3>1 DEF Delivery!Settle, MappedPhase
  <2>6. QED
    BY <1>1, <2>4, <2>5, BelowOrAt
<1>3. CASE ~Owned(inbox[e], token[w])
  BY <1>1, <1>3, PhaseOfStutter
<1>4. QED
  BY <1>2, <1>3

LEMMA OthersMap ==
  ASSUME IInv, IInv', NEW w \in Workers,
         \/ Poll(w) \/ Acquire(w) \/ Lookup(w) \/ ReadBack(w) \/ CheckLedger(w)
         \/ Ignore(w) \/ HandleOk(w) \/ HandleError(w) \/ FailRead(w) \/ DbError(w)
  PROVE  UNCHANGED <<MappedPhase, claims, ledger>>
<1>1. UNCHANGED <<claims, ledger, inbox>>
  BY DEF Poll, ListDue, NextInBatch, Acquire, TakeLock, TakeSlot, Lookup, ReadBack,
         CheckLedger, Ignore, HandleOk, HandleError, FailRead, DbError, inboxVars
<1>2. QED
  BY <1>1, PhaseOfStutter DEF IInv, Typed

\* Every behaviour of the service, whatever its size and its faults, is one
\* DurableDelivery allows.
THEOREM Refinement == Spec => ImplementsDelivery
<1>1. IInv /\ IInv' /\ [Next]_vars => [Delivery!Next]_(Delivery!vars)
  <2> SUFFICES ASSUME IInv, IInv', [Next]_vars
               PROVE  \/ Delivery!Next \/ UNCHANGED <<MappedPhase, claims, ledger>>
    BY DEF Delivery!vars, MappedPhase
  <2>1. ASSUME NEW w \in Workers, NEW e \in Events, Receive(w, e)
        PROVE  \/ Delivery!Next \/ UNCHANGED <<MappedPhase, claims, ledger>>
    BY <2>1, ReceiveMaps DEF Delivery!Next
  <2>2. ASSUME NEW w \in Workers,
               \/ ClaimEvent(w) \/ RecordEvent(w) \/ CompleteEvent(w)
               \/ FailWrite(w)
        PROVE  \/ Delivery!Next \/ UNCHANGED <<MappedPhase, claims, ledger>>
    <3>1. ev[w] \in Events
      BY <2>2 DEF IInv, Busy, ClaimEvent, RecordEvent, CompleteEvent, FailWrite
    <3>2. QED
      BY <2>2, <3>1, ClaimMaps, RecordMaps, CompleteMaps, FailWriteMaps DEF Delivery!Next
  <2>3. ASSUME NEW w \in Workers,
               \/ Poll(w) \/ Acquire(w) \/ Lookup(w) \/ ReadBack(w) \/ CheckLedger(w) \/ Ignore(w)
               \/ HandleOk(w) \/ HandleError(w) \/ FailRead(w) \/ DbError(w)
        PROVE  UNCHANGED <<MappedPhase, claims, ledger>>
    BY <2>3, OthersMap
  <2>4. CASE (\E p \in Procs : Crash(p)) \/ Tick \/ UNCHANGED vars
    <3>1. UNCHANGED <<claims, ledger>>
      BY <2>4 DEF Crash, Tick, Elapse, inboxVars, vars
    <3>2. \A e \in Events : inbox'[e].status = inbox[e].status
      BY <2>4 DEF Crash, Tick, Elapse, inboxVars, vars, IInv, Typed, Row
    <3>3. QED
      BY <3>1, <3>2, PhaseOfStutter DEF IInv, Typed
  <2>5. QED
    BY <2>1, <2>2, <2>3, <2>4 DEF Next, Step
<1>2. QED
  BY <1>1, InitMaps, InductiveInvariant, PTL DEF Spec, ImplementsDelivery, Delivery!Spec

-----------------------------------------------------------------------------
(* Locks and permits *)

\* The control points between acquiring a conversation lock and releasing it.
Holding == Critical \cup {"slot"}

\* A task past the lock holds it.
LockHeld == \A w \in Workers : pc[w] \in Holding => convLock[LockOf(w)] = w

\* A held lock has an owner past the lock, of that process and conversation.
LockOwned ==
  \A l \in Procs \X Convs, v \in Workers :
    convLock[l] = v => pc[v] \in Holding /\ LockOf(v) = l

\* Every permit is free or with a task inside.
PermitsCounted ==
  \A p \in Procs : permits[p] + Cardinality(Inside(p)) = Capacity

MutexInv == LockHeld /\ LockOwned /\ PermitsCounted

LEMMA InsideFinite ==
  ASSUME NEW p \in Procs
  PROVE  IsFiniteSet(Inside(p)) /\ Cardinality(Inside(p)) \in Nat
<1>1. Inside(p) \subseteq Workers
  BY DEF Inside
<1>2. QED
  BY <1>1, WorkersAssumption, FS_Subset, FS_CardinalityType

\* A task that changes control inside or outside the critical section, not across
\* its border, leaves locks and permits correct if it leaves them alone.
LEMMA StayMutex ==
  ASSUME IInv, MutexInv, NEW w \in Workers, NEW label \in Control, Goto(w, label),
         (label \in Critical) <=> (pc[w] \in Critical),
         (label \in Holding) <=> (pc[w] \in Holding),
         pc[w] \in Holding => ev'[w] = ev[w],
         \A v \in Workers : v # w => ev'[v] = ev[v],
         UNCHANGED mutexVars
  PROVE  MutexInv'
<1> USE DEF IInv, Typed, MutexInv, Goto, mutexVars, LockOf
<1>1. LockHeld'
  BY DEF LockHeld
<1>2. LockOwned'
  BY DEF LockOwned
<1>3. ASSUME NEW p \in Procs PROVE Inside(p)' = Inside(p)
  BY DEF Inside
<1>4. PermitsCounted'
  BY <1>3 DEF PermitsCounted
<1>5. QED
  BY <1>1, <1>2, <1>4

LEMMA TakeLockMutex ==
  ASSUME IInv, MutexInv, NEW w \in Workers, TakeLock(w)
  PROVE  MutexInv'
<1> USE DEF IInv, Typed, MutexInv, Goto, TakeLock, LockOf
<1>1. LockOf(w) \in Procs \X Convs
  BY ProcOfAssumption, ConvOfAssumption DEF Busy
<1>2. LockHeld'
  <2> SUFFICES ASSUME NEW v \in Workers, pc'[v] \in Holding
               PROVE  convLock'[<<ProcOf[v], ConvOf[ev[v]]>>] = v
    BY DEF LockHeld
  <2>1. CASE v = w
    BY <1>1, <2>1
  <2>2. CASE v # w
    <3>1. convLock[<<ProcOf[v], ConvOf[ev[v]]>>] = v
      BY <2>2 DEF LockHeld
    <3>2. <<ProcOf[v], ConvOf[ev[v]]>> # <<ProcOf[w], ConvOf[ev[w]]>>
      BY <3>1, NoneAssumption
    <3>3. QED
      BY <1>1, <3>1, <3>2
  <2>3. QED
    BY <2>1, <2>2
<1>3. LockOwned'
  <2> SUFFICES ASSUME NEW l \in Procs \X Convs, NEW v \in Workers, convLock'[l] = v
               PROVE  pc'[v] \in Holding /\ <<ProcOf[v], ConvOf[ev[v]]>> = l
    BY DEF LockOwned
  <2>1. CASE l = <<ProcOf[w], ConvOf[ev[w]]>>
    BY <1>1, <2>1 DEF Holding
  <2>2. CASE l # <<ProcOf[w], ConvOf[ev[w]]>>
    BY <1>1, <2>2 DEF LockOwned
  <2>3. QED
    BY <2>1, <2>2
<1>4. ASSUME NEW p \in Procs PROVE Inside(p)' = Inside(p)
  BY DEF Inside, Critical, Working, Claimed
<1>5. PermitsCounted'
  BY <1>4 DEF PermitsCounted
<1>6. QED
  BY <1>2, <1>3, <1>5

LEMMA TakeSlotMutex ==
  ASSUME IInv, MutexInv, NEW w \in Workers, TakeSlot(w)
  PROVE  MutexInv'
<1> USE DEF IInv, Typed, MutexInv, Goto, TakeSlot, LockOf
<1>1. LockHeld'
  BY DEF LockHeld, Holding, Critical
<1>2. LockOwned'
  BY DEF LockOwned, Holding, Critical
<1>3. ASSUME NEW p \in Procs PROVE permits'[p] + Cardinality(Inside(p)') = Capacity
  <2>1. permits[p] + Cardinality(Inside(p)) = Capacity
    BY DEF PermitsCounted
  <2>2. CASE p = ProcOf[w]
    <3>1. Inside(p)' = Inside(p) \cup {w} /\ w \notin Inside(p)
      BY <2>2 DEF Inside, Critical, Working, Claimed
    <3>2. Cardinality(Inside(p)') = Cardinality(Inside(p)) + 1
      BY <3>1, InsideFinite, FS_AddElement
    <3>3. permits'[p] = permits[p] - 1 /\ permits[p] \in Nat
      BY <2>2
    <3>4. QED
      BY <2>1, <3>2, <3>3, InsideFinite
  <2>3. CASE p # ProcOf[w]
    <3>1. Inside(p)' = Inside(p) /\ permits'[p] = permits[p]
      BY <2>3 DEF Inside
    <3>2. QED
      BY <2>1, <3>1
  <2>4. QED
    BY <2>2, <2>3
<1>4. PermitsCounted'
  BY <1>3 DEF PermitsCounted
<1>5. QED
  BY <1>1, <1>2, <1>4

LEMMA ExitMutex ==
  ASSUME IInv, MutexInv, NEW w \in Workers, pc[w] \in Critical, Exit(w)
  PROVE  MutexInv'
<1> USE DEF IInv, Typed, MutexInv, Goto, Exit, Leave, Release, LockOf
<1>1. ev[w] \in Events /\ <<ProcOf[w], ConvOf[ev[w]]>> \in Procs \X Convs
  BY ProcOfAssumption, ConvOfAssumption DEF Busy, Critical, Working, Claimed
<1>2. convLock[<<ProcOf[w], ConvOf[ev[w]]>>] = w
  BY DEF LockHeld, Holding
<1>3. LockHeld'
  <2> SUFFICES ASSUME NEW v \in Workers, pc'[v] \in Holding
               PROVE  convLock'[<<ProcOf[v], ConvOf[ev'[v]]>>] = v
    BY DEF LockHeld
  <2>1. v # w /\ ev'[v] = ev[v]
    BY DEF Holding, Critical, Working, Claimed
  <2>2. convLock[<<ProcOf[v], ConvOf[ev[v]]>>] = v
    BY <2>1 DEF LockHeld
  <2>3. <<ProcOf[v], ConvOf[ev[v]]>> # <<ProcOf[w], ConvOf[ev[w]]>>
    BY <1>2, <2>1, <2>2
  <2>4. <<ProcOf[v], ConvOf[ev[v]]>> \in Procs \X Convs
    BY <2>1, ProcOfAssumption, ConvOfAssumption DEF Busy, Holding, Critical, Working, Claimed
  <2>5. QED
    BY <1>1, <2>1, <2>2, <2>3, <2>4
<1>4. LockOwned'
  <2> SUFFICES ASSUME NEW l \in Procs \X Convs, NEW v \in Workers, convLock'[l] = v
               PROVE  pc'[v] \in Holding /\ <<ProcOf[v], ConvOf[ev'[v]]>> = l
    BY DEF LockOwned
  <2>1. l # <<ProcOf[w], ConvOf[ev[w]]>>
    BY <1>1, NoneAssumption
  <2>2. convLock[l] = v
    BY <1>1, <2>1
  <2>3. pc[v] \in Holding /\ <<ProcOf[v], ConvOf[ev[v]]>> = l
    BY <2>2 DEF LockOwned
  <2>4. v # w
    BY <2>1, <2>3
  <2>5. QED
    BY <2>3, <2>4
<1>5. ASSUME NEW p \in Procs PROVE permits'[p] + Cardinality(Inside(p)') = Capacity
  <2>1. permits[p] + Cardinality(Inside(p)) = Capacity
    BY DEF PermitsCounted
  <2>2. CASE p = ProcOf[w]
    <3>1. Inside(p)' = Inside(p) \ {w} /\ w \in Inside(p)
      BY <2>2 DEF Inside, Critical, Working, Claimed
    <3>2. Cardinality(Inside(p)') = Cardinality(Inside(p)) - 1
      BY <3>1, InsideFinite, FS_RemoveElement
    <3>3. permits'[p] = permits[p] + 1 /\ permits[p] \in Nat
      BY <2>2
    <3>4. QED
      BY <2>1, <3>2, <3>3, InsideFinite
  <2>3. CASE p # ProcOf[w]
    <3>1. Inside(p)' = Inside(p) /\ permits'[p] = permits[p]
      BY <2>3 DEF Inside
    <3>2. QED
      BY <2>1, <3>1
  <2>4. QED
    BY <2>2, <2>3
<1>6. PermitsCounted'
  BY <1>5 DEF PermitsCounted
<1>7. QED
  BY <1>3, <1>4, <1>6

LEMMA CrashMutex ==
  ASSUME IInv, MutexInv, NEW p \in Procs, Crash(p)
  PROVE  MutexInv'
<1> USE DEF IInv, Typed, MutexInv, Crash, LockOf
<1>1. \A v \in Workers : pc'[v] \in Holding => ProcOf[v] # p /\ pc'[v] = pc[v] /\ ev'[v] = ev[v]
  BY DEF Holding, Critical, Working, Claimed
<1>2. \A v \in Workers : pc'[v] \in Holding => <<ProcOf[v], ConvOf[ev[v]]>> \in Procs \X Convs
  BY <1>1, ProcOfAssumption, ConvOfAssumption DEF Busy, Holding, Critical, Working, Claimed
<1>3. LockHeld'
  <2> SUFFICES ASSUME NEW v \in Workers, pc'[v] \in Holding
               PROVE  convLock'[<<ProcOf[v], ConvOf[ev[v]]>>] = v
    BY <1>1 DEF LockHeld
  <2>1. convLock[<<ProcOf[v], ConvOf[ev[v]]>>] = v
    BY <1>1 DEF LockHeld
  <2>2. QED
    BY <1>1, <1>2, <2>1
<1>4. LockOwned'
  <2> SUFFICES ASSUME NEW l \in Procs \X Convs, NEW v \in Workers, convLock'[l] = v
               PROVE  pc'[v] \in Holding /\ <<ProcOf[v], ConvOf[ev'[v]]>> = l
    BY DEF LockOwned
  <2>1. l[1] # p /\ convLock[l] = v
    BY NoneAssumption
  <2>2. pc[v] \in Holding /\ <<ProcOf[v], ConvOf[ev[v]]>> = l
    BY <2>1 DEF LockOwned
  <2>3. ProcOf[v] # p
    BY <2>1, <2>2
  <2>4. QED
    BY <2>2, <2>3
<1>5. ASSUME NEW q \in Procs PROVE permits'[q] + Cardinality(Inside(q)') = Capacity
  <2>1. CASE q = p
    <3>1. Inside(q)' = {}
      BY <2>1 DEF Inside, Critical, Working, Claimed
    <3>2. permits'[q] = Capacity
      BY <2>1
    <3>3. QED
      BY <3>1, <3>2, FS_EmptySet, CapacityAssumption
  <2>2. CASE q # p
    <3>1. Inside(q)' = Inside(q) /\ permits'[q] = permits[q]
      BY <2>2 DEF Inside
    <3>2. QED
      BY <3>1 DEF PermitsCounted
  <2>3. QED
    BY <2>1, <2>2
<1>6. PermitsCounted'
  BY <1>5 DEF PermitsCounted
<1>7. QED
  BY <1>3, <1>4, <1>6

LEMMA InitMutex == Init => MutexInv
<1> SUFFICES ASSUME Init PROVE MutexInv
  OBVIOUS
<1> USE DEF Init
<1>1. LockHeld
  BY DEF LockHeld, Holding, Critical, Working, Claimed
<1>2. LockOwned
  BY NoneAssumption DEF LockOwned
<1>3. ASSUME NEW p \in Procs PROVE permits[p] + Cardinality(Inside(p)) = Capacity
  <2>1. Inside(p) = {}
    BY DEF Inside, Critical, Working, Claimed
  <2>2. QED
    BY <2>1, FS_EmptySet, CapacityAssumption
<1>4. QED
  BY <1>1, <1>2, <1>3 DEF MutexInv, PermitsCounted

\* Control points inside, and outside, the critical section.
LEMMA Places ==
  /\ Critical \subseteq Control /\ Holding \subseteq Control
  /\ {"reread", "check", "handle", "record", "complete", "fail_read", "fail_write"}
       \subseteq Critical
  /\ {"idle", "lookup", "lock"} \subseteq Control \ Holding
BY DEF Control, Waiting, Critical, Working, Claimed, Holding

LEMMA NextMutex == IInv /\ MutexInv /\ [Next]_vars => MutexInv'
<1> SUFFICES ASSUME IInv, MutexInv, [Next]_vars PROVE MutexInv'
  OBVIOUS
<1>1. ASSUME NEW w \in Workers, NEW e \in Events, Receive(w, e) PROVE MutexInv'
  BY <1>1, Places, StayMutex DEF Receive, IInv, Typed, Holding
<1>2. ASSUME NEW w \in Workers, Poll(w) PROVE MutexInv'
  <2>1. CASE ListDue(w)
    <3>1. UNCHANGED <<pc, ev, mutexVars>>
      BY <2>1 DEF ListDue, taskVars
    <3>2. QED
      BY <3>1 DEF MutexInv, LockHeld, LockOwned, PermitsCounted, Inside, LockOf, mutexVars
  <2>2. CASE NextInBatch(w)
    <3>1. PICK f \in batch[w] : ev' = [ev EXCEPT ![w] = f]
      BY <2>2 DEF NextInBatch
    <3>2. QED
      BY <2>2, <3>1, Places, StayMutex DEF NextInBatch, IInv, Typed, Holding
  <2>3. QED
    BY <1>2, <2>1, <2>2 DEF Poll
<1>3. ASSUME NEW w \in Workers, Acquire(w) PROVE MutexInv'
  BY <1>3, TakeLockMutex, TakeSlotMutex DEF Acquire
<1>4. ASSUME NEW w \in Workers, Leave(w), pc[w] = "lookup", UNCHANGED mutexVars
      PROVE  MutexInv'
  BY <1>4, Places, StayMutex DEF Leave, IInv, Typed, Holding
<1>5. ASSUME NEW w \in Workers, NEW label \in Critical, pc[w] \in Critical, Goto(w, label),
             UNCHANGED <<ev, mutexVars>>
      PROVE  MutexInv'
  BY <1>5, Places, StayMutex DEF Holding
<1>6. ASSUME NEW w \in Workers, Lookup(w) PROVE MutexInv'
  <2>1. CASE Goto(w, "lock") /\ UNCHANGED <<ev, token, won, seen>>
    BY <1>6, <2>1, Places, StayMutex DEF Lookup, IInv, Typed, Holding
  <2>2. QED
    BY <1>4, <1>6, <2>1 DEF Lookup
<1>7. ASSUME NEW w \in Workers,
             \/ ClaimEvent(w) \/ ReadBack(w) \/ CheckLedger(w) \/ Ignore(w) \/ HandleOk(w)
             \/ HandleError(w) \/ RecordEvent(w) \/ FailRead(w) \/ CompleteEvent(w)
             \/ FailWrite(w)
      PROVE  MutexInv'
  <2>1. pc[w] \in Critical
    BY <1>7 DEF ClaimEvent, ReadBack, CheckLedger, Ignore, HandleOk, HandleError, RecordEvent,
                FailRead, CompleteEvent, FailWrite, Critical, Working, Claimed
  <2>2. \/ Exit(w)
        \/ \E label \in Critical : Goto(w, label) /\ UNCHANGED <<ev, mutexVars>>
    BY <1>7, Places
    DEF ClaimEvent, ReadBack, CheckLedger, Ignore, HandleOk, HandleError, RecordEvent, FailRead,
        CompleteEvent, FailWrite
  <2>3. QED
    BY <1>5, <2>1, <2>2, ExitMutex
<1>8. ASSUME NEW w \in Workers, DbError(w) PROVE MutexInv'
  <2>1. CASE DbErrorHandling(w)
    BY <1>5, <2>1, Places DEF DbErrorHandling
  <2>2. CASE pc[w] = "lookup" /\ Leave(w) /\ UNCHANGED mutexVars
    BY <1>4, <2>2
  <2>3. CASE pc[w] \in {"claim", "reread", "complete", "fail_read", "fail_write"} /\ Exit(w)
    BY <2>3, ExitMutex DEF Critical, Working, Claimed
  <2>4. QED
    BY <1>8, <2>1, <2>2, <2>3 DEF DbError, DbErrorEnding
<1>9. ASSUME NEW p \in Procs, Crash(p) PROVE MutexInv'
  BY <1>9, CrashMutex
<1>10. CASE Tick \/ UNCHANGED vars
  <2>1. UNCHANGED <<pc, ev, mutexVars>>
    BY <1>10 DEF Tick, taskVars, vars, mutexVars
  <2>2. QED
    BY <2>1 DEF MutexInv, LockHeld, LockOwned, PermitsCounted, Inside, LockOf, mutexVars
<1>11. QED
  BY <1>1, <1>2, <1>3, <1>6, <1>7, <1>8, <1>9, <1>10 DEF Next, Step

\* The asyncio locks and the semaphore are held by exactly the tasks between
\* acquiring and releasing them.
THEOREM MutexInvariant == Spec => []MutexInv
<1>1. Init => MutexInv
  BY InitMutex
<1>2. IInv /\ MutexInv /\ [Next]_vars => MutexInv'
  BY NextMutex
<1>3. QED
  BY <1>1, <1>2, InductiveInvariant, PTL DEF Spec

\* Within a process two tasks never work on one conversation at the same time.
THEOREM TasksExclude == Spec => []OneTaskPerConversation
<1>1. MutexInv => OneTaskPerConversation
  BY DEF MutexInv, LockHeld, Holding, OneTaskPerConversation
<1>2. QED
  BY <1>1, MutexInvariant, PTL

\* No path out of the critical section, error or crash, loses a permit or a lock.
THEOREM NeverLeaks == Spec => []NothingLeaks
<1>1. IInv /\ MutexInv => NothingLeaks
  BY DEF IInv, Typed, MutexInv, LockOwned, PermitsCounted, NothingLeaks, Holding
<1>2. QED
  BY <1>1, MutexInvariant, InductiveInvariant, PTL

\* Every variable keeps its type; in particular attempts never pass MaxAttempts and
\* the semaphore never has more than Capacity permits.
THEOREM TypeCorrect == Spec => []TypeOK
<1>1. IInv /\ MutexInv => permits \in [Procs -> 0..Capacity]
  <2> SUFFICES ASSUME IInv, MutexInv, NEW p \in Procs PROVE permits[p] \in 0..Capacity
    BY DEF IInv, Typed
  <2>1. permits[p] + Cardinality(Inside(p)) = Capacity /\ permits[p] \in Nat
    BY DEF MutexInv, PermitsCounted, IInv, Typed
  <2>2. QED
    BY <2>1, InsideFinite, CapacityAssumption
<1>2. IInv /\ MutexInv => TypeOK
  BY <1>1 DEF IInv, Typed, TypeOK
<1>3. QED
  BY <1>2, MutexInvariant, InductiveInvariant, PTL
-----------------------------------------------------------------------------
(* Who owns a claim *)

\* In one process, one task at a time is past the lock with an event.
LEMMA OneTaskPerEvent ==
  ASSUME IInv, MutexInv, OneProcess,
         NEW v \in Workers, NEW w \in Workers,
         pc[v] \in Critical, pc[w] \in Critical, ev[v] = ev[w]
  PROVE  v = w
<1>1. LockOf(v) = LockOf(w)
  BY ProcOfAssumption DEF OneProcess, LockOf
<1>2. convLock[LockOf(v)] = v /\ convLock[LockOf(w)] = w
  BY DEF MutexInv, LockHeld, Holding
<1>3. QED
  BY <1>1, <1>2

\* With one process the row a task claimed is its own until it has read it back,
\* and it goes by the token it wrote.
OwnClaim ==
  \A w \in Workers : /\ pc[w] = "reread" => inbox[ev[w]].token = won[w]
                     /\ pc[w] \in Claimed => token[w] = won[w]

\* A step of task v that leaves alone the others and the rows they have claimed.
LEMMA OthersOwn ==
  ASSUME OwnClaim, NEW v \in Workers,
         \A w \in Workers \ {v} : /\ pc'[w] = pc[w] /\ ev'[w] = ev[w]
                                  /\ token'[w] = token[w] /\ won'[w] = won[w],
         \A w \in Workers \ {v} :
           pc[w] = "reread" => inbox'[ev[w]].token = inbox[ev[w]].token,
         pc'[v] = "reread" => inbox'[ev'[v]].token = won'[v],
         pc'[v] \in Claimed => token'[v] = won'[v]
  PROVE  OwnClaim'
BY DEF OwnClaim

LEMMA RowsOfOthers ==
  ASSUME IInv, MutexInv, OneProcess, NEW v \in Workers, pc[v] \in Critical,
         \A e \in Events \ {ev[v]} : inbox'[e] = inbox[e]
  PROVE  \A w \in Workers \ {v} :
           pc[w] = "reread" => inbox'[ev[w]].token = inbox[ev[w]].token
<1> SUFFICES ASSUME NEW w \in Workers \ {v}, pc[w] = "reread"
             PROVE  inbox'[ev[w]].token = inbox[ev[w]].token
  OBVIOUS
<1>1. ev[w] \in Events /\ ev[w] # ev[v]
  BY OneTaskPerEvent DEF IInv, Busy, Critical, Working
<1>2. QED
  BY <1>1

LEMMA NextOwn ==
  ASSUME IInv, MutexInv, OneProcess, OwnClaim, [Next]_vars
  PROVE  OwnClaim'
<1>1. ASSUME NEW v \in Workers, Exit(v), pc[v] \in Critical,
             \A e \in Events \ {ev[v]} : inbox'[e] = inbox[e]
      PROVE  OwnClaim'
  <2>1. /\ pc'[v] = "idle"
        /\ \A w \in Workers \ {v} : /\ pc'[w] = pc[w] /\ ev'[w] = ev[w]
                                    /\ token'[w] = token[w] /\ won'[w] = won[w]
    BY <1>1 DEF Exit, Leave, Goto, IInv, Typed
  <2>2. QED
    BY <1>1, <2>1, RowsOfOthers, OthersOwn DEF Claimed
<1>2. ASSUME NEW v \in Workers, NEW label \in Claimed, Goto(v, label), pc[v] \in Claimed,
             UNCHANGED <<inbox, ev, token, won>>
      PROVE  OwnClaim'
  <2>1. pc' = [pc EXCEPT ![v] = label] /\ label # "reread"
    BY <1>2 DEF Goto, Claimed
  <2>2. QED
    BY <1>2, <2>1 DEF OwnClaim, IInv, Typed
<1>3. ASSUME NEW v \in Workers, ClaimEvent(v) PROVE OwnClaim'
  <2>0. pc[v] \in Critical /\ ev[v] \in Events
    BY <1>3 DEF ClaimEvent, Critical, IInv, Busy
  <2>1. CASE Exit(v)
    <3>1. \A e \in Events \ {ev[v]} : inbox'[e] = inbox[e]
      BY <1>3 DEF ClaimEvent, Claim, Abandon, inboxVars, IInv, Typed
    <3>2. QED
      BY <1>1, <2>0, <2>1, <3>1
  <2>2. CASE /\ Claim(ev[v]) /\ won' = [won EXCEPT ![v] = claims[ev[v]] + 1]
             /\ Goto(v, "reread") /\ UNCHANGED <<ev, token>>
    <3>1. /\ pc'[v] = "reread" /\ won'[v] = claims[ev[v]] + 1
          /\ \A w \in Workers \ {v} : pc'[w] = pc[w] /\ won'[w] = won[w]
          /\ \A e \in Events \ {ev[v]} : inbox'[e] = inbox[e]
      BY <2>2 DEF Claim, Goto, IInv, Typed
    <3>2. inbox'[ev[v]].token = claims[ev[v]] + 1
      BY <2>0, <2>2 DEF Claim, ClaimedRow, IInv, Typed, Row
    <3>3. QED
      BY <2>0, <2>2, <3>1, <3>2, RowsOfOthers, OthersOwn DEF Claimed
  <2>3. QED
    BY <1>3, <2>1, <2>2 DEF ClaimEvent
<1>4. ASSUME NEW v \in Workers, ReadBack(v) PROVE OwnClaim'
  <2>0. pc[v] \in Critical /\ pc[v] = "reread"
    BY <1>4 DEF ReadBack, Critical, Working
  <2>1. CASE Exit(v)
    BY <1>1, <1>4, <2>0, <2>1 DEF ReadBack, inboxVars
  <2>2. CASE /\ token' = [token EXCEPT ![v] = inbox[ev[v]].token]
             /\ Goto(v, "check") /\ UNCHANGED <<ev, won>>
    <3>1. /\ pc'[v] = "check" /\ token'[v] = won[v]
          /\ \A w \in Workers \ {v} : pc'[w] = pc[w] /\ token'[w] = token[w]
      BY <2>0, <2>2 DEF OwnClaim, Goto, IInv, Typed
    <3>2. QED
      BY <1>4, <2>0, <2>2, <3>1, RowsOfOthers, OthersOwn DEF ReadBack, inboxVars
  <2>3. QED
    BY <1>4, <2>1, <2>2 DEF ReadBack
<1>5. ASSUME NEW v \in Workers, CompleteEvent(v) \/ FailWrite(v) PROVE OwnClaim'
  <2>1. /\ Exit(v) /\ pc[v] \in Critical
        /\ \A e \in Events \ {ev[v]} : inbox'[e] = inbox[e]
    BY <1>5 DEF CompleteEvent, FailWrite, Complete, Fail, Critical, Working, Claimed, IInv,
                Typed
  <2>2. QED
    BY <1>1, <2>1
<1>6. ASSUME NEW v \in Workers, FailRead(v) PROVE OwnClaim'
  <2>1. CASE Exit(v)
    BY <1>1, <1>6, <2>1 DEF FailRead, inboxVars, Critical, Working, Claimed
  <2>2. CASE Goto(v, "fail_write") /\ UNCHANGED <<ev, token, won>>
    BY <1>2, <1>6, <2>2 DEF FailRead, inboxVars, Claimed
  <2>3. QED
    BY <1>6, <2>1, <2>2 DEF FailRead
<1>7. ASSUME NEW v \in Workers,
             \/ CheckLedger(v) \/ Ignore(v) \/ HandleOk(v) \/ HandleError(v)
             \/ RecordEvent(v)
      PROVE  OwnClaim'
  BY <1>2, <1>7 DEF CheckLedger, Ignore, HandleOk, HandleError, RecordEvent, inboxVars, Claimed
<1>8. ASSUME NEW v \in Workers, DbError(v) PROVE OwnClaim'
  <2>1. CASE DbErrorHandling(v)
    BY <1>2, <1>8, <2>1 DEF DbError, DbErrorHandling, inboxVars, Claimed
  <2>2. CASE pc[v] # "lookup" /\ DbErrorEnding(v)
    BY <1>1, <1>8, <2>2 DEF DbError, DbErrorEnding, inboxVars, Critical, Working, Claimed
  <2>3. CASE pc[v] = "lookup" /\ Leave(v)
    BY <1>8, <2>3 DEF DbError, Leave, Goto, inboxVars, OwnClaim, IInv, Typed, Claimed
  <2>4. QED
    BY <1>8, <2>1, <2>2, <2>3 DEF DbError, DbErrorEnding
<1>9. ASSUME NEW v \in Workers, NEW e \in Events, Receive(v, e) PROVE OwnClaim'
  <2>1. \A w \in Workers \ {v} : pc'[w] = pc[w] /\ ev'[w] = ev[w]
    BY <1>9 DEF Receive, Goto, IInv, Typed
  <2>2. pc'[v] = "lookup"
    BY <1>9 DEF Receive, Goto, IInv, Typed
  <2>3. ASSUME NEW w \in Workers \ {v}, pc[w] = "reread"
        PROVE  inbox'[ev[w]].token = inbox[ev[w]].token
    <3>1. ev[w] \in Events /\ inbox[ev[w]].token = won[w] /\ won[w] # NoToken
      BY <2>3 DEF OwnClaim, IInv, Busy, Winners, Working, NoToken, Typed
    <3>2. Stored(ev[w])
      BY <3>1 DEF IInv, RowsCoherent, RowCoherent, Stored
    <3>3. QED
      BY <1>9, <3>1, <3>2 DEF Receive, Enqueue, IInv, Typed
  <2>4. QED
    BY <1>9, <2>1, <2>2, <2>3, OthersOwn DEF Receive, Claimed
<1>10. ASSUME NEW v \in Workers, Poll(v) \/ Acquire(v) \/ Lookup(v) PROVE OwnClaim'
  <2>1. CASE ListDue(v)
    BY <2>1 DEF ListDue, taskVars, inboxVars, OwnClaim
  <2>2. CASE NextInBatch(v)
    BY <2>2 DEF NextInBatch, Goto, inboxVars, OwnClaim, IInv, Typed, Claimed
  <2>3. CASE TakeLock(v) \/ TakeSlot(v)
    BY <2>3 DEF TakeLock, TakeSlot, Goto, inboxVars, OwnClaim, IInv, Typed, Claimed
  <2>4. CASE Lookup(v)
    BY <2>4 DEF Lookup, Leave, Goto, inboxVars, OwnClaim, IInv, Typed, Claimed
  <2>5. QED
    BY <1>10, <2>1, <2>2, <2>3, <2>4 DEF Poll, Acquire
<1>11. ASSUME NEW p \in Procs, Crash(p) PROVE OwnClaim'
  BY <1>11 DEF Crash, inboxVars, OwnClaim, Claimed
<1>12. CASE Tick
  <2>1. ASSUME NEW w \in Workers, pc[w] = "reread" PROVE inbox'[ev[w]].token = won[w]
    <3>1. ev[w] \in Events /\ inbox[ev[w]] \in Row /\ inbox[ev[w]].token = won[w]
      BY <2>1 DEF OwnClaim, IInv, Typed, Busy
    <3>2. inbox'[ev[w]] = [inbox[ev[w]] EXCEPT !.wait = Minus1(@), !.lease = Minus1(@)]
      BY <1>12, <3>1 DEF Tick, Elapse
    <3>3. QED
      BY <3>1, <3>2, AgedRowOwner
  <2>2. QED
    BY <1>12, <2>1 DEF Tick, taskVars, OwnClaim
<1>13. CASE UNCHANGED vars
  BY <1>13 DEF vars, OwnClaim
<1>14. QED
  BY <1>3, <1>4, <1>5, <1>6, <1>7, <1>8, <1>9, <1>10, <1>11, <1>12, <1>13 DEF Next, Step

\* However many processes, each claim has one winner, and no task goes by the token of
\* a claim older than its own; with one process it goes by its own.
THEOREM OwnersAreUnique == Spec => []UniqueOwner
<1>1. Init => OwnClaim
  BY DEF Init, OwnClaim, Claimed
<1>2. IInv /\ MutexInv /\ OneProcess /\ OwnClaim /\ [Next]_vars => OwnClaim'
  BY NextOwn
<1>3. ASSUME OneProcess PROVE Spec => []OwnClaim
  BY <1>1, <1>2, <1>3, InductiveInvariant, MutexInvariant, PTL DEF Spec
<1>4. IInv /\ OwnClaim => UniqueOwner
  BY DEF IInv, OwnClaim, UniqueOwner
<1>5. IInv /\ ~OneProcess => UniqueOwner
  BY DEF IInv, UniqueOwner
<1>6. CASE OneProcess
  BY <1>3, <1>4, <1>6, InductiveInvariant, PTL
<1>7. CASE ~OneProcess
  BY <1>5, <1>7, InductiveInvariant, PTL
<1>8. QED
  BY <1>6, <1>7

-----------------------------------------------------------------------------
(* Repeated handling *)

\* The event of a task past the idempotency check, up to its insert, has no row
\* in webhook_events: what CheckLedger read stays true.
CheckedIsNew ==
  \A w \in Workers : pc[w] \in {"handle", "record"} => ev[w] \notin ledger

\* Every success of handle_email is the one that webhook_events shows or that a
\* task is about to insert, or its record was lost to a fault.
Recording(e) == \E w \in Workers : pc[w] = "record" /\ ev[w] = e
SuccessesCounted ==
  \A e \in Events :
    /\ handled[e] <= 1 + faults
    /\ e \notin ledger /\ ~Recording(e) => handled[e] <= faults

RepeatInv == CheckedIsNew /\ SuccessesCounted

\* A task that moves elsewhere than to handling and recording changes nothing
\* that counts, unless it leaves the insert undone, which takes a fault.
LEMMA MoveRepeat ==
  ASSUME IInv, RepeatInv, NEW w \in Workers,
         \A v \in Workers \ {w} : pc'[v] = pc[v] /\ ev'[v] = ev[v],
         pc'[w] \notin {"handle", "record"},
         UNCHANGED <<ledger, handled>>,
         \/ pc[w] # "record" /\ faults' = faults
         \/ faults' = faults + 1
  PROVE  RepeatInv'
<1>1. pc \in [Workers -> Control] /\ handled \in [Events -> Nat] /\ faults \in Nat
  BY MaxFaultsAssumption DEF IInv, Typed
<1>2. \A v \in Workers : pc'[v] \in {"handle", "record"} =>
        v # w /\ pc'[v] = pc[v] /\ ev'[v] = ev[v]
  BY <1>1
<1>3. CheckedIsNew'
  BY <1>2 DEF RepeatInv, CheckedIsNew
<1>4. ASSUME NEW e \in Events
      PROVE  /\ handled'[e] <= 1 + faults'
             /\ e \notin ledger' /\ ~Recording(e)' => handled'[e] <= faults'
  <2>1. CASE faults' = faults + 1
    BY <1>1, <2>1 DEF RepeatInv, SuccessesCounted
  <2>2. CASE pc[w] # "record" /\ faults' = faults
    <3>1. Recording(e) => Recording(e)'
      <4> SUFFICES ASSUME NEW v \in Workers, pc[v] = "record", ev[v] = e PROVE Recording(e)'
        BY DEF Recording
      <4>1. pc'[v] = "record" /\ ev'[v] = e
        BY <2>2 DEF IInv, Typed
      <4>2. QED
        BY <4>1 DEF Recording
    <3>2. QED
      BY <2>2, <3>1 DEF RepeatInv, SuccessesCounted
  <2>3. QED
    BY <2>1, <2>2
<1>5. QED
  BY <1>3, <1>4 DEF RepeatInv, SuccessesCounted

\* A task that goes on to handle, or past handling to record.
LEMMA ForwardRepeat ==
  ASSUME IInv, MutexInv, OneProcess, RepeatInv, NEW w \in Workers,
         NEW label \in {"handle", "record"}, Goto(w, label),
         pc[w] \in {"check", "handle"}, ev[w] \notin ledger,
         UNCHANGED <<ev, ledger, faults>>,
         \/ UNCHANGED handled
         \/ label = "record" /\ handled' = [handled EXCEPT ![ev[w]] = @ + 1]
  PROVE  RepeatInv'
<1>1. /\ pc \in [Workers -> Control] /\ handled \in [Events -> Nat] /\ faults \in Nat
      /\ ev[w] \in Events
  BY MaxFaultsAssumption DEF IInv, Typed, Busy
<1>2. \A v \in Workers : v # w => pc'[v] = pc[v]
  BY <1>1 DEF Goto
<1>3. pc'[w] = label
  BY <1>1 DEF Goto
<1>4. CheckedIsNew'
  BY <1>2, <1>3 DEF RepeatInv, CheckedIsNew
<1>5. ASSUME NEW e \in Events PROVE Recording(e) => Recording(e)'
  <2> SUFFICES ASSUME NEW v \in Workers, pc[v] = "record", ev[v] = e PROVE Recording(e)'
    BY DEF Recording
  <2>1. v # w
    OBVIOUS
  <2>2. pc'[v] = "record" /\ ev'[v] = e
    BY <1>2, <2>1
  <2>3. QED
    BY <2>2 DEF Recording
<1>6. ~Recording(ev[w])
  <2> SUFFICES ASSUME NEW v \in Workers, pc[v] = "record", ev[v] = ev[w] PROVE FALSE
    BY DEF Recording
  <2>1. v = w
    BY OneTaskPerEvent DEF Critical, Working, Claimed
  <2>2. QED
    BY <2>1
<1>7. CASE UNCHANGED handled
  BY <1>4, <1>5, <1>7 DEF RepeatInv, SuccessesCounted
<1>8. CASE label = "record" /\ handled' = [handled EXCEPT ![ev[w]] = @ + 1]
  <2>1. Recording(ev[w])'
    BY <1>3, <1>8 DEF Recording
  <2>2. handled[ev[w]] <= faults
    BY <1>1, <1>6 DEF RepeatInv, SuccessesCounted
  <2>3. ASSUME NEW e \in Events
        PROVE  /\ handled'[e] <= 1 + faults'
               /\ e \notin ledger' /\ ~Recording(e)' => handled'[e] <= faults'
    <3>1. CASE e = ev[w]
      BY <1>1, <1>8, <2>1, <2>2, <3>1
    <3>2. CASE e # ev[w]
      BY <1>1, <1>5, <1>8, <3>2 DEF RepeatInv, SuccessesCounted
    <3>3. QED
      BY <3>1, <3>2
  <2>4. QED
    BY <1>4, <2>3 DEF RepeatInv, SuccessesCounted
<1>9. QED
  BY <1>7, <1>8

LEMMA RecordRepeat ==
  ASSUME IInv, MutexInv, OneProcess, RepeatInv, NEW w \in Workers, RecordEvent(w)
  PROVE  RepeatInv'
<1>1. /\ pc \in [Workers -> Control] /\ ev[w] \in Events /\ pc[w] = "record"
      /\ ev[w] \notin ledger
  BY DEF RecordEvent, IInv, Typed, Busy, RepeatInv, CheckedIsNew
<1>2. /\ pc' = [pc EXCEPT ![w] = "complete"] /\ ledger' = ledger \cup {ev[w]}
      /\ UNCHANGED <<ev, handled, faults>>
  BY <1>1 DEF RecordEvent, Goto
<1>3. ASSUME NEW v \in Workers, pc'[v] \in {"handle", "record"} PROVE ev'[v] \notin ledger'
  <2>1. v # w /\ pc[v] \in {"handle", "record"}
    BY <1>1, <1>2, <1>3
  <2>2. ev[v] # ev[w]
    BY <1>1, <2>1, OneTaskPerEvent DEF Critical, Working, Claimed
  <2>3. QED
    BY <1>2, <2>1, <2>2 DEF RepeatInv, CheckedIsNew
<1>4. ASSUME NEW e \in Events, e \notin ledger', ~Recording(e)' PROVE ~Recording(e)
  <2> SUFFICES ASSUME NEW v \in Workers, pc[v] = "record", ev[v] = e PROVE FALSE
    BY DEF Recording
  <2>1. v # w
    BY <1>2, <1>4
  <2>2. pc'[v] = "record" /\ ev'[v] = e
    BY <1>1, <1>2, <2>1
  <2>3. QED
    BY <1>4, <2>2 DEF Recording
<1>5. SuccessesCounted'
  BY <1>2, <1>4 DEF RepeatInv, SuccessesCounted
<1>6. QED
  BY <1>3, <1>5 DEF RepeatInv, CheckedIsNew

LEMMA CrashRepeat ==
  ASSUME IInv, RepeatInv, NEW p \in Procs, Crash(p)
  PROVE  RepeatInv'
<1>1. handled \in [Events -> Nat] /\ faults \in Nat
  BY MaxFaultsAssumption DEF IInv, Typed
<1>2. UNCHANGED <<ledger, handled>> /\ faults' = faults + 1
  BY DEF Crash
<1>3. \A v \in Workers : pc'[v] # "idle" => pc'[v] = pc[v] /\ ev'[v] = ev[v]
  BY DEF Crash
<1>4. QED
  BY <1>1, <1>2, <1>3 DEF RepeatInv, CheckedIsNew, SuccessesCounted

LEMMA NextRepeat ==
  ASSUME IInv, MutexInv, OneProcess, RepeatInv, [Next]_vars
  PROVE  RepeatInv'
<1>1. ASSUME NEW w \in Workers, Goto(w, "fail_read") \/ Goto(w, "complete"), pc[w] # "record",
             UNCHANGED <<ev, ledger, handled, faults>>
      PROVE  RepeatInv'
  <2>1. /\ \A v \in Workers \ {w} : pc'[v] = pc[v] /\ ev'[v] = ev[v]
        /\ pc'[w] \notin {"handle", "record"}
    BY <1>1 DEF Goto, IInv, Typed
  <2>2. QED
    BY <1>1, <2>1, MoveRepeat
<1>2. ASSUME NEW w \in Workers, Leave(w), UNCHANGED <<ledger, handled>>,
             (pc[w] # "record" /\ faults' = faults) \/ faults' = faults + 1
      PROVE  RepeatInv'
  <2>1. /\ \A v \in Workers \ {w} : pc'[v] = pc[v] /\ ev'[v] = ev[v]
        /\ pc'[w] \notin {"handle", "record"}
    BY <1>2 DEF Leave, Goto, IInv, Typed
  <2>2. QED
    BY <1>2, <2>1, MoveRepeat
<1>3. ASSUME NEW w \in Workers,
             \/ Lookup(w) \/ Acquire(w) \/ ClaimEvent(w) \/ ReadBack(w)
             \/ FailRead(w) \/ HandleError(w)
      PROVE  RepeatInv'
  <2>1. pc[w] # "record" /\ UNCHANGED <<ledger, handled, faults>>
    BY <1>3 DEF Lookup, Acquire, TakeLock, TakeSlot, ClaimEvent, ReadBack, FailRead, HandleError
  <2>2. \/ Leave(w)
        \/ \E label \in {"lock", "slot", "claim", "reread", "check", "fail_write",
                          "fail_read"} :
             Goto(w, label) /\ UNCHANGED ev
    BY <1>3 DEF Lookup, Acquire, TakeLock, TakeSlot, ClaimEvent, ReadBack, FailRead,
                HandleError, Exit
  <2>3. ASSUME NEW label \in {"lock", "slot", "claim", "reread", "check", "fail_write",
                             "fail_read"},
               Goto(w, label), UNCHANGED ev
        PROVE  RepeatInv'
    <3>1. /\ \A v \in Workers \ {w} : pc'[v] = pc[v] /\ ev'[v] = ev[v]
          /\ pc'[w] \notin {"handle", "record"}
      BY <2>3 DEF Goto, IInv, Typed
    <3>2. QED
      BY <2>1, <3>1, MoveRepeat
  <2>4. QED
    BY <1>2, <2>1, <2>2, <2>3
<1>4. ASSUME NEW w \in Workers, CompleteEvent(w) \/ FailWrite(w)
      PROVE  RepeatInv'
  BY <1>2, <1>4 DEF CompleteEvent, FailWrite, Exit
<1>5. ASSUME NEW w \in Workers, CheckLedger(w) PROVE RepeatInv'
  <2>1. CASE ev[w] \in ledger
    BY <1>1, <1>5, <2>1 DEF CheckLedger
  <2>2. CASE ev[w] \notin ledger
    BY <1>5, <2>2, ForwardRepeat DEF CheckLedger
  <2>3. QED
    BY <2>1, <2>2
<1>6. ASSUME NEW w \in Workers, Ignore(w) \/ HandleOk(w) PROVE RepeatInv'
  <2>1. pc[w] = "handle" /\ ev[w] \notin ledger
    BY <1>6 DEF Ignore, HandleOk, RepeatInv, CheckedIsNew
  <2>2. QED
    BY <1>6, <2>1, ForwardRepeat DEF Ignore, HandleOk
<1>7. ASSUME NEW w \in Workers, DbError(w) PROVE RepeatInv'
  <2>1. faults' = faults + 1 /\ UNCHANGED <<ledger, handled>>
    BY <1>7 DEF DbError
  <2>2. CASE DbErrorHandling(w)
    <3>1. /\ \A v \in Workers \ {w} : pc'[v] = pc[v] /\ ev'[v] = ev[v]
          /\ pc'[w] \notin {"handle", "record"}
      BY <2>2 DEF DbErrorHandling, Goto, IInv, Typed
    <3>2. QED
      BY <2>1, <3>1, MoveRepeat
  <2>3. CASE DbErrorEnding(w)
    BY <1>2, <2>1, <2>3 DEF DbErrorEnding, Exit
  <2>4. QED
    BY <1>7, <2>2, <2>3 DEF DbError
<1>8. ASSUME NEW w \in Workers, NEW e \in Events, Receive(w, e) PROVE RepeatInv'
  <2>1. /\ \A v \in Workers \ {w} : pc'[v] = pc[v] /\ ev'[v] = ev[v]
        /\ pc'[w] \notin {"handle", "record"}
    BY <1>8 DEF Receive, Goto, IInv, Typed
  <2>2. pc[w] # "record" /\ UNCHANGED <<ledger, handled, faults>>
    BY <1>8 DEF Receive
  <2>3. QED
    BY <2>1, <2>2, MoveRepeat
<1>9. ASSUME NEW w \in Workers, Poll(w) PROVE RepeatInv'
  <2>1. CASE ListDue(w)
    <3>1. UNCHANGED <<pc, ev, ledger, handled, faults>>
      BY <2>1 DEF ListDue, taskVars
    <3>2. QED
      BY <3>1 DEF RepeatInv, CheckedIsNew, SuccessesCounted, Recording
  <2>2. CASE NextInBatch(w)
    <3>1. PICK e \in batch[w] : ev' = [ev EXCEPT ![w] = e]
      BY <2>2 DEF NextInBatch
    <3>2. /\ \A v \in Workers \ {w} : pc'[v] = pc[v] /\ ev'[v] = ev[v]
          /\ pc'[w] \notin {"handle", "record"}
      BY <2>2, <3>1 DEF NextInBatch, Goto, IInv, Typed
    <3>3. pc[w] # "record" /\ UNCHANGED <<ledger, handled, faults>>
      BY <2>2 DEF NextInBatch
    <3>4. QED
      BY <3>2, <3>3, MoveRepeat
  <2>3. QED
    BY <1>9, <2>1, <2>2 DEF Poll
<1>10. CASE Tick \/ UNCHANGED vars
  <2>1. UNCHANGED <<pc, ev, ledger, handled, faults>>
    BY <1>10 DEF Tick, taskVars, vars
  <2>2. QED
    BY <2>1 DEF RepeatInv, CheckedIsNew, SuccessesCounted, Recording
<1>11. QED
  BY <1>3, <1>4, <1>5, <1>6, <1>7, <1>8, <1>9, <1>10, RecordRepeat, CrashRepeat
  DEF Next, Step

\* The bookkeeping of successes, while one process uses the database.
THEOREM RepeatInvariant ==
  ASSUME OneProcess
  PROVE  Spec => []RepeatInv
<1>1. Init => RepeatInv
  BY DEF Init, RepeatInv, CheckedIsNew, SuccessesCounted
<1>2. IInv /\ MutexInv /\ RepeatInv /\ [Next]_vars => RepeatInv'
  BY NextRepeat
<1>3. QED
  BY <1>1, <1>2, InductiveInvariant, MutexInvariant, PTL DEF Spec

\* With one process, n + 1 successes of handle_email for an event took n crashes or
\* database errors, whatever is redelivered or retried meanwhile.
THEOREM RepeatsTakeFaults ==
  ASSUME OneProcess
  PROVE  Spec => []RepeatNeedsFault
<1>1. RepeatInv => RepeatNeedsFault
  BY DEF RepeatInv, SuccessesCounted, RepeatNeedsFault
<1>2. QED
  BY <1>1, RepeatInvariant, PTL

\* With one process, an event in webhook_events is never handled again.
THEOREM RecordedIsNotRepeated ==
  ASSUME OneProcess
  PROVE  Spec => HandledOnceRecorded
<1>1. ASSUME IInv, RepeatInv, [Next]_vars, NEW e \in Events, e \in ledger
      PROVE  handled'[e] = handled[e]
  <2>1. CASE \E w \in Workers : HandleOk(w)
    <3>1. PICK w \in Workers : HandleOk(w)
      BY <2>1
    <3>2. ev[w] # e
      BY <1>1, <3>1 DEF HandleOk, RepeatInv, CheckedIsNew
    <3>3. QED
      BY <1>1, <3>1, <3>2 DEF HandleOk, IInv, Typed
  <2>2. CASE ~ \E w \in Workers : HandleOk(w)
    <3>1. UNCHANGED handled
      BY <1>1, <2>2
      DEF Next, Step, Acquire, Poll, Receive, ListDue, NextInBatch, Lookup, TakeLock, TakeSlot,
          ClaimEvent, ReadBack, CheckLedger, Ignore, HandleError, RecordEvent, CompleteEvent,
          FailRead,
          FailWrite, DbError, Crash, Tick, vars
    <3>2. QED
      BY <3>1
  <2>3. QED
    BY <2>1, <2>2
<1>2. IInv /\ RepeatInv /\ [Next]_vars =>
        [\A e \in Events : e \in ledger => handled'[e] = handled[e]]_vars
  BY <1>1
<1>3. QED
  BY <1>2, InductiveInvariant, RepeatInvariant, PTL DEF Spec, HandledOnceRecorded
=============================================================================
