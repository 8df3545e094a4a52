------------------------- MODULE SybilDigestProofs ---------------------------
(***************************************************************************)
(* What SybilDigest guarantees for any conversations, any finite number of *)
(* digest runs at once, any markers, limits, queue calls and faults.       *)
(***************************************************************************)
EXTENDS SybilDigest, FiniteSetTheorems, SequenceTheorems, TLAPS

\* An idle run holds nothing; one at work has a marker; the lapsed rows are
\* forgotten when the claim is made, and a text is made of claimed rows.
RunOK(d) ==
  /\ pc[d] = "idle" => /\ marker[d] = NoMarker
                       /\ claimed[d] = {}
  /\ pc[d] # "idle" => marker[d] \in Markers
  /\ pc[d] # "claim" => lapsed[d] = {}
  /\ pc[d] = "claim" => claimed[d] = {}
  /\ pc[d] \in {"idle", "claim", "select"} => text[d] = {}

RunsOK == \A d \in Digests : RunOK(d)

Typed == TypeOK /\ RunsOK /\ DOMAIN draft = Convs

-----------------------------------------------------------------------------
(* Types.                                                                  *)

LEMMA IdsAreNumbers == Ids \subseteq Nat /\ 0 \notin Ids /\ Messages \subseteq Nat
BY MaxQueuedAssumption DEF Ids, Messages

LEMMA InitTyped == Init => Typed
<1> SUFFICES ASSUME Init PROVE Typed
  OBVIOUS
<1>1. (CHOOSE c \in Convs : TRUE) \in Convs
  BY ConvsAssumption
<1>2. rows \in [Ids -> Row]
  BY <1>1 DEF Init, Row, Status, Errors, Ids, Messages
<1>3. delivered \in [Ids -> Seq(Messages)]
  BY EmptySeq DEF Init
<1>4. RunsOK
  BY DEF Init, RunsOK, RunOK
<1>5. queued \in 0..MaxQueued /\ faults \in 0..MaxFaults
  <2>1. queued = 0 /\ faults = 0
    BY DEF Init
  <2>2. QED
    BY <2>1, MaxQueuedAssumption, DigestFaultsAssumption
<1>6. /\ pc \in [Digests -> {"idle", "claim", "select", "send", "fallback", "mark", "restore"}]
      /\ marker \in [Digests -> Markers \cup {NoMarker}]
      /\ lapsed \in [Digests -> SUBSET (Ids \X Errors)]
      /\ claimed \in [Digests -> SUBSET Ids]
      /\ text \in [Digests -> SUBSET (Ids \X Messages)]
  BY DEF Init
<1>7. /\ DOMAIN draft = Convs /\ \A c \in Convs : draft[c] = NoDraft
      /\ expired \subseteq Markers /\ accepted \subseteq Ids /\ audits \subseteq Ids
  BY DEF Init
<1>8. QED
  BY <1>2, <1>3, <1>4, <1>5, <1>6, <1>7 DEF Typed, TypeOK

\* A run that ends, and one that moves on.
LEMMA EndRunTyped ==
  ASSUME Typed, NEW d \in Digests, EndRun(d)
  PROVE  /\ pc' \in [Digests -> {"idle", "claim", "select", "send", "fallback", "mark", "restore"}]
         /\ marker' \in [Digests -> Markers \cup {NoMarker}]
         /\ lapsed' \in [Digests -> SUBSET (Ids \X Errors)]
         /\ claimed' \in [Digests -> SUBSET Ids]
         /\ text' \in [Digests -> SUBSET (Ids \X Messages)]
         /\ RunsOK'
BY DEF EndRun, Typed, TypeOK, RunsOK, RunOK

LEMMA QueueTyped ==
  ASSUME Typed, NEW c \in Convs, QueueRead(c) \/ QueueFail(c)
  PROVE  Typed'
<1>1. UNCHANGED <<rows, pc, marker, lapsed, claimed, text, expired, accepted, delivered, audits>>
  BY DEF QueueRead, QueueFail, runVars
<1>2. RunsOK'
  BY <1>1 DEF Typed, RunsOK, RunOK
<1>3. CASE QueueFail(c)
  BY <1>1, <1>2, <1>3, DigestFaultsAssumption DEF QueueFail, Fault, Typed, TypeOK
<1>4. CASE QueueRead(c)
  <2>1. queued \in 0..MaxQueued /\ queued < MaxQueued /\ queued' = queued + 1
    BY <1>4 DEF QueueRead, Typed, TypeOK
  <2>2. queued + 1 \in Messages /\ queued' \in 0..MaxQueued
    BY <2>1, MaxQueuedAssumption DEF Messages
  <2>3. \E r \in [message: Messages, row: Ids \cup {0}, clears: BOOLEAN] :
          draft' = [draft EXCEPT ![c] = r]
    <3>1. PICK r0 \in Ids \cup {0}, k \in BOOLEAN :
            draft' = [draft EXCEPT ![c] = [message |-> queued + 1, row |-> r0, clears |-> k]]
      BY <1>4 DEF QueueRead
    <3>2. [message |-> queued + 1, row |-> r0, clears |-> k]
            \in [message: Messages, row: Ids \cup {0}, clears: BOOLEAN]
      BY <2>2
    <3>3. QED
      BY <3>1, <3>2
  <2>4. /\ DOMAIN draft' = Convs
        /\ \A a \in Convs :
             \/ draft'[a] = NoDraft
             \/ draft'[a] \in [message: Messages, row: Ids \cup {0}, clears: BOOLEAN]
    BY <2>3 DEF Typed, TypeOK
  <2>5. faults' = faults
    BY <1>4 DEF QueueRead
  <2>6. QED
    BY <1>1, <1>2, <2>2, <2>4, <2>5 DEF Typed, TypeOK
<1>5. QED
  BY <1>3, <1>4

LEMMA QueueWriteTyped ==
  ASSUME Typed, NEW c \in Convs, QueueWrite(c)
  PROVE  Typed'
<1>1. UNCHANGED <<queued, pc, marker, lapsed, claimed, text, expired, accepted, delivered,
                  audits, faults>>
  BY DEF QueueWrite, runVars
<1>2. RunsOK'
  BY <1>1 DEF Typed, RunsOK, RunOK
<1>3. /\ DOMAIN draft' = Convs
      /\ \A a \in Convs : draft'[a] = NoDraft \/ draft'[a] = draft[a]
  BY DEF QueueWrite, Typed
<1>4. draft[c] \in [message: Messages, row: Ids \cup {0}, clears: BOOLEAN]
  BY DEF QueueWrite, Typed, TypeOK
<1>5. rows' \in [Ids -> Row]
  <2>1. CASE draft[c].row = 0
    <3>1. PICK i \in Ids :
            rows' = [rows EXCEPT ![i] = [status |-> "pending", conv |-> c,
                                         message |-> draft[c].message, error |-> ""]]
      BY <2>1 DEF QueueWrite
    <3>2. [status |-> "pending", conv |-> c, message |-> draft[c].message, error |-> ""] \in Row
      BY <1>4 DEF Row, Status, Errors
    <3>3. QED
      BY <3>1, <3>2 DEF Typed, TypeOK
  <2>2. CASE draft[c].row # 0
    <3> DEFINE r == draft[c].row
    <3>1. r \in Ids /\ draft[c].message \in Messages
      BY <1>4, <2>2
    <3>2. rows[r] \in Row
      BY <3>1 DEF Typed, TypeOK
    <3>3. PICK e \in Errors :
            rows' = [rows EXCEPT ![r].message = draft[c].message, ![r].error = e]
      BY <2>2, <3>2, <3>1 DEF QueueWrite, Row, Errors, Typed, TypeOK
    <3>4. QED
      BY <3>1, <3>2, <3>3 DEF Row, Typed, TypeOK
  <2>3. QED
    BY <2>1, <2>2
<1>6. QED
  BY <1>1, <1>2, <1>3, <1>5 DEF Typed, TypeOK

LEMMA StartTyped ==
  ASSUME Typed, NEW d \in Digests, StartDigest(d)
  PROVE  Typed'
<1>1. UNCHANGED <<rows, queued, draft, claimed, text, accepted, delivered, audits, faults>>
  BY DEF StartDigest
<1>2. PICK m \in Markers : /\ marker' = [marker EXCEPT ![d] = m]
                           /\ expired' = expired \ {m}
  BY DEF StartDigest
<1>3. lapsed' \in [Digests -> SUBSET (Ids \X Errors)]
  BY DEF StartDigest, Typed, TypeOK, Row
<1>4. /\ \A e \in Digests \ {d} : lapsed'[e] = lapsed[e]
      /\ pc[d] = "idle" /\ pc' = [pc EXCEPT ![d] = "claim"]
  BY DEF StartDigest, Typed, TypeOK
<1>5. RunsOK'
  BY <1>1, <1>2, <1>4 DEF Typed, TypeOK, RunsOK, RunOK
<1>6. QED
  BY <1>1, <1>2, <1>3, <1>4, <1>5 DEF Typed, TypeOK

\* The steps of a run that has its claim.
LEMMA RecoveredAndBatch ==
  ASSUME NEW d
  PROVE  /\ Recovered(d) \subseteq Ids
         /\ Batch(d) \subseteq Ids
         /\ \A i \in Batch(d) : rows[i].status = "pending" \/ i \in Recovered(d)
         /\ \A i \in Recovered(d) : rows[i].status = "sending" /\ <<i, rows[i].error>> \in lapsed[d]
BY DEF Batch, Recovered

\* What becomes of a row whose status and error are set.
LEMMA RowSet ==
  ASSUME NEW r \in Row, NEW s \in Status, NEW e \in Errors
  PROVE  LET q == [r EXCEPT !.status = s, !.error = e] IN
         /\ q \in Row /\ q.status = s /\ q.error = e
         /\ q.message = r.message /\ q.conv = r.conv
<1>1. r \in [status: Status, conv: Convs, message: Messages, error: Errors]
  BY DEF Row
<1>2. QED
  BY <1>1 DEF Row

LEMMA ClaimTyped ==
  ASSUME Typed, NEW d \in Digests, ClaimBatch(d)
  PROVE  Typed'
<1>1. UNCHANGED <<queued, draft, expired, accepted, delivered, audits, faults>>
  BY DEF ClaimBatch
<1>2. marker[d] \in Markers /\ text[d] = {}
  BY DEF ClaimBatch, Typed, RunsOK, RunOK
<1>3. rows' \in [Ids -> Row]
  <2>1. ASSUME NEW i \in Ids
        PROVE  /\ [rows[i] EXCEPT !.status = "sending", !.error = marker[d]] \in Row
               /\ Restored(rows[i]) \in Row
    <3>1. rows[i] \in Row /\ "sending" \in Status /\ "pending" \in Status
          /\ marker[d] \in Errors /\ "note" \in Errors
      BY <1>2 DEF Typed, TypeOK, Status, Errors
    <3>2. QED
      BY <3>1, RowSet DEF Restored
  <2>2. QED
    BY <2>1 DEF ClaimBatch, Typed, TypeOK
<1>4. CASE Batch(d) # {} /\ pc' = [pc EXCEPT ![d] = "select"]
           /\ claimed' = [claimed EXCEPT ![d] = Batch(d)]
           /\ lapsed' = [lapsed EXCEPT ![d] = {}] /\ UNCHANGED <<marker, text>>
  <2>1. RunsOK'
    BY <1>2, <1>4 DEF Typed, TypeOK, RunsOK, RunOK
  <2>2. QED
    BY <1>1, <1>3, <1>4, <2>1, RecoveredAndBatch DEF Typed, TypeOK
<1>5. CASE EndRun(d)
  BY <1>1, <1>3, <1>5, EndRunTyped DEF Typed, TypeOK
<1>6. QED
  BY <1>4, <1>5 DEF ClaimBatch

LEMMA SelectTyped ==
  ASSUME Typed, NEW d \in Digests, SelectClaimed(d)
  PROVE  Typed'
<1> DEFINE mine == {i \in claimed[d] : Owned(i, marker[d])}
<1>1. UNCHANGED <<rows, queued, draft, expired, accepted, delivered, audits, faults>>
  BY DEF SelectClaimed
<1>2. CASE /\ text' = [text EXCEPT ![d] = {<<i, rows[i].message>> : i \in mine}]
           /\ pc' = [pc EXCEPT ![d] = "send"]
           /\ UNCHANGED <<marker, lapsed, claimed>>
  <2>1. pc[d] = "select" /\ lapsed[d] = {} /\ marker[d] \in Markers
    BY DEF SelectClaimed, Typed, RunsOK, RunOK
  <2>2. text' \in [Digests -> SUBSET (Ids \X Messages)]
    BY <1>2 DEF Typed, TypeOK, Row
  <2>3. \A e \in Digests \ {d} : text'[e] = text[e] /\ pc'[e] = pc[e]
    BY <1>2 DEF Typed, TypeOK
  <2>4. RunsOK'
    BY <1>2, <2>1, <2>3 DEF Typed, TypeOK, RunsOK, RunOK
  <2>5. QED
    BY <1>1, <1>2, <2>2, <2>4 DEF Typed, TypeOK
<1>3. CASE EndRun(d)
  BY <1>1, <1>3, EndRunTyped DEF Typed, TypeOK
<1>4. QED
  BY <1>2, <1>3 DEF SelectClaimed

\* The rows a final update writes.
LEMMA SettleTyped ==
  ASSUME Typed, NEW d \in Digests, MarkSent(d) \/ Restore(d)
  PROVE  Typed'
<1>1. UNCHANGED <<queued, draft, expired, accepted, delivered, audits, faults>> /\ EndRun(d)
  BY DEF MarkSent, Restore
<1>2. rows' \in [Ids -> Row]
  <2>1. ASSUME NEW i \in Ids
        PROVE  /\ [rows[i] EXCEPT !.status = "sent", !.error = ""] \in Row
               /\ Restored(rows[i]) \in Row
    <3>1. rows[i] \in Row /\ "sent" \in Status /\ "pending" \in Status
          /\ "" \in Errors /\ "note" \in Errors
      BY DEF Typed, TypeOK, Status, Errors
    <3>2. QED
      BY <3>1, RowSet DEF Restored
  <2>2. CASE MarkSent(d)
    BY <2>1, <2>2 DEF MarkSent, Typed, TypeOK
  <2>3. CASE Restore(d)
    BY <2>1, <2>3 DEF Restore, Typed, TypeOK
  <2>4. QED
    BY <2>2, <2>3
<1>3. QED
  BY <1>1, <1>2, EndRunTyped DEF Typed, TypeOK

LEMMA LostTyped ==
  ASSUME Typed, NEW d \in Digests, RunLost(d)
  PROVE  Typed'
<1>1. UNCHANGED <<rows, queued, draft, expired, accepted, delivered, audits>> /\ EndRun(d)
  BY DEF RunLost
<1>2. faults' \in 0..MaxFaults
  BY DigestFaultsAssumption DEF RunLost, Fault, Typed, TypeOK
<1>3. QED
  BY <1>1, <1>2, EndRunTyped DEF Typed, TypeOK

\* What a post, accepted or not, does to the run.
LEMMA PostMoves ==
  ASSUME Typed, NEW d \in Digests, Post(d) \/ PostFails(d)
  PROVE  /\ pc[d] \in {"send", "fallback"}
         /\ \E p \in {"mark", "restore", "fallback"} : pc' = [pc EXCEPT ![d] = p]
         /\ pc'[d] \in {"mark", "restore", "fallback"}
         /\ faults' \in 0..MaxFaults
         /\ UNCHANGED <<rows, queued, draft, marker, lapsed, claimed, text, expired, audits>>
<1>1. faults \in 0..MaxFaults /\ pc[d] \in {"send", "fallback"}
  BY DEF Typed, TypeOK, Post, PostFails, Sending
<1>2. faults' \in 0..MaxFaults
  BY <1>1, DigestFaultsAssumption DEF Post, PostFails, Fault
<1>3. \E p \in {"mark", "restore", "fallback"} : pc' = [pc EXCEPT ![d] = p]
  BY DEF Post, PostFails, NotSent, NextRoute
<1>4. pc'[d] \in {"mark", "restore", "fallback"}
  BY <1>3 DEF Typed, TypeOK
<1>5. QED
  BY <1>1, <1>2, <1>3, <1>4 DEF Post, PostFails

\* What is said of a row is one of the messages of the text.
LEMMA Said ==
  ASSUME Typed, NEW d \in Digests, Post(d), NEW i \in Ids
  PROVE  \/ delivered'[i] = delivered[i]
         \/ \E m \in Messages : <<i, m>> \in text[d] /\ delivered'[i] = Append(delivered[i], m)
<1> DEFINE said == {l \in Clipped(d) : l[1] = i}
<1>1. delivered'[i] = IF said = {} THEN delivered[i]
                                  ELSE Append(delivered[i], (CHOOSE l \in said : TRUE)[2])
  BY DEF Post
<1>2. CASE said # {}
  <2>1. PICK l \in said : delivered'[i] = Append(delivered[i], l[2])
    BY <1>1, <1>2
  <2>2. l \in text[d] /\ l[1] = i /\ l \in Ids \X Messages
    BY DEF Clipped, Typed, TypeOK
  <2>3. QED
    BY <2>1, <2>2
<1>3. QED
  BY <1>1, <1>2

LEMMA PostTyped ==
  ASSUME Typed, NEW d \in Digests, Post(d) \/ PostFails(d)
  PROVE  Typed'
<1>1. delivered' \in [Ids -> Seq(Messages)]
  <2>1. CASE Post(d)
    <3>1. ASSUME NEW i \in Ids PROVE delivered'[i] \in Seq(Messages)
      <4>1. delivered[i] \in Seq(Messages)
        BY DEF Typed, TypeOK
      <4>2. \A m \in Messages : Append(delivered[i], m) \in Seq(Messages)
        BY <4>1, AppendProperties
      <4>3. QED
        BY <2>1, <4>1, <4>2, Said
    <3>2. DOMAIN delivered' = Ids /\ delivered' = [i \in Ids |-> delivered'[i]]
      BY <2>1 DEF Post
    <3>3. QED
      BY <3>1, <3>2
  <2>2. QED
    BY <2>1 DEF PostFails, Typed, TypeOK
<1>2. accepted' \subseteq Ids
  BY DEF Post, PostFails, Typed, TypeOK
<1>3. RunsOK'
  BY PostMoves DEF Typed, TypeOK, RunsOK, RunOK
<1>4. pc' \in [Digests -> {"idle", "claim", "select", "send", "fallback", "mark", "restore"}]
  BY PostMoves DEF Typed, TypeOK
<1>5. QED
  BY PostMoves, <1>1, <1>2, <1>3, <1>4 DEF Typed, TypeOK

LEMMA OperatorTyped ==
  ASSUME Typed, \/ \E i \in Ids : Dismiss(i)
                \/ \E m \in Markers : Expire(m)
  PROVE  Typed'
<1>1. CASE \E i \in Ids : Dismiss(i)
  <2>1. PICK i \in Ids : Dismiss(i)
    BY <1>1
  <2>2. UNCHANGED <<queued, draft, pc, marker, lapsed, claimed, text, expired, accepted,
                    delivered, faults>>
        /\ audits' = audits \cup {i}
    BY <2>1 DEF Dismiss, runVars
  <2>3. rows' = [rows EXCEPT ![i].status = "dismissed"] /\ rows[i] \in Row
    BY <2>1 DEF Dismiss, Typed, TypeOK
  <2>4. rows' \in [Ids -> Row]
    BY <2>3 DEF Row, Status, Typed, TypeOK
  <2>5. RunsOK'
    BY <2>2 DEF Typed, RunsOK, RunOK
  <2>6. QED
    BY <2>2, <2>4, <2>5 DEF Typed, TypeOK
<1>2. CASE \E m \in Markers : Expire(m)
  <2>1. PICK m \in Markers : Expire(m)
    BY <1>2
  <2>2. UNCHANGED <<rows, queued, draft, pc, marker, lapsed, claimed, text, accepted,
                    delivered, audits>>
        /\ expired' \subseteq Markers
    BY <2>1 DEF Expire, runVars, Typed, TypeOK
  <2>3. faults' \in 0..MaxFaults
    BY <2>1, DigestFaultsAssumption DEF Expire, Fault, Typed, TypeOK
  <2>4. RunsOK'
    BY <2>2 DEF Typed, RunsOK, RunOK
  <2>5. QED
    BY <2>2, <2>3, <2>4 DEF Typed, TypeOK
<1>3. QED
  BY <1>1, <1>2

LEMMA StepTyped ==
  ASSUME Typed, [Next]_vars
  PROVE  Typed'
<1>1. CASE UNCHANGED vars
  <2>1. UNCHANGED <<rows, queued, draft, pc, marker, lapsed, claimed, text, expired,
                    accepted, delivered, audits, faults>>
    BY <1>1 DEF vars
  <2>2. RunsOK'
    BY <2>1 DEF Typed, RunsOK, RunOK
  <2>3. QED
    BY <2>1, <2>2 DEF Typed, TypeOK
<1>2. CASE Next
  BY <1>2, QueueTyped, QueueWriteTyped, StartTyped, ClaimTyped, SelectTyped, SettleTyped,
     LostTyped, PostTyped, OperatorTyped DEF Next, Run
<1>3. QED
  BY <1>1, <1>2

-----------------------------------------------------------------------------
(* Leases: who owns the rows being sent.                                   *)

\* The waits after the text was made.
Texted == {"send", "fallback", "mark", "restore"}

MarkersDiffer ==
  \A d, e \in Digests : d # e /\ marker[d] \in Markers => marker[d] # marker[e]

\* Only leases that have passed are ever on a run's list of lapsed rows.
LapsedExpired ==
  \A d \in Digests : \A l \in lapsed[d] : l[2] \in Markers => l[2] \in expired

\* A run owns only rows it claimed and, once the text is made, rows in it.
OwnClaimed ==
  \A d \in Digests, i \in Ids :
    pc[d] # "idle" /\ Owned(i, marker[d]) =>
      i \in claimed[d] /\ (pc[d] \in Texted => \E m \in Messages : <<i, m>> \in text[d])

MarkAccepted ==
  \A d \in Digests, i \in Ids, m \in Messages :
    pc[d] = "mark" /\ <<i, m>> \in text[d] => i \in accepted

Leases == MarkersDiffer /\ LapsedExpired /\ OwnClaimed /\ MarkAccepted /\ SentWasAccepted

LEMMA InitLeases == Init => Leases
<1> SUFFICES ASSUME Init PROVE Leases
  OBVIOUS
<1>1. /\ \A d \in Digests : pc[d] = "idle" /\ marker[d] = NoMarker /\ lapsed[d] = {}
      /\ \A i \in Ids : rows[i].status = "absent"
  BY DEF Init
<1>2. QED
  BY <1>1, MarkersAssumption
     DEF Leases, MarkersDiffer, LapsedExpired, OwnClaimed, MarkAccepted, SentWasAccepted, Owned

\* A row that no run touches may only leave the hands of its run.
LEMMA RowsOnlyLeases ==
  ASSUME Typed, Leases,
         UNCHANGED <<pc, marker, lapsed, claimed, text, accepted>>,
         expired \subseteq expired',
         \A i \in Ids : rows'[i].status = "sending" =>
                         /\ rows[i].status = "sending"
                         /\ rows'[i].error = rows[i].error \/ rows'[i].error \notin Markers,
         \A i \in Ids : rows'[i].status = "sent" => rows[i].status = "sent"
  PROVE  Leases'
<1>1. MarkersDiffer' /\ LapsedExpired' /\ MarkAccepted' /\ SentWasAccepted'
  BY DEF Leases, MarkersDiffer, LapsedExpired, MarkAccepted, SentWasAccepted
<1>2. OwnClaimed'
  <2> SUFFICES ASSUME NEW d \in Digests, NEW i \in Ids, pc[d] # "idle",
                      Owned(i, marker[d])'
               PROVE  i \in claimed[d] /\ (pc[d] \in Texted => \E m \in Messages : <<i, m>> \in text[d])
    BY DEF OwnClaimed
  <2>1. marker[d] \in Markers
    BY DEF Typed, RunsOK, RunOK
  <2>2. Owned(i, marker[d])
    BY <2>1 DEF Owned
  <2>3. QED
    BY <2>2 DEF Leases, OwnClaimed
<1>3. QED
  BY <1>1, <1>2 DEF Leases

\* The flush of a queue call, row by row.
LEMMA WriteRows ==
  ASSUME Typed, NEW c \in Convs, QueueWrite(c)
  PROVE  \E r \in Ids :
           /\ \A i \in Ids \ {r} : rows'[i] = rows[i]
           /\ rows'[r].message = draft[c].message
           /\ \/ /\ rows[r].status = "absent"
                 /\ rows'[r].status = "pending" /\ rows'[r].error = ""
              \/ /\ rows'[r].status = rows[r].status
                 /\ rows'[r].error \in {rows[r].error, ""}
<1>1. draft[c] \in [message: Messages, row: Ids \cup {0}, clears: BOOLEAN]
  BY DEF QueueWrite, Typed, TypeOK
<1>2. CASE draft[c].row = 0
  <2>1. PICK r \in Ids :
          /\ ~Stored(r)
          /\ rows' = [rows EXCEPT ![r] = [status |-> "pending", conv |-> c,
                                         message |-> draft[c].message, error |-> ""]]
    BY <1>2 DEF QueueWrite
  <2>2. DOMAIN rows = Ids
    BY DEF Typed, TypeOK
  <2>3. rows[r].status = "absent"
    BY <2>1 DEF Stored
  <2>4. QED
    BY <2>1, <2>2, <2>3
<1>3. CASE draft[c].row # 0
  <2> DEFINE r == draft[c].row
  <2>1. r \in Ids /\ rows[r] \in Row
    BY <1>1, <1>3 DEF Typed, TypeOK
  <2>2. PICK e \in {rows[r].error, ""} :
          rows' = [rows EXCEPT ![r].message = draft[c].message, ![r].error = e]
    BY <1>3, <2>1 DEF QueueWrite, Row, Typed, TypeOK
  <2>3. /\ rows'[r].message = draft[c].message
        /\ rows'[r].status = rows[r].status
        /\ rows'[r].error = e
        /\ \A i \in Ids \ {r} : rows'[i] = rows[i]
    BY <2>1, <2>2 DEF Row, Typed, TypeOK
  <2>4. QED
    BY <2>1, <2>3
<1>4. QED
  BY <1>2, <1>3

LEMMA DismissRows ==
  ASSUME Typed, NEW i \in Ids, Dismiss(i)
  PROVE  /\ rows[i].status = "pending"
         /\ rows'[i].status = "dismissed" /\ rows'[i].message = rows[i].message
         /\ \A j \in Ids \ {i} : rows'[j] = rows[j]
<1>1. rows[i] \in Row
  BY DEF Typed, TypeOK
<1>2. QED
  BY <1>1 DEF Dismiss, Typed, TypeOK, Row

LEMMA OthersLeases ==
  ASSUME Typed, Leases,
         \/ \E c \in Convs : QueueRead(c) \/ QueueWrite(c) \/ QueueFail(c)
         \/ \E i \in Ids : Dismiss(i)
         \/ \E m \in Markers : Expire(m)
         \/ UNCHANGED vars
  PROVE  Leases'
<1>1. UNCHANGED <<pc, marker, lapsed, claimed, text, accepted>> /\ expired \subseteq expired'
  BY DEF QueueRead, QueueWrite, QueueFail, Dismiss, Expire, runVars, vars
<1>2. CASE rows' = rows
  BY <1>1, <1>2, RowsOnlyLeases
<1>3. ASSUME NEW c \in Convs, QueueWrite(c) PROVE Leases'
  <2>1. PICK r \in Ids :
           /\ \A i \in Ids \ {r} : rows'[i] = rows[i]
           /\ \/ rows'[r].status = "pending"
              \/ rows'[r].status = rows[r].status /\ rows'[r].error \in {rows[r].error, ""}
    BY <1>3, WriteRows
  <2>2. \A i \in Ids : rows'[i].status = "sending" =>
                         /\ rows[i].status = "sending"
                         /\ rows'[i].error = rows[i].error \/ rows'[i].error \notin Markers
    BY <2>1, MarkersAssumption
  <2>3. \A i \in Ids : rows'[i].status = "sent" => rows[i].status = "sent"
    BY <2>1
  <2>4. QED
    BY <1>1, <2>2, <2>3, RowsOnlyLeases
<1>4. ASSUME NEW i \in Ids, Dismiss(i) PROVE Leases'
  <2>1. /\ rows'[i].status = "dismissed"
        /\ \A j \in Ids \ {i} : rows'[j] = rows[j]
    BY <1>4, DismissRows
  <2>2. QED
    BY <1>1, <2>1, RowsOnlyLeases
<1>5. QED
  BY <1>2, <1>3, <1>4 DEF QueueRead, QueueFail, Expire, vars

\* The end of a run, run by run.
LEMMA Ended ==
  ASSUME Typed, NEW d \in Digests, EndRun(d)
  PROVE  /\ pc'[d] = "idle" /\ marker'[d] = NoMarker
         /\ lapsed'[d] = {} /\ claimed'[d] = {} /\ text'[d] = {}
         /\ \A e \in Digests \ {d} :
              /\ pc'[e] = pc[e] /\ marker'[e] = marker[e] /\ lapsed'[e] = lapsed[e]
              /\ claimed'[e] = claimed[e] /\ text'[e] = text[e]
BY DEF EndRun, Typed, TypeOK

\* A run that ends leaves the leases of the others alone: rows it touched, if any,
\* are no longer owned, and rows marked sent were in an accepted text.
LEMMA EndLeases ==
  ASSUME Typed, Leases, NEW d \in Digests, EndRun(d), UNCHANGED <<expired, accepted>>,
         \A i \in Ids : rows'[i].status = "sending" =>
                         rows[i].status = "sending" /\ rows'[i].error = rows[i].error,
         \A i \in Ids : rows'[i].status = "sent" => rows[i].status = "sent" \/ i \in accepted
  PROVE  Leases'
<1>1. MarkersDiffer'
  <2>1. \A e \in Digests : marker'[e] = IF e = d THEN NoMarker ELSE marker[e]
    BY Ended
  <2>2. MarkersDiffer /\ NoMarker \notin Markers
    BY MarkersAssumption DEF Leases
  <2>3. QED
    BY <2>1, <2>2 DEF MarkersDiffer
<1>2. LapsedExpired'
  BY Ended DEF Leases, LapsedExpired
<1>3. MarkAccepted'
  BY Ended DEF Leases, MarkAccepted
<1>4. SentWasAccepted'
  BY DEF Leases, SentWasAccepted
<1>5. OwnClaimed'
  BY Ended DEF Leases, OwnClaimed, Owned
<1>6. QED
  BY <1>1, <1>2, <1>3, <1>4, <1>5 DEF Leases

LEMMA StartFacts ==
  ASSUME Typed, NEW d \in Digests, StartDigest(d)
  PROVE  \E m \in Markers :
           /\ ~InUse(m)
           /\ pc[d] = "idle" /\ pc'[d] = "claim" /\ marker'[d] = m
           /\ expired' = expired \ {m}
           /\ \A e \in Digests \ {d} : /\ pc'[e] = pc[e] /\ marker'[e] = marker[e]
                                       /\ lapsed'[e] = lapsed[e]
           /\ \A l \in lapsed'[d] : \E i \in Ids : /\ l = <<i, rows[i].error>>
                                                   /\ SendingLeaseExpired(rows[i].error)
           /\ UNCHANGED <<rows, queued, draft, claimed, text, accepted, delivered, audits, faults>>
<1>1. PICK m \in Markers : /\ ~InUse(m) /\ marker' = [marker EXCEPT ![d] = m]
                           /\ expired' = expired \ {m}
  BY DEF StartDigest
<1>2. /\ pc[d] = "idle" /\ pc' = [pc EXCEPT ![d] = "claim"]
      /\ UNCHANGED <<rows, queued, draft, claimed, text, accepted, delivered, audits, faults>>
      /\ lapsed' = [lapsed EXCEPT ![d] =
           {<<i, rows[i].error>> : i \in {j \in Ids : /\ rows[j].status = "sending"
                                                      /\ SendingLeaseExpired(rows[j].error)}}]
  BY DEF StartDigest
<1>3. QED
  BY <1>1, <1>2 DEF Typed, TypeOK

LEMMA StartLeases ==
  ASSUME Typed, Leases, NEW d \in Digests, StartDigest(d)
  PROVE  Leases'
<1>1. PICK m \in Markers :
           /\ ~InUse(m)
           /\ pc[d] = "idle" /\ pc'[d] = "claim" /\ marker'[d] = m
           /\ expired' = expired \ {m}
           /\ \A e \in Digests \ {d} : /\ pc'[e] = pc[e] /\ marker'[e] = marker[e]
                                       /\ lapsed'[e] = lapsed[e]
           /\ \A l \in lapsed'[d] : \E i \in Ids : /\ l = <<i, rows[i].error>>
                                                   /\ SendingLeaseExpired(rows[i].error)
           /\ UNCHANGED <<rows, claimed, text, accepted>>
  BY StartFacts
<1>2. /\ \A i \in Ids : rows[i].error # m
      /\ \A e \in Digests : marker[e] # m /\ \A l \in lapsed[e] : l[2] # m
  BY <1>1 DEF InUse
<1>3. MarkersDiffer'
  BY <1>1, <1>2 DEF Leases, MarkersDiffer
<1>4. LapsedExpired'
  <2>1. ASSUME NEW l \in lapsed'[d], l[2] \in Markers PROVE l[2] \in expired'
    <3>1. PICK i \in Ids : l = <<i, rows[i].error>> /\ SendingLeaseExpired(rows[i].error)
      BY <1>1
    <3>2. QED
      BY <1>1, <1>2, <2>1, <3>1 DEF SendingLeaseExpired
  <2>2. \A e \in Digests \ {d} : \A l \in lapsed'[e] : l[2] \in Markers => l[2] \in expired'
    BY <1>1, <1>2 DEF Leases, LapsedExpired
  <2>3. QED
    BY <2>1, <2>2 DEF LapsedExpired
<1>5. OwnClaimed'
  BY <1>1, <1>2 DEF Leases, OwnClaimed, Owned, Texted
<1>6. MarkAccepted' /\ SentWasAccepted'
  BY <1>1 DEF Leases, MarkAccepted, SentWasAccepted
<1>7. QED
  BY <1>3, <1>4, <1>5, <1>6 DEF Leases

\* What a claim does to the rows: it takes the oldest open ones, and puts the
\* recovered ones it does not take back in the queue.
LEMMA ClaimRows ==
  ASSUME Typed, NEW d \in Digests, ClaimBatch(d), NEW i \in Ids
  PROVE  /\ rows'[i].message = rows[i].message
         /\ \/ /\ i \in Batch(d)
               /\ rows'[i].status = "sending" /\ rows'[i].error = marker[d]
            \/ /\ i \notin Batch(d) /\ i \in Recovered(d)
               /\ rows'[i].status = "pending"
            \/ /\ i \notin Batch(d) \cup Recovered(d)
               /\ rows'[i] = rows[i]
<1>1. rows[i] \in Row /\ "sending" \in Status /\ "pending" \in Status
      /\ marker[d] \in Errors /\ "note" \in Errors
  BY DEF Typed, TypeOK, Status, Errors, ClaimBatch, RunsOK, RunOK
<1> DEFINE q == [rows[i] EXCEPT !.status = "sending", !.error = marker[d]]
           r == [rows[i] EXCEPT !.status = "pending", !.error = "note"]
<1>2. rows'[i] = IF i \in Batch(d) THEN q ELSE IF i \in Recovered(d) THEN r ELSE rows[i]
  BY DEF ClaimBatch, Restored
<1>3. q.status = "sending" /\ q.error = marker[d] /\ q.message = rows[i].message
  BY <1>1 DEF Row
<1>4. r.status = "pending" /\ r.message = rows[i].message
  BY <1>1 DEF Row
<1> HIDE DEF q, r
<1>5. QED
  BY <1>2, <1>3, <1>4

LEMMA ClaimMoves ==
  ASSUME Typed, NEW d \in Digests, ClaimBatch(d)
  PROVE  /\ pc[d] = "claim" /\ marker[d] \in Markers /\ text[d] = {} /\ claimed[d] = {}
         /\ UNCHANGED <<queued, draft, expired, accepted, delivered, audits, faults>>
         /\ \/ Batch(d) = {} /\ EndRun(d)
            \/ /\ claimed'[d] = Batch(d) /\ pc'[d] = "select" /\ lapsed'[d] = {}
               /\ UNCHANGED <<marker, text>>
               /\ \A e \in Digests \ {d} : /\ pc'[e] = pc[e] /\ lapsed'[e] = lapsed[e]
                                           /\ claimed'[e] = claimed[e]
BY DEF ClaimBatch, Typed, TypeOK, RunsOK, RunOK

\* A row that is taken over was not under the lease of any run at work, unless
\* that lease has passed.
LEMMA RecoveredExpired ==
  ASSUME Leases, NEW d \in Digests, NEW i \in Recovered(d)
  PROVE  /\ rows[i].status = "sending"
         /\ rows[i].error \in Markers => rows[i].error \in expired
BY DEF Recovered, Leases, LapsedExpired

LEMMA ClaimLeases ==
  ASSUME Typed, Leases, NEW d \in Digests, ClaimBatch(d)
  PROVE  Leases'
<1>1. \A i \in Ids :
                    \/ /\ i \in Batch(d)
                       /\ rows'[i].status = "sending" /\ rows'[i].error = marker[d]
                    \/ i \notin Batch(d) /\ rows'[i].status = "pending"
                    \/ i \notin Batch(d) /\ rows'[i] = rows[i]
  <2> TAKE i \in Ids
  <2> QED
    BY ClaimRows
<1>2. CASE Batch(d) = {} /\ EndRun(d)
  BY <1>1, <1>2, ClaimMoves, EndLeases
<1>3. CASE /\ claimed'[d] = Batch(d) /\ pc'[d] = "select" /\ lapsed'[d] = {}
           /\ UNCHANGED <<marker, text>>
           /\ \A e \in Digests \ {d} : /\ pc'[e] = pc[e] /\ lapsed'[e] = lapsed[e]
                                       /\ claimed'[e] = claimed[e]
  <2>1. UNCHANGED <<expired, accepted>> /\ marker[d] \in Markers /\ pc[d] = "claim"
        /\ claimed[d] = {}
    BY ClaimMoves
  <2>2. MarkersDiffer' /\ LapsedExpired'
    BY <1>3, <2>1 DEF Leases, MarkersDiffer, LapsedExpired
  <2>3. MarkAccepted' /\ SentWasAccepted'
    BY <1>1, <1>3, <2>1 DEF Leases, MarkAccepted, SentWasAccepted
  <2>4. OwnClaimed'
    <3>1. \A i \in Ids : Owned(i, marker[d])' => i \in Batch(d)
      <4>1. \A i \in Ids : ~Owned(i, marker[d])
        BY <2>1 DEF Leases, OwnClaimed
      <4>2. QED
        BY <1>1, <1>3, <4>1 DEF Owned
    <3>2. \A e \in Digests \ {d}, i \in Ids : Owned(i, marker[e])' => Owned(i, marker[e])
      <4>1. \A e \in Digests \ {d} : marker[e] # marker[d]
        BY <2>1 DEF Leases, MarkersDiffer
      <4>2. QED
        BY <1>1, <1>3, <4>1 DEF Owned
    <3>3. QED
      BY <1>3, <3>1, <3>2 DEF Leases, OwnClaimed, Texted
  <2>5. QED
    BY <2>2, <2>3, <2>4 DEF Leases
<1>4. QED
  BY <1>2, <1>3, ClaimMoves

LEMMA SelectMoves ==
  ASSUME Typed, NEW d \in Digests, SelectClaimed(d)
  PROVE  /\ pc[d] = "select" /\ marker[d] \in Markers /\ text[d] = {}
         /\ UNCHANGED <<rows, queued, draft, expired, accepted, delivered, audits, faults>>
         /\ \/ EndRun(d) /\ {i \in claimed[d] : Owned(i, marker[d])} = {}
            \/ /\ pc'[d] = "send"
               /\ UNCHANGED <<marker, lapsed, claimed>>
               /\ \A i, m : <<i, m>> \in text'[d] <=>
                    i \in claimed[d] /\ Owned(i, marker[d]) /\ m = rows[i].message
               /\ \A e \in Digests \ {d} : pc'[e] = pc[e] /\ text'[e] = text[e]
<1> DEFINE mine == {i \in claimed[d] : Owned(i, marker[d])}
<1>1. pc[d] = "select" /\ marker[d] \in Markers /\ text[d] = {}
      /\ UNCHANGED <<rows, queued, draft, expired, accepted, delivered, audits, faults>>
  BY DEF SelectClaimed, Typed, RunsOK, RunOK
<1>2. CASE EndRun(d) /\ mine = {}
  BY <1>1, <1>2
<1>3. CASE /\ text' = [text EXCEPT ![d] = {<<i, rows[i].message>> : i \in mine}]
           /\ pc' = [pc EXCEPT ![d] = "send"]
           /\ UNCHANGED <<marker, lapsed, claimed>>
  <2>1. text'[d] = {<<i, rows[i].message>> : i \in mine} /\ pc'[d] = "send"
        /\ \A e \in Digests \ {d} : pc'[e] = pc[e] /\ text'[e] = text[e]
    BY <1>3 DEF Typed, TypeOK
  <2>2. \A i, m : <<i, m>> \in text'[d] <=>
                    i \in claimed[d] /\ Owned(i, marker[d]) /\ m = rows[i].message
    BY <2>1
  <2>3. QED
    BY <1>1, <1>3, <2>1, <2>2
<1>4. QED
  BY <1>2, <1>3 DEF SelectClaimed

LEMMA SelectLeases ==
  ASSUME Typed, Leases, NEW d \in Digests, SelectClaimed(d)
  PROVE  Leases'
<1>1. CASE EndRun(d)
  BY <1>1, SelectMoves, EndLeases
<1>2. CASE /\ pc'[d] = "send"
           /\ UNCHANGED <<marker, lapsed, claimed>>
           /\ \A i, m : <<i, m>> \in text'[d] <=>
                i \in claimed[d] /\ Owned(i, marker[d]) /\ m = rows[i].message
           /\ \A e \in Digests \ {d} : pc'[e] = pc[e] /\ text'[e] = text[e]
  <2>1. UNCHANGED <<rows, expired, accepted>> /\ pc[d] = "select"
    BY SelectMoves
  <2>2. MarkersDiffer' /\ LapsedExpired' /\ MarkAccepted' /\ SentWasAccepted'
    BY <1>2, <2>1 DEF Leases, MarkersDiffer, LapsedExpired, MarkAccepted, SentWasAccepted
  <2>3. OwnClaimed'
    <3>1. \A e \in Digests, i \in Ids : Owned(i, marker[e])' <=> Owned(i, marker[e])
      BY <1>2, <2>1 DEF Owned
    <3>2. \A i \in Ids : Owned(i, marker[d]) => i \in claimed[d] /\ rows[i].message \in Messages
      BY <2>1 DEF Leases, OwnClaimed, Typed, TypeOK, Row
    <3>3. QED
      BY <1>2, <3>1, <3>2 DEF Leases, OwnClaimed
  <2>4. QED
    BY <2>2, <2>3 DEF Leases
<1>3. QED
  BY <1>1, <1>2, SelectMoves

LEMMA PostLeases ==
  ASSUME Typed, Leases, NEW d \in Digests, Post(d) \/ PostFails(d)
  PROVE  Leases'
<1>1. PICK p \in {"mark", "restore", "fallback"} : pc' = [pc EXCEPT ![d] = p]
  BY PostMoves
<1>2. /\ pc[d] \in {"send", "fallback"} /\ pc'[d] = p
      /\ \A e \in Digests \ {d} : pc'[e] = pc[e]
      /\ UNCHANGED <<rows, marker, lapsed, claimed, text, expired>>
  BY <1>1, PostMoves DEF Typed, TypeOK
<1>3. accepted \subseteq accepted' /\ (p = "mark" => \A l \in text[d] : l[1] \in accepted')
  <2>1. CASE Post(d)
    BY <2>1 DEF Post
  <2>2. CASE PostFails(d)
    <3>1. \/ pc' = [pc EXCEPT ![d] = "restore"]
          \/ pc' = [pc EXCEPT ![d] = "fallback"]
      BY <2>2 DEF PostFails, NotSent, NextRoute
    <3>2. pc'[d] # "mark" /\ accepted' = accepted
      BY <2>2, <3>1 DEF PostFails, Typed, TypeOK
    <3>3. QED
      BY <1>2, <3>2
  <2>3. QED
    BY <2>1, <2>2
<1>4. MarkersDiffer' /\ LapsedExpired' /\ SentWasAccepted'
  BY <1>2, <1>3 DEF Leases, MarkersDiffer, LapsedExpired, SentWasAccepted
<1>5. MarkAccepted'
  BY <1>2, <1>3 DEF Leases, MarkAccepted
<1>6. OwnClaimed'
  BY <1>2 DEF Leases, OwnClaimed, Owned, Texted
<1>7. QED
  BY <1>4, <1>5, <1>6 DEF Leases

\* The final updates, row by row.
LEMMA SettleRows ==
  ASSUME Typed, Leases, NEW d \in Digests, MarkSent(d) \/ Restore(d), NEW i \in Ids
  PROVE  /\ pc[d] \in {"mark", "restore"}
         /\ rows'[i].message = rows[i].message
         /\ \/ /\ Owned(i, marker[d])
               /\ \E m \in Messages : <<i, m>> \in text[d]
               /\ rows'[i].status = IF pc[d] = "mark" THEN "sent" ELSE "pending"
            \/ ~Owned(i, marker[d]) /\ rows'[i] = rows[i]
<1>1. rows[i] \in Row /\ "sent" \in Status /\ "pending" \in Status
      /\ "" \in Errors /\ "note" \in Errors
  BY DEF Typed, TypeOK, Status, Errors
<1>2. pc[d] \in {"mark", "restore"}
  BY DEF MarkSent, Restore
<1>3. i \in Mine(d) <=> Owned(i, marker[d])
  BY <1>2 DEF Mine, Leases, OwnClaimed
<1>4. Owned(i, marker[d]) => \E m \in Messages : <<i, m>> \in text[d]
  BY <1>2 DEF Leases, OwnClaimed, Texted
<1>5. CASE MarkSent(d)
  <2> DEFINE q == [rows[i] EXCEPT !.status = "sent", !.error = ""]
  <2>1. pc[d] = "mark" /\ rows'[i] = IF i \in Mine(d) THEN q ELSE rows[i]
    BY <1>5 DEF MarkSent
  <2>2. q.status = "sent" /\ q.message = rows[i].message
    BY <1>1 DEF Row
  <2> HIDE DEF q
  <2>3. QED
    BY <1>3, <1>4, <2>1, <2>2
<1>6. CASE Restore(d)
  <2> DEFINE q == [rows[i] EXCEPT !.status = "pending", !.error = "note"]
  <2>1. pc[d] = "restore" /\ rows'[i] = IF i \in Mine(d) THEN q ELSE rows[i]
    BY <1>6 DEF Restore, Restored
  <2>2. q.status = "pending" /\ q.message = rows[i].message
    BY <1>1 DEF Row
  <2> HIDE DEF q
  <2>3. QED
    BY <1>3, <1>4, <2>1, <2>2
<1>7. QED
  BY <1>5, <1>6

LEMMA SettleLeases ==
  ASSUME Typed, Leases, NEW d \in Digests, MarkSent(d) \/ Restore(d) \/ RunLost(d)
  PROVE  Leases'
<1>1. EndRun(d) /\ UNCHANGED <<expired, accepted>>
  BY DEF MarkSent, Restore, RunLost
<1>2. CASE RunLost(d)
  BY <1>1, <1>2, EndLeases DEF RunLost
<1>3. CASE MarkSent(d) \/ Restore(d)
  <2>1. \A i \in Ids : rows'[i].status = "sending" =>
                         rows[i].status = "sending" /\ rows'[i].error = rows[i].error
    BY <1>3, SettleRows
  <2>2. \A i \in Ids : rows'[i].status = "sent" => rows[i].status = "sent" \/ i \in accepted
    BY <1>3, SettleRows DEF Leases, MarkAccepted
  <2>3. QED
    BY <1>1, <2>1, <2>2, EndLeases
<1>4. QED
  BY <1>2, <1>3

LEMMA StepLeases ==
  ASSUME Typed, Leases, [Next]_vars
  PROVE  Leases'
<1>1. CASE UNCHANGED vars
  BY <1>1, OthersLeases
<1>2. CASE Next
  BY <1>2, OthersLeases, StartLeases, ClaimLeases, SelectLeases, PostLeases, SettleLeases
     DEF Next, Run
<1>3. QED
  BY <1>1, <1>2
-----------------------------------------------------------------------------
(* What a step may do to a row.                                            *)

\* The four kinds of step that write a row, each with what it does to it.
LEMMA RowMoves ==
  ASSUME Typed, Leases, [Next]_vars, NEW i \in Ids
  PROVE  \/ rows'[i] = rows[i]
         \/ /\ rows[i].status = "absent" /\ rows'[i].status = "pending"
         \/ /\ rows'[i].status = rows[i].status
            /\ rows'[i].error \in {rows[i].error, ""}
         \/ rows[i].status = "pending" /\ rows'[i].status \in {"dismissed", "sending"}
         \/ \E d \in Digests :
              /\ pc[d] = "claim" /\ i \in Recovered(d)
              /\ rows'[i].status \in {"pending", "sending"}
         \/ \E d \in Digests :
              /\ pc[d] \in {"mark", "restore"} /\ pc'[d] = "idle" /\ Owned(i, marker[d])
              /\ rows'[i].status \in {"sent", "pending"}
<1>1. CASE rows' = rows
  BY <1>1
<1>2. ASSUME NEW c \in Convs, QueueWrite(c)
      PROVE  \/ rows'[i] = rows[i]
             \/ /\ rows[i].status = "absent" /\ rows'[i].status = "pending"
             \/ /\ rows'[i].status = rows[i].status
                /\ rows'[i].error \in {rows[i].error, ""}
  BY <1>2, WriteRows
<1>3. ASSUME NEW j \in Ids, Dismiss(j)
      PROVE  \/ rows'[i] = rows[i]
             \/ rows[i].status = "pending" /\ rows'[i].status = "dismissed"
  BY <1>3, DismissRows
<1>4. ASSUME NEW d \in Digests, ClaimBatch(d)
      PROVE  \/ rows'[i] = rows[i]
             \/ rows[i].status = "pending" /\ rows'[i].status = "sending"
             \/ /\ pc[d] = "claim" /\ i \in Recovered(d)
                /\ rows'[i].status \in {"pending", "sending"}
  BY <1>4, ClaimRows, RecoveredAndBatch DEF ClaimBatch
<1>5. ASSUME NEW d \in Digests, MarkSent(d) \/ Restore(d)
      PROVE  \/ rows'[i] = rows[i]
             \/ /\ pc[d] \in {"mark", "restore"} /\ pc'[d] = "idle" /\ Owned(i, marker[d])
                /\ rows'[i].status \in {"sent", "pending"}
  <2>1. pc'[d] = "idle"
    BY <1>5, Ended DEF MarkSent, Restore
  <2>2. QED
    BY <1>5, <2>1, SettleRows
<1>6. \/ rows' = rows
      \/ \E c \in Convs : QueueWrite(c)
      \/ \E j \in Ids : Dismiss(j)
      \/ \E d \in Digests : ClaimBatch(d) \/ MarkSent(d) \/ Restore(d)
  BY DEF Next, Run, vars, QueueRead, QueueFail, StartDigest, SelectClaimed, Post, PostFails,
         RunLost, Expire
<1>7. QED
  BY <1>1, <1>2, <1>3, <1>4, <1>5, <1>6

-----------------------------------------------------------------------------
(* The theorems on types, leases and final states.                         *)

IInv == Typed /\ Leases

LEMMA InductiveInvariant == Spec => []IInv
<1>1. Init => IInv
  BY InitTyped, InitLeases DEF IInv
<1>2. IInv /\ [Next]_vars => IInv'
  BY StepTyped, StepLeases DEF IInv
<1>3. QED
  BY <1>1, <1>2, PTL DEF Spec

\* Every variable keeps its type: the claims, leases, texts and rows of
\* tools/sybil_digest.py, whatever the runs, the queue calls and the operator do.
THEOREM TypeCorrect == Spec => []TypeOK
<1>1. IInv => TypeOK
  BY DEF IInv, Typed
<1>2. QED
  BY <1>1, InductiveInvariant, PTL

\* send_pending_sybil_digest marks a row sent only after Feishu accepted a text
\* made from it, however many runs claimed and recovered it.
THEOREM SentRowsWereAccepted == Spec => []SentWasAccepted
<1>1. IInv => SentWasAccepted
  BY DEF IInv, Leases
<1>2. QED
  BY <1>1, InductiveInvariant, PTL

\* The conditions on status and marker in the final updates, and the test of the
\* lease in the recovery, keep stale runs off the rows of a newer claim.
THEOREM StaleDigestsAreHarmless == Spec => StaleDigestHarmless
<1> DEFINE Harmless(i) ==
       /\ rows[i].status = "sending" /\ ~SendingLeaseExpired(rows[i].error)
       /\ rows'[i].status # "sending" \/ rows'[i].error \in Markers \ {rows[i].error}
       => \E d \in Digests : /\ marker[d] = rows[i].error
                             /\ pc[d] \in {"mark", "restore"} /\ pc'[d] = "idle"
<1>1. ASSUME IInv, [Next]_vars, NEW i \in Ids PROVE Harmless(i)
  <2> SUFFICES ASSUME rows[i].status = "sending", ~SendingLeaseExpired(rows[i].error),
                      rows'[i].status # "sending" \/ rows'[i].error \in Markers \ {rows[i].error}
               PROVE  \E d \in Digests : /\ marker[d] = rows[i].error
                                         /\ pc[d] \in {"mark", "restore"} /\ pc'[d] = "idle"
    OBVIOUS
  <2>1. \A d \in Digests : i \notin Recovered(d)
    BY <1>1, RecoveredExpired DEF IInv, SendingLeaseExpired
  <2>2. "" \notin Markers
    BY MarkersAssumption
  <2>3. QED
    BY <1>1, <2>1, <2>2, RowMoves DEF IInv, Owned
<1>2. IInv /\ [Next]_vars => [\A i \in Ids : Harmless(i)]_vars
  BY <1>1
<1>3. QED
  BY <1>2, InductiveInvariant, PTL DEF Spec, StaleDigestHarmless

\* No update of the file moves a row out of sent or dismissed: the flush of a queue
\* call sets message and error only, and every other update asks for the status.
THEOREM FinalStatesStay == Spec => FinalStatesAreFinal
<1>1. ASSUME IInv, [Next]_vars, NEW i \in Ids, rows[i].status \in {"sent", "dismissed"}
      PROVE  rows'[i].status = rows[i].status
  <2>1. \A d \in Digests : i \notin Recovered(d)
    BY <1>1, RecoveredExpired DEF IInv
  <2>2. QED
    BY <1>1, <2>1, RowMoves DEF IInv, Owned
<1>2. IInv /\ [Next]_vars => [\A i \in Ids : rows[i].status \in {"sent", "dismissed"} =>
                                              rows'[i].status = rows[i].status]_vars
  BY <1>1
<1>3. QED
  BY <1>2, InductiveInvariant, PTL DEF Spec, FinalStatesAreFinal
-----------------------------------------------------------------------------
(* One digest run at a time: dismissed rows stay out of the group.         *)

\* A text about to be posted is new, made of the rows that the run owns, or the
\* one that the run had.
LEMMA TextMoves ==
  ASSUME Typed, Leases, [Next]_vars, NEW d \in Digests, pc'[d] \in {"send", "fallback"}
  PROVE  \/ pc[d] \in {"send", "fallback"} /\ text'[d] = text[d]
         \/ /\ rows' = rows
            /\ \A i, m : <<i, m>> \in text'[d] => Owned(i, marker[d])
<1>1. ASSUME NEW e \in Digests, EndRun(e)
      PROVE  pc[d] \in {"send", "fallback"} /\ text'[d] = text[d]
  BY <1>1, Ended
<1>2. ASSUME NEW e \in Digests, StartDigest(e)
      PROVE  pc[d] \in {"send", "fallback"} /\ text'[d] = text[d]
  BY <1>2, StartFacts
<1>3. ASSUME NEW e \in Digests, ClaimBatch(e)
      PROVE  pc[d] \in {"send", "fallback"} /\ text'[d] = text[d]
  BY <1>1, <1>3, ClaimMoves
<1>4. ASSUME NEW e \in Digests, SelectClaimed(e)
      PROVE  \/ pc[d] \in {"send", "fallback"} /\ text'[d] = text[d]
             \/ /\ rows' = rows
                /\ \A i, m : <<i, m>> \in text'[d] => Owned(i, marker[d])
  BY <1>1, <1>4, SelectMoves
<1>5. ASSUME NEW e \in Digests, Post(e) \/ PostFails(e)
      PROVE  pc[d] \in {"send", "fallback"} /\ text'[d] = text[d]
  BY <1>5, PostMoves DEF Typed, TypeOK
<1>6. ASSUME UNCHANGED <<pc, text>>
      PROVE  pc[d] \in {"send", "fallback"} /\ text'[d] = text[d]
  BY <1>6
<1>7. \/ UNCHANGED <<pc, text>>
      \/ \E e \in Digests : \/ EndRun(e) \/ StartDigest(e) \/ ClaimBatch(e) \/ SelectClaimed(e)
                            \/ Post(e) \/ PostFails(e)
  BY DEF Next, Run, vars, runVars, QueueRead, QueueWrite, QueueFail, MarkSent, Restore, RunLost,
         Dismiss, Expire
<1>8. QED
  BY <1>1, <1>2, <1>3, <1>4, <1>5, <1>6, <1>7

TextSending ==
  \A d \in Digests, i \in Ids, m \in Messages :
    pc[d] \in {"send", "fallback"} /\ <<i, m>> \in text[d] => rows[i].status = "sending"

LEMMA StepTextSending ==
  ASSUME Digests = {Daily}, Typed, Leases, TextSending, [Next]_vars
  PROVE  TextSending'
<1> SUFFICES ASSUME NEW d \in Digests, NEW i \in Ids, NEW m \in Messages,
                    pc'[d] \in {"send", "fallback"}, <<i, m>> \in text'[d]
             PROVE  rows'[i].status = "sending"
  BY DEF TextSending
<1>1. CASE rows' = rows /\ Owned(i, marker[d])
  BY <1>1 DEF Owned
<1>2. CASE pc[d] \in {"send", "fallback"} /\ text'[d] = text[d]
  <2>1. rows[i].status = "sending"
    BY <1>2 DEF TextSending
  <2>2. \A e \in Digests : pc[e] \notin {"claim", "mark", "restore"}
    BY <1>2
  <2>3. QED
    BY <2>1, <2>2, RowMoves
<1>3. QED
  BY <1>1, <1>2, TextMoves

\* While only the scheduler runs digests, one at a time, a row that the operator
\* dismissed is in no text that is still to be posted: DELETE /ops/api/sybil/{id}
\* refuses a row being sent, and nobody else takes over the rows of a run at work.
THEOREM DismissedStaysUnposted ==
  ASSUME Digests = {Daily}
  PROVE  Spec => DismissedIsNotPosted
<1>1. Init => TextSending
  BY DEF Init, TextSending
<1>2. IInv /\ TextSending /\ [Next]_vars => TextSending'
  BY StepTextSending DEF IInv
<1>3. ASSUME IInv, TextSending, [Next]_vars, NEW i \in Ids, rows[i].status = "dismissed"
      PROVE  delivered'[i] = delivered[i]
  <2>1. ASSUME NEW d \in Digests, Post(d) PROVE delivered'[i] = delivered[i]
    <3>1. pc[d] \in {"send", "fallback"}
      BY <2>1 DEF Post, Sending
    <3>2. \A m \in Messages : <<i, m>> \notin text[d]
      BY <1>3, <3>1 DEF TextSending
    <3>3. QED
      BY <1>3, <2>1, <3>2, Said DEF IInv
  <2>2. delivered' = delivered \/ \E d \in Digests : Post(d)
    BY <1>3 DEF Next, Run, vars, QueueRead, QueueWrite, QueueFail, StartDigest, ClaimBatch,
               SelectClaimed, PostFails, MarkSent, Restore, RunLost, Dismiss, Expire
  <2>3. QED
    BY <2>1, <2>2
<1>4. IInv /\ TextSending /\ [Next]_vars =>
        [\A i \in Ids : rows[i].status = "dismissed" => delivered'[i] = delivered[i]]_vars
  BY <1>3
<1>5. QED
  BY <1>1, <1>2, <1>4, InductiveInvariant, PTL DEF Spec, DismissedIsNotPosted
-----------------------------------------------------------------------------
(* Messages are drawn once: what a queue call is about to write is nowhere *)
(* else.                                                                   *)

Mentioned(m) ==
  \E i \in Ids : \/ Stored(i) /\ rows[i].message = m
                 \/ \E n \in DOMAIN delivered[i] : delivered[i][n] = m
                 \/ \E d \in Digests : <<i, m>> \in text[d]

DrawnOnce ==
  /\ \A m \in Messages : Mentioned(m) => m <= queued
  /\ \A c \in Convs, m \in Messages :
       draft[c] # NoDraft /\ draft[c].message = m => m <= queued /\ ~Mentioned(m)
  /\ \A b, c \in Convs : b # c /\ draft[b] # NoDraft /\ draft[c] # NoDraft =>
                           draft[b].message # draft[c].message

LEMMA InitDrawnOnce == Init => DrawnOnce
<1> SUFFICES ASSUME Init PROVE DrawnOnce
  OBVIOUS
<1>1. \A i \in Ids : ~Stored(i) /\ DOMAIN delivered[i] = {}
  <2>1. DOMAIN << >> = {}
    BY EmptySeq
  <2>2. \A i \in Ids : rows[i].status = "absent" /\ delivered[i] = << >>
    BY DEF Init
  <2>3. QED
    BY <2>1, <2>2 DEF Stored
<1>2. \A d \in Digests : text[d] = {}
  BY DEF Init
<1>3. \A m : ~Mentioned(m)
  BY <1>1, <1>2 DEF Mentioned
<1>4. \A c \in Convs : draft[c] = NoDraft
  BY DEF Init
<1>5. QED
  BY <1>3, <1>4 DEF DrawnOnce

\* A message is said of a row after it was queued there.
LEMMA MentionMoves ==
  ASSUME Typed, Leases, [Next]_vars, NEW m \in Messages, Mentioned(m)'
  PROVE  \/ Mentioned(m)
         \/ \E c \in Convs : QueueWrite(c) /\ m = draft[c].message
<1> PICK i \in Ids : \/ Stored(i)' /\ rows'[i].message = m
                     \/ \E n \in DOMAIN delivered'[i] : delivered'[i][n] = m
                     \/ \E d \in Digests : <<i, m>> \in text'[d]
  BY DEF Mentioned
<1>1. CASE Stored(i)' /\ rows'[i].message = m
  <2>1. CASE rows'[i] = rows[i]
    BY <1>1, <2>1 DEF Mentioned, Stored
  <2>2. ASSUME NEW c \in Convs, QueueWrite(c), rows'[i] # rows[i]
        PROVE  m = draft[c].message
    BY <1>1, <2>2, WriteRows
  <2>3. ASSUME NEW d \in Digests, ClaimBatch(d) PROVE Mentioned(m)
    <3>1. rows[i].message = m
      BY <1>1, <2>3, ClaimRows
    <3>2. Stored(i)
      BY <1>1, <2>3, ClaimRows, RecoveredAndBatch DEF Stored
    <3>3. QED
      BY <3>1, <3>2 DEF Mentioned
  <2>4. ASSUME NEW d \in Digests, MarkSent(d) \/ Restore(d) PROVE Mentioned(m)
    <3>1. rows[i].message = m /\ Stored(i)
      BY <1>1, <2>4, SettleRows DEF Stored, Owned
    <3>2. QED
      BY <3>1 DEF Mentioned
  <2>5. ASSUME NEW j \in Ids, Dismiss(j) PROVE Mentioned(m)
    BY <1>1, <2>5, DismissRows DEF Mentioned, Stored
  <2>6. \/ rows' = rows
        \/ \E c \in Convs : QueueWrite(c)
        \/ \E j \in Ids : Dismiss(j)
        \/ \E d \in Digests : ClaimBatch(d) \/ MarkSent(d) \/ Restore(d)
    BY DEF Next, Run, vars, QueueRead, QueueFail, StartDigest, SelectClaimed, Post, PostFails,
           RunLost, Expire
  <2>7. QED
    BY <2>1, <2>2, <2>3, <2>4, <2>5, <2>6
<1>2. CASE \E n \in DOMAIN delivered'[i] : delivered'[i][n] = m
  <2>1. CASE delivered' = delivered
    BY <1>2, <2>1 DEF Mentioned
  <2>2. ASSUME NEW d \in Digests, Post(d) PROVE Mentioned(m)
    <3>1. CASE delivered'[i] = delivered[i]
      BY <1>2, <3>1 DEF Mentioned
    <3>2. ASSUME NEW a \in Messages, <<i, a>> \in text[d], delivered'[i] = Append(delivered[i], a)
          PROVE  Mentioned(m)
      <4>1. delivered[i] \in Seq(Messages)
        BY DEF Typed, TypeOK
      <4>2. PICK n \in DOMAIN delivered'[i] : delivered'[i][n] = m
        BY <1>2
      <4>3. (n \in DOMAIN delivered[i] /\ delivered[i][n] = m) \/ m = a
        BY <3>2, <4>1, <4>2
      <4>4. QED
        BY <3>2, <4>3 DEF Mentioned
    <3>3. QED
      BY <2>2, <3>1, <3>2, Said
  <2>3. delivered' = delivered \/ \E d \in Digests : Post(d)
    BY DEF Next, Run, vars, QueueRead, QueueWrite, QueueFail, StartDigest, ClaimBatch,
           SelectClaimed, PostFails, MarkSent, Restore, RunLost, Dismiss, Expire
  <2>4. QED
    BY <2>1, <2>2, <2>3
<1>3. CASE \E d \in Digests : <<i, m>> \in text'[d]
  <2>1. PICK d \in Digests : <<i, m>> \in text'[d]
    BY <1>3
  <2>2. ASSUME NEW e \in Digests, EndRun(e) PROVE Mentioned(m)
    BY <2>1, <2>2, Ended DEF Mentioned
  <2>3. ASSUME NEW e \in Digests, SelectClaimed(e) PROVE Mentioned(m)
    BY <2>1, <2>2, <2>3, SelectMoves DEF Mentioned, Stored, Owned
  <2>4. ASSUME NEW e \in Digests, ClaimBatch(e) PROVE Mentioned(m)
    BY <2>1, <2>2, <2>4, ClaimMoves DEF Mentioned
  <2>5. \/ text' = text
        \/ \E e \in Digests : EndRun(e) \/ SelectClaimed(e) \/ ClaimBatch(e)
    BY DEF Next, Run, vars, runVars, QueueRead, QueueWrite, QueueFail, StartDigest, Post,
           PostFails, MarkSent, Restore, RunLost, Dismiss, Expire
  <2>6. QED
    BY <2>1, <2>2, <2>3, <2>4, <2>5 DEF Mentioned
<1>4. QED
  BY <1>1, <1>2, <1>3

LEMMA StepDrawnOnce ==
  ASSUME Typed, Leases, DrawnOnce, [Next]_vars
  PROVE  DrawnOnce'
<1>1. queued \in Nat /\ Messages \subseteq Nat
  BY IdsAreNumbers, MaxQueuedAssumption DEF Typed, TypeOK
<1>2. \A c \in Convs : draft[c] # NoDraft => draft[c].message \in Messages
  BY DEF Typed, TypeOK
<1>3. ASSUME NEW c \in Convs, QueueRead(c) PROVE DrawnOnce'
  <2>1. queued' = queued + 1 /\ \A m \in Messages : Mentioned(m)' => Mentioned(m)
    <3>1. UNCHANGED <<rows, delivered, text>>
      BY <1>3 DEF QueueRead, runVars
    <3>2. QED
      BY <1>3, <3>1 DEF QueueRead, Mentioned, Stored
  <2>2. queued + 1 \in Messages
    <3>1. queued < MaxQueued
      BY <1>3 DEF QueueRead
    <3>2. QED
      BY <1>1, <3>1, MaxQueuedAssumption DEF Messages
  <2>3. \A m \in Messages : m = queued + 1 => ~Mentioned(m) /\ ~Mentioned(m)'
    <3>1. \A m \in Messages : Mentioned(m) => m <= queued
      BY DEF DrawnOnce
    <3>2. QED
      BY <1>1, <2>1, <3>1
  <2>4. /\ draft'[c].message = queued + 1
        /\ \A b \in Convs \ {c} : draft'[b] = draft[b]
    <3>1. PICK r, k : draft' = [draft EXCEPT ![c] = [message |-> queued + 1, row |-> r, clears |-> k]]
      BY <1>3 DEF QueueRead
    <3>2. QED
      BY <3>1 DEF Typed
  <2>5. \A m \in Messages : Mentioned(m)' => m <= queued'
    BY <1>1, <2>1 DEF DrawnOnce
  <2>6. \A b \in Convs, m \in Messages :
          draft'[b] # NoDraft /\ draft'[b].message = m => m <= queued' /\ ~Mentioned(m)'
    <3> SUFFICES ASSUME NEW b \in Convs, NEW m \in Messages, draft'[b] # NoDraft,
                        draft'[b].message = m
                 PROVE  m <= queued' /\ ~Mentioned(m)'
      OBVIOUS
    <3>1. CASE b = c
      <4>1. m = queued + 1
        BY <2>4, <3>1
      <4>2. QED
        BY <1>1, <2>1, <2>3, <4>1
    <3>2. CASE b # c
      <4>1. draft[b] # NoDraft /\ draft[b].message = m
        BY <2>4, <3>2
      <4>2. m <= queued /\ ~Mentioned(m)
        BY <4>1 DEF DrawnOnce
      <4>3. QED
        BY <1>1, <2>1, <4>2
    <3>3. QED
      BY <3>1, <3>2
  <2>7. \A a, b \in Convs : a # b /\ draft'[a] # NoDraft /\ draft'[b] # NoDraft =>
                              draft'[a].message # draft'[b].message
    <3>1. \A b \in Convs \ {c} : draft[b] # NoDraft => draft[b].message # queued + 1
      BY <1>1, <1>2 DEF DrawnOnce
    <3>2. QED
      BY <2>4, <3>1 DEF DrawnOnce
  <2>8. QED
    BY <2>5, <2>6, <2>7 DEF DrawnOnce
<1>4. ASSUME NEW c \in Convs, QueueWrite(c) PROVE DrawnOnce'
  <2>1. queued' = queued /\ draft[c] # NoDraft /\ draft'[c] = NoDraft
        /\ \A b \in Convs \ {c} : draft'[b] = draft[b]
    BY <1>4 DEF QueueWrite, Typed
  <2>2. \A m \in Messages : Mentioned(m)' => Mentioned(m) \/ m = draft[c].message
    <3> SUFFICES ASSUME NEW m \in Messages, Mentioned(m)'
                 PROVE  Mentioned(m) \/ m = draft[c].message
      OBVIOUS
    <3>1. UNCHANGED <<delivered, text>>
      BY <1>4 DEF QueueWrite, runVars
    <3>2. \A i \in Ids : \/ rows'[i] = rows[i]
                         \/ rows'[i].message = draft[c].message
      BY <1>4, WriteRows
    <3>3. QED
      BY <3>1, <3>2 DEF Mentioned, Stored
  <2>3. QED
    BY <1>2, <2>1, <2>2 DEF DrawnOnce
<1>5. ASSUME \A c \in Convs : ~QueueRead(c) /\ ~QueueWrite(c) PROVE DrawnOnce'
  <2>1. \A m \in Messages : Mentioned(m)' => Mentioned(m)
    BY <1>5, MentionMoves
  <2>2. queued' = queued
    BY <1>5 DEF Next, Run, vars, QueueFail, StartDigest, ClaimBatch, SelectClaimed, Post,
               PostFails, MarkSent, Restore, RunLost, Dismiss, Expire
  <2>3. \A c \in Convs : draft'[c] = draft[c] \/ draft'[c] = NoDraft
    BY <1>5 DEF Next, Run, vars, QueueFail, StartDigest, ClaimBatch, SelectClaimed, Post,
               PostFails, MarkSent, Restore, RunLost, Dismiss, Expire, Typed
  <2>4. QED
    BY <1>2, <2>1, <2>2, <2>3 DEF DrawnOnce
<1>6. QED
  BY <1>3, <1>4, <1>5
-----------------------------------------------------------------------------
(* How often a message may still be posted for its row, without a fault.   *)

\* A run with a lease that is in time answers for the message in its text.
Covered(i, m) ==
  \E d \in Digests : /\ marker[d] \in Markers \ expired /\ marker[d] = rows[i].error
                     /\ pc[d] \in Texted /\ <<i, m>> \in text[d]

\* A row that a run may still take, to make a text with message m of it.
Open(i, m) ==
  /\ rows[i].message = m
  /\ \/ rows[i].status = "pending"
     \/ rows[i].status = "sending" /\ ~Covered(i, m)

\* The runs that may still post the pair, or put its row back.
Carriers(i, m) == {d \in Digests : pc[d] \in {"send", "fallback", "restore"} /\ <<i, m>> \in text[d]}

\* The runs whose lease passed before they made their text: that took a fault.
Prepaid == {d \in Digests : pc[d] \in {"claim", "select"} /\ marker[d] \in expired}

Times(s, m) == Cardinality({n \in DOMAIN s : s[n] = m})

Chances(i, m) == IF Open(i, m) THEN 1 ELSE 0

Budget(i, m) ==
  Times(delivered[i], m) + Chances(i, m) + Cardinality(Carriers(i, m)) + Cardinality(Prepaid)
    <= 1 + faults

Paid ==
  /\ Cardinality(Prepaid) <= faults
  /\ \A i \in Ids, m \in Messages : Budget(i, m)

\* The size of a set of runs when one run enters or leaves it.
LEMMA RunsCounted ==
  ASSUME NEW S \in SUBSET Digests, NEW T \in SUBSET Digests, NEW d \in Digests
  PROVE  /\ Cardinality(S) \in Nat /\ Cardinality(T) \in Nat
         /\ T \subseteq S => Cardinality(T) <= Cardinality(S)
         /\ T \subseteq S \cup {d} => Cardinality(T) <= Cardinality(S) + 1
         /\ d \in S /\ T \subseteq S \ {d} => Cardinality(T) + 1 <= Cardinality(S)
<1>1. IsFiniteSet(S) /\ IsFiniteSet(T)
  BY DigestsAssumption, FS_Subset
<1>2. Cardinality(S) \in Nat /\ Cardinality(T) \in Nat
  BY <1>1, FS_CardinalityType
<1>3. T \subseteq S => Cardinality(T) <= Cardinality(S)
  BY <1>1, FS_Subset
<1>4. T \subseteq S \cup {d} => Cardinality(T) <= Cardinality(S) + 1
  <2>1. IsFiniteSet(S \cup {d}) /\ Cardinality(S \cup {d}) <= Cardinality(S) + 1
    <3>1. /\ IsFiniteSet(S \cup {d})
          /\ \/ Cardinality(S \cup {d}) = Cardinality(S)
             \/ Cardinality(S \cup {d}) = Cardinality(S) + 1
      BY <1>1, FS_AddElement, Zenon
    <3>2. QED
      BY <1>2, <3>1
  <2>2. T \subseteq S \cup {d} => Cardinality(T) <= Cardinality(S \cup {d})
    BY <2>1, FS_Subset
  <2>3. Cardinality(S \cup {d}) \in Nat
    BY <2>1, FS_CardinalityType
  <2>4. QED
    BY <1>2, <2>1, <2>2, <2>3
<1>5. d \in S /\ T \subseteq S \ {d} => Cardinality(T) + 1 <= Cardinality(S)
  <2>1. IsFiniteSet(S \ {d}) /\ (d \in S => Cardinality(S \ {d}) = Cardinality(S) - 1)
    BY <1>1, FS_RemoveElement
  <2>2. T \subseteq S \ {d} => Cardinality(T) <= Cardinality(S \ {d})
    BY <2>1, FS_Subset
  <2>3. Cardinality(S \ {d}) \in Nat
    BY <2>1, FS_CardinalityType
  <2>4. QED
    BY <1>2, <2>1, <2>2, <2>3
<1>6. QED
  BY <1>2, <1>3, <1>4, <1>5

\* How often a message occurs in a sequence, and in one with an element more.
LEMMA TimesCounted ==
  ASSUME NEW s \in Seq(Messages), NEW a \in Messages, NEW m
  PROVE  /\ Times(s, m) \in Nat
         /\ a = m => Times(Append(s, a), m) = Times(s, m) + 1
         /\ a # m => Times(Append(s, a), m) = Times(s, m)
<1> DEFINE At == {n \in DOMAIN s : s[n] = m}
           Next1 == {n \in DOMAIN Append(s, a) : Append(s, a)[n] = m}
<1>1. Len(s) \in Nat /\ DOMAIN s = 1..Len(s)
  OBVIOUS
<1>2. IsFiniteSet(At)
  <2>1. IsFiniteSet(1..Len(s))
    BY <1>1, FS_Interval
  <2>2. At \subseteq 1..Len(s)
    BY <1>1
  <2>3. QED
    BY <2>1, <2>2, FS_Subset
<1>3. /\ DOMAIN Append(s, a) = 1..(Len(s) + 1)
      /\ Append(s, a)[Len(s) + 1] = a
      /\ \A n \in 1..Len(s) : Append(s, a)[n] = s[n]
  OBVIOUS
<1>4. Len(s) + 1 \notin At /\ (a = m => Next1 = At \cup {Len(s) + 1}) /\ (a # m => Next1 = At)
  BY <1>1, <1>3
<1>5. Cardinality(At) \in Nat /\ (a = m => Cardinality(Next1) = Cardinality(At) + 1)
      /\ (a # m => Cardinality(Next1) = Cardinality(At))
  BY <1>2, <1>4, FS_CardinalityType, FS_AddElement
<1>6. QED
  BY <1>5 DEF Times

LEMMA BudgetTyped ==
  ASSUME Typed, NEW i \in Ids, NEW m \in Messages
  PROVE  /\ Times(delivered[i], m) \in Nat /\ Chances(i, m) \in {0, 1} /\ faults \in Nat
         /\ Cardinality(Carriers(i, m)) \in Nat /\ Cardinality(Prepaid) \in Nat
         /\ Carriers(i, m) \subseteq Digests /\ Prepaid \subseteq Digests
<1>1. delivered[i] \in Seq(Messages) /\ faults \in Nat
  BY DigestFaultsAssumption DEF Typed, TypeOK
<1>2. Times(delivered[i], m) \in Nat
  BY <1>1, TimesCounted
<1>3. Carriers(i, m) \subseteq Digests /\ Prepaid \subseteq Digests
  BY DEF Carriers, Prepaid
<1>4. Cardinality(Carriers(i, m)) \in Nat /\ Cardinality(Prepaid) \in Nat
  BY <1>3, DailyAssumption, RunsCounted
<1>5. QED
  BY <1>1, <1>2, <1>3, <1>4 DEF Chances

LEMMA InitPaid == Init => Paid
<1> SUFFICES ASSUME Init PROVE Paid
  OBVIOUS
<1>1. DOMAIN << >> = {}
  BY EmptySeq
<1>2. \A i \in Ids : rows[i].status = "absent" /\ delivered[i] = << >>
  BY DEF Init
<1>3. faults = 0 /\ \A d \in Digests : pc[d] = "idle"
  BY DEF Init
<1>4. Prepaid = {} /\ \A i \in Ids, m \in Messages : Carriers(i, m) = {} /\ ~Open(i, m)
  BY <1>2, <1>3 DEF Prepaid, Carriers, Open
<1>5. \A i \in Ids, m \in Messages : Times(delivered[i], m) = 0
  <2>1. \A i \in Ids, m \in Messages : {n \in DOMAIN delivered[i] : delivered[i][n] = m} = {}
    BY <1>1, <1>2
  <2>2. QED
    BY <2>1, FS_EmptySet DEF Times
<1>6. QED
  BY <1>3, <1>4, <1>5, FS_EmptySet DEF Paid, Budget, Chances

LEMMA BudgetTypedNext ==
  ASSUME Typed', NEW i \in Ids, NEW m \in Messages
  PROVE  /\ Times(delivered'[i], m) \in Nat /\ Chances(i, m)' \in {0, 1} /\ faults' \in Nat
         /\ Carriers(i, m)' \subseteq Digests /\ Prepaid' \subseteq Digests
<1>1. delivered'[i] \in Seq(Messages) /\ faults' \in Nat
  BY DigestFaultsAssumption DEF Typed, TypeOK
<1>2. Times(delivered'[i], m) \in Nat
  BY <1>1, TimesCounted
<1>3. Carriers(i, m)' \subseteq Digests /\ Prepaid' \subseteq Digests
  BY DEF Carriers, Prepaid
<1>4. QED
  BY <1>1, <1>2, <1>3 DEF Chances

\* A step that adds nothing on the left, or pays for a row it opens.
LEMMA NothingAdded ==
  ASSUME Typed, Typed', Paid, faults' >= faults, Prepaid' \subseteq Prepaid,
         NEW i \in Ids, NEW m \in Messages,
         delivered'[i] = delivered[i], Carriers(i, m)' \subseteq Carriers(i, m),
         (Open(i, m)' => Open(i, m)) \/ faults' = faults + 1
  PROVE  Budget(i, m)'
<1> DEFINE T == Times(delivered[i], m)
           W == Chances(i, m)
           A == Cardinality(Carriers(i, m))
           X == Cardinality(Prepaid)
<1>1. T + W + A + X <= 1 + faults
  BY DEF Paid, Budget
<1>2. /\ T \in Nat /\ W \in {0, 1} /\ W' \in {0, 1} /\ faults \in Nat /\ faults' \in Nat
      /\ Carriers(i, m)' \subseteq Digests /\ Prepaid' \subseteq Digests
      /\ Carriers(i, m) \subseteq Digests /\ Prepaid \subseteq Digests
  BY BudgetTyped, BudgetTypedNext
<1>3. A \in Nat /\ A' \in Nat /\ A' <= A /\ X \in Nat /\ X' \in Nat /\ X' <= X
  BY <1>2, DailyAssumption, RunsCounted
<1>4. W' <= W \/ faults' = faults + 1
  BY DEF Chances
<1>5. T' = T
  OBVIOUS
<1>6. T' + W' + A' + X' <= 1 + faults'
  BY <1>1, <1>2, <1>3, <1>4, <1>5
<1>7. QED
  BY <1>6 DEF Budget

LEMMA PrepaidStays ==
  ASSUME Typed, Typed', Paid, faults' >= faults, Prepaid' \subseteq Prepaid
  PROVE  Cardinality(Prepaid') <= faults'
<1>1. Prepaid \subseteq Digests /\ Prepaid' \subseteq Digests
  BY DEF Prepaid
<1>2. Cardinality(Prepaid) \in Nat /\ Cardinality(Prepaid') \in Nat
      /\ Cardinality(Prepaid') <= Cardinality(Prepaid)
  BY <1>1, DailyAssumption, RunsCounted
<1>3. faults \in Nat /\ faults' \in Nat
  BY DigestFaultsAssumption DEF Typed, TypeOK
<1>4. QED
  BY <1>2, <1>3 DEF Paid

LEMMA StartPaid ==
  ASSUME Typed, Typed', Leases, Paid, NEW d \in Digests, StartDigest(d)
  PROVE  Paid'
<1>1. PICK k \in Markers :
        /\ ~InUse(k)
        /\ pc[d] = "idle" /\ pc'[d] = "claim" /\ marker'[d] = k
        /\ expired' = expired \ {k}
        /\ \A e \in Digests \ {d} : pc'[e] = pc[e] /\ marker'[e] = marker[e]
        /\ UNCHANGED <<rows, text, delivered, faults>>
  BY StartFacts
<1>2. faults' >= faults
  BY <1>1, DigestFaultsAssumption DEF Typed, TypeOK
<1>3. Prepaid' \subseteq Prepaid
  BY <1>1 DEF Prepaid
<1>4. ASSUME NEW i \in Ids, NEW m \in Messages PROVE Budget(i, m)'
  <2>1. Carriers(i, m)' \subseteq Carriers(i, m)
    BY <1>1 DEF Carriers
  <2>2. Covered(i, m) => Covered(i, m)'
    BY <1>1 DEF Covered, Texted
  <2>3. Open(i, m)' => Open(i, m)
    BY <1>1, <2>2 DEF Open
  <2>4. QED
    BY <1>1, <1>2, <1>3, <2>1, <2>3, NothingAdded
<1>5. QED
  BY <1>2, <1>3, <1>4, PrepaidStays DEF Paid

LEMMA ClaimPaid ==
  ASSUME Typed, Typed', Leases, Paid, NEW d \in Digests, ClaimBatch(d)
  PROVE  Paid'
<1>1. /\ UNCHANGED <<expired, delivered, faults>>
      /\ pc[d] = "claim" /\ text[d] = {} /\ text'[d] = {}
      /\ pc'[d] = "idle" \/ (pc'[d] = "select" /\ marker'[d] = marker[d])
      /\ \A e \in Digests \ {d} : pc'[e] = pc[e] /\ marker'[e] = marker[e] /\ text'[e] = text[e]
  BY ClaimMoves, Ended
<1>2. faults' >= faults
  BY <1>1, DigestFaultsAssumption DEF Typed, TypeOK
<1>3. Prepaid' \subseteq Prepaid
  BY <1>1 DEF Prepaid
<1>4. ASSUME NEW i \in Ids, NEW m \in Messages PROVE Budget(i, m)'
  <2>1. Carriers(i, m)' \subseteq Carriers(i, m)
    BY <1>1 DEF Carriers
  <2>2. Open(i, m)' => Open(i, m)
    <3>1. CASE rows'[i] = rows[i]
      <4>1. Covered(i, m) => Covered(i, m)'
        BY <1>1, <3>1 DEF Covered, Texted
      <4>2. QED
        BY <3>1, <4>1 DEF Open
    <3>2. CASE i \in Recovered(d)
      <4>1. rows[i].status = "sending" /\ (rows[i].error \in Markers => rows[i].error \in expired)
        BY <3>2, RecoveredExpired
      <4>2. ~Covered(i, m)
        BY <4>1 DEF Covered
      <4>3. QED
        BY <4>1, <4>2, ClaimRows DEF Open
    <3>3. CASE i \in Batch(d)
      <4>1. rows[i].status = "pending" \/ i \in Recovered(d)
        BY <3>3, RecoveredAndBatch
      <4>2. QED
        BY <3>2, <4>1, ClaimRows DEF Open
    <3>4. QED
      BY <3>1, <3>2, <3>3, ClaimRows
  <2>3. QED
    BY <1>1, <1>2, <1>3, <2>1, <2>2, NothingAdded
<1>5. QED
  BY <1>2, <1>3, <1>4, PrepaidStays DEF Paid

\* The end of a run that has no row, or that a fault ends.
LEMMA EndPaid ==
  ASSUME Typed, Typed', Leases, Paid, NEW d \in Digests, EndRun(d),
         UNCHANGED <<rows, expired, delivered>>,
         \/ faults' = faults + 1
         \/ faults' = faults /\ pc[d] \notin Texted
  PROVE  Paid'
<1>1. /\ pc'[d] = "idle" /\ text'[d] = {}
      /\ \A e \in Digests \ {d} : pc'[e] = pc[e] /\ marker'[e] = marker[e] /\ text'[e] = text[e]
  BY Ended
<1>2. faults' >= faults
  BY DigestFaultsAssumption DEF Typed, TypeOK
<1>3. Prepaid' \subseteq Prepaid
  BY <1>1 DEF Prepaid
<1>4. ASSUME NEW i \in Ids, NEW m \in Messages PROVE Budget(i, m)'
  <2>1. Carriers(i, m)' \subseteq Carriers(i, m)
    BY <1>1 DEF Carriers
  <2>2. pc[d] \notin Texted /\ Covered(i, m) => Covered(i, m)'
    BY <1>1 DEF Covered
  <2>3. (Open(i, m)' => Open(i, m)) \/ faults' = faults + 1
    BY <2>2 DEF Open
  <2>4. QED
    BY <1>2, <1>3, <2>1, <2>3, NothingAdded
<1>5. QED
  BY <1>2, <1>3, <1>4, PrepaidStays DEF Paid

\* The text is made: the run now answers for its rows, unless its lease has
\* passed; then it no longer counts as prepaid.
LEMMA SelectPaid ==
  ASSUME Typed, Typed', Leases, Paid, NEW d \in Digests, SelectClaimed(d)
  PROVE  Paid'
<1>1. CASE EndRun(d)
  BY <1>1, SelectMoves, EndPaid DEF Texted
<1>2. CASE /\ pc'[d] = "send"
           /\ UNCHANGED <<marker, lapsed, claimed>>
           /\ \A i, m : <<i, m>> \in text'[d] <=>
                i \in claimed[d] /\ Owned(i, marker[d]) /\ m = rows[i].message
           /\ \A e \in Digests \ {d} : pc'[e] = pc[e] /\ text'[e] = text[e]
  <2>1. /\ pc[d] = "select" /\ marker[d] \in Markers /\ text[d] = {}
        /\ UNCHANGED <<rows, expired, delivered, faults>>
    BY SelectMoves
  <2>2. faults' >= faults
    BY <2>1, DigestFaultsAssumption DEF Typed, TypeOK
  <2>3. Prepaid' \subseteq Prepaid \ {d}
    BY <1>2, <2>1 DEF Prepaid
  <2>4. ASSUME NEW i \in Ids, NEW m \in Messages PROVE Budget(i, m)'
    <3>1. Covered(i, m) => Covered(i, m)'
      BY <1>2, <2>1 DEF Covered, Texted
    <3>2. Open(i, m)' => Open(i, m)
      BY <2>1, <3>1 DEF Open
    <3>3. CASE <<i, m>> \notin text'[d]
      <4>1. Carriers(i, m)' \subseteq Carriers(i, m)
        BY <1>2, <2>1, <3>3 DEF Carriers
      <4>2. QED
        BY <2>1, <2>2, <2>3, <3>2, <4>1, NothingAdded
    <3>4. CASE <<i, m>> \in text'[d]
      <4>1. Owned(i, marker[d]) /\ m = rows[i].message
        BY <1>2, <3>4
      <4>2. ~Covered(i, m)
        BY <2>1, <4>1 DEF Covered, Leases, MarkersDiffer, Texted, Owned
      <4>3. Open(i, m)
        BY <4>1, <4>2 DEF Open, Owned
      <4>4. d \in Prepaid \/ Covered(i, m)'
        BY <1>2, <2>1, <3>4, <4>1 DEF Prepaid, Covered, Owned, Texted
      <4>5. Open(i, m)' => d \in Prepaid
        BY <2>1, <4>1, <4>4 DEF Open, Owned
      <4>6. Carriers(i, m)' \subseteq Carriers(i, m) \cup {d}
        BY <1>2 DEF Carriers
      <4> DEFINE T == Times(delivered[i], m)
                 A == Cardinality(Carriers(i, m))
                 X == Cardinality(Prepaid)
      <4>7. T + 1 + A + X <= 1 + faults
        BY <4>3 DEF Paid, Budget, Chances
      <4>8. /\ T \in Nat /\ faults \in Nat
            /\ Carriers(i, m)' \subseteq Digests /\ Prepaid' \subseteq Digests
            /\ Carriers(i, m) \subseteq Digests /\ Prepaid \subseteq Digests
        BY BudgetTyped, BudgetTypedNext
      <4>9. A \in Nat /\ A' \in Nat /\ A' <= A + 1 /\ X \in Nat /\ X' \in Nat /\ X' <= X
            /\ (d \in Prepaid => X' + 1 <= X)
        BY <2>3, <4>6, <4>8, RunsCounted
      <4>10. T' = T /\ faults' = faults
        BY <2>1
      <4>11. T' + Chances(i, m)' + A' + X' <= 1 + faults'
        BY <4>5, <4>7, <4>8, <4>9, <4>10 DEF Chances
      <4>12. QED
        BY <4>11 DEF Budget
    <3>5. QED
      BY <3>3, <3>4
  <2>5. QED
    BY <2>2, <2>3, <2>4, PrepaidStays DEF Paid
<1>3. QED
  BY <1>1, <1>2, SelectMoves

\* A text that Feishu accepted is no longer carried, or its answer was lost.
LEMMA PostPaid ==
  ASSUME Typed, Typed', Leases, Paid, NEW d \in Digests, Post(d) \/ PostFails(d)
  PROVE  Paid'
<1>1. PICK p \in {"mark", "restore", "fallback"} : pc' = [pc EXCEPT ![d] = p]
  BY PostMoves
<1>2. /\ pc[d] \in {"send", "fallback"} /\ pc'[d] = p
      /\ \A e \in Digests \ {d} : pc'[e] = pc[e]
      /\ UNCHANGED <<rows, marker, text, expired>>
  BY <1>1, PostMoves DEF Typed, TypeOK
<1>3. faults' = faults + 1 \/ (Post(d) /\ p = "mark" /\ faults' = faults)
  <2>1. CASE Post(d)
    <3>1. \/ faults' = faults + 1
          \/ pc' = [pc EXCEPT ![d] = "mark"] /\ UNCHANGED faults
      BY <2>1, Zenon DEF Post, Fault
    <3>2. pc' = [pc EXCEPT ![d] = "mark"] => p = "mark"
      BY <1>2 DEF Typed, TypeOK
    <3>3. QED
      BY <2>1, <3>1, <3>2
  <2>2. CASE PostFails(d)
    BY <2>2 DEF PostFails, Fault
  <2>3. QED
    BY <2>1, <2>2
<1>4. faults' >= faults
  BY <1>3, DigestFaultsAssumption DEF Typed, TypeOK
<1>5. Prepaid' \subseteq Prepaid
  BY <1>2 DEF Prepaid
<1>6. ASSUME NEW i \in Ids, NEW m \in Messages PROVE Budget(i, m)'
  <2>1. Carriers(i, m)' \subseteq Carriers(i, m)
    BY <1>2 DEF Carriers
  <2>2. Covered(i, m)' <=> Covered(i, m)
    BY <1>2 DEF Covered, Texted
  <2>3. Open(i, m)' <=> Open(i, m)
    BY <1>2, <2>2 DEF Open
  <2>4. CASE delivered'[i] = delivered[i]
    BY <1>4, <1>5, <2>1, <2>3, <2>4, NothingAdded
  <2>5. ASSUME NEW a \in Messages, <<i, a>> \in text[d], Post(d),
               delivered'[i] = Append(delivered[i], a)
        PROVE  Budget(i, m)'
    <3> DEFINE T == Times(delivered[i], m)
               W == Chances(i, m)
               A == Cardinality(Carriers(i, m))
               X == Cardinality(Prepaid)
    <3>1. T + W + A + X <= 1 + faults
      BY DEF Paid, Budget
    <3>2. /\ T \in Nat /\ faults \in Nat /\ W \in {0, 1} /\ W' = W
          /\ Carriers(i, m)' \subseteq Digests /\ Prepaid' \subseteq Digests
          /\ Carriers(i, m) \subseteq Digests /\ Prepaid \subseteq Digests
      BY <2>3, BudgetTyped, BudgetTypedNext DEF Chances
    <3>3. a = m /\ p = "mark" => d \in Carriers(i, m) /\ Carriers(i, m)' \subseteq Carriers(i, m) \ {d}
      BY <1>2, <2>5 DEF Carriers
    <3>4. A \in Nat /\ A' \in Nat /\ A' <= A /\ X \in Nat /\ X' \in Nat /\ X' <= X
          /\ (a = m /\ p = "mark" => A' + 1 <= A)
      BY <1>5, <2>1, <3>2, <3>3, RunsCounted
    <3>5. T' = IF a = m THEN T + 1 ELSE T
      <4>1. delivered[i] \in Seq(Messages)
        BY DEF Typed, TypeOK
      <4>2. QED
        BY <2>5, <4>1, TimesCounted
    <3>6. T' + W' + A' + X' <= 1 + faults'
      BY <1>3, <3>1, <3>2, <3>4, <3>5
    <3>7. QED
      BY <3>6 DEF Budget
  <2>6. QED
    BY <2>4, <2>5, Said DEF PostFails
<1>7. QED
  BY <1>4, <1>5, <1>6, PrepaidStays DEF Paid

\* A final update: rows of the run that held the message are no longer carried by
\* it, the rows of others keep their cover.
LEMMA SettlePaid ==
  ASSUME Typed, Typed', Leases, Paid, NEW d \in Digests, MarkSent(d) \/ Restore(d)
  PROVE  Paid'
<1>1. /\ pc'[d] = "idle" /\ text'[d] = {}
      /\ \A e \in Digests \ {d} : pc'[e] = pc[e] /\ marker'[e] = marker[e] /\ text'[e] = text[e]
      /\ UNCHANGED <<expired, delivered, faults>>
      /\ pc[d] \in {"mark", "restore"} /\ marker[d] \in Markers
  BY Ended DEF MarkSent, Restore, Typed, RunsOK, RunOK
<1>2. faults' >= faults
  BY <1>1, DigestFaultsAssumption DEF Typed, TypeOK
<1>3. Prepaid' \subseteq Prepaid
  BY <1>1 DEF Prepaid
<1>4. ASSUME NEW i \in Ids, NEW m \in Messages PROVE Budget(i, m)'
  <2>1. Carriers(i, m)' \subseteq Carriers(i, m) \ {d}
    BY <1>1 DEF Carriers
  <2>2. CASE ~Owned(i, marker[d])
    <3>1. rows'[i] = rows[i]
      BY <2>2, SettleRows
    <3>2. rows[i].status = "sending" /\ Covered(i, m) => Covered(i, m)'
      BY <1>1, <2>2, <3>1 DEF Covered, Owned
    <3>3. Open(i, m)' => Open(i, m)
      BY <3>1, <3>2 DEF Open
    <3>4. QED
      BY <1>1, <1>2, <1>3, <2>1, <3>3, NothingAdded
  <2>3. CASE Owned(i, marker[d]) /\ pc[d] = "mark"
    <3>1. ~Open(i, m)'
      BY <2>3, SettleRows DEF Open
    <3>2. QED
      BY <1>1, <1>2, <1>3, <2>1, <3>1, NothingAdded
  <2>4. CASE Owned(i, marker[d]) /\ pc[d] = "restore" /\ <<i, m>> \notin text[d]
    <3>1. ~Covered(i, m)
      BY <1>1, <2>4 DEF Covered, Leases, MarkersDiffer, Owned
    <3>2. Open(i, m)' => Open(i, m)
      BY <2>4, <3>1, SettleRows DEF Open, Owned
    <3>3. QED
      BY <1>1, <1>2, <1>3, <2>1, <3>2, NothingAdded
  <2>5. CASE pc[d] = "restore" /\ <<i, m>> \in text[d]
    <3> DEFINE T == Times(delivered[i], m)
               W == Chances(i, m)
               A == Cardinality(Carriers(i, m))
               X == Cardinality(Prepaid)
    <3>1. T + W + A + X <= 1 + faults
      BY DEF Paid, Budget
    <3>2. /\ T \in Nat /\ faults \in Nat /\ W \in {0, 1} /\ W' \in {0, 1}
          /\ Carriers(i, m)' \subseteq Digests /\ Prepaid' \subseteq Digests
          /\ Carriers(i, m) \subseteq Digests /\ Prepaid \subseteq Digests
      BY BudgetTyped, BudgetTypedNext
    <3>3. d \in Carriers(i, m)
      BY <2>5 DEF Carriers
    <3>4. A \in Nat /\ A' \in Nat /\ A' + 1 <= A /\ X \in Nat /\ X' \in Nat /\ X' <= X
      BY <1>3, <2>1, <3>2, <3>3, RunsCounted
    <3>5. T' = T /\ faults' = faults
      BY <1>1
    <3>6. T' + W' + A' + X' <= 1 + faults'
      BY <3>1, <3>2, <3>4, <3>5
    <3>7. QED
      BY <3>6 DEF Budget
  <2>6. QED
    BY <1>1, <2>2, <2>3, <2>4, <2>5
<1>5. QED
  BY <1>2, <1>3, <1>4, PrepaidStays DEF Paid

\* The message a queue call writes has never been posted: one chance, for free.
LEMMA WritePaid ==
  ASSUME Typed, Typed', DrawnOnce, Paid, NEW c \in Convs, QueueWrite(c)
  PROVE  Paid'
<1>1. PICK r \in Ids :
        /\ \A i \in Ids \ {r} : rows'[i] = rows[i]
        /\ rows'[r].message = draft[c].message
  BY WriteRows
<1>2. UNCHANGED <<pc, marker, text, expired, delivered, faults>>
  BY DEF QueueWrite, runVars
<1>3. faults' >= faults /\ Prepaid' \subseteq Prepaid
  BY <1>2, DigestFaultsAssumption DEF Prepaid, Typed, TypeOK
<1>4. ASSUME NEW i \in Ids, NEW m \in Messages PROVE Budget(i, m)'
  <2>1. Carriers(i, m)' = Carriers(i, m)
    BY <1>2 DEF Carriers
  <2>2. CASE rows'[i] = rows[i]
    <3>1. Open(i, m)' => Open(i, m)
      BY <1>2, <2>2 DEF Open, Covered
    <3>2. QED
      BY <1>2, <1>3, <2>1, <3>1, NothingAdded
  <2>3. CASE i = r /\ m # draft[c].message
    <3>1. ~Open(i, m)'
      BY <1>1, <2>3 DEF Open
    <3>2. QED
      BY <1>2, <1>3, <2>1, <3>1, NothingAdded
  <2>4. CASE m = draft[c].message
    <3>1. ~Mentioned(m)
      BY <2>4 DEF QueueWrite, DrawnOnce
    <3>2. Carriers(i, m) = {} /\ {n \in DOMAIN delivered[i] : delivered[i][n] = m} = {}
      BY <3>1 DEF Mentioned, Carriers
    <3>3. Cardinality(Carriers(i, m)') = 0 /\ Times(delivered'[i], m) = 0
      BY <1>2, <2>1, <3>2, FS_EmptySet DEF Times
    <3>4. Cardinality(Prepaid') <= faults'
      BY <1>3, PrepaidStays
    <3>5. Chances(i, m)' \in {0, 1} /\ faults' \in Nat /\ Prepaid' \subseteq Digests
      BY BudgetTypedNext
    <3>6. Cardinality(Prepaid') \in Nat
      BY <3>5, DailyAssumption, RunsCounted
    <3>7. QED
      BY <3>3, <3>4, <3>5, <3>6 DEF Budget
  <2>5. QED
    BY <1>1, <2>2, <2>3, <2>4
<1>5. QED
  BY <1>3, <1>4, PrepaidStays DEF Paid

\* A lease that passes under a run at work: a fault, that pays for the row it may
\* open or for the text the run may still make.
LEMMA ExpirePaid ==
  ASSUME Typed, Typed', Leases, Paid, NEW k \in Markers, Expire(k)
  PROVE  Paid'
<1>1. UNCHANGED <<rows, pc, marker, text, delivered>> /\ expired' = expired \cup {k}
  BY DEF Expire, runVars
<1>2. CASE (\A d \in Digests : marker[d] # k) /\ UNCHANGED faults
  <2>1. faults' >= faults /\ Prepaid' \subseteq Prepaid
    BY <1>1, <1>2, DigestFaultsAssumption DEF Prepaid, Typed, TypeOK
  <2>2. ASSUME NEW i \in Ids, NEW m \in Messages PROVE Budget(i, m)'
    <3>1. Carriers(i, m)' \subseteq Carriers(i, m)
      BY <1>1 DEF Carriers
    <3>2. Open(i, m)' => Open(i, m)
      BY <1>1, <1>2 DEF Open, Covered
    <3>3. QED
      BY <1>1, <2>1, <3>1, <3>2, NothingAdded
  <2>3. QED
    BY <2>1, <2>2, PrepaidStays DEF Paid
<1>3. CASE (\E d \in Digests : marker[d] = k) /\ Fault
  <2>1. PICK d \in Digests : marker[d] = k
    BY <1>3
  <2>2. \A e \in Digests \ {d} : marker[e] # k
    BY <2>1 DEF Leases, MarkersDiffer
  <2>3. faults' = faults + 1 /\ faults \in Nat
    BY <1>3, DigestFaultsAssumption DEF Fault, Typed, TypeOK
  <2>4. Prepaid' \subseteq Prepaid \cup {d} /\ Prepaid \subseteq Digests /\ Prepaid' \subseteq Digests
    BY <1>1, <2>2 DEF Prepaid
  <2>5. /\ Cardinality(Prepaid) \in Nat /\ Cardinality(Prepaid') \in Nat
        /\ Cardinality(Prepaid') <= Cardinality(Prepaid) + 1
    BY <2>4, RunsCounted
  <2>6. Cardinality(Prepaid') <= faults'
    BY <2>3, <2>5 DEF Paid
  <2>7. ASSUME NEW i \in Ids, NEW m \in Messages PROVE Budget(i, m)'
    <3>1. Carriers(i, m)' \subseteq Carriers(i, m)
      BY <1>1 DEF Carriers
    <3>2. CASE pc[d] \in {"claim", "select"}
      <4>1. Covered(i, m) => Covered(i, m)'
        BY <1>1, <2>2, <3>2 DEF Covered, Texted
      <4>2. Open(i, m)' => Open(i, m)
        BY <1>1, <4>1 DEF Open
      <4> DEFINE T == Times(delivered[i], m)
                 W == Chances(i, m)
                 A == Cardinality(Carriers(i, m))
                 X == Cardinality(Prepaid)
      <4>3. T + W + A + X <= 1 + faults
        BY DEF Paid, Budget
      <4>4. /\ T \in Nat /\ W \in {0, 1} /\ W' \in {0, 1} /\ W' <= W
            /\ Carriers(i, m)' \subseteq Digests /\ Carriers(i, m) \subseteq Digests
        BY <4>2, BudgetTyped, BudgetTypedNext DEF Chances
      <4>5. A \in Nat /\ A' \in Nat /\ A' <= A
        BY <3>1, <4>4, DailyAssumption, RunsCounted
      <4>6. T' = T
        BY <1>1
      <4>7. T' + W' + A' + X' <= 1 + faults'
        BY <2>3, <2>5, <4>3, <4>4, <4>5, <4>6
      <4>8. QED
        BY <4>7 DEF Budget
    <3>3. CASE pc[d] \notin {"claim", "select"}
      <4>1. Prepaid' \subseteq Prepaid
        BY <1>1, <2>2, <3>3 DEF Prepaid
      <4>2. QED
        BY <1>1, <2>3, <3>1, <4>1, NothingAdded
    <3>4. QED
      BY <3>2, <3>3
  <2>8. QED
    BY <2>6, <2>7 DEF Paid
<1>4. QED
  BY <1>2, <1>3 DEF Expire

LEMMA OthersPaid ==
  ASSUME Typed, Typed', Paid,
         \/ \E c \in Convs : QueueRead(c) \/ QueueFail(c)
         \/ \E i \in Ids : Dismiss(i)
         \/ UNCHANGED vars
  PROVE  Paid'
<1>1. UNCHANGED <<pc, marker, text, expired, delivered>>
  BY DEF QueueRead, QueueFail, Dismiss, runVars, vars
<1>2. faults' >= faults
  <2>1. faults' = faults \/ faults' = faults + 1
    BY DEF QueueRead, QueueFail, Dismiss, vars, Fault
  <2>2. faults \in Nat
    BY DigestFaultsAssumption DEF Typed, TypeOK
  <2>3. QED
    BY <2>1, <2>2
<1>3. Prepaid' \subseteq Prepaid
  BY <1>1 DEF Prepaid
<1>4. ASSUME NEW i \in Ids, NEW m \in Messages PROVE Budget(i, m)'
  <2>1. Carriers(i, m)' \subseteq Carriers(i, m)
    BY <1>1 DEF Carriers
  <2>2. rows'[i] = rows[i] \/ rows'[i].status = "dismissed"
    BY DismissRows DEF QueueRead, QueueFail, vars
  <2>3. Open(i, m)' => Open(i, m)
    BY <1>1, <2>2 DEF Open, Covered
  <2>4. QED
    BY <1>1, <1>2, <1>3, <2>1, <2>3, NothingAdded
<1>5. QED
  BY <1>2, <1>3, <1>4, PrepaidStays DEF Paid

LEMMA StepPaid ==
  ASSUME Typed, Typed', Leases, DrawnOnce, Paid, [Next]_vars
  PROVE  Paid'
<1>1. ASSUME NEW d \in Digests, RunLost(d) PROVE Paid'
  BY <1>1, EndPaid DEF RunLost, Fault
<1>2. QED
  BY <1>1, OthersPaid, WritePaid, StartPaid, ClaimPaid, SelectPaid, PostPaid, SettlePaid,
     ExpirePaid DEF Next, Run

\* Without a fault a message is posted for its row at most once, and each fault (an
\* answer lost, a run lost, a lease that passes under a run) buys at most one more
\* post, for any number of digest runs at once and however often rows are recovered.
THEOREM RepostsTakeFaults == Spec => []RepostNeedsFault
<1> DEFINE Inv == IInv /\ DrawnOnce /\ Paid
<1>1. Init => Inv
  BY InitTyped, InitLeases, InitDrawnOnce, InitPaid DEF IInv
<1>2. Inv /\ [Next]_vars => Inv'
  BY StepTyped, StepLeases, StepDrawnOnce, StepPaid DEF IInv
<1>3. Inv => RepostNeedsFault
  <2> SUFFICES ASSUME Inv, NEW i \in Ids, NEW m \in Messages
               PROVE  Times(delivered[i], m) <= 1 + faults
    BY DEF RepostNeedsFault, Times
  <2>1. Times(delivered[i], m) + Chances(i, m) + Cardinality(Carriers(i, m)) + Cardinality(Prepaid)
          <= 1 + faults
    BY DEF Paid, Budget
  <2>2. /\ Times(delivered[i], m) \in Nat /\ Chances(i, m) \in {0, 1} /\ faults \in Nat
        /\ Cardinality(Carriers(i, m)) \in Nat /\ Cardinality(Prepaid) \in Nat
    BY BudgetTyped DEF IInv
  <2>3. QED
    BY <2>1, <2>2
<1>4. QED
  BY <1>1, <1>2, <1>3, PTL DEF Spec
=============================================================================
