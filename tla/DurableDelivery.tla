-------------------------- MODULE DurableDelivery --------------------------
(***************************************************************************)
(* What the webhook service promises of one accepted event, without        *)
(* leases, tasks, locks or time: it is tried at most MaxAttempts times, it *)
(* becomes "processed" only after its outcome is in the ledger of handled  *)
(* events, it is given up only after the last permitted try, and once      *)
(* settled it never changes again.  FrontWebhook implements this module.   *)
(***************************************************************************)
EXTENDS Naturals

CONSTANTS Events, MaxAttempts

VARIABLES
  phase,    \* event -> "unknown", "open", "processed" or "given_up"
  tries,    \* event -> tries started
  recorded  \* events whose outcome is in the ledger

vars == <<phase, tries, recorded>>

Init ==
  /\ phase = [e \in Events |-> "unknown"]
  /\ tries = [e \in Events |-> 0]
  /\ recorded = {}

Accept(e) ==
  /\ phase[e] = "unknown"
  /\ phase' = [phase EXCEPT ![e] = "open"]
  /\ UNCHANGED <<tries, recorded>>

Try(e) ==
  /\ phase[e] = "open"
  /\ tries[e] < MaxAttempts
  /\ tries' = [tries EXCEPT ![e] = @ + 1]
  /\ UNCHANGED <<phase, recorded>>

\* A try may still write the ledger after the event has been given up: a
\* worker that lost its lease finishes what it began.
Record(e) ==
  /\ tries[e] > 0
  /\ recorded' = recorded \cup {e}
  /\ UNCHANGED <<phase, tries>>

Settle(e) ==
  /\ phase[e] = "open"
  /\ \/ e \in recorded /\ phase' = [phase EXCEPT ![e] = "processed"]
     \/ tries[e] = MaxAttempts /\ phase' = [phase EXCEPT ![e] = "given_up"]
  /\ UNCHANGED <<tries, recorded>>

Next == \E e \in Events : Accept(e) \/ Try(e) \/ Record(e) \/ Settle(e)

Spec == Init /\ [][Next]_vars
=============================================================================
