--------------------------- MODULE MCActionLedger ---------------------------
(* Small instances of ActionLedger for TLC. *)
EXTENDS ActionLedger

CONSTANTS t1, t2, c1, c2, k1, k2, title, s1

\* Both ticket keys are of one sender.
OneSender == [k \in TicketKeys |-> s1]
\* One request from two conversations, a second request, and a ticket without a sender:
\* an action of its conversation like a draft, with more answers.
SomeIdentities == {<<c1, k1>>, <<c2, k1>>, <<c1, k2>>, <<c1, title>>}

OneRequest == {<<c1, k1>>}
=============================================================================
