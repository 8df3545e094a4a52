--------------------------- MODULE MCFrontWebhook ---------------------------
(* Small instances of FrontWebhook for TLC. *)
EXTENDS FrontWebhook, TLC

CONSTANTS e1, e2, c1, p1, p2, w1, w2, r1

OneConv == [e \in Events |-> c1]

\* Two attempts, a one-minute delay between them.
ShortDelay == [n \in 1..MaxAttempts - 1 |-> 1]

OneProc == [w \in Workers |-> p1]

\* w1 in the old process, everything else in the new one.
Overlap == [w \in Workers |-> IF w = w1 THEN p1 ELSE p2]

Requests == Permutations(Workers \ Retriers)
EventsAndRequests == Permutations(Events) \cup Requests
=============================================================================
