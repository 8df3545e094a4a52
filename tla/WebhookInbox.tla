---------------------------- MODULE WebhookInbox ----------------------------
(***************************************************************************)
(* The durable webhook inbox: table webhook_inbox and the statements of    *)
(* services/webhook_inbox.py that move its rows.  Each statement is one    *)
(* committed transaction, so each is one action here; the module that runs *)
(* them for concurrent tasks is FrontWebhook.                              *)
(*                                                                         *)
(* Time.  The code compares absolute timestamps with utcnow(); the model   *)
(* keeps what the comparisons read, the minutes still to go: wait is       *)
(* available_at - now and lease is lease_expires_at - now, both cut off at *)
(* 0, and Elapse lets one minute pass everywhere.  No clock has to be      *)
(* bounded.                                                                *)
(*                                                                         *)
(* Lease tokens.  uuid4() is fresh on every claim: the n-th successful     *)
(* claim of an event writes token n.                                       *)
(***************************************************************************)
EXTENDS Naturals

CONSTANTS
  Events,         \* event ids (Front's id, or the digest derive_event_id makes)
  MaxAttempts,    \* MAX_ATTEMPTS (6)
  RetryDelay,     \* RETRY_DELAYS_MINUTES, indexed by the attempt that failed
  LeaseDuration   \* LEASE_DURATION in minutes (15)

ASSUME MaxAttemptsAssumption == MaxAttempts \in Nat \ {0}
ASSUME RetryDelayAssumption == RetryDelay \in [1..MaxAttempts - 1 -> Nat]
ASSUME LeaseDurationAssumption == LeaseDuration \in Nat \ {0}

VARIABLES
  inbox,   \* event id -> its row
  claims   \* history: event id -> how many claims of it have succeeded

inboxVars == <<inbox, claims>>

-----------------------------------------------------------------------------
(* Rows *)

NoToken == 0
Tokens == 1..MaxAttempts

Status == {"absent", "pending", "processing", "retry", "processed", "dead_letter"}

Row == [status: Status, attempts: 0..MaxAttempts, wait: Nat,
        token: Tokens \cup {NoToken}, lease: Nat, payload: BOOLEAN]

Absent == [status |-> "absent", attempts |-> 0, wait |-> 0,
           token |-> NoToken, lease |-> 0, payload |-> FALSE]

NewRow == [Absent EXCEPT !.status = "pending", !.payload = TRUE]

Stored(e) == inbox[e].status # "absent"
Settled(e) == inbox[e].status \in {"processed", "dead_letter"}

-----------------------------------------------------------------------------
(* The conditions of the conditional updates *)

ExpiredLease(r) == r.status = "processing" /\ r.token # NoToken /\ r.lease = 0

\* Mutants of Claimable, ExhaustedExpiredLease and Owned: the attempt limit
\* forgotten, an off-by-one in it, and the token left out of the comparison.
ClaimableForEver(r) ==
  \/ r.status \in {"pending", "retry"} /\ r.wait = 0
  \/ ExpiredLease(r)
ExhaustedOffByOne(r) == r.attempts > MaxAttempts /\ ExpiredLease(r)
OwnedByAnyToken(r, token) == r.status = "processing"

Claimable(r) ==
  /\ r.attempts < MaxAttempts
  /\ \/ r.status \in {"pending", "retry"} /\ r.wait = 0
     \/ ExpiredLease(r)

ExhaustedExpiredLease(r) == r.attempts >= MaxAttempts /\ ExpiredLease(r)

Due(r) == Claimable(r) \/ ExhaustedExpiredLease(r)

Owned(r, token) == r.status = "processing" /\ r.token = token

-----------------------------------------------------------------------------
(* The rows the updates write *)

ClaimedRow(r, token) ==
  [r EXCEPT !.status = "processing", !.attempts = @ + 1,
            !.token = token, !.lease = LeaseDuration]

AbandonedRow(r) ==
  [r EXCEPT !.status = "dead_letter", !.token = NoToken, !.lease = 0]

ProcessedRow(r) ==
  [r EXCEPT !.status = "processed", !.token = NoToken, !.lease = 0,
            !.payload = FALSE]

RetryRow(r, attempts) ==
  [r EXCEPT !.status = "retry", !.token = NoToken, !.lease = 0,
            !.wait = RetryDelay[attempts]]

\* Mutants of FailedRow: the last permitted attempt not used, and the status not
\* written.
FailedRowTooEarly(r, attempts) ==
  IF attempts < MaxAttempts - 1 THEN RetryRow(r, attempts) ELSE AbandonedRow(r)
FailedRowStillProcessing(r, attempts) == [r EXCEPT !.token = NoToken, !.lease = 0]

\* The values fail_webhook writes, computed from the attempts it read before.
FailedRow(r, attempts) ==
  IF attempts < MaxAttempts THEN RetryRow(r, attempts) ELSE AbandonedRow(r)

-----------------------------------------------------------------------------
(* The operations *)

\* INSERT .. ON CONFLICT(event_id) DO NOTHING.
Enqueue(e) ==
  /\ inbox' = [inbox EXCEPT ![e] = IF Stored(e) THEN @ ELSE NewRow]
  /\ UNCHANGED claims

\* claim_webhook, the update that takes the row.
Claim(e) ==
  /\ Claimable(inbox[e])
  /\ inbox' = [inbox EXCEPT ![e] = ClaimedRow(@, claims[e] + 1)]
  /\ claims' = [claims EXCEPT ![e] = @ + 1]

\* claim_webhook on a row whose last permitted attempt was abandoned.
Abandon(e) ==
  /\ ExhaustedExpiredLease(inbox[e])
  /\ inbox' = [inbox EXCEPT ![e] = AbandonedRow(@)]
  /\ UNCHANGED claims

\* complete_webhook; the update matches no row when the lease was lost.
Complete(e, token) ==
  /\ inbox' = [inbox EXCEPT ![e] = IF Owned(@, token) THEN ProcessedRow(@) ELSE @]
  /\ UNCHANGED claims

\* fail_webhook, its update; attempts is what its select returned earlier.
Fail(e, token, attempts) ==
  /\ inbox' = [inbox EXCEPT ![e] =
                 IF Owned(@, token) THEN FailedRow(@, attempts) ELSE @]
  /\ UNCHANGED claims

\* One minute passes.
Minus1(n) == IF n = 0 THEN 0 ELSE n - 1

Elapse ==
  /\ \E e \in Events : inbox[e].wait > 0 \/ inbox[e].lease > 0
  /\ inbox' = [e \in Events |-> [inbox[e] EXCEPT !.wait = Minus1(@),
                                                 !.lease = Minus1(@)]]
  /\ UNCHANGED claims

InboxInit ==
  /\ inbox = [e \in Events |-> Absent]
  /\ claims = [e \in Events |-> 0]
=============================================================================
