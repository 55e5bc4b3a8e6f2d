------------------------------- MODULE Outbox -------------------------------
(***************************************************************************)
(* The delivery queue of companion_runtime/projections.py                  *)
(* (OutboxProjection): rows that are claimed under a lease, acknowledged,  *)
(* returned, failed or cancelled.  Every operator below is the effect of   *)
(* one UPDATE statement on one row, and is the identity on the rows the    *)
(* statement's WHERE clause does not select.                               *)
(*                                                                         *)
(* Time is abstracted: "lapsed" says that lease_expires_at has passed.     *)
(* available_at is left out; a claim may come at any later moment anyway,  *)
(* and the shipped pacing (outbox.retry_backoff_seconds = 0) makes a       *)
(* returned row claimable at once.                                         *)
(***************************************************************************)
EXTENDS Naturals

CONSTANTS MaxAttempts,      \* config.outbox.max_attempts
          NoOwner           \* lease_owner IS NULL

ASSUME MaxAttemptsAssumption == MaxAttempts \in Nat \ {0}

OutboxKind == {"render", "send"}

OutboxStatus == {"absent", "pending", "leased", "delivered", "failed", "cancelled"}

NewRow(kind, a) ==
    [kind |-> kind, attempt |-> a, status |-> "pending",
     owner |-> NoOwner, claims |-> 0, lapsed |-> FALSE]

Live(x) == x.status \in {"pending", "leased"}

(* The row leaves its lease for status s.                                  *)
Released(x, s) == [x EXCEPT !.status = s, !.owner = NoOwner, !.lapsed = FALSE]

(* Mutant: off by one at the end of the budget.                            *)
RetryStatusBeyondBudget(x) == IF x.claims > MaxAttempts THEN "failed" ELSE "pending"

(* A failed claim goes back to the queue while the claim counter is below  *)
(* max_attempts, and fails the row once it is not.                         *)
RetryStatus(x) == IF x.claims >= MaxAttempts THEN "failed" ELSE "pending"

Claimed(x, w) ==
    [x EXCEPT !.status = "leased", !.owner = w, !.claims = @ + 1, !.lapsed = FALSE]

Settled(x, s) == IF Live(x) THEN Released(x, s) ELSE x

Acked(x) == IF x.status = "leased" THEN Released(x, "delivered") ELSE x

Nacked(x, terminal) ==
    IF x.status = "leased"
    THEN Released(x, IF terminal THEN "failed" ELSE RetryStatus(x))
    ELSE x

(* The claim could not be used at all: back to the queue, no budget rule.  *)
Requeued(x) == IF x.status = "leased" THEN Released(x, "pending") ELSE x

Cancelled(x) == IF Live(x) THEN Released(x, "cancelled") ELSE x

(* cancel_for_attempt() leaves the lease columns as they were.             *)
CancelledFor(rows, A) ==
    [r \in DOMAIN rows |->
        IF Live(rows[r]) /\ rows[r].attempt \in A
        THEN [rows[r] EXCEPT !.status = "cancelled"]
        ELSE rows[r]]

(* Mutant: only leases nobody owns are reclaimed.                          *)
ReclaimedUnowned(rows) ==
    [r \in DOMAIN rows |->
        IF rows[r].status = "leased" /\ rows[r].lapsed /\ rows[r].owner = NoOwner
        THEN Released(rows[r], RetryStatus(rows[r]))
        ELSE rows[r]]

Reclaimed(rows) ==
    [r \in DOMAIN rows |->
        IF rows[r].status = "leased" /\ rows[r].lapsed
        THEN Released(rows[r], RetryStatus(rows[r]))
        ELSE rows[r]]

(* has_live_row_for_attempt(), failed_for_live_attempts()                  *)
HasLiveRow(rows, a) == \E r \in DOMAIN rows : Live(rows[r]) /\ rows[r].attempt = a

HasFailedRow(rows, a) ==
    \E r \in DOMAIN rows : rows[r].status = "failed" /\ rows[r].attempt = a
=============================================================================
