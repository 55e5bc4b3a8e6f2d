------------------------------ MODULE Delivery ------------------------------
(***************************************************************************)
(* The Runtime's side of delivering what the character decided to say:     *)
(* attempts (runtime.py, action.py), their outbox rows (projections.py)    *)
(* and the handlers that move both (reducer.py), under the most general    *)
(* client: any worker may claim any row, report on any row it has seen, in *)
(* any order, twice or never.                                              *)
(*                                                                         *)
(* One action is one database transaction, which is what the store makes   *)
(* atomic (db_base.transaction: BEGIN IMMEDIATE, or an advisory lock).     *)
(* What the code does in several transactions is several actions: a user   *)
(* message is recorded in one, and the attempts it re-coordinates are      *)
(* listed and then closed or kept in one more each ("pass"); a row is      *)
(* failed by a terminal nack in one and its attempt closed in the next.    *)
(*                                                                         *)
(* Time is abstracted: "aged" says the attempt has stayed in its state     *)
(* longer than the window for that state (send_expiry_seconds before it is *)
(* sent, silence_after_hours after), "lapsed" that a lease is over.        *)
(***************************************************************************)
EXTENDS AttemptStates, Outbox

CONSTANTS NumAttempts,    \* attempts the character may ever commit
          NumRows,        \* outbox rows that may ever exist
          Owners,         \* lease owners: worker or adapter instances
          MaxClaims,      \* bound on claims of one row (requeue has no budget)
          SilenceCloses   \* config.legacy_user_model_enabled

ASSUME DeliveryAssumption ==
    /\ NumAttempts \in Nat \ {0}
    /\ NumRows \in Nat \ {0}
    /\ MaxClaims \in Nat \ {0}
    /\ SilenceCloses \in BOOLEAN
    /\ NoOwner \notin Owners

VARIABLES
    attempt,    \* attempt[a]: its state and whether its window is over
    outbox,     \* outbox[r]: one row of the delivery queue
    charged,    \* charged[a]: proactive_sent events and budget charges of a
    boundary,   \* an active boundary forbids proactive contact
    pass,       \* the message being ingested, and what of its call to
                \* reconcile_pending_attempts is left
    cleared,    \* a round of runtime_v2 was told that no boundary blocks it,
                \* and has not committed yet
    observed    \* attempts with an observation in the user model

vars == <<attempt, outbox, charged, boundary, pass, cleared, observed>>

Attempts == 1..NumAttempts      \* numbered in the order of created_at
Rows == 1..NumRows

MessageClass == {"ordinary", "boundary"}

ReconcileAction == {"merge", "rerender", "abort", "resolved"}

(* protocol.reconcile(): what one message may make of one attempt.         *)
Decisions(class) ==
    IF class = "boundary" THEN {"resolved", "abort"} ELSE ReconcileAction

(* "known" is history: the attempts there were when the message arrived.   *)
NoPass == [class |-> "none", listed |-> FALSE, todo |-> {}, known |-> {}]

NoAttempt == [state |-> "none", aged |-> FALSE]

AbsentRow == [NewRow("render", 1) EXCEPT !.status = "absent"]

AttemptRecord == [state : AttemptState \cup {"none"}, aged : BOOLEAN]

Row == [kind : OutboxKind, attempt : Attempts, status : OutboxStatus,
        owner : Owners \cup {NoOwner}, claims : Nat, lapsed : BOOLEAN]

Pass == [class : MessageClass \cup {"none"}, listed : BOOLEAN,
         todo : SUBSET Attempts, known : SUBSET Attempts]

TypeOK ==
    /\ attempt \in [Attempts -> AttemptRecord]
    /\ outbox \in [Rows -> Row]
    /\ charged \in [Attempts -> Nat]
    /\ boundary \in BOOLEAN
    /\ pass \in Pass
    /\ cleared \in BOOLEAN
    /\ observed \in SUBSET Attempts

Init ==
    /\ attempt = [a \in Attempts |-> NoAttempt]
    /\ outbox = [r \in Rows |-> AbsentRow]
    /\ charged = [a \in Attempts |-> 0]
    /\ boundary = FALSE
    /\ pass = NoPass
    /\ cleared = FALSE
    /\ observed = {}

-----------------------------------------------------------------------------
(* Attempts and rows.                                                      *)

InState(S) == {a \in Attempts : attempt[a].state \in S}

(* transition() stamps updated_at, so the next window starts afresh.       *)
MovedTo(a, s) == [attempt EXCEPT ![a].state = s, ![a].aged = FALSE]

(* The attempt is closed as undeliverable, if it is still there to close.  *)
Terminated(att, A) ==
    [a \in Attempts |->
        IF a \in A /\ att[a].state \in PRE_SEND_STATES
        THEN [att[a] EXCEPT !.state = UndeliverableState(@), !.aged = FALSE]
        ELSE att[a]]

(* The row the next INSERT creates.                                        *)
Fresh(r) == /\ outbox[r].status = "absent"
            /\ \A q \in Rows : q < r => outbox[q].status # "absent"

(* A report may name any row there is: one nobody leased, or one settled.  *)
Known(r) == outbox[r].status # "absent"

(* attempt.outbox_id: the row queued for the attempt last.                 *)
IsCurrentRow(r, a) ==
    /\ Known(r) /\ outbox[r].attempt = a
    /\ \A q \in Rows : Known(q) /\ outbox[q].attempt = a => q <= r

(* cancel() of the current row, then cancel_for_attempt().                 *)
Withdrawn(a) ==
    CancelledFor([r \in Rows |-> IF IsCurrentRow(r, a) THEN Cancelled(outbox[r])
                                                      ELSE outbox[r]], {a})

(* Runtime.write_session(): a lock held through a whole user message.      *)
SessionFree == pass.class = "none"

-----------------------------------------------------------------------------
(* The character decides to speak.                                         *)

(* _commit_attempt(), the part every commit shares: the attempt and its    *)
(* render row, in a transaction its caller opened.                         *)
CommitAttempt(a, r) ==
    /\ attempt[a].state = "none"
    /\ \A b \in Attempts : b < a => attempt[b].state # "none"
    /\ Fresh(r)
    /\ attempt' = MovedTo(a, "committed")
    /\ outbox' = [outbox EXCEPT ![r] = NewRow("render", a)]
    /\ UNCHANGED <<charged, boundary, pass, observed>>

(* run_endogenous() of runtime_v2 asks for the verdict while it assesses   *)
(* its candidates, with no session and no transaction ...                  *)
AskVerdict ==
    /\ ~boundary /\ ~cleared
    /\ cleared' = TRUE
    /\ UNCHANGED <<attempt, outbox, charged, boundary, pass, observed>>

(* Mutant: the commit does not wait for the write session.                 *)
CommitOutsideSession(a, r) ==
    /\ cleared
    /\ CommitAttempt(a, r)
    /\ cleared' = FALSE

(* Mutant: a verdict is good for any number of commits.                    *)
CommitKeepingVerdict(a, r) ==
    /\ SessionFree /\ cleared
    /\ CommitAttempt(a, r)
    /\ UNCHANGED cleared

(* ... and commits later, in a write session, without asking again         *)
(* (commit_candidate_with_snapshot).                                       *)
CommitDecided(a, r) ==
    /\ SessionFree /\ cleared
    /\ CommitAttempt(a, r)
    /\ cleared' = FALSE

(* Nothing is eligible, the draw says no, or the round fails.              *)
RoundGivesUp ==
    /\ cleared
    /\ cleared' = FALSE
    /\ UNCHANGED <<attempt, outbox, charged, boundary, pass, observed>>

(* A langchao round asks in the transaction it commits in, but takes no    *)
(* write session, so it may come between the transactions of a message     *)
(* (execute_in_transaction).                                               *)
CommitAtOnce(a, r) ==
    /\ ~boundary
    /\ CommitAttempt(a, r)
    /\ UNCHANGED cleared

-----------------------------------------------------------------------------
(* Queue operations a worker calls.  w = NoOwner is a caller that does not *)
(* say who it is and passes every owner check.                             *)

OwnerMatches(r, w) == w = NoOwner \/ outbox[r].owner = w

UpdateRow(r, x) == outbox' = [outbox EXCEPT ![r] = x]

(* claim() leases pending rows; a batch is several claims in a row.        *)
Claim(r, w) ==
    /\ outbox[r].status = "pending"
    /\ outbox[r].claims < MaxClaims
    /\ UpdateRow(r, Claimed(outbox[r], w))
    /\ UNCHANGED <<attempt, charged, boundary, pass, cleared, observed>>

LeasedTo(r, w) == outbox[r].status = "leased" /\ OwnerMatches(r, w)

Ack(r, w) ==
    /\ LeasedTo(r, w)
    /\ UpdateRow(r, Acked(outbox[r]))
    /\ UNCHANGED <<attempt, charged, boundary, pass, cleared, observed>>

(* nack_outbox(): what a terminal one does next is Sweep.                  *)
Nack(r, w, terminal) ==
    /\ LeasedTo(r, w)
    /\ UpdateRow(r, Nacked(outbox[r], terminal))
    /\ UNCHANGED <<attempt, charged, boundary, pass, cleared, observed>>

Requeue(r, w) ==
    /\ LeasedTo(r, w)
    /\ UpdateRow(r, Requeued(outbox[r]))
    /\ UNCHANGED <<attempt, charged, boundary, pass, cleared, observed>>

(* post_outbox_heartbeat(): the lease is checked first and extended in a   *)
(* second transaction, guarded by owner and counter but not by expiry.     *)
Extend(r) ==
    /\ outbox[r].status = "leased" /\ outbox[r].lapsed
    /\ UpdateRow(r, [outbox[r] EXCEPT !.lapsed = FALSE])
    /\ UNCHANGED <<attempt, charged, boundary, pass, cleared, observed>>

-----------------------------------------------------------------------------
(* Reports of the renderer and of the platform.                            *)

(* complete_render() with usable text: the attempt becomes ready and its   *)
(* send row is queued, unless the row or the attempt already carries an    *)
(* outcome, in which case a row that is still live leaves the queue.       *)
RenderUsable(r) ==
    LET a == outbox[r].attempt IN
    /\ Known(r) /\ outbox[r].kind = "render"
    /\ IF Live(outbox[r]) /\ attempt[a].state \in RenderableStates
       THEN \E q \in Rows :
                /\ Fresh(q)
                /\ attempt' = MovedTo(a, "ready_to_send")
                /\ outbox' = [outbox EXCEPT ![r] = Settled(@, "delivered"),
                                            ![q] = NewRow("send", a)]
       ELSE /\ UpdateRow(r, IF attempt[a].state = "proposed"
                            THEN Cancelled(outbox[r])
                            ELSE Settled(outbox[r], "delivered"))
            /\ UNCHANGED attempt
    /\ UNCHANGED <<charged, boundary, pass, cleared, observed>>

(* Mutant: a render nobody can use is queued once more.                    *)
RenderUnusableAgain(r) ==
    /\ Known(r) /\ outbox[r].kind = "render"
    /\ Live(outbox[r]) /\ attempt[outbox[r].attempt].state \in RenderableStates
    /\ \E q \in Rows :
        /\ Fresh(q)
        /\ outbox' = [outbox EXCEPT ![r] = Settled(@, "failed"),
                                    ![q] = NewRow("render", outbox[r].attempt)]
    /\ UNCHANGED <<attempt, charged, boundary, pass, cleared, observed>>

(* complete_render() with text that cannot be used: empty, an unverified   *)
(* completion claim, scope drift.                                          *)
RenderUnusable(r) ==
    LET a == outbox[r].attempt IN
    /\ Known(r) /\ outbox[r].kind = "render"
    /\ Live(outbox[r]) /\ attempt[a].state \in RenderableStates
    /\ attempt' = Terminated(attempt, {a})
    /\ outbox' = CancelledFor([outbox EXCEPT ![r] = Settled(@, "failed")], {a})
    /\ UNCHANGED <<charged, boundary, pass, cleared, observed>>

(* Mutant: only the reported row is withdrawn, and only if it is leased.   *)
ReportFailedRowOnly(r) ==
    /\ Known(r)
    /\ attempt' = Terminated(attempt, {outbox[r].attempt})
    /\ UpdateRow(r, Nacked(outbox[r], TRUE))
    /\ UNCHANGED <<charged, boundary, pass, cleared, observed>>

(* fail_render(), and mark_delivered(success=False): the row is failed if  *)
(* it is leased, and the attempt is closed whatever the row says.          *)
ReportFailed(r) ==
    LET a == outbox[r].attempt
        failed == [outbox EXCEPT ![r] = Nacked(@, TRUE)]
    IN
    /\ Known(r)
    /\ attempt' = Terminated(attempt, {a})
    /\ outbox' = IF attempt[a].state \in PRE_SEND_STATES
                 THEN CancelledFor(failed, {a})
                 ELSE failed
    /\ UNCHANGED <<charged, boundary, pass, cleared, observed>>

(* Mutant: only a leased row is settled, so one that lapsed is sent again. *)
MarkDeliveredByAck(r) ==
    LET a == outbox[r].attempt IN
    /\ Known(r)
    /\ attempt[a].state \in {"ready_to_send", "sent"} \cup TERMINAL_STATES
    /\ IF attempt[a].state = "ready_to_send"
       THEN /\ attempt' = MovedTo(a, "sent")
            /\ charged' = [charged EXCEPT ![a] = @ + 1]
       ELSE UNCHANGED <<attempt, charged>>
    /\ UpdateRow(r, Acked(outbox[r]))
    /\ UNCHANGED <<boundary, pass, cleared, observed>>

(* Mutant: a repeated report is charged again.                             *)
MarkDeliveredAgain(r) ==
    LET a == outbox[r].attempt IN
    /\ Known(r)
    /\ attempt[a].state \in {"ready_to_send", "sent"} /\ charged[a] < 2
    /\ attempt' = MovedTo(a, "sent")
    /\ charged' = [charged EXCEPT ![a] = @ + 1]
    /\ UpdateRow(r, Settled(outbox[r], "delivered"))
    /\ UNCHANGED <<boundary, pass, cleared, observed>>

(* mark_delivered(): the platform accepted the message.  A report for an   *)
(* attempt already sent is acknowledged and changes nothing else; one for  *)
(* a closed attempt only settles the row (late_report).  Nothing asks for  *)
(* the kind of the row: a report that names the render row of an attempt   *)
(* marks it sent all the same, and leaves its send row as it is.           *)
MarkDelivered(r) ==
    LET a == outbox[r].attempt IN
    /\ Known(r)
    /\ attempt[a].state \in {"ready_to_send", "sent"} \cup TERMINAL_STATES
    /\ IF attempt[a].state = "ready_to_send"
       THEN /\ attempt' = MovedTo(a, "sent")
            /\ charged' = [charged EXCEPT ![a] = @ + 1]
       ELSE UNCHANGED <<attempt, charged>>
    /\ UpdateRow(r, IF attempt[a].state \in {"sent", "resolved"}
                    THEN Acked(outbox[r])
                    ELSE Settled(outbox[r], "delivered"))
    /\ UNCHANGED <<boundary, pass, cleared, observed>>

-----------------------------------------------------------------------------
(* Maintenance.                                                            *)

(* close_settled_outbox_attempts(): an attempt one of whose rows failed    *)
(* can never be delivered.                                                 *)
WithFailedRow(rows) ==
    {a \in Attempts : attempt[a].state \in PRE_SEND_STATES /\ HasFailedRow(rows, a)}

(* Every terminal nack ends with it, in a transaction of its own and also  *)
(* when the nack itself was refused, so it can run at any moment; a crash  *)
(* between the two transactions is a step that never comes.                *)
Sweep ==
    /\ attempt' = Terminated(attempt, WithFailedRow(outbox))
    /\ outbox' = CancelledFor(outbox, WithFailedRow(outbox))
    /\ UNCHANGED <<charged, boundary, pass, cleared, observed>>

(* Mutant: an acknowledged row still counts as live.                       *)
OrphanedUnlessAcked(a, rows) ==
    /\ attempt[a].state \in PRE_SEND_STATES /\ attempt[a].aged
    /\ \A r \in Rows :
        rows[r].attempt = a => rows[r].status \notin {"pending", "leased", "delivered"}

(* _close_stalled_attempts(): an attempt no live row can deliver, once its *)
(* send window is over.                                                    *)
Orphaned(a, rows) ==
    attempt[a].state \in PRE_SEND_STATES /\ attempt[a].aged /\ ~HasLiveRow(rows, a)

(* Mutant: silence is not recorded while a boundary is active.             *)
UnansweredOutsideBoundary(a) ==
    /\ SilenceCloses /\ ~boundary
    /\ attempt[a].state = "sent" /\ attempt[a].aged /\ a \notin observed

(* _record_absent_replies(): a message nobody answered in time, and of     *)
(* which the user model has not learned anything yet.                      *)
Unanswered(a) ==
    /\ SilenceCloses
    /\ attempt[a].state = "sent" /\ attempt[a].aged /\ a \notin observed

(* observe(): the user model is there only if the legacy model is enabled. *)
Observed(A) == IF SilenceCloses THEN observed \cup A ELSE observed

(* lazy_tick() with maintenance: the three sweeps, in one transaction.     *)
Tick ==
    LET reclaimed == Reclaimed(outbox)
        failed    == WithFailedRow(reclaimed)
        swept     == CancelledFor(reclaimed, failed)
        orphans   == {a \in Attempts \ failed : Orphaned(a, swept)}
        silent    == {a \in Attempts : Unanswered(a)}
        closed    == Terminated(attempt, failed)
    IN
    /\ SessionFree
    /\ attempt' = [a \in Attempts |->
                     IF a \in orphans
                     THEN [attempt[a] EXCEPT !.state = StalledState(@), !.aged = FALSE]
                     ELSE IF a \in silent
                     THEN [attempt[a] EXCEPT !.state = "resolved", !.aged = FALSE]
                     ELSE closed[a]]
    /\ outbox' = CancelledFor(swept, silent)
    /\ observed' = Observed(silent)
    /\ UNCHANGED <<charged, boundary, pass, cleared>>

-----------------------------------------------------------------------------
(* The user speaks.                                                        *)

(* The reply closes the newest message that is out: _newest_sent_attempt().*)
NewestSent == {a \in InState({"sent"}) : \A b \in InState({"sent"}) : b <= a}

(* process_user_message(), its transaction: boundaries are declared or     *)
(* revoked (some only narrow the topics) and the reply is attributed.      *)
(* Re-coordination comes after it.                                         *)
Ingest(class) ==
    /\ SessionFree
    /\ boundary' \in IF class = "boundary" THEN BOOLEAN ELSE {boundary, FALSE}
    /\ \E answered \in {{}, NewestSent} :
        /\ attempt' = [a \in Attempts |->
                         IF a \in answered
                         THEN [attempt[a] EXCEPT !.state = "resolved", !.aged = FALSE]
                         ELSE attempt[a]]
        /\ outbox' = CancelledFor(outbox, answered)
        /\ observed' = Observed(answered)
    /\ pass' = [NoPass EXCEPT !.class = class, !.known = Attempts \ InState({"none"})]
    /\ UNCHANGED <<charged, cleared>>

(* A pass over no attempt ends where it starts.                            *)
PassOver(p, A) == IF A = {} THEN NoPass ELSE [p EXCEPT !.listed = TRUE, !.todo = A]

(* reconcile_pending_attempts() reads its list, after that transaction.    *)
ListPreSend ==
    /\ pass.class # "none" /\ ~pass.listed
    /\ pass' = PassOver(pass, InState(PRE_SEND_STATES))
    /\ UNCHANGED <<attempt, outbox, charged, boundary, cleared, observed>>

(* apply_reconcile_outcome(): where a decision takes an attempt in state s.*)
ReconcileTarget(s, d) ==
    CASE d \in {"merge", "rerender"}       -> s
      [] d = "resolved" /\ s = "sent"      -> "resolved"
      [] OTHER                             -> "aborted"

(* reconcile_attempt(): "merge" and "rerender" leave the attempt and its   *)
(* rows as they are (what they record on them is in V1Host); the others    *)
(* close it and withdraw its rows.  Closing what is aborted already is a   *)
(* no-op; closing what is otherwise history raises.                        *)
ReconcileAttempt(a, d) ==
    LET to == ReconcileTarget(attempt[a].state, d) IN
    /\ CanMove(attempt[a].state, to)
    /\ attempt' = IF to = attempt[a].state THEN attempt ELSE MovedTo(a, to)
    /\ outbox' = IF d \in {"abort", "resolved"} THEN Withdrawn(a) ELSE outbox

(* The pass goes through its list in the order the attempts were created.  *)
IsOldest(a, A) == a \in A /\ \A b \in A : a <= b

ReconcileNext(a, d) ==
    /\ IsOldest(a, pass.todo)
    /\ d \in Decisions(pass.class)
    /\ ReconcileAttempt(a, d)
    /\ pass' = PassOver(pass, pass.todo \ {a})
    /\ UNCHANGED <<charged, boundary, cleared, observed>>

CanTake(a, d) == CanMove(attempt[a].state, ReconcileTarget(attempt[a].state, d))

(* IllegalTransition leaves the loop: the attempts behind it keep their    *)
(* state, their rows and the text the message made stale.                  *)
ReconcileRaises ==
    /\ \E a \in Attempts, d \in Decisions(pass.class) :
           IsOldest(a, pass.todo) /\ ~CanTake(a, d)
    /\ pass' = NoPass
    /\ UNCHANGED <<attempt, outbox, charged, boundary, cleared, observed>>

(* POST /reconcile takes no write session.  With an attempt_id it is about *)
(* that attempt, in whatever state it is; without, it goes through a list  *)
(* of attempts in flight with a transaction for each, as the pass above    *)
(* does, which is a number of these steps: where it has got to makes no    *)
(* difference to anything but itself, nor does it end in anything more.    *)
PostReconcile(a, d) ==
    /\ attempt[a].state # "none"
    /\ ReconcileAttempt(a, d)
    /\ UNCHANGED <<charged, boundary, pass, cleared, observed>>

(* observe_reply(): the host reports the reaction to one message.  The     *)
(* observation is recorded whatever the attempt has come to, and closes it *)
(* only if it is out.                                                      *)
ObserveReply(a) ==
    /\ SessionFree /\ SilenceCloses
    /\ attempt[a].state # "none"
    /\ observed' = Observed({a})
    /\ IF attempt[a].state = "sent"
       THEN attempt' = MovedTo(a, "resolved") /\ outbox' = CancelledFor(outbox, {a})
       ELSE UNCHANGED <<attempt, outbox>>
    /\ UNCHANGED <<charged, boundary, pass, cleared>>

-----------------------------------------------------------------------------
(* The environment.                                                        *)

BoundaryLifts ==
    /\ boundary
    /\ boundary' = FALSE
    /\ UNCHANGED <<attempt, outbox, charged, pass, cleared, observed>>

Ages(a) ==
    /\ attempt[a].state \in IN_FLIGHT_STATES /\ ~attempt[a].aged
    /\ attempt' = [attempt EXCEPT ![a].aged = TRUE]
    /\ UNCHANGED <<outbox, charged, boundary, pass, cleared, observed>>

LeaseLapses(r) ==
    /\ outbox[r].status = "leased" /\ ~outbox[r].lapsed
    /\ UpdateRow(r, [outbox[r] EXCEPT !.lapsed = TRUE])
    /\ UNCHANGED <<attempt, charged, boundary, pass, cleared, observed>>

(* The process dies: the calls in progress are gone, the store is not.     *)
Crash ==
    /\ pass # NoPass
    /\ pass' = NoPass
    /\ cleared' = FALSE
    /\ UNCHANGED <<attempt, outbox, charged, boundary, observed>>

-----------------------------------------------------------------------------

Caller == Owners \cup {NoOwner}

Next ==
    \/ AskVerdict
    \/ \E a \in Attempts, r \in Rows : CommitDecided(a, r)
    \/ RoundGivesUp
    \/ \E a \in Attempts, r \in Rows : CommitAtOnce(a, r)
    \/ \E r \in Rows, w \in Owners : Claim(r, w)
    \/ \E r \in Rows, w \in Caller : Ack(r, w)
    \/ \E r \in Rows, w \in Caller, t \in BOOLEAN : Nack(r, w, t)
    \/ \E r \in Rows, w \in Caller : Requeue(r, w)
    \/ \E r \in Rows : Extend(r)
    \/ \E r \in Rows : RenderUsable(r)
    \/ \E r \in Rows : RenderUnusable(r)
    \/ \E r \in Rows : ReportFailed(r)
    \/ \E r \in Rows : MarkDelivered(r)
    \/ Sweep
    \/ Tick
    \/ \E c \in MessageClass : Ingest(c)
    \/ ListPreSend
    \/ \E a \in Attempts, d \in ReconcileAction : ReconcileNext(a, d)
    \/ ReconcileRaises
    \/ \E a \in Attempts, d \in ReconcileAction : PostReconcile(a, d)
    \/ \E a \in Attempts : ObserveReply(a)
    \/ BoundaryLifts
    \/ \E a \in Attempts : Ages(a)
    \/ \E r \in Rows : LeaseLapses(r)
    \/ Crash

Spec == Init /\ [][Next]_vars

(* What the request threads owe: every lease poll of an adapter and every  *)
(* message of the user ticks with maintenance before anything else, so     *)
(* ticks get their turn however often users speak; a message being         *)
(* ingested is ingested to the end; and time passes.                       *)
Fairness ==
    /\ SF_vars(Tick)
    /\ WF_vars(\/ ListPreSend
               \/ \E a \in Attempts, d \in ReconcileAction : ReconcileNext(a, d)
               \/ ReconcileRaises)
    /\ WF_vars(\E a \in Attempts : Ages(a))

LiveSpec == Spec /\ Fairness

-----------------------------------------------------------------------------
(* Properties.                                                             *)

(* A row that can still be worked on belongs to an attempt that still      *)
(* wants that work: a live render row to a committed attempt, a live send  *)
(* row to a rendered one.  Otherwise a worker could lease, and send, a     *)
(* message the Runtime has already given up or already counted.  It holds  *)
(* where reports name the row they are about (module V1Host).              *)
LiveRowServesItsAttempt ==
    \A r \in Rows : Live(outbox[r]) =>
        attempt[outbox[r].attempt].state =
            IF outbox[r].kind = "render" THEN "committed" ELSE "ready_to_send"

(* What is left of it whatever row a report names: no row is offered for   *)
(* rendering after it was rendered, and none at all once the attempt is    *)
(* closed, by whichever report, sweep, reply or re-coordination            *)
(* (cancel_for_attempt, _terminate_undeliverable_attempt and their         *)
(* callers).                                                               *)
RowsEndWithTheirAttempt ==
    \A r \in Rows : Live(outbox[r]) =>
        attempt[outbox[r].attempt].state \in
            IF outbox[r].kind = "render" THEN {"committed"} ELSE {"ready_to_send", "sent"}

(* A contact is charged to the day's budget, and written to the history,   *)
(* exactly once for every attempt whose message left and never for one     *)
(* that did not, whatever is reported again, late or in another order      *)
(* (mark_delivered, and every handler that closes an attempt).             *)
ContactAccounting ==
    \A a \in Attempts :
        charged[a] = IF attempt[a].state \in {"sent", "resolved"} THEN 1 ELSE 0

(* One intention is rendered by one row and sent by one row: a render that *)
(* is reported twice never queues a second message (complete_render).      *)
OneRowPerKind ==
    \A r, q \in Rows :
        /\ Known(r) /\ Known(q)
        /\ outbox[r].attempt = outbox[q].attempt /\ outbox[r].kind = outbox[q].kind
        => r = q

(* History is never rewritten: a closed attempt stays as it was closed and *)
(* a delivered one can only be resolved, by whichever report, sweep or     *)
(* message gets there (action.TRANSITIONS, and the handlers' guards).      *)
HistoryIsKept ==
    [][\A a \in Attempts :
        /\ attempt[a].state \in TERMINAL_STATES => attempt'[a].state = attempt[a].state
        /\ attempt[a].state = "sent" => attempt'[a].state \in {"sent", "resolved"}]_vars

(* When the re-coordination a boundary message starts runs to its end,     *)
(* nothing composed before the message can still be sent, and while the    *)
(* boundary stands nothing at all, although the pass is one transaction    *)
(* per attempt, with reports, sweeps and the commits of langchao in        *)
(* between (process_user_message, reconcile_pending_attempts).             *)
BoundaryClears ==
    [][/\ pass.class = "boundary"
       /\ \/ ListPreSend
          \/ \E a \in Attempts, d \in ReconcileAction : ReconcileNext(a, d)
       /\ pass' = NoPass
       => \A a \in Attempts : attempt'[a].state \in PRE_SEND_STATES =>
              a \notin pass.known /\ ~boundary]_vars

(* An attempt that failed, or that nothing in the queue can deliver any    *)
(* more, is closed in the end, even if the process died between failing    *)
(* its row and closing it: nothing stays in flight and blocks the          *)
(* scheduler for good (_close_stalled_attempts).                           *)
NothingHangs ==
    \A a \in Attempts :
        (attempt[a].state \in PRE_SEND_STATES
            /\ (HasFailedRow(outbox, a) \/ ~HasLiveRow(outbox, a)))
        ~> attempt[a].state \notin PRE_SEND_STATES

(* A message nobody answers, and of which nothing was reported before it   *)
(* went out, does not wait for an answer for ever (_record_absent_replies).*)
SilenceEnds ==
    SilenceCloses => \A a \in Attempts :
        (attempt[a].state = "sent" /\ a \notin observed) ~> (attempt[a].state = "resolved")

(* What reconcile_pending_attempts() says of itself: "Re-coordinate every  *)
(* in-flight attempt after new user events".  The attempt a pass reaches   *)
(* next can take whatever the message decides.                             *)
EveryAttemptIsReconciled ==
    \A a \in Attempts :
        IsOldest(a, pass.todo) => \A d \in Decisions(pass.class) : CanTake(a, d)
=============================================================================
