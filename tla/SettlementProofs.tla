-------------------------- MODULE SettlementProofs --------------------------
(***************************************************************************)
(* Module Settlement for every value of its constants: any number of       *)
(* attempts, rows and adapters, any order, loss and repetition of reports, *)
(* hooks that fail and restarts.                                           *)
(*                                                                         *)
(* The queue's part is proved already: a step of the rounds is a step of   *)
(* V1Host, so that its invariant HostInv carries over.  What the books add *)
(* is one fact per attempt (BookOf).  Its core is that the copy of the     *)
(* audit in memory, which survives a rollback, holds one outcome at most   *)
(* and only of a message that was rendered: so the next hook can continue  *)
(* from it, and what it writes names the acknowledgement it books.         *)
(***************************************************************************)
EXTENDS Settlement, V1HostProofs

-----------------------------------------------------------------------------
(* The invariant.                                                          *)

(* Not rendered yet.                                                       *)
Early == {"none", "proposed", "committed", "rendering"}

(* Given up.                                                               *)
Closed == TERMINAL_STATES \ {"resolved"}

Outcomes == {"send_ack", "send_fail"}

(* A row that failed leaves no attempt in flight behind: under protocol v1 *)
(* no transaction fails a row without closing its attempt.                 *)
FailedRowsAreClosed ==
    \A r \in Rows : outbox[r].status = "failed" => attempt[outbox[r].attempt].state \in Closed

(* The audit of a round of runtime_v2, on record and in memory.            *)
AuditOf(a) ==
    /\ "committed" \in audit[a] /\ audit[a] \subseteq Loaded(a)
    /\ ("send_ack" \in audit[a]) <=> (ack[a].kind = "sent")
    /\ ("send_fail" \in audit[a]) <=> (ack[a].kind = "failed")
    /\ ~(Outcomes \subseteq Loaded(a))
    /\ Loaded(a) \cap Outcomes # {} => attempt[a].state \notin Early

BookOf(a) ==
    /\ engine[a] = "none" <=> attempt[a].state = "none"
    /\ engine[a] = "none" => ack[a] = NoAck
    /\ ack[a].kind = "none" => ack[a] = NoAck
    /\ engine[a] # "runtime_v2" => audit[a] = {} /\ recorder[a] = {}
    /\ engine[a] = "runtime_v2" => AuditOf(a)
    /\ ack[a].kind = "failed" => attempt[a].state \in Closed
    /\ charged[a] > 0 => ack[a].kind = "sent"
    /\ ack[a].kind = "sent" => ack[a].row \in exposures

RoundInv ==
    /\ HostInv /\ BooksTypeOK
    /\ FailedRowsAreClosed
    /\ \A r \in exposures : Known(r)
    /\ \A a \in Attempts : BookOf(a)

-----------------------------------------------------------------------------
(* The queue's part of a step.                                             *)

(* Hooks and restarts add nothing the hosts' protocol does not allow.      *)
LEMMA RoundTranslates ==
    ASSUME BooksTypeOK, [RoundNext]_roundvars
    PROVE  [V1Next]_v1vars
  <1>1. ASSUME NEW a \in Attempts, NEW r \in Rows, NEW e \in Engine, CommitRound(a, r, e)
        PROVE  V1Next
    BY <1>1 DEF CommitRound, V1Next, RuntimeStep
  <1>2. ASSUME NEW r \in Rows, NEW n \in Claims, Applied(r, n) PROVE V1Next
    BY <1>2 DEF Applied, V1Next, Report
  <1>3. ASSUME NEW r \in Rows, NEW n \in Claims, HookFails(r, n) PROVE UNCHANGED v1vars
    BY <1>3 DEF HookFails
  <1>4. CASE Restart
    <2>1. pass \in Pass
      BY DEF BooksTypeOK, V1TypeOK, TypeOK
    <2>2. CASE pass # NoPass
      BY <1>4, <2>2 DEF Restart, V1Next, RuntimeStep, Crash, Quiet
    <2>3. CASE pass = NoPass
      <3>1. pass' = pass /\ cleared \in BOOLEAN
        BY <1>4, <2>1, <2>3 DEF Restart, BooksTypeOK, V1TypeOK, TypeOK
      <3>2. CASE cleared
        BY <1>4, <3>1, <3>2 DEF Restart, V1Next, RuntimeStep, RoundGivesUp, Quiet
      <3>3. CASE ~cleared
        BY <1>4, <3>1, <3>3 DEF Restart, v1vars, vars
      <3>4. QED
        BY <3>2, <3>3
    <2>4. QED
      BY <2>2, <2>3
  <1>5. CASE Elsewhere
    BY <1>5 DEF Elsewhere, V1Next, RuntimeStep, Recoordinate, Lease, HostStep
  <1>6. CASE UNCHANGED roundvars
    BY <1>6 DEF roundvars
  <1>7. QED
    BY <1>1, <1>2, <1>3, <1>4, <1>5, <1>6 DEF RoundNext

LEMMA CancelledStaysFailed ==
    ASSUME NEW rows \in [Rows -> Row], NEW A, NEW r \in Rows,
           CancelledFor(rows, A)[r].status = "failed"
    PROVE  rows[r].status = "failed" /\ CancelledFor(rows, A)[r].attempt = rows[r].attempt
  <1>1. Fades(rows[r], CancelledFor(rows, A)[r])
    BY QueueFates
  <1>2. QED
    BY <1>1 DEF Fades, Continues

(* A tick that fails the row of a lapsed lease closes the attempt with it. *)
LEMMA TickCloses ==
    ASSUME TypeOK, LiveRowServesItsAttempt, Tick, NEW r \in Rows,
           outbox'[r].status = "failed", outbox[r].status # "failed"
    PROVE  attempt'[outbox'[r].attempt].state \in Closed
  <1> USE DEF TypeOK
  <1> DEFINE reclaimed == Reclaimed(outbox)
             failed == WithFailedRow(reclaimed)
             swept == CancelledFor(reclaimed, failed)
             silent == {a \in Attempts : Unanswered(a)}
             orphans == {a \in Attempts \ failed : Orphaned(a, swept)}
             closed == Terminated(attempt, failed)
             a == outbox[r].attempt
  <1>1. reclaimed \in [Rows -> Row] /\ swept \in [Rows -> Row]
    BY QueueTypes
  <1>2. outbox' = CancelledFor(swept, silent)
    BY DEF Tick
  <1>3. swept[r].status = "failed" /\ outbox'[r].attempt = swept[r].attempt
    BY <1>1, <1>2, CancelledStaysFailed
  <1>4. reclaimed[r].status = "failed" /\ swept[r].attempt = reclaimed[r].attempt
    BY <1>1, <1>3, CancelledStaysFailed
  <1>5. outbox[r].status = "leased" /\ reclaimed[r].attempt = a /\ a \in Attempts
    <2>1. \/ Fades(outbox[r], reclaimed[r])
          \/ Continues(outbox[r], reclaimed[r]) /\ outbox[r].status = "leased"
      BY ReclaimedFate
    <2>2. QED
      BY <2>1, <1>4 DEF Fades, Continues, Row
  <1>6. attempt[a].state \in {"committed", "ready_to_send"}
    BY <1>5 DEF LiveRowServesItsAttempt, Live
  <1>7. a \in failed
    <2>1. r \in DOMAIN reclaimed
      BY <1>1
    <2>2. QED
      BY <1>4, <1>5, <1>6, <2>1 DEF WithFailedRow, HasFailedRow, PRE_SEND_STATES
  <1>8. closed[a].state \in Closed
    BY <1>5, <1>6, <1>7, TerminatedMovesOn DEF Closed, PRE_SEND_STATES
  <1>9. a \notin orphans /\ a \notin silent
    BY <1>6, <1>7 DEF Unanswered
  <1>10. attempt'[a] = closed[a]
    <2>1. attempt' = [b \in Attempts |->
                        IF b \in orphans
                        THEN [attempt[b] EXCEPT !.state = StalledState(@), !.aged = FALSE]
                        ELSE IF b \in silent
                        THEN [attempt[b] EXCEPT !.state = "resolved", !.aged = FALSE]
                        ELSE closed[b]]
      BY DEF Tick
    <2> HIDE DEF orphans, silent, closed
    <2>2. QED
      BY <1>5, <1>9, <2>1
  <1>11. QED
    BY <1>3, <1>4, <1>5, <1>8, <1>10

(* So does a report.                                                       *)
LEMMA ReportCloses ==
    ASSUME V1TypeOK, LiveRowServesItsAttempt, NEW q \in Rows, NEW n \in Claims,
           Report(q, n), NEW r \in Rows,
           outbox'[r].status = "failed", outbox[r].status # "failed"
    PROVE  attempt'[outbox'[r].attempt].state \in Closed
  <1> USE DEF V1TypeOK, TypeOK
  <1> DEFINE a == outbox[q].attempt
  <1>0. outbox[q] \in Row /\ outbox[r] \in Row /\ a \in Attempts
    BY DEF Row
  <1>1. CASE ReportText(q, n)
    <2>1. \A s : Released(outbox[q], s).status = s
      BY <1>0 DEF Released, Row
    <2>2. \A b : NewRow("send", b).status = "pending"
      BY DEF NewRow
    <2>3. RenderUsable(q)
      BY <1>1 DEF ReportText
    <2>4. QED
      BY <1>0, <2>1, <2>2, <2>3 DEF RenderUsable, UpdateRow, Settled, Cancelled
  <1>2. CASE ReportUnusable(q, n)
    <2> DEFINE x == [outbox EXCEPT ![q] = Settled(@, "failed")]
    <2>1. /\ attempt' = Terminated(attempt, {a}) /\ outbox' = CancelledFor(x, {a})
          /\ attempt[a].state \in PRE_SEND_STATES
      BY <1>2 DEF ReportUnusable, RenderUnusable, RenderableStates, PRE_SEND_STATES
    <2>2. x \in [Rows -> Row]
      BY RowTypes DEF OutboxStatus
    <2>3. x[r].status = "failed" /\ outbox'[r].attempt = x[r].attempt
      BY <2>1, <2>2, CancelledStaysFailed
    <2>4. r = q
      BY <2>3
    <2>5. Settled(outbox[q], "failed").attempt = a
      BY <1>0, RowFates DEF Fades, Continues
    <2>6. x[q].attempt = a
      BY <2>5
    <2>7. attempt'[a].state \in Closed
      BY <1>0, <2>1, TerminatedMovesOn DEF Closed
    <2> HIDE DEF x, a
    <2>8. QED
      BY <2>3, <2>4, <2>6, <2>7
  <1>3. CASE ReportRefused(q, n)
    <2> DEFINE x == [outbox EXCEPT ![q] = Nacked(@, TRUE)]
    <2>1. /\ attempt' = Terminated(attempt, {a})
          /\ outbox' \in {CancelledFor(x, {a}), x}
      BY <1>3 DEF ReportRefused, ReportFailed
    <2>2. x \in [Rows -> Row]
      BY RowTypes
    <2>3. x[r].status = "failed" /\ outbox'[r].attempt = x[r].attempt
      <3>1. CASE outbox' = x
        BY <3>1
      <3>2. CASE outbox' = CancelledFor(x, {a})
        <4> HIDE DEF x
        <4>1. QED
          BY <2>2, <3>2, CancelledStaysFailed
      <3>3. QED
        BY <2>1, <3>1, <3>2
    <2>4. r = q
      BY <2>3
    <2>5. Nacked(outbox[q], TRUE).attempt = a
      BY <1>0, RowFates DEF Fades, Continues
    <2>6. x[q].attempt = a
      BY <2>5
    <2>7. outbox[q].status = "leased"
      BY <2>3, <2>4 DEF Nacked
    <2>8. attempt[a].state \in PRE_SEND_STATES
      BY <2>7 DEF LiveRowServesItsAttempt, Live, PRE_SEND_STATES
    <2>9. attempt'[a].state \in Closed
      BY <1>0, <2>1, <2>8, TerminatedMovesOn DEF Closed
    <2> HIDE DEF x, a
    <2>10. QED
      BY <2>3, <2>4, <2>6, <2>9
  <1>4. CASE ReportSent(q, n)
    <2>1. \A s : Released(outbox[q], s).status = s
      BY <1>0 DEF Released, Row
    <2>2. QED
      BY <1>0, <1>4, <2>1 DEF ReportSent, MarkDelivered, UpdateRow, Acked, Settled
  <1>5. CASE ReportOutage(q, n)
    <2>1. \A s : Released(outbox[q], s).status = s
      BY <1>0 DEF Released, Row
    <2>2. outbox[q].claims \in Nat /\ MaxAttempts \in Nat
      BY <1>0, MaxAttemptsAssumption DEF Row
    <2>3. PICK x \in {Nacked(outbox[q], FALSE), Requeued(outbox[q])} :
             /\ outbox' = [outbox EXCEPT ![q] = x]
             /\ x = Nacked(outbox[q], FALSE) => outbox[q].claims < MaxAttempts
      <3>1. CASE outbox[q].claims < MaxAttempts
        BY <1>5, <3>1 DEF ReportOutage, GiveBack, Nack, UpdateRow
      <3>2. CASE ~(outbox[q].claims < MaxAttempts)
        <4>1. outbox' = [outbox EXCEPT ![q] = Requeued(outbox[q])]
                 /\ outbox[q].status = "leased"
          BY <1>5, <3>2 DEF ReportOutage, GiveBack, Requeue, UpdateRow, LeasedTo
        <4>2. Nacked(outbox[q], FALSE).status = "failed"
          BY <2>1, <2>2, <3>2, <4>1 DEF Nacked, RetryStatus
        <4>3. Requeued(outbox[q]).status = "pending"
          BY <2>1, <4>1 DEF Requeued
        <4>4. QED
          BY <4>1, <4>2, <4>3
      <3>3. QED
        BY <3>1, <3>2
    <2>4. x.status \in {"pending", outbox[q].status}
      BY <2>1, <2>2, <2>3 DEF Nacked, Requeued, RetryStatus
    <2>5. QED
      BY <2>3, <2>4
  <1>6. QED
    BY <1>1, <1>2, <1>3, <1>4, <1>5 DEF Report

LEMMA FailedRowsStep ==
    ASSUME HostInv, FailedRowsAreClosed, [V1Next]_v1vars
    PROVE  FailedRowsAreClosed'
  <1> USE DEF HostInv, DeliveryInv, V1TypeOK, TypeOK
  <1> SUFFICES ASSUME NEW r \in Rows, outbox'[r].status = "failed"
               PROVE  attempt'[outbox'[r].attempt].state \in Closed
    BY DEF FailedRowsAreClosed
  <1>0. outbox[r] \in Row /\ outbox[r].attempt \in Attempts
    BY DEF Row
  <1>1. CASE UNCHANGED v1vars
    BY <1>1 DEF v1vars, vars, FailedRowsAreClosed
  <1>2. CASE V1Next /\ outbox[r].status = "failed"
    <2>1. outbox'[r].attempt = outbox[r].attempt
      BY <1>2, RowLasts DEF Known
    <2>2. attempt[outbox[r].attempt].state \in Closed
      BY <1>2 DEF FailedRowsAreClosed
    <2>3. Next \/ UNCHANGED vars
      BY <1>2, StepTranslates
    <2>4. attempt'[outbox[r].attempt].state = attempt[outbox[r].attempt].state
      <3>1. CASE UNCHANGED vars
        BY <3>1 DEF vars
      <3>2. CASE Next
        BY <1>0, <2>2, <3>2, AttemptStep
           DEF Closed, TERMINAL_STATES, MovesOn, PRE_SEND_STATES
      <3>3. QED
        BY <2>3, <3>1, <3>2
    <2>5. QED
      BY <2>1, <2>2, <2>4
  <1>3. ASSUME V1Next, outbox[r].status # "failed"
        PROVE  attempt'[outbox'[r].attempt].state \in Closed
    <2>1. CASE Tick
      BY <1>3, <2>1, TickCloses
    <2>2. ASSUME NEW q \in Rows, NEW n \in Claims, Report(q, n)
          PROVE  attempt'[outbox'[r].attempt].state \in Closed
      BY <1>3, <2>2, ReportCloses
    <2>3. outbox'[r] # outbox[r]
      BY <1>3
    <2>4. ASSUME NEW a \in Attempts, NEW q \in Rows, CommitDecided(a, q) \/ CommitAtOnce(a, q)
          PROVE  FALSE
      BY <2>3, <2>4 DEF CommitDecided, CommitAtOnce, CommitAttempt, NewRow
    <2>5. CASE Sweep \/ \E c \in MessageClass : Ingest(c)
      <3>1. \E A : outbox' = CancelledFor(outbox, A)
        BY <2>5 DEF Sweep, Ingest
      <3>2. QED
        BY <1>3, <3>1, CancelledStaysFailed
    <2>6. ASSUME NEW a \in Attempts, NEW d \in ReconcileAction, Recoordinate(a, d) PROVE FALSE
      <3>1. outbox' = outbox \/ outbox' = Withdrawn(a)
        BY <2>6 DEF Recoordinate, ReconcileNext, ReconcileAttempt
      <3>2. Fades(outbox[r], Withdrawn(a)[r])
        BY WithdrawnFate
      <3>3. QED
        BY <1>3, <2>3, <3>1, <3>2 DEF Fades
    <2>7. ASSUME NEW q \in Rows, LeaseLapses(q) \/ Extend(q) PROVE FALSE
      <3>1. \A b \in BOOLEAN : [outbox[q] EXCEPT !.lapsed = b].status = outbox[q].status
        BY DEF Row
      <3>2. QED
        BY <1>3, <2>7, <3>1 DEF LeaseLapses, Extend, UpdateRow
    <2>8. ASSUME NEW q \in Rows, NEW w \in Owners, Lease(q, w) PROVE FALSE
      <3>1. Claimed(outbox[q], w).status = "leased"
        BY DEF Claimed, Row
      <3>2. QED
        BY <2>3, <2>8, <3>1 DEF Lease, Claim, UpdateRow
    <2>9. ASSUME NEW q \in Rows, NEW n \in Claims, HostStep(q, n) PROVE FALSE
      BY <2>3, <2>9 DEF HostStep, FinishRender, LoseContact, Ask, Verdict, Transmit,
                        PlatformRefuses, vars
    <2>10. ASSUME \/ ListPreSend \/ ReconcileRaises \/ BoundaryLifts
                  \/ (\E a \in Attempts : Ages(a)) \/ Crash
                  \/ AskVerdict \/ RoundGivesUp
           PROVE  FALSE
      BY <2>3, <2>10 DEF ListPreSend, ReconcileRaises, BoundaryLifts, Ages, Crash,
                         AskVerdict, RoundGivesUp
    <2>11. QED
      BY <1>3, <2>1, <2>2, <2>4, <2>5, <2>6, <2>7, <2>8, <2>9, <2>10
         DEF V1Next, RuntimeStep, Heartbeat
  <1>4. QED
    BY <1>1, <1>2, <1>3

-----------------------------------------------------------------------------
(* What the books rely on: how far a step takes attempts and rows.         *)

Frame ==
    /\ \A a \in Attempts :
          /\ attempt[a].state = "none" <=> attempt'[a].state = "none"
          /\ attempt[a].state \notin Early => attempt'[a].state \notin Early
          /\ attempt[a].state \in Closed => attempt'[a].state \in Closed
    /\ \A r \in Rows : Known(r) => Known(r)' /\ outbox'[r].attempt = outbox[r].attempt

(* The steps of the queue that create no attempt: all but the commit.      *)
Onward ==
    \/ AskVerdict \/ RoundGivesUp
    \/ Sweep \/ Tick \/ ListPreSend \/ ReconcileRaises \/ BoundaryLifts \/ Crash
    \/ \E c \in MessageClass : Ingest(c)
    \/ \E a \in Attempts : Ages(a)
    \/ \E r \in Rows : LeaseLapses(r)
    \/ \E a \in Attempts, d \in ReconcileAction : Recoordinate(a, d)
    \/ \E r \in Rows, w \in Owners : Lease(r, w)
    \/ \E r \in Rows, n \in Claims : HostStep(r, n) \/ Heartbeat(r, n) \/ Report(r, n)

LEMMA NoneStays ==
    ASSUME HostInv, Onward, NEW a \in Attempts, attempt[a].state = "none"
    PROVE  attempt'[a].state = "none"
  <1> USE DEF HostInv, DeliveryInv, V1TypeOK, TypeOK
  <1>0. "none" \notin PRE_SEND_STATES \cup IN_FLIGHT_STATES \cup RenderableStates
    BY DEF PRE_SEND_STATES, IN_FLIGHT_STATES, RenderableStates
  <1>1. \A A : Terminated(attempt, A)[a] = attempt[a]
    BY <1>0, TerminatedMovesOn
  <1>2. CASE Sweep
    BY <1>1, <1>2 DEF Sweep
  <1>3. CASE Tick
    BY <1>0, <1>1, <1>3 DEF Tick, Orphaned, Unanswered
  <1>4. ASSUME NEW c \in MessageClass, Ingest(c) PROVE attempt'[a].state = "none"
    BY <1>4 DEF Ingest, NewestSent, InState
  <1>5. ASSUME NEW b \in Attempts, Ages(b) PROVE attempt'[a].state = "none"
    BY <1>0, <1>5 DEF Ages
  <1>6. ASSUME NEW b \in Attempts, NEW d \in ReconcileAction, Recoordinate(b, d)
        PROVE  attempt'[a].state = "none"
    <2>1. attempt[b].state # "none"
      BY <1>6 DEF Recoordinate, ReconcileNext, IsOldest, PassInv
    <2>2. QED
      BY <1>6, <2>1 DEF Recoordinate, ReconcileNext, ReconcileAttempt, MovedTo
  <1>7. ASSUME NEW q \in Rows, NEW n \in Claims, Report(q, n) PROVE attempt'[a].state = "none"
    <2>1. CASE ReportText(q, n)
      BY <1>0, <2>1 DEF ReportText, RenderUsable, MovedTo
    <2>2. CASE ReportUnusable(q, n) \/ ReportRefused(q, n)
      BY <1>1, <2>2 DEF ReportUnusable, RenderUnusable, ReportRefused, ReportFailed
    <2>3. CASE ReportSent(q, n)
      BY <2>3 DEF ReportSent, MarkDelivered, MovedTo
    <2>4. CASE ReportOutage(q, n)
      BY <2>4 DEF ReportOutage, GiveBack, Nack, Requeue
    <2>5. QED
      BY <1>7, <2>1, <2>2, <2>3, <2>4 DEF Report
  <1>8. ASSUME \/ AskVerdict \/ RoundGivesUp
               \/ ListPreSend \/ ReconcileRaises \/ BoundaryLifts \/ Crash
               \/ (\E r \in Rows : LeaseLapses(r))
               \/ (\E r \in Rows, w \in Owners : Lease(r, w))
               \/ (\E r \in Rows, n \in Claims : HostStep(r, n) \/ Heartbeat(r, n))
        PROVE  attempt'[a].state = "none"
    BY <1>8 DEF AskVerdict, RoundGivesUp,
                ListPreSend, ReconcileRaises, BoundaryLifts, Crash, LeaseLapses, Lease, Claim,
                HostStep, FinishRender, LoseContact, Ask, Verdict, Transmit, PlatformRefuses,
                Heartbeat, Extend, vars
  <1>9. QED
    BY <1>2, <1>3, <1>4, <1>5, <1>6, <1>7, <1>8 DEF Onward

LEMMA FrameHolds ==
    ASSUME HostInv, [V1Next]_v1vars, Onward \/ UNCHANGED <<attempt, outbox>>
    PROVE  Frame
  <1>1. CASE UNCHANGED <<attempt, outbox>>
    BY <1>1 DEF Frame, Known
  <1>2. CASE V1Next /\ Onward
    <2>1. Next \/ UNCHANGED vars
      BY <1>2, StepTranslates DEF HostInv
    <2>2. ASSUME NEW a \in Attempts
          PROVE  /\ attempt[a].state = "none" <=> attempt'[a].state = "none"
                 /\ attempt[a].state \notin Early => attempt'[a].state \notin Early
                 /\ attempt[a].state \in Closed => attempt'[a].state \in Closed
      <3>1. CASE attempt[a].state = "none"
        BY <1>2, <3>1, NoneStays DEF Early, Closed, TERMINAL_STATES
      <3>2. CASE attempt'[a].state = attempt[a].state
        BY <3>2
      <3>3. CASE attempt[a].state = "committed" /\ attempt'[a].state = "ready_to_send"
        BY <3>3 DEF Early, Closed, TERMINAL_STATES
      <3>4. CASE MovesOn(attempt[a].state, attempt'[a].state)
        BY <3>4 DEF MovesOn, PRE_SEND_STATES, TERMINAL_STATES, Early, Closed
      <3>5. QED
        BY <2>1, <3>1, <3>2, <3>3, <3>4, AttemptStep DEF HostInv, DeliveryInv, vars
    <2>3. \A r \in Rows : Known(r) => Known(r)' /\ outbox'[r].attempt = outbox[r].attempt
      BY <1>2, RowLasts DEF HostInv
    <2>4. QED
      BY <2>2, <2>3 DEF Frame
  <1>3. QED
    BY <1>1, <1>2 DEF v1vars, vars

(* An attempt with a send row was rendered.                                *)
LEMMA SendRowsAreRendered ==
    ASSUME HostInv, NEW r \in Rows, Known(r), outbox[r].kind = "send"
    PROVE  outbox[r].attempt \in Attempts /\ attempt[outbox[r].attempt].state \notin Early
  BY DEF HostInv, DeliveryInv, QueueInv, RowsFollowAttempts, V1TypeOK, TypeOK, Row, Early

-----------------------------------------------------------------------------
(* The audit recorder.                                                     *)

(* Every audit with a stage in it has a current one, and "rendered" is     *)
(* current only as long as the round has no outcome.                       *)
LEMMA StageIsCurrent ==
    ASSUME NEW S \in SUBSET AuditStage, S # {}
    PROVE  LET s == CurrentStage(S) IN
           /\ s \in S
           /\ s = "rendered" => S \subseteq {"committed", "rendered"}
           /\ s = "committed" => S = {"committed"}
  <1> DEFINE current(s) ==
        \/ s = "reconciled"
        \/ s \in {"send_ack", "send_fail"} /\ "reconciled" \notin S
        \/ s = "rendered" /\ S \subseteq {"committed", "rendered"}
        \/ s = "committed" /\ S = {"committed"}
  <1>1. \E s \in S : current(s)
    <2>1. CASE "reconciled" \in S
      BY <2>1
    <2>2. CASE "reconciled" \notin S /\ S \cap {"send_ack", "send_fail"} # {}
      BY <2>2
    <2>3. CASE S \subseteq {"committed", "rendered"}
      BY <2>3
    <2>4. QED
      BY <2>1, <2>2, <2>3 DEF AuditStage
  <1>2. CurrentStage(S) = CHOOSE s \in S : current(s)
    BY DEF CurrentStage
  <1>3. CurrentStage(S) \in S /\ current(CurrentStage(S))
    <2> HIDE DEF current
    <2>1. QED
      BY <1>1, <1>2
  <1>4. QED
    BY <1>3

(* An outcome can be recorded over itself or where there is none.          *)
LEMMA OutcomeRecordable ==
    ASSUME NEW S \in SUBSET AuditStage, S # {}, NEW kind \in {"sent", "failed"},
           Recordable(S, StageOf(kind))
    PROVE  StageOf(kind) \in S \/ S \cap Outcomes = {}
  <1>1. CurrentStage(S) \in AuditStage
    BY StageIsCurrent
  <1>2. StageOf(kind) \in AllowedNext(CurrentStage(S)) => CurrentStage(S) = "rendered"
    BY <1>1 DEF StageOf, AllowedNext, AuditStage
  <1>3. QED
    BY <1>2, StageIsCurrent DEF Recordable, Outcomes

LEMMA LoadedType ==
    ASSUME BooksTypeOK, NEW a \in Attempts, engine[a] = "runtime_v2", BookOf(a)
    PROVE  /\ Loaded(a) \in SUBSET AuditStage /\ Loaded(a) # {}
           /\ audit[a] \subseteq Loaded(a) /\ audit[a] # {}
  BY DEF BooksTypeOK, BookOf, AuditOf, Loaded

-----------------------------------------------------------------------------
(* What the hooks write.                                                   *)

AckRecord == [kind : {"none", "sent", "failed"}, row : Rows \cup {0}]

LEMMA SettleBooks ==
    ASSUME BooksTypeOK, NEW a \in Attempts, NEW r \in Rows, NEW kind \in {"sent", "failed"},
           Settle(a, r, kind)
    PROVE  /\ ack[a] \in {NoAck, ThisAck(r, kind)}
           /\ ack' \in [Attempts -> AckRecord]
           /\ ack'[a] = ThisAck(r, kind) /\ \A b \in Attempts \ {a} : ack'[b] = ack[b]
           /\ exposures' \subseteq Rows /\ exposures \subseteq exposures'
           /\ exposures' = IF kind = "sent" THEN exposures \cup {r} ELSE exposures
  <1>1. ThisAck(r, kind) \in AckRecord
    BY DEF ThisAck, AckRecord
  <1>2. ack \in [Attempts -> AckRecord] /\ exposures \subseteq Rows
    BY DEF BooksTypeOK, AckRecord
  <1>3. QED
    BY <1>1, <1>2 DEF Settle

(* The engine that is told books this acknowledgement and no other, keeps  *)
(* the exposure with it, and its audit names it.                           *)
LEMMA AcknowledgeBooks ==
    ASSUME BooksTypeOK, NEW a \in Attempts, NEW r \in Rows, NEW kind \in {"sent", "failed"},
           BookOf(a), engine[a] # "none", Acknowledge(a, r, kind)
    PROVE  /\ ack' \in [Attempts -> AckRecord] /\ exposures' \subseteq Rows
           /\ audit' \in [Attempts -> SUBSET AuditStage]
           /\ recorder' \in [Attempts -> SUBSET AuditStage]
           /\ UNCHANGED engine
           /\ \A b \in Attempts \ {a} :
                 ack'[b] = ack[b] /\ audit'[b] = audit[b] /\ recorder'[b] = recorder[b]
           /\ ack[a] \in {NoAck, ThisAck(r, kind)} /\ ack'[a] = ThisAck(r, kind)
           /\ exposures' = IF kind = "sent" THEN exposures \cup {r} ELSE exposures
           /\ engine[a] # "runtime_v2" => audit'[a] = audit[a] /\ recorder'[a] = recorder[a]
           /\ engine[a] = "runtime_v2" =>
                 /\ "committed" \in audit'[a] /\ audit'[a] \subseteq Loaded(a)'
                 /\ ("send_ack" \in audit'[a]) <=> (kind = "sent")
                 /\ ("send_fail" \in audit'[a]) <=> (kind = "failed")
                 /\ ~(Outcomes \subseteq Loaded(a)')
  <1>0. /\ UNCHANGED engine
        /\ audit \in [Attempts -> SUBSET AuditStage] /\ recorder \in [Attempts -> SUBSET AuditStage]
        /\ ack \in [Attempts -> AckRecord] /\ exposures \subseteq Rows
    BY DEF Acknowledge, BooksTypeOK, AckRecord
  <1>1. CASE engine[a] = "langchao"
    <2>1. Settle(a, r, kind) /\ UNCHANGED <<audit, recorder>>
      BY <1>1 DEF Acknowledge, AcknowledgeLangchao
    <2>2. QED
      BY <1>0, <1>1, <2>1, SettleBooks
  <1>2. CASE engine[a] = "runtime_v2"
    <2> DEFINE stages == Loaded(a) \cup {StageOf(kind), "reconciled"}
    <2>1. /\ Loaded(a) \in SUBSET AuditStage /\ Loaded(a) # {}
          /\ audit[a] \subseteq Loaded(a) /\ audit[a] # {}
      BY <1>2, LoadedType
    <2>2. AuditOf(a) /\ (ack[a].kind = "sent" => ack[a].row \in exposures)
      BY <1>2 DEF BookOf
    <2>3. AcknowledgeV2(a, r, kind)
      BY <1>2 DEF Acknowledge
    <2>4. CASE recorder[a] = {} /\ ack[a] # NoAck
      <3>1. /\ ack[a] = ThisAck(r, kind) /\ UNCHANGED <<ack, exposures, audit>>
            /\ recorder' = [recorder EXCEPT ![a] = audit[a]]
        BY <2>3, <2>4 DEF AcknowledgeV2
      <3>2. ThisAck(r, kind).kind = kind /\ ThisAck(r, kind).row = r
        BY DEF ThisAck
      <3>3. kind = "sent" => r \in exposures
        BY <2>2, <3>1, <3>2
      <3>4. recorder'[a] = audit[a] /\ Loaded(a) = audit[a] /\ Loaded(a)' = audit[a]
        BY <1>0, <2>1, <2>4, <3>1 DEF Loaded
      <3>5. QED
        BY <1>0, <1>2, <2>2, <3>1, <3>2, <3>3, <3>4 DEF AuditOf
    <2>5. CASE ~(recorder[a] = {} /\ ack[a] # NoAck)
      <3>1. /\ Recordable(Loaded(a), StageOf(kind)) /\ Settle(a, r, kind)
            /\ audit' = [audit EXCEPT ![a] = stages]
            /\ recorder' = [recorder EXCEPT ![a] = stages]
        BY <2>3, <2>5 DEF AcknowledgeV2
      <3>2. StageOf(kind) \in Loaded(a) \/ Loaded(a) \cap Outcomes = {}
        BY <2>1, <3>1, OutcomeRecordable
      <3>3. /\ "committed" \in stages /\ stages \in SUBSET AuditStage
            /\ ("send_ack" \in stages) <=> (kind = "sent")
            /\ ("send_fail" \in stages) <=> (kind = "failed")
        BY <2>1, <2>2, <3>2 DEF AuditOf, StageOf, Outcomes, AuditStage
      <3> HIDE DEF stages
      <3>4. audit'[a] = stages /\ recorder'[a] = stages /\ Loaded(a)' = stages
        BY <1>0, <3>1, <3>3 DEF Loaded
      <3>5. ~(Outcomes \subseteq stages)
        BY <3>3 DEF Outcomes
      <3>6. /\ audit' \in [Attempts -> SUBSET AuditStage]
            /\ recorder' \in [Attempts -> SUBSET AuditStage]
            /\ \A b \in Attempts \ {a} : audit'[b] = audit[b] /\ recorder'[b] = recorder[b]
        BY <1>0, <3>1, <3>3
      <3>7. QED
        BY <1>0, <1>2, <3>1, <3>3, <3>4, <3>5, <3>6, SettleBooks
    <2>6. QED
      BY <2>4, <2>5
  <1>3. QED
    BY <1>1, <1>2 DEF BooksTypeOK, Engine

-----------------------------------------------------------------------------
(* Steps of the books.                                                     *)

BooksKept ==
    /\ BooksTypeOK'
    /\ \A r \in exposures' : Known(r)'
    /\ \A b \in Attempts : BookOf(b)'

(* A round no hook is called for.                                          *)
LEMMA BookStays ==
    ASSUME NEW b \in Attempts, BookOf(b), Frame,
           engine'[b] = engine[b], ack'[b] = ack[b], audit'[b] = audit[b],
           recorder'[b] = recorder[b], charged'[b] = charged[b], exposures \subseteq exposures'
    PROVE  BookOf(b)'
  <1>1. Loaded(b)' = Loaded(b)
    BY DEF Loaded
  <1>2. AuditOf(b) => AuditOf(b)'
    BY <1>1 DEF AuditOf, Frame
  <1>3. QED
    BY <1>2 DEF BookOf, Frame

LEMMA NothingBooked ==
    ASSUME RoundInv, Frame, V1TypeOK', UNCHANGED <<bookvars, charged>>
    PROVE  BooksKept
  <1>1. UNCHANGED <<engine, ack, exposures, audit, recorder>>
    BY DEF bookvars
  <1>2. BooksTypeOK'
    BY <1>1 DEF RoundInv, BooksTypeOK
  <1>3. \A r \in exposures' : Known(r)'
    BY <1>1 DEF RoundInv, Frame, BooksTypeOK
  <1>4. \A b \in Attempts : BookOf(b)'
    BY <1>1, BookStays DEF RoundInv
  <1>5. QED
    BY <1>2, <1>3, <1>4 DEF BooksKept

LEMMA AcknowledgedBook ==
    ASSUME RoundInv, Frame, V1TypeOK', NEW r \in Rows, Known(r), outbox[r].kind = "send",
           NEW a \in Attempts, a = outbox[r].attempt, NEW kind \in {"sent", "failed"},
           Acknowledge(a, r, kind),
           \A b \in Attempts \ {a} : charged'[b] = charged[b],
           kind = "failed" => attempt'[a].state \in Closed /\ charged'[a] = charged[a]
    PROVE  BooksKept
  <1>1. attempt[a].state \notin Early
    BY SendRowsAreRendered DEF RoundInv
  <1>2. BookOf(a) /\ engine[a] # "none"
    BY <1>1 DEF RoundInv, BookOf, Early
  <1>3. ThisAck(r, kind).kind = kind /\ ThisAck(r, kind).row = r
    BY DEF ThisAck
  <1>4. /\ ack' \in [Attempts -> AckRecord] /\ exposures' \subseteq Rows
        /\ audit' \in [Attempts -> SUBSET AuditStage]
        /\ recorder' \in [Attempts -> SUBSET AuditStage]
        /\ UNCHANGED engine
        /\ \A b \in Attempts \ {a} :
              ack'[b] = ack[b] /\ audit'[b] = audit[b] /\ recorder'[b] = recorder[b]
        /\ ack[a] \in {NoAck, ThisAck(r, kind)} /\ ack'[a] = ThisAck(r, kind)
        /\ exposures' = IF kind = "sent" THEN exposures \cup {r} ELSE exposures
        /\ engine[a] # "runtime_v2" => audit'[a] = audit[a] /\ recorder'[a] = recorder[a]
        /\ engine[a] = "runtime_v2" =>
              /\ "committed" \in audit'[a] /\ audit'[a] \subseteq Loaded(a)'
              /\ ("send_ack" \in audit'[a]) <=> (kind = "sent")
              /\ ("send_fail" \in audit'[a]) <=> (kind = "failed")
              /\ ~(Outcomes \subseteq Loaded(a)')
    BY <1>2, AcknowledgeBooks DEF RoundInv
  <1>5. BooksTypeOK'
    BY <1>4 DEF RoundInv, BooksTypeOK, AckRecord
  <1>6. \A q \in exposures' : Known(q)'
    BY <1>4 DEF RoundInv, Frame, BooksTypeOK
  <1>7. BookOf(a)'
    <2>1. attempt'[a].state \notin Early /\ attempt'[a].state # "none"
      BY <1>1 DEF Frame, Early
    <2>2. engine[a] = "runtime_v2" => AuditOf(a)'
      BY <1>3, <1>4, <2>1 DEF AuditOf
    <2>3. charged'[a] > 0 => kind = "sent"
      <3>1. CASE kind = "failed"
        <4>1. ack[a].kind # "sent"
          BY <1>3, <1>4, <3>1 DEF NoAck
        <4>2. QED
          BY <1>2, <3>1, <4>1 DEF BookOf
      <3>2. QED
        BY <3>1
    <2>4. QED
      BY <1>2, <1>3, <1>4, <2>1, <2>2, <2>3 DEF BookOf
  <1>8. ASSUME NEW b \in Attempts \ {a} PROVE BookOf(b)'
    <2>1. exposures \subseteq exposures'
      BY <1>4
    <2>2. QED
      BY <1>4, <2>1, BookStays DEF RoundInv
  <1>9. QED
    BY <1>5, <1>6, <1>7, <1>8 DEF BooksKept

(* A render report finds no outcome in the audit, in memory either.        *)
LEMMA RenderedBook ==
    ASSUME RoundInv, Frame, V1TypeOK', NEW a \in Attempts, attempt[a].state \in RenderableStates,
           NoteRendered(a), UNCHANGED charged
    PROVE  BooksKept
  <1>1. CASE engine[a] = "langchao"
    BY <1>1, NothingBooked DEF NoteRendered, bookvars
  <1>2. CASE engine[a] # "langchao"
    <2> DEFINE stages == Loaded(a) \cup {"rendered"}
    <2>1. engine[a] = "runtime_v2" /\ BookOf(a)
      <3>1. engine[a] # "none"
        BY DEF RoundInv, BookOf, RenderableStates
      <3>2. QED
        BY <1>2, <3>1 DEF RoundInv, BooksTypeOK, Engine
    <2>2. /\ UNCHANGED <<engine, ack, exposures>>
          /\ audit' = [audit EXCEPT ![a] = stages] /\ recorder' = [recorder EXCEPT ![a] = stages]
      BY <1>2 DEF NoteRendered
    <2>3. /\ Loaded(a) \in SUBSET AuditStage /\ audit[a] \subseteq Loaded(a)
          /\ Loaded(a) \cap Outcomes = {} /\ AuditOf(a)
      BY <2>1, LoadedType DEF RoundInv, BookOf, AuditOf, Early, RenderableStates
    <2>4. stages \in SUBSET AuditStage /\ stages # {} /\ stages \cap Outcomes = {}
             /\ "committed" \in stages
      BY <2>3 DEF AuditStage, Outcomes, AuditOf
    <2> HIDE DEF stages
    <2>5. /\ audit \in [Attempts -> SUBSET AuditStage]
          /\ recorder \in [Attempts -> SUBSET AuditStage]
      BY DEF RoundInv, BooksTypeOK
    <2>6. audit'[a] = stages /\ recorder'[a] = stages /\ Loaded(a)' = stages
      BY <2>2, <2>4, <2>5 DEF Loaded
    <2>7. BooksTypeOK'
      BY <2>2, <2>4, <2>5 DEF RoundInv, BooksTypeOK
    <2>8. BookOf(a)'
      <3>1. AuditOf(a)'
        BY <2>2, <2>3, <2>4, <2>6 DEF AuditOf, Outcomes
      <3>2. QED
        BY <2>1, <2>2, <3>1 DEF BookOf, Frame
    <2>9. ASSUME NEW b \in Attempts \ {a} PROVE BookOf(b)'
      <3>1. audit'[b] = audit[b] /\ recorder'[b] = recorder[b]
        BY <2>2, <2>5
      <3>2. QED
        BY <2>2, <3>1, BookStays DEF RoundInv
    <2>10. \A r \in exposures' : Known(r)'
      BY <2>2 DEF RoundInv, Frame, BooksTypeOK
    <2>11. QED
      BY <2>7, <2>8, <2>9, <2>10 DEF BooksKept
  <1>3. QED
    BY <1>1, <1>2

(* An abandoned round of langchao is booked as failed only where nothing   *)
(* was booked and so nothing was charged.                                  *)
LEMMA AbandonedBook ==
    ASSUME RoundInv, Frame, V1TypeOK', FailedRowsAreClosed', NEW r \in Rows, Known(r),
           NEW a \in Attempts, a = outbox[r].attempt, SettleAbandoned(a, r), UNCHANGED charged
    PROVE  BooksKept
  <1>1. CASE engine[a] = "langchao" /\ outbox'[r].status = "failed" /\ ack[a] = NoAck
    <2>1. Settle(a, r, "failed") /\ UNCHANGED <<engine, audit, recorder>>
      BY <1>1 DEF SettleAbandoned
    <2>2. /\ ack' \in [Attempts -> AckRecord]
          /\ ack'[a] = ThisAck(r, "failed") /\ \A b \in Attempts \ {a} : ack'[b] = ack[b]
          /\ exposures' = exposures
      BY <2>1, SettleBooks DEF RoundInv
    <2>3. ThisAck(r, "failed").kind = "failed" /\ NoAck.kind = "none"
      BY DEF ThisAck, NoAck
    <2>4. attempt'[a].state \in Closed
      <3>1. outbox'[r].attempt = a
        BY DEF Frame
      <3>2. QED
        BY <1>1, <3>1 DEF FailedRowsAreClosed
    <2>5. BooksTypeOK'
      BY <2>1, <2>2 DEF RoundInv, BooksTypeOK, AckRecord
    <2>6. \A q \in exposures' : Known(q)'
      BY <2>2 DEF RoundInv, Frame, BooksTypeOK
    <2>7. BookOf(a)'
      BY <1>1, <2>1, <2>2, <2>3, <2>4 DEF RoundInv, BookOf, Frame
    <2>8. ASSUME NEW b \in Attempts \ {a} PROVE BookOf(b)'
      BY <2>1, <2>2, BookStays DEF RoundInv
    <2>9. QED
      BY <2>5, <2>6, <2>7, <2>8 DEF BooksKept
  <1>2. CASE ~(engine[a] = "langchao" /\ outbox'[r].status = "failed" /\ ack[a] = NoAck)
    BY <1>2, NothingBooked DEF SettleAbandoned, bookvars
  <1>3. QED
    BY <1>1, <1>2

(* A hook that fails leaves the outcome of a rendered message in memory.   *)
LEMMA HookFailsBook ==
    ASSUME RoundInv, Frame, V1TypeOK', NEW r \in Rows, NEW n \in Claims,
           NEW a, a = outbox[r].attempt, HookFails(r, n)
    PROVE  BooksKept
  <1>1. /\ engine[a] = "runtime_v2" /\ outbox[r].kind = "send"
        /\ UNCHANGED <<v1vars, engine, ack, exposures, audit>>
    BY DEF HookFails
  <1>2. PICK kind \in {"sent", "failed"} :
           /\ At(r, n, IF kind = "sent" THEN "sent" ELSE "refused")
           /\ Recordable(Loaded(a), StageOf(kind))
           /\ \E T \in {{StageOf(kind)}, {StageOf(kind), "reconciled"}} :
                 recorder' = [recorder EXCEPT ![a] = Loaded(a) \cup T]
    BY DEF HookFails
  <1>19. PICK S \in {{StageOf(kind)}, {StageOf(kind), "reconciled"}} :
            recorder' = [recorder EXCEPT ![a] = Loaded(a) \cup S]
    BY <1>2
  <1>3. Known(r)
    BY <1>2 DEF RoundInv, HostInv, ClaimsWereMade, At
  <1>4. a \in Attempts /\ attempt[a].state \notin Early
    BY <1>1, <1>3, SendRowsAreRendered DEF RoundInv
  <1>5. BookOf(a) /\ AuditOf(a)
    BY <1>1, <1>4 DEF RoundInv, BookOf
  <1>6. /\ Loaded(a) \in SUBSET AuditStage /\ Loaded(a) # {}
        /\ audit[a] \subseteq Loaded(a)
    BY <1>1, <1>4, <1>5, LoadedType DEF RoundInv
  <1> DEFINE stages == Loaded(a) \cup S
  <1>7. StageOf(kind) \in Loaded(a) \/ Loaded(a) \cap Outcomes = {}
    BY <1>2, <1>6, OutcomeRecordable
  <1>8. stages \in SUBSET AuditStage /\ stages # {} /\ audit[a] \subseteq stages
           /\ ~(Outcomes \subseteq stages)
    BY <1>5, <1>6, <1>7 DEF AuditOf, StageOf, AuditStage, Outcomes
  <1>9. recorder' = [recorder EXCEPT ![a] = stages]
    BY <1>19
  <1> HIDE DEF stages
  <1>10. recorder \in [Attempts -> SUBSET AuditStage]
    BY DEF RoundInv, BooksTypeOK
  <1>11. recorder' \in [Attempts -> SUBSET AuditStage]
    BY <1>8, <1>9, <1>10
  <1>12. recorder'[a] = stages /\ \A b \in Attempts \ {a} : recorder'[b] = recorder[b]
    BY <1>4, <1>9, <1>10
  <1>13. UNCHANGED <<attempt, outbox, charged>>
    BY <1>1 DEF v1vars, vars
  <1>14. BooksTypeOK'
    BY <1>1, <1>11 DEF RoundInv, BooksTypeOK
  <1>15. BookOf(a)'
    <2>1. Loaded(a)' = stages
      BY <1>8, <1>12 DEF Loaded
    <2>2. AuditOf(a)'
      BY <1>1, <1>4, <1>5, <1>8, <1>13, <2>1 DEF AuditOf
    <2>3. QED
      BY <1>1, <1>5, <1>13, <2>2 DEF BookOf
  <1>16. ASSUME NEW b \in Attempts \ {a} PROVE BookOf(b)'
    BY <1>1, <1>12, <1>13, BookStays DEF RoundInv
  <1>17. \A q \in exposures' : Known(q)'
    BY <1>1, <1>13 DEF RoundInv, Known
  <1>18. QED
    BY <1>14, <1>15, <1>16, <1>17 DEF BooksKept

(* A restart forgets what a failed hook left in memory.                    *)
LEMMA RestartBook ==
    ASSUME RoundInv, V1TypeOK', Restart
    PROVE  BooksKept
  <1>1. /\ UNCHANGED <<attempt, outbox, charged, engine, ack, exposures, audit>>
        /\ recorder' = [a \in Attempts |-> {}]
    BY DEF Restart
  <1>2. BooksTypeOK'
    BY <1>1 DEF RoundInv, BooksTypeOK
  <1>3. ASSUME NEW b \in Attempts PROVE BookOf(b)'
    <2>1. Loaded(b)' = audit[b] /\ recorder'[b] = {}
      BY <1>1 DEF Loaded
    <2>2. AuditOf(b) => AuditOf(b)'
      BY <1>1, <2>1 DEF AuditOf
    <2>3. QED
      BY <1>1, <2>1, <2>2 DEF RoundInv, BookOf
  <1>4. \A q \in exposures' : Known(q)'
    BY <1>1 DEF RoundInv, Known
  <1>5. QED
    BY <1>2, <1>3, <1>4 DEF BooksKept

(* A round opens with its attempt, and its audit at the first stage.       *)
LEMMA CommitRoundBook ==
    ASSUME RoundInv, V1TypeOK', NEW a \in Attempts, NEW r \in Rows, NEW e \in Engine,
           CommitRound(a, r, e)
    PROVE  BooksKept
  <1> DEFINE stages == IF e = "runtime_v2" THEN {"committed"} ELSE {}
  <1>1. /\ CommitAttempt(a, r)
        /\ engine' = [engine EXCEPT ![a] = e]
        /\ audit' = [audit EXCEPT ![a] = stages] /\ recorder' = [recorder EXCEPT ![a] = stages]
        /\ UNCHANGED <<ack, exposures>>
    BY DEF CommitRound, CommitDecided, CommitAtOnce
  <1>2. /\ stages \in SUBSET AuditStage /\ stages \cap Outcomes = {}
        /\ (stages # {}) <=> (e = "runtime_v2")
        /\ e = "runtime_v2" => "committed" \in stages
    BY DEF AuditStage, Outcomes
  <1> HIDE DEF stages
  <1>3. /\ engine \in [Attempts -> Engine \cup {"none"}]
        /\ audit \in [Attempts -> SUBSET AuditStage]
        /\ recorder \in [Attempts -> SUBSET AuditStage]
        /\ attempt \in [Attempts -> AttemptRecord] /\ outbox \in [Rows -> Row]
    BY DEF RoundInv, BooksTypeOK, V1TypeOK, TypeOK
  <1>4. /\ attempt[a].state = "none" /\ UNCHANGED charged
        /\ attempt' = MovedTo(a, "committed")
        /\ \A q \in Rows \ {r} : outbox'[q] = outbox[q]
        /\ outbox[r].status = "absent"
    BY <1>1, <1>3 DEF CommitAttempt, Fresh
  <1>5. attempt'[a].state = "committed" /\ \A b \in Attempts \ {a} : attempt'[b] = attempt[b]
    BY <1>3, <1>4 DEF MovedTo, AttemptRecord
  <1>6. BooksTypeOK'
    BY <1>1, <1>2, <1>3 DEF RoundInv, BooksTypeOK
  <1>7. \A q \in exposures' : Known(q)'
    BY <1>1, <1>4 DEF RoundInv, BooksTypeOK, Known
  <1>8. BookOf(a)'
    <2>1. ack[a] = NoAck /\ (charged[a] > 0 => ack[a].kind = "sent")
      BY <1>4 DEF RoundInv, BookOf
    <2>2. ack[a].kind = "none"
      BY <2>1 DEF NoAck
    <2>3. engine'[a] = e /\ audit'[a] = stages /\ recorder'[a] = stages /\ Loaded(a)' = stages
      BY <1>1, <1>3 DEF Loaded
    <2>4. e = "runtime_v2" => AuditOf(a)'
      BY <1>1, <1>2, <2>2, <2>3 DEF AuditOf, Outcomes
    <2>5. QED
      BY <1>1, <1>2, <1>4, <1>5, <2>1, <2>2, <2>3, <2>4 DEF BookOf, Engine
  <1>9. ASSUME NEW b \in Attempts \ {a} PROVE BookOf(b)'
    <2>1. /\ engine'[b] = engine[b] /\ audit'[b] = audit[b] /\ recorder'[b] = recorder[b]
          /\ attempt'[b] = attempt[b] /\ ack'[b] = ack[b] /\ charged'[b] = charged[b]
          /\ exposures' = exposures
      BY <1>1, <1>3, <1>4, <1>5
    <2>2. Loaded(b)' = Loaded(b)
      BY <2>1 DEF Loaded
    <2>3. AuditOf(b) => AuditOf(b)'
      BY <2>1, <2>2 DEF AuditOf
    <2>4. QED
      BY <2>1, <2>3 DEF RoundInv, BookOf
  <1>10. QED
    BY <1>6, <1>7, <1>8, <1>9 DEF BooksKept

(* A refusal that is applied finds its attempt open and closes it.         *)
LEMMA RefusalCloses ==
    ASSUME RoundInv, NEW r \in Rows, NEW n \in Claims, ReportRefused(r, n),
           NEW a \in Attempts, a = outbox[r].attempt
    PROVE  attempt'[a].state \in Closed
  <1>1. Unsettled(r) /\ attempt' = Terminated(attempt, {a})
    BY DEF ReportRefused, Reported, ReportFailed
  <1>2. attempt[a].state \in PRE_SEND_STATES
    <2>1. Live(outbox[r])
      BY <1>1 DEF Unsettled, RoundInv, FailedRowsAreClosed, Closed
    <2>2. QED
      BY <2>1 DEF RoundInv, HostInv, LiveRowServesItsAttempt, PRE_SEND_STATES
  <1>3. QED
    BY <1>1, <1>2, TerminatedMovesOn DEF RoundInv, HostInv, DeliveryInv, TypeOK, Closed

(* A report and its hook, in one transaction.                              *)
LEMMA AppliedBook ==
    ASSUME RoundInv, Frame, V1TypeOK', FailedRowsAreClosed',
           NEW r \in Rows, NEW n \in Claims, Applied(r, n)
    PROVE  BooksKept
  <1> SUFFICES ASSUME NEW a, a = outbox[r].attempt
               PROVE  BooksKept
    OBVIOUS
  <1>1. ~At(r, n, "none") /\ a \in Attempts
    BY DEF Applied, ReportText, ReportUnusable, ReportRefused, ReportSent, ReportOutage,
           Reported, At, RoundInv, HostInv, V1TypeOK, TypeOK, Row
  <1>2. Known(r)
    BY <1>1 DEF RoundInv, HostInv, ClaimsWereMade
  <1>3. CASE ReportText(r, n) /\ NoteRendered(a)
    BY <1>1, <1>3, RenderedBook DEF ReportText, RenderUsable
  <1>4. CASE ReportUnusable(r, n) /\ NoteRendered(a)
    BY <1>1, <1>4, RenderedBook DEF ReportUnusable, RenderUnusable
  <1>5. CASE ReportRefused(r, n) /\ outbox[r].kind = "render" /\ SettleAbandoned(a, r)
    BY <1>1, <1>2, <1>5, AbandonedBook DEF ReportRefused, ReportFailed
  <1>6. CASE ReportRefused(r, n) /\ outbox[r].kind # "render" /\ Acknowledge(a, r, "failed")
    <2>1. outbox[r].kind = "send"
      BY <1>6 DEF RoundInv, HostInv, V1TypeOK, TypeOK, Row, OutboxKind
    <2>2. charged' = charged
      BY <1>6 DEF ReportRefused, ReportFailed
    <2>3. attempt'[a].state \in Closed
      BY <1>1, <1>6, RefusalCloses
    <2>4. QED
      BY <1>1, <1>2, <1>6, <2>1, <2>2, <2>3, AcknowledgedBook
  <1>7. CASE ReportSent(r, n) /\ Acknowledge(a, r, "sent")
    <2>1. outbox[r].kind = "send" /\ \A b \in Attempts \ {a} : charged'[b] = charged[b]
      BY <1>7 DEF ReportSent, MarkDelivered, RoundInv, HostInv, V1TypeOK, TypeOK
    <2>2. QED
      BY <1>1, <1>2, <1>7, <2>1, AcknowledgedBook
  <1>8. CASE ReportOutage(r, n) /\ UNCHANGED bookvars
    BY <1>8, NothingBooked DEF ReportOutage, GiveBack, Nack, Requeue
  <1>9. QED
    BY <1>3, <1>4, <1>5, <1>6, <1>7, <1>8 DEF Applied

(* Everything else leaves the books and the contact budget alone.          *)
LEMMA ElsewhereBook ==
    ASSUME RoundInv, Frame, V1TypeOK', Elsewhere
    PROVE  BooksKept
  <1>1. UNCHANGED <<bookvars, charged>>
    BY DEF Elsewhere, AskVerdict, RoundGivesUp, Sweep, Tick, ListPreSend, BoundaryLifts, ReconcileRaises, Ingest, Ages,
           LeaseLapses, Recoordinate, ReconcileNext, Lease, Claim, Heartbeat, Extend,
           HostStep, FinishRender, LoseContact, Ask, Verdict, Transmit, PlatformRefuses, vars
  <1>2. QED
    BY <1>1, NothingBooked

-----------------------------------------------------------------------------
(* The invariant of the rounds.                                            *)

LEMMA RoundInitial == RoundInit => RoundInv
  <1> SUFFICES ASSUME RoundInit PROVE RoundInv
    OBVIOUS
  <1>1. V1Init /\ HostInv
    BY HostInit DEF RoundInit
  <1>2. \A a \in Attempts : attempt[a].state = "none" /\ charged[a] = 0
    BY <1>1 DEF V1Init, Init, NoAttempt
  <1>3. \A r \in Rows : outbox[r].status = "absent"
    BY <1>1 DEF V1Init, Init, AbsentRow, NewRow
  <1>4. BooksTypeOK
    BY <1>1 DEF RoundInit, BooksTypeOK, HostInv, NoAck
  <1>5. \A a \in Attempts : BookOf(a)
    BY <1>2 DEF RoundInit, BookOf, NoAck
  <1>6. FailedRowsAreClosed /\ exposures = {}
    BY <1>3 DEF FailedRowsAreClosed, RoundInit
  <1>7. QED
    BY <1>1, <1>4, <1>5, <1>6 DEF RoundInv

LEMMA RoundStep == RoundInv /\ [RoundNext]_roundvars => RoundInv'
  <1> SUFFICES ASSUME RoundInv, [RoundNext]_roundvars PROVE RoundInv'
    OBVIOUS
  <1>1. [V1Next]_v1vars
    BY RoundTranslates DEF RoundInv
  <1>2. HostInv' /\ V1TypeOK'
    BY <1>1, HostStepKeeps DEF RoundInv, HostInv
  <1>3. FailedRowsAreClosed'
    BY <1>1, FailedRowsStep DEF RoundInv
  <1>4. Onward \/ UNCHANGED <<attempt, outbox>> => Frame
    BY <1>1, FrameHolds DEF RoundInv
  <1>5. BooksKept
    <2>1. ASSUME NEW a \in Attempts, NEW r \in Rows, NEW e \in Engine, CommitRound(a, r, e)
          PROVE  BooksKept
      BY <1>2, <2>1, CommitRoundBook
    <2>2. ASSUME NEW r \in Rows, NEW n \in Claims, Applied(r, n) PROVE BooksKept
      <3>1. Frame
        BY <1>4, <2>2 DEF Applied, Onward, Report
      <3>2. QED
        BY <1>2, <1>3, <2>2, <3>1, AppliedBook
    <2>3. ASSUME NEW r \in Rows, NEW n \in Claims, HookFails(r, n) PROVE BooksKept
      <3>1. Frame
        BY <1>4, <2>3 DEF HookFails, v1vars, vars
      <3>2. QED
        BY <1>2, <2>3, <3>1, HookFailsBook
    <2>4. CASE Restart
      BY <1>2, <2>4, RestartBook
    <2>5. CASE Elsewhere
      <3>1. Frame
        BY <1>4, <2>5 DEF Elsewhere, Onward
      <3>2. QED
        BY <1>2, <2>5, <3>1, ElsewhereBook
    <2>6. CASE UNCHANGED roundvars
      <3>1. UNCHANGED <<bookvars, charged>> /\ Frame
        BY <1>4, <2>6 DEF roundvars, v1vars, vars
      <3>2. QED
        BY <1>2, <3>1, NothingBooked
    <2>7. QED
      BY <2>1, <2>2, <2>3, <2>4, <2>5, <2>6 DEF RoundNext
  <1>6. QED
    BY <1>2, <1>3, <1>5 DEF RoundInv, BooksKept

(* The inductive invariant holds in every reachable state.                 *)
THEOREM RoundInvariance == RoundSpec => []RoundInv
  BY RoundInitial, RoundStep, PTL DEF RoundSpec

(* The books, the audits and their copies in memory have their types.      *)
THEOREM BooksAreTyped == RoundSpec => []BooksTypeOK
  <1>1. RoundInv => BooksTypeOK
    BY DEF RoundInv
  <1>2. QED
    BY <1>1, RoundInvariance, PTL

(* Queue, books and audit tell the same story: no contact is charged       *)
(* without its round booked as sent, no attempt that waits for its answer  *)
(* is booked as failed, and an audit names the acknowledgement on the      *)
(* books and no other, whatever a failed hook left in memory.              *)
THEOREM BooksTellOneStory == RoundSpec => []BooksAgree
  <1>1. RoundInv => BooksAgree
    BY DEF RoundInv, BookOf, AuditOf, BooksAgree, Closed, Loaded
  <1>2. QED
    BY <1>1, RoundInvariance, PTL

(* Rounds, hooks and restarts are one use of protocol v1 among others: the *)
(* hook of an engine runs inside the report's transaction and asks nothing *)
(* of the queue that adapters could not do without it (api_v1.py,          *)
(* _apply_action_report).                                                  *)
THEOREM RoundsAreHosted == RoundSpec => V1Spec
  <1>1. RoundInit => V1Init
    BY DEF RoundInit
  <1>2. BooksTypeOK /\ [RoundNext]_roundvars => [V1Next]_v1vars
    BY RoundTranslates
  <1>3. QED
    BY <1>1, <1>2, BooksAreTyped, PTL DEF RoundSpec, V1Spec

(* What a user gets of it all, from the engine's decision to the platform: *)
(* an intention is formed under a boundary only on a verdict from before   *)
(* it, spoken once at most and never after it was closed; its message is   *)
(* transmitted max_attempts times at most, nothing is charged that did not *)
(* go out, no work is offered for what is closed, and what is closed stays *)
(* closed, under any engine and whatever its hooks do.                     *)
THEOREM RoundsKeepThePromise ==
    RoundSpec => /\ KeepsThePromise /\ HistoryIsKept /\ BoundaryClears
                 /\ []LiveRowServesItsAttempt
                 /\ []TransmissionBudget /\ []ContactsWereMade /\ ClaimEndsAsItsHolderSays
  <1>1. V1Spec => Spec
    BY Translates DEF OnlyTranslates
  <1>2. QED
    BY <1>1, RoundsAreHosted, Implementation, HistoryStands, BoundariesClear,
       LiveRowsServe, BudgetHolds, ChargesWereSaid, HoldersDecide, PTL

-----------------------------------------------------------------------------
(* The rounds implement the books.                                         *)

BookState(a) ==
    IF engine[a] = "none" THEN "none" ELSE IF ack[a] = NoAck THEN "open" ELSE ack[a].kind

Booked == [a \in Attempts |-> BookState(a)]
Said == {a \in Attempts : spoken[a] > 0}
Exposed == {outbox[r].attempt : r \in exposures}

LEMMA BookSteps ==
    /\ UNCHANGED <<Booked, Said, Exposed>> => UNCHANGED Book!vars
    /\ \A a \in Attempts :
          /\ /\ BookState(a) = "none" /\ Booked' = [Booked EXCEPT ![a] = "open"]
             /\ UNCHANGED <<Said, Exposed>>
             => Book!Next
          /\ /\ BookState(a) # "none" /\ Said' = Said \cup {a} /\ UNCHANGED <<Booked, Exposed>>
             => Book!Next
          /\ /\ BookState(a) = "open" /\ a \in Said
             /\ Booked' = [Booked EXCEPT ![a] = "sent"]
             /\ Exposed' = Exposed \cup {a} /\ UNCHANGED Said
             => Book!Next
          /\ /\ BookState(a) = "open" /\ Booked' = [Booked EXCEPT ![a] = "failed"]
             /\ UNCHANGED <<Said, Exposed>>
             => Book!Next
  <1>1. UNCHANGED <<Booked, Said, Exposed>> => UNCHANGED Book!vars
    BY DEF Booked, BookState, Said, Exposed, Book!vars
  <1>2. ASSUME NEW a \in Attempts, BookState(a) = "none", Booked' = [Booked EXCEPT ![a] = "open"],
               UNCHANGED <<Said, Exposed>>
        PROVE  Book!Next
    <2>1. Book!Open(a)
      BY <1>2 DEF Booked, BookState, Said, Exposed, Book!Open
    <2>2. QED
      BY <2>1 DEF Book!Next
  <1>3. ASSUME NEW a \in Attempts, BookState(a) # "none", Said' = Said \cup {a},
               UNCHANGED <<Booked, Exposed>>
        PROVE  Book!Next
    <2>1. Book!Say(a)
      BY <1>3 DEF Booked, BookState, Said, Exposed, Book!Say
    <2>2. QED
      BY <2>1 DEF Book!Next
  <1>4. ASSUME NEW a \in Attempts, BookState(a) = "open", a \in Said,
               Booked' = [Booked EXCEPT ![a] = "sent"],
               Exposed' = Exposed \cup {a}, UNCHANGED Said
        PROVE  Book!Next
    <2>1. Book!CloseSent(a)
      BY <1>4 DEF Booked, BookState, Said, Exposed, Book!CloseSent
    <2>2. QED
      BY <2>1 DEF Book!Next
  <1>5. ASSUME NEW a \in Attempts, BookState(a) = "open",
               Booked' = [Booked EXCEPT ![a] = "failed"], UNCHANGED <<Said, Exposed>>
        PROVE  Book!Next
    <2>1. Book!CloseFailed(a)
      BY <1>5 DEF Booked, BookState, Said, Exposed, Book!CloseFailed
    <2>2. QED
      BY <2>1 DEF Book!Next
  <1>6. QED
    BY <1>1, <1>2, <1>3, <1>4, <1>5

RowsKeepTheirAttempt == \A r \in exposures : outbox'[r].attempt = outbox[r].attempt

LEMMA BooksStutter ==
    ASSUME RowsKeepTheirAttempt, UNCHANGED <<engine, ack, exposures, spoken>>
    PROVE  UNCHANGED Book!vars
  <1>1. UNCHANGED <<Booked, Said>>
    BY DEF Booked, BookState, Said
  <1>2. UNCHANGED Exposed
    BY DEF Exposed, RowsKeepTheirAttempt
  <1>3. QED
    BY <1>1, <1>2, BookSteps

(* The first acknowledgement closes the round, a repeated one is none.     *)
LEMMA AckCloses ==
    ASSUME RoundInv, RowsKeepTheirAttempt, UNCHANGED <<engine, spoken>>,
           NEW r \in Rows, outbox'[r].attempt = outbox[r].attempt,
           NEW a \in Attempts, a = outbox[r].attempt, engine[a] # "none",
           NEW kind \in {"sent", "failed"}, ack[a] \in {NoAck, ThisAck(r, kind)},
           ack'[a] = ThisAck(r, kind), \A b \in Attempts \ {a} : ack'[b] = ack[b],
           exposures' = IF kind = "sent" THEN exposures \cup {r} ELSE exposures,
           kind = "sent" => spoken[a] > 0
    PROVE  [Book!Next]_(Book!vars)
  <1>1. ThisAck(r, kind).kind = kind /\ ThisAck(r, kind).row = r /\ ThisAck(r, kind) # NoAck
    BY DEF ThisAck, NoAck
  <1>2. UNCHANGED Said
    BY DEF Said
  <1>3. Exposed' = IF kind = "sent" THEN Exposed \cup {a} ELSE Exposed
    BY DEF Exposed, RowsKeepTheirAttempt
  <1>4. BookState(a)' = kind /\ \A b \in Attempts \ {a} : BookState(b)' = BookState(b)
    BY <1>1 DEF BookState
  <1>5. Booked' = [Booked EXCEPT ![a] = kind]
    BY <1>4 DEF Booked
  <1>6. CASE ack[a] = NoAck
    <2>1. BookState(a) = "open"
      BY <1>6 DEF BookState
    <2>2. CASE kind = "sent"
      <3>1. a \in Said
        BY <2>2 DEF Said
      <3>2. QED
        BY <1>2, <1>3, <1>5, <2>1, <2>2, <3>1, BookSteps
    <2>3. CASE kind = "failed"
      BY <1>2, <1>3, <1>5, <2>1, <2>3, BookSteps
    <2>4. QED
      BY <2>2, <2>3
  <1>7. CASE ack[a] = ThisAck(r, kind)
    <2>1. BookState(a) = kind
      BY <1>1, <1>7 DEF BookState
    <2>2. Booked' = Booked
      BY <1>5, <2>1 DEF Booked
    <2>3. kind = "sent" => a \in Exposed
      BY <1>1, <1>7 DEF RoundInv, BookOf, Exposed
    <2>4. Exposed' = Exposed
      BY <1>3, <2>3
    <2>5. QED
      BY <1>2, <2>2, <2>4, BookSteps
  <1>8. QED
    BY <1>6, <1>7

LEMMA AppliedImplements ==
    ASSUME RoundInv, Frame, NEW r \in Rows, NEW n \in Claims, Applied(r, n)
    PROVE  [Book!Next]_(Book!vars)
  <1> SUFFICES ASSUME NEW a, a = outbox[r].attempt
               PROVE  [Book!Next]_(Book!vars)
    OBVIOUS
  <1>1. ~At(r, n, "none") /\ a \in Attempts /\ UNCHANGED spoken
    BY DEF Applied, ReportText, ReportUnusable, ReportRefused, ReportSent, ReportOutage,
           Reported, At, RoundInv, HostInv, V1TypeOK, TypeOK, Row
  <1>2. Known(r) /\ outbox'[r].attempt = a
    BY <1>1 DEF RoundInv, HostInv, ClaimsWereMade, Frame
  <1>3. RowsKeepTheirAttempt
    BY DEF RowsKeepTheirAttempt, RoundInv, BooksTypeOK, Frame
  <1>4. engine[a] # "none"
    <2>1. attempt[a].state # "none"
      BY <1>1, <1>2 DEF RoundInv, HostInv, DeliveryInv, QueueInv, RowsFollowAttempts
    <2>2. QED
      BY <1>1, <2>1 DEF RoundInv, BookOf
  <1>5. ASSUME NEW kind \in {"sent", "failed"}, Acknowledge(a, r, kind),
               kind = "sent" => spoken[a] > 0
        PROVE  [Book!Next]_(Book!vars)
    <2>1. BookOf(a) /\ BooksTypeOK
      BY <1>1 DEF RoundInv
    <2>2. /\ UNCHANGED engine
          /\ \A b \in Attempts \ {a} : ack'[b] = ack[b]
          /\ ack[a] \in {NoAck, ThisAck(r, kind)} /\ ack'[a] = ThisAck(r, kind)
          /\ exposures' = IF kind = "sent" THEN exposures \cup {r} ELSE exposures
      BY <1>1, <1>4, <1>5, <2>1, AcknowledgeBooks
    <2>3. QED
      BY <1>1, <1>2, <1>3, <1>4, <1>5, <2>2, AckCloses
  <1>6. CASE (ReportText(r, n) \/ ReportUnusable(r, n)) /\ NoteRendered(a)
    BY <1>1, <1>3, <1>6, BooksStutter DEF NoteRendered
  <1>7. CASE SettleAbandoned(a, r)
    <2>1. CASE Settle(a, r, "failed") /\ UNCHANGED engine
      <3>1. /\ ack[a] \in {NoAck, ThisAck(r, "failed")}
            /\ ack'[a] = ThisAck(r, "failed") /\ \A b \in Attempts \ {a} : ack'[b] = ack[b]
            /\ exposures' = exposures
        BY <1>1, <2>1, SettleBooks DEF RoundInv
      <3>2. QED
        BY <1>1, <1>2, <1>3, <1>4, <2>1, <3>1, AckCloses
    <2>2. CASE UNCHANGED <<ack, exposures, engine>>
      BY <1>1, <1>3, <2>2, BooksStutter
    <2>3. QED
      BY <1>7, <2>1, <2>2 DEF SettleAbandoned
  <1>8. CASE Acknowledge(a, r, "failed")
    BY <1>5, <1>8
  <1>9. CASE ReportSent(r, n) /\ Acknowledge(a, r, "sent")
    <2>1. <<r, n>> \in Spent(a)
      BY <1>9 DEF ReportSent, Spent
    <2>2. spoken[a] = Cardinality(Spent(a)) /\ IsFiniteSet(Spent(a)) /\ spoken[a] \in Nat
      BY <1>1 DEF RoundInv, HostInv, OneClaimEach, V1TypeOK
    <2>3. spoken[a] > 0
      BY <2>1, <2>2, FS_EmptySet
    <2>4. QED
      BY <1>5, <1>9, <2>3
  <1>10. CASE UNCHANGED bookvars
    BY <1>1, <1>3, <1>10, BooksStutter DEF bookvars
  <1>11. QED
    BY <1>6, <1>7, <1>8, <1>9, <1>10 DEF Applied

(* Of everything else, only the platform taking a message shows.           *)
LEMMA ElsewhereImplements ==
    ASSUME RoundInv, Frame, Elsewhere
    PROVE  [Book!Next]_(Book!vars)
  <1>1. RowsKeepTheirAttempt
    BY DEF RowsKeepTheirAttempt, RoundInv, BooksTypeOK, Frame
  <1>2. UNCHANGED <<engine, ack, exposures>>
    BY DEF Elsewhere, bookvars
  <1>3. ASSUME NEW r \in Rows, NEW n \in Claims, Transmit(r, n)
        PROVE  Book!Next
    <2>1. PICK a \in Attempts : a = outbox[r].attempt
      BY DEF RoundInv, HostInv, V1TypeOK, TypeOK, Row
    <2>2. /\ Known(r) /\ spoken \in [Attempts -> Nat]
          /\ spoken' = [spoken EXCEPT ![a] = @ + 1]
      BY <1>3, <2>1 DEF Transmit, At, RoundInv, HostInv, ClaimsWereMade, V1TypeOK
    <2>3. Said' = Said \cup {a}
      <3>1. spoken'[a] > 0 /\ \A b \in Attempts \ {a} : spoken'[b] = spoken[b]
        BY <2>2
      <3>2. QED
        BY <3>1 DEF Said
    <2>4. BookState(a) # "none"
      <3>1. attempt[a].state # "none"
        BY <2>1, <2>2 DEF RoundInv, HostInv, DeliveryInv, QueueInv, RowsFollowAttempts
      <3>2. engine[a] # "none" /\ BooksTypeOK
        BY <3>1 DEF RoundInv, BookOf
      <3>3. ack[a] # NoAck => ack[a].kind # "none"
        BY DEF RoundInv, BookOf
      <3>4. QED
        BY <3>2, <3>3 DEF BookState
    <2>5. UNCHANGED <<Booked, Exposed>>
      BY <1>1, <1>2 DEF Booked, BookState, Exposed, RowsKeepTheirAttempt
    <2>6. QED
      BY <2>3, <2>4, <2>5, BookSteps
  <1>4. ASSUME ~ \E r \in Rows, n \in Claims : Transmit(r, n)
        PROVE  UNCHANGED Book!vars
    <2>1. UNCHANGED spoken
      BY <1>4 DEF Elsewhere, Quiet, Recoordinate, Lease, Heartbeat, HostStep, FinishRender,
                  LoseContact, Ask, Verdict, PlatformRefuses
    <2>2. QED
      BY <1>1, <1>2, <2>1, BooksStutter
  <1>5. QED
    BY <1>3, <1>4

LEMMA CommitRoundImplements ==
    ASSUME RoundInv, NEW a \in Attempts, NEW r \in Rows, NEW e \in Engine, CommitRound(a, r, e)
    PROVE  Book!Next
  <1>1. /\ engine' = [engine EXCEPT ![a] = e] /\ UNCHANGED <<ack, exposures, spoken>>
        /\ attempt[a].state = "none" /\ ~Known(r)
        /\ \A q \in Rows \ {r} : outbox'[q] = outbox[q]
    BY DEF CommitRound, CommitDecided, CommitAtOnce, CommitAttempt, Quiet, Fresh, Known, RoundInv, HostInv, V1TypeOK, TypeOK
  <1>2. engine[a] = "none" /\ ack[a] = NoAck
    BY <1>1 DEF RoundInv, BookOf
  <1>3. engine \in [Attempts -> Engine \cup {"none"}] /\ e # "none"
    BY DEF RoundInv, BooksTypeOK, Engine
  <1>4. BookState(a) = "none" /\ BookState(a)' = "open"
           /\ \A b \in Attempts \ {a} : BookState(b)' = BookState(b)
    BY <1>1, <1>2, <1>3 DEF BookState
  <1>5. Booked' = [Booked EXCEPT ![a] = "open"]
    BY <1>4 DEF Booked
  <1>6. \A q \in exposures : outbox'[q] = outbox[q]
    BY <1>1 DEF RoundInv, BooksTypeOK
  <1>7. UNCHANGED <<Said, Exposed>>
    BY <1>1, <1>6 DEF Said, Exposed
  <1>8. QED
    BY <1>4, <1>5, <1>7, BookSteps

LEMMA RoundsImplement == RoundInv /\ [RoundNext]_roundvars => [Book!Next]_(Book!vars)
  <1> SUFFICES ASSUME RoundInv, [RoundNext]_roundvars PROVE [Book!Next]_(Book!vars)
    OBVIOUS
  <1>1. [V1Next]_v1vars
    BY RoundTranslates DEF RoundInv
  <1>2. Onward \/ UNCHANGED <<attempt, outbox>> => Frame
    BY <1>1, FrameHolds DEF RoundInv
  <1>3. ASSUME NEW r \in Rows, NEW n \in Claims, Applied(r, n)
        PROVE  [Book!Next]_(Book!vars)
    <2>1. Frame
      BY <1>2, <1>3 DEF Applied, Onward, Report
    <2>2. QED
      BY <1>3, <2>1, AppliedImplements
  <1>4. CASE Elsewhere
    <2>1. Frame
      BY <1>2, <1>4 DEF Elsewhere, Onward
    <2>2. QED
      BY <1>4, <2>1, ElsewhereImplements
  <1>5. ASSUME \/ \E r \in Rows, n \in Claims : HookFails(r, n)
               \/ Restart
               \/ UNCHANGED roundvars
        PROVE  [Book!Next]_(Book!vars)
    <2>1. UNCHANGED <<outbox, engine, ack, exposures, spoken>>
      BY <1>5 DEF HookFails, Restart, roundvars, bookvars, v1vars, vars
    <2>2. QED
      BY <2>1, BooksStutter DEF RowsKeepTheirAttempt
  <1>6. ASSUME NEW a \in Attempts, NEW r \in Rows, NEW e \in Engine, CommitRound(a, r, e)
        PROVE  Book!Next
    BY <1>6, CommitRoundImplements
  <1>7. QED
    BY <1>3, <1>4, <1>5, <1>6 DEF RoundNext

(* The rounds keep the books RoundBook promises: each opened once, closed  *)
(* at most once, as sent only with its message out and its exposure        *)
(* prepared, whatever reports are lost, repeated, late or rolled back.     *)
THEOREM KeepingTheBooks == RoundSpec => KeepsTheBooks
  <1>1. RoundInit => Book!Init
    BY DEF RoundInit, V1Init, Book!Init
  <1>2. QED
    BY <1>1, RoundsImplement, RoundInvariance, PTL DEF RoundSpec, KeepsTheBooks, Book!Spec
=============================================================================
