--------------------------- MODULE DeliveryProofs ---------------------------
(***************************************************************************)
(* Safety of module Delivery for every value of its constants.  The        *)
(* argument has two halves.  Every step but two narrows: no row comes to   *)
(* life, and an attempt that moves only moves towards its end and leaves   *)
(* no live row behind, unless it moves to "sent" (lemma NextStep).  The    *)
(* two that do not are CommitAttempt and the first usable render of an     *)
(* attempt, and each of them adds one row for an attempt that has none of  *)
(* its kind.  Type correctness, which everything rests on, comes first.    *)
(***************************************************************************)
EXTENDS MCDelivery, TLAPS

-----------------------------------------------------------------------------
(* Typing of the row operators.                                            *)

LEMMA RowTypes ==
    ASSUME NEW x \in Row
    PROVE  /\ \A s \in OutboxStatus : Released(x, s) \in Row
           /\ RetryStatus(x) \in OutboxStatus
           /\ \A w \in Owners : Claimed(x, w) \in Row
           /\ \A s \in OutboxStatus : Settled(x, s) \in Row
           /\ Acked(x) \in Row
           /\ \A t \in BOOLEAN : Nacked(x, t) \in Row
           /\ Requeued(x) \in Row
           /\ Cancelled(x) \in Row
  <1>1. RetryStatus(x) \in OutboxStatus
    BY DEF RetryStatus, OutboxStatus
  <1>2. \A s \in OutboxStatus : Released(x, s) \in Row
    BY DEF Row, Released
  <1>3. ASSUME NEW w \in Owners PROVE Claimed(x, w) \in Row
    <2>1. x.claims + 1 \in Nat
      BY DEF Row
    <2>2. "leased" \in OutboxStatus
      BY DEF OutboxStatus
    <2>3. QED
      BY <2>1, <2>2 DEF Row, Claimed
  <1>4. {"pending", "failed", "delivered", "cancelled"} \subseteq OutboxStatus
    BY DEF OutboxStatus
  <1>5. QED
    BY <1>1, <1>2, <1>3, <1>4 DEF Settled, Acked, Nacked, Requeued, Cancelled

LEMMA QueueTypes ==
    ASSUME NEW rows \in [Rows -> Row]
    PROVE  /\ \A A : CancelledFor(rows, A) \in [Rows -> Row]
           /\ Reclaimed(rows) \in [Rows -> Row]
  <1>1. ASSUME NEW A PROVE CancelledFor(rows, A) \in [Rows -> Row]
    <2>1. \A r \in Rows : [rows[r] EXCEPT !.status = "cancelled"] \in Row
      BY DEF Row, OutboxStatus
    <2>2. QED
      BY <2>1 DEF CancelledFor
  <1>2. Reclaimed(rows) \in [Rows -> Row]
    BY RowTypes DEF Reclaimed
  <1>3. QED
    BY <1>1, <1>2

LEMMA NewRowType ==
    ASSUME NEW k \in OutboxKind, NEW a \in Attempts
    PROVE  NewRow(k, a) \in Row
  BY DEF NewRow, Row, OutboxStatus

-----------------------------------------------------------------------------
(* Typing of the attempts.                                                 *)

LEMMA StateSets ==
    /\ PRE_SEND_STATES \subseteq AttemptState
    /\ TERMINAL_STATES \subseteq AttemptState
    /\ "sent" \in AttemptState
    /\ "none" \notin AttemptState
    /\ PRE_SEND_STATES \cap TERMINAL_STATES = {}
    /\ "sent" \notin PRE_SEND_STATES \cup TERMINAL_STATES
  BY DEF PRE_SEND_STATES, TERMINAL_STATES, IN_FLIGHT_STATES, AttemptState

(* Where a sweep or a failure report leaves an attempt that has not been   *)
(* sent: closed, and neither sent nor resolved.                            *)
LEMMA ClosingStates ==
    ASSUME NEW s \in PRE_SEND_STATES
    PROVE  /\ UndeliverableState(s) \in TERMINAL_STATES \ {"resolved"}
           /\ StalledState(s) \in TERMINAL_STATES \ {"resolved"}
  BY DEF PRE_SEND_STATES, TERMINAL_STATES, UndeliverableState, StalledState

LEMMA AttemptTypes ==
    ASSUME NEW att \in [Attempts -> AttemptRecord]
    PROVE  /\ \A A : Terminated(att, A) \in [Attempts -> AttemptRecord]
           /\ \A a \in Attempts, s \in AttemptState :
                [att[a] EXCEPT !.state = s, !.aged = FALSE] \in AttemptRecord
  <1>1. \A a \in Attempts, s \in AttemptState :
            [att[a] EXCEPT !.state = s, !.aged = FALSE] \in AttemptRecord
    BY DEF AttemptRecord
  <1>2. ASSUME NEW A PROVE Terminated(att, A) \in [Attempts -> AttemptRecord]
    <2>1. ASSUME NEW a \in Attempts, att[a].state \in PRE_SEND_STATES
          PROVE  [att[a] EXCEPT !.state = UndeliverableState(@), !.aged = FALSE] \in AttemptRecord
      <3>1. UndeliverableState(att[a].state) \in AttemptState
        BY <2>1, ClosingStates, StateSets
      <3>2. QED
        BY <3>1 DEF AttemptRecord
    <2>2. QED
      BY <2>1 DEF Terminated
  <1>3. QED
    BY <1>1, <1>2

LEMMA MovedToType ==
    ASSUME attempt \in [Attempts -> AttemptRecord],
           NEW a \in Attempts, NEW s \in AttemptState
    PROVE  MovedTo(a, s) \in [Attempts -> AttemptRecord]
  BY DEF MovedTo, AttemptRecord

(* A decision that takes an attempt anywhere takes it from before sending  *)
(* to aborted, or from sent to resolved.                                   *)
LEMMA ReconcileFacts ==
    ASSUME NEW s \in AttemptState, NEW d \in ReconcileAction,
           CanMove(s, ReconcileTarget(s, d))
    PROVE  /\ \/ ReconcileTarget(s, d) = s
              \/ ReconcileTarget(s, d) = "aborted" /\ s \in PRE_SEND_STATES
              \/ ReconcileTarget(s, d) = "resolved" /\ s = "sent"
           /\ d \in {"merge", "rerender"} => ReconcileTarget(s, d) = s
           /\ d \in {"abort", "resolved"} => ReconcileTarget(s, d) \in {"aborted", "resolved"}
  <1>1. d \in {"merge", "rerender"} => ReconcileTarget(s, d) = s
    BY DEF ReconcileTarget
  <1>2. d \in {"abort", "resolved"} =>
            ReconcileTarget(s, d) = IF d = "resolved" /\ s = "sent" THEN "resolved" ELSE "aborted"
    BY DEF ReconcileTarget
  <1>3. CanMove(s, "aborted") => s \in PRE_SEND_STATES \cup {"aborted"}
    BY DEF CanMove, TRANSITIONS, AttemptState, IN_FLIGHT_STATES, PRE_SEND_STATES, TERMINAL_STATES
  <1>4. QED
    BY <1>1, <1>2, <1>3 DEF ReconcileAction

LEMMA PassTypes ==
    /\ NoPass \in Pass
    /\ \A c \in MessageClass : [NoPass EXCEPT !.class = c] \in Pass
    /\ \A p \in Pass, A \in SUBSET Attempts : PassOver(p, A) \in Pass
  BY DEF NoPass, PassOver, Pass

LEMMA ObservedType ==
    ASSUME TypeOK, NEW A \in SUBSET Attempts
    PROVE  Observed(A) \in SUBSET Attempts
  BY DEF TypeOK, Observed

-----------------------------------------------------------------------------
(* Type correctness.                                                       *)

LEMMA TypeInit == Init => TypeOK
  <1> SUFFICES ASSUME Init PROVE TypeOK
    OBVIOUS
  <1>1. attempt \in [Attempts -> AttemptRecord]
    BY DEF Init, NoAttempt, AttemptRecord
  <1>2. AbsentRow \in Row
    <2>1. 1 \in Attempts
      BY DeliveryAssumption DEF Attempts
    <2>2. NewRow("render", 1) \in Row
      BY <2>1, NewRowType DEF OutboxKind
    <2>3. QED
      BY <2>2 DEF AbsentRow, Row, OutboxStatus
  <1>3. pass \in Pass
    BY PassTypes DEF Init
  <1>4. QED
    BY <1>1, <1>2, <1>3 DEF Init, TypeOK

LEMMA UpdateRowType ==
    ASSUME NEW r \in Rows, outbox \in [Rows -> Row], NEW x \in Row, UpdateRow(r, x)
    PROVE  outbox' \in [Rows -> Row]
  BY DEF UpdateRow

(* reconcile_attempt(), for whichever caller.                              *)
LEMMA ReconcileAttemptType ==
    ASSUME TypeOK, NEW a \in Attempts, NEW d \in ReconcileAction, ReconcileAttempt(a, d)
    PROVE  attempt' \in [Attempts -> AttemptRecord] /\ outbox' \in [Rows -> Row]
  <1> DEFINE to == ReconcileTarget(attempt[a].state, d)
  <1>1. attempt' \in [Attempts -> AttemptRecord]
    <2>1. CASE to = attempt[a].state
      BY <2>1 DEF ReconcileAttempt, TypeOK
    <2>2. CASE to # attempt[a].state
      <3>1. to \in AttemptState
        BY <2>2 DEF ReconcileTarget, AttemptState, TERMINAL_STATES, ReconcileAction
      <3>2. attempt' = MovedTo(a, to)
        BY <2>2 DEF ReconcileAttempt
      <3>3. QED
        BY <3>1, <3>2, MovedToType DEF TypeOK
    <2>3. QED
      BY <2>1, <2>2
  <1>2. Withdrawn(a) \in [Rows -> Row]
    <2>1. [r \in Rows |-> IF IsCurrentRow(r, a) THEN Cancelled(outbox[r])
                                                ELSE outbox[r]] \in [Rows -> Row]
      BY RowTypes DEF TypeOK
    <2>2. QED
      BY <2>1, QueueTypes DEF Withdrawn
  <1>3. QED
    BY <1>1, <1>2 DEF ReconcileAttempt, TypeOK

LEMMA TypeStep == TypeOK /\ [Next]_vars => TypeOK'
  <1> SUFFICES ASSUME TypeOK, [Next]_vars PROVE TypeOK'
    OBVIOUS
  <1> USE DEF TypeOK
  <1>1. ASSUME NEW a \in Attempts, NEW r \in Rows, CommitAttempt(a, r), cleared' \in BOOLEAN
        PROVE  TypeOK'
    <2>1. "committed" \in AttemptState /\ "render" \in OutboxKind
      BY StateSets DEF PRE_SEND_STATES, OutboxKind
    <2>2. attempt' \in [Attempts -> AttemptRecord]
      BY <1>1, <2>1, MovedToType DEF CommitAttempt
    <2>3. NewRow("render", a) \in Row
      BY <2>1, NewRowType
    <2>4. QED
      BY <1>1, <2>2, <2>3 DEF CommitAttempt
  <1>26. ASSUME NEW a \in Attempts, NEW r \in Rows, CommitDecided(a, r) \/ CommitAtOnce(a, r)
         PROVE  TypeOK'
    BY <1>1, <1>26 DEF CommitDecided, CommitAtOnce
  <1>27. ASSUME AskVerdict \/ RoundGivesUp PROVE TypeOK'
    BY <1>27 DEF AskVerdict, RoundGivesUp
  <1>2. ASSUME NEW r \in Rows, NEW w \in Owners, Claim(r, w) PROVE TypeOK'
    BY <1>2, RowTypes, UpdateRowType DEF Claim
  <1>3. ASSUME NEW r \in Rows, NEW w \in Caller, Ack(r, w) PROVE TypeOK'
    BY <1>3, RowTypes, UpdateRowType DEF Ack
  <1>4. ASSUME NEW r \in Rows, NEW w \in Caller, NEW t \in BOOLEAN, Nack(r, w, t) PROVE TypeOK'
    BY <1>4, RowTypes, UpdateRowType DEF Nack
  <1>5. ASSUME NEW r \in Rows, NEW w \in Caller, Requeue(r, w) PROVE TypeOK'
    BY <1>5, RowTypes, UpdateRowType DEF Requeue
  <1>6. ASSUME NEW r \in Rows, Extend(r) PROVE TypeOK'
    <2>1. [outbox[r] EXCEPT !.lapsed = FALSE] \in Row
      BY DEF Row
    <2>2. QED
      BY <1>6, <2>1, UpdateRowType DEF Extend
  <1>7. ASSUME NEW r \in Rows, RenderUsable(r) PROVE TypeOK'
    <2> DEFINE a == outbox[r].attempt
    <2>1. a \in Attempts /\ "ready_to_send" \in AttemptState /\ "send" \in OutboxKind
             /\ {"delivered", "failed"} \subseteq OutboxStatus
      BY StateSets DEF PRE_SEND_STATES, OutboxKind, OutboxStatus, Row
    <2>2. CASE Live(outbox[r]) /\ attempt[a].state \in RenderableStates
      <3>1. PICK q \in Rows :
                /\ attempt' = MovedTo(a, "ready_to_send")
                /\ outbox' = [outbox EXCEPT ![r] = Settled(@, "delivered"),
                                            ![q] = NewRow("send", a)]
        BY <1>7, <2>2 DEF RenderUsable
      <3>2. attempt' \in [Attempts -> AttemptRecord]
        BY <2>1, <3>1, MovedToType
      <3>3. Settled(outbox[r], "delivered") \in Row /\ NewRow("send", a) \in Row
        BY <2>1, RowTypes, NewRowType
      <3>4. QED
        BY <1>7, <3>1, <3>2, <3>3 DEF RenderUsable
    <2>3. CASE ~(Live(outbox[r]) /\ attempt[a].state \in RenderableStates)
      <3>1. /\ UpdateRow(r, IF attempt[a].state = "proposed"
                            THEN Cancelled(outbox[r])
                            ELSE Settled(outbox[r], "delivered"))
            /\ UNCHANGED attempt
        BY <1>7, <2>3 DEF RenderUsable
      <3>2. outbox' \in [Rows -> Row]
        BY <2>1, <3>1, RowTypes, UpdateRowType
      <3>3. QED
        BY <1>7, <3>1, <3>2 DEF RenderUsable
    <2>4. QED
      BY <2>2, <2>3
  <1>8. ASSUME NEW r \in Rows, RenderUnusable(r) PROVE TypeOK'
    <2>1. [outbox EXCEPT ![r] = Settled(@, "failed")] \in [Rows -> Row]
      BY RowTypes DEF OutboxStatus
    <2>2. QED
      BY <1>8, <2>1, QueueTypes, AttemptTypes DEF RenderUnusable
  <1>9. ASSUME NEW r \in Rows, ReportFailed(r) PROVE TypeOK'
    <2>1. [outbox EXCEPT ![r] = Nacked(@, TRUE)] \in [Rows -> Row]
      BY RowTypes
    <2>2. QED
      BY <1>9, <2>1, QueueTypes, AttemptTypes DEF ReportFailed
  <1>10. ASSUME NEW r \in Rows, MarkDelivered(r) PROVE TypeOK'
    <2> DEFINE a == outbox[r].attempt
    <2>1. a \in Attempts /\ "sent" \in AttemptState /\ "delivered" \in OutboxStatus
      BY StateSets DEF OutboxStatus, Row
    <2>2. attempt' \in [Attempts -> AttemptRecord] /\ charged' \in [Attempts -> Nat]
      BY <1>10, <2>1, MovedToType DEF MarkDelivered
    <2>3. outbox' \in [Rows -> Row]
      BY <1>10, <2>1, RowTypes, UpdateRowType DEF MarkDelivered
    <2>4. QED
      BY <1>10, <2>2, <2>3 DEF MarkDelivered
  <1>11. ASSUME Sweep PROVE TypeOK'
    BY <1>11, QueueTypes, AttemptTypes DEF Sweep
  <1>12. ASSUME Tick PROVE TypeOK'
    <2>1. Reclaimed(outbox) \in [Rows -> Row]
      BY QueueTypes
    <2>2. outbox' \in [Rows -> Row]
      <3> DEFINE swept == CancelledFor(Reclaimed(outbox), WithFailedRow(Reclaimed(outbox)))
                 silent == {a \in Attempts : Unanswered(a)}
      <3>1. swept \in [Rows -> Row]
        BY <2>1, QueueTypes
      <3>2. outbox' = CancelledFor(swept, silent)
        BY <1>12 DEF Tick
      <3> HIDE DEF swept, silent
      <3>3. \A A : CancelledFor(swept, A) \in [Rows -> Row]
        BY <3>1, QueueTypes
      <3>4. QED
        BY <3>2, <3>3
    <2>3. attempt' \in [Attempts -> AttemptRecord]
      <3> DEFINE closed == Terminated(attempt, WithFailedRow(Reclaimed(outbox)))
      <3>1. closed \in [Attempts -> AttemptRecord]
        BY AttemptTypes
      <3>2. \A s : StalledState(s) \in AttemptState
        BY DEF StalledState, AttemptState, TERMINAL_STATES
      <3>3. "resolved" \in AttemptState
        BY DEF AttemptState, TERMINAL_STATES
      <3>4. \A a \in Attempts :
              /\ [attempt[a] EXCEPT !.state = StalledState(@), !.aged = FALSE] \in AttemptRecord
              /\ [attempt[a] EXCEPT !.state = "resolved", !.aged = FALSE] \in AttemptRecord
        BY <3>2, <3>3 DEF AttemptRecord
      <3>5. QED
        BY <1>12, <3>1, <3>4 DEF Tick
    <2>4. observed' \in SUBSET Attempts
      BY <1>12, ObservedType DEF Tick
    <2>5. QED
      BY <1>12, <2>2, <2>3, <2>4 DEF Tick
  <1>13. ASSUME NEW c \in MessageClass, Ingest(c) PROVE TypeOK'
    <2>1. "resolved" \in AttemptState
      BY DEF AttemptState, TERMINAL_STATES
    <2>2. attempt' \in [Attempts -> AttemptRecord]
      <3>1. \A a \in Attempts :
                [attempt[a] EXCEPT !.state = "resolved", !.aged = FALSE] \in AttemptRecord
        BY <2>1, AttemptTypes
      <3>2. QED
        BY <1>13, <3>1 DEF Ingest
    <2>3. outbox' \in [Rows -> Row]
      <3>1. \E answered \in {{}, NewestSent} : outbox' = CancelledFor(outbox, answered)
        BY <1>13 DEF Ingest
      <3>2. \A A : CancelledFor(outbox, A) \in [Rows -> Row]
        BY QueueTypes
      <3>3. QED
        BY <3>1, <3>2
    <2>4. [NoPass EXCEPT !.class = c, !.known = Attempts \ InState({"none"})] \in Pass
      BY DEF NoPass, Pass
    <2>5. boundary' \in BOOLEAN
      BY <1>13 DEF Ingest
    <2>6. observed' \in SUBSET Attempts
      BY <1>13, ObservedType DEF Ingest, NewestSent, InState
    <2>7. pass' \in Pass
      BY <1>13, <2>1, <2>4 DEF Ingest
    <2>8. QED
      BY <1>13, <2>2, <2>3, <2>5, <2>6, <2>7 DEF Ingest
  <1>14. ASSUME ListPreSend PROVE TypeOK'
    <2>1. PassOver(pass, InState(PRE_SEND_STATES)) \in Pass
      BY PassTypes DEF InState
    <2>2. QED
      BY <1>14, <2>1 DEF ListPreSend
  <1>15. ASSUME NEW a \in Attempts, NEW d \in ReconcileAction, ReconcileNext(a, d)
         PROVE  TypeOK'
    <2>1. attempt' \in [Attempts -> AttemptRecord] /\ outbox' \in [Rows -> Row]
      BY <1>15, ReconcileAttemptType DEF ReconcileNext
    <2>2. PassOver(pass, pass.todo \ {a}) \in Pass
      <3>1. pass \in Pass /\ pass.todo \ {a} \in SUBSET Attempts
        BY DEF Pass
      <3>2. QED
        BY <3>1, PassTypes
    <2>3. QED
      BY <1>15, <2>1, <2>2 DEF ReconcileNext
  <1>16. ASSUME ReconcileRaises PROVE TypeOK'
    <2>1. NoPass \in Pass
      BY DEF NoPass, Pass
    <2>2. QED
      BY <1>16, <2>1 DEF ReconcileRaises
  <1>17. ASSUME NEW a \in Attempts, NEW d \in ReconcileAction, PostReconcile(a, d)
         PROVE  TypeOK'
    BY <1>17, ReconcileAttemptType DEF PostReconcile
  <1>19. ASSUME NEW a \in Attempts, ObserveReply(a) PROVE TypeOK'
    <2>1. "resolved" \in AttemptState
      BY DEF AttemptState, TERMINAL_STATES
    <2>2. observed' \in SUBSET Attempts
      BY <1>19, ObservedType DEF ObserveReply
    <2>3. attempt' \in [Attempts -> AttemptRecord]
      BY <1>19, <2>1, MovedToType DEF ObserveReply
    <2>4. outbox' \in [Rows -> Row]
      BY <1>19, QueueTypes DEF ObserveReply
    <2>5. QED
      BY <1>19, <2>2, <2>3, <2>4 DEF ObserveReply
  <1>20. ASSUME BoundaryLifts PROVE TypeOK'
    BY <1>20 DEF BoundaryLifts
  <1>21. ASSUME NEW a \in Attempts, Ages(a) PROVE TypeOK'
    <2>1. attempt' \in [Attempts -> AttemptRecord]
      BY <1>21 DEF Ages, AttemptRecord
    <2>2. QED
      BY <1>21, <2>1 DEF Ages
  <1>22. ASSUME NEW r \in Rows, LeaseLapses(r) PROVE TypeOK'
    <2>1. [outbox[r] EXCEPT !.lapsed = TRUE] \in Row
      BY DEF Row
    <2>2. QED
      BY <1>22, <2>1, UpdateRowType DEF LeaseLapses
  <1>23. ASSUME Crash PROVE TypeOK'
    <2>1. NoPass \in Pass
      BY DEF NoPass, Pass
    <2>2. QED
      BY <1>23, <2>1 DEF Crash
  <1>24. CASE UNCHANGED vars
    BY <1>24 DEF vars
  <1>25. QED
    BY <1>2, <1>3, <1>4, <1>5, <1>6, <1>7, <1>8, <1>9, <1>10, <1>11, <1>12,
       <1>13, <1>14, <1>15, <1>16, <1>17, <1>19, <1>20, <1>21, <1>22, <1>23,
       <1>24, <1>26, <1>27 DEF Next

(* Every state the store can reach is well typed: attempts, rows, charges, *)
(* boundary and passes keep their types under every handler, sweep, report *)
(* and crash.                                                              *)
THEOREM TypeCorrect == Spec => []TypeOK
  BY TypeInit, TypeStep, PTL DEF Spec

-----------------------------------------------------------------------------
(* The inductive invariant.                                                *)

(* A queued row has an attempt, and a send row one that was rendered.      *)
RowsFollowAttempts ==
    \A r \in Rows : Known(r) =>
        /\ attempt[outbox[r].attempt].state # "none"
        /\ outbox[r].kind = "send" =>
              attempt[outbox[r].attempt].state \notin {"proposed", "committed", "rendering"}

QueueInv == RowsEndWithTheirAttempt /\ OneRowPerKind /\ RowsFollowAttempts

(* A pass only lists attempts there are.  The one a boundary started still *)
(* has every attempt before it that could be sent, but for those langchao  *)
(* committed since the message, and it did that only if no boundary stood. *)
PassInv ==
    /\ \A a \in pass.todo : pass.listed /\ attempt[a].state # "none"
    /\ \A a \in pass.known : attempt[a].state # "none"
    /\ pass.class = "boundary" /\ pass.listed
          => \A a \in InState(PRE_SEND_STATES) :
                \/ a \in pass.todo
                \/ a \notin pass.known /\ ~boundary

DeliveryInv == TypeOK /\ QueueInv /\ ContactAccounting /\ PassInv

-----------------------------------------------------------------------------
(* What a narrowing step does.                                             *)

Narrowed(x, y) ==
    /\ y.kind = x.kind /\ y.attempt = x.attempt
    /\ y.status = "absent" <=> x.status = "absent"
    /\ Live(y) => Live(x)

(* The ways an attempt moves once it is rendered or given up.              *)
MovesOn(s, t) ==
    \/ s \in PRE_SEND_STATES /\ t \in TERMINAL_STATES \ {"resolved"}
    \/ s = "ready_to_send" /\ t = "sent"
    \/ s = "sent" /\ t = "resolved"

RowsNarrow == \A r \in Rows : Narrowed(outbox[r], outbox'[r])

AttemptsMoveOn ==
    \A a \in Attempts :
        \/ attempt'[a].state = attempt[a].state
        \/ attempt[a].state = "ready_to_send" /\ attempt'[a].state = "sent"
        \/ /\ MovesOn(attempt[a].state, attempt'[a].state)
           /\ \A r \in Rows : outbox[r].attempt = a => ~Live(outbox'[r])

ChargesTheSent ==
    \A a \in Attempts :
        charged'[a] = IF attempt[a].state = "ready_to_send" /\ attempt'[a].state = "sent"
                      THEN charged[a] + 1 ELSE charged[a]

Narrowing == RowsNarrow /\ AttemptsMoveOn /\ ChargesTheSent

-----------------------------------------------------------------------------
(* The row operators narrow.                                               *)

LEMMA RowsNarrowed ==
    ASSUME NEW x \in Row
    PROVE  /\ Narrowed(x, x)
           /\ \A s \in {"delivered", "failed"} : Narrowed(x, Settled(x, s)) /\ ~Live(Settled(x, s))
           /\ Narrowed(x, Acked(x))
           /\ \A t \in BOOLEAN : Narrowed(x, Nacked(x, t))
           /\ Narrowed(x, Requeued(x))
           /\ Narrowed(x, Cancelled(x)) /\ ~Live(Cancelled(x))
           /\ \A w \in Owners : x.status = "pending" => Narrowed(x, Claimed(x, w))
  <1>1. \A s : /\ Released(x, s).kind = x.kind
               /\ Released(x, s).attempt = x.attempt
               /\ Released(x, s).status = s
    BY DEF Released, Row
  <1>2. RetryStatus(x) \in {"pending", "failed"}
    BY DEF RetryStatus
  <1>3. \A w \in Owners : x.status = "pending" => Narrowed(x, Claimed(x, w))
    BY DEF Claimed, Row, Narrowed, Live
  <1>4. QED
    BY <1>1, <1>2, <1>3
       DEF Narrowed, Live, Settled, Acked, Nacked, Requeued, Cancelled

LEMMA CancelledForNarrows ==
    ASSUME NEW rows \in [Rows -> Row], NEW A, NEW r \in Rows
    PROVE  /\ Narrowed(rows[r], CancelledFor(rows, A)[r])
           /\ rows[r].attempt \in A => ~Live(CancelledFor(rows, A)[r])
           /\ rows[r].attempt \notin A => CancelledFor(rows, A)[r] = rows[r]
  <1>1. [rows[r] EXCEPT !.status = "cancelled"].kind = rows[r].kind
          /\ [rows[r] EXCEPT !.status = "cancelled"].attempt = rows[r].attempt
          /\ [rows[r] EXCEPT !.status = "cancelled"].status = "cancelled"
    BY DEF Row
  <1>2. QED
    BY <1>1 DEF CancelledFor, Narrowed, Live

LEMMA ReclaimedNarrows ==
    ASSUME NEW rows \in [Rows -> Row], NEW r \in Rows
    PROVE  Narrowed(rows[r], Reclaimed(rows)[r])
  <1>1. /\ Released(rows[r], RetryStatus(rows[r])).kind = rows[r].kind
        /\ Released(rows[r], RetryStatus(rows[r])).attempt = rows[r].attempt
        /\ Released(rows[r], RetryStatus(rows[r])).status \in {"pending", "failed"}
    BY DEF Released, Row, RetryStatus
  <1>2. QED
    BY <1>1 DEF Reclaimed, Narrowed, Live

LEMMA NarrowedTrans ==
    ASSUME NEW x, NEW y, NEW z, Narrowed(x, y), Narrowed(y, z)
    PROVE  Narrowed(x, z)
  BY DEF Narrowed

LEMMA TerminatedMovesOn ==
    ASSUME NEW att \in [Attempts -> AttemptRecord], NEW A, NEW a \in Attempts
    PROVE  IF a \in A /\ att[a].state \in PRE_SEND_STATES
           THEN Terminated(att, A)[a].state \in TERMINAL_STATES \ {"resolved"}
           ELSE Terminated(att, A)[a] = att[a]
  BY ClosingStates DEF Terminated, AttemptRecord

-----------------------------------------------------------------------------
(* Steps that narrow.                                                      *)

LEMMA OneRowNarrows ==
    ASSUME TypeOK, NEW r \in Rows, NEW x, Narrowed(outbox[r], x), UpdateRow(r, x)
    PROVE  RowsNarrow
  BY RowsNarrowed DEF TypeOK, UpdateRow, RowsNarrow

LEMMA OnlyRowsChange ==
    ASSUME TypeOK, RowsNarrow, UNCHANGED <<attempt, charged>>
    PROVE  Narrowing
  <1>1. AttemptsMoveOn
    BY DEF AttemptsMoveOn
  <1>2. ChargesTheSent
    BY DEF ChargesTheSent
  <1>3. QED
    BY <1>1, <1>2 DEF Narrowing

(* A report, a sweep or a user that closes the attempts of A and withdraws *)
(* their rows.                                                             *)
LEMMA ClosingNarrows ==
    ASSUME TypeOK, NEW A \in SUBSET Attempts, UNCHANGED charged, RowsNarrow,
           \A a \in Attempts \ A : attempt'[a].state = attempt[a].state,
           \A a \in A : attempt'[a].state # "sent" /\ MovesOn(attempt[a].state, attempt'[a].state),
           \A r \in Rows : outbox[r].attempt \in A => ~Live(outbox'[r])
    PROVE  Narrowing
  <1>1. AttemptsMoveOn
    BY DEF AttemptsMoveOn
  <1>2. ChargesTheSent
    BY DEF ChargesTheSent
  <1>3. QED
    BY <1>1, <1>2 DEF Narrowing

LEMMA ReportFailedNarrows ==
    ASSUME TypeOK, QueueInv, NEW r \in Rows, ReportFailed(r)
    PROVE  Narrowing
  <1> DEFINE a == outbox[r].attempt
             failed == [outbox EXCEPT ![r] = Nacked(@, TRUE)]
  <1>1. a \in Attempts /\ attempt \in [Attempts -> AttemptRecord] /\ outbox \in [Rows -> Row]
    BY DEF TypeOK, Row
  <1>2. failed \in [Rows -> Row] /\ \A q \in Rows : Narrowed(outbox[q], failed[q])
    BY <1>1, RowTypes, RowsNarrowed
  <1>3. \A q \in Rows : Narrowed(failed[q], CancelledFor(failed, {a})[q])
                          /\ (failed[q].attempt = a => ~Live(CancelledFor(failed, {a})[q]))
    BY <1>2, CancelledForNarrows
  <1>4. \A q \in Rows : failed[q].attempt = outbox[q].attempt
    BY <1>2 DEF Narrowed
  <1>5. CASE attempt[a].state \in PRE_SEND_STATES
    <2>1. outbox' = CancelledFor(failed, {a}) /\ attempt' = Terminated(attempt, {a})
             /\ UNCHANGED charged
      BY <1>5 DEF ReportFailed
    <2>2. RowsNarrow
      BY <2>1, <1>2, <1>3, NarrowedTrans DEF RowsNarrow
    <2>3. \A b \in Attempts \ {a} : attempt'[b].state = attempt[b].state
      BY <2>1, <1>1, TerminatedMovesOn
    <2>4. \A b \in {a} : attempt'[b].state # "sent" /\ MovesOn(attempt[b].state, attempt'[b].state)
      <3>1. attempt'[a].state \in TERMINAL_STATES \ {"resolved"}
        BY <2>1, <1>1, <1>5, TerminatedMovesOn
      <3>2. QED
        BY <3>1, <1>5, StateSets DEF MovesOn
    <2>5. \A q \in Rows : outbox[q].attempt \in {a} => ~Live(outbox'[q])
      BY <2>1, <1>3, <1>4
    <2>6. {a} \in SUBSET Attempts /\ UNCHANGED charged
      BY <1>1, <2>1
    <2>7. QED
      BY <2>2, <2>3, <2>4, <2>5, <2>6, ClosingNarrows
  <1>6. CASE attempt[a].state \notin PRE_SEND_STATES
    <2>1. outbox' = failed /\ attempt' = Terminated(attempt, {a}) /\ UNCHANGED charged
      BY <1>6 DEF ReportFailed
    <2>2. RowsNarrow
      BY <2>1, <1>2 DEF RowsNarrow
    <2>3. attempt' = attempt
      <3>1. \A b \in Attempts : attempt'[b] = attempt[b]
        BY <2>1, <1>1, <1>6, TerminatedMovesOn
      <3>2. attempt' \in [Attempts -> AttemptRecord]
        BY <2>1, <1>1, AttemptTypes
      <3>3. QED
        BY <1>1, <3>1, <3>2
    <2>4. QED
      BY <2>1, <2>2, <2>3, OnlyRowsChange
  <1>7. QED
    BY <1>5, <1>6

LEMMA RenderUnusableNarrows ==
    ASSUME TypeOK, QueueInv, NEW r \in Rows, RenderUnusable(r)
    PROVE  Narrowing
  <1> DEFINE a == outbox[r].attempt
             failed == [outbox EXCEPT ![r] = Settled(@, "failed")]
  <1>1. a \in Attempts /\ attempt \in [Attempts -> AttemptRecord] /\ outbox \in [Rows -> Row]
    BY DEF TypeOK, Row
  <1>2. failed \in [Rows -> Row] /\ \A q \in Rows : Narrowed(outbox[q], failed[q])
    <2>1. "failed" \in OutboxStatus
      BY DEF OutboxStatus
    <2>2. QED
      BY <1>1, <2>1, RowTypes, RowsNarrowed
  <1>3. \A q \in Rows : Narrowed(failed[q], CancelledFor(failed, {a})[q])
                          /\ (failed[q].attempt = a => ~Live(CancelledFor(failed, {a})[q]))
    BY <1>2, CancelledForNarrows
  <1>4. \A q \in Rows : failed[q].attempt = outbox[q].attempt
    BY <1>2 DEF Narrowed
  <1>5. outbox' = CancelledFor(failed, {a}) /\ attempt' = Terminated(attempt, {a})
           /\ UNCHANGED charged /\ attempt[a].state \in PRE_SEND_STATES
    BY DEF RenderUnusable, RenderableStates, PRE_SEND_STATES
  <1>6. RowsNarrow
    BY <1>5, <1>2, <1>3, NarrowedTrans DEF RowsNarrow
  <1>7. \A b \in Attempts \ {a} : attempt'[b].state = attempt[b].state
    BY <1>5, <1>1, TerminatedMovesOn
  <1>8. \A b \in {a} : attempt'[b].state # "sent" /\ MovesOn(attempt[b].state, attempt'[b].state)
    <2>1. attempt'[a].state \in TERMINAL_STATES \ {"resolved"}
      BY <1>1, <1>5, TerminatedMovesOn
    <2>2. QED
      BY <2>1, <1>5, StateSets DEF MovesOn
  <1>9. \A q \in Rows : outbox[q].attempt \in {a} => ~Live(outbox'[q])
    BY <1>5, <1>3, <1>4
  <1>10. {a} \in SUBSET Attempts /\ UNCHANGED charged
    BY <1>1, <1>5
  <1>11. QED
    BY <1>6, <1>7, <1>8, <1>9, <1>10, ClosingNarrows

LEMMA SweepNarrows ==
    ASSUME TypeOK, QueueInv, Sweep
    PROVE  Narrowing
  <1> DEFINE A == WithFailedRow(outbox)
  <1>1. A \in SUBSET Attempts /\ \A a \in A : attempt[a].state \in PRE_SEND_STATES
    BY DEF WithFailedRow
  <1>2. attempt' = Terminated(attempt, A) /\ outbox' = CancelledFor(outbox, A)
          /\ UNCHANGED charged
    BY DEF Sweep
  <1>3. RowsNarrow /\ \A r \in Rows : outbox[r].attempt \in A => ~Live(outbox'[r])
    BY <1>2, CancelledForNarrows DEF TypeOK, RowsNarrow
  <1>4. \A a \in Attempts \ A : attempt'[a].state = attempt[a].state
    BY <1>2, TerminatedMovesOn DEF TypeOK
  <1>5. \A a \in A : attempt'[a].state # "sent" /\ MovesOn(attempt[a].state, attempt'[a].state)
    BY <1>1, <1>2, TerminatedMovesOn, StateSets DEF TypeOK, MovesOn
  <1>6. QED
    BY <1>1, <1>2, <1>3, <1>4, <1>5, ClosingNarrows

(* A report of a delivery sends an attempt that is ready, and changes no   *)
(* state otherwise; whatever row it names, no row comes to life.           *)
LEMMA MarkDeliveredNarrows ==
    ASSUME TypeOK, QueueInv, NEW r \in Rows, MarkDelivered(r)
    PROVE  Narrowing
  <1> DEFINE a == outbox[r].attempt
  <1>1. a \in Attempts /\ outbox \in [Rows -> Row] /\ outbox[r] \in Row
          /\ attempt \in [Attempts -> AttemptRecord] /\ charged \in [Attempts -> Nat]
    BY DEF TypeOK, Row
  <1>2. RowsNarrow
    BY <1>1, RowsNarrowed, OneRowNarrows DEF MarkDelivered
  <1>3. CASE attempt[a].state = "ready_to_send"
    <2>1. attempt' = MovedTo(a, "sent") /\ charged' = [charged EXCEPT ![a] = @ + 1]
      BY <1>3 DEF MarkDelivered
    <2>2. attempt'[a].state = "sent" /\ \A b \in Attempts \ {a} : attempt'[b] = attempt[b]
      BY <1>1, <2>1 DEF MovedTo, AttemptRecord
    <2>3. AttemptsMoveOn
      BY <1>3, <2>2 DEF AttemptsMoveOn
    <2>4. ChargesTheSent
      BY <1>1, <1>3, <2>1, <2>2 DEF ChargesTheSent
    <2>5. QED
      BY <1>2, <2>3, <2>4 DEF Narrowing
  <1>4. CASE attempt[a].state # "ready_to_send"
    BY <1>2, <1>4, OnlyRowsChange DEF MarkDelivered
  <1>5. QED
    BY <1>3, <1>4

LEMMA TickNarrows ==
    ASSUME TypeOK, QueueInv, Tick
    PROVE  Narrowing
  <1> DEFINE reclaimed == Reclaimed(outbox)
             failed    == WithFailedRow(reclaimed)
             swept     == CancelledFor(reclaimed, failed)
             orphans   == {a \in Attempts \ failed : Orphaned(a, swept)}
             silent    == {a \in Attempts : Unanswered(a)}
             closed    == Terminated(attempt, failed)
             moved     == failed \cup orphans \cup silent
  <1>1. attempt \in [Attempts -> AttemptRecord] /\ outbox \in [Rows -> Row]
    BY DEF TypeOK
  <1>2. /\ reclaimed \in [Rows -> Row]
        /\ \A r \in Rows : Narrowed(outbox[r], reclaimed[r])
    BY <1>1, QueueTypes, ReclaimedNarrows
  <1>3. /\ swept \in [Rows -> Row]
        /\ \A r \in Rows : Narrowed(reclaimed[r], swept[r])
        /\ \A r \in Rows : reclaimed[r].attempt \in failed => ~Live(swept[r])
    BY <1>2, QueueTypes, CancelledForNarrows
  <1>4. /\ outbox' = CancelledFor(swept, silent)
        /\ UNCHANGED charged
        /\ attempt' = [a \in Attempts |->
                         IF a \in orphans
                         THEN [attempt[a] EXCEPT !.state = StalledState(@), !.aged = FALSE]
                         ELSE IF a \in silent
                         THEN [attempt[a] EXCEPT !.state = "resolved", !.aged = FALSE]
                         ELSE closed[a]]
    BY DEF Tick
  <1>5. \A r \in Rows : Narrowed(swept[r], outbox'[r])
                          /\ (swept[r].attempt \in silent => ~Live(outbox'[r]))
    BY <1>3, <1>4, CancelledForNarrows
  <1>6. RowsNarrow
    BY <1>2, <1>3, <1>5, NarrowedTrans DEF RowsNarrow
  <1>7. \A r \in Rows : /\ swept[r].attempt = outbox[r].attempt
                        /\ reclaimed[r].attempt = outbox[r].attempt
                        /\ Live(outbox'[r]) => Live(swept[r])
    BY <1>2, <1>3, <1>5 DEF Narrowed
  <1>8. /\ \A a \in failed \cup orphans : attempt[a].state \in PRE_SEND_STATES
        /\ \A a \in silent : attempt[a].state = "sent"
        /\ moved \in SUBSET Attempts
    BY DEF WithFailedRow, Orphaned, Unanswered
  <1>9. ASSUME NEW a \in Attempts \ moved PROVE attempt'[a].state = attempt[a].state
    <2>1. attempt'[a] = closed[a]
      BY <1>4
    <2>2. a \in Attempts /\ a \notin failed
      OBVIOUS
    <2>3. closed[a] = attempt[a]
      BY <1>1, <2>2, TerminatedMovesOn
    <2>4. QED
      BY <2>1, <2>3
  <1>10. ASSUME NEW a \in moved
         PROVE  attempt'[a].state # "sent" /\ MovesOn(attempt[a].state, attempt'[a].state)
    <2>1. CASE a \in orphans
      <3>1. attempt'[a].state = StalledState(attempt[a].state)
        BY <1>1, <1>4, <2>1 DEF AttemptRecord
      <3>2. attempt'[a].state \in TERMINAL_STATES \ {"resolved"}
        BY <3>1, <1>8, <2>1, ClosingStates
      <3>3. QED
        BY <3>2, <1>8, <2>1, StateSets DEF MovesOn
    <2>2. CASE a \in silent
      <3>1. a \notin orphans /\ a \in Attempts
        BY <2>2, <1>8, StateSets
      <3>2. attempt'[a].state = "resolved"
        BY <1>1, <1>4, <2>2, <3>1 DEF AttemptRecord
      <3>3. QED
        BY <3>2, <1>8, <2>2 DEF MovesOn
    <2>3. CASE a \in failed /\ a \notin silent
      <3>1. a \notin orphans /\ a \in Attempts
        BY <2>3, <1>8
      <3>2. attempt'[a].state \in TERMINAL_STATES \ {"resolved"}
        BY <1>1, <1>4, <1>8, <2>3, <3>1, TerminatedMovesOn
      <3>3. QED
        BY <3>2, <1>8, <2>3, StateSets DEF MovesOn
    <2>4. QED
      BY <2>1, <2>2, <2>3
  <1>11. ASSUME NEW r \in Rows, outbox[r].attempt \in moved PROVE ~Live(outbox'[r])
    <2>1. CASE outbox[r].attempt \in failed
      BY <2>1, <1>3, <1>7
    <2>2. CASE outbox[r].attempt \in orphans
      BY <2>2, <1>3, <1>7 DEF Orphaned, HasLiveRow
    <2>3. CASE outbox[r].attempt \in silent
      BY <2>3, <1>5, <1>7
    <2>4. QED
      BY <1>11, <2>1, <2>2, <2>3
  <1>12. QED
    BY <1>4, <1>6, <1>8, <1>9, <1>10, <1>11, ClosingNarrows

(* The user's reply, attributed or reported, closes sent messages only,    *)
(* and those have no live row.                                             *)
LEMMA IngestNarrows ==
    ASSUME TypeOK, QueueInv, NEW c \in MessageClass, Ingest(c)
    PROVE  Narrowing
  <1>1. attempt \in [Attempts -> AttemptRecord] /\ outbox \in [Rows -> Row]
    BY DEF TypeOK
  <1>2. PICK answered \in {{}, NewestSent} :
            /\ attempt' = [a \in Attempts |->
                             IF a \in answered
                             THEN [attempt[a] EXCEPT !.state = "resolved", !.aged = FALSE]
                             ELSE attempt[a]]
            /\ outbox' = CancelledFor(outbox, answered)
    BY DEF Ingest
  <1>3. answered \in SUBSET Attempts /\ \A a \in answered : attempt[a].state = "sent"
    BY DEF NewestSent, InState
  <1>4. RowsNarrow /\ \A r \in Rows : outbox[r].attempt \in answered => ~Live(outbox'[r])
    BY <1>1, <1>2, CancelledForNarrows DEF RowsNarrow
  <1>5. \A a \in Attempts \ answered : attempt'[a].state = attempt[a].state
    BY <1>2
  <1>6. \A a \in answered : attempt'[a].state # "sent" /\ MovesOn(attempt[a].state, attempt'[a].state)
    BY <1>1, <1>2, <1>3 DEF MovesOn, AttemptRecord
  <1>7. UNCHANGED charged
    BY DEF Ingest
  <1>8. QED
    BY <1>3, <1>4, <1>5, <1>6, <1>7, ClosingNarrows

LEMMA ObserveReplyNarrows ==
    ASSUME TypeOK, QueueInv, NEW a \in Attempts, ObserveReply(a)
    PROVE  Narrowing
  <1>1. attempt \in [Attempts -> AttemptRecord] /\ outbox \in [Rows -> Row]
    BY DEF TypeOK
  <1>2. CASE attempt[a].state = "sent"
    <2>1. RowsNarrow /\ \A r \in Rows : outbox[r].attempt \in {a} => ~Live(outbox'[r])
      BY <1>1, <1>2, CancelledForNarrows DEF RowsNarrow, ObserveReply
    <2>2. \A b \in Attempts \ {a} : attempt'[b].state = attempt[b].state
      BY <1>1, <1>2 DEF ObserveReply, MovedTo
    <2>3. \A b \in {a} : attempt'[b].state # "sent" /\ MovesOn(attempt[b].state, attempt'[b].state)
      BY <1>1, <1>2 DEF ObserveReply, MovedTo, MovesOn, AttemptRecord
    <2>4. {a} \in SUBSET Attempts /\ UNCHANGED charged
      BY DEF ObserveReply
    <2>5. QED
      BY <2>1, <2>2, <2>3, <2>4, ClosingNarrows
  <1>3. CASE attempt[a].state # "sent"
    <2>1. UNCHANGED <<attempt, outbox, charged>>
      BY <1>3 DEF ObserveReply
    <2>2. RowsNarrow
      BY <1>1, <2>1, RowsNarrowed DEF RowsNarrow
    <2>3. QED
      BY <2>1, <2>2, OnlyRowsChange
  <1>4. QED
    BY <1>2, <1>3

LEMMA WithdrawnNarrows ==
    ASSUME TypeOK, NEW a \in Attempts, NEW r \in Rows
    PROVE  /\ Narrowed(outbox[r], Withdrawn(a)[r])
           /\ outbox[r].attempt = a => ~Live(Withdrawn(a)[r])
  <1> DEFINE first == [q \in Rows |-> IF IsCurrentRow(q, a) THEN Cancelled(outbox[q])
                                                            ELSE outbox[q]]
  <1>1. first \in [Rows -> Row] /\ Narrowed(outbox[r], first[r])
    BY RowTypes, RowsNarrowed DEF TypeOK
  <1>2. Withdrawn(a) = CancelledFor(first, {a})
    BY DEF Withdrawn
  <1>3. Narrowed(first[r], CancelledFor(first, {a})[r])
          /\ (first[r].attempt \in {a} => ~Live(CancelledFor(first, {a})[r]))
    BY <1>1, CancelledForNarrows
  <1>4. first[r].attempt = outbox[r].attempt
    BY <1>1 DEF Narrowed
  <1>5. QED
    BY <1>1, <1>2, <1>3, <1>4, NarrowedTrans

(* Re-coordination of one attempt, by whichever caller.                    *)
LEMMA ReconcileNarrows ==
    ASSUME TypeOK, QueueInv, NEW a \in Attempts, NEW d \in ReconcileAction,
           attempt[a].state # "none", ReconcileAttempt(a, d), UNCHANGED charged
    PROVE  Narrowing
  <1> DEFINE s == attempt[a].state
             to == ReconcileTarget(s, d)
  <1>1. attempt \in [Attempts -> AttemptRecord] /\ outbox \in [Rows -> Row]
          /\ s \in AttemptState /\ CanMove(s, to)
    BY DEF TypeOK, AttemptRecord, ReconcileAttempt
  <1>2. RowsNarrow
    BY <1>1, WithdrawnNarrows, RowsNarrowed DEF ReconcileAttempt, RowsNarrow
  <1>3. CASE to = s
    BY <1>2, <1>3, OnlyRowsChange DEF ReconcileAttempt
  <1>4. CASE to # s
    <2>1. attempt' = MovedTo(a, to) /\ d \in {"abort", "resolved"}
             /\ outbox' = Withdrawn(a)
      BY <1>1, <1>4, ReconcileFacts DEF ReconcileAttempt, ReconcileAction
    <2>2. /\ \/ to = "aborted" /\ s \in PRE_SEND_STATES
             \/ to = "resolved" /\ s = "sent"
      BY <1>1, <1>4, ReconcileFacts
    <2>3. attempt'[a].state = to /\ \A b \in Attempts \ {a} : attempt'[b].state = attempt[b].state
      BY <1>1, <2>1 DEF MovedTo, AttemptRecord
    <2>4. \A b \in {a} : attempt'[b].state # "sent" /\ MovesOn(attempt[b].state, attempt'[b].state)
      BY <2>2, <2>3 DEF MovesOn, TERMINAL_STATES
    <2>5. \A r \in Rows : outbox[r].attempt \in {a} => ~Live(outbox'[r])
      BY <2>1, WithdrawnNarrows
    <2>6. {a} \in SUBSET Attempts
      OBVIOUS
    <2>7. QED
      BY <1>2, <2>3, <2>4, <2>5, <2>6, ClosingNarrows
  <1>5. QED
    BY <1>3, <1>4

(* The one way a report adds a row: the first usable text of a live render *)
(* row, whose attempt becomes ready to send through row q.                 *)
Readies(r, q) ==
    LET a == outbox[r].attempt IN
    /\ Live(outbox[r]) /\ outbox[r].kind = "render" /\ Fresh(q)
    /\ attempt' = MovedTo(a, "ready_to_send")
    /\ outbox' = [outbox EXCEPT ![r] = Settled(@, "delivered"), ![q] = NewRow("send", a)]
    /\ UNCHANGED <<charged, boundary, pass, cleared, observed>>

LEMMA RenderUsableStep ==
    ASSUME TypeOK, QueueInv, NEW r \in Rows, RenderUsable(r)
    PROVE  Narrowing \/ \E q \in Rows : Readies(r, q)
  <1> DEFINE a == outbox[r].attempt
  <1>1. CASE Live(outbox[r]) /\ attempt[a].state \in RenderableStates
    BY <1>1 DEF RenderUsable, Readies
  <1>2. CASE ~(Live(outbox[r]) /\ attempt[a].state \in RenderableStates)
    <2>1. /\ UpdateRow(r, IF attempt[a].state = "proposed"
                          THEN Cancelled(outbox[r])
                          ELSE Settled(outbox[r], "delivered"))
          /\ UNCHANGED <<attempt, charged>>
      BY <1>2 DEF RenderUsable
    <2>2. RowsNarrow
      BY <2>1, RowsNarrowed, OneRowNarrows DEF TypeOK
    <2>3. QED
      BY <2>1, <2>2, OnlyRowsChange
  <1>3. QED
    BY <1>1, <1>2

(* A commit of either kind.                                                *)
Commits(a, r) == CommitDecided(a, r) \/ CommitAtOnce(a, r)

(* Every step commits an attempt, queues a rendered message, or narrows.   *)
LEMMA NextStep ==
    ASSUME TypeOK, QueueInv, PassInv, Next
    PROVE  \/ \E a \in Attempts, r \in Rows : Commits(a, r)
           \/ \E r, q \in Rows : Readies(r, q)
           \/ Narrowing
  <1> SUFFICES ASSUME ~(\E a \in Attempts, r \in Rows : Commits(a, r)),
                      ~(\E r, q \in Rows : Readies(r, q))
               PROVE  Narrowing
    OBVIOUS
  <1> USE DEF TypeOK
  <1>1. ASSUME NEW r \in Rows, NEW w \in Owners, Claim(r, w) PROVE Narrowing
    BY <1>1, RowsNarrowed, OneRowNarrows, OnlyRowsChange DEF Claim
  <1>2. ASSUME NEW r \in Rows, NEW w \in Caller, Ack(r, w) PROVE Narrowing
    BY <1>2, RowsNarrowed, OneRowNarrows, OnlyRowsChange DEF Ack
  <1>3. ASSUME NEW r \in Rows, NEW w \in Caller, NEW t \in BOOLEAN, Nack(r, w, t) PROVE Narrowing
    BY <1>3, RowsNarrowed, OneRowNarrows, OnlyRowsChange DEF Nack
  <1>4. ASSUME NEW r \in Rows, NEW w \in Caller, Requeue(r, w) PROVE Narrowing
    BY <1>4, RowsNarrowed, OneRowNarrows, OnlyRowsChange DEF Requeue
  <1>5. ASSUME NEW r \in Rows, NEW b \in BOOLEAN,
               UpdateRow(r, [outbox[r] EXCEPT !.lapsed = b]), UNCHANGED <<attempt, charged>>
        PROVE  Narrowing
    <2>1. Narrowed(outbox[r], [outbox[r] EXCEPT !.lapsed = b])
      BY DEF Row, Narrowed, Live
    <2>2. QED
      BY <1>5, <2>1, OneRowNarrows, OnlyRowsChange
  <1>6. ASSUME NEW r \in Rows, Extend(r) \/ LeaseLapses(r) PROVE Narrowing
    BY <1>5, <1>6 DEF Extend, LeaseLapses
  <1>7. ASSUME NEW r \in Rows, RenderUsable(r) PROVE Narrowing
    BY <1>7, RenderUsableStep
  <1>8. ASSUME NEW r \in Rows,
               RenderUnusable(r) \/ ReportFailed(r) \/ MarkDelivered(r)
        PROVE  Narrowing
    BY <1>8, RenderUnusableNarrows, ReportFailedNarrows, MarkDeliveredNarrows
  <1>9. CASE Sweep \/ Tick
    BY <1>9, SweepNarrows, TickNarrows
  <1>10. ASSUME NEW c \in MessageClass, Ingest(c) PROVE Narrowing
    BY <1>10, IngestNarrows
  <1>11. ASSUME UNCHANGED <<outbox, charged>>,
                \A a \in Attempts : attempt'[a].state = attempt[a].state
         PROVE  Narrowing
    <2>1. RowsNarrow
      BY <1>11, RowsNarrowed DEF RowsNarrow
    <2>2. AttemptsMoveOn /\ ChargesTheSent
      BY <1>11 DEF AttemptsMoveOn, ChargesTheSent
    <2>3. QED
      BY <2>1, <2>2 DEF Narrowing
  <1>12. ASSUME ListPreSend \/ ReconcileRaises \/ BoundaryLifts \/ Crash
         PROVE  Narrowing
    BY <1>11, <1>12 DEF ListPreSend, ReconcileRaises, BoundaryLifts, Crash
  <1>13. ASSUME NEW a \in Attempts, Ages(a) PROVE Narrowing
    <2>1. \A b \in Attempts : attempt'[b].state = attempt[b].state
      BY <1>13 DEF Ages, AttemptRecord
    <2>2. QED
      BY <1>11, <1>13, <2>1 DEF Ages
  <1>14. ASSUME NEW a \in Attempts, NEW d \in ReconcileAction, ReconcileNext(a, d)
         PROVE  Narrowing
    <2>1. attempt[a].state # "none"
      BY <1>14 DEF ReconcileNext, IsOldest, PassInv
    <2>2. QED
      BY <1>14, <2>1, ReconcileNarrows DEF ReconcileNext
  <1>15. ASSUME NEW a \in Attempts, NEW d \in ReconcileAction, PostReconcile(a, d)
         PROVE  Narrowing
    BY <1>15, ReconcileNarrows DEF PostReconcile
  <1>16. ASSUME NEW a \in Attempts, ObserveReply(a) PROVE Narrowing
    BY <1>16, ObserveReplyNarrows
  <1>17. CASE AskVerdict \/ RoundGivesUp
    BY <1>11, <1>17 DEF AskVerdict, RoundGivesUp
  <1>18. QED
    BY <1>1, <1>2, <1>3, <1>4, <1>6, <1>7, <1>8, <1>9, <1>10, <1>12, <1>13, <1>14,
       <1>15, <1>16, <1>17 DEF Next, Commits

-----------------------------------------------------------------------------
(* The queue keeps its invariant.                                          *)

LEMMA NarrowingKeepsQueue ==
    ASSUME TypeOK, QueueInv, Narrowing
    PROVE  QueueInv'
  <1>1. ASSUME NEW r \in Rows
        PROVE  /\ outbox'[r].kind = outbox[r].kind
               /\ outbox'[r].attempt = outbox[r].attempt
               /\ outbox[r].attempt \in Attempts
               /\ Known(r)' <=> Known(r)
               /\ Live(outbox'[r]) => Live(outbox[r])
    BY DEF Narrowing, RowsNarrow, Narrowed, Known, TypeOK, Row
  <1>2. RowsEndWithTheirAttempt'
    <2> SUFFICES ASSUME NEW r \in Rows, Live(outbox'[r])
                 PROVE  attempt'[outbox'[r].attempt].state \in
                            IF outbox'[r].kind = "render" THEN {"committed"}
                                                          ELSE {"ready_to_send", "sent"}
      BY DEF RowsEndWithTheirAttempt
    <2> DEFINE a == outbox[r].attempt
    <2>1. \/ attempt'[a].state = attempt[a].state
          \/ attempt[a].state = "ready_to_send" /\ attempt'[a].state = "sent"
      BY <1>1 DEF Narrowing, AttemptsMoveOn
    <2>2. attempt[a].state \in IF outbox[r].kind = "render" THEN {"committed"}
                                                            ELSE {"ready_to_send", "sent"}
      BY <1>1 DEF QueueInv, RowsEndWithTheirAttempt
    <2>3. QED
      BY <1>1, <2>1, <2>2
  <1>3. OneRowPerKind'
    BY <1>1 DEF QueueInv, OneRowPerKind
  <1>4. RowsFollowAttempts'
    <2> SUFFICES ASSUME NEW r \in Rows, Known(r)'
                 PROVE  /\ attempt'[outbox'[r].attempt].state # "none"
                        /\ outbox'[r].kind = "send" =>
                              attempt'[outbox'[r].attempt].state
                                  \notin {"proposed", "committed", "rendering"}
      BY DEF RowsFollowAttempts
    <2> DEFINE a == outbox[r].attempt
    <2>1. \/ attempt'[a].state = attempt[a].state
          \/ attempt'[a].state \in TERMINAL_STATES \cup {"sent"}
      BY <1>1 DEF Narrowing, AttemptsMoveOn, MovesOn, TERMINAL_STATES
    <2>2. QED
      BY <1>1, <2>1 DEF QueueInv, RowsFollowAttempts, TERMINAL_STATES
  <1>5. QED
    BY <1>2, <1>3, <1>4 DEF QueueInv

LEMMA CommitKeepsQueue ==
    ASSUME TypeOK, QueueInv, NEW a \in Attempts, NEW r \in Rows, Commits(a, r)
    PROVE  QueueInv'
  <1>1. /\ attempt'[a].state = "committed"
        /\ \A b \in Attempts \ {a} : attempt'[b] = attempt[b]
        /\ outbox'[r] = NewRow("render", a)
        /\ \A q \in Rows \ {r} : outbox'[q] = outbox[q]
    BY DEF Commits, CommitDecided, CommitAtOnce, CommitAttempt, MovedTo, TypeOK, AttemptRecord
  <1>2. \A q \in Rows : Known(q) => outbox[q].attempt # a /\ outbox[q].attempt \in Attempts
    BY DEF Commits, CommitDecided, CommitAtOnce, CommitAttempt, QueueInv, RowsFollowAttempts, TypeOK, Row
  <1>3. ~Known(r)
    BY DEF Commits, CommitDecided, CommitAtOnce, CommitAttempt, Fresh, Known
  <1>4. /\ NewRow("render", a).kind = "render"
        /\ NewRow("render", a).attempt = a
        /\ NewRow("render", a).status = "pending"
    BY DEF NewRow
  <1>5. \A q \in Rows : Live(outbox[q]) => Known(q)
    BY DEF Live, Known
  <1>6. RowsEndWithTheirAttempt'
    BY <1>1, <1>2, <1>4, <1>5 DEF QueueInv, RowsEndWithTheirAttempt
  <1>7. OneRowPerKind'
    BY <1>1, <1>2, <1>4 DEF QueueInv, OneRowPerKind, Known
  <1>8. RowsFollowAttempts'
    BY <1>1, <1>2, <1>4 DEF QueueInv, RowsFollowAttempts, Known
  <1>9. QED
    BY <1>6, <1>7, <1>8 DEF QueueInv

LEMMA ReadiesKeepsQueue ==
    ASSUME TypeOK, QueueInv, NEW r \in Rows, NEW q \in Rows, Readies(r, q)
    PROVE  QueueInv'
  <1> DEFINE a == outbox[r].attempt
  <1>1. a \in Attempts /\ attempt[a].state = "committed" /\ Known(r) /\ ~Known(q) /\ q # r
          /\ outbox[r] \in Row /\ Live(outbox[r]) /\ outbox[r].kind = "render"
    BY DEF Readies, TypeOK, Row, QueueInv, RowsEndWithTheirAttempt, Live, Known, Fresh
  <1>2. /\ attempt'[a].state = "ready_to_send"
        /\ \A b \in Attempts \ {a} : attempt'[b] = attempt[b]
        /\ outbox'[r] = Settled(outbox[r], "delivered")
        /\ outbox'[q] = NewRow("send", a)
        /\ \A p \in Rows \ {r, q} : outbox'[p] = outbox[p]
    BY <1>1 DEF Readies, MovedTo, TypeOK, AttemptRecord
  <1>3. /\ NewRow("send", a).kind = "send"
        /\ NewRow("send", a).attempt = a
        /\ NewRow("send", a).status = "pending"
    BY DEF NewRow
  <1>4. /\ Settled(outbox[r], "delivered").kind = "render"
        /\ Settled(outbox[r], "delivered").attempt = a
        /\ Settled(outbox[r], "delivered").status = "delivered"
    BY <1>1 DEF Settled, Released, Row
  <1>5. \A p \in Rows : Known(p) /\ outbox[p].attempt = a => p = r
    <2>1. \A p \in Rows : Known(p) /\ outbox[p].attempt = a => outbox[p].kind = "render"
      BY <1>1 DEF QueueInv, RowsFollowAttempts, TypeOK, Row, OutboxKind
    <2>2. QED
      BY <1>1, <2>1 DEF QueueInv, OneRowPerKind
  <1>6. \A p \in Rows : outbox[p].attempt \in Attempts /\ (Live(outbox[p]) => Known(p))
    BY DEF TypeOK, Row, Live, Known
  <1>7. RowsEndWithTheirAttempt'
    <2> SUFFICES ASSUME NEW p \in Rows, Live(outbox'[p])
                 PROVE  attempt'[outbox'[p].attempt].state \in
                            IF outbox'[p].kind = "render" THEN {"committed"}
                                                          ELSE {"ready_to_send", "sent"}
      BY DEF RowsEndWithTheirAttempt
    <2>1. CASE p = r
      BY <2>1, <1>2, <1>4 DEF Live
    <2>2. CASE p = q
      BY <2>2, <1>2, <1>3
    <2>3. CASE p \notin {r, q}
      BY <2>3, <1>2, <1>5, <1>6 DEF QueueInv, RowsEndWithTheirAttempt
    <2>4. QED
      BY <2>1, <2>2, <2>3
  <1>8. OneRowPerKind'
    <2> SUFFICES ASSUME NEW x \in Rows, NEW y \in Rows, Known(x)', Known(y)',
                        outbox'[x].attempt = outbox'[y].attempt,
                        outbox'[x].kind = outbox'[y].kind
                 PROVE  x = y
      BY DEF OneRowPerKind
    <2>1. \A p \in Rows \ {q} : /\ Known(p)' => Known(p)
                                /\ outbox'[p].attempt = outbox[p].attempt
                                /\ outbox'[p].kind = outbox[p].kind
      BY <1>1, <1>2, <1>4 DEF Known
    <2>2. CASE x # q /\ y # q
      BY <2>1, <2>2 DEF QueueInv, OneRowPerKind
    <2>3. ASSUME NEW p \in Rows \ {q}, Known(p)', outbox'[p].attempt = a
          PROVE  outbox'[p].kind = "render"
      BY <2>1, <2>3, <1>1, <1>5
    <2>4. QED
      BY <2>2, <2>3, <1>2, <1>3
  <1>9. RowsFollowAttempts'
    <2> SUFFICES ASSUME NEW p \in Rows, Known(p)'
                 PROVE  /\ attempt'[outbox'[p].attempt].state # "none"
                        /\ outbox'[p].kind = "send" =>
                              attempt'[outbox'[p].attempt].state
                                  \notin {"proposed", "committed", "rendering"}
      BY DEF RowsFollowAttempts
    <2>1. CASE p \in {r, q}
      BY <2>1, <1>2, <1>3, <1>4
    <2>2. CASE p \notin {r, q}
      BY <2>2, <1>2, <1>5, <1>6 DEF QueueInv, RowsFollowAttempts, Known
    <2>3. QED
      BY <2>1, <2>2
  <1>10. QED
    BY <1>7, <1>8, <1>9 DEF QueueInv

-----------------------------------------------------------------------------
(* The other parts of the invariant.                                       *)

LEMMA QueueStep ==
    ASSUME TypeOK, QueueInv, PassInv, [Next]_vars
    PROVE  QueueInv'
  <1>1. CASE Next
    BY <1>1, NextStep, NarrowingKeepsQueue, CommitKeepsQueue, ReadiesKeepsQueue
  <1>2. CASE UNCHANGED vars
    BY <1>2 DEF vars, QueueInv, RowsEndWithTheirAttempt, OneRowPerKind,
                RowsFollowAttempts, Known
  <1>3. QED
    BY <1>1, <1>2

(* How far one step takes one attempt.                                     *)
LEMMA AttemptStep ==
    ASSUME TypeOK, QueueInv, PassInv, Next, NEW a \in Attempts
    PROVE  \/ attempt'[a].state = attempt[a].state
           \/ /\ attempt[a].state = "none" /\ attempt'[a].state = "committed"
              /\ SessionFree \/ ~boundary
              /\ UNCHANGED <<boundary, pass>>
           \/ attempt[a].state = "committed" /\ attempt'[a].state = "ready_to_send"
           \/ MovesOn(attempt[a].state, attempt'[a].state)
  <1>1. ASSUME NEW b \in Attempts, NEW r \in Rows, Commits(b, r)
        PROVE  \/ attempt'[a].state = attempt[a].state
               \/ /\ attempt[a].state = "none" /\ attempt'[a].state = "committed"
                  /\ SessionFree \/ ~boundary
                  /\ UNCHANGED <<boundary, pass>>
    BY <1>1 DEF Commits, CommitDecided, CommitAtOnce, CommitAttempt, MovedTo, TypeOK, AttemptRecord
  <1>2. ASSUME NEW r \in Rows, NEW q \in Rows, Readies(r, q)
        PROVE  \/ attempt'[a].state = attempt[a].state
               \/ attempt[a].state = "committed" /\ attempt'[a].state = "ready_to_send"
    <2>1. attempt[outbox[r].attempt].state = "committed" /\ outbox[r].attempt \in Attempts
      BY <1>2 DEF Readies, QueueInv, RowsEndWithTheirAttempt, TypeOK, Row
    <2>2. QED
      BY <1>2, <2>1 DEF Readies, MovedTo, TypeOK, AttemptRecord
  <1>3. CASE Narrowing
    BY <1>3 DEF Narrowing, AttemptsMoveOn, MovesOn
  <1>4. QED
    BY <1>1, <1>2, <1>3, NextStep

LEMMA ChargeStep ==
    ASSUME TypeOK, QueueInv, PassInv, ContactAccounting, [Next]_vars
    PROVE  ContactAccounting'
  <1>1. CASE Narrowing
    <2> SUFFICES ASSUME NEW a \in Attempts
                 PROVE  charged'[a] = IF attempt'[a].state \in {"sent", "resolved"} THEN 1 ELSE 0
      BY DEF ContactAccounting
    <2>1. \/ attempt'[a].state = attempt[a].state
          \/ MovesOn(attempt[a].state, attempt'[a].state)
      BY <1>1 DEF Narrowing, AttemptsMoveOn, MovesOn
    <2>2. charged'[a] = IF attempt[a].state = "ready_to_send" /\ attempt'[a].state = "sent"
                        THEN charged[a] + 1 ELSE charged[a]
      BY <1>1 DEF Narrowing, ChargesTheSent
    <2>3. charged[a] = IF attempt[a].state \in {"sent", "resolved"} THEN 1 ELSE 0
      BY DEF ContactAccounting
    <2>4. QED
      BY <2>1, <2>2, <2>3 DEF MovesOn, PRE_SEND_STATES, TERMINAL_STATES
  <1>2. ASSUME UNCHANGED charged,
               \A a \in Attempts :
                  \/ attempt'[a].state = attempt[a].state
                  \/ /\ attempt[a].state \in {"none", "committed"}
                     /\ attempt'[a].state \in {"committed", "ready_to_send"}
        PROVE  ContactAccounting'
    BY <1>2 DEF ContactAccounting
  <1>3. ASSUME NEW a \in Attempts, NEW r \in Rows, Commits(a, r) PROVE ContactAccounting'
    BY <1>2, <1>3 DEF Commits, CommitDecided, CommitAtOnce, CommitAttempt, MovedTo, TypeOK, AttemptRecord
  <1>4. ASSUME NEW r \in Rows, NEW q \in Rows, Readies(r, q) PROVE ContactAccounting'
    <2>1. attempt[outbox[r].attempt].state = "committed" /\ outbox[r].attempt \in Attempts
      BY <1>4 DEF Readies, QueueInv, RowsEndWithTheirAttempt, TypeOK, Row
    <2>2. QED
      BY <1>2, <1>4, <2>1 DEF Readies, MovedTo, TypeOK, AttemptRecord
  <1>5. CASE UNCHANGED vars
    BY <1>2, <1>5 DEF vars
  <1>6. QED
    BY <1>1, <1>3, <1>4, <1>5, NextStep

(* What a boundary decides of an attempt leaves it closed or sent.         *)
LEMMA BoundaryDecision ==
    ASSUME TypeOK, NEW a \in Attempts, NEW d \in Decisions("boundary"),
           attempt[a].state # "none", ReconcileAttempt(a, d)
    PROVE  attempt'[a].state \notin PRE_SEND_STATES
  <1> DEFINE s == attempt[a].state
             to == ReconcileTarget(s, d)
  <1>1. s \in AttemptState /\ d \in {"abort", "resolved"} /\ d \in ReconcileAction
          /\ CanMove(s, to)
    BY DEF TypeOK, AttemptRecord, Decisions, ReconcileAction, ReconcileAttempt
  <1>2. to \in {"aborted", "resolved"}
    BY <1>1, ReconcileFacts
  <1>3. attempt'[a].state = to
    BY DEF ReconcileAttempt, MovedTo, TypeOK, AttemptRecord
  <1>4. QED
    BY <1>2, <1>3 DEF PRE_SEND_STATES

(* Only a message puts a boundary up.                                      *)
LEMMA BoundaryStep ==
    ASSUME Next
    PROVE  (boundary' => boundary) \/ \E c \in MessageClass : Ingest(c)
  BY DEF Next, AskVerdict, CommitDecided, RoundGivesUp, CommitAtOnce, CommitAttempt, Claim,
         Ack, Nack, Requeue, Extend, RenderUsable, RenderUnusable, ReportFailed,
         MarkDelivered, Sweep, Tick, ListPreSend, PostReconcile, ReconcileNext,
         ReconcileRaises, ObserveReply, BoundaryLifts, Ages,
         LeaseLapses, Crash

(* What the pass of a boundary message has yet to reach, if it is listed.  *)
Covered(a) == \/ a \in pass.todo
              \/ a \notin pass.known /\ ~boundary

LEMMA PassStep ==
    ASSUME TypeOK, QueueInv, PassInv, [Next]_vars
    PROVE  PassInv'
  <1>1. CASE UNCHANGED vars
    BY <1>1 DEF vars, PassInv, InState
  <1>2. ASSUME Next
        PROVE  PassInv'
    <2> USE DEF TypeOK
    <2>1. \A a \in Attempts : attempt[a].state # "none" => attempt'[a].state # "none"
      BY <1>2, AttemptStep DEF MovesOn, TERMINAL_STATES
    <2>2. ASSUME NEW a \in Attempts, attempt'[a].state \in PRE_SEND_STATES
          PROVE  \/ attempt[a].state \in PRE_SEND_STATES
                 \/ /\ attempt[a].state = "none"
                    /\ SessionFree \/ ~boundary
                    /\ UNCHANGED <<boundary, pass>>
      BY <1>2, <2>2, AttemptStep, StateSets DEF MovesOn, PRE_SEND_STATES, TERMINAL_STATES
    <2>3. pass \in Pass
      OBVIOUS
    <2>4. ASSUME boundary' => boundary, pass' \in {pass, NoPass}
          PROVE  PassInv'
      <3>1. NoPass.class = "none" /\ NoPass.todo = {} /\ NoPass.known = {}
        BY DEF NoPass
      <3>2. pass.todo \subseteq Attempts /\ pass.known \subseteq Attempts
        BY <2>3 DEF Pass
      <3>3. /\ \A a \in pass'.todo : pass'.listed /\ attempt'[a].state # "none"
            /\ \A a \in pass'.known : attempt'[a].state # "none"
        BY <2>1, <2>4, <3>1, <3>2 DEF PassInv
      <3>4. ASSUME pass'.class = "boundary", pass'.listed, NEW a \in InState(PRE_SEND_STATES)'
            PROVE  Covered(a)'
        <4>1. pass' = pass
          BY <2>4, <3>1, <3>4
        <4>2. a \in Attempts /\ attempt'[a].state \in PRE_SEND_STATES
          BY <3>4 DEF InState
        <4>3. CASE attempt[a].state \in PRE_SEND_STATES
          BY <2>4, <3>4, <4>1, <4>2, <4>3 DEF PassInv, InState, Covered
        <4>4. CASE attempt[a].state = "none" /\ (SessionFree \/ ~boundary)
          <5>1. a \notin pass.known
            BY <4>4 DEF PassInv
          <5>2. ~boundary
            BY <3>4, <4>1, <4>4 DEF SessionFree
          <5>3. QED
            BY <2>4, <4>1, <5>1, <5>2 DEF Covered
        <4>5. QED
          BY <2>2, <4>2, <4>3, <4>4
      <3>5. QED
        BY <3>3, <3>4 DEF PassInv, Covered
    <2>5. CASE pass' = pass /\ (boundary' => boundary)
      BY <2>4, <2>5
    <2>6. CASE Crash \/ ReconcileRaises
      BY <2>4, <2>6 DEF Crash, ReconcileRaises
    <2>7. ASSUME NEW c \in MessageClass, Ingest(c) PROVE PassInv'
      <3>1. pass' = [NoPass EXCEPT !.class = c, !.known = Attempts \ InState({"none"})]
        BY <2>7 DEF Ingest
      <3>2. /\ pass'.todo = {} /\ pass'.listed = FALSE
            /\ pass'.known = Attempts \ InState({"none"})
        BY <3>1 DEF NoPass
      <3>3. QED
        BY <2>1, <3>2 DEF PassInv, InState
    <2>8. CASE ListPreSend
      <3> DEFINE A == InState(PRE_SEND_STATES)
      <3>1. pass' = PassOver(pass, A) /\ UNCHANGED <<attempt, boundary>>
        BY <2>8 DEF ListPreSend
      <3>2. CASE A = {}
        BY <2>4, <3>1, <3>2 DEF PassOver
      <3>3. CASE A # {}
        <4>1. pass'.todo = A /\ pass'.listed /\ pass'.known = pass.known
          BY <2>3, <3>1, <3>3 DEF PassOver, Pass
        <4>2. \A a \in A : attempt[a].state # "none"
          BY StateSets DEF InState
        <4>3. /\ \A a \in pass'.todo : pass'.listed /\ attempt'[a].state # "none"
              /\ \A a \in pass'.known : attempt'[a].state # "none"
          BY <3>1, <4>1, <4>2 DEF PassInv
        <4>4. ASSUME NEW a \in InState(PRE_SEND_STATES)' PROVE Covered(a)'
          BY <3>1, <4>1 DEF Covered, InState
        <4>5. QED
          BY <4>3, <4>4 DEF PassInv, Covered
      <3>4. QED
        BY <3>2, <3>3
    <2>9. ASSUME NEW a \in Attempts, NEW d \in ReconcileAction, ReconcileNext(a, d)
          PROVE  PassInv'
      <3> DEFINE A == pass.todo \ {a}
      <3>1. pass' = PassOver(pass, A) /\ UNCHANGED boundary
        BY <2>9 DEF ReconcileNext
      <3>2. CASE A = {}
        BY <2>4, <3>1, <3>2 DEF PassOver
      <3>3. CASE A # {}
        <4>1. /\ pass'.todo = A /\ pass'.listed
              /\ pass'.known = pass.known /\ pass'.class = pass.class
          BY <2>3, <3>1, <3>3 DEF PassOver, Pass
        <4>2. /\ \A b \in pass'.todo : pass'.listed /\ attempt'[b].state # "none"
              /\ \A b \in pass'.known : attempt'[b].state # "none"
          BY <2>1, <2>3, <4>1 DEF PassInv, Pass
        <4>3. pass.listed /\ attempt[a].state # "none" /\ a \in pass.todo
          BY <2>9 DEF ReconcileNext, IsOldest, PassInv
        <4>4. ASSUME pass'.class = "boundary", NEW b \in InState(PRE_SEND_STATES)'
              PROVE  Covered(b)'
          <5>1. pass.class = "boundary"
            BY <4>1, <4>4
          <5>2. b \in Attempts /\ attempt'[b].state \in PRE_SEND_STATES
            BY <4>4 DEF InState
          <5>3. CASE attempt[b].state = "none" /\ (SessionFree \/ ~boundary)
            <6>1. b \notin pass.known /\ ~boundary
              BY <5>1, <5>3 DEF PassInv, SessionFree
            <6>2. QED
              BY <3>1, <4>1, <6>1 DEF Covered
          <5>4. CASE attempt[b].state \in PRE_SEND_STATES
            <6>1. Covered(b)
              BY <4>3, <5>1, <5>2, <5>4 DEF PassInv, InState, Covered
            <6>2. attempt'[a].state \notin PRE_SEND_STATES
              BY <2>9, <4>3, <5>1, BoundaryDecision DEF ReconcileNext
            <6>3. b # a
              BY <5>2, <6>2
            <6>4. QED
              BY <3>1, <4>1, <6>1, <6>3 DEF Covered
          <5>5. QED
            BY <2>2, <5>2, <5>3, <5>4
        <4>5. QED
          BY <4>2, <4>4 DEF PassInv, Covered
      <3>4. QED
        BY <3>2, <3>3
    <2>10. \/ UNCHANGED pass
           \/ Crash \/ ReconcileRaises \/ ListPreSend
           \/ \E c \in MessageClass : Ingest(c)
           \/ \E a \in Attempts, d \in ReconcileAction : ReconcileNext(a, d)
      BY <1>2
         DEF Next, AskVerdict, CommitDecided, RoundGivesUp, CommitAtOnce, CommitAttempt,
             Claim, Ack, Nack, Requeue, Extend, RenderUsable, RenderUnusable,
             ReportFailed, MarkDelivered, Sweep, Tick, PostReconcile, ObserveReply,
             BoundaryLifts, Ages, LeaseLapses
    <2>11. QED
      BY <1>2, <2>5, <2>6, <2>7, <2>8, <2>9, <2>10, BoundaryStep
  <1>3. QED
    BY <1>1, <1>2

-----------------------------------------------------------------------------
(* The theorems.                                                           *)

LEMMA InvInit == Init => DeliveryInv
  <1> SUFFICES ASSUME Init PROVE DeliveryInv
    OBVIOUS
  <1>1. TypeOK
    BY TypeInit
  <1>2. \A r \in Rows : ~Live(outbox[r]) /\ ~Known(r)
    <2>1. AbsentRow.status = "absent"
      BY DEF AbsentRow, NewRow
    <2>2. QED
      BY <2>1 DEF Init, Live, Known
  <1>3. QueueInv
    BY <1>2 DEF QueueInv, RowsEndWithTheirAttempt, OneRowPerKind, RowsFollowAttempts
  <1>4. ContactAccounting
    BY DEF Init, NoAttempt, ContactAccounting
  <1>5. PassInv
    BY DEF Init, PassInv, NoPass
  <1>6. QED
    BY <1>1, <1>3, <1>4, <1>5 DEF DeliveryInv

LEMMA InvStep == DeliveryInv /\ [Next]_vars => DeliveryInv'
  BY TypeStep, QueueStep, ChargeStep, PassStep DEF DeliveryInv

(* The inductive invariant holds in every reachable state of the store.    *)
THEOREM Invariance == Spec => []DeliveryInv
  BY InvInit, InvStep, PTL DEF Spec

(* No attempt is offered for rendering once it is rendered, and a closed   *)
(* one is not offered at all, whichever row a report names and whoever     *)
(* claims, sweeps, speaks or crashes.                                      *)
THEOREM RowsEnd == Spec => []RowsEndWithTheirAttempt
  <1>1. DeliveryInv => RowsEndWithTheirAttempt
    BY DEF DeliveryInv, QueueInv
  <1>2. QED
    BY <1>1, Invariance, PTL

(* No render is ever queued twice, and no message has two send rows.       *)
THEOREM RowsAreUnique == Spec => []OneRowPerKind
  <1>1. DeliveryInv => OneRowPerKind
    BY DEF DeliveryInv, QueueInv
  <1>2. QED
    BY <1>1, Invariance, PTL

(* Every contact is charged exactly once, whatever is reported again.      *)
THEOREM ContactsAreCounted == Spec => []ContactAccounting
  <1>1. DeliveryInv => ContactAccounting
    BY DEF DeliveryInv
  <1>2. QED
    BY <1>1, Invariance, PTL

(* No handler reopens a closed attempt or unsends a sent one.              *)
THEOREM HistoryStands == Spec => HistoryIsKept
  <1> DEFINE Kept ==
        \A a \in Attempts :
            /\ attempt[a].state \in TERMINAL_STATES => attempt'[a].state = attempt[a].state
            /\ attempt[a].state = "sent" => attempt'[a].state \in {"sent", "resolved"}
  <1>1. DeliveryInv /\ [Next]_vars => [Kept]_vars
    <2> SUFFICES ASSUME DeliveryInv, Next, NEW a \in Attempts
                 PROVE  /\ attempt[a].state \in TERMINAL_STATES =>
                              attempt'[a].state = attempt[a].state
                        /\ attempt[a].state = "sent" => attempt'[a].state \in {"sent", "resolved"}
      OBVIOUS
    <2>1. \/ attempt'[a].state = attempt[a].state
          \/ attempt[a].state \in {"none", "committed"}
          \/ MovesOn(attempt[a].state, attempt'[a].state)
      BY AttemptStep DEF DeliveryInv
    <2>2. QED
      BY <2>1 DEF MovesOn, PRE_SEND_STATES, TERMINAL_STATES
  <1>2. QED
    BY <1>1, Invariance, PTL DEF Spec, HistoryIsKept

(* When the pass of a boundary message ends, no attempt there was when the *)
(* message came can still be sent, and while the boundary stands none at   *)
(* all, for any number of attempts and any interleaving.                   *)
THEOREM BoundariesClear == Spec => BoundaryClears
  <1> DEFINE Clears ==
        /\ pass.class = "boundary"
        /\ \/ ListPreSend
           \/ \E a \in Attempts, d \in ReconcileAction : ReconcileNext(a, d)
        /\ pass' = NoPass
        => \A a \in Attempts : attempt'[a].state \in PRE_SEND_STATES =>
               a \notin pass.known /\ ~boundary
  <1>1. DeliveryInv /\ [Next]_vars => [Clears]_vars
    <2> SUFFICES ASSUME DeliveryInv,
                        pass.class = "boundary", pass' = NoPass,
                        \/ ListPreSend
                        \/ \E a \in Attempts, d \in ReconcileAction : ReconcileNext(a, d),
                        NEW b \in Attempts, attempt'[b].state \in PRE_SEND_STATES
                 PROVE  b \notin pass.known /\ ~boundary
      OBVIOUS
    <2> USE DEF DeliveryInv, TypeOK
    <2>1. \A A : PassOver(pass, A) = NoPass => A = {}
      BY DEF PassOver, NoPass, Pass
    <2>2. CASE ListPreSend
      <3>1. InState(PRE_SEND_STATES) = {} /\ UNCHANGED attempt
        BY <2>1, <2>2 DEF ListPreSend
      <3>2. QED
        BY <3>1 DEF InState
    <2>3. ASSUME NEW a \in Attempts, NEW d \in ReconcileAction, ReconcileNext(a, d)
          PROVE  b \notin pass.known /\ ~boundary
      <3>1. pass.todo \ {a} = {} /\ a \in pass.todo
        BY <2>1, <2>3 DEF ReconcileNext, IsOldest
      <3>2. pass.listed /\ attempt[a].state # "none"
        BY <3>1 DEF PassInv
      <3>3. attempt'[a].state \notin PRE_SEND_STATES
        BY <2>3, <3>2, BoundaryDecision DEF ReconcileNext
      <3>4. \A c \in Attempts \ {a} : attempt'[c] = attempt[c]
        BY <2>3 DEF ReconcileNext, ReconcileAttempt, MovedTo
      <3>5. b # a /\ attempt[b].state \in PRE_SEND_STATES
        BY <3>3, <3>4
      <3>6. QED
        BY <3>1, <3>2, <3>5 DEF PassInv, InState
    <2>4. QED
      BY <2>2, <2>3
  <1>2. QED
    BY <1>1, Invariance, PTL DEF Spec, BoundaryClears

-----------------------------------------------------------------------------
(* Delivery implements Intention.                                          *)

phase == [a \in Attempts |-> Phase(attempt[a].state)]

LEMMA Phases ==
    /\ Phase("none") = "idle" /\ Phase("sent") = "spoken" /\ Phase("resolved") = "answered"
    /\ \A s \in PRE_SEND_STATES : Phase(s) = "intended"
    /\ \A s \in TERMINAL_STATES \ {"resolved"} : Phase(s) = "dropped"
  BY DEF Phase, PRE_SEND_STATES, TERMINAL_STATES

(* Any number of attempts close, and none is sent.                         *)
LEMMA ClosingImplements ==
    ASSUME TypeOK, boundary' \in BOOLEAN, UNCHANGED <<charged, cleared>>,
           \A a \in Attempts :
              \/ attempt'[a].state = attempt[a].state
              \/ MovesOn(attempt[a].state, attempt'[a].state) /\ attempt'[a].state # "sent"
    PROVE  I!Next
  <1> DEFINE A == {a \in Attempts : attempt[a].state = "sent" /\ attempt'[a].state = "resolved"}
             D == {a \in Attempts : attempt[a].state \in PRE_SEND_STATES
                                      /\ attempt'[a].state \in TERMINAL_STATES \ {"resolved"}}
  <1>1. A \in SUBSET I!In("spoken") /\ D \in SUBSET I!In("intended")
    BY Phases DEF I!In
  <1>2. ASSUME NEW a \in Attempts
        PROVE  Phase(attempt'[a].state) = IF a \in A THEN "answered"
                                          ELSE IF a \in D THEN "dropped"
                                          ELSE Phase(attempt[a].state)
    BY Phases DEF MovesOn
  <1>3. phase' = [a \in Attempts |-> IF a \in A THEN "answered"
                                     ELSE IF a \in D THEN "dropped"
                                     ELSE phase[a]]
    BY <1>2 DEF phase
  <1>4. I!Close(A, D)
    BY <1>3 DEF I!Close, phase
  <1>5. QED
    BY <1>1, <1>4 DEF I!Next

LEMMA InitImplements == Init => I!Init
  BY Phases DEF Init, NoAttempt, I!Init

(* The attempt a commit is about begins to be intended.                    *)
LEMMA CommitPhases ==
    ASSUME TypeOK, NEW a \in Attempts, NEW r \in Rows, CommitAttempt(a, r)
    PROVE  /\ phase[a] = "idle"
           /\ phase' = [phase EXCEPT ![a] = "intended"]
           /\ UNCHANGED <<charged, boundary>>
  <1>1. attempt[a].state = "none" /\ attempt' = MovedTo(a, "committed")
          /\ UNCHANGED <<charged, boundary>>
    BY DEF CommitAttempt
  <1>2. attempt'[a].state = "committed" /\ \A b \in Attempts \ {a} : attempt'[b] = attempt[b]
    BY <1>1 DEF MovedTo, TypeOK, AttemptRecord
  <1>3. Phase("committed") = "intended"
    BY Phases DEF PRE_SEND_STATES
  <1>4. phase' = [phase EXCEPT ![a] = "intended"]
    BY <1>2, <1>3 DEF phase
  <1>5. QED
    BY <1>1, <1>4, Phases DEF phase

LEMMA StepImplements ==
    ASSUME DeliveryInv, TypeOK', [Next]_vars
    PROVE  [I!Next]_(I!vars)
  <1> USE DEF DeliveryInv
  <1>1. ASSUME NEW a \in Attempts, NEW r \in Rows, CommitDecided(a, r) \/ CommitAtOnce(a, r)
        PROVE  I!Next
    <2>1. CommitAttempt(a, r)
      BY <1>1 DEF CommitDecided, CommitAtOnce
    <2>2. \/ ~boundary /\ UNCHANGED cleared
          \/ cleared /\ cleared' = FALSE
      BY <1>1 DEF CommitDecided, CommitAtOnce
    <2>3. I!Intend(a)
      BY <2>1, <2>2, CommitPhases DEF I!Intend, phase
    <2>4. QED
      BY <2>3 DEF I!Next
  <1>2. ASSUME NEW r \in Rows, NEW q \in Rows, Readies(r, q) PROVE UNCHANGED I!vars
    <2> DEFINE a == outbox[r].attempt
    <2>1. a \in Attempts /\ attempt[a].state = "committed"
      BY <1>2 DEF Readies, QueueInv, RowsEndWithTheirAttempt, TypeOK, Row
    <2>2. attempt'[a].state = "ready_to_send" /\ \A b \in Attempts \ {a} : attempt'[b] = attempt[b]
      BY <1>2, <2>1 DEF Readies, MovedTo, TypeOK, AttemptRecord
    <2>3. Phase("committed") = Phase("ready_to_send")
      BY Phases DEF PRE_SEND_STATES
    <2>4. phase' = phase
      BY <2>1, <2>2, <2>3 DEF phase
    <2>5. QED
      BY <1>2, <2>4 DEF Readies, I!vars, phase
  <1>3. ASSUME Narrowing, UNCHANGED <<charged, cleared>> PROVE I!Next
    <2>1. ASSUME NEW a \in Attempts
          PROVE  \/ attempt'[a].state = attempt[a].state
                 \/ MovesOn(attempt[a].state, attempt'[a].state) /\ attempt'[a].state # "sent"
      <3>1. ~(attempt[a].state = "ready_to_send" /\ attempt'[a].state = "sent")
        BY <1>3 DEF Narrowing, ChargesTheSent, TypeOK
      <3>2. QED
        BY <1>3, <3>1 DEF Narrowing, AttemptsMoveOn, MovesOn, TERMINAL_STATES
    <2>2. QED
      BY <1>3, <2>1, ClosingImplements DEF TypeOK
  <1>4. ASSUME NEW r \in Rows, MarkDelivered(r), ~(UNCHANGED charged) PROVE I!Next
    <2> DEFINE a == outbox[r].attempt
    <2>1. a \in Attempts
      BY DEF TypeOK, Row
    <2>2. attempt[a].state = "ready_to_send" /\ attempt' = MovedTo(a, "sent")
             /\ charged' = [charged EXCEPT ![a] = @ + 1] /\ UNCHANGED <<boundary, cleared>>
      BY <1>4 DEF MarkDelivered
    <2>3. attempt'[a].state = "sent" /\ \A b \in Attempts \ {a} : attempt'[b] = attempt[b]
      BY <2>1, <2>2 DEF MovedTo, TypeOK, AttemptRecord
    <2>4. phase[a] = "intended" /\ phase' = [phase EXCEPT ![a] = "spoken"]
      BY <2>1, <2>2, <2>3, Phases DEF phase, PRE_SEND_STATES
    <2>5. I!Speak(a)
      BY <2>2, <2>4 DEF I!Speak, phase
    <2>6. QED
      BY <2>1, <2>5 DEF I!Next
  <1>5. ASSUME AskVerdict PROVE I!Next
    <2>1. I!Permit
      BY <1>5 DEF AskVerdict, I!Permit
    <2>2. QED
      BY <2>1 DEF I!Next
  <1>6. ASSUME RoundGivesUp \/ Crash PROVE I!Next
    <2>1. I!Withdraw
      BY <1>6 DEF RoundGivesUp, Crash, I!Withdraw
    <2>2. QED
      BY <2>1 DEF I!Next
  <1>7. \/ UNCHANGED <<charged, cleared>>
        \/ AskVerdict \/ RoundGivesUp \/ Crash
        \/ \E a \in Attempts, r \in Rows : CommitDecided(a, r) \/ CommitAtOnce(a, r)
        \/ \E r \in Rows : MarkDelivered(r)
    BY DEF Next, vars, Claim, Ack, Nack, Requeue, Extend, RenderUsable, RenderUnusable,
           ReportFailed, Sweep, Tick, Ingest, ListPreSend, PostReconcile, ReconcileNext,
           ReconcileRaises, ObserveReply, BoundaryLifts, Ages,
           LeaseLapses
  <1>8. ASSUME NEW r \in Rows, MarkDelivered(r) PROVE Narrowing /\ UNCHANGED cleared
    BY <1>8, MarkDeliveredNarrows DEF MarkDelivered
  <1>9. CASE UNCHANGED vars
    <2>1. phase' = phase
      BY <1>9 DEF vars, phase
    <2>2. QED
      BY <1>9, <2>1 DEF vars, I!vars, phase
  <1>10. QED
    BY <1>1, <1>2, <1>3, <1>4, <1>5, <1>6, <1>7, <1>8, <1>9, NextStep DEF Commits

(* Every step of the queue, the reports, the sweeps and re-coordination is *)
(* a step of the abstract promise or changes nothing it speaks of.         *)
THEOREM Implementation == Spec => KeepsThePromise
  <1>1. DeliveryInv /\ DeliveryInv' /\ [Next]_vars => [I!Next]_(I!vars)
    BY StepImplements DEF DeliveryInv
  <1>2. QED
    BY <1>1, InitImplements, Invariance, PTL DEF Spec, KeepsThePromise, I!Spec
=============================================================================
