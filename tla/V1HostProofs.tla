---------------------------- MODULE V1HostProofs ----------------------------
(***************************************************************************)
(* Module V1Host for every value of its constants.  That the protocol only *)
(* translates comes first; it carries over to the hosts everything that is *)
(* proved of Delivery, and the properties of the hosts' own part follow    *)
(* from that and from what a claim can look like.                          *)
(***************************************************************************)
EXTENDS V1Host, DeliveryProofs, FiniteSetTheorems

-----------------------------------------------------------------------------
(* Typing, and the translation.                                            *)

LEMMA V1TypeInit == V1Init => V1TypeOK
  <1>1. Init => TypeOK
    BY TypeInit
  <1>2. QED
    BY <1>1 DEF V1Init, V1TypeOK, Stage

(* A step of the protocol is a step of Delivery, or none of its business.  *)
LEMMA StepTranslates ==
    ASSUME V1TypeOK, [V1Next]_v1vars
    PROVE  [Next]_vars
  <1>1. CASE RuntimeStep
    BY <1>1 DEF RuntimeStep, Next
  <1>2. ASSUME NEW a \in Attempts, NEW d \in ReconcileAction, Recoordinate(a, d)
        PROVE  Next
    BY <1>2 DEF Recoordinate, Next
  <1>3. ASSUME NEW r \in Rows, NEW w \in Owners, Lease(r, w) PROVE Next
    BY <1>3 DEF Lease, Next
  <1>4. ASSUME NEW r \in Rows, NEW n \in Claims, HostStep(r, n) PROVE UNCHANGED vars
    BY <1>4 DEF HostStep, FinishRender, LoseContact, Ask, Verdict, Transmit, PlatformRefuses
  <1>5. ASSUME NEW r \in Rows, NEW n \in Claims, Heartbeat(r, n) PROVE Next
    BY <1>5 DEF Heartbeat, Next
  <1>6. ASSUME NEW r \in Rows, NEW n \in Claims, Report(r, n) PROVE Next
    <2>1. lease[r][n].by \in Caller
      BY DEF V1TypeOK, Caller
    <2>2. CASE ReportOutage(r, n)
      BY <2>1, <2>2 DEF ReportOutage, GiveBack, Next
    <2>3. CASE ~ReportOutage(r, n)
      BY <1>6, <2>3
         DEF Report, ReportText, ReportUnusable, ReportRefused, ReportSent, Next
    <2>4. QED
      BY <2>2, <2>3
  <1>7. CASE UNCHANGED v1vars
    BY <1>7 DEF v1vars
  <1>8. QED
    BY <1>1, <1>2, <1>3, <1>4, <1>5, <1>6, <1>7 DEF V1Next

LEMMA V1TypeStep == V1TypeOK /\ [V1Next]_v1vars => V1TypeOK'
  <1> SUFFICES ASSUME V1TypeOK, [V1Next]_v1vars PROVE V1TypeOK'
    OBVIOUS
  <1> USE DEF V1TypeOK
  <1>1. TypeOK'
    BY StepTranslates, TypeStep
  <1>2. UNCHANGED <<lease, spoken>> => V1TypeOK'
    BY <1>1
  <1>3. ASSUME NEW r \in Rows, NEW n \in Claims, NEW s \in Stage, Goes(r, n, s)
        PROVE  lease' \in [Rows -> [Claims -> [by : Owners \cup {NoOwner}, stage : Stage]]]
    <2> DEFINE claim == [by : Owners \cup {NoOwner}, stage : Stage]
    <2>1. [lease[r][n] EXCEPT !.stage = s] \in claim
      <3>1. ASSUME NEW x \in claim PROVE [x EXCEPT !.stage = s] \in claim
        OBVIOUS
      <3>2. lease[r][n] \in claim
        OBVIOUS
      <3>3. QED
        BY <3>1, <3>2
    <2>2. lease' = [lease EXCEPT ![r] = [lease[r] EXCEPT ![n] = [lease[r][n] EXCEPT !.stage = s]]]
      BY <1>3 DEF Goes
    <2>3. QED
      BY <2>1, <2>2
  <1>4. CASE RuntimeStep
    BY <1>2, <1>4 DEF RuntimeStep, Quiet
  <1>5. ASSUME NEW a \in Attempts, NEW d \in ReconcileAction, Recoordinate(a, d)
        PROVE  V1TypeOK'
    BY <1>2, <1>5 DEF Recoordinate, Quiet
  <1>6. ASSUME NEW r \in Rows, NEW w \in Owners, Lease(r, w) PROVE V1TypeOK'
    <2>1. outbox'[r].claims \in Claims
      BY <1>6, DeliveryAssumption DEF Lease, Claim, UpdateRow, Claimed, TypeOK, Row, Claims
    <2>2. [by |-> w, stage |-> "held"] \in [by : Owners \cup {NoOwner}, stage : Stage]
      BY DEF Stage
    <2>3. QED
      BY <1>1, <1>6, <2>1, <2>2 DEF Lease
  <1>7. ASSUME NEW r \in Rows, NEW n \in Claims, HostStep(r, n) PROVE V1TypeOK'
    <2>1. \A o \in Outcome : o \in Stage
      BY DEF Stage
    <2>2. {"asking", "authorized", "refused", "outage", "sent"} \subseteq Stage
      BY DEF Stage, Outcome
    <2>3. CASE Transmit(r, n)
      <3>1. outbox[r].attempt \in Attempts
        BY DEF TypeOK, Row
      <3>2. QED
        BY <1>1, <1>3, <2>2, <2>3, <3>1 DEF Transmit
    <2>4. CASE ~Transmit(r, n)
      <3>1. UNCHANGED spoken /\ \E s \in Stage : Goes(r, n, s)
        BY <1>7, <2>1, <2>2, <2>4
           DEF HostStep, FinishRender, LoseContact, Ask, Verdict, PlatformRefuses
      <3>2. QED
        BY <1>1, <1>3, <3>1
    <2>5. QED
      BY <2>3, <2>4
  <1>8. ASSUME NEW r \in Rows, NEW n \in Claims, Heartbeat(r, n) PROVE V1TypeOK'
    BY <1>2, <1>8 DEF Heartbeat
  <1>9. ASSUME NEW r \in Rows, NEW n \in Claims, Report(r, n) PROVE V1TypeOK'
    BY <1>2, <1>9
       DEF Report, ReportText, ReportUnusable, ReportRefused, ReportSent, ReportOutage, Reported
  <1>10. CASE UNCHANGED v1vars
    BY <1>2, <1>10 DEF v1vars
  <1>11. QED
    BY <1>4, <1>5, <1>6, <1>7, <1>8, <1>9, <1>10 DEF V1Next

(* The claims of adapters keep their types beside those of the store.      *)
THEOREM V1TypeCorrect == V1Spec => []V1TypeOK
  BY V1TypeInit, V1TypeStep, PTL DEF V1Spec

(* Protocol v1 is a translation layer: whatever its adapters do, in        *)
(* whatever order their reports arrive, the store sees a behaviour of      *)
(* Delivery, and with it everything proved of Delivery.                    *)
THEOREM Translates == V1Spec => OnlyTranslates
  <1>1. V1Init => Init
    BY DEF V1Init
  <1>2. V1TypeOK /\ [V1Next]_v1vars => [Next]_vars
    BY StepTranslates
  <1>3. QED
    BY <1>1, <1>2, V1TypeCorrect, PTL DEF V1Spec, OnlyTranslates, Spec

-----------------------------------------------------------------------------
(* What one step does to one row.                                          *)

(* The row is the one it was; what it is worth now is another matter.      *)
Continues(x, y) ==
    y.kind = x.kind /\ y.attempt = x.attempt /\ y.claims = x.claims

Fades(x, y) == Continues(x, y) /\ y.status \in {x.status, "cancelled"}

(* The word of the holder of the current claim, and what it does.          *)
HolderSays(r, status) ==
    \E n \in Claims :
        /\ outbox[r].claims = n
        /\ \/ status = "failed" /\ lease[r][n].stage \in {"refused", "unusable"}
           \/ status = "pending" /\ At(r, n, "outage")
           \/ status = "delivered" /\ At(r, n, "text")

MessageIsOut(r) == \E m \in Claims : At(r, m, "sent")

Fate(r) ==
    \/ Fades(outbox[r], outbox'[r])
    \/ \E w \in Owners : Lease(r, w)
    \/ /\ Continues(outbox[r], outbox'[r])
       /\ \/ /\ outbox[r].status = "leased" /\ outbox[r].lapsed
             /\ outbox'[r].status = RetryStatus(outbox[r])
          \/ HolderSays(r, outbox'[r].status)
          \/ outbox'[r].status = "delivered" /\ MessageIsOut(r)

LEMMA RowFates ==
    ASSUME NEW x \in Row
    PROVE  /\ \A s : Continues(x, Released(x, s)) /\ Released(x, s).status = s
           /\ Fades(x, x) /\ Fades(x, Cancelled(x))
           /\ \A y \in {Acked(x), Settled(x, "delivered")} :
                Fades(x, y) \/ (Continues(x, y) /\ y.status = "delivered")
           /\ \A y \in {Nacked(x, TRUE), Settled(x, "failed")} :
                Fades(x, y) \/ (Continues(x, y) /\ y.status = "failed")
           /\ \/ Fades(x, Nacked(x, FALSE))
              \/ Continues(x, Nacked(x, FALSE)) /\ Nacked(x, FALSE).status = RetryStatus(x)
           /\ \/ Fades(x, Requeued(x))
              \/ Continues(x, Requeued(x)) /\ Requeued(x).status = "pending"
           /\ \A b \in BOOLEAN : Fades(x, [x EXCEPT !.lapsed = b])
  <1>1. \A s : Continues(x, Released(x, s)) /\ Released(x, s).status = s
    BY DEF Released, Row, Continues
  <1>2. Fades(x, x)
    BY DEF Fades, Continues
  <1>3. \A b \in BOOLEAN : Fades(x, [x EXCEPT !.lapsed = b])
    BY DEF Row, Fades, Continues
  <1>4. Fades(x, Cancelled(x))
    BY <1>1, <1>2 DEF Fades, Cancelled
  <1>5. \A y \in {Acked(x), Settled(x, "delivered")} :
            Fades(x, y) \/ (Continues(x, y) /\ y.status = "delivered")
    BY <1>1, <1>2 DEF Acked, Settled
  <1>6. \A y \in {Nacked(x, TRUE), Settled(x, "failed")} :
            Fades(x, y) \/ (Continues(x, y) /\ y.status = "failed")
    BY <1>1, <1>2 DEF Nacked, Settled
  <1>7. \/ Fades(x, Nacked(x, FALSE))
        \/ Continues(x, Nacked(x, FALSE)) /\ Nacked(x, FALSE).status = RetryStatus(x)
    BY <1>1, <1>2 DEF Nacked
  <1>8. \/ Fades(x, Requeued(x))
        \/ Continues(x, Requeued(x)) /\ Requeued(x).status = "pending"
    BY <1>1, <1>2 DEF Requeued
  <1>9. QED
    BY <1>1, <1>2, <1>3, <1>4, <1>5, <1>6, <1>7, <1>8

LEMMA QueueFates ==
    ASSUME NEW rows \in [Rows -> Row], NEW A, NEW r \in Rows
    PROVE  Fades(rows[r], CancelledFor(rows, A)[r])
  <1>1. Fades(rows[r], [rows[r] EXCEPT !.status = "cancelled"])
    BY DEF Row, Fades, Continues
  <1>2. Fades(rows[r], rows[r])
    BY DEF Fades, Continues
  <1>3. QED
    BY <1>1, <1>2 DEF CancelledFor

LEMMA FadesTrans ==
    ASSUME NEW x, NEW y, NEW z, Fades(x, y) \/ Continues(x, y), Fades(y, z)
    PROVE  /\ Continues(x, z)
           /\ Fades(x, y) => Fades(x, z)
           /\ z.status \in {y.status, "cancelled"}
  BY DEF Fades, Continues

LEMMA ReclaimedFate ==
    ASSUME NEW rows \in [Rows -> Row], NEW r \in Rows
    PROVE  \/ Fades(rows[r], Reclaimed(rows)[r])
           \/ /\ Continues(rows[r], Reclaimed(rows)[r])
              /\ rows[r].status = "leased" /\ rows[r].lapsed
              /\ Reclaimed(rows)[r].status = RetryStatus(rows[r])
  <1> DEFINE x == rows[r]
  <1>1. /\ \A s : Continues(x, Released(x, s)) /\ Released(x, s).status = s
        /\ Fades(x, x)
    BY RowFates
  <1>2. Reclaimed(rows)[r] = IF x.status = "leased" /\ x.lapsed
                             THEN Released(x, RetryStatus(x)) ELSE x
    BY DEF Reclaimed
  <1>3. QED
    BY <1>1, <1>2

LEMMA SameRowFate ==
    ASSUME TypeOK, NEW r \in Rows, outbox'[r] = outbox[r]
    PROVE  Fate(r)
  BY RowFates DEF Fate, TypeOK

LEMMA TickFate ==
    ASSUME TypeOK, NEW r \in Rows, Tick
    PROVE  Fate(r)
  <1>1. PICK A, B : outbox' = CancelledFor(CancelledFor(Reclaimed(outbox), A), B)
    BY DEF Tick
  <1> DEFINE x == outbox[r]
             y == Reclaimed(outbox)[r]
             z == CancelledFor(Reclaimed(outbox), A)[r]
  <1>2. outbox \in [Rows -> Row] /\ Reclaimed(outbox) \in [Rows -> Row]
          /\ CancelledFor(Reclaimed(outbox), A) \in [Rows -> Row]
    BY QueueTypes DEF TypeOK
  <1>3. Fades(y, z) /\ Fades(z, outbox'[r])
    BY <1>1, <1>2, QueueFates
  <1>4. Fades(y, outbox'[r])
    BY <1>3, FadesTrans
  <1>5. \/ Fades(x, y)
        \/ /\ Continues(x, y) /\ x.status = "leased" /\ x.lapsed
           /\ y.status = RetryStatus(x)
    BY <1>2, ReclaimedFate
  <1>6. CASE Fades(x, y)
    BY <1>4, <1>6, FadesTrans DEF Fate
  <1>7. CASE /\ Continues(x, y) /\ x.status = "leased" /\ x.lapsed
             /\ y.status = RetryStatus(x)
    BY <1>4, <1>7, FadesTrans DEF Fate, Fades
  <1>8. QED
    BY <1>5, <1>6, <1>7

LEMMA WithdrawnFate ==
    ASSUME TypeOK, NEW a \in Attempts, NEW r \in Rows
    PROVE  Fades(outbox[r], Withdrawn(a)[r])
  <1> DEFINE first == [q \in Rows |-> IF IsCurrentRow(q, a) THEN Cancelled(outbox[q])
                                                            ELSE outbox[q]]
  <1>1. first \in [Rows -> Row] /\ Fades(outbox[r], first[r])
    BY RowTypes, RowFates DEF TypeOK
  <1>2. Withdrawn(a) = CancelledFor(first, {a})
    BY DEF Withdrawn
  <1>3. Fades(first[r], CancelledFor(first, {a})[r])
    BY <1>1, QueueFates
  <1>4. QED
    BY <1>1, <1>2, <1>3, FadesTrans

LEMMA RuntimeFate ==
    ASSUME TypeOK, NEW r \in Rows, Known(r), RuntimeStep
    PROVE  Fate(r)
  <1>1. ASSUME NEW a \in Attempts, NEW q \in Rows, CommitDecided(a, q) \/ CommitAtOnce(a, q)
        PROVE  Fate(r)
    <2>1. outbox'[r] = outbox[r]
      BY <1>1 DEF CommitDecided, CommitAtOnce, CommitAttempt, Fresh, Known, TypeOK
    <2>2. QED
      BY <2>1, SameRowFate
  <1>2. CASE Sweep \/ \E c \in MessageClass : Ingest(c)
    <2>1. \E A : outbox' = CancelledFor(outbox, A)
      BY <1>2 DEF Sweep, Ingest
    <2>2. QED
      BY <2>1, QueueFates DEF TypeOK, Fate
  <1>3. CASE Tick
    BY <1>3, TickFate
  <1>4. ASSUME NEW q \in Rows, LeaseLapses(q) PROVE Fate(r)
    BY <1>4, RowFates DEF LeaseLapses, UpdateRow, TypeOK, Fate
  <1>5. CASE ListPreSend \/ ReconcileRaises \/ BoundaryLifts
             \/ (\E a \in Attempts : Ages(a)) \/ Crash \/ AskVerdict \/ RoundGivesUp
    BY <1>5, SameRowFate DEF ListPreSend, ReconcileRaises, BoundaryLifts, Ages, Crash,
                             AskVerdict, RoundGivesUp
  <1>6. QED
    BY <1>1, <1>2, <1>3, <1>4, <1>5 DEF RuntimeStep

LEMMA ReportFate ==
    ASSUME V1TypeOK, NEW r \in Rows, Known(r),
           NEW q \in Rows, NEW n \in Claims, Report(q, n)
    PROVE  Fate(r)
  <1> USE DEF V1TypeOK, TypeOK
  <1>1. CASE ReportText(q, n)
    <2>1. At(q, n, "text") /\ outbox[q].claims = n /\ RenderUsable(q)
      BY <1>1 DEF ReportText, Reported, NamesClaim
    <2>2. \/ outbox'[r] = outbox[r]
          \/ q = r /\ outbox'[r] \in {Cancelled(outbox[r]), Settled(outbox[r], "delivered")}
      BY <2>1 DEF RenderUsable, UpdateRow, Fresh, Known
    <2>3. \/ Fades(outbox[r], outbox'[r])
          \/ q = r /\ Continues(outbox[r], outbox'[r]) /\ outbox'[r].status = "delivered"
      <3>1. outbox[r] \in Row
        OBVIOUS
      <3>2. CASE outbox'[r] = outbox[r]
        BY <3>2 DEF Fades, Continues
      <3>3. CASE q = r /\ outbox'[r] = Cancelled(outbox[r])
        BY <3>1, <3>3 DEF Cancelled, Released, Row, Fades, Continues
      <3>4. CASE q = r /\ outbox'[r] = Settled(outbox[r], "delivered")
        BY <3>1, <3>4 DEF Settled, Released, Row, Fades, Continues
      <3>5. QED
        BY <2>2, <3>2, <3>3, <3>4
    <2>4. QED
      BY <2>1, <2>3 DEF Fate, HolderSays
  <1>2. CASE ReportUnusable(q, n)
    <2> DEFINE x == [outbox EXCEPT ![q] = Settled(@, "failed")]
    <2>1. At(q, n, "unusable") /\ outbox[q].claims = n
             /\ outbox' = CancelledFor(x, {outbox[q].attempt})
      BY <1>2 DEF ReportUnusable, Reported, NamesClaim, RenderUnusable
    <2>2. x \in [Rows -> Row]
      BY RowTypes DEF OutboxStatus
    <2>3. \/ Fades(outbox[r], x[r])
          \/ q = r /\ Continues(outbox[r], x[r]) /\ x[r].status = "failed"
      BY RowFates
    <2>4. Fades(x[r], outbox'[r])
      BY <2>1, <2>2, QueueFates
    <2>5. CASE Fades(outbox[r], x[r])
      BY <2>4, <2>5, FadesTrans DEF Fate
    <2>6. CASE q = r /\ Continues(outbox[r], x[r]) /\ x[r].status = "failed"
      <3>1. Continues(outbox[r], outbox'[r]) /\ outbox'[r].status \in {"failed", "cancelled"}
        BY <2>4, <2>6, FadesTrans
      <3>2. CASE outbox'[r].status = "cancelled"
        BY <3>1, <3>2 DEF Fate, Fades
      <3>3. CASE outbox'[r].status = "failed"
        BY <2>1, <2>6, <3>1, <3>3 DEF Fate, HolderSays, At
      <3>4. QED
        BY <3>1, <3>2, <3>3
    <2>7. QED
      BY <2>3, <2>5, <2>6
  <1>3. CASE ReportRefused(q, n)
    <2> DEFINE x == [outbox EXCEPT ![q] = Nacked(@, TRUE)]
    <2>1. At(q, n, "refused") /\ outbox[q].claims = n
             /\ outbox' \in {CancelledFor(x, {outbox[q].attempt}), x}
      BY <1>3 DEF ReportRefused, Reported, NamesClaim, ReportFailed
    <2>2. x \in [Rows -> Row]
      BY RowTypes
    <2>3. \/ Fades(outbox[r], x[r])
          \/ q = r /\ Continues(outbox[r], x[r]) /\ x[r].status = "failed"
      BY RowFates
    <2>4. Fades(x[r], outbox'[r])
      BY <2>1, <2>2, QueueFates, RowFates
    <2>5. CASE Fades(outbox[r], x[r])
      BY <2>4, <2>5, FadesTrans DEF Fate
    <2>6. CASE q = r /\ Continues(outbox[r], x[r]) /\ x[r].status = "failed"
      <3>1. Continues(outbox[r], outbox'[r]) /\ outbox'[r].status \in {"failed", "cancelled"}
        BY <2>4, <2>6, FadesTrans
      <3>2. CASE outbox'[r].status = "cancelled"
        BY <3>1, <3>2 DEF Fate, Fades
      <3>3. CASE outbox'[r].status = "failed"
        BY <2>1, <2>6, <3>1, <3>3 DEF Fate, HolderSays, At
      <3>4. QED
        BY <3>1, <3>2, <3>3
    <2>7. QED
      BY <2>3, <2>5, <2>6
  <1>4. CASE ReportSent(q, n)
    <2>1. At(q, n, "sent")
             /\ \/ outbox'[r] = outbox[r]
                \/ q = r /\ outbox'[r] \in {Acked(outbox[r]), Settled(outbox[r], "delivered")}
      BY <1>4 DEF ReportSent, MarkDelivered, UpdateRow
    <2>2. CASE outbox'[r] = outbox[r]
      BY <2>2, SameRowFate
    <2>3. CASE q = r /\ outbox'[r] \in {Acked(outbox[r]), Settled(outbox[r], "delivered")}
      <3>1. MessageIsOut(r)
        BY <2>1, <2>3 DEF MessageIsOut
      <3>2. QED
        BY <2>3, <3>1, RowFates DEF Fate
    <2>4. QED
      BY <2>1, <2>2, <2>3
  <1>5. CASE ReportOutage(q, n)
    <2>1. At(q, n, "outage") /\ outbox[q].claims = n
             /\ \/ outbox[q].claims < MaxAttempts /\ UpdateRow(q, Nacked(outbox[q], FALSE))
                \/ UpdateRow(q, Requeued(outbox[q]))
      BY <1>5 DEF ReportOutage, Reported, NamesClaim, GiveBack, Nack, Requeue
    <2>2. outbox[q].claims < MaxAttempts => RetryStatus(outbox[q]) = "pending"
      BY MaxAttemptsAssumption DEF RetryStatus, Row
    <2>3. CASE q # r
      BY <2>1, <2>3, SameRowFate DEF UpdateRow
    <2>4. CASE q = r
      <3>1. \/ outbox[r].claims < MaxAttempts /\ outbox'[r] = Nacked(outbox[r], FALSE)
            \/ outbox'[r] = Requeued(outbox[r])
        BY <2>1, <2>4 DEF UpdateRow
      <3>2. \/ Fades(outbox[r], outbox'[r])
            \/ Continues(outbox[r], outbox'[r]) /\ outbox'[r].status = "pending"
        <4>1. outbox[r] \in Row
          OBVIOUS
        <4>2. CASE outbox'[r] = Requeued(outbox[r])
          BY <4>1, <4>2 DEF Requeued, Released, Row, Fades, Continues
        <4>3. CASE outbox'[r] = Nacked(outbox[r], FALSE) /\ RetryStatus(outbox[r]) = "pending"
          BY <4>1, <4>3 DEF Nacked, Released, Row, Fades, Continues
        <4>4. QED
          BY <2>2, <2>4, <3>1, <4>2, <4>3
      <3>3. QED
        BY <2>1, <2>4, <3>2 DEF Fate, HolderSays
    <2>5. QED
      BY <2>3, <2>4
  <1>6. QED
    BY <1>1, <1>2, <1>3, <1>4, <1>5 DEF Report

LEMMA EveryFate ==
    ASSUME V1TypeOK, NEW r \in Rows, Known(r), V1Next
    PROVE  Fate(r)
  <1> USE DEF V1TypeOK
  <1>1. CASE RuntimeStep
    BY <1>1, RuntimeFate
  <1>2. ASSUME NEW a \in Attempts, NEW d \in ReconcileAction, Recoordinate(a, d)
        PROVE  Fate(r)
    <2>1. outbox' = Withdrawn(a) \/ outbox' = outbox
      BY <1>2 DEF Recoordinate, ReconcileNext, ReconcileAttempt
    <2>2. CASE outbox' = Withdrawn(a)
      BY <2>2, WithdrawnFate DEF Fate
    <2>3. CASE outbox' = outbox
      BY <2>3, SameRowFate
    <2>4. QED
      BY <2>1, <2>2, <2>3
  <1>3. ASSUME NEW q \in Rows, NEW w \in Owners, Lease(q, w) PROVE Fate(r)
    <2>1. CASE q = r
      BY <1>3, <2>1 DEF Fate
    <2>2. CASE q # r
      BY <1>3, <2>2, SameRowFate DEF Lease, Claim, UpdateRow
    <2>3. QED
      BY <2>1, <2>2
  <1>4. ASSUME NEW q \in Rows, NEW n \in Claims, HostStep(q, n) PROVE Fate(r)
    <2>1. outbox' = outbox
      BY <1>4 DEF HostStep, FinishRender, LoseContact, Ask, Verdict, Transmit,
                  PlatformRefuses, vars
    <2>2. QED
      BY <2>1, SameRowFate
  <1>5. ASSUME NEW q \in Rows, NEW n \in Claims, Heartbeat(q, n) PROVE Fate(r)
    <2>1. outbox'[r] \in {outbox[r], [outbox[r] EXCEPT !.lapsed = FALSE]}
      BY <1>5 DEF Heartbeat, Extend, UpdateRow, TypeOK
    <2>2. Fades(outbox[r], outbox'[r])
      BY <2>1 DEF TypeOK, Row, Fades, Continues
    <2>3. QED
      BY <2>2 DEF Fate
  <1>6. ASSUME NEW q \in Rows, NEW n \in Claims, Report(q, n) PROVE Fate(r)
    BY <1>6, ReportFate
  <1>7. QED
    BY <1>1, <1>2, <1>3, <1>4, <1>5, <1>6 DEF V1Next

(* No report of another claim, however late or often repeated, ends a      *)
(* claim that is still running: the counter the row carries is compared,   *)
(* and only what is irreversible is exempt from the comparison.            *)
THEOREM HoldersDecide == V1Spec => ClaimEndsAsItsHolderSays
  <1>1. ASSUME V1TypeOK, V1Next, NEW r \in Rows, NEW n \in Claims,
               outbox[r].status = "leased", ~outbox[r].lapsed, outbox[r].claims = n
        PROVE  CASE outbox'[r].status = "failed"    -> lease[r][n].stage \in {"refused", "unusable"}
                 [] outbox'[r].status = "pending"   -> At(r, n, "outage")
                 [] outbox'[r].status = "delivered" -> \/ At(r, n, "text")
                                                       \/ \E m \in Claims : At(r, m, "sent")
                 [] OTHER                           -> TRUE
    <2>1. Fate(r)
      BY <1>1, EveryFate DEF Known
    <2>2. ~ \E w \in Owners : Lease(r, w)
      BY <1>1 DEF Lease, Claim
    <2>3. CASE outbox'[r].status \in {"leased", "cancelled"}
      BY <2>3
    <2>4. CASE HolderSays(r, outbox'[r].status)
      BY <1>1, <2>4 DEF HolderSays
    <2>5. CASE outbox'[r].status = "delivered" /\ MessageIsOut(r)
      BY <2>5 DEF MessageIsOut
    <2>6. QED
      BY <1>1, <2>1, <2>2, <2>3, <2>4, <2>5 DEF Fate, Fades
  <1>2. V1TypeOK /\ [V1Next]_v1vars =>
            [\A r \in Rows, n \in Claims :
                outbox[r].status = "leased" /\ ~outbox[r].lapsed /\ outbox[r].claims = n =>
                    CASE outbox'[r].status = "failed"    -> lease[r][n].stage \in {"refused", "unusable"}
                      [] outbox'[r].status = "pending"   -> At(r, n, "outage")
                      [] outbox'[r].status = "delivered" -> \/ At(r, n, "text")
                                                            \/ \E m \in Claims : At(r, m, "sent")
                      [] OTHER                           -> TRUE]_v1vars
    BY <1>1
  <1>3. QED
    BY <1>2, V1TypeCorrect, PTL DEF V1Spec, ClaimEndsAsItsHolderSays

-----------------------------------------------------------------------------
(* How claims follow one another.                                          *)

(* There is a row behind every claim that was made, and its counter has    *)
(* reached the claim.                                                      *)
ClaimsWereMade ==
    \A r \in Rows, n \in Claims :
        ~At(r, n, "none") => Known(r) /\ n <= outbox[r].claims

(* Only what a send row asks for is authorized and goes out.               *)
OnlySendsGoOut ==
    \A r \in Rows, n \in Claims :
        lease[r][n].stage \in {"asking", "authorized", "sent"} => outbox[r].kind = "send"

(* At the end of the budget a claim has a successor only if its holder     *)
(* gave it back without an outcome: this is what bounds the transmissions. *)
GivenBackBeyondBudget ==
    \A r \in Rows, n \in Claims :
        /\ Known(r) /\ n >= MaxAttempts
        /\ n < outbox[r].claims \/ (n = outbox[r].claims /\ outbox[r].status = "pending")
        => At(r, n, "outage")

(* Every message that went out belongs to a claim of its own.              *)
Spent(a) ==
    {p \in Rows \X Claims : outbox[p[1]].attempt = a /\ At(p[1], p[2], "sent")}

OneClaimEach ==
    \A a \in Attempts : IsFiniteSet(Spent(a)) /\ spoken[a] = Cardinality(Spent(a))

HostInv ==
    /\ V1TypeOK /\ DeliveryInv /\ LiveRowServesItsAttempt
    /\ ClaimsWereMade /\ OnlySendsGoOut /\ GivenBackBeyondBudget
    /\ OneClaimEach /\ ContactsWereMade

LEMMA HostInit == V1Init => HostInv
  <1> SUFFICES ASSUME V1Init PROVE HostInv
    OBVIOUS
  <1>1. V1TypeOK /\ DeliveryInv
    BY V1TypeInit, InvInit DEF V1Init
  <1>2. \A r \in Rows, n \in Claims : lease[r][n].stage = "none"
    BY DEF V1Init
  <1>3. ClaimsWereMade /\ OnlySendsGoOut
    BY <1>2 DEF ClaimsWereMade, OnlySendsGoOut, At
  <1>4. GivenBackBeyondBudget
    BY DEF V1Init, Init, GivenBackBeyondBudget, Known, AbsentRow, NewRow
  <1>5. \A a \in Attempts : Spent(a) = {}
    BY <1>2 DEF Spent, At
  <1>6. OneClaimEach
    BY <1>5, FS_EmptySet DEF OneClaimEach, V1Init
  <1>7. ContactsWereMade
    BY DEF V1Init, Init, ContactsWereMade
  <1>8. LiveRowServesItsAttempt
    BY DEF V1Init, Init, LiveRowServesItsAttempt, Live, AbsentRow, NewRow
  <1>9. QED
    BY <1>1, <1>3, <1>4, <1>6, <1>7, <1>8 DEF HostInv

(* A row stays what it is; only a lease moves its counter.                 *)
LEMMA RowLasts ==
    ASSUME V1TypeOK, NEW r \in Rows, Known(r), V1Next
    PROVE  /\ Known(r)'
           /\ outbox'[r].kind = outbox[r].kind
           /\ outbox'[r].attempt = outbox[r].attempt
           /\ \/ outbox'[r].claims = outbox[r].claims
              \/ \E w \in Owners : Lease(r, w)
           /\ outbox'[r].claims >= outbox[r].claims
  <1> USE DEF V1TypeOK, TypeOK
  <1>1. outbox[r] \in Row /\ outbox[r].claims \in Nat
    BY DEF Row
  <1>2. Fate(r)
    BY EveryFate
  <1>3. ASSUME NEW w \in Owners, Lease(r, w)
        PROVE  /\ Known(r)'
               /\ outbox'[r].kind = outbox[r].kind
               /\ outbox'[r].attempt = outbox[r].attempt
               /\ outbox'[r].claims = outbox[r].claims + 1
    BY <1>1, <1>3 DEF Lease, Claim, UpdateRow, Claimed, Row, Known
  <1>4. ASSUME Continues(outbox[r], outbox'[r])
        PROVE  /\ outbox'[r].kind = outbox[r].kind
               /\ outbox'[r].attempt = outbox[r].attempt
               /\ outbox'[r].claims = outbox[r].claims
    BY <1>4 DEF Continues
  <1>5. CASE Fades(outbox[r], outbox'[r])
    BY <1>1, <1>4, <1>5 DEF Fades, Known
  <1>6. CASE /\ Continues(outbox[r], outbox'[r])
             /\ \/ outbox'[r].status = RetryStatus(outbox[r])
                \/ HolderSays(r, outbox'[r].status)
                \/ outbox'[r].status = "delivered"
    BY <1>1, <1>4, <1>6 DEF Known, RetryStatus, HolderSays
  <1>7. QED
    BY <1>1, <1>2, <1>3, <1>5, <1>6 DEF Fate

(* A row appears with its claims still to come.                            *)
LEMMA NewRowsAreUnclaimed ==
    ASSUME HostInv, V1Next, NEW r \in Rows, ~Known(r), Known(r)'
    PROVE  outbox'[r].claims = 0
  <1>1. Next \/ UNCHANGED vars
    BY StepTranslates DEF HostInv
  <1>2. outbox'[r] # outbox[r]
    BY DEF Known
  <1>3. Next
    BY <1>1, <1>2 DEF vars
  <1>4. \/ \E a \in Attempts, q \in Rows : Commits(a, q)
        \/ \E p, q \in Rows : Readies(p, q)
        \/ Narrowing
    BY <1>3, NextStep DEF HostInv, DeliveryInv
  <1> USE DEF HostInv, V1TypeOK, TypeOK
  <1>5. ASSUME NEW a \in Attempts, NEW q \in Rows, Commits(a, q)
        PROVE  outbox'[r].claims = 0
    BY <1>2, <1>5 DEF Commits, CommitDecided, CommitAtOnce, CommitAttempt, NewRow
  <1>6. ASSUME NEW p \in Rows, NEW q \in Rows, Readies(p, q)
        PROVE  outbox'[r].claims = 0
    BY <1>2, <1>6 DEF Readies, NewRow, Live, Known
  <1>7. ~Narrowing
    BY DEF Narrowing, RowsNarrow, Narrowed, Known
  <1>8. QED
    BY <1>4, <1>5, <1>6, <1>7

(* How far the work on a claim can get in one step.                        *)
LEMMA StageMoves ==
    ASSUME V1TypeOK, V1Next, NEW r \in Rows, NEW n \in Claims
    PROVE  \/ lease'[r][n] = lease[r][n]
           \/ /\ \E w \in Owners : Lease(r, w)
              /\ n = outbox[r].claims + 1 /\ n = outbox'[r].claims
              /\ lease'[r][n].stage = "held"
           \/ /\ lease[r][n].stage \in {"held", "asking", "authorized"}
              /\ lease'[r][n].stage \in Outcome \cup {"asking", "authorized"}
              /\ lease'[r][n].stage \in {"asking", "authorized", "sent"} =>
                    \/ outbox[r].kind = "send"
                    \/ lease[r][n].stage \in {"asking", "authorized"}
              /\ lease'[r][n].stage = "sent" => Transmit(r, n)
  <1> USE DEF V1TypeOK
  <1>1. CASE UNCHANGED lease
    BY <1>1
  <1>2. ASSUME NEW q \in Rows, NEW w \in Owners, Lease(q, w), lease'[r][n] # lease[r][n]
        PROVE  /\ Lease(r, w)
               /\ n = outbox[r].claims + 1 /\ n = outbox'[r].claims
               /\ lease'[r][n].stage = "held"
    <2>1. outbox'[q].claims = outbox[q].claims + 1
      BY <1>2 DEF Lease, Claim, UpdateRow, Claimed, TypeOK, Row
    <2>2. lease' = [lease EXCEPT ![q] =
                      [lease[q] EXCEPT ![outbox'[q].claims] = [by |-> w, stage |-> "held"]]]
      BY <1>2 DEF Lease
    <2>3. q = r /\ n = outbox'[q].claims
      BY <1>2, <2>2
    <2>4. lease'[r][n] = [by |-> w, stage |-> "held"]
      BY <2>2, <2>3
    <2>5. QED
      BY <1>2, <2>1, <2>3, <2>4
  <1>3. ASSUME NEW q \in Rows, NEW m \in Claims, NEW s, Goes(q, m, s)
        PROVE  \/ lease'[r][n] = lease[r][n]
               \/ q = r /\ m = n /\ lease'[r][n].stage = s
    <2>1. lease' = [lease EXCEPT ![q] = [lease[q] EXCEPT ![m] = [lease[q][m] EXCEPT !.stage = s]]]
      BY <1>3 DEF Goes
    <2>2. CASE q = r /\ m = n
      <3>1. lease'[r][n] = [lease[r][n] EXCEPT !.stage = s]
        BY <2>1, <2>2
      <3>2. lease[r][n] \in [by : Owners \cup {NoOwner}, stage : Stage]
        OBVIOUS
      <3>3. QED
        BY <2>2, <3>1, <3>2
    <2>3. CASE ~(q = r /\ m = n)
      BY <2>1, <2>3
    <2>4. QED
      BY <2>2, <2>3
  <1>4. ASSUME NEW q \in Rows, NEW m \in Claims, HostStep(q, m)
        PROVE  /\ lease[q][m].stage \in {"held", "asking", "authorized"}
               /\ \E s \in Outcome \cup {"asking", "authorized"} :
                    /\ Goes(q, m, s)
                    /\ s \in {"asking", "authorized", "sent"} =>
                         outbox[q].kind = "send" \/ lease[q][m].stage \in {"asking", "authorized"}
                    /\ s = "sent" => Transmit(q, m)
    <2>1. ASSUME NEW o \in Outcome, FinishRender(q, m, o)
          PROVE  /\ o \in {"text", "unusable", "refused"} /\ Goes(q, m, o)
                 /\ lease[q][m].stage = "held"
      BY <2>1 DEF FinishRender, At
    <2>2. CASE LoseContact(q, m)
      BY <2>2 DEF LoseContact, Outcome
    <2>3. CASE Ask(q, m)
      BY <2>3 DEF Ask, At, Outcome
    <2>4. CASE Verdict(q, m)
      BY <2>4 DEF Verdict, At, Outcome
    <2>5. CASE Transmit(q, m)
      <3>1. lease[q][m].stage = "authorized" /\ Goes(q, m, "sent")
        BY <2>5 DEF Transmit, At
      <3>2. QED
        BY <2>5, <3>1 DEF Outcome
    <2>6. CASE PlatformRefuses(q, m)
      BY <2>6 DEF PlatformRefuses, At, Outcome
    <2>7. QED
      BY <1>4, <2>1, <2>2, <2>3, <2>4, <2>5, <2>6 DEF HostStep
  <1>5. ASSUME NEW q \in Rows, NEW m \in Claims, HostStep(q, m), lease'[r][n] # lease[r][n]
        PROVE  /\ lease[r][n].stage \in {"held", "asking", "authorized"}
               /\ lease'[r][n].stage \in Outcome \cup {"asking", "authorized"}
               /\ lease'[r][n].stage \in {"asking", "authorized", "sent"} =>
                    \/ outbox[r].kind = "send"
                    \/ lease[r][n].stage \in {"asking", "authorized"}
               /\ lease'[r][n].stage = "sent" => Transmit(r, n)
    <2>1. PICK s \in Outcome \cup {"asking", "authorized"} :
            /\ Goes(q, m, s)
            /\ s \in {"asking", "authorized", "sent"} =>
                 outbox[q].kind = "send" \/ lease[q][m].stage \in {"asking", "authorized"}
            /\ s = "sent" => Transmit(q, m)
      BY <1>4, <1>5
    <2>2. q = r /\ m = n /\ lease'[r][n].stage = s
      BY <1>3, <1>5, <2>1
    <2>3. QED
      BY <1>4, <1>5, <2>1, <2>2
  <1>6. CASE \/ RuntimeStep
             \/ \E a \in Attempts, d \in ReconcileAction : Recoordinate(a, d)
             \/ \E q \in Rows, m \in Claims : Heartbeat(q, m)
             \/ \E q \in Rows, m \in Claims : Report(q, m)
    BY <1>1, <1>6 DEF RuntimeStep, Quiet, Recoordinate, Heartbeat, Report, ReportText,
                      ReportUnusable, ReportRefused, ReportSent, ReportOutage, Reported
  <1>7. CASE \E q \in Rows, w \in Owners : Lease(q, w)
    BY <1>2, <1>7
  <1>8. CASE \E q \in Rows, m \in Claims : HostStep(q, m)
    BY <1>5, <1>8
  <1>9. QED
    BY <1>6, <1>7, <1>8 DEF V1Next

LEMMA ClaimsStep ==
    ASSUME HostInv, V1Next
    PROVE  ClaimsWereMade' /\ OnlySendsGoOut'
  <1> USE DEF HostInv
  <1>1. ASSUME NEW r \in Rows, NEW n \in Claims, ~At(r, n, "none")'
        PROVE  Known(r) /\ Known(r)' /\ n <= outbox'[r].claims
    <2>1. outbox[r].claims \in Nat /\ n \in Nat
      BY DEF V1TypeOK, TypeOK, Row, Claims
    <2>2. CASE \E w \in Owners : Lease(r, w) /\ n = outbox'[r].claims
      BY <2>1, <2>2, RowLasts DEF Lease, Claim, Known
    <2>3. CASE ~At(r, n, "none")
      <3>1. Known(r) /\ n <= outbox[r].claims
        BY <2>3 DEF ClaimsWereMade
      <3>2. Known(r)' /\ outbox'[r].claims >= outbox[r].claims
        BY <3>1, RowLasts
      <3>3. V1TypeOK'
        BY V1TypeStep
      <3>4. outbox'[r].claims \in Nat
        BY <3>3 DEF V1TypeOK, TypeOK, Row
      <3>5. QED
        BY <2>1, <3>1, <3>2, <3>4
    <2>4. QED
      BY <1>1, <2>2, <2>3, StageMoves DEF At
  <1>2. ASSUME NEW r \in Rows, NEW n \in Claims,
               lease'[r][n].stage \in {"asking", "authorized", "sent"}
        PROVE  outbox'[r].kind = "send"
    <2>1. Known(r)
      BY <1>1, <1>2 DEF At
    <2>2. outbox[r].kind = "send"
      BY <1>2, StageMoves DEF OnlySendsGoOut
    <2>3. QED
      BY <2>1, <2>2, RowLasts
  <1>3. QED
    BY <1>1, <1>2 DEF ClaimsWereMade, OnlySendsGoOut

LEMMA GivenBackStep ==
    ASSUME HostInv, V1Next
    PROVE  GivenBackBeyondBudget'
  <1> SUFFICES ASSUME NEW r \in Rows, NEW n \in Claims, Known(r)', n >= MaxAttempts,
                      \/ n < outbox'[r].claims
                      \/ n = outbox'[r].claims /\ outbox'[r].status = "pending"
               PROVE  At(r, n, "outage")'
    BY DEF GivenBackBeyondBudget
  <1> USE DEF HostInv
  <1>1. outbox[r].claims \in Nat /\ n \in Nat \ {0} /\ MaxAttempts \in Nat
    BY MaxAttemptsAssumption DEF V1TypeOK, TypeOK, Row, Claims
  <1>2. Known(r)
    BY <1>1, NewRowsAreUnclaimed
  <1>3. At(r, n, "outage") => At(r, n, "outage")' \/ \E w \in Owners : Lease(r, w) /\ n = outbox[r].claims + 1
    BY StageMoves DEF At
  <1>4. ASSUME NEW w \in Owners, Lease(r, w) PROVE At(r, n, "outage")'
    <2>1. outbox[r].status = "pending" /\ outbox'[r].status = "leased"
            /\ outbox'[r].claims = outbox[r].claims + 1
      BY <1>4 DEF Lease, Claim, UpdateRow, Claimed, V1TypeOK, TypeOK, Row
    <2>2. n < outbox[r].claims \/ n = outbox[r].claims
      BY <1>1, <2>1
    <2>3. At(r, n, "outage")
      BY <1>2, <2>1, <2>2 DEF GivenBackBeyondBudget
    <2>4. QED
      BY <1>1, <1>3, <2>2, <2>3
  <1>5. ASSUME ~ \E w \in Owners : Lease(r, w) PROVE At(r, n, "outage")'
    <2>1. outbox'[r].claims = outbox[r].claims
      BY <1>2, <1>5, RowLasts
    <2>2. CASE n < outbox[r].claims
      BY <1>2, <1>3, <1>5, <2>2 DEF GivenBackBeyondBudget
    <2>3. CASE n = outbox[r].claims /\ outbox'[r].status = "pending"
      <3>1. Fate(r)
        BY <1>2, EveryFate
      <3>2. \/ outbox[r].status = "pending"
            \/ HolderSays(r, "pending")
        BY <1>1, <1>5, <2>3, <3>1 DEF Fate, Fades, RetryStatus
      <3>3. At(r, n, "outage")
        BY <1>2, <2>3, <3>2 DEF GivenBackBeyondBudget, HolderSays
      <3>4. QED
        BY <1>3, <1>5, <3>3
    <2>4. QED
      BY <2>1, <2>2, <2>3
  <1>6. QED
    BY <1>4, <1>5

-----------------------------------------------------------------------------
(* Counting what went out.                                                 *)

LEMMA Transmitted ==
    ASSUME V1TypeOK, NEW r \in Rows, NEW n \in Claims, Transmit(r, n)
    PROVE  /\ UNCHANGED outbox /\ ~At(r, n, "sent") /\ At(r, n, "sent")'
           /\ spoken' = [spoken EXCEPT ![outbox[r].attempt] = @ + 1]
           /\ \A q \in Rows, m \in Claims : <<q, m>> # <<r, n>> => lease'[q][m] = lease[q][m]
  <1>1. lease' = [lease EXCEPT ![r] = [lease[r] EXCEPT ![n] = [lease[r][n] EXCEPT !.stage = "sent"]]]
    BY DEF Transmit, Goes
  <1>2. lease[r][n] \in [by : Owners \cup {NoOwner}, stage : Stage]
    BY DEF V1TypeOK
  <1>3. lease'[r][n].stage = "sent"
    BY <1>1, <1>2 DEF V1TypeOK
  <1>4. \A q \in Rows, m \in Claims : <<q, m>> # <<r, n>> => lease'[q][m] = lease[q][m]
    BY <1>1 DEF V1TypeOK
  <1>5. QED
    BY <1>3, <1>4 DEF Transmit, At, vars

LEMMA SpentStep ==
    ASSUME HostInv, V1Next, NEW a \in Attempts
    PROVE  \/ /\ spoken'[a] = spoken[a]
              /\ Spent(a)' = Spent(a)
           \/ /\ spoken'[a] = spoken[a] + 1
              /\ \E p : p \notin Spent(a) /\ Spent(a)' = Spent(a) \cup {p}
  <1> USE DEF HostInv
  <1>1. ASSUME NEW r \in Rows, NEW n \in Claims
        PROVE  At(r, n, "sent") => At(r, n, "sent")' /\ outbox'[r].attempt = outbox[r].attempt
    <2> SUFFICES ASSUME At(r, n, "sent")
                 PROVE  At(r, n, "sent")' /\ outbox'[r].attempt = outbox[r].attempt
      OBVIOUS
    <2>1. Known(r) /\ n <= outbox[r].claims
      BY DEF ClaimsWereMade, At
    <2>2. outbox[r].claims \in Nat /\ n \in Nat
      BY DEF V1TypeOK, TypeOK, Row, Claims
    <2>3. n # outbox[r].claims + 1
      BY <2>1, <2>2
    <2>4. lease'[r][n] = lease[r][n]
      BY <2>3, StageMoves DEF At
    <2>5. QED
      BY <2>1, <2>4, RowLasts DEF At
  <1>2. ASSUME NEW r \in Rows, NEW n \in Claims, Transmit(r, n)
        PROVE  \/ /\ spoken'[a] = spoken[a]
                  /\ Spent(a)' = Spent(a)
               \/ /\ spoken'[a] = spoken[a] + 1
                  /\ \E p : p \notin Spent(a) /\ Spent(a)' = Spent(a) \cup {p}
    <2> DEFINE p == <<r, n>>
    <2>1. /\ UNCHANGED outbox /\ ~At(r, n, "sent") /\ At(r, n, "sent")'
          /\ spoken' = [spoken EXCEPT ![outbox[r].attempt] = @ + 1]
          /\ \A q \in Rows, m \in Claims : <<q, m>> # p => lease'[q][m] = lease[q][m]
      BY <1>2, Transmitted
    <2>2. \A x \in Rows \X Claims : x # p => (At(x[1], x[2], "sent")' <=> At(x[1], x[2], "sent"))
      BY <2>1 DEF At
    <2>3. CASE outbox[r].attempt = a
      <3>1. p \notin Spent(a) /\ p \in Rows \X Claims
        BY <2>1 DEF Spent
      <3>2. Spent(a)' = Spent(a) \cup {p}
        BY <2>1, <2>2, <2>3, <3>1 DEF Spent
      <3>3. spoken'[a] = spoken[a] + 1
        BY <2>1, <2>3 DEF V1TypeOK
      <3>4. QED
        BY <3>1, <3>2, <3>3
    <2>4. CASE outbox[r].attempt # a
      <3>1. \A x \in Rows \X Claims : outbox[x[1]].attempt = a => x # p
        BY <2>4
      <3>2. Spent(a)' = Spent(a)
        BY <2>1, <2>2, <3>1 DEF Spent
      <3>3. spoken'[a] = spoken[a]
        BY <2>1, <2>4 DEF V1TypeOK
      <3>4. QED
        BY <3>2, <3>3
    <2>5. QED
      BY <2>3, <2>4
  <1>3. ASSUME ~ \E r \in Rows, n \in Claims : Transmit(r, n)
        PROVE  spoken'[a] = spoken[a] /\ Spent(a)' = Spent(a)
    <2>1. \A r \in Rows, n \in Claims : At(r, n, "sent")' => At(r, n, "sent")
      BY <1>3, StageMoves DEF At
    <2>2. \A x \in Rows \X Claims :
              /\ At(x[1], x[2], "sent")' <=> At(x[1], x[2], "sent")
              /\ At(x[1], x[2], "sent") => outbox'[x[1]].attempt = outbox[x[1]].attempt
      BY <1>1, <2>1
    <2>3. Spent(a)' = Spent(a)
      BY <2>2 DEF Spent
    <2>4. spoken' = spoken
      BY <1>3 DEF V1Next, RuntimeStep, Quiet, Recoordinate, Lease, HostStep, FinishRender,
                  LoseContact, Ask, Verdict, PlatformRefuses, Heartbeat, Report, ReportText,
                  ReportUnusable, ReportRefused, ReportSent, ReportOutage, Reported
    <2>5. QED
      BY <2>3, <2>4
  <1>4. QED
    BY <1>2, <1>3

(* Only the report of a message that is out charges the contact budget.    *)
LEMMA OnlyReportsCharge ==
    ASSUME V1TypeOK, V1Next, NEW a \in Attempts
    PROVE  \/ charged'[a] = charged[a]
           \/ \E r \in Rows, n \in Claims : ReportSent(r, n) /\ outbox[r].attempt = a
  <1>1. ASSUME NEW r \in Rows, NEW n \in Claims, ReportSent(r, n), a # outbox[r].attempt
        PROVE  charged'[a] = charged[a]
    BY <1>1 DEF ReportSent, MarkDelivered, V1TypeOK, TypeOK
  <1>2. ASSUME NEW r \in Rows, NEW n \in Claims, Report(r, n), ~ReportSent(r, n)
        PROVE  UNCHANGED charged
    BY <1>2 DEF Report, ReportText, ReportUnusable, ReportRefused, ReportOutage,
                RenderUsable, RenderUnusable, ReportFailed, GiveBack, Nack, Requeue
  <1>3. CASE RuntimeStep
    BY <1>3 DEF RuntimeStep, AskVerdict, CommitDecided, RoundGivesUp, CommitAtOnce,
                CommitAttempt, Sweep, Tick, Ingest, ListPreSend, ReconcileRaises,
                BoundaryLifts, Ages, LeaseLapses, Crash
  <1>4. CASE \/ \E b \in Attempts, d \in ReconcileAction : Recoordinate(b, d)
             \/ \E r \in Rows, w \in Owners : Lease(r, w)
             \/ \E r \in Rows, n \in Claims : HostStep(r, n) \/ Heartbeat(r, n)
    BY <1>4 DEF Recoordinate, ReconcileNext, Lease, Claim, HostStep, FinishRender, LoseContact,
                Ask, Verdict, Transmit, PlatformRefuses, Heartbeat, Extend, vars
  <1>5. QED
    BY <1>1, <1>2, <1>3, <1>4 DEF V1Next

LEMMA OnlyTheSentAreCharged ==
    ASSUME HostInv, V1Next, NEW a \in Attempts
    PROVE  charged'[a] = charged[a] \/ Spent(a) # {}
  <1>1. ASSUME NEW r \in Rows, NEW n \in Claims, ReportSent(r, n), outbox[r].attempt = a
        PROVE  <<r, n>> \in Spent(a)
    BY <1>1 DEF ReportSent, Spent
  <1>2. QED
    BY <1>1, OnlyReportsCharge DEF HostInv

(* A report about a send row leaves its attempt no live row: the only      *)
(* other row it has is the render row, which is settled.                   *)
LEMMA SendingWithdraws ==
    ASSUME TypeOK, QueueInv, LiveRowServesItsAttempt, NEW r \in Rows, MarkDelivered(r),
           outbox[r].kind = "send", attempt[outbox[r].attempt].state = "ready_to_send",
           NEW q \in Rows, outbox[q].attempt = outbox[r].attempt
    PROVE  ~Live(outbox'[q])
  <1>1. outbox \in [Rows -> Row] /\ outbox[r] \in Row
           /\ outbox' = [outbox EXCEPT ![r] = Settled(@, "delivered")]
    BY DEF TypeOK, MarkDelivered, UpdateRow
  <1>2. CASE q = r
    BY <1>1, <1>2, RowsNarrowed
  <1>3. CASE q # r
    <2>1. outbox'[q] = outbox[q]
      BY <1>1, <1>3
    <2>2. Live(outbox[q]) => outbox[q].kind # "render"
      BY DEF LiveRowServesItsAttempt
    <2>3. Live(outbox[q]) => Known(q) /\ outbox[q].kind \in OutboxKind
      BY <1>1 DEF Live, Known, Row
    <2>4. Known(r)
      BY DEF MarkDelivered
    <2>5. QED
      BY <1>3, <2>1, <2>2, <2>3, <2>4 DEF QueueInv, OneRowPerKind, OutboxKind
  <1>4. QED
    BY <1>2, <1>3

LEMMA ServeStep ==
    ASSUME HostInv, DeliveryInv', [V1Next]_v1vars
    PROVE  LiveRowServesItsAttempt'
  <1> USE DEF HostInv, DeliveryInv
  <1>1. CASE UNCHANGED v1vars
    BY <1>1 DEF v1vars, vars, LiveRowServesItsAttempt
  <1>2. ASSUME V1Next, NEW r \in Rows, Live(outbox'[r])
        PROVE  attempt'[outbox'[r].attempt].state # "sent"
    <2> DEFINE a == outbox[r].attempt
    <2>1. Next \/ UNCHANGED vars
      BY <1>2, StepTranslates
    <2>2. a \in Attempts /\ attempt \in [Attempts -> AttemptRecord] /\ outbox \in [Rows -> Row]
            /\ (Live(outbox[r]) => attempt[a].state # "sent")
      BY DEF TypeOK, Row, LiveRowServesItsAttempt
    <2>3. CASE UNCHANGED vars
      BY <1>2, <2>2, <2>3 DEF vars
    <2>4. ASSUME NEW b \in Attempts, NEW q \in Rows, Commits(b, q)
          PROVE  attempt'[outbox'[r].attempt].state # "sent"
      <3>1. /\ outbox' = [outbox EXCEPT ![q] = NewRow("render", b)]
            /\ attempt' = MovedTo(b, "committed")
        BY <2>4 DEF Commits, CommitDecided, CommitAtOnce, CommitAttempt
      <3>2. NewRow("render", b).attempt = b
        BY DEF NewRow
      <3>3. QED
        BY <1>2, <2>2, <2>4, <3>1, <3>2 DEF MovedTo, AttemptRecord
    <2>5. ASSUME NEW p \in Rows, NEW q \in Rows, Readies(p, q)
          PROVE  attempt'[outbox'[r].attempt].state # "sent"
      <3> DEFINE b == outbox[p].attempt
      <3>1. /\ outbox' = [outbox EXCEPT ![p] = Settled(@, "delivered"), ![q] = NewRow("send", b)]
            /\ attempt' = MovedTo(b, "ready_to_send") /\ b \in Attempts
        BY <2>5 DEF Readies, TypeOK, Row
      <3>2. NewRow("send", b).attempt = b /\ ~Live(Settled(outbox[p], "delivered"))
        BY <2>2, RowsNarrowed DEF NewRow
      <3>3. QED
        BY <1>2, <2>2, <3>1, <3>2 DEF MovedTo, AttemptRecord
    <2>6. CASE Narrowing
      <3>1. outbox'[r].attempt = a /\ Live(outbox[r])
        BY <1>2, <2>6 DEF Narrowing, RowsNarrow, Narrowed
      <3>2. CASE attempt'[a].state = attempt[a].state
        BY <2>2, <3>1, <3>2
      <3>3. CASE attempt[a].state = "ready_to_send" /\ attempt'[a].state = "sent"
        <4>1. charged'[a] # charged[a]
          BY <2>2, <2>6, <3>3 DEF Narrowing, ChargesTheSent, TypeOK
        <4>2. PICK q \in Rows, n \in Claims : ReportSent(q, n) /\ outbox[q].attempt = a
          BY <1>2, <2>2, <4>1, OnlyReportsCharge
        <4>3. ~Live(outbox'[r])
          BY <3>3, <4>2, SendingWithdraws DEF ReportSent
        <4>4. QED
          BY <1>2, <4>3
      <3>4. CASE \A q \in Rows : outbox[q].attempt = a => ~Live(outbox'[q])
        BY <1>2, <3>4
      <3>5. QED
        BY <2>2, <2>6, <3>2, <3>3, <3>4 DEF Narrowing, AttemptsMoveOn
    <2>7. QED
      BY <2>1, <2>3, <2>4, <2>5, <2>6, NextStep
  <1>3. \A r \in Rows : Live(outbox'[r]) =>
            attempt'[outbox'[r].attempt].state \in
                IF outbox'[r].kind = "render" THEN {"committed"} ELSE {"ready_to_send", "sent"}
    BY DEF QueueInv, RowsEndWithTheirAttempt
  <1>4. QED
    BY <1>1, <1>2, <1>3 DEF LiveRowServesItsAttempt

LEMMA HostStepKeeps == HostInv /\ [V1Next]_v1vars => HostInv'
  <1> SUFFICES ASSUME HostInv, [V1Next]_v1vars PROVE HostInv'
    OBVIOUS
  <1>1. V1TypeOK' /\ DeliveryInv' /\ LiveRowServesItsAttempt'
    BY V1TypeStep, StepTranslates, InvStep, ServeStep DEF HostInv
  <1>2. CASE V1Next
    <2>1. ClaimsWereMade' /\ OnlySendsGoOut' /\ GivenBackBeyondBudget'
      BY <1>2, ClaimsStep, GivenBackStep
    <2>2. OneClaimEach'
      <3> SUFFICES ASSUME NEW a \in Attempts
                   PROVE  IsFiniteSet(Spent(a)') /\ spoken'[a] = Cardinality(Spent(a)')
        BY DEF OneClaimEach
      <3>1. IsFiniteSet(Spent(a)) /\ spoken[a] = Cardinality(Spent(a))
        BY DEF HostInv, OneClaimEach
      <3>2. CASE spoken'[a] = spoken[a] /\ Spent(a)' = Spent(a)
        BY <3>1, <3>2
      <3>3. ASSUME NEW p, p \notin Spent(a), Spent(a)' = Spent(a) \cup {p},
                   spoken'[a] = spoken[a] + 1
            PROVE  IsFiniteSet(Spent(a)') /\ spoken'[a] = Cardinality(Spent(a)')
        <4>1. /\ IsFiniteSet(Spent(a) \cup {p})
              /\ Cardinality(Spent(a) \cup {p}) = Cardinality(Spent(a)) + 1
          BY <3>1, <3>3, FS_AddElement
        <4>2. QED
          BY <3>1, <3>3, <4>1
      <3>4. QED
        BY <1>2, <3>2, <3>3, SpentStep
    <2>3. ContactsWereMade'
      <3> SUFFICES ASSUME NEW a \in Attempts, charged'[a] > 0 PROVE spoken'[a] > 0
        BY DEF ContactsWereMade
      <3>1. IsFiniteSet(Spent(a)) /\ spoken[a] = Cardinality(Spent(a)) /\ spoken[a] \in Nat
        BY DEF HostInv, OneClaimEach, V1TypeOK
      <3>2. spoken[a] > 0
        <4>1. CASE charged'[a] = charged[a]
          BY <4>1 DEF HostInv, ContactsWereMade
        <4>2. CASE Spent(a) # {}
          BY <3>1, <4>2, FS_EmptySet
        <4>3. QED
          BY <1>2, <4>1, <4>2, OnlyTheSentAreCharged
      <3>3. QED
        BY <1>2, <3>1, <3>2, SpentStep
    <2>4. QED
      BY <1>1, <2>1, <2>2, <2>3 DEF HostInv
  <1>3. CASE UNCHANGED v1vars
    <2>1. \A a : Spent(a)' = Spent(a)
      BY <1>3 DEF v1vars, vars, Spent, At
    <2>2. QED
      BY <1>1, <1>3, <2>1
         DEF HostInv, v1vars, vars, ClaimsWereMade, OnlySendsGoOut, GivenBackBeyondBudget,
             OneClaimEach, ContactsWereMade, At, Known
  <1>4. QED
    BY <1>2, <1>3

(* The invariant of the hosts: what is proved of the store, and what can   *)
(* have become of the claims.                                              *)
THEOREM HostInvariance == V1Spec => []HostInv
  BY HostInit, HostStepKeeps, PTL DEF V1Spec

(* Nothing is charged to the contact budget that was not said, whichever   *)
(* claim reports it.                                                       *)
THEOREM ChargesWereSaid == V1Spec => []ContactsWereMade
  <1>1. HostInv => ContactsWereMade
    BY DEF HostInv
  <1>2. QED
    BY <1>1, HostInvariance, PTL

(* No adapter can lease work that its attempt does not want any more, as   *)
(* long as all of them report by protocol v1: a report there is about a    *)
(* row of the kind it claims to be.                                        *)
THEOREM LiveRowsServe == V1Spec => []LiveRowServesItsAttempt
  <1>1. HostInv => LiveRowServesItsAttempt
    BY DEF HostInv
  <1>2. QED
    BY <1>1, HostInvariance, PTL

(* Below the end of the budget a claim is transmitted once at most; beyond *)
(* it every claim but the current one was given back: so the claims that   *)
(* were transmitted number max_attempts at most.                           *)
LEMMA BudgetBounds == HostInv => TransmissionBudget
  <1> SUFFICES ASSUME HostInv, NEW a \in Attempts PROVE spoken[a] <= MaxAttempts
    BY DEF TransmissionBudget
  <1> USE DEF HostInv
  <1> DEFINE slot == [p \in Spent(a) |-> IF p[2] < MaxAttempts THEN p[2] ELSE MaxAttempts]
  <1>1. MaxAttempts \in Nat \ {0}
    BY MaxAttemptsAssumption
  <1>2. ASSUME NEW p \in Spent(a)
        PROVE  /\ p = <<p[1], p[2]>> /\ p[1] \in Rows /\ p[2] \in Claims
               /\ p[2] \in Nat \ {0}
               /\ Known(p[1]) /\ outbox[p[1]].kind = "send" /\ outbox[p[1]].attempt = a
               /\ p[2] <= outbox[p[1]].claims
               /\ p[2] >= MaxAttempts => p[2] = outbox[p[1]].claims
    <2>1. /\ p = <<p[1], p[2]>> /\ p[1] \in Rows /\ p[2] \in Claims
          /\ At(p[1], p[2], "sent") /\ outbox[p[1]].attempt = a
      BY DEF Spent
    <2>2. p[2] \in Nat \ {0} /\ outbox[p[1]].claims \in Nat
      BY <2>1 DEF Claims, V1TypeOK, TypeOK, Row
    <2>3. Known(p[1]) /\ p[2] <= outbox[p[1]].claims
      BY <2>1 DEF ClaimsWereMade, At
    <2>4. outbox[p[1]].kind = "send"
      BY <2>1 DEF OnlySendsGoOut, At
    <2>5. p[2] >= MaxAttempts => p[2] = outbox[p[1]].claims
      BY <1>1, <2>1, <2>2, <2>3 DEF GivenBackBeyondBudget, At
    <2>6. QED
      BY <2>1, <2>2, <2>3, <2>4, <2>5
  <1>3. \A p, q \in Spent(a) : p[1] = q[1]
    BY <1>2 DEF DeliveryInv, QueueInv, OneRowPerKind
  <1>4. slot \in [Spent(a) -> 1..MaxAttempts]
    BY <1>1, <1>2
  <1>5. ASSUME NEW p \in Spent(a), NEW q \in Spent(a), slot[p] = slot[q]
        PROVE  p = q
    <2>1. p[2] = q[2]
      BY <1>1, <1>2, <1>3, <1>5
    <2>2. QED
      BY <1>2, <1>3, <2>1
  <1>6. slot \in Injection(Spent(a), 1..MaxAttempts)
    BY <1>4, <1>5 DEF Injection, IsInjective
  <1>7. IsFiniteSet(1..MaxAttempts) /\ Cardinality(1..MaxAttempts) = MaxAttempts
    BY <1>1, FS_Interval
  <1>8. Cardinality(Spent(a)) <= MaxAttempts
    BY <1>6, <1>7, FS_Injection
  <1>9. QED
    BY <1>8 DEF OneClaimEach

(* A message goes out max_attempts times at most, for every budget, every  *)
(* number of adapters and every loss and repetition of reports: the claims *)
(* an outage gives back on top of the budget do not count.                 *)
THEOREM BudgetHolds == V1Spec => []TransmissionBudget
  BY BudgetBounds, HostInvariance, PTL
=============================================================================
