-------------------------- MODULE ProposalsProofs --------------------------
(***************************************************************************)
(* The state row and the proposals, for any number of messages, changes,   *)
(* tasks and matters.                                                      *)
(***************************************************************************)
EXTENDS Proposals, SequenceTheorems, TLAPS

(* Why no tick loses a message: whoever holds the session has a row that is*)
(* the stored one as long as the version stands, and a tick's row shows    *)
(* every message of the log, since no message commits beside it.           *)
RowInv ==
    /\ RowTypeOK
    /\ MessagesAreKept
    /\ row.has \cap Messages \subseteq Logged
    /\ session.by # "none" => session.read.version <= row.version
    /\ session.by # "none" /\ Current => session.read = row
    /\ session.by = "tick" => session.read.has \cap Messages = Logged

(* A message that is appended is the one message more.                     *)
LEMMA LoggedAppend ==
    ASSUME log \in Seq(Messages), NEW m \in Messages, log' = Append(log, m)
    PROVE  /\ log' \in Seq(Messages)
           /\ Logged' = Logged \cup {m}
<1>1. /\ log' \in Seq(Messages) /\ Len(log) \in Nat
      /\ DOMAIN log = 1..Len(log) /\ DOMAIN log' = 1..(Len(log) + 1)
      /\ log'[Len(log) + 1] = m
      /\ \A i \in 1..Len(log) : log'[i] = log[i]
    OBVIOUS
<1>2. Logged' = {log'[i] : i \in 1..(Len(log) + 1)} BY <1>1 DEF Logged
<1>3. Logged = {log[i] : i \in 1..Len(log)} BY <1>1 DEF Logged
<1> QED BY <1>1, <1>2, <1>3

LEMMA RowInvInit == RowInit => RowInv
<1> SUFFICES ASSUME RowInit PROVE RowInv OBVIOUS
<1>1. Logged = {} BY DEF RowInit, Logged
<1>2. log \in Seq(Messages) BY DEF RowInit
<1> QED BY <1>1, <1>2 DEF RowInit, RowInv, RowTypeOK, MessagesAreKept, Fresh, NoSession, Row, Holder

LEMMA RowInvStep ==
    ASSUME RowInv, [RowNext]_rowVars
    PROVE  RowInv'
<1> USE StateRowAssumption DEF Row
<1>0. row \in Row /\ session \in [by : Holder, read : Row] /\ log \in Seq(Messages)
      /\ changed \subseteq Changes
    BY DEF RowInv, RowTypeOK
<1>1. CASE \E h \in {"tick"} \cup Messages : Begins(h)
  <2>1. Logged' = Logged BY <1>1 DEF Begins, Logged
  <2>2. PICK h \in {"tick"} \cup Messages : session' = [by |-> h, read |-> row]
      BY <1>1 DEF Begins
  <2>3. row' = row /\ log' = log /\ changed' = changed BY <1>1 DEF Begins
  <2>4. RowTypeOK' BY <1>0, <2>2, <2>3 DEF RowTypeOK, Holder
  <2>5. row.has \cap Messages = Logged BY DEF RowInv, MessagesAreKept, Logged, RowTypeOK
  <2> QED BY <1>0, <2>1, <2>2, <2>3, <2>4, <2>5 DEF RowInv, MessagesAreKept, Current
<1>2. CASE Abandons
  <2>1. Logged' = Logged BY <1>2 DEF Abandons, Logged
  <2> QED BY <1>0, <1>2, <2>1
      DEF Abandons, NoSession, Fresh, RowInv, RowTypeOK, MessagesAreKept, Current, Holder
<1>3. CASE TickCommits
  <2>1. Logged' = Logged BY <1>3 DEF TickCommits, Logged
  <2>2. row' = [version |-> row.version + 1, has |-> session.read.has] /\ session' = NoSession
        /\ log' = log /\ changed' = changed /\ session.by = "tick"
      BY <1>3 DEF TickCommits, Write, Replaced
  <2>3. RowTypeOK' BY <1>0, <2>2 DEF RowTypeOK, NoSession, Fresh, Holder
  <2>4. MessagesAreKept' BY <2>1, <2>2 DEF RowInv, MessagesAreKept
  <2>5. (row.has \cap Messages \subseteq Logged)'
      BY <2>1, <2>2 DEF RowInv
  <2> QED BY <2>2, <2>3, <2>4, <2>5 DEF RowInv, NoSession
<1>4. ASSUME NEW m \in Messages, MessageCommits(m) PROVE RowInv'
  <2>1. log' \in Seq(Messages) /\ Logged' = Logged \cup {m}
      BY <1>0, <1>4, LoggedAppend DEF MessageCommits
  <2>2. session.read = row BY <1>4 DEF MessageCommits, RowInv
  <2>3. row' = [version |-> row.version + 1, has |-> row.has \cup {m}] /\ session' = NoSession
        /\ changed' = changed
      BY <1>4, <2>2 DEF MessageCommits, Write, Replaced
  <2> QED BY <1>0, <2>1, <2>3 DEF RowInv, RowTypeOK, MessagesAreKept, NoSession, Fresh, Holder
<1>5. ASSUME NEW X \in SUBSET Changes, ReducerWrites(X) PROVE RowInv'
  <2>1. Logged' = Logged BY <1>5 DEF ReducerWrites, Logged
  <2>2. row' = [version |-> row.version + 1, has |-> row.has \cup X] /\ session' = session
        /\ log' = log /\ changed' = changed \cup X
      BY <1>5 DEF ReducerWrites, Write, Replaced
  <2> QED BY <1>0, <2>1, <2>2 DEF RowInv, RowTypeOK, MessagesAreKept, Current
<1>6. CASE UNCHANGED rowVars
  <2>1. Logged' = Logged BY <1>6 DEF rowVars, Logged
  <2> QED BY <1>6, <2>1 DEF rowVars, RowInv, RowTypeOK, MessagesAreKept, Current
<1> QED BY <1>1, <1>2, <1>3, <1>4, <1>5, <1>6 DEF RowNext

(* The row's invariant, whoever writes it and in whatever order.           *)
THEOREM RowInvariant == RowSpec => []RowInv
<1>1. RowInv /\ [RowNext]_rowVars => RowInv' BY RowInvStep
<1> QED BY RowInvInit, <1>1, PTL DEF RowSpec

(* What a message did to the state is never overwritten (_lazy_tick,       *)
(* process_user_message).                                                  *)
THEOREM MessagesAlwaysKept == RowSpec => []MessagesAreKept
<1>1. RowInv => MessagesAreKept BY DEF RowInv
<1> QED BY RowInvariant, <1>1, PTL

LEMMA OverwriteStep ==
    ASSUME RowInv, [RowNext]_rowVars
    PROVE  \/ row.has \subseteq row'.has
           \/ /\ session.by = "tick"
              /\ row.has \ row'.has \subseteq Changes \ session.read.has
<1>1. row \in Row BY DEF RowInv, RowTypeOK
<1>2. CASE \/ \E h \in {"tick"} \cup Messages : Begins(h)
           \/ Abandons
           \/ UNCHANGED rowVars
    BY <1>2 DEF Begins, Abandons, rowVars
<1>3. CASE TickCommits
  <2>1. row'.has = session.read.has /\ session.by = "tick"
      BY <1>3 DEF TickCommits, Write, Replaced
  <2>2. row.has \cap Messages = session.read.has \cap Messages
      BY <2>1 DEF RowInv, MessagesAreKept
  <2> QED BY <1>1, <2>1, <2>2 DEF Row
<1>4. ASSUME NEW m \in Messages, MessageCommits(m) PROVE row.has \subseteq row'.has
  <2>1. session.read = row BY <1>4, StateRowAssumption DEF MessageCommits, RowInv
  <2> QED BY <1>4, <2>1 DEF MessageCommits, Write, Replaced
<1>5. ASSUME NEW X \in SUBSET Changes, ReducerWrites(X) PROVE row.has \subseteq row'.has
    BY <1>5 DEF ReducerWrites, Write, Replaced
<1> QED BY <1>2, <1>3, <1>4, <1>5 DEF RowNext

(* Only a tick takes something out of the row, and only what a reducer     *)
(* transaction put there since it read it (RuntimeProjection.write).       *)
THEOREM TicksOverwriteOnly == RowSpec => OnlyTicksOverwrite
<1>1. RowInv /\ [RowNext]_rowVars
        => [row.has \subseteq row'.has
            \/ /\ session.by = "tick"
               /\ row.has \ row'.has \subseteq Changes \ session.read.has]_rowVars
    BY OverwriteStep
<1> QED BY RowInvariant, <1>1, PTL DEF RowSpec, OnlyTicksOverwrite

-----------------------------------------------------------------------------
(* Proposals, refreshes and matters only write the row as StateRow allows. *)

LEMMA ProposalsRefineStep ==
    ASSUME [PropNext]_propVars
    PROVE  [RowNext]_rowVars
<1> USE ProposalsAssumption DEF RowNext
<1>1. CASE Coordinator
    BY <1>1 DEF Coordinator, Ingest, Tick
<1>2. CASE Reports
    BY <1>2 DEF Reports
<1>3. ASSUME NEW x \in Openers, PostMatter(x) \/ PostResolved(x) \/ ReservationEnds(x)
      PROVE  [RowNext]_rowVars
    BY <1>3 DEF PostMatter, PostResolved, ReservationEnds
<1>4. ASSUME NEW t \in Tasks, NEW w, ProcessProposal(t, w)
      PROVE  [RowNext]_rowVars
    BY <1>4 DEF ProcessProposal, Discards, Applies
<1>5. ASSUME NEW t \in Tasks, Dispatch(t) \/ Register(t) \/ Submit(t) \/ Refresh(t)
      PROVE  [RowNext]_rowVars
  <2>1. CASE Dispatch(t) \/ Register(t) BY <2>1 DEF Dispatch, Register
  <2>2. CASE Submit(t) BY <2>2, <1>4 DEF Submit
  <2>3. CASE RefreshStarts(t) BY <2>3 DEF RefreshStarts
  <2>4. CASE RefreshEnds(t) BY <2>4, <1>4 DEF RefreshEnds
  <2> QED BY <1>5, <2>1, <2>2, <2>3, <2>4 DEF Refresh
<1>6. CASE UNCHANGED propVars BY <1>6 DEF propVars
<1> QED BY <1>1, <1>2, <1>3, <1>5, <1>6 DEF PropNext

(* Every behaviour of the proposals is one of the state row, so that the   *)
(* row's theorems hold of them.                                            *)
THEOREM ProposalsRefineRow == PropSpec => RowSpec
<1>1. PropInit => RowInit BY DEF PropInit
<1>2. [PropNext]_propVars => [RowNext]_rowVars BY ProposalsRefineStep
<1> QED BY <1>1, <1>2, PTL DEF PropSpec, RowSpec

(* With results coming back late and matters posted in between, no         *)
(* message's effect on the state is lost either.                           *)
THEOREM ProposalsKeepMessages == PropSpec => []MessagesAreKept /\ OnlyTicksOverwrite
BY ProposalsRefineRow, MessagesAlwaysKept, TicksOverwriteOnly
-----------------------------------------------------------------------------
(* Types of what the proposals keep, and the two counts.                   *)

PropType ==
    /\ row.version \in Nat /\ log \in Seq(Messages)
    /\ task \in [Tasks -> TaskStatus]
    /\ work \in [Tasks -> [at : {"idle", "out", "done"}, base : Nat,
                           since : Nat, dated : BOOLEAN]]
    /\ matter \in [Openers -> MatterStatus]
    /\ decided \in [Tasks -> Nat]
    /\ reopened \in [Tasks -> 0..MaxReopened]

(* A task that waits for its result has been decided on once for each time *)
(* it was reopened, one that was dealt with once more.                     *)
VerdictInv ==
    \A t \in Tasks : decided[t] <= reopened[t] + (IF DealtWith(t) THEN 1 ELSE 0)

Distinct(matters) ==
    \A x, y \in {z \in Openers \ Posts : matters[z] = "live"} :
        x # y => /\ Subject[x] # Subject[y]
                 /\ {x, y} \cap Tasks # {} => Sources(x) \cap Sources(y) = {}

(* A matter a result opened rests on messages that were there, so that no  *)
(* later message is the source of it.                                      *)
Grounded(matters) ==
    \A t \in Tasks \cap Openers : matters[t] # "none" => Cites[t] \subseteq Logged

MatterInv == Distinct(matter) /\ Grounded(matter)

PropInv == PropType /\ VerdictInv /\ MatterInv

(* Closing matters leaves the open ones distinct.                          *)
LEMMA ClosingKeepsDistinct ==
    ASSUME NEW M, NEW N, Distinct(M),
           \A x \in Openers \ Posts : N[x] = "live" => M[x] = "live"
    PROVE  Distinct(N)
BY DEF Distinct

(* Opening a matter behind the guards leaves them distinct, unless an open *)
(* one was derived from the message that opens it.                         *)
LEMMA OpeningKeepsDistinct ==
    ASSUME NEW M \in [Openers -> MatterStatus], NEW x, Distinct(M),
           x \in Messages \cup Tasks,
           x \in Messages => \A t \in Tasks \cap Openers : M[t] = "live" => x \notin Cites[t]
    PROVE  Distinct(Opened(x, M)) /\ Opened(x, M) \in [Openers -> MatterStatus]
<1>1. CASE ~(x \in Openers /\ ~SpokenFor(x, M)) BY <1>1 DEF Opened
<1>2. CASE x \in Openers /\ ~SpokenFor(x, M)
  <2> DEFINE N == [M EXCEPT ![x] = "live"]
  <2>1. Opened(x, M) = N BY <1>2 DEF Opened
  <2>2. N \in [Openers -> MatterStatus] /\ \A y \in Openers : y # x => N[y] = M[y]
      BY <1>2 DEF MatterStatus
  <2>3. \A y \in Openers : M[y] = "live" =>
            /\ Subject[x] # Subject[y]
            /\ x \in Tasks => Sources(x) \cap Sources(y) = {}
      BY <1>2 DEF SpokenFor, Guards
  <2>4. ASSUME NEW y \in Openers \ Posts, M[y] = "live", y \in Tasks, x \notin Tasks
        PROVE  Sources(x) \cap Sources(y) = {}
    <3>1. x \in Messages /\ y \notin Messages BY <2>4, ProposalsAssumption
    <3> QED BY <2>4, <3>1 DEF Sources
  <2>5. ASSUME NEW y \in Openers \ Posts, M[y] = "live"
        PROVE  /\ Subject[x] # Subject[y]
               /\ {x, y} \cap Tasks # {} => Sources(x) \cap Sources(y) = {}
      BY <2>3, <2>4, <2>5
  <2>6. Distinct(N)
    <3> SUFFICES ASSUME NEW a \in Openers \ Posts, NEW b \in Openers \ Posts,
                        N[a] = "live", N[b] = "live", a # b
                 PROVE  /\ Subject[a] # Subject[b]
                        /\ {a, b} \cap Tasks # {} => Sources(a) \cap Sources(b) = {}
        BY DEF Distinct
    <3>1. CASE a = x
      <4>1. M[b] = "live" BY <2>2, <3>1
      <4> QED BY <2>5, <3>1, <4>1
    <3>2. CASE b = x
      <4>1. M[a] = "live" BY <2>2, <3>2
      <4>2. {x, a} = {a, b} /\ Sources(x) \cap Sources(a) = Sources(a) \cap Sources(b) BY <3>2
      <4> QED BY <2>5, <3>2, <4>1, <4>2
    <3>3. CASE a # x /\ b # x
      <4>1. M[a] = "live" /\ M[b] = "live" BY <2>2, <3>3
      <4> QED BY <4>1 DEF Distinct
    <3> QED BY <3>1, <3>2, <3>3
  <2> QED BY <2>1, <2>2, <2>6
<1> QED BY <1>1, <1>2

LEMMA PropInvInit == PropInit => PropInv
<1> SUFFICES ASSUME PropInit PROVE PropInv OBVIOUS
<1> USE ProposalsAssumption DEF PropInit
<1>1. PropType BY DEF PropType, RowInit, Fresh, NotStarted, TaskStatus, MatterStatus
<1>2. VerdictInv BY DEF VerdictInv, DealtWith
<1>3. MatterInv BY DEF MatterInv, Distinct, Grounded
<1> QED BY <1>1, <1>2, <1>3 DEF PropInv

(* The coordinator, the reports, and the passing of a reservation decide   *)
(* nothing.                                                                *)
LEMMA UndecidedKeeps ==
    ASSUME PropInv, Untouched, Logged \subseteq Logged',
           row'.version \in Nat, log' \in Seq(Messages),
           matter' \in [Openers -> MatterStatus], Distinct(matter'),
           \A t \in Tasks \cap Openers : matter[t] = "none" => matter'[t] = "none"
    PROVE  PropInv'
<1>1. PropType' BY DEF PropInv, PropType, Untouched
<1>2. VerdictInv' BY DEF PropInv, VerdictInv, DealtWith, Untouched
<1>3. Distinct(matter)' BY DEF Distinct, Sources
<1>4. Grounded(matter)' BY DEF PropInv, MatterInv, Grounded
<1> QED BY <1>1, <1>2, <1>3, <1>4 DEF PropInv, MatterInv

LEMMA IngestKeeps ==
    ASSUME PropInv, NEW m \in Messages, Ingest(m)
    PROVE  PropInv'
<1> DEFINE M == Settled(m, matter)
<1>1. log' \in Seq(Messages) /\ Logged' = Logged \cup {m} /\ m \notin Logged
    BY LoggedAppend DEF Ingest, MessageCommits, PropInv, PropType
<1>2. row'.version \in Nat
    BY DEF Ingest, MessageCommits, Write, Replaced, PropInv, PropType
<1>3. M \in [Openers -> MatterStatus]
    BY DEF Settled, PropInv, PropType, MatterStatus
<1>4. \A x \in Openers : /\ M[x] = "live" => matter[x] = "live"
                         /\ matter[x] = "none" => M[x] = "none"
    BY DEF Settled
<1>5. Distinct(M) BY <1>4, ClosingKeepsDistinct DEF PropInv, MatterInv
<1>6. \A t \in Tasks \cap Openers : M[t] = "live" => m \notin Cites[t]
    BY <1>1, <1>4 DEF PropInv, MatterInv, Grounded
<1>7. matter' = Opened(m, M) BY DEF Ingest
<1>8. Distinct(matter') /\ matter' \in [Openers -> MatterStatus]
    BY <1>3, <1>5, <1>6, <1>7, OpeningKeepsDistinct
<1>9. \A t \in Tasks \cap Openers : matter[t] = "none" => matter'[t] = "none"
    BY <1>3, <1>4, <1>7, ProposalsAssumption DEF Opened
<1> QED BY <1>1, <1>2, <1>8, <1>9, UndecidedKeeps DEF Ingest

LEMMA ReducerWritesKeeps ==
    ASSUME PropType, NEW X, ReducerWrites(X)
    PROVE  row'.version \in Nat /\ log' = log /\ Logged' = Logged
BY DEF ReducerWrites, Write, Replaced, PropType, Logged

(* A decision is only made on a task that waits for one.                   *)
LEMMA ProcessKeeps ==
    ASSUME PropInv, NEW t \in Tasks, NEW w, ProcessProposal(t, w),
           work' \in [Tasks -> [at : {"idle", "out", "done"}, base : Nat,
                               since : Nat, dated : BOOLEAN]]
    PROVE  PropInv'
<1>0. PropType /\ VerdictInv /\ MatterInv BY DEF PropInv
<1>1. /\ task[t] \in {"absent", "in_flight"} /\ decided[t] \in Nat /\ reopened[t] \in Nat
      /\ decided[t] <= reopened[t] /\ reopened' = reopened
    BY <1>0, ProposalsAssumption
    DEF ProcessProposal, AlreadySettled, DealtWith, VerdictInv, PropType, TaskStatus
<1>2. CASE Discards(t)
  <2>1. /\ task' = [task EXCEPT ![t] = IF @ = "absent" THEN @ ELSE "discarded"]
        /\ decided' = IF task[t] = "absent" THEN decided ELSE [decided EXCEPT ![t] = @ + 1]
        /\ matter' = matter /\ row' = row /\ log' = log
      BY <1>2 DEF Discards, NoMatters, rowVars
  <2>2. PropType' BY <1>0, <1>1, <2>1 DEF PropType, TaskStatus
  <2>3. VerdictInv' BY <1>0, <1>1, <2>1 DEF PropType, VerdictInv, DealtWith
  <2>4. MatterInv' BY <1>0, <2>1 DEF MatterInv, Distinct, Grounded, Sources, Logged
  <2> QED BY <2>2, <2>3, <2>4 DEF PropInv
<1>3. CASE Applies(t, w) /\ ~Discarded(t, w)
  <2>1. /\ task' = [task EXCEPT ![t] = "settled"]
        /\ decided' = [decided EXCEPT ![t] = @ + 1]
        /\ matter' = Opened(t, matter)
        /\ row'.version \in Nat /\ log' = log /\ Logged' = Logged
        /\ Cites[t] \subseteq Logged
      BY <1>0, <1>3, ReducerWritesKeeps DEF Applies, Discarded
  <2>2. t \notin Messages BY ProposalsAssumption
  <2>3. Distinct(matter') /\ matter' \in [Openers -> MatterStatus]
      BY <1>0, <2>1, <2>2, OpeningKeepsDistinct DEF PropType, MatterInv
  <2>4. PropType' BY <1>0, <1>1, <2>1, <2>3 DEF PropType, TaskStatus
  <2>5. VerdictInv'
    <3>1. /\ decided'[t] = decided[t] + 1 /\ task'[t] = "settled"
          /\ \A s \in Tasks \ {t} : decided'[s] = decided[s] /\ task'[s] = task[s]
        BY <1>0, <2>1 DEF PropType
    <3>2. decided'[t] <= reopened'[t] + 1 BY <1>1, <3>1
    <3>3. ASSUME NEW s \in Tasks
          PROVE  decided'[s] <= reopened'[s] + (IF task'[s] \in {"settled", "discarded"} THEN 1 ELSE 0)
      <4>1. CASE s = t BY <3>1, <3>2, <4>1
      <4>2. CASE s # t BY <1>0, <1>1, <3>1, <4>2 DEF VerdictInv, DealtWith
      <4> QED BY <4>1, <4>2
    <3> QED BY <3>3 DEF VerdictInv, DealtWith
  <2>6. Distinct(matter)' BY <2>3 DEF Distinct, Sources
  <2>7. Grounded(matter)' BY <1>0, <2>1 DEF MatterInv, Grounded, Opened, PropType
  <2> QED BY <2>4, <2>5, <2>6, <2>7 DEF PropInv, MatterInv
<1> QED BY <1>2, <1>3 DEF ProcessProposal

LEMMA MattersKeep ==
    ASSUME PropInv, Untouched,
           \/ Tick \/ Reports
           \/ (Abandons \/ \E h \in {"tick"} \cup Messages : Begins(h)) /\ NoMatters
           \/ \E x \in Openers : PostMatter(x) \/ PostResolved(x) \/ ReservationEnds(x)
    PROVE  PropInv'
<1>0. PropType /\ Distinct(matter) BY DEF PropInv, MatterInv
<1>1. row'.version \in Nat /\ log' = log
  <2>1. CASE Tick
      BY <1>0, <2>1 DEF Tick, TickCommits, Write, Replaced, PropType
  <2>2. CASE Reports BY <1>0, <2>2, ReducerWritesKeeps DEF Reports
  <2>3. CASE Abandons \/ \E h \in {"tick"} \cup Messages : Begins(h)
      BY <1>0, <2>3 DEF Abandons, Begins, PropType
  <2>4. ASSUME NEW x \in Openers, PostMatter(x) \/ PostResolved(x) \/ ReservationEnds(x)
        PROVE  row'.version \in Nat /\ log' = log
      BY <1>0, <2>4, ReducerWritesKeeps
      DEF PostMatter, PostResolved, ReservationEnds, rowVars, PropType
  <2> QED BY <2>1, <2>2, <2>3, <2>4
<1>2. /\ matter' \in [Openers -> MatterStatus]
      /\ \A x \in Openers \ Posts : /\ matter'[x] = "live" => matter[x] = "live"
                                    /\ matter[x] = "none" => matter'[x] = "none"
  <2>1. CASE Tick
    <3>1. PICK X \in SUBSET {x \in Openers : matter[x] = "live"} :
              matter' = [x \in Openers |-> IF x \in X THEN "released" ELSE matter[x]]
        BY <2>1 DEF Tick
    <3> QED BY <1>0, <3>1 DEF PropType, MatterStatus
  <2>2. CASE NoMatters \/ Reports BY <1>0, <2>2 DEF Reports, NoMatters, PropType
  <2>3. ASSUME NEW x \in Openers, PostMatter(x)
        PROVE  /\ matter' \in [Openers -> MatterStatus]
               /\ \A y \in Openers \ Posts : matter'[y] = matter[y]
      BY <1>0, <2>3 DEF PostMatter, PropType, MatterStatus
  <2>4. ASSUME NEW x \in Openers, PostResolved(x) \/ ReservationEnds(x)
        PROVE  /\ matter' \in [Openers -> MatterStatus]
               /\ \A y \in Openers : /\ matter'[y] = "live" => matter[y] = "live"
                                     /\ matter[y] = "none" => matter'[y] = "none"
      BY <1>0, <2>4 DEF PostResolved, ReservationEnds, PropType, MatterStatus
  <2> QED BY <2>1, <2>2, <2>3, <2>4
<1>3. Distinct(matter') BY <1>0, <1>2, ClosingKeepsDistinct
<1>4. Logged' = Logged /\ log' \in Seq(Messages) BY <1>0, <1>1 DEF Logged, PropType
<1> QED BY <1>1, <1>2, <1>3, <1>4, UndecidedKeeps, ProposalsAssumption

LEMMA PropInvStep ==
    ASSUME PropInv, [PropNext]_propVars
    PROVE  PropInv'
<1>0. PropType /\ VerdictInv /\ MatterInv BY DEF PropInv
<1> DEFINE Work == [at : {"idle", "out", "done"}, base : Nat, since : Nat, dated : BOOLEAN]
<1>1. \A dated \in BOOLEAN : Snapshot(dated) \in Work
  <2>1. Len(log) \in Nat BY <1>0 DEF PropType
  <2> QED BY <1>0, <2>1 DEF Snapshot, PropType
<1>2. CASE Coordinator
    BY <1>2, IngestKeeps, MattersKeep DEF Coordinator, Tick
<1>3. CASE Reports BY <1>3, MattersKeep DEF Reports
<1>4. ASSUME NEW x \in Openers, PostMatter(x) \/ PostResolved(x) \/ ReservationEnds(x)
      PROVE  PropInv'
    BY <1>4, MattersKeep DEF PostMatter, PostResolved, ReservationEnds
<1>5. ASSUME NEW t \in Tasks, Dispatch(t) PROVE PropInv'
  <2>1. /\ work' \in [Tasks -> Work]
        /\ UNCHANGED <<row, log, task, matter, decided, reopened>>
      BY <1>0, <1>1, <1>5 DEF Dispatch, NoMatters, PropType, rowVars
  <2>2. PropType' BY <1>0, <2>1 DEF PropType
  <2>3. VerdictInv' BY <1>0, <2>1 DEF VerdictInv, DealtWith
  <2>4. MatterInv' BY <1>0, <2>1 DEF MatterInv, Distinct, Grounded, Sources, Logged
  <2> QED BY <2>2, <2>3, <2>4 DEF PropInv
<1>6. ASSUME NEW t \in Tasks, Register(t) PROVE PropInv'
  <2>1. /\ work' \in [Tasks -> Work]
        /\ task' = [task EXCEPT ![t] = "in_flight"]
        /\ reopened' = IF DealtWith(t) THEN [reopened EXCEPT ![t] = @ + 1] ELSE reopened
        /\ DealtWith(t) => reopened[t] < MaxReopened
        /\ UNCHANGED <<row, log, matter, decided>>
      BY <1>0, <1>1, <1>6 DEF Register, NoMatters, PropType, rowVars
  <2>2. PropType' BY <1>0, <2>1, ProposalsAssumption DEF PropType, TaskStatus
  <2>3. VerdictInv'
    <3>1. /\ task'[t] = "in_flight"
          /\ \A s \in Tasks \ {t} : task'[s] = task[s] /\ reopened'[s] = reopened[s]
        BY <1>0, <2>1 DEF PropType
    <3>2. /\ decided[t] \in Nat /\ reopened[t] \in Nat
          /\ reopened'[t] = IF DealtWith(t) THEN reopened[t] + 1 ELSE reopened[t]
        BY <1>0, <2>1, ProposalsAssumption DEF PropType
    <3>3. decided[t] <= reopened'[t] BY <1>0, <3>2 DEF VerdictInv
    <3>4. ASSUME NEW s \in Tasks
          PROVE  decided'[s] <= reopened'[s] + (IF task'[s] \in {"settled", "discarded"} THEN 1 ELSE 0)
      <4>1. CASE s = t BY <2>1, <3>1, <3>2, <3>3, <4>1
      <4>2. CASE s # t BY <1>0, <2>1, <3>1, <4>2 DEF VerdictInv, DealtWith
      <4> QED BY <4>1, <4>2
    <3> QED BY <3>4 DEF VerdictInv, DealtWith
  <2>4. MatterInv' BY <1>0, <2>1 DEF MatterInv, Distinct, Grounded, Sources, Logged
  <2> QED BY <2>2, <2>3, <2>4 DEF PropInv
<1>7. ASSUME NEW t \in Tasks, Submit(t) PROVE PropInv'
  <2>1. ProcessProposal(t, work[t]) /\ work' = work BY <1>7 DEF Submit
  <2> QED BY <1>0, <2>1, ProcessKeeps DEF PropType
<1>8. ASSUME NEW t \in Tasks, RefreshStarts(t) PROVE PropInv'
  <2>1. /\ work' \in [Tasks -> Work]
        /\ row'.version \in Nat /\ log' = log /\ Logged' = Logged
        /\ UNCHANGED <<task, matter, decided, reopened>>
      BY <1>0, <1>1, <1>8, ReducerWritesKeeps DEF RefreshStarts, NoMatters, PropType
  <2>2. PropType' BY <1>0, <2>1 DEF PropType
  <2>3. VerdictInv' BY <1>0, <2>1 DEF VerdictInv, DealtWith
  <2>4. MatterInv' BY <1>0, <2>1 DEF MatterInv, Distinct, Grounded, Sources
  <2> QED BY <2>2, <2>3, <2>4 DEF PropInv
<1>9. ASSUME NEW t \in Tasks, RefreshEnds(t) PROVE PropInv'
  <2>1. work' \in [Tasks -> Work]
      BY <1>0, <1>9 DEF RefreshEnds, PropType
  <2> QED BY <1>9, <2>1, ProcessKeeps DEF RefreshEnds
<1>10. CASE UNCHANGED propVars
  <2>1. UNCHANGED <<row, log, task, work, matter, decided, reopened>>
      BY <1>10 DEF propVars, rowVars
  <2>2. PropType' BY <1>0, <2>1 DEF PropType
  <2>3. VerdictInv' BY <1>0, <2>1 DEF VerdictInv, DealtWith
  <2>4. MatterInv' BY <1>0, <2>1 DEF MatterInv, Distinct, Grounded, Sources, Logged
  <2> QED BY <2>2, <2>3, <2>4 DEF PropInv
<1>11. ASSUME NEW t \in Tasks, Dispatch(t) \/ Register(t) \/ Submit(t) \/ Refresh(t)
       PROVE  PropInv'
    BY <1>11, <1>5, <1>6, <1>7, <1>8, <1>9 DEF Refresh
<1> QED BY <1>2, <1>3, <1>4, <1>10, <1>11 DEF PropNext

(* What the decisions and the matters rest on, in every behaviour.         *)
THEOREM ProposalsInvariant == PropSpec => []PropInv
<1>1. PropInv /\ [PropNext]_propVars => PropInv' BY PropInvStep
<1> QED BY PropInvInit, <1>1, PTL DEF PropSpec

(* Every variable keeps its type.                                          *)
THEOREM ProposalsTypes == PropSpec => []PropTypeOK
<1>1. PropInv /\ RowInv => PropTypeOK
    BY DEF PropInv, PropType, RowInv, PropTypeOK
<1> QED BY ProposalsInvariant, ProposalsRefineRow, RowInvariant, <1>1, PTL

(* A result is decided on once for each time its task was registered,      *)
(* however often it is sent (process_proposal).                            *)
THEOREM VerdictsAreFinal == PropSpec => []OneVerdictPerDispatch
<1>1. PropInv => OneVerdictPerDispatch
  <2> SUFFICES ASSUME PropInv, NEW t \in Tasks PROVE decided[t] <= 1 + reopened[t]
      BY DEF OneVerdictPerDispatch
  <2>1. decided[t] \in Nat /\ reopened[t] \in Nat
      BY ProposalsAssumption DEF PropInv, PropType
  <2>2. decided[t] <= reopened[t] \/ decided[t] <= reopened[t] + 1
      BY <2>1 DEF PropInv, VerdictInv
  <2> QED BY <2>1, <2>2
<1> QED BY ProposalsInvariant, <1>1, PTL

(* No two live matters are about one subject, or derived from one event by *)
(* a refresh (detect, already_spoken_for).                                 *)
THEOREM MattersAreDistinct == PropSpec => []OneMatterPerSubject
<1>1. PropInv => OneMatterPerSubject
    BY DEF PropInv, MatterInv, Distinct, OneMatterPerSubject
<1> QED BY ProposalsInvariant, <1>1, PTL
=============================================================================
