-------------------------- MODULE UserLabelsProofs --------------------------
(***************************************************************************)
(* Module UserLabels for every value of its constants: any exposures,      *)
(* contracts and windows, any number of replies, passes, faults and fits.  *)
(*                                                                         *)
(* The ledger and the order of revisions follow from the fact that the     *)
(* revisions of a label only grow (LedgerInv, RevisionInv).  That a closed *)
(* expectation is compared in full needs more: the reply's hook runs once  *)
(* for an exposure, so that up to then a pass finds all four windows       *)
(* settled at once and closes the expectation with the first comparison,   *)
(* and after it no label changes under the pass's feet (ComparisonInv).    *)
(***************************************************************************)
EXTENDS UserLabels, TLAPS

-----------------------------------------------------------------------------
(* The invariant.                                                          *)

(* What is not exposed has left no trace.                                  *)
UnexposedInv ==
    \A e \in Exposures : ~IsExposed(e) =>
        /\ \A t \in Target : label[e][t] = NoLabel /\ settlement[e][t] = {}
        /\ reply[e] = NoReply
        /\ forecast[e].status = "none"

(* The pass works on what was exposed, and holds items only between the    *)
(* query and the last comparison.                                          *)
PassInv ==
    /\ pass.asof <= now
    /\ \A e \in pass.due : IsExposed(e)
    /\ \A i \in pass.items : IsExposed(i.e)
    /\ pass.items # {} => pass.at \in {"read", "write", "close"}

LedgerInv ==
    /\ LedgerFollowsItsSource
    /\ \A c \in Contracts, t \in UserKeys :
          ledger[c][t] # NoObservation =>
              /\ IsExposed(ledger[c][t].source)
              /\ ContractOf[ledger[c][t].source] = c

(* Comparisons name revisions the label has had, in the order it had them. *)
RevisionInv ==
    /\ \A e \in Exposures, t \in Target : \A s \in settlement[e][t] :
          s.rev <= s.of /\ s.of <= label[e][t].rev
    /\ \A i \in pass.items :
          /\ i.rev <= label[i.e][i.t].rev
          /\ pass.at # "read" => i.rev <= i.of /\ i.of <= label[i.e][i.t].rev
          /\ \A s \in settlement[i.e][i.t] : s.rev <= i.rev
          /\ \A j \in pass.items : j.e = i.e /\ j.t = i.t => j = i

LabelInv == LabelTypeOK /\ UnexposedInv /\ PassInv /\ LedgerInv /\ RevisionInv

(* The reply's hook has not run yet.                                       *)
Awaited(e) == reply[e].stage \in {"none", "ingested"}

Closing(e) == pass.at = "close" /\ pass.due = {e}

Listed(e, t) == \E i \in pass.items : i.e = e /\ i.t = t

InWork(e) == Closing(e) \/ \E t \in Target : Listed(e, t)

Compared(e, t) == settlement[e][t] # {}

(* While the pass settles, a window that ended is open only if the pass    *)
(* will come to it, or the hook reopened it.                               *)
SettleInv ==
    pass.at = "settle" =>
        \A e \in Exposures, t \in Target :
            IsExposed(e) /\ Expired(e, t, pass.asof) /\ label[e][t].status = "pending"
                => e \in pass.due \/ ~Awaited(e)

(* While the pass compares, all targets of an exposure are compared or on  *)
(* its list, but for those the hook reopened.                              *)
WorkInv ==
    \A e \in Exposures : InWork(e) =>
        /\ Awaited(e) => ~HasPending(e)
        /\ \A t \in Target :
              \/ Compared(e, t) \/ Listed(e, t)
              \/ label[e][t].status = "pending" /\ ~Awaited(e)

ClosedInv ==
    \A e \in Exposures : forecast[e].status = "settled" =>
        \A t \in Target : Compared(e, t) \/ Listed(e, t)

(* Up to the hook, the first comparison closes the expectation.            *)
OpenInv ==
    \A e \in Exposures :
        forecast[e].status = "pending" /\ Awaited(e) /\ ~Closing(e)
            => \A t \in Target : ~Compared(e, t)

(* No item is refused: a revision is on record with the label the pass has *)
(* read for it.                                                            *)
ItemInv ==
    \A i \in pass.items :
        /\ pass.at = "read" =>
              /\ forecast[i.e].status = "pending"
              /\ label[i.e][i.t].rev # i.rev => ~Compared(i.e, i.t)
        /\ pass.at # "read" =>
              \A s \in settlement[i.e][i.t] : s.rev = i.rev => s.of = i.of

ComparisonInv ==
    faults = 0 => SettleInv /\ WorkInv /\ ClosedInv /\ OpenInv /\ ItemInv

-----------------------------------------------------------------------------
(* What settling does to one label.                                        *)

LEMMA Constants ==
    /\ MaxTime \in Nat /\ MaxFaults \in Nat
    /\ Horizon \in [Target -> Nat \ {0}]
    /\ ContractOf \in [Exposures -> Contracts]
    /\ UserKeys \subseteq Target
  BY TimeAssumption, HorizonAssumption, ContractAssumption, BoundsAssumption
     DEF UserKeys, Target

(* A revision keeps the label or gives it the next number, and leaves open *)
(* no window that ended.                                                   *)
LEMMA RevisedLabel ==
    ASSUME LabelTypeOK, NEW e \in Exposures, NEW t \in Target,
           NEW given \in BOOLEAN, NEW asof
    PROVE  LET new == Revised(e, t, given, asof) IN
           /\ new \in Label
           /\ \/ new = label[e][t]
              \/ new.rev = label[e][t].rev + 1
           /\ Expired(e, t, asof) => new.status # "pending"
  <1> DEFINE v == Verdict(e, t, given, asof)
  <1>1. /\ v.status \in LabelStatus /\ v.by \in {"window", "reply"}
        /\ Expired(e, t, asof) => v.status # "pending"
    <2>1. \A replied : /\ StatusWithoutEvent(e, t, asof, replied) \in LabelStatus
                       /\ Expired(e, t, asof)
                             => StatusWithoutEvent(e, t, asof, replied) # "pending"
      BY DEF StatusWithoutEvent, LabelStatus
    <2>2. QED
      BY <2>1 DEF Verdict, LabelStatus
  <1>2. label[e][t] \in Label
    BY DEF LabelTypeOK
  <1>3. Revised(e, t, given, asof) =
            IF v.status = label[e][t].status /\ v.by = label[e][t].by
            THEN label[e][t]
            ELSE [rev |-> label[e][t].rev + 1, status |-> v.status, by |-> v.by]
    BY DEF Revised
  <1> HIDE DEF v
  <1>4. QED
    BY <1>1, <1>2, <1>3 DEF Label

(* The four labels of one exposure are settled, and nothing else changes.  *)
LEMMA SettledLabels ==
    ASSUME LabelTypeOK, NEW e \in Exposures, NEW given \in BOOLEAN, NEW asof,
           SettleObservation(e, given, asof)
    PROVE  /\ label' \in [Exposures -> [Target -> Label]]
           /\ \A f \in Exposures, t \in Target :
                 label'[f][t] = IF f = e THEN Revised(e, t, given, asof) ELSE label[f][t]
           /\ ledger' \in [Contracts -> [UserKeys -> Observation \cup {NoObservation}]]
           /\ \A c \in Contracts, t \in UserKeys :
                 ledger'[c][t] = IF c = ContractOf[e]
                                 THEN Recorded(e, t, Revised(e, t, given, asof))
                                 ELSE ledger[c][t]
  <1> DEFINE new == [t \in Target |-> Revised(e, t, given, asof)]
             out == [t \in UserKeys |-> Recorded(e, t, new[t])]
  <1>1. new \in [Target -> Label]
    BY RevisedLabel
  <1>2. label' = [label EXCEPT ![e] = new] /\ ledger' = [ledger EXCEPT ![ContractOf[e]] = out]
    BY DEF SettleObservation
  <1>3. \A t \in UserKeys : t \in Target /\ new[t] = Revised(e, t, given, asof)
    BY Constants
  <1>4. ContractOf[e] \in Contracts
    BY Constants
  <1>5. out \in [UserKeys -> Observation \cup {NoObservation}]
    <2>1. ASSUME NEW t \in UserKeys PROVE Recorded(e, t, new[t]) \in Observation \cup {NoObservation}
      <3>1. new[t] \in Label
        BY <1>1, <1>3
      <3>2. ledger[ContractOf[e]][t] \in Observation \cup {NoObservation}
        BY <1>4 DEF LabelTypeOK
      <3>3. [source |-> e, rev |-> new[t].rev, status |-> new[t].status] \in Observation
        BY <3>1 DEF Observation, Label
      <3>4. QED
        BY <3>2, <3>3 DEF Recorded
    <2>2. QED
      BY <2>1
  <1>6. /\ label' \in [Exposures -> [Target -> Label]]
        /\ \A f \in Exposures, t \in Target :
              label'[f][t] = IF f = e THEN new[t] ELSE label[f][t]
    BY <1>1, <1>2 DEF LabelTypeOK
  <1>7. /\ ledger' \in [Contracts -> [UserKeys -> Observation \cup {NoObservation}]]
        /\ \A c \in Contracts, t \in UserKeys :
              ledger'[c][t] = IF c = ContractOf[e] THEN out[t] ELSE ledger[c][t]
    <2> HIDE DEF out
    <2>1. ledger \in [Contracts -> [UserKeys -> Observation \cup {NoObservation}]]
      BY DEF LabelTypeOK
    <2>2. QED
      BY <1>2, <1>4, <1>5, <2>1
  <1>8. \A t \in UserKeys : out[t] = Recorded(e, t, Revised(e, t, given, asof))
    BY <1>3
  <1> HIDE DEF out
  <1>9. QED
    BY <1>3, <1>6, <1>7, <1>8

-----------------------------------------------------------------------------
(* Types.                                                                  *)

LEMMA TypeInit == Init => LabelTypeOK
  BY Constants
     DEF Init, LabelTypeOK, Time, NoTime, NoReply, NoLabel, Label, LabelStatus,
         NoObservation, IdlePass, Stage

LEMMA IdlePassType == now \in Time => IdlePass \in
    [at : Stage, asof : Time, due : SUBSET Exposures, items : SUBSET Item,
     trained : SUBSET Exposures]
  BY Constants DEF IdlePass, Stage, Time

(* The user's side.                                                        *)
LEMMA TypeUser ==
    ASSUME LabelTypeOK,
           \/ Tick \/ Crash
           \/ \E e \in Exposures : \/ Acknowledge(e) \/ AfterUserEvent(e)
                                  \/ \E at \in Time : IngestReply(e, at)
    PROVE  LabelTypeOK'
  <1> USE Constants
  <1>1. Tick => LabelTypeOK'
    BY DEF Tick, LabelTypeOK, Time
  <1>2. ASSUME NEW e \in Exposures, Acknowledge(e) PROVE LabelTypeOK'
    <2>1. exposed' \in [Exposures -> Time \cup {NoTime}]
      BY <1>2 DEF Acknowledge, Prepare, LabelTypeOK
    <2>2. [t \in Target |-> [NoLabel EXCEPT !.rev = 1]] \in [Target -> Label]
      BY DEF NoLabel, Label, LabelStatus
    <2>3. label' \in [Exposures -> [Target -> Label]]
      BY <1>2, <2>2 DEF Acknowledge, Prepare, LabelTypeOK
    <2>4. forecast' \in [Exposures -> [status : {"none", "pending", "settled"},
                                       trained : SUBSET Exposures]]
      BY <1>2 DEF Acknowledge, Freeze, LabelTypeOK
    <2>5. QED
      BY <1>2, <2>1, <2>3, <2>4 DEF Acknowledge, LabelTypeOK
  <1> DEFINE R == [at : Time \cup {NoTime}, stage : {"none", "ingested", "settled", "lost"}]
  <1>r. /\ reply \in [Exposures -> R]
        /\ \A x \in R : /\ [x EXCEPT !.stage = "settled"] \in R
                         /\ [x EXCEPT !.stage = "lost"] \in R
    BY DEF LabelTypeOK
  <1>3. ASSUME NEW e \in Exposures, AfterUserEvent(e) PROVE LabelTypeOK'
    <2>1. reply' \in [Exposures -> R]
      <3> HIDE DEF R
      <3>1. reply' = [reply EXCEPT ![e] = [reply[e] EXCEPT !.stage = "settled"]]
        BY <1>3, <1>r DEF AfterUserEvent
      <3>2. QED
        BY <3>1, <1>r
    <2>2. CASE exposed[e] <= reply[e].at
      BY <1>3, <2>1, <2>2, SettledLabels DEF AfterUserEvent, LabelTypeOK
    <2>3. CASE ~(exposed[e] <= reply[e].at)
      BY <1>3, <2>1, <2>3 DEF AfterUserEvent, LabelTypeOK
    <2>4. QED
      BY <2>2, <2>3
  <1>4. ASSUME NEW e \in Exposures, NEW at \in Time, IngestReply(e, at) PROVE LabelTypeOK'
    BY <1>4 DEF IngestReply, LabelTypeOK
  <1>5. ASSUME Crash PROVE LabelTypeOK'
    <2>1. reply' \in [Exposures -> R]
      <3> HIDE DEF R
      <3>1. QED
        BY <1>5, <1>r DEF Crash
    <2>2. faults' \in 0 .. MaxFaults
      BY <1>5 DEF Crash, LabelTypeOK
    <2>3. QED
      BY <1>5, <2>1, <2>2, IdlePassType DEF Crash, LabelTypeOK
  <1>6. QED
    BY <1>1, <1>2, <1>3, <1>4, <1>5

(* The maintenance pass.                                                   *)
LEMMA TypePass ==
    ASSUME LabelTypeOK, MaintenanceStep
    PROVE  LabelTypeOK'
  <1> USE Constants
  <1>1. ASSUME RunDue PROVE LabelTypeOK'
    <2>1. DueExposures \subseteq Exposures
      BY DEF DueExposures
    <2>2. QED
      BY <1>1, <2>1 DEF RunDue, IdlePass, LabelTypeOK, Stage
  <1>2. ASSUME NEW e \in Exposures, SettleDue(e) PROVE LabelTypeOK'
    <2>1. SettleObservation(e, FALSE, pass.asof)
      BY <1>2 DEF SettleDue
    <2>2. QED
      BY <1>2, <2>1, SettledLabels DEF SettleDue, LabelTypeOK
  <1>3. ASSUME NEW e \in Exposures, CloseExpectation(e) PROVE LabelTypeOK'
    <2>1. pass' \in [at : Stage, asof : Time, due : SUBSET Exposures,
                     items : SUBSET Item, trained : SUBSET Exposures]
      BY <1>3 DEF CloseExpectation, LabelTypeOK, Stage
    <2>2. CASE JoinsRollback /\ UNCHANGED forecast
      BY <1>3, <2>1, <2>2 DEF CloseExpectation, JoinsRollback, LabelTypeOK
    <2>3. CASE /\ forecast' = [forecast EXCEPT ![e].status = IF HasPending(e) THEN @ ELSE "settled"]
               /\ UNCHANGED faults
      BY <1>3, <2>1, <2>3 DEF CloseExpectation, LabelTypeOK
    <2>4. QED
      BY <1>3, <2>2, <2>3 DEF CloseExpectation
  <1>4. ASSUME ListExpectations PROVE LabelTypeOK'
    <2>1. \A x \in Exposures \X Target :
             [e |-> x[1], t |-> x[2], rev |-> label[x[1]][x[2]].rev, of |-> 0] \in Item
      BY DEF Item, LabelTypeOK, Label
    <2> DEFINE S == {[e |-> x[1], t |-> x[2], rev |-> label[x[1]][x[2]].rev, of |-> 0] :
                         x \in {y \in Exposures \X Target :
                                   IsDue(y[1]) /\ label[y[1]][y[2]].status # "pending"}}
    <2>2. S \subseteq Item
      BY <2>1
    <2>3. pass' = [IdlePass EXCEPT !.at = "read", !.items = S]
      BY <1>4 DEF ListExpectations
    <2> HIDE DEF S
    <2>4. pass' \in [at : Stage, asof : Time, due : SUBSET Exposures,
                     items : SUBSET Item, trained : SUBSET Exposures]
      BY <2>2, <2>3, IdlePassType DEF LabelTypeOK, Stage
    <2>5. QED
      BY <1>4, <2>4 DEF ListExpectations, LabelTypeOK
  <1>5. ASSUME ReadLabels PROVE LabelTypeOK'
    <2>1. ASSUME NEW i \in Item PROVE [i EXCEPT !.of = label[i.e][i.t].rev] \in Item
      <3>1. label[i.e][i.t].rev \in Nat
        BY DEF Item, LabelTypeOK, Label
      <3>2. QED
        BY <3>1 DEF Item
    <2>2. pass'.items \subseteq Item /\ pass'.at \in Stage
      BY <1>5, <2>1 DEF ReadLabels, LabelTypeOK, Stage
    <2>3. QED
      BY <1>5, <2>2 DEF ReadLabels, LabelTypeOK
  <1>6. ASSUME NEW i \in pass.items, WriteRevision(i) PROVE LabelTypeOK'
    <2>1. i \in Item /\ Inserted(i) \in Settled
      BY DEF LabelTypeOK, Item, Inserted, Settled
    <2>2. pass' \in [at : Stage, asof : Time, due : SUBSET Exposures,
                     items : SUBSET Item, trained : SUBSET Exposures]
      BY <1>6, <2>1 DEF WriteRevision, LabelTypeOK, Stage, Item
    <2>3. CASE JoinsRollback /\ UNCHANGED settlement
      BY <1>6, <2>2, <2>3 DEF WriteRevision, JoinsRollback, LabelTypeOK
    <2>4. CASE /\ settlement' = [settlement EXCEPT ![i.e][i.t] = @ \cup {Inserted(i)}]
               /\ UNCHANGED faults
      <3>1. settlement' \in [Exposures -> [Target -> SUBSET Settled]]
        BY <2>1, <2>4 DEF LabelTypeOK, Item
      <3>2. QED
        BY <1>6, <2>2, <2>4, <3>1 DEF WriteRevision, LabelTypeOK
    <2>5. QED
      BY <1>6, <2>3, <2>4 DEF WriteRevision
  <1>7. ASSUME NEW i \in pass.items, ReplayRevision(i) PROVE LabelTypeOK'
    BY <1>7 DEF ReplayRevision, LabelTypeOK
  <1>8. ASSUME NEW i \in pass.items, PassRaises(i) PROVE LabelTypeOK'
    BY <1>8, IdlePassType DEF PassRaises, LabelTypeOK
  <1>9. ASSUME BuildDataset PROVE LabelTypeOK'
    BY <1>9 DEF BuildDataset, LabelTypeOK, Stage
  <1>10. ASSUME ActivateParameters PROVE LabelTypeOK'
    BY <1>10, IdlePassType DEF ActivateParameters, LabelTypeOK
  <1>11. ASSUME EndPass PROVE LabelTypeOK'
    BY <1>11, IdlePassType DEF EndPass, LabelTypeOK
  <1>12. QED
    BY <1>1, <1>2, <1>3, <1>4, <1>5, <1>6, <1>7, <1>8, <1>9, <1>10, <1>11
       DEF MaintenanceStep

LEMMA TypeStep ==
    ASSUME LabelTypeOK, [Next]_vars
    PROVE  LabelTypeOK'
  <1>1. CASE Next
    BY <1>1, TypeUser, TypePass DEF Next
  <1>2. CASE UNCHANGED vars
    BY <1>2 DEF vars, LabelTypeOK
  <1>3. QED
    BY <1>1, <1>2

-----------------------------------------------------------------------------
(* How labels move.                                                        *)

Settles(e, given, asof) ==
    /\ SettleObservation(e, given, asof)
    /\ IsExposed(e)
    /\ UNCHANGED <<exposed, settlement, forecast>>

Moment == Time \cup {NoTime}

(* A step leaves labels and ledger alone, exposes one, or settles one.     *)
LEMMA LabelMoves ==
    ASSUME LabelTypeOK, UnexposedInv, PassInv, [Next]_vars
    PROVE  \/ UNCHANGED <<label, ledger, exposed>>
           \/ \E e \in Exposures : Acknowledge(e)
           \/ \E e \in Exposures, given \in BOOLEAN, asof \in Moment : Settles(e, given, asof)
  <1>1. ASSUME NEW e \in Exposures, AfterUserEvent(e), exposed[e] <= reply[e].at
        PROVE  Settles(e, TRUE, reply[e].at) /\ reply[e].at \in Moment
    <2>1. IsExposed(e)
      BY <1>1 DEF AfterUserEvent, UnexposedInv, NoReply
    <2>2. reply[e].at \in Moment
      BY DEF LabelTypeOK, Moment
    <2>3. QED
      BY <1>1, <2>1, <2>2 DEF AfterUserEvent, Settles
  <1>2. ASSUME NEW e \in Exposures, SettleDue(e)
        PROVE  Settles(e, FALSE, pass.asof) /\ pass.asof \in Moment
    BY <1>2 DEF SettleDue, PassInv, Settles, LabelTypeOK, Moment
  <1>3. ASSUME NEW e \in Exposures, AfterUserEvent(e), ~(exposed[e] <= reply[e].at)
        PROVE  UNCHANGED <<label, ledger, exposed>>
    BY <1>3 DEF AfterUserEvent
  <1>4. ASSUME \/ Tick \/ Crash \/ RunDue \/ ListExpectations \/ ReadLabels
               \/ BuildDataset \/ ActivateParameters \/ EndPass \/ UNCHANGED vars
               \/ \E e \in Exposures : CloseExpectation(e) \/ \E at \in Time : IngestReply(e, at)
               \/ \E i \in pass.items : WriteRevision(i) \/ ReplayRevision(i) \/ PassRaises(i)
        PROVE  UNCHANGED <<label, ledger, exposed>>
    BY <1>4 DEF Tick, Crash, RunDue, ListExpectations, ReadLabels, BuildDataset,
                ActivateParameters, EndPass, vars, CloseExpectation, IngestReply,
                WriteRevision, ReplayRevision, PassRaises
  <1>5. QED
    BY <1>1, <1>2, <1>3, <1>4 DEF Next, MaintenanceStep

(* No label goes back to an earlier revision.                              *)
LEMMA RevisionsGrow ==
    ASSUME LabelTypeOK, UnexposedInv, PassInv, [Next]_vars,
           NEW e \in Exposures, NEW t \in Target
    PROVE  /\ label[e][t].rev \in Nat /\ label'[e][t].rev \in Nat
           /\ label[e][t].rev <= label'[e][t].rev
           /\ IsExposed(e) => IsExposed(e)'
  <1>1. label[e][t].rev \in Nat
    BY DEF LabelTypeOK, Label
  <1>2. CASE UNCHANGED <<label, ledger, exposed>>
    BY <1>1, <1>2 DEF IsExposed
  <1>3. ASSUME NEW f \in Exposures, Acknowledge(f) PROVE
               /\ label'[e][t].rev \in Nat /\ label[e][t].rev <= label'[e][t].rev
               /\ IsExposed(e) => IsExposed(e)'
    <2>1. CASE e = f
      <3>1. label[e][t].rev = 0 /\ ~IsExposed(e)
        BY <1>3, <2>1 DEF Acknowledge, UnexposedInv, NoLabel
      <3>2. label'[e][t].rev = 1
        BY <1>3, <2>1 DEF Acknowledge, Prepare, LabelTypeOK, NoLabel
      <3>3. QED
        BY <3>1, <3>2
    <2>2. CASE e # f
      <3>1. label'[e] = label[e] /\ exposed'[e] = exposed[e]
        BY <1>3, <2>2 DEF Acknowledge, Prepare, LabelTypeOK
      <3>2. QED
        BY <3>1, <1>1 DEF IsExposed
    <2>3. QED
      BY <2>1, <2>2
  <1>4. ASSUME NEW f \in Exposures, NEW given \in BOOLEAN, NEW asof \in Moment,
               Settles(f, given, asof)
        PROVE  /\ label'[e][t].rev \in Nat /\ label[e][t].rev <= label'[e][t].rev
               /\ IsExposed(e) => IsExposed(e)'
    <2>1. label'[e][t] = IF e = f THEN Revised(f, t, given, asof) ELSE label[e][t]
      BY <1>4, SettledLabels DEF Settles
    <2>2. \/ Revised(f, t, given, asof) = label[f][t]
          \/ Revised(f, t, given, asof).rev = label[f][t].rev + 1
      BY RevisedLabel
    <2>3. QED
      BY <1>1, <1>4, <2>1, <2>2 DEF Settles, IsExposed
  <1>5. QED
    BY <1>1, <1>2, <1>3, <1>4, LabelMoves

LEMMA UnexposedStep ==
    ASSUME LabelTypeOK, UnexposedInv, PassInv, [Next]_vars
    PROVE  UnexposedInv'
  <1> SUFFICES ASSUME NEW e \in Exposures, ~IsExposed(e)'
               PROVE  /\ \A t \in Target : label'[e][t] = NoLabel /\ settlement'[e][t] = {}
                      /\ reply'[e] = NoReply
                      /\ forecast'[e].status = "none"
    BY DEF UnexposedInv
  <1>1. ~IsExposed(e)
    BY RevisionsGrow DEF Target
  <1>2. /\ \A t \in Target : label[e][t] = NoLabel /\ settlement[e][t] = {}
        /\ reply[e] = NoReply /\ forecast[e].status = "none"
    BY <1>1 DEF UnexposedInv
  <1>3. label'[e] = label[e]
    <2>1. ASSUME NEW f \in Exposures, Acknowledge(f) PROVE label'[e] = label[e]
      <3>1. exposed'[f] = now /\ now # NoTime
        BY <2>1, Constants DEF Acknowledge, Prepare, LabelTypeOK, Time, NoTime
      <3>2. e # f
        BY <3>1 DEF IsExposed
      <3>3. QED
        BY <2>1, <3>2 DEF Acknowledge, Prepare, LabelTypeOK
    <2>2. ASSUME NEW f \in Exposures, NEW given \in BOOLEAN, NEW asof \in Moment,
                 Settles(f, given, asof)
          PROVE  label'[e] = label[e]
      BY <2>2, <1>1 DEF Settles, SettleObservation, LabelTypeOK
    <2>3. QED
      BY <2>1, <2>2, LabelMoves
  <1>4. settlement'[e] = settlement[e]
    <2>1. ASSUME NEW i \in pass.items, WriteRevision(i) PROVE settlement'[e] = settlement[e]
      <3>1. i.e # e /\ i.e \in Exposures /\ i.t \in Target
        BY <1>1 DEF PassInv, LabelTypeOK, Item
      <3>2. QED
        BY <2>1, <3>1 DEF WriteRevision, LabelTypeOK
    <2>2. QED
      BY <2>1 DEF Next, MaintenanceStep, vars, Tick, Crash, Acknowledge, AfterUserEvent,
                  IngestReply, RunDue, SettleDue, CloseExpectation, ListExpectations,
                  ReadLabels, ReplayRevision, PassRaises, BuildDataset,
                  ActivateParameters, EndPass
  <1>5. reply'[e] = reply[e]
    <2>1. ASSUME NEW f \in Exposures, NEW at \in Time, IngestReply(f, at)
          PROVE  reply'[e] = reply[e]
      BY <2>1, <1>1 DEF IngestReply, LabelTypeOK
    <2>2. ASSUME NEW f \in Exposures, AfterUserEvent(f) PROVE reply'[e] = reply[e]
      BY <2>2, <1>2 DEF AfterUserEvent, LabelTypeOK, NoReply
    <2>3. ASSUME Crash PROVE reply'[e] = reply[e]
      BY <2>3, <1>2 DEF Crash, NoReply
    <2>4. QED
      BY <2>1, <2>2, <2>3
         DEF Next, MaintenanceStep, vars, Tick, Acknowledge, WriteRevision,
             RunDue, SettleDue, CloseExpectation, ListExpectations,
             ReadLabels, ReplayRevision, PassRaises, BuildDataset,
             ActivateParameters, EndPass
  <1>6. forecast'[e] = forecast[e]
    <2>1. ASSUME NEW f \in Exposures, Acknowledge(f) PROVE forecast'[e] = forecast[e]
      <3>1. exposed'[f] = now /\ now # NoTime
        BY <2>1, Constants DEF Acknowledge, Prepare, LabelTypeOK, Time, NoTime
      <3>2. e # f
        BY <3>1 DEF IsExposed
      <3>3. QED
        BY <2>1, <3>2 DEF Acknowledge, Freeze, LabelTypeOK
    <2>2. ASSUME NEW f \in Exposures, CloseExpectation(f) PROVE forecast'[e] = forecast[e]
      <3>1. f # e
        BY <1>1, <2>2 DEF PassInv, CloseExpectation
      <3>2. QED
        BY <2>2, <3>1 DEF CloseExpectation, LabelTypeOK
    <2>3. QED
      BY <2>1, <2>2
         DEF Next, MaintenanceStep, vars, Tick, Crash, AfterUserEvent, WriteRevision,
             IngestReply, RunDue, SettleDue, ListExpectations,
             ReadLabels, ReplayRevision, PassRaises, BuildDataset,
             ActivateParameters, EndPass
  <1>7. QED
    BY <1>2, <1>3, <1>4, <1>5, <1>6

-----------------------------------------------------------------------------
(* How the pass moves.                                                     *)

LEMMA PassMoves ==
    ASSUME LabelTypeOK, PassInv, [Next]_vars
    PROVE  \/ UNCHANGED <<pass, settlement>>
           \/ pass'.items = {} /\ UNCHANGED settlement
           \/ ListExpectations
           \/ ReadLabels
           \/ \E e \in Exposures : CloseExpectation(e)
           \/ \E i \in pass.items : WriteRevision(i) \/ ReplayRevision(i)
  <1>1. ASSUME \/ Tick \/ UNCHANGED vars
               \/ \E e \in Exposures : \/ Acknowledge(e) \/ AfterUserEvent(e)
                                      \/ \E at \in Time : IngestReply(e, at)
        PROVE  UNCHANGED <<pass, settlement>>
    BY <1>1 DEF Tick, vars, Acknowledge, AfterUserEvent, IngestReply
  <1>2. ASSUME \/ Crash \/ RunDue \/ ActivateParameters \/ EndPass
               \/ \E i \in pass.items : PassRaises(i)
        PROVE  pass'.items = {} /\ UNCHANGED settlement
    <2>1. RunDue \/ pass' = IdlePass
      BY <1>2 DEF Crash, ActivateParameters, EndPass, PassRaises
    <2>4. RunDue => pass'.items = {}
      BY DEF RunDue, IdlePass
    <2>2. UNCHANGED settlement
      BY <1>2 DEF Crash, RunDue, ActivateParameters, EndPass, PassRaises
    <2>3. QED
      BY <2>1, <2>2, <2>4 DEF IdlePass
  <1>3. ASSUME BuildDataset \/ \E e \in Exposures : SettleDue(e)
        PROVE  pass'.items = {} /\ UNCHANGED settlement
    <2>1. pass.items = {}
      BY <1>3 DEF BuildDataset, SettleDue, PassInv
    <2>2. QED
      BY <1>3, <2>1 DEF BuildDataset, SettleDue, LabelTypeOK
  <1>4. QED
    BY <1>1, <1>2, <1>3 DEF Next, MaintenanceStep

LEMMA PassStep ==
    ASSUME LabelTypeOK, UnexposedInv, PassInv, [Next]_vars
    PROVE  PassInv'
  <1>1. \A e \in Exposures : IsExposed(e) => IsExposed(e)'
    BY RevisionsGrow DEF Target
  <1>2. pass.due \subseteq Exposures /\ \A i \in pass.items : i.e \in Exposures
    BY DEF LabelTypeOK, Item
  <1>3. now \in Nat /\ now' \in Nat /\ now <= now'
    <2>1. now \in Nat
      BY Constants DEF LabelTypeOK, Time
    <2>2. now' = now \/ now' = now + 1
      BY DEF Next, MaintenanceStep, vars, Tick, Crash, Acknowledge, AfterUserEvent,
             IngestReply, RunDue, SettleDue, CloseExpectation, ListExpectations,
             ReadLabels, WriteRevision, ReplayRevision, PassRaises, BuildDataset,
             ActivateParameters, EndPass
    <2>3. QED
      BY <2>1, <2>2
  <1>4. pass.asof \in Nat
    BY DEF LabelTypeOK, Time
  <1>5. CASE UNCHANGED pass
    BY <1>1, <1>2, <1>3, <1>4, <1>5 DEF PassInv
  <1>6. CASE pass' = IdlePass
    BY <1>3, <1>6 DEF PassInv, IdlePass
  <1>7. CASE RunDue
    BY <1>1, <1>3, <1>7 DEF RunDue, DueExposures, PassInv, IdlePass
  <1>8. ASSUME NEW e \in Exposures, SettleDue(e) PROVE PassInv'
    BY <1>1, <1>2, <1>3, <1>4, <1>8 DEF SettleDue, PassInv, LabelTypeOK
  <1>9. CASE ListExpectations
    <2>1. \A i \in pass'.items : i.e \in Exposures /\ IsExposed(i.e)
      <3>1. \A i \in pass'.items : i.e \in Exposures /\ forecast[i.e].status = "pending"
        BY <1>9 DEF ListExpectations, IsDue, IdlePass
      <3>2. QED
        BY <3>1 DEF UnexposedInv
    <2>2. pass'.at = "read" /\ pass'.asof = 0 /\ pass'.due = {}
      BY <1>9 DEF ListExpectations, IdlePass
    <2>3. QED
      BY <1>1, <1>3, <2>1, <2>2 DEF PassInv
  <1>10. CASE ReadLabels
    <2>1. \A i \in pass'.items : i.e \in Exposures /\ IsExposed(i.e)
      <3>1. \A i \in pass'.items : \E j \in pass.items :
               i = [j EXCEPT !.of = label[j.e][j.t].rev]
        BY <1>10 DEF ReadLabels, LabelTypeOK
      <3>2. \A i \in pass'.items : \E j \in pass.items : i.e = j.e
        BY <3>1 DEF LabelTypeOK, Item
      <3>3. QED
        BY <3>2, <1>2 DEF PassInv
    <2>2. pass'.at = "write" /\ pass'.asof = pass.asof /\ pass'.due = pass.due
      BY <1>10 DEF ReadLabels, LabelTypeOK
    <2>4. pass.at = "read"
      BY <1>10 DEF ReadLabels
    <2>3. QED
      <3>1. \A e \in pass'.due : IsExposed(e)'
        BY <2>2, <1>1, <1>2 DEF PassInv
      <3>2. pass'.asof <= now'
        BY <2>2, <1>3, <1>4 DEF PassInv
      <3>4. pass'.at \in {"read", "write", "close"}
        BY <2>2
      <3>3. QED
        BY <1>1, <2>1, <3>1, <3>2, <3>4 DEF PassInv
  <1>11. ASSUME NEW i \in pass.items, WriteRevision(i) PROVE PassInv'
    <2>1. /\ pass'.asof = pass.asof /\ pass'.due = {i.e} /\ pass'.at = "close"
          /\ pass'.items \subseteq pass.items
      BY <1>11 DEF WriteRevision, LabelTypeOK
    <2>2. QED
      BY <1>1, <1>2, <1>3, <1>4, <2>1 DEF PassInv
  <1>12. ASSUME NEW i \in pass.items, ReplayRevision(i) PROVE PassInv'
    <2>1. /\ pass'.asof = pass.asof /\ pass'.due = pass.due /\ pass'.at = "write"
          /\ pass'.items \subseteq pass.items
      BY <1>12 DEF ReplayRevision, Current, LabelTypeOK
    <2>2. QED
      BY <1>1, <1>2, <1>3, <1>4, <2>1 DEF PassInv
  <1>13. ASSUME NEW e \in Exposures, CloseExpectation(e) PROVE PassInv'
    BY <1>1, <1>2, <1>3, <1>4, <1>13 DEF CloseExpectation, PassInv, LabelTypeOK
  <1>14. CASE BuildDataset
    BY <1>1, <1>2, <1>3, <1>4, <1>14 DEF BuildDataset, PassInv, LabelTypeOK
  <1>15. QED
    BY <1>5, <1>6, <1>7, <1>8, <1>9, <1>10, <1>11, <1>12, <1>13, <1>14
       DEF Next, MaintenanceStep, vars, Tick, Crash, Acknowledge, AfterUserEvent,
           IngestReply, PassRaises, ActivateParameters, EndPass

-----------------------------------------------------------------------------
(* The reward ledger.                                                      *)

LEMMA LedgerStep ==
    ASSUME LabelTypeOK, UnexposedInv, PassInv, LedgerInv, [Next]_vars
    PROVE  LedgerInv'
  <1> DEFINE Good(o, c, t) ==
          /\ exposed'[o.source] # NoTime /\ ContractOf[o.source] = c
          /\ \/ label'[o.source][t].status = "pending" /\ o.rev < label'[o.source][t].rev
             \/ o.rev = label'[o.source][t].rev /\ o.status = label'[o.source][t].status
  <1> SUFFICES ASSUME NEW c \in Contracts, NEW t \in UserKeys,
                      ledger'[c][t] # NoObservation
               PROVE  Good(ledger'[c][t], c, t)
    BY DEF LedgerInv, LedgerFollowsItsSource, IsExposed
  <1> DEFINE o == ledger[c][t]
  <1>t. t \in Target
    BY Constants
  <1>o. o # NoObservation =>
          /\ o.source \in Exposures /\ o.rev \in Nat
          /\ IsExposed(o.source) /\ ContractOf[o.source] = c
          /\ \/ label[o.source][t].status = "pending" /\ o.rev < label[o.source][t].rev
             \/ o.rev = label[o.source][t].rev /\ o.status = label[o.source][t].status
    BY DEF LedgerInv, LedgerFollowsItsSource, LabelTypeOK, Observation
  <1>m. o # NoObservation => exposed'[o.source] # NoTime
    BY <1>o, <1>t, RevisionsGrow DEF IsExposed
  <1>k. ASSUME ledger'[c][t] = o, label'[o.source] = label[o.source]
        PROVE  Good(ledger'[c][t], c, t)
    BY <1>k, <1>o, <1>m
  <1>1. CASE UNCHANGED <<label, ledger, exposed>>
    BY <1>1, <1>k
  <1>2. ASSUME NEW f \in Exposures, Acknowledge(f) PROVE Good(ledger'[c][t], c, t)
    <2>1. ledger'[c][t] = o
      BY <1>2 DEF Acknowledge
    <2>2. o.source \in Exposures /\ o.source # f
      BY <1>2, <2>1, <1>o DEF Acknowledge
    <2>3. label'[o.source] = label[o.source]
      BY <1>2, <2>2 DEF Acknowledge, Prepare, LabelTypeOK
    <2>4. QED
      BY <1>k, <2>1, <2>3
  <1>3. ASSUME NEW f \in Exposures, NEW given \in BOOLEAN, NEW asof \in Moment,
               Settles(f, given, asof)
        PROVE  Good(ledger'[c][t], c, t)
    <2> DEFINE new == Revised(f, t, given, asof)
    <2>1. /\ \A e \in Exposures : label'[e][t] = IF e = f THEN new ELSE label[e][t]
          /\ ledger'[c][t] = IF c = ContractOf[f] THEN Recorded(f, t, new) ELSE o
      BY <1>3, <1>t, SettledLabels DEF Settles
    <2>2. /\ new \in Label
          /\ new = label[f][t] \/ new.rev = label[f][t].rev + 1
      BY <1>t, RevisedLabel
    <2>3. label[f][t].rev \in Nat /\ new.rev \in Nat
      BY <1>t, <2>2 DEF LabelTypeOK, Label
    <2>4. exposed'[f] # NoTime
      BY <1>3 DEF Settles, IsExposed
    <2> HIDE DEF new
    <2>5. CASE o # NoObservation /\ ledger'[c][t] = o /\ o.source # f
      <3>1. label'[o.source][t] = label[o.source][t]
        BY <2>1, <2>5, <1>o
      <3>2. QED
        BY <3>1, <2>5, <1>o, <1>m
    <2>6. CASE /\ c = ContractOf[f] /\ ledger'[c][t] = o /\ o.source = f
               /\ new.status = "pending" \/ o.rev >= new.rev
      BY <2>6, <2>1, <2>2, <2>3, <2>4, <1>o
    <2>7. CASE ledger'[c][t] = [source |-> f, rev |-> new.rev, status |-> new.status]
               /\ c = ContractOf[f]
      BY <2>7, <2>1, <2>4
    <2>8. CASE c # ContractOf[f]
      BY <2>8, <2>1, <2>5, <1>o
    <2>9. CASE c = ContractOf[f]
      BY <2>9, <2>1, <2>5, <2>6, <2>7 DEF Recorded
    <2>10. QED
      BY <2>8, <2>9
  <1>4. QED
    BY <1>1, <1>2, <1>3, LabelMoves

-----------------------------------------------------------------------------
(* The order of revisions.                                                 *)

LEMMA RevisionStep ==
    ASSUME LabelTypeOK, UnexposedInv, PassInv, RevisionInv, [Next]_vars
    PROVE  RevisionInv'
  <1>1. \A e \in Exposures, t \in Target :
           /\ label[e][t].rev \in Nat /\ label'[e][t].rev \in Nat
           /\ label[e][t].rev <= label'[e][t].rev
    BY RevisionsGrow
  <1>2. /\ \A e \in Exposures, t \in Target : \A s \in settlement[e][t] :
              s.rev \in Nat /\ s.of \in Nat
        /\ \A i \in pass.items : /\ i \in Item /\ i.e \in Exposures /\ i.t \in Target
                                /\ i.rev \in Nat /\ i.of \in Nat
    BY DEF LabelTypeOK, Settled, Item
  <1>3. CASE UNCHANGED <<pass, settlement>>
    BY <1>1, <1>2, <1>3 DEF RevisionInv
  <1>4. CASE pass'.items = {} /\ UNCHANGED settlement
    BY <1>1, <1>2, <1>4 DEF RevisionInv
  <1>5. CASE ListExpectations
    <2>1. UNCHANGED <<label, settlement>> /\ pass'.at = "read"
      BY <1>5 DEF ListExpectations, IdlePass
    <2>2. \A i \in pass'.items :
             /\ i.e \in Exposures /\ i.t \in Target
             /\ i = [e |-> i.e, t |-> i.t, rev |-> label[i.e][i.t].rev, of |-> 0]
      BY <1>5 DEF ListExpectations, IdlePass
    <2>3. \A i \in pass'.items : i.rev = label[i.e][i.t].rev
      BY <2>2
    <2>4. \A i, j \in pass'.items : j.e = i.e /\ j.t = i.t => j = i
      BY <2>2
    <2>5. \A e \in Exposures, t \in Target : \A s \in settlement[e][t] :
             s.rev <= s.of /\ s.of <= label[e][t].rev /\ s.rev <= label[e][t].rev
      BY <1>1, <1>2 DEF RevisionInv
    <2>6. QED
      BY <1>1, <2>1, <2>2, <2>3, <2>4, <2>5 DEF RevisionInv
  <1>6. CASE ReadLabels
    <2>1. UNCHANGED <<label, settlement>> /\ pass'.at = "write" /\ pass.at = "read"
      BY <1>6 DEF ReadLabels, LabelTypeOK
    <2>2. \A i \in pass'.items : \E j \in pass.items :
             i = [j EXCEPT !.of = label[j.e][j.t].rev]
      BY <1>6 DEF ReadLabels, LabelTypeOK
    <2>3. \A i \in pass'.items : \E j \in pass.items :
             /\ i.e = j.e /\ i.t = j.t /\ i.rev = j.rev /\ i.of = label[j.e][j.t].rev
             /\ i = [j EXCEPT !.of = label[j.e][j.t].rev]
      BY <1>2, <2>2 DEF Item
    <2>4. \A i \in pass'.items :
             /\ i.e \in Exposures /\ i.t \in Target
             /\ i.rev <= label[i.e][i.t].rev /\ i.of = label[i.e][i.t].rev
             /\ \A s \in settlement[i.e][i.t] : s.rev <= i.rev
      BY <1>2, <2>3 DEF RevisionInv
    <2>5. \A i, k \in pass'.items : k.e = i.e /\ k.t = i.t => k = i
      <3>1. \A i, k \in pass.items : k.e = i.e /\ k.t = i.t => k = i
        BY DEF RevisionInv
      <3>2. QED
        BY <2>3, <3>1
    <2>6. QED
      BY <1>1, <1>2, <2>1, <2>4, <2>5 DEF RevisionInv
  <1>7. ASSUME NEW e \in Exposures, CloseExpectation(e) PROVE RevisionInv'
    <2>1. /\ UNCHANGED settlement /\ pass'.items = pass.items
          /\ pass'.at = "write" /\ pass.at = "close"
      BY <1>7 DEF CloseExpectation, LabelTypeOK
    <2>2. QED
      BY <1>1, <1>2, <2>1 DEF RevisionInv
  <1>8. ASSUME NEW i \in pass.items, ReplayRevision(i) PROVE RevisionInv'
    <2>1. /\ UNCHANGED settlement /\ pass'.items \subseteq pass.items
          /\ pass'.at = "write" /\ pass.at = "write"
      BY <1>8 DEF ReplayRevision, Current, LabelTypeOK
    <2>2. QED
      BY <1>1, <1>2, <2>1 DEF RevisionInv
  <1>9. ASSUME NEW i \in pass.items, WriteRevision(i) PROVE RevisionInv'
    <2>1. /\ pass'.items = pass.items \ {i}
          /\ pass'.at = "close" /\ pass.at = "write"
      BY <1>9 DEF WriteRevision, Current, LabelTypeOK
    <2>2. /\ Inserted(i).rev = i.rev /\ Inserted(i).of = i.of
          /\ i.rev \in Nat /\ i.of \in Nat
          /\ i.rev <= i.of /\ i.of <= label[i.e][i.t].rev
      BY <1>2, <2>1 DEF RevisionInv, Inserted
    <2>3. \A e \in Exposures, t \in Target : \A s \in settlement'[e][t] :
             s \in settlement[e][t] \/ (e = i.e /\ t = i.t /\ s = Inserted(i))
      BY <1>2, <1>9 DEF WriteRevision, LabelTypeOK
    <2>4. \A e \in Exposures, t \in Target : \A s \in settlement'[e][t] :
             s.rev <= s.of /\ s.of <= label'[e][t].rev
      BY <1>1, <1>2, <2>2, <2>3 DEF RevisionInv
    <2>5. ASSUME NEW k \in pass'.items
          PROVE  /\ k.rev <= label'[k.e][k.t].rev
                 /\ k.rev <= k.of /\ k.of <= label'[k.e][k.t].rev
                 /\ \A s \in settlement'[k.e][k.t] : s.rev <= k.rev
                 /\ \A j \in pass'.items : j.e = k.e /\ j.t = k.t => j = k
      <3>1. k \in pass.items /\ k # i
        BY <2>1
      <3>2. k.e # i.e \/ k.t # i.t
        BY <3>1 DEF RevisionInv
      <3>3. \A s \in settlement'[k.e][k.t] : s \in settlement[k.e][k.t]
        BY <1>2, <2>3, <3>1, <3>2
      <3>4. QED
        BY <1>1, <1>2, <2>1, <3>1, <3>3 DEF RevisionInv
    <2>6. QED
      BY <2>4, <2>5 DEF RevisionInv
  <1>10. QED
    BY <1>3, <1>4, <1>5, <1>6, <1>7, <1>8, <1>9, PassMoves

(* A comparison is appended after the ones of lower revisions.             *)
LEMMA RevisionAction ==
    ASSUME LabelTypeOK, PassInv, RevisionInv, [Next]_vars
    PROVE  \A e \in Exposures, t \in Target :
              LET new == settlement'[e][t] \ settlement[e][t] IN
              /\ settlement[e][t] \subseteq settlement'[e][t]
              /\ \A s \in new : \A old \in settlement[e][t] : old.rev < s.rev
  <1>1. CASE UNCHANGED settlement
    BY <1>1
  <1>2. ASSUME NEW i \in pass.items, WriteRevision(i), NEW e \in Exposures, NEW t \in Target
        PROVE  /\ settlement[e][t] \subseteq settlement'[e][t]
               /\ \A s \in settlement'[e][t] \ settlement[e][t] :
                     \A old \in settlement[e][t] : old.rev < s.rev
    <2>1. /\ i.e \in Exposures /\ i.t \in Target /\ i.rev \in Nat
          /\ \A s \in settlement[i.e][i.t] : s.rev \in Nat
          /\ Inserted(i).rev = i.rev
      BY DEF LabelTypeOK, Item, Settled, Inserted
    <2>2. /\ settlement[e][t] \subseteq settlement'[e][t]
          /\ \A s \in settlement'[e][t] \ settlement[e][t] :
                e = i.e /\ t = i.t /\ s = Inserted(i)
      BY <1>2, <2>1 DEF WriteRevision, LabelTypeOK
    <2>3. \A old \in settlement[i.e][i.t] : old.rev <= i.rev /\ old.rev # i.rev
      BY <1>2 DEF WriteRevision, KeyTaken, RevisionInv
    <2>4. QED
      BY <2>1, <2>2, <2>3
  <1>3. \A i \in pass.items : ReplayRevision(i) => UNCHANGED settlement
    BY DEF ReplayRevision
  <1>4. ListExpectations \/ ReadLabels \/ (\E e \in Exposures : CloseExpectation(e))
           => UNCHANGED settlement
    BY DEF ListExpectations, ReadLabels, CloseExpectation
  <1>5. QED
    BY <1>1, <1>2, <1>3, <1>4, PassMoves

-----------------------------------------------------------------------------
(* What holds whatever fails.                                              *)

LEMMA LabelInitial == Init => LabelInv
  <1> SUFFICES ASSUME Init PROVE LabelInv
    OBVIOUS
  <1>1. LabelTypeOK
    BY TypeInit
  <1>2. UnexposedInv /\ PassInv
    BY Constants DEF Init, UnexposedInv, PassInv, IdlePass, IsExposed
  <1>3. LedgerInv
    BY DEF Init, LedgerInv, LedgerFollowsItsSource
  <1>4. RevisionInv
    BY DEF Init, RevisionInv, IdlePass
  <1>5. QED
    BY <1>1, <1>2, <1>3, <1>4 DEF LabelInv

LEMMA LabelStep ==
    ASSUME LabelInv, [Next]_vars
    PROVE  LabelInv'
  BY TypeStep, UnexposedStep, PassStep, LedgerStep, RevisionStep DEF LabelInv

LEMMA LabelInvariant == Spec => []LabelInv
  <1>1. Init => LabelInv
    BY LabelInitial
  <1>2. LabelInv /\ [Next]_vars => LabelInv'
    BY LabelStep
  <1>3. QED
    BY <1>1, <1>2, PTL DEF Spec

(* The pass, the hook and the requests keep every variable of the user     *)
(* model within its type: what they read, settle and compare are labels,   *)
(* observations and comparisons of known exposures.                        *)
THEOREM LabelTypes == Spec => []LabelTypeOK
  <1>1. LabelInv => LabelTypeOK
    BY DEF LabelInv
  <1>2. QED
    BY <1>1, LabelInvariant, PTL

(* The reward ledger says what the label it was taken from says, or the    *)
(* label was reopened since (LangchaoUserOutcomeSettler).                  *)
THEOREM LedgerFollows == Spec => []LedgerFollowsItsSource
  <1>1. LabelInv => LedgerFollowsItsSource
    BY DEF LabelInv, LedgerInv
  <1>2. QED
    BY <1>1, LabelInvariant, PTL

(* A revision of a comparison is written once, after the ones of lower     *)
(* revisions (write_expectation_revision_once).                            *)
THEOREM RevisionsStayInOrder == Spec => RevisionsInOrder
  <1>1. LabelInv /\ [Next]_vars =>
           [\A e \in Exposures, t \in Target :
              LET new == settlement'[e][t] \ settlement[e][t] IN
              /\ settlement[e][t] \subseteq settlement'[e][t]
              /\ \A s \in new : \A old \in settlement[e][t] : old.rev < s.rev]_vars
    BY RevisionAction DEF LabelInv
  <1>2. QED
    BY <1>1, LabelInvariant, PTL DEF Spec, RevisionsInOrder

-----------------------------------------------------------------------------
(* The steps of a run without faults, reduced to what ComparisonInv reads. *)

Passes ==
    /\ UNCHANGED <<exposed, label, forecast, settlement, pass>>
    /\ \A e \in Exposures : Awaited(e)' => Awaited(e)

Exposes(f) ==
    /\ ~IsExposed(f) /\ exposed'[f] = now /\ forecast'[f].status = "pending"
    /\ \A e \in Exposures : e # f =>
          /\ exposed'[e] = exposed[e] /\ label'[e] = label[e] /\ forecast'[e] = forecast[e]
    /\ UNCHANGED <<reply, settlement, pass>>

Hooks(f) ==
    /\ Awaited(f) /\ ~Awaited(f)'
    /\ \A e \in Exposures : e # f =>
          label'[e] = label[e] /\ (Awaited(e)' => Awaited(e))
    /\ UNCHANGED <<exposed, forecast, settlement, pass>>

Starts ==
    /\ pass.at = "idle" /\ pass.items = {}
    /\ pass'.at = "settle" /\ pass'.items = {}
    /\ \A e \in Exposures, t \in Target :
          IsExposed(e) /\ Expired(e, t, pass'.asof) /\ label[e][t].status = "pending"
              => e \in pass'.due
    /\ UNCHANGED <<exposed, label, reply, forecast, settlement>>

SettlesDue(f) ==
    /\ pass.at = "settle" /\ pass'.at = "settle" /\ pass'.items = {} /\ pass.items = {}
    /\ pass'.asof = pass.asof /\ pass'.due = pass.due \ {f}
    /\ \A e \in Exposures : e # f => label'[e] = label[e]
    /\ \A t \in Target : Expired(f, t, pass.asof) => label'[f][t].status # "pending"
    /\ UNCHANGED <<exposed, reply, forecast, settlement>>

Lists ==
    /\ pass.at = "settle" /\ pass.due = {} /\ pass.items = {} /\ pass'.at = "read"
    /\ \A i \in pass'.items :
          /\ i.e \in Exposures /\ i.t \in Target
          /\ IsDue(i.e) /\ i.rev = label[i.e][i.t].rev
    /\ \A e \in Exposures, t \in Target :
          IsDue(e) /\ label[e][t].status # "pending" => Listed(e, t)'
    /\ UNCHANGED <<exposed, label, reply, forecast, settlement>>

Reads ==
    /\ pass.at = "read" /\ pass'.at = "write"
    /\ \A i \in pass'.items : \E j \in pass.items :
          i.e = j.e /\ i.t = j.t /\ i.rev = j.rev /\ i.of = label[j.e][j.t].rev
    /\ \A j \in pass.items : \E i \in pass'.items : i.e = j.e /\ i.t = j.t
    /\ UNCHANGED <<exposed, label, reply, forecast, settlement>>

Writes(i) ==
    /\ pass.at = "write" /\ pass'.at = "close"
    /\ pass'.due = {i.e} /\ pass'.items = pass.items \ {i}
    /\ Inserted(i) \in settlement'[i.e][i.t]
    /\ \A e \in Exposures, t \in Target :
          IF e = i.e /\ t = i.t THEN settlement[e][t] \subseteq settlement'[e][t]
                               ELSE settlement'[e][t] = settlement[e][t]
    /\ UNCHANGED <<exposed, label, reply, forecast>>

Replays(i) ==
    /\ pass.at = "write" /\ pass'.at = "write" /\ pass'.items = pass.items \ {i}
    /\ Inserted(i) \in settlement[i.e][i.t]
    /\ UNCHANGED <<exposed, label, reply, forecast, settlement>>

Closes(f) ==
    /\ Closing(f) /\ pass'.at = "write" /\ pass'.items = pass.items
    /\ forecast'[f].status = IF HasPending(f) THEN forecast[f].status ELSE "settled"
    /\ \A e \in Exposures : e # f => forecast'[e] = forecast[e]
    /\ UNCHANGED <<exposed, label, reply, settlement>>

Ends ==
    /\ pass.at # "close" /\ pass.items = {}
    /\ pass'.at \in {"idle", "activate"} /\ pass'.items = {}
    /\ UNCHANGED <<exposed, label, reply, forecast, settlement>>

(* No step of a run without faults raises: the item the pass works on is   *)
(* recorded with the label the pass has read.                              *)
LEMMA NothingRaises ==
    ASSUME LabelTypeOK, ItemInv, NEW i \in pass.items
    PROVE  ~PassRaises(i)
  <1> SUFFICES ASSUME PassRaises(i) PROVE FALSE
    OBVIOUS
  <1>1. i.e \in Exposures /\ i.t \in Target
    BY DEF LabelTypeOK, Item
  <1>2. PICK s \in settlement[i.e][i.t] : s.rev = i.rev
    BY DEF PassRaises, KeyTaken
  <1>3. s.of = i.of
    BY <1>2 DEF PassRaises, Current, ItemInv
  <1>4. s = [rev |-> s.rev, of |-> s.of]
    BY <1>1 DEF LabelTypeOK, Settled
  <1>5. QED
    BY <1>2, <1>3, <1>4 DEF PassRaises, Inserted

LEMMA FaultFreeUser ==
    ASSUME LabelInv, faults' = 0,
           \/ Tick \/ Crash \/ UNCHANGED vars
           \/ \E e \in Exposures : \/ Acknowledge(e) \/ AfterUserEvent(e)
                                  \/ \E at \in Time : IngestReply(e, at)
    PROVE  \/ Passes
           \/ \E e \in Exposures : Exposes(e) \/ Hooks(e)
  <1> USE DEF LabelInv
  <1>1. ASSUME Tick \/ UNCHANGED vars PROVE Passes
    BY <1>1 DEF Tick, vars, Passes, Awaited
  <1>2. ~Crash
    BY DEF Crash, LabelTypeOK
  <1>3. ASSUME NEW e \in Exposures, NEW at \in Time, IngestReply(e, at) PROVE Passes
    <2>1. reply[e].stage = "none"
      BY <1>3 DEF IngestReply, NoReply
    <2>2. \A f \in Exposures : f # e => reply'[f] = reply[f]
      BY <1>3 DEF IngestReply, LabelTypeOK
    <2>3. QED
      BY <1>3, <2>1, <2>2 DEF IngestReply, Passes, Awaited
  <1>4. ASSUME NEW e \in Exposures, Acknowledge(e) PROVE Exposes(e)
    <2>1. forecast'[e].status = "pending" /\ exposed'[e] = now
      BY <1>4 DEF Acknowledge, Prepare, Freeze, LabelTypeOK
    <2>2. QED
      BY <1>4, <2>1 DEF Acknowledge, Prepare, Freeze, Exposes, LabelTypeOK
  <1>5. ASSUME NEW e \in Exposures, AfterUserEvent(e) PROVE Hooks(e)
    <2>1. \A f \in Exposures : f # e => reply'[f] = reply[f]
      BY <1>5 DEF AfterUserEvent, LabelTypeOK
    <2>2. reply[e].stage = "ingested" /\ reply'[e].stage = "settled"
      BY <1>5 DEF AfterUserEvent, LabelTypeOK
    <2>3. \A f \in Exposures : f # e => label'[f] = label[f]
      BY <1>5 DEF AfterUserEvent, SettleObservation, LabelTypeOK
    <2>4. QED
      BY <1>5, <2>1, <2>2, <2>3 DEF AfterUserEvent, Hooks, Awaited
  <1>6. QED
    BY <1>1, <1>2, <1>3, <1>4, <1>5

LEMMA FaultFreePass ==
    ASSUME LabelInv, ItemInv, faults' = 0, MaintenanceStep
    PROVE  \/ Starts \/ Lists \/ Reads \/ Ends
           \/ \E e \in Exposures : SettlesDue(e) \/ Closes(e)
           \/ \E i \in pass.items : Writes(i) \/ Replays(i)
  <1> USE DEF LabelInv
  <1>j. ~JoinsRollback
    BY DEF JoinsRollback, LabelTypeOK
  <1>1. ASSUME RunDue PROVE Starts
    <2>1. /\ pass'.at = "settle" /\ pass'.items = {} /\ pass'.asof = now
          /\ pass'.due = DueExposures /\ pass.at = "idle"
      BY <1>1 DEF RunDue, IdlePass
    <2>2. pass.items = {}
      BY <2>1 DEF PassInv
    <2>3. QED
      BY <1>1, <2>1, <2>2 DEF RunDue, Starts, DueExposures
  <1>2. ASSUME NEW e \in Exposures, SettleDue(e) PROVE SettlesDue(e)
    <2>1. SettleObservation(e, FALSE, pass.asof) /\ pass.at = "settle"
      BY <1>2 DEF SettleDue
    <2>2. /\ pass'.at = "settle" /\ pass'.items = pass.items /\ pass'.asof = pass.asof
          /\ pass'.due = pass.due \ {e}
      BY <1>2 DEF SettleDue, LabelTypeOK
    <2>3. pass.items = {}
      BY <2>1 DEF PassInv
    <2>4. \A t \in Target : Expired(e, t, pass.asof) => label'[e][t].status # "pending"
      <3>4. PICK given \in BOOLEAN : given = FALSE
        OBVIOUS
      <3>5. \A f \in Exposures, t \in Target :
               label'[f][t] = IF f = e THEN Revised(e, t, given, pass.asof) ELSE label[f][t]
        <4>1. SettleObservation(e, given, pass.asof)
          BY <2>1, <3>4
        <4>2. PICK asof : asof = pass.asof
          OBVIOUS
        <4>3. SettleObservation(e, given, asof)
          BY <4>1, <4>2
        <4>4. \A f \in Exposures, t \in Target :
                 label'[f][t] = IF f = e THEN Revised(e, t, given, asof) ELSE label[f][t]
          BY <4>3, SettledLabels
        <4>5. QED
          BY <4>2, <4>4
      <3>1. \A t \in Target : label'[e][t] = Revised(e, t, FALSE, pass.asof)
        BY <3>4, <3>5
      <3>2. \A t \in Target : Expired(e, t, pass.asof)
               => Revised(e, t, FALSE, pass.asof).status # "pending"
        BY RevisedLabel
      <3>3. QED
        BY <3>1, <3>2
    <2>5. \A f \in Exposures : f # e => label'[f] = label[f]
      BY <2>1 DEF SettleObservation, LabelTypeOK
    <2>6. QED
      BY <1>2, <2>1, <2>2, <2>3, <2>4, <2>5 DEF SettleDue, SettlesDue
  <1>3. ASSUME NEW e \in Exposures, CloseExpectation(e) PROVE Closes(e)
    <2>1. /\ pass'.at = "write" /\ pass'.items = pass.items
          /\ pass.at = "close" /\ pass.due = {e}
      BY <1>3 DEF CloseExpectation, LabelTypeOK
    <2>2. forecast' = [forecast EXCEPT ![e].status = IF HasPending(e) THEN @ ELSE "settled"]
      BY <1>3, <1>j DEF CloseExpectation
    <2>3. QED
      BY <1>3, <2>1, <2>2 DEF CloseExpectation, Closes, Closing, LabelTypeOK
  <1>4. ASSUME ListExpectations PROVE Lists
    <2>1. pass.at = "settle" /\ pass.due = {} /\ pass'.at = "read"
      BY <1>4 DEF ListExpectations, IdlePass
    <2>2. pass.items = {}
      BY <2>1 DEF PassInv
    <2>3. pass'.items =
             {[e |-> x[1], t |-> x[2], rev |-> label[x[1]][x[2]].rev, of |-> 0] :
                         x \in {y \in Exposures \X Target :
                                   IsDue(y[1]) /\ label[y[1]][y[2]].status # "pending"}}
      BY <1>4 DEF ListExpectations, IdlePass
    <2>4. \A i \in pass'.items :
             /\ i.e \in Exposures /\ i.t \in Target
             /\ IsDue(i.e) /\ i.rev = label[i.e][i.t].rev
      BY <2>3
    <2>5. ASSUME NEW e \in Exposures, NEW t \in Target,
                 IsDue(e), label[e][t].status # "pending"
          PROVE  Listed(e, t)'
      <3>1. [e |-> e, t |-> t, rev |-> label[e][t].rev, of |-> 0] \in pass'.items
        <4>1. <<e, t>> \in {y \in Exposures \X Target :
                               IsDue(y[1]) /\ label[y[1]][y[2]].status # "pending"}
          BY <2>5
        <4>2. QED
          BY <2>3, <4>1
      <3>2. QED
        BY <3>1 DEF Listed
    <2>6. QED
      BY <1>4, <2>1, <2>2, <2>4, <2>5 DEF ListExpectations, Lists
  <1>5. ASSUME ReadLabels PROVE Reads
    <2>1. /\ pass'.at = "write" /\ pass.at = "read"
          /\ pass'.items = {[i EXCEPT !.of = label[i.e][i.t].rev] : i \in pass.items}
      BY <1>5 DEF ReadLabels, LabelTypeOK
    <2> DEFINE read(j) == [j EXCEPT !.of = label[j.e][j.t].rev]
    <2>2. \A j \in pass.items :
             /\ read(j).e = j.e /\ read(j).t = j.t /\ read(j).rev = j.rev
             /\ read(j).of = label[j.e][j.t].rev
      BY DEF LabelTypeOK, Item
    <2>3. pass'.items = {read(j) : j \in pass.items}
      BY <2>1
    <2> HIDE DEF read
    <2>4. /\ \A i \in pass'.items : \E j \in pass.items : i = read(j)
          /\ \A j \in pass.items : read(j) \in pass'.items
      BY <2>3
    <2>5. UNCHANGED <<exposed, label, reply, forecast, settlement>>
      BY <1>5 DEF ReadLabels
    <2>6. QED
      BY <2>1, <2>2, <2>4, <2>5 DEF Reads
  <1>6. ASSUME NEW i \in pass.items, WriteRevision(i) PROVE Writes(i)
    <2>1. /\ pass.at = "write" /\ pass'.at = "close"
          /\ pass'.due = {i.e} /\ pass'.items = pass.items \ {i}
      BY <1>6 DEF WriteRevision, Current, LabelTypeOK
    <2>2. settlement' = [settlement EXCEPT ![i.e][i.t] = @ \cup {Inserted(i)}]
      BY <1>6, <1>j DEF WriteRevision
    <2>3. i.e \in Exposures /\ i.t \in Target
      BY DEF LabelTypeOK, Item
    <2>4. QED
      BY <1>6, <2>1, <2>2, <2>3 DEF WriteRevision, Writes, LabelTypeOK
  <1>7. ASSUME NEW i \in pass.items, ReplayRevision(i) PROVE Replays(i)
    BY <1>7 DEF ReplayRevision, Current, Replays, LabelTypeOK
  <1>8. ASSUME BuildDataset PROVE Ends
    BY <1>8 DEF BuildDataset, Ends, LabelTypeOK
  <1>9. ASSUME ActivateParameters \/ EndPass PROVE Ends
    <2>1. pass.at # "close" /\ pass.items = {}
      BY <1>9 DEF ActivateParameters, EndPass, PassInv
    <2>2. QED
      BY <1>9, <2>1 DEF ActivateParameters, EndPass, Ends, IdlePass
  <1>10. QED
    BY <1>1, <1>2, <1>3, <1>4, <1>5, <1>6, <1>7, <1>8, <1>9, NothingRaises
       DEF MaintenanceStep

LEMMA FaultFreeStep ==
    ASSUME LabelInv, ItemInv, [Next]_vars, faults' = 0
    PROVE  \/ Passes \/ Starts \/ Lists \/ Reads \/ Ends
           \/ \E e \in Exposures : Exposes(e) \/ Hooks(e) \/ SettlesDue(e) \/ Closes(e)
           \/ \E i \in pass.items : Writes(i) \/ Replays(i)
  BY FaultFreeUser, FaultFreePass DEF Next

-----------------------------------------------------------------------------
(* Closed expectations are compared in full.                               *)

LEMMA SettleStep ==
    ASSUME LabelInv, SettleInv, ItemInv, [Next]_vars, faults' = 0
    PROVE  SettleInv'
  <1> SUFFICES ASSUME pass'.at = "settle", NEW e \in Exposures, NEW t \in Target,
                      IsExposed(e)', Expired(e, t, pass.asof)', label'[e][t].status = "pending"
               PROVE  e \in pass'.due \/ ~Awaited(e)'
    BY DEF SettleInv
  <1>1. CASE Passes
    BY <1>1 DEF Passes, SettleInv, Expired, WindowEnd, IsExposed
  <1>2. ASSUME NEW f \in Exposures, Exposes(f) PROVE e \in pass'.due \/ ~Awaited(e)'
    <2>1. CASE e = f
      <3>1. /\ exposed'[e] = now /\ pass' = pass
            /\ now \in Nat /\ pass.asof \in Nat /\ pass.asof <= now
            /\ Horizon[t] \in Nat /\ Horizon[t] >= 1
        BY <1>2, <2>1, Constants DEF Exposes, LabelInv, LabelTypeOK, PassInv, Time
      <3>2. QED
        BY <3>1 DEF Expired, WindowEnd
    <2>2. CASE e # f
      BY <1>2, <2>2 DEF Exposes, SettleInv, Expired, WindowEnd, IsExposed, Awaited
    <2>3. QED
      BY <2>1, <2>2
  <1>3. ASSUME NEW f \in Exposures, Hooks(f) PROVE e \in pass'.due \/ ~Awaited(e)'
    BY <1>3 DEF Hooks, SettleInv, Expired, WindowEnd, IsExposed
  <1>4. CASE Starts
    BY <1>4 DEF Starts, Expired, WindowEnd, IsExposed
  <1>5. ASSUME NEW f \in Exposures, SettlesDue(f) PROVE e \in pass'.due \/ ~Awaited(e)'
    BY <1>5 DEF SettlesDue, SettleInv, Expired, WindowEnd, IsExposed, Awaited
  <1>6. ASSUME NEW i \in pass.items, Writes(i) \/ Replays(i) PROVE FALSE
    BY <1>6 DEF Writes, Replays
  <1>7. QED
    BY <1>1, <1>2, <1>3, <1>4, <1>5, <1>6, FaultFreeStep DEF Lists, Reads, Ends, Closes

(* The windows of an expectation that is due have all ended.               *)
LEMMA DueWindows ==
    ASSUME LabelInv, NEW e \in Exposures, IsDue(e), NEW t \in Target
    PROVE  IsExposed(e) /\ Expired(e, t, pass.asof)
  <1> DEFINE S == {Horizon[u] : u \in Target}
             longest(h) == \A u \in Target : Horizon[u] <= h
             H == CHOOSE h \in S : longest(h)
  <1>1. \A u \in Target : Horizon[u] \in Nat
    BY Constants
  <1>2. \E h \in S : longest(h)
    <2>1. PICK u \in Target : \A v \in Target : Horizon[v] <= Horizon[u]
      <3> DEFINE m(x, y) == IF Horizon[x] <= Horizon[y] THEN y ELSE x
      <3>1. \A x, y \in Target : /\ m(x, y) \in Target
                               /\ Horizon[x] <= Horizon[m(x, y)]
                               /\ Horizon[y] <= Horizon[m(x, y)]
        BY <1>1
      <3> HIDE DEF m
      <3>2. LET w == m(m("reply", "acceptance"), m("continue", "negative")) IN
            w \in Target /\ \A v \in Target : Horizon[v] <= Horizon[w]
        BY <1>1, <3>1 DEF Target
      <3>3. QED
        BY <3>2
    <2>2. QED
      BY <2>1
  <1>3. H \in S /\ longest(H)
    <2> HIDE DEF longest, S
    <2>1. QED
      BY <1>2
  <1>4. H \in Nat
    BY <1>1, <1>3
  <1>5. exposed[e] + H <= pass.asof
    BY DEF IsDue, DueAt
  <1>6. IsExposed(e)
    BY DEF IsDue, LabelInv, UnexposedInv
  <1>7. exposed[e] \in Nat /\ pass.asof \in Nat
    BY Constants DEF LabelInv, LabelTypeOK, Time, NoTime
  <1>8. Horizon[t] <= H
    BY <1>3
  <1> HIDE DEF H
  <1>9. QED
    BY <1>1, <1>4, <1>5, <1>6, <1>7, <1>8 DEF Expired, WindowEnd

LEMMA WorkStep ==
    ASSUME LabelInv, SettleInv, WorkInv, ItemInv, [Next]_vars, faults' = 0
    PROVE  WorkInv'
  <1> DEFINE Good(e) ==
          /\ Awaited(e) => ~HasPending(e)
          /\ \A t \in Target :
                \/ Compared(e, t) \/ Listed(e, t)
                \/ label[e][t].status = "pending" /\ ~Awaited(e)
  <1> SUFFICES ASSUME NEW e \in Exposures, InWork(e)' PROVE Good(e)'
    BY DEF WorkInv
  <1>g. InWork(e) => Good(e)
    BY DEF WorkInv
  <1>u. IsExposed(e) \/ ~InWork(e)
    BY DEF InWork, Closing, Listed, LabelInv, PassInv
  <1>1. CASE Passes
    BY <1>1, <1>g DEF Passes, InWork, Closing, Listed, Compared, HasPending
  <1>2. ASSUME NEW f \in Exposures, Exposes(f) PROVE Good(e)'
    BY <1>2, <1>g, <1>u DEF Exposes, InWork, Closing, Listed, Compared, HasPending, Awaited
  <1>3. ASSUME NEW f \in Exposures, Hooks(f) PROVE Good(e)'
    BY <1>3, <1>g DEF Hooks, InWork, Closing, Listed, Compared, HasPending
  <1>4. CASE Starts
    BY <1>4 DEF Starts, InWork, Closing, Listed
  <1>5. ASSUME NEW f \in Exposures, SettlesDue(f) PROVE Good(e)'
    BY <1>5 DEF SettlesDue, InWork, Closing, Listed
  <1>6. CASE Lists
    <2>1. IsDue(e)
      BY <1>6 DEF Lists, InWork, Closing, Listed
    <2>2. \A t \in Target : label[e][t].status = "pending" => ~Awaited(e)
      BY <1>6, <2>1, DueWindows DEF Lists, SettleInv
    <2>3. \A t \in Target : label[e][t].status # "pending" => Listed(e, t)'
      BY <1>6, <2>1 DEF Lists
    <2>4. label' = label /\ (Awaited(e)' <=> Awaited(e))
      BY <1>6 DEF Lists, Awaited
    <2>5. QED
      BY <2>2, <2>3, <2>4 DEF HasPending
  <1>7. CASE Reads
    <2>1. \A t \in Target : Listed(e, t)' <=> Listed(e, t)
      BY <1>7 DEF Reads, Listed
    <2>2. InWork(e)
      BY <1>7, <2>1 DEF Reads, InWork, Closing
    <2>3. QED
      BY <1>7, <1>g, <2>1, <2>2 DEF Reads, Compared, HasPending, Awaited
  <1>8. ASSUME NEW i \in pass.items, Writes(i) PROVE Good(e)'
    <2>1. /\ i.e \in Exposures /\ i.t \in Target
      BY DEF LabelInv, LabelTypeOK, Item
    <2>2. InWork(e)
      BY <1>8, <2>1 DEF Writes, InWork, Closing, Listed
    <2>3. \A t \in Target : Listed(e, t) => Listed(e, t)' \/ Compared(e, t)'
      BY <1>8, <2>1 DEF Writes, Listed, Compared
    <2>4. \A t \in Target : Compared(e, t) => Compared(e, t)'
      BY <1>8 DEF Writes, Compared
    <2>5. QED
      BY <1>8, <1>g, <2>2, <2>3, <2>4 DEF Writes, HasPending, Awaited
  <1>9. ASSUME NEW i \in pass.items, Replays(i) PROVE Good(e)'
    <2>1. InWork(e)
      BY <1>9 DEF Replays, InWork, Closing, Listed
    <2>2. \A t \in Target : Listed(e, t) => Listed(e, t)' \/ Compared(e, t)'
      BY <1>9 DEF Replays, Listed, Compared
    <2>3. QED
      BY <1>9, <1>g, <2>1, <2>2 DEF Replays, Compared, HasPending, Awaited
  <1>10. ASSUME NEW f \in Exposures, Closes(f) PROVE Good(e)'
    <2>1. InWork(e)
      BY <1>10 DEF Closes, InWork, Closing, Listed
    <2>2. QED
      BY <1>10, <1>g, <2>1 DEF Closes, Listed, Compared, HasPending, Awaited
  <1>11. CASE Ends
    BY <1>11 DEF Ends, InWork, Closing, Listed
  <1>12. QED
    BY <1>1, <1>2, <1>3, <1>4, <1>5, <1>6, <1>7, <1>8, <1>9, <1>10, <1>11, FaultFreeStep

LEMMA ClosedStep ==
    ASSUME LabelInv, WorkInv, ClosedInv, ItemInv, [Next]_vars, faults' = 0
    PROVE  ClosedInv'
  <1> SUFFICES ASSUME NEW e \in Exposures, forecast'[e].status = "settled", NEW t \in Target
               PROVE  Compared(e, t)' \/ Listed(e, t)'
    BY DEF ClosedInv
  <1>g. forecast[e].status = "settled" => Compared(e, t) \/ Listed(e, t)
    BY DEF ClosedInv
  <1>1. CASE Passes
    BY <1>1, <1>g DEF Passes, Compared, Listed
  <1>2. ASSUME NEW f \in Exposures, Exposes(f) PROVE Compared(e, t)' \/ Listed(e, t)'
    BY <1>2, <1>g DEF Exposes, Compared, Listed
  <1>3. ASSUME NEW f \in Exposures, Hooks(f) PROVE Compared(e, t)' \/ Listed(e, t)'
    BY <1>3, <1>g DEF Hooks, Compared, Listed
  <1>4. CASE Starts \/ Lists \/ Ends
    BY <1>4, <1>g DEF Starts, Lists, Ends, Compared, Listed
  <1>5. ASSUME NEW f \in Exposures, SettlesDue(f) PROVE Compared(e, t)' \/ Listed(e, t)'
    BY <1>5, <1>g DEF SettlesDue, Compared, Listed
  <1>6. CASE Reads
    BY <1>6, <1>g DEF Reads, Compared, Listed
  <1>7. ASSUME NEW i \in pass.items, Writes(i) PROVE Compared(e, t)' \/ Listed(e, t)'
    <2>1. Listed(e, t) => Listed(e, t)' \/ Compared(e, t)'
      BY <1>7 DEF Writes, Listed, Compared
    <2>2. Compared(e, t) => Compared(e, t)'
      BY <1>7 DEF Writes, Compared
    <2>3. QED
      BY <1>7, <1>g, <2>1, <2>2 DEF Writes
  <1>8. ASSUME NEW i \in pass.items, Replays(i) PROVE Compared(e, t)' \/ Listed(e, t)'
    BY <1>8, <1>g DEF Replays, Compared, Listed
  <1>9. ASSUME NEW f \in Exposures, Closes(f) PROVE Compared(e, t)' \/ Listed(e, t)'
    <2>1. CASE forecast[e].status = "settled"
      BY <1>9, <1>g, <2>1 DEF Closes, Compared, Listed
    <2>2. CASE forecast[e].status # "settled"
      <3>1. e = f /\ Closing(e) /\ ~HasPending(e)
        BY <1>9, <2>2 DEF Closes
      <3>2. Compared(e, t) \/ Listed(e, t)
        BY <3>1 DEF WorkInv, InWork, HasPending
      <3>3. QED
        BY <1>9, <3>2 DEF Closes, Compared, Listed
    <2>3. QED
      BY <2>1, <2>2
  <1>10. QED
    BY <1>1, <1>2, <1>3, <1>4, <1>5, <1>6, <1>7, <1>8, <1>9, FaultFreeStep

LEMMA OpenStep ==
    ASSUME LabelInv, WorkInv, OpenInv, ItemInv, [Next]_vars, faults' = 0
    PROVE  OpenInv'
  <1> SUFFICES ASSUME NEW e \in Exposures, forecast'[e].status = "pending",
                      Awaited(e)', ~Closing(e)', NEW t \in Target
               PROVE  ~Compared(e, t)'
    BY DEF OpenInv
  <1>g. forecast[e].status = "pending" /\ Awaited(e) /\ ~Closing(e) => ~Compared(e, t)
    BY DEF OpenInv
  <1>1. CASE Passes
    BY <1>1, <1>g DEF Passes, Compared, Closing
  <1>2. ASSUME NEW f \in Exposures, Exposes(f) PROVE ~Compared(e, t)'
    <2>1. CASE e = f
      BY <1>2, <2>1 DEF Exposes, Compared, LabelInv, UnexposedInv
    <2>2. CASE e # f
      BY <1>2, <1>g, <2>2 DEF Exposes, Compared, Closing, Awaited
    <2>3. QED
      BY <2>1, <2>2
  <1>3. ASSUME NEW f \in Exposures, Hooks(f) PROVE ~Compared(e, t)'
    BY <1>3, <1>g DEF Hooks, Compared, Closing
  <1>4. CASE Starts \/ Lists \/ Reads \/ Ends
    BY <1>4, <1>g DEF Starts, Lists, Reads, Ends, Compared, Closing, Awaited
  <1>5. ASSUME NEW f \in Exposures, SettlesDue(f) PROVE ~Compared(e, t)'
    BY <1>5, <1>g DEF SettlesDue, Compared, Closing, Awaited
  <1>6. ASSUME NEW i \in pass.items, Writes(i) PROVE ~Compared(e, t)'
    <2>1. e # i.e
      BY <1>6 DEF Writes, Closing
    <2>2. QED
      BY <1>6, <1>g, <2>1 DEF Writes, Compared, Closing, Awaited
  <1>7. ASSUME NEW i \in pass.items, Replays(i) PROVE ~Compared(e, t)'
    BY <1>7, <1>g DEF Replays, Compared, Closing, Awaited
  <1>8. ASSUME NEW f \in Exposures, Closes(f) PROVE ~Compared(e, t)'
    <2>1. CASE e = f
      <3>1. Awaited(e) /\ Closing(e)
        BY <1>8, <2>1 DEF Closes, Awaited
      <3>2. ~HasPending(e)
        BY <3>1 DEF WorkInv, InWork
      <3>3. QED
        BY <1>8, <2>1, <3>2 DEF Closes
    <2>2. CASE e # f
      <3>1. pass.due = {f}
        BY <1>8 DEF Closes, Closing
      <3>2. QED
        BY <1>8, <1>g, <2>2, <3>1 DEF Closes, Compared, Closing, Awaited
    <2>3. QED
      BY <2>1, <2>2
  <1>9. QED
    BY <1>1, <1>2, <1>3, <1>4, <1>5, <1>6, <1>7, <1>8, FaultFreeStep

LEMMA ItemStep ==
    ASSUME LabelInv, OpenInv, ItemInv, [Next]_vars, faults' = 0
    PROVE  ItemInv'
  <1> DEFINE Good(i) ==
          /\ pass.at = "read" =>
                /\ forecast[i.e].status = "pending"
                /\ label[i.e][i.t].rev # i.rev => ~Compared(i.e, i.t)
          /\ pass.at # "read" =>
                \A s \in settlement[i.e][i.t] : s.rev = i.rev => s.of = i.of
  <1> SUFFICES ASSUME NEW i \in pass'.items PROVE Good(i)'
    BY DEF ItemInv
  <1>g. i \in pass.items =>
          Good(i) /\ i.e \in Exposures /\ i.t \in Target /\ IsExposed(i.e)
    BY DEF ItemInv, LabelInv, PassInv, LabelTypeOK, Item
  <1>1. CASE Passes
    BY <1>1, <1>g DEF Passes, Compared
  <1>2. ASSUME NEW f \in Exposures, Exposes(f) PROVE Good(i)'
    BY <1>2, <1>g DEF Exposes, Compared
  <1>3. ASSUME NEW f \in Exposures, Hooks(f) PROVE Good(i)'
    <2>1. CASE i.e = f /\ pass.at = "read"
      <3>1. ~Compared(f, i.t)
        BY <1>3, <1>g, <2>1 DEF Hooks, OpenInv, Closing
      <3>2. QED
        BY <1>3, <1>g, <2>1, <3>1 DEF Hooks, Compared
    <2>2. CASE i.e # f \/ pass.at # "read"
      BY <1>3, <1>g, <2>2 DEF Hooks, Compared
    <2>3. QED
      BY <2>1, <2>2
  <1>4. CASE Starts \/ Ends
    BY <1>4 DEF Starts, Ends
  <1>5. ASSUME NEW f \in Exposures, SettlesDue(f) PROVE FALSE
    BY <1>5 DEF SettlesDue
  <1>6. CASE Lists
    BY <1>6 DEF Lists, IsDue
  <1>7. CASE Reads
    <2>1. PICK j \in pass.items :
             i.e = j.e /\ i.t = j.t /\ i.rev = j.rev /\ i.of = label[j.e][j.t].rev
      BY <1>7 DEF Reads
    <2>2. j.e \in Exposures /\ j.t \in Target /\ j.rev \in Nat /\ i.of \in Nat
      BY <2>1 DEF LabelInv, LabelTypeOK, Item, Label
    <2>3. ASSUME NEW s \in settlement[j.e][j.t], s.rev = j.rev PROVE s.of = i.of
      <3>1. label[j.e][j.t].rev = j.rev
        BY <1>7, <2>2 DEF Reads, ItemInv, Compared
      <3>2. s.rev <= s.of /\ s.of <= label[j.e][j.t].rev
        BY <2>2 DEF LabelInv, RevisionInv
      <3>3. s.of \in Nat
        BY <2>2 DEF LabelInv, LabelTypeOK, Settled
      <3>4. QED
        BY <2>1, <2>2, <2>3, <3>1, <3>2, <3>3
    <2>4. QED
      BY <1>7, <2>1, <2>3 DEF Reads
  <1>8. ASSUME NEW k \in pass.items, Writes(k) PROVE Good(i)'
    <2>1. i \in pass.items /\ i # k
      BY <1>8 DEF Writes
    <2>2. i.e # k.e \/ i.t # k.t
      BY <2>1 DEF LabelInv, RevisionInv
    <2>3. settlement'[i.e][i.t] = settlement[i.e][i.t]
      BY <1>8, <1>g, <2>1, <2>2 DEF Writes
    <2>4. QED
      BY <1>8, <1>g, <2>1, <2>3 DEF Writes
  <1>9. ASSUME NEW k \in pass.items, Replays(k) PROVE Good(i)'
    BY <1>9, <1>g DEF Replays
  <1>10. ASSUME NEW f \in Exposures, Closes(f) PROVE Good(i)'
    BY <1>10, <1>g DEF Closes, Closing
  <1>11. QED
    BY <1>1, <1>2, <1>3, <1>4, <1>5, <1>6, <1>7, <1>8, <1>9, <1>10, FaultFreeStep

LEMMA ComparisonStep ==
    ASSUME LabelInv, ComparisonInv, [Next]_vars
    PROVE  ComparisonInv'
  <1> SUFFICES ASSUME faults' = 0
               PROVE  SettleInv' /\ WorkInv' /\ ClosedInv' /\ OpenInv' /\ ItemInv'
    BY DEF ComparisonInv
  <1>1. faults = 0
    <2>1. faults \in Nat
      BY Constants DEF LabelInv, LabelTypeOK
    <2>2. faults' = faults \/ faults' = faults + 1
      BY DEF Next, MaintenanceStep, vars, Tick, Crash, Acknowledge, AfterUserEvent,
             IngestReply, RunDue, SettleDue, CloseExpectation, ListExpectations,
             ReadLabels, WriteRevision, JoinsRollback, ReplayRevision, PassRaises,
             BuildDataset, ActivateParameters, EndPass
    <2>3. QED
      BY <2>1, <2>2
  <1>2. SettleInv /\ WorkInv /\ ClosedInv /\ OpenInv /\ ItemInv
    BY <1>1 DEF ComparisonInv
  <1>3. QED
    BY <1>2, SettleStep, WorkStep, ClosedStep, OpenStep, ItemStep

LEMMA ComparisonInitial == Init => ComparisonInv
  BY DEF Init, ComparisonInv, SettleInv, WorkInv, ClosedInv, OpenInv, ItemInv, InWork,
         Closing, Listed, IdlePass

LEMMA ComparisonInvariant == Spec => []ComparisonInv
  <1>1. Init => ComparisonInv
    BY ComparisonInitial
  <1>2. LabelInv /\ ComparisonInv /\ [Next]_vars => ComparisonInv'
    BY ComparisonStep
  <1>3. QED
    BY <1>1, <1>2, LabelInvariant, PTL DEF Spec

(* An expectation that is closed was compared on all four targets: the     *)
(* reply's hook may reopen labels between any two steps of the pass, and   *)
(* no comparison is skipped or refused for it.                             *)
THEOREM ClosedInFull == Spec => []SettledInFull
  <1>1. ASSUME LabelInv, ComparisonInv PROVE SettledInFull
    <2> SUFFICES ASSUME NEW e \in Exposures, forecast[e].status = "settled",
                        pass.at = "idle", faults = 0, NEW t \in Target
                 PROVE  settlement[e][t] # {}
      BY DEF SettledInFull
    <2>1. pass.items = {}
      BY <1>1 DEF LabelInv, PassInv
    <2>2. Compared(e, t)
      BY <1>1, <2>1 DEF ComparisonInv, ClosedInv, Listed
    <2>3. QED
      BY <2>2 DEF Compared
  <1>2. QED
    BY <1>1, LabelInvariant, ComparisonInvariant, PTL
=============================================================================
