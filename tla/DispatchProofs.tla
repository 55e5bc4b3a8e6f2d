---------------------------- MODULE DispatchProofs ----------------------------
(* What is proved of Dispatch for every number of rounds, of switches and   *)
(* of operators: the types, that a frozen scope is quiet, that a round has  *)
(* one outcome, and that a rollout hands back to the new process only.      *)
EXTENDS Dispatch, TLAPS

(* A round in progress is one of the rounds, read a pointer that was       *)
(* published, and left nothing before it commits or is refused.            *)
RunInv ==
    /\ run.at # "idle" => run.id \in Rounds /\ run.seen \in Versions
    /\ run.seen <= active.version
    /\ run.at \in {"routed", "refused"} =>
          claim[run.id] = NoClaim /\ nosend[run.id] = "none"

(* What a round leaves behind.  Rounds to come have left nothing.          *)
ClaimInv ==
    \A r \in Rounds :
        /\ commit[r] # "none" <=> claim[r].engine = "langchao"
        /\ r > rounds => claim[r] = NoClaim /\ nosend[r] = "none"
        /\ claim[r].version <= active.version

(* What makes a stale round harmless: the rollout kills it between the     *)
(* freeze, which it cannot commit under, and the hand-over.                *)
RolloutInv ==
    /\ rollout.seen <= active.version
    /\ rollout.handed <= active.version
    /\ rollout.handed # 0 => rollout.at = "done"
    /\ rollout.at \in {"restarted", "verified", "done"} /\ run.at # "idle" =>
          run.seen >= rollout.seen

RefusalInv ==
    /\ DispatchedOrRefused
    /\ run.at = "recover" /\ claim[run.id] # NoClaim => claim[run.id].engine = "langchao"

DInv ==
    /\ DispatchTypeOK
    /\ RunInv
    /\ ClaimInv

-----------------------------------------------------------------------------
(* Facts about the operators of the model.                                 *)

LEMMA Bounds == MaxRounds \in Nat /\ MaxSwitches \in Nat /\ MaxSwitches > 0
  BY RoundsAssumption, SwitchesAssumption DEF RoundsAssumption, SwitchesAssumption

(* Whoever may publish found nothing that could still go out.              *)
LEMMA NothingDurable == DurableInFlight = {} => Drained
<1> SUFFICES ASSUME DurableInFlight = {} PROVE Drained
  OBVIOUS
<1>1. OpenRows = {}
  <2> SUFFICES ASSUME NEW r \in OpenRows PROVE FALSE
    OBVIOUS
  <2>1. <<"outbox", r>> \in DurableInFlight
    BY DEF DurableInFlight
  <2> QED
    BY <2>1
<1>2. OpenAttempts = {}
  <2> SUFFICES ASSUME NEW r \in OpenAttempts PROVE FALSE
    OBVIOUS
  <2>1. <<"attempt", r>> \in DurableInFlight
    BY DEF DurableInFlight
  <2> QED
    BY <2>1
<1> QED
  BY <1>1, <1>2 DEF Drained

(* The engine of a round that may send is one that claims are issued to.   *)
LEMMA SendersMayDispatch ==
    ASSUME NEW a, MaySend(a)
    PROVE /\ MayDispatch(a)
          /\ a \in {V2Live, Live}
          /\ a.engine \in {"runtime_v2", "langchao"}
          /\ a = Live <=> a.engine = "langchao"
  BY DEF MaySend, MayDispatch, V2Live, Live

(* An authority is published from a drained scope, under the next version. *)
LEMMA PublishFacts ==
    ASSUME DispatchTypeOK, CanSwitch, NEW a \in Authorities, NEW s, Publish(a, s)
    PROVE /\ active' \in [auth : Authorities, version : Versions]
          /\ active'.version = active.version + 1
          /\ active.version \in Nat
          /\ active.version = s
          /\ Drained
<1>1. active.version \in Versions
  BY DEF DispatchTypeOK
<1>2. active.version + 1 \in Versions
  BY <1>1, Bounds DEF Versions, CanSwitch
<1> QED
  BY <1>1, <1>2, NothingDurable DEF Publish, Versions

LEMMA ChoicesPublishable == Choices \subseteq Authorities /\ Live \in Authorities /\ Disabled \in Authorities
  BY DEF Choices, Authorities

(* The transaction of a commit, as far as every invariant needs it.        *)
LEMMA DispatchFacts ==
    ASSUME DInv, run.at = "routed", MaySend(run.auth), Claimable, Dispatched(run.id),
           NEW c, c = [engine |-> active.auth.engine, version |-> active.version,
                       routed |-> run.seen]
    PROVE /\ run.id \in Rounds
          /\ claim' = [claim EXCEPT ![run.id] = c]
          /\ c \in [engine : {"runtime_v2", "langchao"}, version : Versions, routed : Versions]
          /\ c # NoClaim
          /\ c.engine = "langchao" <=> active.auth = Live
          /\ commit' = IF active.auth = Live THEN [commit EXCEPT ![run.id] = "open"] ELSE commit
          /\ attempt' = [attempt EXCEPT ![run.id] = "open"]
          /\ row' = [row EXCEPT ![run.id] = "open"]
<1>1. run.id \in Rounds /\ run.seen \in Versions
  BY DEF DInv, RunInv
<1>2. active.version \in Versions
  BY DEF DInv, DispatchTypeOK
<1>3. /\ active.auth.engine \in {"runtime_v2", "langchao"}
      /\ active.auth = Live <=> active.auth.engine = "langchao"
  BY SendersMayDispatch DEF Claimable
<1>4. c # NoClaim
  <2>1. c.version # 0
    BY <1>2, Bounds DEF Versions
  <2> QED
    BY <2>1 DEF NoClaim
<1> QED
  BY <1>1, <1>2, <1>3, <1>4 DEF Dispatched

-----------------------------------------------------------------------------
(* Types, and what a round leaves behind.                                  *)

LEMMA InitD == Init => DInv
<1> SUFFICES ASSUME Init PROVE DInv
  OBVIOUS
<1> USE Bounds DEF Init
<1>1. 1 \in Versions
  BY DEF Versions
<1>2. DispatchTypeOK
  BY <1>1, ChoicesPublishable DEF DispatchTypeOK, NoRun, NoOp, Authorities, Choices
<1>3. RunInv
  BY DEF RunInv, NoRun
<1>4. ClaimInv
  BY DEF ClaimInv, NoClaim
<1> QED
  BY <1>2, <1>3, <1>4 DEF DInv

(* A commit keeps DInv whether or not its answer is lost.                  *)
LEMMA CommitKeepsD ==
    ASSUME DInv, CommitRound \/ CommitUnanswered PROVE DInv'
<1> DEFINE c == [engine |-> active.auth.engine, version |-> active.version,
                 routed |-> run.seen]
<1>1. /\ run.at = "routed" /\ MaySend(run.auth) /\ Claimable /\ Dispatched(run.id)
      /\ UNCHANGED <<active, rounds, nosend, op, rollout>>
      /\ run' = NoRun \/ run' = [run EXCEPT !.at = "recover"]
  BY DEF CommitRound, CommitUnanswered
<1>2. /\ run.id \in Rounds
      /\ claim' = [claim EXCEPT ![run.id] = c]
      /\ c \in [engine : {"runtime_v2", "langchao"}, version : Versions, routed : Versions]
      /\ c # NoClaim
      /\ c.engine = "langchao" <=> active.auth = Live
      /\ commit' = IF active.auth = Live THEN [commit EXCEPT ![run.id] = "open"] ELSE commit
      /\ attempt' = [attempt EXCEPT ![run.id] = "open"]
      /\ row' = [row EXCEPT ![run.id] = "open"]
  BY <1>1, DispatchFacts
<1> HIDE DEF c
<1>3. run' \in [id : 0 .. MaxRounds, at : {"idle", "routed", "recover", "refused"},
                auth : Authorities, seen : {0} \cup Versions] /\ run'.id <= rounds'
  <2>1. CASE run' = NoRun
    BY <1>1, <2>1, Bounds DEF DInv, DispatchTypeOK, NoRun, Authorities
  <2>2. CASE run' = [run EXCEPT !.at = "recover"]
    BY <1>1, <2>2 DEF DInv, DispatchTypeOK
  <2> QED
    BY <1>1, <2>1, <2>2
<1>4. DispatchTypeOK'
  BY <1>1, <1>2, <1>3 DEF DInv, DispatchTypeOK
<1>5. c.version = active.version
  BY DEF c
<1>6. RunInv'
  BY <1>1, <1>2, Bounds DEF DInv, DispatchTypeOK, RunInv, NoRun, Versions
<1>7. ClaimInv'
  <2> SUFFICES ASSUME NEW r \in Rounds
               PROVE /\ commit'[r] # "none" <=> claim'[r].engine = "langchao"
                     /\ r > rounds => claim'[r] = NoClaim /\ nosend[r] = "none"
                     /\ claim'[r].version <= active.version
    BY <1>1 DEF ClaimInv
  <2>1. CASE r = run.id
    <3>1. claim'[r] = c /\ ~(r > rounds)
      BY <1>2, <2>1, Bounds DEF DInv, DispatchTypeOK, Rounds
    <3>2. commit[r] = "none"
      BY <1>1, <2>1 DEF DInv, RunInv, ClaimInv, NoClaim
    <3>3. commit'[r] # "none" <=> active.auth = Live
      BY <1>2, <2>1, <3>2 DEF DInv, DispatchTypeOK
    <3>4. active.version <= active.version
      BY DEF DInv, DispatchTypeOK, Versions
    <3> QED
      BY <1>2, <1>5, <3>1, <3>3, <3>4
  <2>2. CASE r # run.id
    <3>1. claim'[r] = claim[r] /\ commit'[r] = commit[r]
      BY <1>2, <2>2 DEF DInv, DispatchTypeOK
    <3> QED
      BY <3>1 DEF DInv, ClaimInv
  <2> QED
    BY <2>1, <2>2
<1> QED
  BY <1>4, <1>6, <1>7 DEF DInv

(* A switch keeps DInv, and moves nothing but the pointer and its author.  *)
LEMMA SwitchKeepsD ==
    ASSUME DInv, CanSwitch, NEW a \in Authorities, NEW s, Publish(a, s),
           op' \in [Operators -> [want : Choices, seen : {0} \cup Versions]],
           rollout' \in [at : {"idle", "drained", "read", "switched", "frozen", "restarted",
                               "verified", "done", "stopped"},
                         seen : {0} \cup Versions, handed : {0} \cup Versions],
           UNCHANGED <<rounds, run, claim, commit, attempt, row, nosend>>
    PROVE DInv'
<1>1. /\ active' \in [auth : Authorities, version : Versions]
      /\ active'.version = active.version + 1
      /\ active.version \in Nat
  BY PublishFacts DEF DInv
<1>2. DispatchTypeOK'
  BY <1>1 DEF DInv, DispatchTypeOK
<1>3. RunInv'
  BY <1>1, Bounds DEF DInv, DispatchTypeOK, RunInv, Versions
<1>4. ClaimInv'
  <2> SUFFICES ASSUME NEW r \in Rounds PROVE claim[r].version <= active'.version
    BY DEF DInv, ClaimInv
  <2>1. claim[r].version \in Nat /\ claim[r].version <= active.version
    BY Bounds DEF DInv, DispatchTypeOK, ClaimInv, NoClaim, Versions
  <2> QED
    BY <1>1, <2>1
<1> QED
  BY <1>2, <1>3, <1>4 DEF DInv

LEMMA NextD == DInv /\ [Next]_vars => DInv'
<1> SUFFICES ASSUME DInv, [Next]_vars PROVE DInv'
  OBVIOUS
<1> USE Bounds
<1>1. CASE UNCHANGED vars
  BY <1>1 DEF vars, DInv, DispatchTypeOK, RunInv, ClaimInv
<1>2. CASE Route
  <2>1. run'.id \in Rounds /\ run'.seen \in Versions /\ rounds' \in 0 .. MaxRounds
    BY <1>2 DEF Route, DInv, DispatchTypeOK, Rounds
  <2>2. DispatchTypeOK'
    BY <1>2, <2>1 DEF Route, DInv, DispatchTypeOK
  <2>3. claim[run'.id] = NoClaim /\ nosend[run'.id] = "none"
    BY <1>2, <2>1 DEF Route, DInv, DispatchTypeOK, ClaimInv
  <2>4. RunInv'
    BY <1>2, <2>1, <2>3 DEF Route, DInv, DispatchTypeOK, RunInv, Versions
  <2>5. ClaimInv'
    <3>1. rounds \in Nat /\ rounds' = rounds + 1
      BY <1>2 DEF Route, DInv, DispatchTypeOK
    <3>2. \A r \in Rounds : r > rounds' => r > rounds
      BY <3>1 DEF Rounds
    <3> QED
      BY <1>2, <3>2 DEF Route, DInv, ClaimInv
  <2> QED
    BY <2>2, <2>4, <2>5 DEF DInv
<1> USE DEF DInv
<1>3. CASE RouterRefuses
  BY <1>3 DEF RouterRefuses, DispatchTypeOK, RunInv, ClaimInv, NoRun, Authorities, Versions
<1>4. CASE CommitRound \/ CommitUnanswered
  BY <1>4, CommitKeepsD
<1>5. CASE LiveRunFails
  BY <1>5 DEF LiveRunFails, DispatchTypeOK, RunInv, ClaimInv
<1>6. CASE Recover
  BY <1>6 DEF Recover, DispatchTypeOK, RunInv, ClaimInv, NoRun, Authorities, Versions
<1>7. CASE Refuse
  BY <1>7 DEF Refuse, DispatchTypeOK, RunInv, ClaimInv
<1>8. CASE RecordRefusal \/ Defer
  BY <1>8 DEF RecordRefusal, Defer, DispatchTypeOK, RunInv, ClaimInv, NoRun, Authorities, Versions
<1>9. CASE RoundEnds
  BY <1>9 DEF RoundEnds, DispatchTypeOK, RunInv, ClaimInv, NoRun, Authorities, Versions
<1>10. CASE RolloutBegins \/ RolloutVerifies \/ RolloutStops
  BY <1>10 DEF RolloutBegins, RolloutVerifies, RolloutStops, Advance, DispatchTypeOK,
               RunInv, ClaimInv
<1>11. CASE RolloutReads \/ RolloutReadsBack
  <2>1. rollout' = [rollout EXCEPT !.at = "read", !.seen = active.version]
           \/ rollout' = [rollout EXCEPT !.at = "frozen", !.seen = active.version]
    BY <1>11 DEF RolloutReads, RolloutReadsBack
  <2>2. UNCHANGED <<active, rounds, run, claim, commit, attempt, row, nosend, op>>
    BY <1>11 DEF RolloutReads, RolloutReadsBack
  <2>3. DispatchTypeOK'
    BY <2>1, <2>2 DEF DispatchTypeOK
  <2> QED
    BY <2>2, <2>3 DEF RunInv, ClaimInv
<1>12. CASE RolloutFreezes
  <2>1. rollout'.at = "switched" /\ rollout' = [rollout EXCEPT !.at = "switched"]
    BY <1>12 DEF RolloutFreezes, Advance, DispatchTypeOK
  <2> QED
    BY <1>12, <2>1, ChoicesPublishable, SwitchKeepsD
       DEF RolloutFreezes, Advance, DispatchTypeOK
<1>13. CASE RolloutRestarts
  BY <1>13 DEF RolloutRestarts, Advance, DispatchTypeOK, RunInv, ClaimInv, NoRun,
               Authorities, Versions
<1>14. ASSUME NEW a \in Choices, RolloutHandsBack(a) PROVE DInv'
  <2>1. a \in Authorities
    BY ChoicesPublishable
  <2>2. active.version + 1 \in Versions
    BY <1>14 DEF RolloutHandsBack, CanSwitch, DispatchTypeOK, Versions
  <2>3. rollout' = [rollout EXCEPT !.at = "done", !.handed = active.version + 1]
    BY <1>14 DEF RolloutHandsBack
  <2>4. rollout' \in [at : {"idle", "drained", "read", "switched", "frozen", "restarted",
                            "verified", "done", "stopped"},
                      seen : {0} \cup Versions, handed : {0} \cup Versions]
    BY <2>2, <2>3 DEF DispatchTypeOK
  <2>5. op' \in [Operators -> [want : Choices, seen : {0} \cup Versions]]
    BY <1>14 DEF RolloutHandsBack, DispatchTypeOK
  <2> QED
    BY <1>14, <2>1, <2>4, <2>5, SwitchKeepsD DEF RolloutHandsBack
<1>15. ASSUME NEW o \in Operators, OperatorSwitches(o) PROVE DInv'
  <2>1. /\ op' \in [Operators -> [want : Choices, seen : {0} \cup Versions]]
        /\ op[o].want \in Authorities
    BY <1>15, ChoicesPublishable DEF OperatorSwitches, DispatchTypeOK, NoOp, Choices
  <2>2. CASE CanSwitch /\ Publish(op[o].want, op[o].seen)
    BY <1>15, <2>1, <2>2, SwitchKeepsD DEF OperatorSwitches, DispatchTypeOK
  <2>3. CASE UNCHANGED active
    BY <1>15, <2>1, <2>3 DEF OperatorSwitches, DispatchTypeOK, RunInv, ClaimInv
  <2> QED
    BY <1>15, <2>2, <2>3 DEF OperatorSwitches
<1>16. ASSUME NEW o \in Operators, OperatorLeaves(o) PROVE DInv'
  BY <1>16 DEF OperatorLeaves, DispatchTypeOK, RunInv, ClaimInv, NoOp, Choices
<1>17. ASSUME NEW o \in Operators, NEW a \in Choices, OperatorReads(o, a) PROVE DInv'
  BY <1>17 DEF OperatorReads, DispatchTypeOK, RunInv, ClaimInv
<1>18. ASSUME NEW r \in Rounds, Sent(r) PROVE DInv'
  BY <1>18 DEF Sent, DispatchTypeOK, RunInv, ClaimInv
<1>19. ASSUME NEW r \in Rounds, SendFails(r) PROVE DInv'
  <2>1. DispatchTypeOK'
    BY <1>19 DEF SendFails, DispatchTypeOK
  <2>2. nosend' # nosend => commit[r] = "open" /\ claim[r].engine = "langchao"
    BY <1>19 DEF SendFails, ClaimInv
  <2>3. RunInv'
    BY <1>19, <2>2 DEF SendFails, DispatchTypeOK, RunInv, NoClaim
  <2>4. ClaimInv'
    BY <1>19, <2>2 DEF SendFails, DispatchTypeOK, ClaimInv, NoClaim
  <2> QED
    BY <2>1, <2>3, <2>4
<1>20. ASSUME NEW r \in Rounds, RowLapses(r) PROVE DInv'
  BY <1>20 DEF RowLapses, DispatchTypeOK, RunInv, ClaimInv
<1>21. ASSUME NEW r \in Rounds, AttemptCloses(r) PROVE DInv'
  BY <1>21 DEF AttemptCloses, DispatchTypeOK, RunInv, ClaimInv
<1>22. ASSUME NEW r \in Rounds, Withdrawn(r) PROVE DInv'
  BY <1>22 DEF Withdrawn, DispatchTypeOK, RunInv, ClaimInv
<1> QED
  BY <1>1, <1>2, <1>3, <1>4, <1>5, <1>6, <1>7, <1>8, <1>9, <1>10, <1>11, <1>12, <1>13,
     <1>14, <1>15, <1>16, <1>17, <1>18, <1>19, <1>20, <1>21, <1>22
     DEF Next, RoundStep, RolloutStep, Delivers

(* Every state has the types of DispatchTypeOK.                            *)
THEOREM TypeCorrect == Spec => []DispatchTypeOK
<1>1. DInv => DispatchTypeOK
  BY DEF DInv
<1> QED
  BY InitD, NextD, <1>1, PTL DEF Spec

-----------------------------------------------------------------------------
(* A frozen scope is quiet.                                                *)

LEMMA NextQuiet ==
    ASSUME DInv, QuietWhenFrozen, [Next]_vars PROVE QuietWhenFrozen'
<1> USE DEF QuietWhenFrozen, Drained, OpenRows, OpenAttempts
<1> DEFINE OnlyCloses == /\ active' = active
                         /\ \A r \in Rounds : /\ row'[r] = "open" => row[r] = "open"
                                              /\ attempt'[r] = "open" => attempt[r] = "open"
<1>0. OnlyCloses => QuietWhenFrozen'
  BY DEF MayDispatch
<1>1. CASE UNCHANGED vars
  BY <1>0, <1>1 DEF vars
<1>2. CASE CommitRound \/ CommitUnanswered
  <2>1. active' = active /\ MayDispatch(active.auth)
    BY <1>2, SendersMayDispatch DEF CommitRound, CommitUnanswered, Claimable
  <2> QED
    BY <2>1
<1>3. CASE Route \/ RouterRefuses \/ LiveRunFails \/ Recover \/ Refuse \/ RecordRefusal
             \/ Defer \/ RoundEnds
  BY <1>0, <1>3 DEF Route, RouterRefuses, LiveRunFails, Recover, Refuse, RecordRefusal, Defer,
     RoundEnds
<1>4. CASE RolloutBegins \/ RolloutReads \/ RolloutReadsBack \/ RolloutRestarts
             \/ RolloutVerifies \/ RolloutStops
  BY <1>0, <1>4 DEF RolloutBegins, RolloutReads, RolloutReadsBack, RolloutRestarts,
                    RolloutVerifies, RolloutStops, Advance
<1>5. CASE RolloutFreezes
  <2>1. Drained
    BY <1>5, NothingDurable DEF RolloutFreezes, Publish
  <2> QED
    BY <1>5, <2>1 DEF RolloutFreezes, Advance
<1>6. ASSUME NEW a \in Choices, RolloutHandsBack(a) PROVE QuietWhenFrozen'
  <2>1. Drained
    BY <1>6, NothingDurable DEF RolloutHandsBack, Publish
  <2> QED
    BY <1>6, <2>1 DEF RolloutHandsBack
<1>7. ASSUME NEW o \in Operators, OperatorSwitches(o) PROVE QuietWhenFrozen'
  <2>1. Drained \/ UNCHANGED active
    BY <1>7, NothingDurable DEF OperatorSwitches, Publish
  <2> QED
    BY <1>7, <2>1 DEF OperatorSwitches
<1>8. ASSUME NEW o \in Operators, OperatorLeaves(o) PROVE QuietWhenFrozen'
  BY <1>0, <1>8 DEF OperatorLeaves
<1>9. ASSUME NEW o \in Operators, NEW a \in Choices, OperatorReads(o, a) PROVE QuietWhenFrozen'
  BY <1>0, <1>9 DEF OperatorReads
<1>10. ASSUME NEW r \in Rounds, Delivers(r) PROVE QuietWhenFrozen'
  BY <1>0, <1>10 DEF Delivers, Sent, SendFails, RowLapses, AttemptCloses, Withdrawn,
                     DInv, DispatchTypeOK
<1> QED
  BY <1>1, <1>2, <1>3, <1>4, <1>5, <1>6, <1>7, <1>8, <1>9, <1>10
     DEF Next, RoundStep, RolloutStep

(* Freezing works: under an authority that may not dispatch, no row and no *)
(* attempt is left that could still go out, because a switch counts them   *)
(* under the lock of the scope that every commit takes as well.            *)
THEOREM FrozenIsQuiet == Spec => []QuietWhenFrozen
<1>1. Init => QuietWhenFrozen
  BY DEF Init, QuietWhenFrozen, MayDispatch, V2Live
<1> QED
  BY InitD, NextD, <1>1, NextQuiet, PTL DEF Spec

-----------------------------------------------------------------------------
(* One outcome of a round.                                                 *)

LEMMA NextRefusal ==
    ASSUME DInv, RefusalInv, [Next]_vars PROVE RefusalInv'
<1> USE Bounds DEF DInv, RefusalInv, DispatchedOrRefused
<1>1. CASE UNCHANGED vars
  BY <1>1 DEF vars
<1>2. CASE CommitRound \/ CommitUnanswered
  <2> DEFINE c == [engine |-> active.auth.engine, version |-> active.version,
                   routed |-> run.seen]
  <2>1. run.at = "routed" /\ MaySend(run.auth) /\ Claimable /\ Dispatched(run.id)
    BY <1>2 DEF CommitRound, CommitUnanswered
  <2>2. /\ run.id \in Rounds
        /\ claim' = [claim EXCEPT ![run.id] = c]
        /\ c \in [engine : {"runtime_v2", "langchao"}, version : Versions, routed : Versions]
        /\ c.engine = "langchao" <=> active.auth = Live
    BY <2>1, DispatchFacts
  <2>3. nosend' = nosend /\ nosend[run.id] = "none"
    BY <1>2, <2>1 DEF CommitRound, CommitUnanswered, RunInv
  <2>4. run'.at = "recover" => run'.id = run.id /\ active.auth = Live
    BY <1>2 DEF CommitRound, CommitUnanswered, NoRun, Claimable, DispatchTypeOK
  <2> HIDE DEF c
  <2>5. DispatchedOrRefused'
    BY <2>2, <2>3 DEF DispatchTypeOK
  <2>6. claim'[run.id] = c
    BY <2>2 DEF DispatchTypeOK
  <2> QED
    BY <2>2, <2>4, <2>5, <2>6
<1>3. CASE Route
  <2>1. run'.at = "routed" /\ UNCHANGED <<claim, nosend>>
    BY <1>3 DEF Route
  <2> QED
    BY <2>1
<1>4. CASE RouterRefuses \/ RecordRefusal \/ Defer
  <2>1. run.id \in Rounds /\ claim[run.id] = NoClaim /\ claim' = claim /\ run' = NoRun
    BY <1>4 DEF RouterRefuses, RecordRefusal, Defer, RunInv
  <2>2. \A r \in Rounds : r # run.id => nosend'[r] = nosend[r]
    BY <1>4 DEF RouterRefuses, RecordRefusal, Defer, DispatchTypeOK
  <2>3. nosend'[run.id] # "delivery"
    BY <1>4, <2>1 DEF RouterRefuses, RecordRefusal, Defer, DispatchTypeOK, RunInv
  <2> QED
    BY <2>1, <2>2, <2>3 DEF NoRun
<1>5. CASE LiveRunFails
  <2>1. claim[run.id] = NoClaim /\ run'.id = run.id /\ UNCHANGED <<claim, nosend>>
    BY <1>5 DEF LiveRunFails, RunInv, DispatchTypeOK
  <2> QED
    BY <2>1
<1>6. CASE Recover
  <2>1. run.id \in Rounds /\ claim' = claim /\ run' = NoRun
    BY <1>6 DEF Recover, RunInv
  <2>2. CASE commit[run.id] = "none"
    <3>1. claim[run.id] = NoClaim
      BY <1>6, <2>1, <2>2 DEF Recover, ClaimInv
    <3> QED
      BY <1>6, <2>1, <2>2, <3>1 DEF Recover, NoRun, DispatchTypeOK
  <2>3. CASE commit[run.id] # "none"
    BY <1>6, <2>1, <2>3 DEF Recover, NoRun
  <2> QED
    BY <2>2, <2>3
<1>7. CASE Refuse \/ RoundEnds
  <2>1. run'.at # "recover" /\ UNCHANGED <<claim, nosend>>
    BY <1>7 DEF Refuse, RoundEnds, NoRun, DispatchTypeOK
  <2> QED
    BY <2>1
<1>8. CASE RolloutRestarts
  BY <1>8 DEF RolloutRestarts, Advance, NoRun
<1>9. CASE RolloutBegins \/ RolloutReads \/ RolloutFreezes \/ RolloutReadsBack
             \/ RolloutVerifies \/ RolloutStops
  <2>1. UNCHANGED <<run, claim, nosend>>
    BY <1>9 DEF RolloutBegins, RolloutReads, RolloutFreezes, RolloutReadsBack,
                RolloutVerifies, RolloutStops, Advance
  <2> QED
    BY <2>1
<1>10. ASSUME NEW a \in Choices, RolloutHandsBack(a) PROVE RefusalInv'
  BY <1>10 DEF RolloutHandsBack
<1>11. ASSUME NEW o \in Operators, OperatorSwitches(o) \/ OperatorLeaves(o) PROVE RefusalInv'
  BY <1>11 DEF OperatorSwitches, OperatorLeaves
<1>12. ASSUME NEW o \in Operators, NEW a \in Choices, OperatorReads(o, a) PROVE RefusalInv'
  BY <1>12 DEF OperatorReads
<1>13. ASSUME NEW r \in Rounds, Delivers(r) PROVE RefusalInv'
  <2>1. UNCHANGED <<run, claim>>
    BY <1>13 DEF Delivers, Sent, SendFails, RowLapses, AttemptCloses, Withdrawn
  <2>2. CASE UNCHANGED nosend
    BY <2>1, <2>2
  <2>3. CASE commit[r] = "open" /\ nosend' = [nosend EXCEPT ![r] = "delivery"]
    <3>1. claim[r].engine = "langchao"
      BY <2>3 DEF ClaimInv
    <3> QED
      BY <2>1, <2>3, <3>1 DEF DispatchTypeOK
  <2> QED
    BY <1>13, <2>2, <2>3 DEF Delivers, Sent, SendFails, RowLapses, AttemptCloses, Withdrawn
<1> QED
  BY <1>1, <1>2, <1>3, <1>4, <1>5, <1>6, <1>7, <1>8, <1>9, <1>10, <1>11, <1>12, <1>13
     DEF Next, RoundStep, RolloutStep

(* A round is booked as dispatched or as refused, never as both, although  *)
(* the refusal is written after the transaction that would have committed, *)
(* and although the answer of a commit may be lost.                        *)
THEOREM OneOutcome == Spec => []DispatchedOrRefused
<1>1. Init => RefusalInv
  BY Bounds DEF Init, RefusalInv, DispatchedOrRefused, NoRun
<1>2. RefusalInv => DispatchedOrRefused
  BY DEF RefusalInv
<1> QED
  BY InitD, NextD, <1>1, <1>2, NextRefusal, PTL DEF Spec

-----------------------------------------------------------------------------
(* The rollout.                                                            *)

(* Rounds and deliveries leave the pointer alone, and a new round reads    *)
(* the pointer as it is, so nothing can make a round older than the freeze.*)
LEMMA NextRollout ==
    ASSUME DInv, RolloutInv, [Next]_vars PROVE RolloutInv'
<1> USE Bounds DEF DInv, RolloutInv
<1> DEFINE NoOlder == /\ rollout' = rollout
                      /\ active' = active
                      /\ run'.at # "idle" => \/ run.at # "idle" /\ run'.seen = run.seen
                                             \/ run'.seen = active.version
<1>0. NoOlder => RolloutInv'
  <2>1. active.version \in Nat /\ rollout.seen \in Nat
    BY DEF DispatchTypeOK, Versions
  <2> QED
    BY <2>1
<1>1. CASE UNCHANGED vars
  BY <1>0, <1>1 DEF vars
<1>2. CASE Route
  BY <1>0, <1>2 DEF Route
<1>3. CASE RouterRefuses \/ CommitRound \/ Recover \/ RecordRefusal \/ Defer \/ RoundEnds
  BY <1>0, <1>3 DEF RouterRefuses, CommitRound, Recover, RecordRefusal, Defer,
     RoundEnds, NoRun
<1>4. CASE CommitUnanswered \/ LiveRunFails \/ Refuse
  BY <1>0, <1>4 DEF CommitUnanswered, LiveRunFails, Refuse, DispatchTypeOK
<1>5. CASE RolloutBegins \/ RolloutVerifies \/ RolloutStops
  <2>1. /\ rollout'.seen = rollout.seen /\ rollout'.handed = rollout.handed
        /\ UNCHANGED <<active, run>>
        /\ rollout.at # "done"
        /\ rollout'.at \in {"restarted", "verified", "done"} => rollout.at = "restarted"
    BY <1>5 DEF RolloutBegins, RolloutVerifies, RolloutStops, Advance, DispatchTypeOK
  <2> QED
    BY <2>1
<1>6. CASE RolloutReads \/ RolloutReadsBack
  <2>1. /\ rollout'.seen = active.version /\ rollout'.handed = rollout.handed
        /\ UNCHANGED <<active, run>>
        /\ rollout.at # "done" /\ rollout'.at \in {"read", "frozen"}
    BY <1>6 DEF RolloutReads, RolloutReadsBack, DispatchTypeOK
  <2>2. active.version <= active.version
    BY DEF DispatchTypeOK, Versions
  <2> QED
    BY <2>1, <2>2
<1>7. CASE RolloutFreezes
  <2>1. /\ active'.version = active.version + 1 /\ active.version \in Nat
        /\ rollout'.seen = rollout.seen /\ rollout'.handed = rollout.handed
        /\ rollout.at # "done" /\ rollout'.at = "switched"
    BY <1>7, ChoicesPublishable, PublishFacts DEF RolloutFreezes, Advance, DispatchTypeOK
  <2>2. rollout.seen \in Nat /\ rollout.handed \in Nat
    BY DEF DispatchTypeOK, Versions
  <2> QED
    BY <2>1, <2>2
<1>8. CASE RolloutRestarts
  BY <1>8 DEF RolloutRestarts, Advance, DispatchTypeOK, NoRun
<1>9. ASSUME NEW a \in Choices, RolloutHandsBack(a) PROVE RolloutInv'
  <2>1. /\ active'.version = active.version + 1 /\ active.version \in Nat
        /\ rollout.seen \in Nat
    BY <1>9, ChoicesPublishable, PublishFacts DEF RolloutHandsBack, DispatchTypeOK, Versions
  <2>2. /\ rollout'.seen = rollout.seen /\ rollout'.handed = active.version + 1
        /\ rollout.at = "verified" /\ rollout'.at = "done" /\ run' = run
    BY <1>9 DEF RolloutHandsBack, DispatchTypeOK
  <2> QED
    BY <2>1, <2>2
<1>10. ASSUME NEW o \in Operators, OperatorSwitches(o) PROVE RolloutInv'
  <2>1. CASE CanSwitch /\ Publish(op[o].want, op[o].seen)
    <3>1. active'.version = active.version + 1 /\ active.version \in Nat
      BY <2>1 DEF Publish, DispatchTypeOK, Versions
    <3>2. rollout.seen \in Nat /\ rollout.handed \in Nat
      BY DEF DispatchTypeOK, Versions
    <3> QED
      BY <1>10, <3>1, <3>2 DEF OperatorSwitches
  <2>2. CASE UNCHANGED active
    BY <1>0, <1>10, <2>2 DEF OperatorSwitches
  <2> QED
    BY <1>10, <2>1, <2>2 DEF OperatorSwitches
<1>11. ASSUME NEW o \in Operators, OperatorLeaves(o) PROVE RolloutInv'
  BY <1>0, <1>11 DEF OperatorLeaves
<1>12. ASSUME NEW o \in Operators, NEW a \in Choices, OperatorReads(o, a) PROVE RolloutInv'
  BY <1>0, <1>12 DEF OperatorReads
<1>13. ASSUME NEW r \in Rounds, Delivers(r) PROVE RolloutInv'
  BY <1>0, <1>13 DEF Delivers, Sent, SendFails, RowLapses, AttemptCloses, Withdrawn
<1> QED
  BY <1>1, <1>2, <1>3, <1>4, <1>5, <1>6, <1>7, <1>8, <1>9, <1>10, <1>11, <1>12, <1>13
     DEF Next, RoundStep, RolloutStep

(* No claim is issued yet under an authority that is about to be published.*)
LEMMA HandOverIsNew ==
    ASSUME DInv, NEW a \in Choices, RolloutHandsBack(a), NEW r \in Rounds
    PROVE claim'[r].version # rollout'.handed
<1>1. claim[r].version <= active.version /\ claim[r].version \in Nat /\ active.version \in Nat
  BY Bounds DEF DInv, ClaimInv, DispatchTypeOK, NoClaim, Versions
<1>2. rollout'.handed = active.version + 1 /\ claim' = claim
  BY DEF RolloutHandsBack, DInv, DispatchTypeOK
<1> QED
  BY <1>1, <1>2

LEMMA NextNewCode ==
    ASSUME DInv, RolloutInv, NewCodeOnly, [Next]_vars PROVE NewCodeOnly'
<1> USE DEF NewCodeOnly
<1>1. CASE UNCHANGED vars
  BY <1>1 DEF vars
<1>2. CASE CommitRound \/ CommitUnanswered
  <2> DEFINE c == [engine |-> active.auth.engine, version |-> active.version,
                   routed |-> run.seen]
  <2>1. run.at = "routed" /\ MaySend(run.auth) /\ Claimable /\ Dispatched(run.id)
    BY <1>2 DEF CommitRound, CommitUnanswered
  <2>2. run.id \in Rounds /\ claim' = [claim EXCEPT ![run.id] = c] /\ rollout' = rollout
    BY <1>2, <2>1, DispatchFacts DEF CommitRound, CommitUnanswered
  <2>3. rollout.handed # 0 => c.routed >= rollout.seen
    BY <2>1 DEF RolloutInv
  <2> HIDE DEF c
  <2>4. \A r \in Rounds : claim'[r] = IF r = run.id THEN c ELSE claim[r]
    BY <2>2 DEF DInv, DispatchTypeOK
  <2> QED
    BY <2>2, <2>3, <2>4
<1>3. CASE Route \/ RouterRefuses \/ LiveRunFails \/ Recover \/ Refuse \/ RecordRefusal
             \/ Defer \/ RoundEnds
  BY <1>3 DEF Route, RouterRefuses, LiveRunFails, Recover, Refuse, RecordRefusal, Defer,
     RoundEnds
<1>4. CASE RolloutBegins \/ RolloutReads \/ RolloutFreezes \/ RolloutReadsBack
             \/ RolloutRestarts \/ RolloutVerifies \/ RolloutStops
  <2>0. rollout = [at |-> rollout.at, seen |-> rollout.seen, handed |-> rollout.handed]
    BY DEF DInv, DispatchTypeOK
  <2>1. rollout'.handed = rollout.handed /\ rollout.at # "done" /\ claim' = claim
    <3>1. CASE RolloutBegins \/ RolloutReads
      BY <2>0, <3>1 DEF RolloutBegins, RolloutReads, Advance
    <3>2. CASE RolloutFreezes \/ RolloutReadsBack
      BY <2>0, <3>2 DEF RolloutFreezes, RolloutReadsBack, Advance
    <3>3. CASE RolloutRestarts \/ RolloutVerifies \/ RolloutStops
      BY <2>0, <3>3 DEF RolloutRestarts, RolloutVerifies, RolloutStops, Advance
    <3> QED
      BY <1>4, <3>1, <3>2, <3>3
  <2> QED
    BY <2>1 DEF RolloutInv
<1>5. ASSUME NEW a \in Choices, RolloutHandsBack(a) PROVE NewCodeOnly'
  BY <1>5, HandOverIsNew
<1>6. ASSUME NEW o \in Operators, OperatorSwitches(o) \/ OperatorLeaves(o) PROVE NewCodeOnly'
  BY <1>6 DEF OperatorSwitches, OperatorLeaves
<1>7. ASSUME NEW o \in Operators, NEW a \in Choices, OperatorReads(o, a) PROVE NewCodeOnly'
  BY <1>7 DEF OperatorReads
<1>8. ASSUME NEW r \in Rounds, Delivers(r) PROVE NewCodeOnly'
  BY <1>8 DEF Delivers, Sent, SendFails, RowLapses, AttemptCloses, Withdrawn
<1> QED
  BY <1>1, <1>2, <1>3, <1>4, <1>5, <1>6, <1>7, <1>8 DEF Next, RoundStep, RolloutStep

(* Nothing that goes out under the authority a rolling restart handed back *)
(* was decided by the process it replaced, however the operators switch in *)
(* between.                                                                *)
THEOREM OnlyNewCodeSends == Spec => []NewCodeOnly
<1>1. Init => RolloutInv /\ NewCodeOnly
  BY DEF Init, RolloutInv, NewCodeOnly, NoRun
<1> QED
  BY InitD, NextD, <1>1, NextRollout, NextNewCode, PTL DEF Spec
=============================================================================
