------------------------------ MODULE Dispatch ------------------------------
(***************************************************************************)
(* Who may send for a scope.  An authority (an engine and a mode) is       *)
(* published behind a pointer with a version; rounds read it, think, and   *)
(* commit under whatever it says by then; operators freeze, shadow and     *)
(* restore it; a rolling restart freezes it, restarts the process and      *)
(* hands it back.                                                          *)
(*                                                                         *)
(* Actors: the round of the one Runtime process of the scope, the          *)
(* operators' script (scripts/dispatch_authority.py), the rollout          *)
(* (scripts/rolling_restart.py) and the delivery of what was committed,    *)
(* here as coarse as the authority sees it (Delivery and V1Host have its   *)
(* steps).                                                                 *)
(*                                                                         *)
(* Abstractions.  claim[r] stands for the two dispatch claims of a round,  *)
(* which are inserted together; its version is the pointer of the          *)
(* authority it was issued under, routed the one the round had read.  A    *)
(* round is named by its decision id, which is new for every round.        *)
(***************************************************************************)
EXTENDS Naturals

CONSTANTS
    Operators,      \* people with the script
    LiveEnabled,    \* the deployment lets langchao send for this scope
    MaxRounds,      \* bound: rounds
    MaxSwitches     \* bound: published authorities

ASSUME RoundsAssumption == MaxRounds \in Nat
ASSUME SwitchesAssumption == MaxSwitches \in Nat \ {0}
ASSUME EnabledAssumption == LiveEnabled \in {"yes", "no"}

Rounds == 1 .. MaxRounds

Versions == 1 .. MaxSwitches

VARIABLES
    active,     \* the active authority and the version of its pointer
    rounds,     \* rounds begun so far
    run,        \* the round in progress
    claim,      \* claim[r]: the dispatch claims of the round
    commit,     \* commit[r]: langchao_live_commits, and its terminal ack
    attempt,    \* attempt[r]: can the attempt still deliver?
    row,        \* row[r]: is a row pending or leased?
    nosend,     \* nosend[r]: the stage of the round's no-send result
    op,         \* op[o]: what an operator is about to publish
    rollout     \* the rolling restart of the scope

vars == <<active, rounds, run, claim, commit, attempt, row, nosend, op, rollout>>

V2Live   == [engine |-> "runtime_v2", mode |-> "live"]
Live     == [engine |-> "langchao", mode |-> "live"]
Shadow   == [engine |-> "langchao", mode |-> "shadow"]
Disabled == [engine |-> "none", mode |-> "disabled"]

Authorities == {V2Live, Live, Shadow, Disabled}

(* ACTIONS of the operators' script.                                       *)
Choices == {Disabled, Shadow, Live}

(* authority_may_dispatch()                                                *)
MayDispatch(a) == a.mode = "live" /\ a.engine # "none"

NoClaim == [engine |-> "none", version |-> 0, routed |-> 0]

NoRun == [id |-> 0, at |-> "idle", auth |-> Disabled, seen |-> 0]

NoOp == [want |-> Disabled, seen |-> 0]

DispatchTypeOK ==
    /\ active \in [auth : Authorities, version : Versions]
    /\ rounds \in 0 .. MaxRounds
    /\ run \in [id : 0 .. MaxRounds, at : {"idle", "routed", "recover", "refused"},
                auth : Authorities, seen : {0} \cup Versions]
    /\ run.id <= rounds
    /\ claim \in [Rounds -> {NoClaim} \cup
                     [engine : {"runtime_v2", "langchao"}, version : Versions, routed : Versions]]
    /\ commit \in [Rounds -> {"none", "open", "sent", "failed"}]
    /\ attempt \in [Rounds -> {"none", "open", "sent", "dead"}]
    /\ row \in [Rounds -> {"none", "open", "closed"}]
    /\ nosend \in [Rounds -> {"none", "router", "competition", "permission",
                             "budget", "dispatch", "delivery"}]
    /\ op \in [Operators -> [want : Choices, seen : {0} \cup Versions]]
    /\ rollout \in [at : {"idle", "drained", "read", "switched", "frozen", "restarted",
                          "verified", "done", "stopped"},
                    seen : {0} \cup Versions, handed : {0} \cup Versions]
    /\ \A r \in Rounds :
          /\ attempt[r] = "none" <=> claim[r] = NoClaim
          /\ row[r] = "none" <=> claim[r] = NoClaim

(* The first authority, as bootstrap() publishes it.                       *)
Init ==
    /\ active = [auth |-> V2Live, version |-> 1]
    /\ rounds = 0
    /\ run = NoRun
    /\ claim = [r \in Rounds |-> NoClaim]
    /\ commit = [r \in Rounds |-> "none"]
    /\ attempt = [r \in Rounds |-> "none"]
    /\ row = [r \in Rounds |-> "none"]
    /\ nosend = [r \in Rounds |-> "none"]
    /\ op = [o \in Operators |-> NoOp]
    /\ rollout = [at |-> "idle", seen |-> 0, handed |-> 0]

-----------------------------------------------------------------------------
(* Switching.                                                              *)

OpenRows == {r \in Rounds : row[r] = "open"}

OpenAttempts == {r \in Rounds : attempt[r] = "open"}

(* Mutant: rows and unacknowledged commits are counted, attempts are not.  *)
DurableRowsOnly ==
    ({"outbox"} \X OpenRows) \cup
    ({"live_commit"} \X {r \in Rounds : commit[r] = "open" /\ row[r] = "open"})

(* Mutant: a commit nobody acknowledged counts although its attempt ended. *)
DurableUnacknowledged ==
    ({"outbox"} \X OpenRows) \cup ({"attempt"} \X OpenAttempts) \cup
    ({"live_commit"} \X {r \in Rounds : commit[r] = "open"})

(* _durable_in_flight_refs()                                               *)
DurableInFlight ==
    ({"outbox"} \X OpenRows) \cup ({"attempt"} \X OpenAttempts) \cup
    ({"live_commit"} \X {r \in Rounds : commit[r] = "open" /\ attempt[r] = "open"})

(* switch_authority(): every caller reports in_flight_count = 0, and is    *)
(* refused unless the database agrees and the pointer is where it read it. *)
(* The lock of the scope is taken first, by claims as well.                *)
Publish(auth, seen) ==
    /\ DurableInFlight = {}
    /\ active.version = seen
    /\ active' = [auth |-> auth, version |-> active.version + 1]

Refused(seen) == DurableInFlight # {} \/ active.version # seen

CanSwitch == active.version < MaxSwitches

(* switch_authority() is given no authority_id: every authority is a new   *)
(* one, and starts at revision 1.                                          *)
RevisionOf(version) == 1

(* The script reads the active authority ...                               *)
OperatorReads(o, want) ==
    /\ op[o] = NoOp
    /\ op' = [op EXCEPT ![o] = [want |-> want, seen |-> active.version]]
    /\ UNCHANGED <<active, rounds, run, claim, commit, attempt, row, nosend, rollout>>

(* ... and publishes the next, or reports that it could not.               *)
OperatorSwitches(o) ==
    /\ op[o].seen # 0
    /\ op' = [op EXCEPT ![o] = NoOp]
    /\ \/ CanSwitch /\ Publish(op[o].want, op[o].seen)
       \/ Refused(op[o].seen) /\ UNCHANGED active
    /\ UNCHANGED <<rounds, run, claim, commit, attempt, row, nosend, rollout>>

(* "show", or the script is interrupted.                                   *)
OperatorLeaves(o) ==
    /\ op[o] # NoOp
    /\ op' = [op EXCEPT ![o] = NoOp]
    /\ UNCHANGED <<active, rounds, run, claim, commit, attempt, row, nosend, rollout>>

-----------------------------------------------------------------------------
(* The round.                                                              *)

(* AuthorityRoutedEndogenousRound.run(): the authority is read before      *)
(* either engine runs.                                                     *)
Route ==
    /\ run.at = "idle"
    /\ rounds < MaxRounds
    /\ rounds' = rounds + 1
    /\ run' = [id |-> rounds + 1, at |-> "routed", auth |-> active.auth,
               seen |-> active.version]
    /\ UNCHANGED <<active, claim, commit, attempt, row, nosend, op, rollout>>

MaySend(a) == a = V2Live \/ (a = Live /\ LiveEnabled = "yes")

(* The router turns the round down, or shadows it.                         *)
RouterRefuses ==
    /\ run.at = "routed"
    /\ ~MaySend(run.auth)
    /\ run' = NoRun
    /\ nosend' = IF run.auth = Shadow THEN nosend ELSE [nosend EXCEPT ![run.id] = "router"]
    /\ UNCHANGED <<active, rounds, claim, commit, attempt, row, op, rollout>>

(* Mutant: the durable commit is written after the transaction.            *)
DispatchUnrecorded(r) ==
    /\ claim' = [claim EXCEPT ![r] = [engine |-> active.auth.engine,
                     version |-> active.version, routed |-> run.seen]]
    /\ attempt' = [attempt EXCEPT ![r] = "open"]
    /\ row' = [row EXCEPT ![r] = "open"]
    /\ UNCHANGED commit

(* Mutant: the render row is left to a later transaction.                  *)
DispatchWithoutRow(r) ==
    /\ claim' = [claim EXCEPT ![r] = [engine |-> active.auth.engine,
                     version |-> active.version, routed |-> run.seen]]
    /\ attempt' = [attempt EXCEPT ![r] = "open"]
    /\ commit' = IF active.auth = Live THEN [commit EXCEPT ![r] = "open"] ELSE commit
    /\ UNCHANGED row

(* The transaction of a commit: both claims, the attempt with its render   *)
(* row, and for langchao the durable commit.                               *)
Dispatched(r) ==
    /\ claim' = [claim EXCEPT ![r] = [engine |-> active.auth.engine,
                     version |-> active.version, routed |-> run.seen]]
    /\ attempt' = [attempt EXCEPT ![r] = "open"]
    /\ row' = [row EXCEPT ![r] = "open"]
    /\ commit' = IF active.auth = Live THEN [commit EXCEPT ![r] = "open"] ELSE commit

(* create_live_dispatch_claim() and its trigger: the engine of the round   *)
(* has the live authority now; execute_in_transaction() compares revisions.*)
Claimable ==
    /\ active.auth = run.auth
    /\ RevisionOf(active.version) = RevisionOf(run.seen)

(* decide_endogenous() or the live runner commits.                         *)
CommitRound ==
    /\ run.at = "routed"
    /\ MaySend(run.auth)
    /\ Claimable
    /\ Dispatched(run.id)
    /\ run' = NoRun
    /\ UNCHANGED <<active, rounds, nosend, op, rollout>>

(* The live runner's transaction commits, and the answer is lost.          *)
CommitUnanswered ==
    /\ run.at = "routed"
    /\ run.auth = Live
    /\ MaySend(run.auth)
    /\ Claimable
    /\ Dispatched(run.id)
    /\ run' = [run EXCEPT !.at = "recover"]
    /\ UNCHANGED <<active, rounds, nosend, op, rollout>>

(* The live runner's transaction fails: an invalid contract, a claim that  *)
(* is refused, a database error.                                           *)
LiveRunFails ==
    /\ run.at = "routed"
    /\ run.auth = Live
    /\ MaySend(run.auth)
    /\ run' = [run EXCEPT !.at = "recover"]
    /\ UNCHANGED <<active, rounds, claim, commit, attempt, row, nosend, op, rollout>>

(* except Exception: a durable commit is reported as recovered, anything   *)
(* else as DISPATCH_FAILED.                                                *)
Recover ==
    /\ run.at = "recover"
    /\ run' = NoRun
    /\ nosend' = IF commit[run.id] = "none" THEN [nosend EXCEPT ![run.id] = "dispatch"]
                                            ELSE nosend
    /\ UNCHANGED <<active, rounds, claim, commit, attempt, row, op, rollout>>

(* The permission or the budget says no inside the transaction ...         *)
Refuse ==
    /\ run.at = "routed"
    /\ run.auth = Live
    /\ MaySend(run.auth)
    /\ Claimable
    /\ run' = [run EXCEPT !.at = "refused"]
    /\ UNCHANGED <<active, rounds, claim, commit, attempt, row, nosend, op, rollout>>

(* ... and the refusal is recorded after it.                               *)
RecordRefusal ==
    /\ run.at = "refused"
    /\ run' = NoRun
    /\ \E stage \in {"permission", "budget"} : nosend' = [nosend EXCEPT ![run.id] = stage]
    /\ UNCHANGED <<active, rounds, claim, commit, attempt, row, op, rollout>>

(* No candidate wins the competition, or the decision budget is spent on   *)
(* it: the live round is recorded as deferred.                             *)
Defer ==
    /\ run.at = "routed"
    /\ run.auth = Live
    /\ MaySend(run.auth)
    /\ run' = NoRun
    /\ nosend' = [nosend EXCEPT ![run.id] = "competition"]
    /\ UNCHANGED <<active, rounds, claim, commit, attempt, row, op, rollout>>

(* A runtime_v2 round that sends nothing, a live one whose winner is to    *)
(* rest or to think (internal_rest, internal_candidate), and a round that  *)
(* raises or whose process dies leave no record.                           *)
RoundEnds ==
    /\ run.at # "idle"
    /\ run' = NoRun
    /\ UNCHANGED <<active, rounds, claim, commit, attempt, row, nosend, op, rollout>>

-----------------------------------------------------------------------------
(* The delivery of what a round committed.                                 *)

(* The message goes out.                                                   *)
Sent(r) ==
    /\ attempt[r] = "open"
    /\ row[r] = "open"
    /\ attempt' = [attempt EXCEPT ![r] = "sent"]
    /\ row' = [row EXCEPT ![r] = "closed"]
    /\ commit' = IF commit[r] = "open" THEN [commit EXCEPT ![r] = "sent"] ELSE commit
    /\ UNCHANGED <<active, rounds, run, claim, nosend, op, rollout>>

(* A terminal failure is reported: the row fails, and a langchao round is  *)
(* booked as failed with a delivery-stage no-send.  The attempt follows in *)
(* the next transaction.                                                   *)
SendFails(r) ==
    /\ attempt[r] = "open"
    /\ row[r] = "open"
    /\ row' = [row EXCEPT ![r] = "closed"]
    /\ IF commit[r] = "open"
       THEN /\ commit' = [commit EXCEPT ![r] = "failed"]
            /\ nosend' = [nosend EXCEPT ![r] = "delivery"]
       ELSE UNCHANGED <<commit, nosend>>
    /\ UNCHANGED <<active, rounds, run, claim, attempt, op, rollout>>

(* The last claim of the row lapses: nothing is reported.                  *)
RowLapses(r) ==
    /\ row[r] = "open"
    /\ row' = [row EXCEPT ![r] = "closed"]
    /\ UNCHANGED <<active, rounds, run, claim, commit, attempt, nosend, op, rollout>>

(* An attempt without a live row is closed, by the report or by a tick.    *)
AttemptCloses(r) ==
    /\ attempt[r] = "open"
    /\ row[r] = "closed"
    /\ attempt' = [attempt EXCEPT ![r] = "dead"]
    /\ UNCHANGED <<active, rounds, run, claim, commit, row, nosend, op, rollout>>

(* A message of the user or a boundary withdraws the attempt and cancels   *)
(* its rows; the durable commit is not told.                               *)
Withdrawn(r) ==
    /\ attempt[r] = "open"
    /\ attempt' = [attempt EXCEPT ![r] = "dead"]
    /\ row' = [row EXCEPT ![r] = "closed"]
    /\ UNCHANGED <<active, rounds, run, claim, commit, nosend, op, rollout>>

Delivers(r) == Sent(r) \/ SendFails(r) \/ RowLapses(r) \/ AttemptCloses(r) \/ Withdrawn(r)

-----------------------------------------------------------------------------
(* The rolling restart of the scope.                                       *)

(* _drained(): what the rollout counts itself.                             *)
Drained == OpenRows = {} /\ OpenAttempts = {}

Advance(at) ==
    /\ rollout' = [rollout EXCEPT !.at = at]
    /\ UNCHANGED <<rounds, claim, commit, attempt, row, nosend, op>>

RolloutBegins ==
    /\ rollout.at = "idle"
    /\ Drained
    /\ Advance("drained")
    /\ UNCHANGED <<active, run>>

RolloutReads ==
    /\ rollout.at = "drained"
    /\ rollout' = [rollout EXCEPT !.at = "read", !.seen = active.version]
    /\ UNCHANGED <<active, rounds, run, claim, commit, attempt, row, nosend, op>>

RolloutFreezes ==
    /\ rollout.at = "read"
    /\ CanSwitch
    /\ Publish(Disabled, rollout.seen)
    /\ Advance("switched")
    /\ UNCHANGED run

(* frozen_pointer is read back in a statement of its own.                  *)
RolloutReadsBack ==
    /\ rollout.at = "switched"
    /\ rollout' = [rollout EXCEPT !.at = "frozen", !.seen = active.version]
    /\ UNCHANGED <<active, rounds, run, claim, commit, attempt, row, nosend, op>>

(* Mutant: the old process lives on for a while.                           *)
RolloutRestartsBeside ==
    /\ rollout.at = "frozen"
    /\ Advance("restarted")
    /\ UNCHANGED <<active, run>>

(* The child is restarted, and healthy under a new pid: the round of the   *)
(* old process is gone.                                                    *)
RolloutRestarts ==
    /\ rollout.at = "frozen"
    /\ Advance("restarted")
    /\ run' = NoRun
    /\ UNCHANGED active

RolloutVerifies ==
    /\ rollout.at = "restarted"
    /\ Drained
    /\ Advance("verified")
    /\ UNCHANGED <<active, run>>

(* --leave: live, shadow or freeze.                                        *)
RolloutHandsBack(leave) ==
    /\ rollout.at = "verified"
    /\ CanSwitch
    /\ Publish(leave, rollout.seen)
    /\ rollout' = [rollout EXCEPT !.at = "done", !.handed = active.version + 1]
    /\ UNCHANGED <<rounds, run, claim, commit, attempt, row, nosend, op>>

(* Not drained, a refused switch, no health in time, another schema: the   *)
(* rollout stops where it is.                                              *)
RolloutStops ==
    /\ rollout.at \notin {"done", "stopped"}
    /\ Advance("stopped")
    /\ UNCHANGED <<active, run>>

-----------------------------------------------------------------------------
RoundStep ==
    \/ Route \/ RouterRefuses \/ CommitRound \/ CommitUnanswered \/ LiveRunFails
    \/ Recover \/ Refuse \/ RecordRefusal \/ Defer \/ RoundEnds

RolloutStep ==
    \/ RolloutBegins \/ RolloutReads \/ RolloutFreezes \/ RolloutReadsBack
    \/ RolloutRestarts \/ RolloutVerifies \/ RolloutStops
    \/ \E a \in Choices : RolloutHandsBack(a)

Next ==
    \/ RoundStep
    \/ RolloutStep
    \/ \E o \in Operators : OperatorSwitches(o) \/ OperatorLeaves(o)
    \/ \E o \in Operators, a \in Choices : OperatorReads(o, a)
    \/ \E r \in Rounds : Delivers(r)

Spec == Init /\ [][Next]_vars

(* Whatever is committed ends: V1Host shows it (EveryAttemptEnds) from the *)
(* fairness of the ticks.                                                  *)
LiveSpec == Spec /\ \A r \in Rounds : WF_vars(Delivers(r))

-----------------------------------------------------------------------------
(* Properties.                                                             *)

(* "freeze: stop proactive sends": while the active authority may not      *)
(* dispatch, the scope has nothing that could still go out, whatever round *)
(* was under way when it was published.                                    *)
QuietWhenFrozen == ~MayDispatch(active.auth) => Drained

(* A round dispatched or has a no-send result, never both: only the        *)
(* failure of its own delivery may be recorded next to a dispatch.         *)
DispatchedOrRefused ==
    \A r \in Rounds :
        /\ claim[r] # NoClaim => nosend[r] \in {"none", "delivery"}
        /\ nosend[r] = "delivery" => claim[r].engine = "langchao"

(* What is sent under the authority a rolling restart handed back was      *)
(* decided by the new process: no round of the old one outlives the freeze.*)
NewCodeOnly ==
    \A r \in Rounds :
        rollout.handed # 0 /\ claim[r].version = rollout.handed => claim[r].routed >= rollout.seen

(* A switch is never refused for ever for the sake of work that ended: the *)
(* scope is drained again and again.                                       *)
DrainsInTheEnd == []<>(DurableInFlight = {})
=============================================================================
