----------------------------- MODULE UserLabels -----------------------------
(***************************************************************************)
(* What the user model learns from.  A sent attempt becomes an exposure    *)
(* with one label per target, each with a window of its own; the labels    *)
(* are settled by two writers:                                             *)
(*   - the request that ingested the user's reply, in a hook it runs after *)
(*     the transaction of process_user_message has committed;              *)
(*   - the maintenance pass after every scheduler round, which settles what*)
(*     nobody answered, compares the labels with the forecast frozen at    *)
(*     the send, and fits new parameters.                                  *)
(* A label that is settled is written, in the same transaction, to the     *)
(* reward ledger of the langchao goal the attempt served.                  *)
(*                                                                         *)
(* Abstractions.  An exposure is named by its attempt, and has at most one *)
(* reply: the attribution resolves the attempt.  The only observation the  *)
(* code makes is that reply (legacy_bridge_v2.after_user_event): positive, *)
(* by the user, of one exposure.  A label's value and observation time     *)
(* follow from its status and its source.  The limits of a pass (64        *)
(* exposures, 256 expectations) are not reached, and a fit is the set of   *)
(* exposures it was trained on.                                            *)
(***************************************************************************)
EXTENDS Naturals, FiniteSets

CONSTANTS
    Exposures,      \* delivered attempts of the scope
    Contracts,      \* reward contracts of langchao goals
    ContractOf,     \* ContractOf[e]: the contract the attempt served
    Horizon,        \* Horizon[t]: length of the target's window, in ticks
    MaxTime,        \* bound: the last tick
    MaxReplies,     \* bound: replies of the user
    MaxFaults,      \* bound: crashes, and rollbacks that take a statement along
    MaxFits         \* bound: parameter activations

Target == {"reply", "acceptance", "continue", "negative"}

(* _USER_KEYS: the targets a reward contract has an outcome for.           *)
UserKeys == {"reply", "continue", "negative"}

Time == 0 .. MaxTime

NoTime == MaxTime + 1

ASSUME TimeAssumption == MaxTime \in Nat
ASSUME HorizonAssumption == Horizon \in [Target -> Nat \ {0}]
ASSUME ContractAssumption == ContractOf \in [Exposures -> Contracts]
ASSUME BoundsAssumption == MaxReplies \in Nat /\ MaxFaults \in Nat /\ MaxFits \in Nat

VARIABLES
    now,            \* the clock
    exposed,        \* exposed[e]: when the send was acknowledged, or NoTime
    reply,          \* reply[e]: the user's reply to e, and how far it came
    label,          \* label[e][t]: the active label and its revision
    ledger,         \* ledger[c][t]: the active observation of the contract
    forecast,       \* forecast[e]: the expectation frozen at the send
    settlement,     \* settlement[e][t]: rows of runtime_v2_expectation_settlements
    params,         \* the active parameters
    pass,           \* the maintenance pass
    faults          \* crashes and statements undone so far

vars == <<now, exposed, reply, label, ledger, forecast, settlement, params,
          pass, faults>>

LabelStatus == {"pending", "observed_positive", "observed_negative", "unknown"}

Label == [rev : Nat, status : LabelStatus, by : {"window", "reply"}]

NoLabel == [rev |-> 0, status |-> "pending", by |-> "window"]

NoReply == [at |-> NoTime, stage |-> "none"]

Observation == [source : Exposures, rev : Nat, status : LabelStatus]

NoObservation == [source |-> "none", rev |-> 0, status |-> "pending"]

(* A row of the settlement table: the revision it is keyed by, and the     *)
(* revision of the label it was computed from (a label's identifier is     *)
(* made of its revision).                                                  *)
Settled == [rev : Nat, of : Nat]

(* An expectation that is due: key and label are read by two queries.      *)
Item == [e : Exposures, t : Target, rev : Nat, of : Nat]

Stage == {"idle", "settle", "read", "write", "close", "activate"}

IdlePass == [at |-> "idle", asof |-> 0, due |-> {}, items |-> {}, trained |-> {}]

LabelTypeOK ==
    /\ now \in Time
    /\ exposed \in [Exposures -> Time \cup {NoTime}]
    /\ reply \in [Exposures -> [at : Time \cup {NoTime},
                                stage : {"none", "ingested", "settled", "lost"}]]
    /\ label \in [Exposures -> [Target -> Label]]
    /\ ledger \in [Contracts -> [UserKeys -> Observation \cup {NoObservation}]]
    /\ forecast \in [Exposures -> [status : {"none", "pending", "settled"},
                                   trained : SUBSET Exposures]]
    /\ settlement \in [Exposures -> [Target -> SUBSET Settled]]
    /\ params \in [version : Nat, trained : SUBSET Exposures]
    /\ pass \in [at : Stage, asof : Time, due : SUBSET Exposures,
                 items : SUBSET Item, trained : SUBSET Exposures]
    /\ faults \in 0 .. MaxFaults

Init ==
    /\ now = 0
    /\ exposed = [e \in Exposures |-> NoTime]
    /\ reply = [e \in Exposures |-> NoReply]
    /\ label = [e \in Exposures |-> [t \in Target |-> NoLabel]]
    /\ ledger = [c \in Contracts |-> [t \in UserKeys |-> NoObservation]]
    /\ forecast = [e \in Exposures |-> [status |-> "none", trained |-> {}]]
    /\ settlement = [e \in Exposures |-> [t \in Target |-> {}]]
    /\ params = [version |-> 0, trained |-> {}]
    /\ pass = IdlePass
    /\ faults = 0

IsExposed(e) == exposed[e] # NoTime

Tick ==
    /\ now < MaxTime
    /\ now' = now + 1
    /\ UNCHANGED <<exposed, reply, label, ledger, forecast, settlement, params,
                   pass, faults>>

-----------------------------------------------------------------------------
(* The acknowledgement of a send.                                          *)

(* prepare_exposure(): four pending labels of revision 1.                  *)
Prepare(e) ==
    /\ exposed' = [exposed EXCEPT ![e] = now]
    /\ label' = [label EXCEPT ![e] = [t \in Target |-> [NoLabel EXCEPT !.rev = 1]]]

(* freeze_acknowledged_expectation(): the forecast of the parameters that  *)
(* are active now.                                                         *)
Freeze(e) ==
    forecast' = [forecast EXCEPT ![e] = [status |-> "pending", trained |-> params.trained]]

(* prepare_exposure_and_expectation(): both in one transaction; a repeated *)
(* acknowledgement finds both and changes nothing.                         *)
Acknowledge(e) ==
    /\ ~IsExposed(e)
    /\ Prepare(e)
    /\ Freeze(e)
    /\ UNCHANGED <<now, reply, ledger, settlement, params, pass, faults>>

-----------------------------------------------------------------------------
(* Settling labels.                                                        *)

WindowEnd(e, t) == exposed[e] + Horizon[t]

Expired(e, t, asof) == asof >= WindowEnd(e, t)

(* Does the reply fall into the window of t?                               *)
InWindow(e, t) == exposed[e] <= reply[e].at /\ reply[e].at <= WindowEnd(e, t)

(* Mutant: acceptance, which silence cannot refute, is left open.          *)
StatusWithoutEventOpen(e, t, asof, replied) ==
    CASE ~Expired(e, t, asof) \/ t = "acceptance" -> "pending"
      [] t \in {"reply", "negative"} -> "observed_negative"
      [] OTHER -> IF replied THEN "observed_negative" ELSE "unknown"

(* Mutant: a reply that was not collected censors the continuation.        *)
StatusWithoutEventCensored(e, t, asof, replied) ==
    CASE ~Expired(e, t, asof) -> "pending"
      [] Expired(e, t, asof) /\ t = "continue" -> IF replied THEN "observed_negative" ELSE "censored"
      [] OTHER -> IF t = "acceptance" THEN "unknown" ELSE "observed_negative"

(* _status_without_event() of complete, covered observations.              *)
StatusWithoutEvent(e, t, asof, replied) ==
    CASE ~Expired(e, t, asof) -> "pending"
      [] Expired(e, t, asof) /\ t \in {"reply", "negative"} -> "observed_negative"
      [] Expired(e, t, asof) /\ t = "continue" /\ replied -> "observed_negative"
      [] OTHER -> "unknown"

(* settle_target_label(): given says whether the reply is among the        *)
(* observations of the call.                                               *)
Verdict(e, t, given, asof) ==
    LET replied == given /\ InWindow(e, t) IN
    IF t = "reply" /\ replied
    THEN [status |-> "observed_positive", by |-> "reply"]
    ELSE [status |-> StatusWithoutEvent(e, t, asof, replied), by |-> "window"]

(* next_label_revision(): a label of the same meaning keeps its revision.  *)
Revised(e, t, given, asof) ==
    LET v == Verdict(e, t, given, asof)
        current == label[e][t] IN
    IF v.status = current.status /\ v.by = current.by
    THEN current
    ELSE [rev |-> current.rev + 1, status |-> v.status, by |-> v.by]

(* Mutant: an observation on record is never corrected.                    *)
RecordedFirst(e, t, new) ==
    LET held == ledger[ContractOf[e]][t] IN
    IF new.status = "pending" \/ held.rev > 0
    THEN held
    ELSE [source |-> e, rev |-> new.rev, status |-> new.status]

(* LangchaoUserOutcomeSettler: a label that is not pending replaces an     *)
(* observation of the contract with a lower label revision.                *)
Recorded(e, t, new) ==
    LET held == ledger[ContractOf[e]][t] IN
    IF new.status = "pending" \/ held.rev >= new.rev
    THEN held
    ELSE [source |-> e, rev |-> new.rev, status |-> new.status]

(* settle_observation(): all four labels and their outcomes, in one        *)
(* transaction under the writer lock.                                      *)
SettleObservation(e, given, asof) ==
    LET new == [t \in Target |-> Revised(e, t, given, asof)] IN
    /\ label' = [label EXCEPT ![e] = new]
    /\ ledger' = [ledger EXCEPT ![ContractOf[e]] =
                     [t \in UserKeys |-> Recorded(e, t, new[t])]]

-----------------------------------------------------------------------------
(* The user replies.                                                       *)

(* The transaction of process_user_message: the reply is attributed to the *)
(* attempt, and stamped with the time the platform gave it.                *)
IngestReply(e, at) ==
    /\ IsExposed(e)
    /\ reply[e] = NoReply
    /\ Cardinality({f \in Exposures : reply[f] # NoReply}) < MaxReplies
    /\ at <= now
    /\ reply' = [reply EXCEPT ![e] = [at |-> at, stage |-> "ingested"]]
    /\ UNCHANGED <<now, exposed, label, ledger, forecast, settlement, params,
                   pass, faults>>

(* _settle_after_user_event(), in the same request: exposures that are     *)
(* younger than the reply are not looked up.                               *)
AfterUserEvent(e) ==
    /\ reply[e].stage = "ingested"
    /\ reply' = [reply EXCEPT ![e].stage = "settled"]
    /\ IF exposed[e] <= reply[e].at
       THEN SettleObservation(e, TRUE, reply[e].at)
       ELSE UNCHANGED <<label, ledger>>
    /\ UNCHANGED <<now, exposed, forecast, settlement, params, pass, faults>>

-----------------------------------------------------------------------------
(* The maintenance pass.                                                   *)

HasPending(e) == \E t \in Target : label[e][t].status = "pending"

(* list_due_pending_exposures()                                            *)
DueExposures ==
    {e \in Exposures : IsExposed(e) /\
        \E t \in Target : label[e][t].status = "pending" /\ Expired(e, t, now)}

(* Rows come in the order of their exposures, those of one time in some    *)
(* fixed order.                                                            *)
First(S) == CHOOSE e \in S : \A f \in S : exposed[e] <= exposed[f]

RunDue ==
    /\ pass.at = "idle"
    /\ pass' = [IdlePass EXCEPT !.at = "settle", !.asof = now, !.due = DueExposures]
    /\ UNCHANGED <<now, exposed, reply, label, ledger, forecast, settlement,
                   params, faults>>

(* An exposure that is due is settled from no observations.                *)
SettleDue(e) ==
    /\ pass.at = "settle"
    /\ e \in pass.due
    /\ e = First(pass.due)
    /\ SettleObservation(e, FALSE, pass.asof)
    /\ pass' = [pass EXCEPT !.due = @ \ {e}]
    /\ UNCHANGED <<now, exposed, reply, forecast, settlement, params, faults>>

DueAt(e) == exposed[e] + CHOOSE h \in {Horizon[t] : t \in Target} :
                            \A t \in Target : Horizon[t] <= h

IsDue(e) == forecast[e].status = "pending" /\ DueAt(e) <= pass.asof

(* The first query of list_due_expectations(): labels that are not pending,*)
(* and the revisions they have now.                                        *)
ListExpectations ==
    /\ pass.at = "settle"
    /\ pass.due = {}
    /\ pass' = [IdlePass EXCEPT !.at = "read",
           !.items = {[e |-> x[1], t |-> x[2], rev |-> label[x[1]][x[2]].rev, of |-> 0] :
                         x \in {y \in Exposures \X Target :
                                   IsDue(y[1]) /\ label[y[1]][y[2]].status # "pending"}}]
    /\ UNCHANGED <<now, exposed, reply, label, ledger, forecast, settlement,
                   params, faults>>

(* Its second query, per row: the label that is active by then.            *)
ReadLabels ==
    /\ pass.at = "read"
    /\ pass' = [pass EXCEPT !.at = "write",
                   !.items = {[i EXCEPT !.of = label[i.e][i.t].rev] : i \in pass.items}]
    /\ UNCHANGED <<now, exposed, reply, label, ledger, forecast, settlement,
                   params, faults>>

(* The order of the targets in the rows of an expectation: by name.        *)
Rank == [acceptance |-> 1, continue |-> 2, negative |-> 3, reply |-> 4]

(* The item the pass works on.                                             *)
Current(i) ==
    /\ pass.at = "write"
    /\ i \in pass.items
    /\ i.e = First({j.e : j \in pass.items})
    /\ \A j \in pass.items : j.e = i.e => Rank[i.t] <= Rank[j.t]

(* The statements of the pass that stand outside a transaction share the   *)
(* database session with the requests: one that falls into an open         *)
(* transaction of a request is undone when that rolls back, and the pass   *)
(* is not told.                                                            *)
JoinsRollback ==
    /\ faults < MaxFaults
    /\ faults' = faults + 1

Inserted(i) == [rev |-> i.rev, of |-> i.of]

KeyTaken(i) == \E s \in settlement[i.e][i.t] : s.rev = i.rev

(* Mutant: the revision key does not refuse a second row.                  *)
WriteRevisionAgain(i) ==
    /\ Current(i)
    /\ pass' = [pass EXCEPT !.at = "close", !.due = {i.e}, !.items = @ \ {i}]
    /\ settlement' = [settlement EXCEPT ![i.e][i.t] = @ \cup {Inserted(i)}]
    /\ UNCHANGED <<now, exposed, reply, label, ledger, forecast, params, faults>>

(* write_expectation_revision_once(), its INSERT: a new revision is        *)
(* appended, and the expectation is looked at next.                        *)
WriteRevision(i) ==
    /\ Current(i)
    /\ ~KeyTaken(i)
    /\ pass' = [pass EXCEPT !.at = "close", !.due = {i.e}, !.items = @ \ {i}]
    /\ \/ /\ settlement' = [settlement EXCEPT ![i.e][i.t] = @ \cup {Inserted(i)}]
          /\ UNCHANGED faults
       \/ JoinsRollback /\ UNCHANGED settlement
    /\ UNCHANGED <<now, exposed, reply, label, ledger, forecast, params>>

(* ON CONFLICT DO NOTHING: the revision has been written before.           *)
ReplayRevision(i) ==
    /\ Current(i)
    /\ Inserted(i) \in settlement[i.e][i.t]
    /\ pass' = [pass EXCEPT !.items = @ \ {i}]
    /\ UNCHANGED <<now, exposed, reply, label, ledger, forecast, settlement,
                   params, faults>>

(* settle_expectation_target() raises when the revision on record has      *)
(* another meaning; the pass is abandoned.                                 *)
PassRaises(i) ==
    /\ Current(i)
    /\ KeyTaken(i)
    /\ Inserted(i) \notin settlement[i.e][i.t]
    /\ pass' = IdlePass
    /\ UNCHANGED <<now, exposed, reply, label, ledger, forecast, settlement,
                   params, faults>>

(* Mutant: the expectation is closed with its first revision.              *)
CloseAtOnce(e) ==
    /\ pass.at = "close"
    /\ pass.due = {e}
    /\ pass' = [pass EXCEPT !.at = "write", !.due = {}]
    /\ forecast' = [forecast EXCEPT ![e].status = "settled"]
    /\ UNCHANGED <<now, exposed, reply, label, ledger, settlement, params, faults>>

(* write_expectation_revision_once(), its UPDATE: the expectation is       *)
(* closed once no active label of its exposure is pending.                 *)
CloseExpectation(e) ==
    /\ pass.at = "close"
    /\ pass.due = {e}
    /\ pass' = [pass EXCEPT !.at = "write", !.due = {}]
    /\ \/ /\ forecast' = [forecast EXCEPT ![e].status = IF HasPending(e) THEN @ ELSE "settled"]
          /\ UNCHANGED faults
       \/ JoinsRollback /\ UNCHANGED forecast
    /\ UNCHANGED <<now, exposed, reply, label, ledger, settlement, params>>

Observed(e) ==
    \E t \in Target : label[e][t].status \in {"observed_positive", "observed_negative"}

(* build_fit_dataset(): the active observed labels.                        *)
BuildDataset ==
    /\ pass.at = "write"
    /\ pass.items = {}
    /\ params.version < MaxFits
    /\ pass' = [pass EXCEPT !.at = "activate",
                            !.trained = {e \in Exposures : IsExposed(e) /\ Observed(e)}]
    /\ UNCHANGED <<now, exposed, reply, label, ledger, forecast, settlement,
                   params, faults>>

(* save_parameter_snapshot_and_activate(): no one else moves the pointer.  *)
ActivateParameters ==
    /\ pass.at = "activate"
    /\ params' = [version |-> params.version + 1, trained |-> pass.trained]
    /\ pass' = IdlePass
    /\ UNCHANGED <<now, exposed, reply, label, ledger, forecast, settlement, faults>>

(* No fit is due, or the fit failed: the active parameters stay in force.  *)
EndPass ==
    /\ \/ pass.at = "write" /\ pass.items = {}
       \/ pass.at = "activate"
    /\ pass' = IdlePass
    /\ UNCHANGED <<now, exposed, reply, label, ledger, forecast, settlement,
                   params, faults>>

(* The process dies: a pass ends where it is, and a reply between its      *)
(* ingestion and its hook stays there, for the redelivered event is        *)
(* answered as a duplicate.                                                *)
Crash ==
    /\ faults < MaxFaults
    /\ faults' = faults + 1
    /\ pass' = IdlePass
    /\ reply' = [e \in Exposures |->
                    IF reply[e].stage = "ingested" THEN [reply[e] EXCEPT !.stage = "lost"]
                                                   ELSE reply[e]]
    /\ UNCHANGED <<now, exposed, label, ledger, forecast, settlement, params>>

MaintenanceStep ==
    \/ RunDue
    \/ \E e \in Exposures : SettleDue(e) \/ CloseExpectation(e)
    \/ ListExpectations
    \/ ReadLabels
    \/ \E i \in pass.items : WriteRevision(i) \/ ReplayRevision(i) \/ PassRaises(i)
    \/ BuildDataset
    \/ ActivateParameters
    \/ EndPass

Next ==
    \/ Tick
    \/ \E e \in Exposures : Acknowledge(e) \/ AfterUserEvent(e)
    \/ \E e \in Exposures, at \in Time : IngestReply(e, at)
    \/ MaintenanceStep
    \/ Crash

Spec == Init /\ [][Next]_vars

(* The clock runs, the scheduler comes back to its rounds and a pass that  *)
(* began ends unless the process dies.                                     *)
LiveSpec == Spec /\ WF_vars(Tick) /\ WF_vars(MaintenanceStep)

-----------------------------------------------------------------------------
(* Properties.                                                             *)

(* The reward ledger says what the label it was taken from says: the label *)
(* and its outcome are written together, and corrected together.  A label  *)
(* that was reopened leaves its last outcome standing.                     *)
LedgerFollowsItsSource ==
    \A c \in Contracts, t \in UserKeys :
        LET o == ledger[c][t] IN
        o # NoObservation =>
            \/ label[o.source][t].status = "pending" /\ o.rev < label[o.source][t].rev
            \/ o.rev = label[o.source][t].rev /\ o.status = label[o.source][t].status

(* An expectation that is closed was compared on all four targets, unless  *)
(* the process died or a request took a statement of the pass back.        *)
SettledInFull ==
    \A e \in Exposures :
        forecast[e].status = "settled" /\ pass.at = "idle" /\ faults = 0 =>
            \A t \in Target : settlement[e][t] # {}

(* A revision of a comparison is written once, after the ones of lower     *)
(* revisions, and is never taken back or rewritten.                        *)
RevisionsInOrder ==
    [][\A e \in Exposures, t \in Target :
          LET new == settlement'[e][t] \ settlement[e][t] IN
          /\ settlement[e][t] \subseteq settlement'[e][t]
          /\ \A s \in new : \A old \in settlement[e][t] : old.rev < s.rev]_vars

(* No label stays open for ever: every window that ends before the clock   *)
(* stops is settled in the end, and stays settled, whatever crashed and    *)
(* however late the reply was worked on.                                   *)
WindowsAreSettled ==
    <>[](\A e \in Exposures, t \in Target :
            IsExposed(e) /\ WindowEnd(e, t) <= MaxTime => label[e][t].status # "pending")

(* "Reply and negative targets describe occurrence events.  Their false    *)
(* value is produced only by complete-window absence"                      *)
(* (user_model_v2_labels.py): a reply on record is not turned into silence.*)
(* Fails without any race: the windows of the other targets end later than *)
(* the reply's, and when one does the pass settles all four labels from no *)
(* observations.                                                           *)
OccurrenceStands ==
    [][\A e \in Exposures : label[e]["reply"].status = "observed_positive" =>
          label'[e]["reply"].status # "observed_negative"]_vars
=============================================================================
