----------------------------- MODULE Proposals -----------------------------
(***************************************************************************)
(* Results that come back after a while: a model or a background job is    *)
(* handed a snapshot, the world goes on, and the result is submitted as a  *)
(* proposal, perhaps late, perhaps twice, perhaps after the user took back *)
(* what it rests on.  The reducer applies it, rebases it or discards it    *)
(* (Reducer.process_proposal, protocol.classify).  What messages and       *)
(* refreshes leave open are unfinished matters (unfinished.py).            *)
(*                                                                         *)
(* Every step is one of StateRow, or leaves the row alone.                 *)
(***************************************************************************)
EXTENDS StateRow

CONSTANTS
    Kind,          \* the task kind of each task; its domain is the tasks
    Cites,         \* Cites[t]: the messages a task's result names as sources
    Retracted,     \* Retracted[t]: the messages that take back its premise
    NewerLimit,    \* how many newer messages are looked at
    Posts,         \* matters an operator or host creates directly
    Subject,       \* what a message, a task's result or a post is about, if it
                   \* would open a matter; its domain is what can open one
    Settles,       \* Settles[m]: the subjects a message reports as settled
    MaxReopened    \* bound: registrations of one task after it was dealt with

Tasks == DOMAIN Kind
Openers == DOMAIN Subject

VARIABLES
    task,          \* background_tasks: the status on record
    work,          \* what the host has in hand for a task
    matter,        \* the unfinished matter each opener opened
    decided,       \* how often a submission was decided on: applied, or discarded
                   \* on the task's record
    reopened       \* how often a task that was dealt with was registered again

propVars == <<rowVars, task, work, matter, decided, reopened>>

(* TASK_SENSITIVITY                                                        *)
Sensitivity(t) ==
    CASE Kind[t] \in {"shallow_tag", "memory_summary", "deep_refresh"} -> "low"
      [] Kind[t] \in {"emotion_eval", "user_model_summary"}            -> "medium"
      [] Kind[t] \in {"candidate_gen", "emotion_explain"}              -> "high"
      [] Kind[t] = "proactive_draft"                                   -> "critical"

TaskStatus == {"absent", "in_flight", "settled", "discarded"}

(* "released" stands for expired, and for settled longer ago than the      *)
(* reservation; "live" for open, waiting, due and muted.                   *)
MatterStatus == {"none", "live", "settled", "released"}

NotStarted == [at |-> "idle", base |-> 0, since |-> 0, dated |-> FALSE]

ASSUME ProposalsAssumption ==
    /\ \A t \in Tasks : Cites[t] \subseteq Messages /\ Retracted[t] \subseteq Messages
    /\ NewerLimit \in Nat \ {0}
    /\ MaxReopened \in Nat
    /\ Tasks \cap Changes = {t \in Tasks : Kind[t] = "emotion_eval"}
    /\ Openers \subseteq Messages \cup Tasks \cup Posts
    /\ Posts \subseteq Openers
    /\ Tasks \cap Messages = {} /\ Posts \cap (Tasks \cup Messages) = {}

PropTypeOK ==
    /\ RowTypeOK
    /\ task \in [Tasks -> TaskStatus]
    /\ work \in [Tasks -> [at : {"idle", "out", "done"}, base : Nat,
                           since : Nat, dated : BOOLEAN]]
    /\ matter \in [Openers -> MatterStatus]
    /\ decided \in [Tasks -> Nat]
    /\ reopened \in [Tasks -> 0..MaxReopened]

PropInit ==
    /\ RowInit
    /\ task = [t \in Tasks |-> "absent"]
    /\ work = [t \in Tasks |-> NotStarted]
    /\ matter = [x \in Openers |-> "none"]
    /\ decided = [t \in Tasks |-> 0]
    /\ reopened = [t \in Tasks |-> 0]

-----------------------------------------------------------------------------
(* Matters.                                                                *)

(* The events a matter was derived from.                                   *)
Sources(x) == IF x \in Messages THEN {x} ELSE IF x \in Tasks THEN Cites[x] ELSE {}

(* Mutant: what was settled holds its subject, what is live does not.      *)
GuardsOfSettled(matters) == {x \in Openers : matters[x] = "settled"}

(* subject_guards(): live, or settled within the reservation.              *)
Guards(matters) == {x \in Openers : matters[x] \in {"live", "settled"}}

(* detect() compares subjects; a refresh compares its sources as well      *)
(* (already_spoken_for).                                                   *)
SpokenFor(x, matters) ==
    \E y \in Guards(matters) :
        \/ Subject[x] = Subject[y]
        \/ x \in Tasks /\ Sources(x) \cap Sources(y) # {}

(* create(), unless the matter restates one.                               *)
Opened(x, matters) ==
    IF x \in Openers /\ ~SpokenFor(x, matters) THEN [matters EXCEPT ![x] = "live"] ELSE matters

(* detect_resolution() and resolve(), over list_open().                    *)
Settled(m, matters) ==
    [x \in Openers |->
        IF matters[x] = "live" /\ Subject[x] \in Settles[m] THEN "settled" ELSE matters[x]]

NoMatters == UNCHANGED matter

-----------------------------------------------------------------------------
(* The coordinator and other writers.                                      *)

Untouched == UNCHANGED <<task, work, decided, reopened>>

(* process_user_message(): what the message settles goes first, and counts *)
(* as taken when its own promise is looked for; a subject it has just      *)
(* settled is not opened again.                                            *)
Ingest(m) ==
    /\ MessageCommits(m)
    /\ matter' = Opened(m, Settled(m, matter))
    /\ Untouched

(* lazy_tick(), with unfinished.tick(): any of the live matters expire.    *)
Tick ==
    /\ TickCommits
    /\ \E X \in SUBSET {x \in Openers : matter[x] = "live"} :
           matter' = [x \in Openers |-> IF x \in X THEN "released" ELSE matter[x]]
    /\ Untouched

Coordinator ==
    \/ \E m \in Messages : Ingest(m)
    \/ Tick
    \/ (Abandons \/ \E h \in {"tick"} \cup Messages : Begins(h)) /\ NoMatters /\ Untouched

(* Deliveries and the other reports: any change that is not a task's.      *)
Reports ==
    /\ \E X \in SUBSET (Changes \ Tasks) : ReducerWrites(X)
    /\ NoMatters /\ Untouched

(* POST /unfinished: create() without a guard.                             *)
PostMatter(x) ==
    /\ x \in Posts /\ matter[x] = "none"
    /\ ReducerWrites({})
    /\ matter' = [matter EXCEPT ![x] = "live"]
    /\ Untouched

(* POST /unfinished/{id}/resolve: whatever is not resolved yet, an expired *)
(* matter included, whose subject is reserved from then on.                *)
PostResolved(x) ==
    /\ matter[x] \in {"live", "released"}
    /\ ReducerWrites({})
    /\ matter' = [matter EXCEPT ![x] = "settled"]
    /\ Untouched

(* SETTLED_SUBJECT_RESERVATION_SECONDS pass.                               *)
ReservationEnds(x) ==
    /\ matter[x] = "settled"
    /\ matter' = [matter EXCEPT ![x] = "released"]
    /\ UNCHANGED rowVars /\ Untouched

-----------------------------------------------------------------------------
(* Tasks and their results.                                                *)

(* What a task is handed: the version of the row, and the place in the log *)
(* its creation time stands for.  A proposal may come without that time.   *)
Snapshot(dated) == [at |-> "out", base |-> row.version, since |-> Len(log), dated |-> dated]

(* The host takes a snapshot and asks its model.                           *)
Dispatch(t) ==
    /\ Kind[t] # "deep_refresh" /\ work[t].at = "idle"
    /\ \E dated \in BOOLEAN : work' = [work EXCEPT ![t] = Snapshot(dated)]
    /\ NoMatters /\ UNCHANGED <<rowVars, task, decided, reopened>>

DealtWith(t) == task[t] \in {"settled", "discarded"}

(* POST /tasks, with a snapshot: the record is in flight, also when the    *)
(* task had been dealt with (TaskProjection.register's ON CONFLICT).       *)
Register(t) ==
    /\ Kind[t] # "deep_refresh"
    /\ DealtWith(t) => reopened[t] < MaxReopened
    /\ reopened' = IF DealtWith(t) THEN [reopened EXCEPT ![t] = @ + 1] ELSE reopened
    /\ task' = [task EXCEPT ![t] = "in_flight"]
    /\ work' = [work EXCEPT ![t] = Snapshot(TRUE)]
    /\ NoMatters /\ UNCHANGED <<rowVars, decided>>

(* _newer_user_events(): the oldest of those since the creation time.      *)
Newer(w) ==
    IF w.dated THEN {log[i] : i \in {j \in DOMAIN log : w.since < j /\ j <= w.since + NewerLimit}}
               ELSE {}

StalenessBudget == [low |-> 50, medium |-> 6, high |-> 2, critical |-> 0]

(* staleness_threshold(): a gap of 0 is never stale.                       *)
StalenessThreshold(t) ==
    LET budget == StalenessBudget[Sensitivity(t)] IN IF budget = 0 THEN 1 ELSE budget

Stale(t, w) == row.version - w.base >= StalenessThreshold(t)

(* classify(), in its order: the evidence is gone; a draft is always       *)
(* re-coordinated; the premise was taken back; stale, or newer context.    *)
Drafting(t) == Kind[t] = "proactive_draft"

Discarded(t, w) ==
    \/ ~(Cites[t] \subseteq Logged)
    \/ /\ Newer(w) \cap Retracted[t] # {}
       /\ ~Drafting(t)

Rebased(t, w) ==
    /\ ~Discarded(t, w)
    /\ \/ Stale(t, w)
       \/ Newer(w) # {} /\ Sensitivity(t) \in {"high", "critical"}

(* Mutant: only what was applied counts as dealt with.                     *)
SettledOnly(t) == task[t] = "settled"

(* _task_already_settled(): a task without a record is not a redelivery.   *)
AlreadySettled(t) == DealtWith(t)

(* Mutant: settle() is given its outcome for its status.                   *)
DiscardsSwapped(t) ==
    /\ task' = [task EXCEPT ![t] = IF @ = "absent" THEN @ ELSE "premise_retracted"]
    /\ decided' = IF task[t] = "absent" THEN decided ELSE [decided EXCEPT ![t] = @ + 1]
    /\ NoMatters /\ UNCHANGED rowVars

(* A discard is written on the record, if there is one.                    *)
Discards(t) ==
    /\ task' = [task EXCEPT ![t] = IF @ = "absent" THEN @ ELSE "discarded"]
    /\ decided' = IF task[t] = "absent" THEN decided ELSE [decided EXCEPT ![t] = @ + 1]
    /\ NoMatters /\ UNCHANGED rowVars

(* The payload is applied and the task settled; the row moves on.  An      *)
(* explanation that was rebased has lost its payload: its handler raises,  *)
(* and the transaction is rolled back.                                     *)
Applies(t, w) ==
    /\ ~(Kind[t] = "emotion_explain" /\ Rebased(t, w))
    /\ task' = [task EXCEPT ![t] = "settled"]
    /\ decided' = [decided EXCEPT ![t] = @ + 1]
    /\ ReducerWrites({t} \cap Changes)
    /\ matter' = Opened(t, matter)

(* process_proposal(), one transaction.                                    *)
ProcessProposal(t, w) ==
    /\ ~AlreadySettled(t)
    /\ IF Discarded(t, w) THEN Discards(t) ELSE Applies(t, w)
    /\ UNCHANGED reopened

(* POST /proposals, as often as the host likes: a retried call sends the   *)
(* same proposal again.                                                    *)
Submit(t) ==
    /\ Kind[t] # "deep_refresh" /\ work[t].at = "out"
    /\ ProcessProposal(t, work[t])
    /\ UNCHANGED work

(* _deep_refresh(): the attempt is recorded, then the provider is asked.   *)
RefreshStarts(t) ==
    /\ Kind[t] = "deep_refresh" /\ work[t].at = "idle"
    /\ session.by = "none"
    /\ ReducerWrites({})
    /\ work' = [work EXCEPT ![t] = Snapshot(TRUE)]
    /\ NoMatters /\ UNCHANGED <<task, decided, reopened>>

(* The provider has answered.  The version the proposal is based on is the *)
(* one read now, not the one the request was built from.                   *)
RefreshEnds(t) ==
    /\ Kind[t] = "deep_refresh" /\ work[t].at = "out"
    /\ session.by = "none"
    /\ ProcessProposal(t, [work[t] EXCEPT !.base = row.version])
    /\ work' = [work EXCEPT ![t].at = "done"]

Refresh(t) == RefreshStarts(t) \/ RefreshEnds(t)

-----------------------------------------------------------------------------
PropNext ==
    \/ Coordinator \/ Reports
    \/ \E x \in Openers : PostMatter(x) \/ PostResolved(x) \/ ReservationEnds(x)
    \/ \E t \in Tasks : Dispatch(t) \/ Register(t) \/ Submit(t) \/ Refresh(t)

PropSpec == PropInit /\ [][PropNext]_propVars

-----------------------------------------------------------------------------
(* Properties.                                                             *)

(* However often a result is sent, and whatever was decided on it before,  *)
(* each registration of a task is decided on once: a proposal that was     *)
(* applied is not applied again, one that was discarded does not come back *)
(* with better luck (process_proposal, _task_already_settled).             *)
OneVerdictPerDispatch == \A t \in Tasks : decided[t] <= 1 + reopened[t]

(* Two matters that are both live are about different subjects, and no     *)
(* refresh derives a second one from an event that has one, whether they   *)
(* came from messages, from results that were a while away, or after one   *)
(* of them was settled and its reservation ran out; only what was posted   *)
(* outright can repeat another (detect, already_spoken_for).               *)
OneMatterPerSubject ==
    \A x, y \in {z \in Openers \ Posts : matter[z] = "live"} :
        x # y => /\ Subject[x] # Subject[y]
                 /\ {x, y} \cap Tasks # {} => Sources(x) \cap Sources(y) = {}
=============================================================================
