------------------------------- MODULE V1Host -------------------------------
(***************************************************************************)
(* Adapters working against protocol v1 (api_v1.py): they lease rows,      *)
(* render or ask for a last authorization, transmit, and report.  Reports  *)
(* and answers may be lost, late, repeated and reordered, adapters may die *)
(* at any point, and several of them share the queue.                      *)
(*                                                                         *)
(* api_v1 translates: apart from the lease extension it writes nothing of  *)
(* its own, so every action below that changes the Runtime is an action of *)
(* Delivery with the protocol's guards in front.  That this adds up to     *)
(* Delivery again is checked as a refinement.                              *)
(*                                                                         *)
(* The adapter is another program.  Its part (how a claim is worked off)   *)
(* follows the wire contract in api_v1.py and the tests that drive it: one *)
(* claim, one outcome, which it may report any number of times.            *)
(***************************************************************************)
EXTENDS Delivery

VARIABLES
    lease,      \* lease[r][n]: who holds the n-th claim of row r, and how
                \* far the work went; <<r, owner, n>> is the lease_id
    spoken      \* spoken[a]: how often a's message went out to the platform

v1vars == <<vars, lease, spoken>>

(* "text", "unusable", "refused", "outage" and "sent" are outcomes: the    *)
(* report of them is on its way from then on, and may arrive repeatedly.   *)
Outcome == {"text", "unusable", "refused", "outage", "sent"}

Stage == {"none", "held", "asking", "authorized"} \cup Outcome

Claims == 1..MaxClaims

V1TypeOK ==
    /\ TypeOK
    /\ lease \in [Rows -> [Claims -> [by : Owners \cup {NoOwner}, stage : Stage]]]
    /\ spoken \in [Attempts -> Nat]

V1Init ==
    /\ Init
    /\ lease = [r \in Rows |-> [n \in Claims |-> [by |-> NoOwner, stage |-> "none"]]]
    /\ spoken = [a \in Attempts |-> 0]

-----------------------------------------------------------------------------
(* The adapter's side: no action here touches the Runtime's store.         *)

At(r, n, stage) == lease[r][n].stage = stage

Goes(r, n, stage) == lease' = [lease EXCEPT ![r][n].stage = stage]

(* The host's main LLM is done with a render, or gave up.                  *)
FinishRender(r, n, outcome) ==
    /\ outbox[r].kind = "render" /\ At(r, n, "held")
    /\ outcome \in {"text", "unusable", "refused"}
    /\ Goes(r, n, outcome)
    /\ UNCHANGED <<vars, spoken>>

(* No verdict came back.  The last claim of the bound is spared.           *)
LoseContact(r, n) ==
    /\ lease[r][n].stage \in {"held", "asking"}
    /\ n < MaxClaims
    /\ Goes(r, n, "outage")
    /\ UNCHANGED <<vars, spoken>>

(* The platform takes the message, or refuses it.                          *)
Transmit(r, n) ==
    /\ At(r, n, "authorized")
    /\ Goes(r, n, "sent")
    /\ spoken' = [spoken EXCEPT ![outbox[r].attempt] = @ + 1]
    /\ UNCHANGED vars

PlatformRefuses(r, n) ==
    /\ At(r, n, "authorized")
    /\ Goes(r, n, "refused")
    /\ UNCHANGED <<vars, spoken>>

-----------------------------------------------------------------------------
(* POST /v1/outbox/lease, heartbeat and authorize.                         *)

Lease(r, w) ==
    /\ Claim(r, w)
    /\ lease' = [lease EXCEPT ![r][outbox'[r].claims] = [by |-> w, stage |-> "held"]]
    /\ UNCHANGED spoken

(* Mutant: the claim counter in the lease_id is not compared.              *)
NamesOwner(r, n) == outbox[r].owner \in {NoOwner, lease[r][n].by}

(* The report names the claim the row's counter and owner stand for.       *)
NamesClaim(r, n) ==
    outbox[r].claims = n /\ outbox[r].owner \in {NoOwner, lease[r][n].by}

(* _lease_denial() = ""                                                    *)
HoldsLease(r, n) ==
    outbox[r].status = "leased" /\ ~outbox[r].lapsed /\ NamesClaim(r, n)

Heartbeat(r, n) ==
    /\ lease[r][n].stage \in {"held", "asking", "authorized"}
    /\ NamesClaim(r, n)
    /\ Extend(r)
    /\ UNCHANGED <<lease, spoken>>

(* post_action_authorize() checks the lease first ...                      *)
Ask(r, n) ==
    /\ outbox[r].kind = "send" /\ At(r, n, "held")
    /\ Goes(r, n, IF HoldsLease(r, n) THEN "asking" ELSE "refused")
    /\ UNCHANGED <<vars, spoken>>

(* ... then ticks and asks authorize(), which looks at the boundaries and  *)
(* at the attempt, but not at the lease again.  RERENDER is not among the  *)
(* re-coordinations it denies.                                             *)
Permitted(a) == ~boundary /\ attempt[a].state = "ready_to_send"

Verdict(r, n) ==
    /\ At(r, n, "asking")
    /\ Goes(r, n, IF Permitted(outbox[r].attempt) THEN "authorized" ELSE "refused")
    /\ UNCHANGED <<vars, spoken>>

-----------------------------------------------------------------------------
(* POST /v1/outbox/{id}/result: _apply_action_report(), one transaction.   *)
(* A report that does not name the current claim changes nothing, unless   *)
(* it says the message went out; nor does one whose effect is recorded.    *)

Unsettled(r) ==
    \/ Live(outbox[r])
    \/ outbox[r].status = "failed"
       /\ attempt[outbox[r].attempt].state \notin TERMINAL_STATES

Reported(r, n, outcome) ==
    /\ At(r, n, outcome)
    /\ NamesClaim(r, n) /\ Unsettled(r)
    /\ UNCHANGED <<lease, spoken>>

ReportText(r, n) ==
    /\ Reported(r, n, "text")
    /\ attempt[outbox[r].attempt].state \in RenderableStates
    /\ RenderUsable(r)

ReportUnusable(r, n) ==
    /\ Reported(r, n, "unusable")
    /\ RenderUnusable(r)

ReportRefused(r, n) ==
    /\ Reported(r, n, "refused")
    /\ ReportFailed(r)

(* Mutant: status ok without result.sent passes for a delivery.            *)
ReportAnyOk(r, n) ==
    /\ lease[r][n].stage \in {"sent", "refused"} /\ outbox[r].kind = "send"
    /\ attempt[outbox[r].attempt].state \notin {"sent", "resolved"}
    /\ MarkDelivered(r)
    /\ UNCHANGED <<lease, spoken>>

(* A platform success is exempt from the fence: it is an irreversible fact.*)
(* The kind of the row decides what "ok" says of it (row_kind), so unlike  *)
(* a report to POST /delivery this one is always about a send row.         *)
ReportSent(r, n) ==
    /\ At(r, n, "sent") /\ outbox[r].kind = "send"
    /\ attempt[outbox[r].attempt].state \notin {"sent", "resolved"}
    /\ MarkDelivered(r)
    /\ UNCHANGED <<lease, spoken>>

(* Mutant: the claim's attempt is refunded.                                *)
GiveBackRefunded(r, w) ==
    /\ LeasedTo(r, w)
    /\ UpdateRow(r, [Requeued(outbox[r]) EXCEPT !.claims = @ - 1])
    /\ UNCHANGED <<attempt, charged, boundary, pass, cleared, observed>>

(* _requeue_after_authorize_unavailable(): the claim goes back by a plain  *)
(* nack while the budget lasts and by the budget-free requeue after it.    *)
GiveBack(r, w) ==
    IF outbox[r].claims < MaxAttempts THEN Nack(r, w, FALSE) ELSE Requeue(r, w)

ReportOutage(r, n) ==
    /\ Reported(r, n, "outage")
    /\ attempt[outbox[r].attempt].state \in PRE_SEND_STATES
    /\ GiveBack(r, lease[r][n].by)

-----------------------------------------------------------------------------
(* The Runtime on its own.                                                 *)

Quiet == UNCHANGED <<lease, spoken>>

(* RERENDER is recorded on the attempt and leaves its text in place.       *)
Recoordinate(a, d) ==
    /\ ReconcileNext(a, d)
    /\ Quiet

RuntimeStep ==
    /\ \/ AskVerdict
       \/ \E a \in Attempts, r \in Rows : CommitDecided(a, r)
       \/ RoundGivesUp
       \/ \E a \in Attempts, r \in Rows : CommitAtOnce(a, r)
       \/ Sweep
       \/ Tick
       \/ \E c \in MessageClass : Ingest(c)
       \/ ListPreSend
       \/ ReconcileRaises
       \/ BoundaryLifts
       \/ \E a \in Attempts : Ages(a)
       \/ \E r \in Rows : LeaseLapses(r)
       \/ Crash
    /\ Quiet

-----------------------------------------------------------------------------

(* One step of the work on a claim, up to its outcome.                     *)
HostStep(r, n) ==
    \/ \E o \in Outcome : FinishRender(r, n, o)
    \/ LoseContact(r, n)
    \/ Ask(r, n)
    \/ Verdict(r, n)
    \/ Transmit(r, n)
    \/ PlatformRefuses(r, n)

Report(r, n) ==
    \/ ReportText(r, n)
    \/ ReportUnusable(r, n)
    \/ ReportRefused(r, n)
    \/ ReportSent(r, n)
    \/ ReportOutage(r, n)

V1Next ==
    \/ RuntimeStep
    \/ \E a \in Attempts, d \in ReconcileAction : Recoordinate(a, d)
    \/ \E r \in Rows, w \in Owners : Lease(r, w)
    \/ \E r \in Rows, n \in Claims : HostStep(r, n)
    \/ \E r \in Rows, n \in Claims : Heartbeat(r, n)
    \/ \E r \in Rows, n \in Claims : Report(r, n)

V1Spec == V1Init /\ [][V1Next]_v1vars

(* The Runtime owes what it owes in Delivery.  Adapters poll, finish what  *)
(* they hold with some outcome, and leases run out; no report of an        *)
(* outcome has to arrive.                                                  *)
V1LiveSpec ==
    /\ V1Spec /\ Fairness
    /\ \A r \in Rows :
        /\ WF_v1vars(\E w \in Owners : Lease(r, w))
        /\ WF_vars(LeaseLapses(r))
        /\ \A n \in Claims : WF_v1vars(HostStep(r, n))

-----------------------------------------------------------------------------
(* Properties.                                                             *)

(* A message goes out to the platform max_attempts times at most, however  *)
(* many reports are lost and however many outages push the claim counter   *)
(* beyond the budget (README: delivery is at least once, bounded by        *)
(* max_attempts; nack() and reclaim_expired() against requeue()).          *)
TransmissionBudget == \A a \in Attempts : spoken[a] <= MaxAttempts

(* The contact budget is charged for messages the platform took, whichever *)
(* of several claims reports it and whatever became of the claim since     *)
(* (the irreversible_send exemption in _apply_action_report).              *)
ContactsWereMade == \A a \in Attempts : charged[a] > 0 => spoken[a] > 0

(* A claim that is still running ends as its own holder says, never by a   *)
(* late or repeated report of another claim: it fails because its holder   *)
(* was refused or produced nothing usable, goes back to the queue because  *)
(* its holder got no verdict, and is settled because it was rendered or    *)
(* because the message is known to be out (the fences of                   *)
(* _apply_action_report and _requeue_after_authorize_unavailable).         *)
ClaimEndsAsItsHolderSays ==
    [][\A r \in Rows, n \in Claims :
        outbox[r].status = "leased" /\ ~outbox[r].lapsed /\ outbox[r].claims = n =>
            CASE outbox'[r].status = "failed"    -> lease[r][n].stage \in {"refused", "unusable"}
              [] outbox'[r].status = "pending"   -> At(r, n, "outage")
              [] outbox'[r].status = "delivered" -> \/ At(r, n, "text")
                                                    \/ \E m \in Claims : At(r, m, "sent")
              [] OTHER                           -> TRUE]_v1vars

(* Protocol v1 is a translation layer: whatever its adapters do, the store *)
(* sees a behaviour of module Delivery (api_v1.py, module docstring).      *)
OnlyTranslates == Spec

(* Whatever the character decides to say leaves the Runtime or is dropped, *)
(* even if every report is lost: leases lapse, the claim budget runs out,  *)
(* and the attempt behind a failed row is closed.                          *)
EveryAttemptEnds ==
    \A a \in Attempts :
        (attempt[a].state = "committed") ~> (attempt[a].state \notin PRE_SEND_STATES)
=============================================================================
