----------------------------- MODULE Scheduler -----------------------------
(***************************************************************************)
(* The endogenous loop of the sidecar (scheduler.py) with the round it     *)
(* runs in production (cli.py, run_v2_round) and the way the process shuts *)
(* down.                                                                   *)
(*                                                                         *)
(* Two threads of control meet here.  The loop is a coroutine: it plans,   *)
(* reading the dispatch gate, sleeps up to an interval, and starts a round *)
(* if the gate it read was open.  The round runs in a worker thread that   *)
(* cannot be cancelled: it asks whether a boundary stands, may commit one  *)
(* attempt later, and goes on with maintenance.  It may raise before the   *)
(* commit and after it, and the retry that follows runs on the gate of the *)
(* round that raised.  Planning reads the database outside any handler, so *)
(* an exception there is the end of the loop.  Messages of the user and    *)
(* deliveries happen at any point in between.                              *)
(*                                                                         *)
(* How long the loop sleeps is abstracted: it may wake at any moment.      *)
(***************************************************************************)
EXTENDS Naturals

CONSTANT MaxInFlight    \* bound on the attempts awaiting delivery

ASSUME SchedulerAssumption == MaxInFlight \in Nat \ {0}

VARIABLES
    loop,       \* where the coroutine is; "crashed" by an exception
    gate,       \* last_gate: whether a round may run, as of the last replan()
    backoff,    \* _error_backoff is set
    planned,    \* the reason in last_plan: read from signals, or a back-off
    worker,     \* the worker thread of the round that was started last
    latch,      \* _round_in_flight
    phase,      \* the life of the process: up, draining, closed or left open
    inflight,   \* attempts in a state before "sent"
    reasons     \* what else speaks against contact right now

vars == <<loop, gate, backoff, planned, worker, latch, phase, inflight, reasons>>

Reason == {"foreground_pause", "boundary", "quiet_hours"}

Running == {"queued", "deciding", "permitted", "tail"}

TypeOK ==
    /\ loop \in {"off", "plan", "wait", "round", "over", "crashed"}
    /\ gate \in {"open", "shut"} /\ backoff \in {"none", "due"}
    /\ planned \in {"none", "signals", "error_backoff"}
    /\ latch \in {"set", "clear"}
    /\ worker \in {"none", "cancelled", "ok", "raised"} \cup Running
    /\ phase \in {"up", "draining", "closed", "left"}
    /\ inflight \in 0..MaxInFlight
    /\ reasons \subseteq Reason

Init ==
    /\ loop = "off" /\ gate = "open" /\ backoff = "none" /\ planned = "none"
    /\ worker = "none" /\ latch = "clear" /\ phase = "up"
    /\ inflight = 0 /\ reasons = {}
-----------------------------------------------------------------------------
(* The coroutine.                                                          *)

Start ==
    /\ phase = "up" /\ loop = "off"
    /\ loop' = "plan"
    /\ UNCHANGED <<gate, backoff, planned, worker, latch, phase, inflight, reasons>>

(* Mutant: an attempt in preparation does not close the gate.              *)
GateIgnoringAttempts == IF reasons = {} THEN "open" ELSE "shut"

(* should_dispatch()                                                       *)
DispatchGate ==
    IF reasons = {} /\ inflight = 0 THEN "open" ELSE "shut"

(* Mutant: the reason is kept in place of the verdict.                     *)
PlanKeepingReasons ==
    /\ loop = "plan"
    /\ loop' = "wait" /\ backoff' = "none"
    /\ IF backoff = "due"
       THEN planned' = "error_backoff" /\ UNCHANGED gate
       ELSE /\ planned' = "signals"
            /\ gate' = IF reasons = {} THEN DispatchGate ELSE CHOOSE r \in reasons : TRUE
    /\ UNCHANGED <<worker, latch, phase, inflight, reasons>>

(* One turn of _run(): replan() reads the gate.  After a round that failed *)
(* the loop sleeps the back-off instead, and the gate stays as it was.     *)
Plan ==
    /\ loop = "plan"
    /\ loop' = "wait" /\ backoff' = "none"
    /\ \/ /\ backoff = "none"
          /\ planned' = "signals" /\ gate' = DispatchGate
       \/ /\ backoff = "due"
          /\ planned' = "error_backoff" /\ UNCHANGED gate
    /\ UNCHANGED <<worker, latch, phase, inflight, reasons>>

(* replan() reads the database outside any handler: its exception ends the *)
(* task, and nobody starts another while the process is up.                *)
PlanFails ==
    /\ loop = "plan" /\ backoff = "none"
    /\ loop' = "crashed"
    /\ UNCHANGED <<gate, backoff, planned, worker, latch, phase, inflight, reasons>>

(* The sleep is over and the gate was closed.                              *)
WakeClosed ==
    /\ loop = "wait" /\ gate = "shut"
    /\ loop' = "plan"
    /\ UNCHANGED <<gate, backoff, planned, worker, latch, phase, inflight, reasons>>

(* The sleep is over and the gate was open: the latch is set and the round *)
(* handed to the executor, whatever happened since the gate was read.      *)
WakeOpen ==
    /\ loop = "wait" /\ gate = "open"
    /\ loop' = "round" /\ latch' = "set" /\ worker' = "queued"
    /\ UNCHANGED <<gate, backoff, planned, phase, inflight, reasons>>

(* Mutant: a round that raised makes _run() return.                        *)
ResumeReturning ==
    /\ loop = "round" /\ worker \in {"ok", "raised"}
    /\ loop' = IF worker = "raised" THEN "over" ELSE "plan"
    /\ UNCHANGED <<gate, backoff, planned, worker, latch, phase, inflight, reasons>>

(* The coroutine learns how the round ended.                               *)
Resume ==
    /\ loop = "round" /\ worker \in {"ok", "raised"}
    /\ loop' = "plan"
    /\ backoff' = IF worker = "raised" THEN "due" ELSE "none"
    /\ UNCHANGED <<gate, planned, worker, latch, phase, inflight, reasons>>
-----------------------------------------------------------------------------
(* The worker thread: run_v2_round().                                      *)

PickUp ==
    /\ worker = "queued" /\ worker' = "deciding"
    /\ UNCHANGED <<loop, gate, backoff, planned, latch, phase, inflight, reasons>>

(* The router's engine asks whether a boundary stands, and looks at        *)
(* nothing else the gate stands for.                                       *)
AskBoundary ==
    /\ worker = "deciding" /\ "boundary" \notin reasons
    /\ worker' = "permitted"
    /\ UNCHANGED <<loop, gate, backoff, planned, latch, phase, inflight, reasons>>

(* A boundary stands, or the engine decides to rest.                       *)
Rest ==
    /\ worker \in {"deciding", "permitted"} /\ worker' = "tail"
    /\ UNCHANGED <<loop, gate, backoff, planned, latch, phase, inflight, reasons>>

(* The attempt decided on is committed, on the answer received before.     *)
CommitAttempt ==
    /\ worker = "permitted" /\ inflight < MaxInFlight
    /\ worker' = "tail" /\ inflight' = inflight + 1
    /\ UNCHANGED <<loop, gate, backoff, planned, latch, phase, reasons>>

(* Maintenance and consolidation are done.  _call_round() clears the latch *)
(* in the thread itself.                                                   *)
RoundEnds ==
    /\ worker = "tail" /\ worker' = "ok" /\ latch' = "clear"
    /\ UNCHANGED <<loop, gate, backoff, planned, phase, inflight, reasons>>

(* The decision fails, or what follows the commit does: consolidation      *)
(* (cli.py), the shadow runner of the other engine.                        *)
RoundRaises ==
    /\ worker \in Running \ {"queued"}
    /\ worker' = "raised" /\ latch' = "clear"
    /\ UNCHANGED <<loop, gate, backoff, planned, phase, inflight, reasons>>
-----------------------------------------------------------------------------
(* Shutdown (cli.py, run()).                                               *)

(* Mutant: the coroutine clears the latch when it is cancelled.            *)
StopClearing ==
    /\ phase = "up" /\ loop \notin {"off", "over"}
    /\ phase' = "draining" /\ loop' = "over" /\ latch' = "clear"
    /\ worker' = IF worker = "queued" THEN "cancelled" ELSE worker
    /\ UNCHANGED <<gate, backoff, planned, inflight, reasons>>

(* stop(): the coroutine is cancelled wherever it waits.  That takes a job *)
(* out of the executor's queue, with its latch set; one that runs goes on. *)
Stop ==
    /\ phase = "up" /\ loop \notin {"off", "over"}
    /\ phase' = "draining" /\ loop' = "over"
    /\ worker' = IF worker = "queued" THEN "cancelled" ELSE worker
    /\ UNCHANGED <<gate, backoff, planned, latch, inflight, reasons>>

(* Drained: the database is closed.                                        *)
Close ==
    /\ phase = "draining" /\ latch = "clear" /\ phase' = "closed"
    /\ UNCHANGED <<loop, gate, backoff, planned, worker, latch, inflight, reasons>>

(* The grace period is over with the latch set: nothing is closed.         *)
GiveUp ==
    /\ phase = "draining" /\ latch = "set" /\ phase' = "left"
    /\ UNCHANGED <<loop, gate, backoff, planned, worker, latch, inflight, reasons>>

(* The process ends, or dies; the next one finds the attempts as they are. *)
Reboot ==
    /\ loop' = "off" /\ gate' = "open" /\ backoff' = "none" /\ planned' = "none"
    /\ worker' = "none" /\ latch' = "clear" /\ phase' = "up"
    /\ UNCHANGED <<inflight, reasons>>
-----------------------------------------------------------------------------
(* The world.                                                              *)

(* A message of the user pauses contact, may declare a boundary and may    *)
(* close what is not sent (runtime.py, process_user_message).              *)
UserSpeaks ==
    /\ \E declared \in {{}, {"boundary"}} :
        reasons' = reasons \cup {"foreground_pause"} \cup declared
    /\ inflight' \in 0..inflight
    /\ UNCHANGED <<loop, gate, backoff, planned, worker, latch, phase>>

QuietHoursBegin ==
    /\ reasons' = reasons \cup {"quiet_hours"}
    /\ UNCHANGED <<loop, gate, backoff, planned, worker, latch, phase, inflight>>

Lifts(r) ==
    /\ r \in reasons /\ reasons' = reasons \ {r}
    /\ UNCHANGED <<loop, gate, backoff, planned, worker, latch, phase, inflight>>

(* An attempt is sent or closed (module Delivery).                         *)
Delivered ==
    /\ inflight > 0 /\ inflight' = inflight - 1
    /\ UNCHANGED <<loop, gate, backoff, planned, worker, latch, phase, reasons>>

WorkerStep ==
    PickUp \/ AskBoundary \/ Rest \/ CommitAttempt \/ RoundEnds \/ RoundRaises

Next ==
    \/ Start \/ Plan \/ PlanFails \/ WakeClosed \/ WakeOpen \/ Resume
    \/ WorkerStep
    \/ Stop \/ Close \/ GiveUp \/ Reboot
    \/ UserSpeaks \/ QuietHoursBegin \/ Delivered
    \/ \E r \in Reason : Lifts(r)

Spec == Init /\ [][Next]_vars

(* The loop and its worker get to run, and what is committed is delivered  *)
(* or closed in the end (EveryAttemptEnds of module V1Host).               *)
LiveSpec ==
    /\ Spec
    /\ WF_vars(Start) /\ WF_vars(Plan) /\ WF_vars(WakeClosed) /\ WF_vars(WakeOpen)
    /\ WF_vars(Resume) /\ WF_vars(WorkerStep) /\ WF_vars(Delivered)
-----------------------------------------------------------------------------
(* A round whose gate was read commits a contact only with no other one in *)
(* preparation, although the gate is read up to an interval before the     *)
(* commit; what two contacts in preparation take is a retry after a round  *)
(* that raised, the only one to run on a gate nobody read for it           *)
(* (replan(), _run()).                                                     *)
OnlyRetriesOverlap ==
    [][inflight' > inflight => inflight = 0 \/ planned = "error_backoff"]_vars

(* The database is closed only when no round runs on it, however the stop  *)
(* and the worker thread interleave (cli.py: "leaving Runtime/database     *)
(* open instead of racing the worker").                                    *)
NoRoundAfterClose == phase = "closed" => worker \notin Running

(* As long as planning does not raise the loop keeps thinking: failing     *)
(* rounds, closed gates and back-offs never end it while the process is up *)
(* (_run_round(): "a broken round must not kill the loop").                *)
KeepsThinking ==
    <>[](phase = "up" /\ loop \notin {"off", "crashed"} /\ reasons = {})
        => []<>(loop = "round")
=============================================================================
