----------------------------- MODULE Settlement -----------------------------
(***************************************************************************)
(* The books of the two decision engines beside the delivery queue.  Every *)
(* committed attempt is the outcome of one round of runtime_v2 or langchao;*)
(* its engine keeps a durable terminal acknowledgement for the round, and  *)
(* a sent round gets an exposure from which the user model learns.         *)
(* runtime_v2 also keeps an audit of the round's stages, of which the      *)
(* process holds a copy in memory (_audits) that is loaded on demand and   *)
(* is not rolled back with the database.                                   *)
(*                                                                         *)
(* The engines are informed by hooks inside the transaction of a protocol  *)
(* v1 report (_apply_action_report): a hook that raises takes the whole    *)
(* report with it.                                                         *)
(***************************************************************************)
EXTENDS V1Host

VARIABLES
    engine,     \* engine[a]: the engine whose round committed attempt a
    ack,        \* ack[a]: terminal acknowledgement of the round, and its row
    exposures,  \* send rows an exposure was prepared for
    audit,      \* audit[a]: stages of the round on record (runtime_v2)
    recorder    \* recorder[a]: the process's copy of the audit, {} if not loaded

bookvars == <<engine, ack, exposures, audit, recorder>>
roundvars == <<v1vars, bookvars>>

Engine == {"runtime_v2", "langchao"}

AuditStage == {"committed", "rendered", "send_ack", "send_fail", "reconciled"}

NoAck == [kind |-> "none", row |-> 0]

BooksTypeOK ==
    /\ V1TypeOK
    /\ engine \in [Attempts -> Engine \cup {"none"}]
    /\ ack \in [Attempts -> [kind : {"none", "sent", "failed"}, row : Rows \cup {0}]]
    /\ exposures \subseteq Rows
    /\ audit \in [Attempts -> SUBSET AuditStage]
    /\ recorder \in [Attempts -> SUBSET AuditStage]

RoundInit ==
    /\ V1Init
    /\ engine = [a \in Attempts |-> "none"]
    /\ ack = [a \in Attempts |-> NoAck]
    /\ exposures = {}
    /\ audit = [a \in Attempts |-> {}]
    /\ recorder = [a \in Attempts |-> {}]

-----------------------------------------------------------------------------
(* The audit recorder (decision_v2_audit.py).                              *)

CurrentStage(S) ==
    CHOOSE s \in S :
        \/ s = "reconciled"
        \/ s \in {"send_ack", "send_fail"} /\ "reconciled" \notin S
        \/ s = "rendered" /\ S \subseteq {"committed", "rendered"}
        \/ s = "committed" /\ S = {"committed"}

AllowedNext(s) ==
    CASE s = "committed"                -> {"rendered", "reconciled"}
      [] s = "rendered"                 -> {"send_ack", "send_fail", "reconciled"}
      [] s \in {"send_ack", "send_fail"} -> {"reconciled"}
      [] s = "reconciled"               -> {}

(* record(): a stage already recorded with the same facts is accepted.     *)
Recordable(S, s) == s \in S \/ s \in AllowedNext(CurrentStage(S))

(* What _require_audit() works on: the copy in memory, or the audit on     *)
(* record, which is then loaded.                                           *)
Loaded(a) == IF recorder[a] = {} THEN audit[a] ELSE recorder[a]

-----------------------------------------------------------------------------
(* The hooks.                                                              *)

StageOf(kind) == IF kind = "sent" THEN "send_ack" ELSE "send_fail"

(* Mutant: the platform's word for a failure is stored as it comes.        *)
ThisAckAsReported(r, kind) ==
    [kind |-> IF kind = "failed" THEN "refused" ELSE kind, row |-> r]

ThisAck(r, kind) == [kind |-> kind, row |-> r]

(* Mutant: a second acknowledgement replaces the first.                    *)
SettleAgain(a, r, kind) ==
    /\ ack' = [ack EXCEPT ![a] = ThisAck(r, kind)]
    /\ exposures' = exposures \cup (IF kind = "sent" THEN {r} ELSE {})

(* The terminal acknowledgement is set once, and repeating it is accepted; *)
(* the exposure is keyed by the send row (mark_committed_decision_ack_once,*)
(* settle_terminal, prepare_exposure_and_expectation).                     *)
Settle(a, r, kind) ==
    /\ ack[a] \in {NoAck, ThisAck(r, kind)}
    /\ ack' = [ack EXCEPT ![a] = ThisAck(r, kind)]
    /\ exposures' = exposures \cup (IF kind = "sent" THEN {r} ELSE {})

(* V2RuntimeCoordinator.after_legacy_send_ack(): a round that is loaded    *)
(* goes by its recorder, any other by the acknowledgement on record.       *)
AcknowledgeV2(a, r, kind) ==
    LET stages == Loaded(a) \cup {StageOf(kind), "reconciled"} IN
    IF recorder[a] = {} /\ ack[a] # NoAck
    THEN /\ ack[a] = ThisAck(r, kind)
         /\ recorder' = [recorder EXCEPT ![a] = audit[a]]
         /\ UNCHANGED <<ack, exposures, audit>>
    ELSE /\ Recordable(Loaded(a), StageOf(kind))
         /\ Settle(a, r, kind)
         /\ audit' = [audit EXCEPT ![a] = stages]
         /\ recorder' = [recorder EXCEPT ![a] = stages]

(* LangchaoLiveRunner.after_legacy_send_ack()                              *)
AcknowledgeLangchao(a, r, kind) ==
    /\ Settle(a, r, kind)
    /\ UNCHANGED <<audit, recorder>>

(* Mutant: only the live runner is told.                                   *)
AcknowledgeLangchaoOnly(a, r, kind) ==
    /\ IF engine[a] = "langchao" THEN AcknowledgeLangchao(a, r, kind)
                                 ELSE UNCHANGED <<ack, exposures, audit, recorder>>
    /\ UNCHANGED engine

(* _terminal_coordinator(): the engine that committed the row is told.     *)
Acknowledge(a, r, kind) ==
    /\ IF engine[a] = "langchao" THEN AcknowledgeLangchao(a, r, kind)
                                 ELSE AcknowledgeV2(a, r, kind)
    /\ UNCHANGED engine

(* after_legacy_rendered()                                                 *)
NoteRendered(a) ==
    /\ IF engine[a] = "langchao" THEN UNCHANGED <<audit, recorder>>
       ELSE LET stages == Loaded(a) \cup {"rendered"} IN
            /\ Recordable(Loaded(a), "rendered")
            /\ audit' = [audit EXCEPT ![a] = stages]
            /\ recorder' = [recorder EXCEPT ![a] = stages]
    /\ UNCHANGED <<engine, ack, exposures>>

(* _settle_abandoned_round(): a langchao round whose render row has just   *)
(* failed is closed, unless it is closed already.                          *)
SettleAbandoned(a, r) ==
    /\ IF /\ engine[a] = "langchao" /\ outbox'[r].status = "failed"
          /\ ack[a] = NoAck
       THEN Settle(a, r, "failed")
       ELSE UNCHANGED <<ack, exposures>>
    /\ UNCHANGED <<engine, audit, recorder>>

-----------------------------------------------------------------------------
(* The reports, with their hooks, in one transaction each.                 *)

Applied(r, n) ==
    LET a == outbox[r].attempt IN
    \/ ReportText(r, n) /\ NoteRendered(a)
    \/ ReportUnusable(r, n) /\ NoteRendered(a)
    \/ /\ ReportRefused(r, n)
       /\ IF outbox[r].kind = "render" THEN SettleAbandoned(a, r)
                                       ELSE Acknowledge(a, r, "failed")
    \/ ReportSent(r, n) /\ Acknowledge(a, r, "sent")
    \/ ReportOutage(r, n) /\ UNCHANGED bookvars

(* A statement of the hook fails after the recorder took the stage: a lock *)
(* or statement timeout, or a prediction that cannot be made.  Everything  *)
(* but the copy in memory is rolled back.                                  *)
HookFails(r, n) ==
    LET a == outbox[r].attempt IN
    /\ engine[a] = "runtime_v2" /\ outbox[r].kind = "send"
    /\ \E kind \in {"sent", "failed"} :
        /\ At(r, n, IF kind = "sent" THEN "sent" ELSE "refused")
        /\ IF kind = "sent" THEN attempt[a].state \notin {"sent", "resolved"}
                            ELSE NamesClaim(r, n) /\ Unsettled(r)
        /\ recorder[a] # {} \/ ack[a] = NoAck
        /\ Recordable(Loaded(a), StageOf(kind))
        /\ \E S \in {{StageOf(kind)}, {StageOf(kind), "reconciled"}} :
               recorder' = [recorder EXCEPT ![a] = Loaded(a) \cup S]
    /\ UNCHANGED <<v1vars, engine, ack, exposures, audit>>

-----------------------------------------------------------------------------
(* The rest of the system.                                                 *)

(* A round of either engine ends in a commit (commit_candidate_with_       *)
(* snapshot, execute_in_transaction): the attempt, its render row and the  *)
(* round's own record in one transaction.                                  *)
CommitRound(a, r, e) ==
    /\ IF e = "runtime_v2" THEN CommitDecided(a, r) ELSE CommitAtOnce(a, r)
    /\ Quiet
    /\ engine' = [engine EXCEPT ![a] = e]
    /\ LET stages == IF e = "runtime_v2" THEN {"committed"} ELSE {} IN
        /\ audit' = [audit EXCEPT ![a] = stages]
        /\ recorder' = [recorder EXCEPT ![a] = stages]
    /\ UNCHANGED <<ack, exposures>>

(* The process dies and a new one starts: nothing is loaded.               *)
Restart ==
    /\ \E a \in Attempts : recorder[a] # {}
    /\ recorder' = [a \in Attempts |-> {}]
    /\ pass' = NoPass
    /\ cleared' = FALSE
    /\ UNCHANGED <<attempt, outbox, charged, boundary, observed, lease, spoken>>
    /\ UNCHANGED <<engine, ack, exposures, audit>>

Elsewhere ==
    /\ \/ Quiet /\ \/ AskVerdict \/ RoundGivesUp \/ Sweep \/ Tick \/ ListPreSend \/ BoundaryLifts
                   \/ ReconcileRaises
                   \/ \E c \in MessageClass : Ingest(c)
                   \/ \E a \in Attempts : Ages(a)
                   \/ \E r \in Rows : LeaseLapses(r)
       \/ \E a \in Attempts, d \in ReconcileAction : Recoordinate(a, d)
       \/ \E r \in Rows, w \in Owners : Lease(r, w)
       \/ \E r \in Rows, n \in Claims : HostStep(r, n) \/ Heartbeat(r, n)
    /\ UNCHANGED bookvars

RoundNext ==
    \/ \E a \in Attempts, r \in Rows, e \in Engine : CommitRound(a, r, e)
    \/ \E r \in Rows, n \in Claims : Applied(r, n) \/ HookFails(r, n)
    \/ Restart
    \/ Elsewhere

RoundSpec == RoundInit /\ [][RoundNext]_roundvars

-----------------------------------------------------------------------------
(* Properties.                                                             *)

(* The books close once and truthfully, whatever reports are lost, late,   *)
(* repeated or rolled back: a round is "sent" only if its message went     *)
(* out, and its exposure is prepared in the same step (module RoundBook).  *)
Book == INSTANCE RoundBook WITH
    Rounds    <- Attempts,
    book      <- [a \in Attempts |->
                    IF engine[a] = "none" THEN "none"
                    ELSE IF ack[a] = NoAck THEN "open" ELSE ack[a].kind],
    said      <- {a \in Attempts : spoken[a] > 0},
    exposures <- {outbox[r].attempt : r \in exposures}

KeepsTheBooks == Book!Spec

(* The queue, the engine's books and the audit tell the same story,        *)
(* although the copy of an audit in memory survives rollbacks and is lost  *)
(* in restarts: a contact is charged only together with a round booked as  *)
(* sent; an attempt that is waiting for its answer or got one is never     *)
(* booked as failed; the audit on record names the acknowledgement that    *)
(* was booked and no other (api_v1.py, _apply_action_report: one           *)
(* transaction), and the copy in memory never lags behind it.              *)
BooksAgree ==
    \A a \in Attempts :
        /\ charged[a] > 0 => ack[a].kind = "sent"
        /\ ack[a].kind = "failed" => attempt[a].state \in TERMINAL_STATES \ {"resolved"}
        /\ recorder[a] # {} => audit[a] \subseteq recorder[a]
        /\ engine[a] = "runtime_v2" =>
            /\ ("send_ack" \in audit[a]) <=> (ack[a].kind = "sent")
            /\ ("send_fail" \in audit[a]) <=> (ack[a].kind = "failed")

(* api_v1.py of a success report: "It must reach the Reducer's late-report *)
(* path so v2 can record an exposure without resending" (_already_settled).*)
(* No hook refuses a message that went out and is not on the books.        *)
LateSendIsBooked ==
    \A r \in Rows, n \in Claims :
        At(r, n, "sent") =>
            LET a == outbox[r].attempt IN
            /\ ack[a] \in {NoAck, ThisAck(r, "sent")}
            /\ engine[a] = "runtime_v2" => Recordable(Loaded(a), "send_ack")
=============================================================================
