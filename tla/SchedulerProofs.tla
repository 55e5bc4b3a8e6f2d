--------------------------- MODULE SchedulerProofs ---------------------------
(* What is proved of Scheduler for every bound: the types, that a database  *)
(* is closed under no round, and that only retries prepare a contact beside *)
(* another one.                                                             *)
EXTENDS Scheduler, TLAPS

(* What makes closing safe: a set latch outlives the coroutine, and no     *)
(* round starts once the loop is over.                                     *)
CloseInv ==
    /\ TypeOK
    /\ worker \in Running => latch = "set"
    /\ phase # "up" => loop = "over"
    /\ phase = "closed" => latch = "clear"

(* What makes a stale gate safe, up to the commit: a loop that waits at an *)
(* open gate it read, and a round started there, have nothing in flight.   *)
GateInv ==
    /\ CloseInv
    /\ loop \in {"off", "plan", "wait", "crashed"} => worker \notin Running
    /\ planned # "error_backoff" =>
        /\ loop = "wait" /\ gate = "open" => planned = "signals" /\ inflight = 0
        /\ worker \in {"queued", "deciding", "permitted"} => inflight = 0

LEMMA MaxPositive == MaxInFlight \in Nat /\ MaxInFlight > 0
  BY SchedulerAssumption DEF SchedulerAssumption

LEMMA InitClose == Init => CloseInv
  BY MaxPositive DEF Init, CloseInv, TypeOK, Running, Reason

LEMMA NextClose == CloseInv /\ [Next]_vars => CloseInv'
<1> SUFFICES ASSUME CloseInv, [Next]_vars PROVE CloseInv'
  OBVIOUS
<1> USE MaxPositive DEF CloseInv, TypeOK, Running, Reason
<1>1. CASE UNCHANGED vars
  BY <1>1 DEF vars
<1>2. CASE Start
  BY <1>2 DEF Start
<1>3. CASE Plan
  BY <1>3 DEF Plan, DispatchGate
<1>19. CASE PlanFails
  BY <1>19 DEF PlanFails
<1>4. CASE WakeClosed
  BY <1>4 DEF WakeClosed
<1>5. CASE WakeOpen
  BY <1>5 DEF WakeOpen
<1>6. CASE Resume
  BY <1>6 DEF Resume
<1>7. CASE PickUp
  BY <1>7 DEF PickUp
<1>8. CASE AskBoundary
  BY <1>8 DEF AskBoundary
<1>20. CASE Rest
  BY <1>20 DEF Rest
<1>21. CASE CommitAttempt
  BY <1>21 DEF CommitAttempt
<1>9. CASE RoundEnds
  BY <1>9 DEF RoundEnds
<1>10. CASE RoundRaises
  BY <1>10 DEF RoundRaises
<1>11. CASE Stop
  BY <1>11 DEF Stop
<1>12. CASE Close
  BY <1>12 DEF Close
<1>13. CASE GiveUp
  BY <1>13 DEF GiveUp
<1>14. CASE Reboot
  BY <1>14 DEF Reboot
<1>15. CASE UserSpeaks
  <2>1. inflight' \in 0..MaxInFlight /\ inflight' <= inflight
    BY <1>15 DEF UserSpeaks
  <2>2. reasons' \subseteq Reason
    BY <1>15 DEF UserSpeaks
  <2> QED
    BY <1>15, <2>1, <2>2 DEF UserSpeaks
<1>16. CASE QuietHoursBegin
  BY <1>16 DEF QuietHoursBegin
<1>17. CASE Delivered
  BY <1>17 DEF Delivered
<1>18. CASE \E r \in Reason : Lifts(r)
  BY <1>18 DEF Lifts
<1> QED
  BY <1>1, <1>2, <1>3, <1>4, <1>5, <1>6, <1>7, <1>8, <1>9, <1>10, <1>11,
     <1>12, <1>13, <1>14, <1>15, <1>16, <1>17, <1>18, <1>19, <1>20, <1>21
     DEF Next, WorkerStep

(* Every state has the types of TypeOK.                                    *)
THEOREM TypeCorrect == Spec => []TypeOK
<1>1. CloseInv => TypeOK
  BY DEF CloseInv
<1> QED
  BY InitClose, NextClose, <1>1, PTL DEF Spec

(* Closing the database never races a round: the latch is cleared by the   *)
(* worker thread alone, so a coroutine cancelled in the middle of a round  *)
(* does not pass for a drained one.                                        *)
THEOREM CloseIsSafe == Spec => []NoRoundAfterClose
<1>1. CloseInv => NoRoundAfterClose
  BY DEF CloseInv, NoRoundAfterClose, TypeOK
<1> QED
  BY InitClose, NextClose, <1>1, PTL DEF Spec

LEMMA NextGate == GateInv /\ [Next]_vars => GateInv'
<1> SUFFICES ASSUME GateInv, [Next]_vars PROVE GateInv'
  OBVIOUS
<1>1. CloseInv'
  BY NextClose DEF GateInv
<1> USE MaxPositive
    DEF GateInv, CloseInv, TypeOK, Running
<1>2. CASE UNCHANGED vars
  BY <1>1, <1>2 DEF vars
<1>3. CASE Start
  BY <1>1, <1>3 DEF Start
<1>4. CASE Plan
  BY <1>1, <1>4 DEF Plan, DispatchGate
<1>20. CASE PlanFails
  BY <1>1, <1>20 DEF PlanFails
<1>5. CASE WakeClosed
  BY <1>1, <1>5 DEF WakeClosed
<1>6. CASE WakeOpen
  BY <1>1, <1>6 DEF WakeOpen
<1>7. CASE Resume
  BY <1>1, <1>7 DEF Resume
<1>8. CASE PickUp
  BY <1>1, <1>8 DEF PickUp
<1>9. CASE AskBoundary
  BY <1>1, <1>9 DEF AskBoundary
<1>21. CASE Rest
  BY <1>1, <1>21 DEF Rest
<1>22. CASE CommitAttempt
  BY <1>1, <1>22 DEF CommitAttempt
<1>10. CASE RoundEnds
  BY <1>1, <1>10 DEF RoundEnds
<1>11. CASE RoundRaises
  BY <1>1, <1>11 DEF RoundRaises
<1>12. CASE Stop
  BY <1>1, <1>12 DEF Stop
<1>13. CASE Close
  BY <1>1, <1>13 DEF Close
<1>14. CASE GiveUp
  BY <1>1, <1>14 DEF GiveUp
<1>15. CASE Reboot
  BY <1>1, <1>15 DEF Reboot
<1>16. CASE UserSpeaks
  <2>1. inflight' \in Nat /\ inflight' <= inflight
    BY <1>16 DEF UserSpeaks
  <2> QED
    BY <1>1, <1>16, <2>1 DEF UserSpeaks
<1>17. CASE QuietHoursBegin
  BY <1>1, <1>17 DEF QuietHoursBegin
<1>18. CASE Delivered
  BY <1>1, <1>18 DEF Delivered
<1>19. CASE \E r \in Reason : Lifts(r)
  BY <1>1, <1>19 DEF Lifts
<1> QED
  BY <1>2, <1>3, <1>4, <1>5, <1>6, <1>7, <1>8, <1>9, <1>10, <1>11, <1>12,
     <1>13, <1>14, <1>15, <1>16, <1>17, <1>18, <1>19, <1>20, <1>21, <1>22
     DEF Next, WorkerStep

LEMMA StepOverlap ==
    GateInv /\ [Next]_vars =>
        (inflight' > inflight => inflight = 0 \/ planned = "error_backoff")
<1> SUFFICES ASSUME GateInv, [Next]_vars, inflight' > inflight
             PROVE inflight = 0 \/ planned = "error_backoff"
  OBVIOUS
<1>1. inflight \in 0..MaxInFlight /\ MaxInFlight \in Nat
  BY MaxPositive DEF GateInv, CloseInv, TypeOK
<1>2. CASE CommitAttempt
  BY <1>2 DEF CommitAttempt, GateInv
<1>3. CASE UserSpeaks
  <2>1. inflight' \in 0..inflight
    BY <1>3 DEF UserSpeaks
  <2>2. ~(inflight' > inflight)
    BY <1>1, <2>1
  <2> QED
    BY <2>2
<1>4. CASE Delivered
  BY <1>1, <1>4 DEF Delivered
<1>5. ASSUME inflight' = inflight PROVE FALSE
  BY <1>1, <1>5
<1>6. ASSUME ~CommitAttempt, ~UserSpeaks, ~Delivered PROVE FALSE
  <2>1. inflight' = inflight
    BY <1>6 DEF Next, vars, WorkerStep, Start, Plan, PlanFails, WakeClosed,
       WakeOpen, Resume, PickUp, AskBoundary, Rest, RoundEnds, RoundRaises,
       Stop, Close, GiveUp, Reboot, QuietHoursBegin, Lifts
  <2> QED
    BY <1>5, <2>1
<1> QED
  BY <1>2, <1>3, <1>4, <1>6

(* Every contact added to one in preparation was committed by a retry: a   *)
(* gate read for the round may be stale, but in one direction only.        *)
THEOREM OverlapTakesARetry == Spec => OnlyRetriesOverlap
<1>1. Init => GateInv
  BY InitClose DEF Init, GateInv, Running
<1>2. GateInv /\ [Next]_vars => GateInv'
  BY NextGate
<1>3. GateInv /\ [Next]_vars =>
        [inflight' > inflight => inflight = 0 \/ planned = "error_backoff"]_vars
  BY StepOverlap
<1> QED
  BY <1>1, <1>2, <1>3, PTL DEF Spec, OnlyRetriesOverlap
=============================================================================
