--------------------------- MODULE AttemptStates ---------------------------
(***************************************************************************)
(* The action-attempt state machine of companion_runtime/action.py: the    *)
(* life of one intention to contact the user, from the moment it is        *)
(* committed until it is answered, dropped or lost.  "committed" is not    *)
(* "sent": an attempt that has left the Runtime is exactly one that        *)
(* reached "sent".                                                         *)
(*                                                                         *)
(* "none" is the state of an attempt identifier no row exists for yet.     *)
(* "rendering" is only ever passed through inside one transaction (the     *)
(* reducer moves committed -> rendering -> ready_to_send or failed before  *)
(* it commits), so no other transaction observes it; the same holds for    *)
(* "proposed".  They are kept because the handlers test for them.          *)
(***************************************************************************)

PRE_SEND_STATES == {"proposed", "committed", "rendering", "ready_to_send"}

IN_FLIGHT_STATES == PRE_SEND_STATES \cup {"sent"}

TERMINAL_STATES == {"resolved", "aborted", "expired", "failed"}

AttemptState == IN_FLIGHT_STATES \cup TERMINAL_STATES

(* Mutant: a sent message may be aborted.                                  *)
TransitionsAbortingSent ==
    [s \in AttemptState |->
        CASE s = "proposed"      -> {"committed", "aborted"}
          [] s = "committed"     -> {"rendering", "aborted", "expired", "resolved"}
          [] s = "rendering"     -> {"ready_to_send", "failed", "aborted", "expired"}
          [] s = "ready_to_send" -> {"sent", "aborted", "expired", "failed"}
          [] s = "sent"          -> {"resolved", "aborted"}
          [] OTHER               -> {}]

TRANSITIONS ==
    [s \in AttemptState |->
        CASE s = "proposed"      -> {"committed", "aborted"}
          [] s = "committed"     -> {"rendering", "aborted", "expired", "resolved"}
          [] s = "rendering"     -> {"ready_to_send", "failed", "aborted", "expired"}
          [] s = "ready_to_send" -> {"sent", "aborted", "expired", "failed"}
          [] s = "sent"          -> {"resolved"}
          [] OTHER               -> {}]

(* transition(): asking for the state one is already in is a no-op; any    *)
(* other move outside the table raises IllegalTransition and rolls back.   *)
CanMove(from, to) == from = to \/ to \in TRANSITIONS[from]

(* States a render result can still be applied to.                         *)
RenderableStates == {"committed", "rendering"}

(* Mutant: the status of the row is written to the attempt.                *)
UndeliverableAsItsRow(s) == IF s = "ready_to_send" THEN "cancelled" ELSE "failed"

(* _terminate_undeliverable_attempt(): where an attempt that can never be  *)
(* delivered ends.  A sent or closed attempt is history and stays put.     *)
UndeliverableState(s) ==
    CASE s = "proposed"                                  -> "aborted"
      [] s \in {"committed", "rendering", "ready_to_send"} -> "failed"
      [] OTHER                                           -> s

(* _close_stalled_attempts(): where an orphaned attempt ends once its send *)
(* window has elapsed.                                                     *)
StalledState(s) == IF s = "proposed" THEN "aborted" ELSE "expired"
=============================================================================
