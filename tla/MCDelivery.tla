----------------------------- MODULE MCDelivery -----------------------------
(***************************************************************************)
(* Delivery on small instances, and the refinement mapping under which it  *)
(* implements Intention.                                                   *)
(***************************************************************************)
EXTENDS Delivery

Phase(s) ==
    CASE s = "none"              -> "idle"
      [] s \in PRE_SEND_STATES   -> "intended"
      [] s = "sent"              -> "spoken"
      [] s = "resolved"          -> "answered"
      [] OTHER                   -> "dropped"

I == INSTANCE Intention WITH
    Intentions <- Attempts,
    phase      <- [a \in Attempts |-> Phase(attempt[a].state)],
    contacts   <- charged,
    forbidden  <- boundary,
    permitted  <- cleared

(* Every step of the queue, the reports, the sweeps and re-coordination is *)
(* a step of the abstract promise or changes nothing it speaks of.         *)
KeepsThePromise == I!Spec
=============================================================================
