----------------------------- MODULE MCDispatch -----------------------------
(* Dispatch with one operator beside a rolling restart.                    *)
EXTENDS Dispatch
=============================================================================
