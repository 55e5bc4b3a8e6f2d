----------------------------- MODULE MCStateRow -----------------------------
(***************************************************************************)
(* StateRow on a small instance.                                           *)
(***************************************************************************)
EXTENDS StateRow
=============================================================================
