---------------------------- MODULE MCSettlement ----------------------------
(* Settlement on small instances.                                          *)
EXTENDS Settlement
=============================================================================
