------------------------------ MODULE MCV1Host ------------------------------
(***************************************************************************)
(* V1Host on small instances.                                              *)
(***************************************************************************)
EXTENDS V1Host
=============================================================================
