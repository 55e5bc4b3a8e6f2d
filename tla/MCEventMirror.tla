--------------------------- MODULE MCEventMirror ---------------------------
(* Instances of EventMirror: which blocks fail.                            *)
EXTENDS EventMirror

AnyDepthFails == 1..MaxDepth
=============================================================================
