---------------------------- MODULE MCUserLabels ----------------------------
(***************************************************************************)
(* UserLabels on two messages of one langchao goal (contact.v1 gives every *)
(* message of a scope the same contract).  The reply window ends before    *)
(* the others, as in DecisionConfigV2.horizons (30 minutes; 2 and 24       *)
(* hours).                                                                 *)
(***************************************************************************)
EXTENDS UserLabels, TLC

CONSTANTS e1, e2, c1

MCContractOf == e1 :> c1 @@ e2 :> c1

MCHorizon == "reply" :> 1 @@ "continue" :> 2 @@ "acceptance" :> 2 @@ "negative" :> 2

(* Hooks and passes one after the other.                                   *)
Apart == (\E e \in Exposures : reply'[e].stage # reply[e].stage) => pass.at = "idle"
=============================================================================
