---------------------------- MODULE MCProposals ----------------------------
(***************************************************************************)
(* Proposals on a small instance: two messages, the first of which makes a *)
(* promise the second reports on, and takes back; a refresh that reads the *)
(* first message; an evaluation by the host's model.                       *)
(***************************************************************************)
EXTENDS Proposals, TLC

CONSTANTS m1, m2, eval, refresh, post, delivery, interview, trip

MCKind == eval :> "emotion_eval" @@ refresh :> "deep_refresh"
MCCites == eval :> {m1} @@ refresh :> {m1}
MCRetracted == eval :> {m2} @@ refresh :> {m2}
MCSubject == m1 :> interview @@ m2 :> interview @@ refresh :> trip @@ post :> interview
MCSettles == m1 :> {} @@ m2 :> {interview}
=============================================================================
