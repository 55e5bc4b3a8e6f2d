----------------------------- MODULE RoundBook -----------------------------
(***************************************************************************)
(* What the decision engines promise of a committed round, without queue,  *)
(* audit, recovery or reports: a round is opened once and closed at most   *)
(* once; it is closed as "sent" only if its message went out, and in the   *)
(* very step that prepares the exposure the user model learns from.        *)
(***************************************************************************)
CONSTANT Rounds

VARIABLES
    book,       \* the terminal acknowledgement of a round
    said,       \* rounds whose message the platform took
    exposures   \* rounds with a prepared exposure

vars == <<book, said, exposures>>

Init ==
    /\ book = [d \in Rounds |-> "none"]
    /\ said = {} /\ exposures = {}

Open(d) ==
    /\ book[d] = "none"
    /\ book' = [book EXCEPT ![d] = "open"]
    /\ UNCHANGED <<said, exposures>>

Say(d) ==
    /\ book[d] # "none"
    /\ said' = said \cup {d}
    /\ UNCHANGED <<book, exposures>>

CloseSent(d) ==
    /\ book[d] = "open" /\ d \in said
    /\ book' = [book EXCEPT ![d] = "sent"]
    /\ exposures' = exposures \cup {d}
    /\ UNCHANGED said

CloseFailed(d) ==
    /\ book[d] = "open"
    /\ book' = [book EXCEPT ![d] = "failed"]
    /\ UNCHANGED <<said, exposures>>

Next == \E d \in Rounds : Open(d) \/ Say(d) \/ CloseSent(d) \/ CloseFailed(d)

Spec == Init /\ [][Next]_vars
=============================================================================
