----------------------------- MODULE Intention -----------------------------
(***************************************************************************)
(* What delivery promises of the things the character decides to say, with *)
(* no queue, no lease, no renderer and no report: each intention is spoken *)
(* at most once, is charged to the contact budget exactly when it is       *)
(* spoken, and is answered only after it was spoken.  While a boundary     *)
(* forbids contact none is formed, but for one that was permitted before   *)
(* the boundary came: a permission is used once.  Module Delivery is shown *)
(* to implement it.                                                        *)
(***************************************************************************)
EXTENDS Naturals

CONSTANT Intentions

VARIABLES
    phase,      \* phase[i]: how far intention i has come
    contacts,   \* contacts[i]: how often i was charged as a contact
    forbidden,  \* a boundary forbids proactive contact
    permitted   \* one intention was permitted and is not formed yet

vars == <<phase, contacts, forbidden, permitted>>

Init ==
    /\ phase = [i \in Intentions |-> "idle"]
    /\ contacts = [i \in Intentions |-> 0]
    /\ forbidden = FALSE
    /\ permitted = FALSE

In(p) == {i \in Intentions : phase[i] = p}

Permit ==
    /\ ~forbidden
    /\ permitted' = TRUE
    /\ UNCHANGED <<phase, contacts, forbidden>>

Withdraw ==
    /\ permitted' = FALSE
    /\ UNCHANGED <<phase, contacts, forbidden>>

Intend(i) ==
    /\ phase[i] = "idle"
    /\ \/ ~forbidden /\ UNCHANGED permitted
       \/ permitted /\ permitted' = FALSE
    /\ phase' = [phase EXCEPT ![i] = "intended"]
    /\ UNCHANGED <<contacts, forbidden>>

Speak(i) ==
    /\ phase[i] = "intended"
    /\ phase' = [phase EXCEPT ![i] = "spoken"]
    /\ contacts' = [contacts EXCEPT ![i] = @ + 1]
    /\ UNCHANGED <<forbidden, permitted>>

(* The user, or silence, or a failure closes any number of them at once,   *)
(* and a boundary may come or go.                                          *)
Close(answered, dropped) ==
    /\ phase' = [i \in Intentions |-> IF i \in answered THEN "answered"
                                      ELSE IF i \in dropped THEN "dropped"
                                      ELSE phase[i]]
    /\ forbidden' \in BOOLEAN
    /\ UNCHANGED <<contacts, permitted>>

Next ==
    \/ Permit
    \/ Withdraw
    \/ \E i \in Intentions : Intend(i)
    \/ \E i \in Intentions : Speak(i)
    \/ \E A \in SUBSET In("spoken"), D \in SUBSET In("intended") : Close(A, D)

Spec == Init /\ [][Next]_vars
=============================================================================
