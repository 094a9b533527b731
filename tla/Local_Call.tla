----------------------------- MODULE Local_Call -----------------------------
(***************************************************************************)
(* What a remote call promises: it is a call.  The function sees the       *)
(* arguments the caller gave, and the caller gets what the function        *)
(* returned, or the text of its exception.                                 *)
(***************************************************************************)
CONSTANTS Unknown, Pending

VARIABLES
    arguments,      \* the values the caller gave
    known,          \* whether there is a function of that name
    outcomes,       \* what it may return or throw
    seen,           \* the values the function was applied to
    outcome,        \* what it returned or threw
    returned        \* what the caller got

vars == <<seen, outcome, returned>>

Init == seen = Pending /\ outcome = Pending /\ returned = Pending

Apply ==
    /\ known /\ outcome = Pending
    /\ seen' = arguments
    /\ outcome' \in outcomes
    /\ UNCHANGED returned

Refuse ==
    /\ ~known /\ outcome = Pending
    /\ outcome' = Unknown
    /\ UNCHANGED <<seen, returned>>

Return ==
    /\ outcome # Pending /\ returned = Pending
    /\ returned' = outcome
    /\ UNCHANGED <<seen, outcome>>

Next == Apply \/ Refuse \/ Return
=============================================================================
