---------------------------- MODULE DocumentSlot ----------------------------
(***************************************************************************)
(* What run control promises for one document: a slot that at most one run *)
(* holds, the run that is "currently doing work" on it.  A run takes the   *)
(* slot when it is free and gives it up; it passes from one run straight   *)
(* to another only when the second retries the first.                      *)
(***************************************************************************)
CONSTANTS
    Runs,       \* the runs that will ever exist
    Free        \* nobody holds the slot

VARIABLES
    slot,       \* the run that holds the slot
    retryOf     \* the run each run retries, or Free

vars == <<slot, retryOf>>

Init ==
    /\ slot = Free
    /\ retryOf = [r \in Runs |-> Free]

\* A run is entered, for a document alone or as the retry of an older run.
Enter(r, older) ==
    /\ retryOf[r] = Free
    /\ older # r
    /\ retryOf' = [retryOf EXCEPT ![r] = older]

Take(r) ==
    /\ slot = Free
    /\ slot' = r
    /\ \/ UNCHANGED retryOf
       \/ \E older \in Runs : Enter(r, older)

GiveUp ==
    /\ slot # Free
    /\ slot' = Free
    /\ UNCHANGED retryOf

HandOver(r) ==
    /\ slot \in Runs \ {r}
    /\ slot' = r
    /\ Enter(r, slot)

Next == GiveUp \/ \E r \in Runs : Take(r) \/ HandOver(r)

Spec == Init /\ [][Next]_vars
=============================================================================
