----------------------------- MODULE WorkLedger -----------------------------
(***************************************************************************)
(* What the lease machinery promises to the rest of the system: a ledger   *)
(* of work items, each of which is waiting, in flight, or settled for      *)
(* good, and the effect of each (the committed translation of its packet). *)
(* Work in flight may be put back any number of times, but an item is      *)
(* settled once, as done or as obsolete only with its effect in place, and *)
(* no effect happens once the item is settled.                             *)
(***************************************************************************)
CONSTANT Items

VARIABLES
    state,      \* where each item stands
    effect      \* the items whose effect is in place

vars == <<state, effect>>

State == {"waiting", "inflight", "done", "failed", "obsolete"}

Init ==
    /\ state = [i \in Items |-> "waiting"]
    /\ effect = {}

\* A worker takes an item.
Take(i) ==
    /\ state[i] = "waiting"
    /\ state' = [state EXCEPT ![i] = "inflight"]
    /\ UNCHANGED effect

\* Items in flight are put back, several at once when a sweep finds them.
Requeue(S) ==
    /\ \A i \in S : state[i] = "inflight"
    /\ state' = [i \in Items |-> IF i \in S THEN "waiting" ELSE state[i]]
    /\ UNCHANGED effect

\* The effect of an unsettled item takes place, perhaps by a worker from whom
\* the item was taken back meanwhile.
Perform(i) ==
    /\ state[i] \in {"waiting", "inflight"}
    /\ effect' = effect \cup {i}
    /\ UNCHANGED state

\* The item is done.
Finish(i) ==
    /\ state[i] = "inflight"
    /\ i \in effect
    /\ state' = [state EXCEPT ![i] = "done"]
    /\ UNCHANGED effect

\* The item is given up.
GiveUp(i) ==
    /\ state[i] = "inflight"
    /\ state' = [state EXCEPT ![i] = "failed"]
    /\ UNCHANGED effect

\* Nothing is left to do for a waiting item.
Drop(i) ==
    /\ state[i] = "waiting"
    /\ i \in effect
    /\ state' = [state EXCEPT ![i] = "obsolete"]
    /\ UNCHANGED effect

Next ==
    \/ \E i \in Items : Take(i) \/ Perform(i) \/ Finish(i) \/ GiveUp(i) \/ Drop(i)
    \/ \E S \in SUBSET Items : Requeue(S)

Spec == Init /\ [][Next]_vars
=============================================================================
