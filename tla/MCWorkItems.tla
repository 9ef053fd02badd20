---------------------------- MODULE MCWorkItems ----------------------------
(* The work items of a run: who holds them (WorkItemLease), and how a lane   *)
(* whose items keep failing is repaired and seeded again (SelfHeal).         *)
(*                                                                           *)
(* SelfHeal has leases in one step and looks at many items of a packet,      *)
(* WorkItemLease at every step of a lease: they share no state.  One run of  *)
(* TLC checks them side by side: a behaviour is one of the component `part', *)
(* while the other stays as it is at the start.                              *)
EXTENDS WorkItemLease, SelfHeal, TLC

VARIABLE part

ASSUME HealAssumption

\* The packets are of one chapter.
OneChapter == [q \in Packets |-> "chapter"]

ItemsInit == part \in {"lease", "heal"} /\ Init /\ HealInit

ItemsNext ==
    \/ part = "lease" /\ Next /\ UNCHANGED <<part, healVars>>
    \/ part = "heal" /\ HealNext /\ UNCHANGED <<part, vars>>

ItemsSpec == ItemsInit /\ [][ItemsNext]_<<part, vars, healVars>>

\* Items, leases and packets are interchangeable: at most one repair is opened at
\* a time (AutoPatchCap), so that SelfHeal puts no packets in order.
Symmetry == Permutations(Items) \cup Permutations(Leases) \cup Permutations(Packets)

\* A claim the code does not keep, stated in SelfHeal: controllers seed nothing.
\* In place of the invariants ControllersOnlyMirror yields a counterexample.
=============================================================================
