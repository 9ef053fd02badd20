--------------------------- MODULE MCBookkeeping ---------------------------
(* What a run keeps while it works: the counters in its JSON value           *)
(* (RunBudget) and the memory of a chapter (ChapterMemory).                  *)
(*                                                                           *)
(* The two share no state.  One run of TLC checks them side by side: a       *)
(* behaviour is one of the component `part', while the other stays as it is  *)
(* at the start.                                                             *)
EXTENDS RunBudget, ChapterMemory, TLC

CONSTANTS p1, p2, s1, s2

VARIABLE part

ASSUME BudgetAssumption /\ MemoryAssumption

BookInit == part \in {"budget", "memory"} /\ Init /\ MemoryInit

BookNext ==
    \/ part = "budget" /\ Next /\ UNCHANGED <<part, memoryVars>>
    \/ part = "memory" /\ MemoryNext /\ UNCHANGED <<part, vars>>

BookSpec == BookInit /\ [][BookNext]_<<part, vars, memoryVars>>

\* Packets, and sessions or lease tokens, are interchangeable.
Symmetry == Permutations({p1, p2}) \cup Permutations({s1, s2})

(* Claims of the docs and comments that the code does not keep, stated in the *)
(* components: SuccessEventsAreTrue and SpendIsCapped of RunBudget;           *)
(* ApprovalKeepsMemory and DecidedOnce of ChapterMemory.  In place of the     *)
(* properties of the configuration, each yields a counterexample.             *)
=============================================================================
