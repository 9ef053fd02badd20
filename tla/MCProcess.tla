----------------------------- MODULE MCProcess -----------------------------
(* What every run follows: the active provider (ProviderCredentials) and the *)
(* active bundle of patches that repairs publish (PatchPublication, in two   *)
(* settings).                                                                *)
(*                                                                           *)
(* The two share no state.  One run of TLC checks them side by side: a       *)
(* behaviour is one of the setting `part', while the other component stays   *)
(* as it is at the start.                                                    *)
EXTENDS ProviderCredentials, PatchPublication, TLC

CONSTANTS
    c0, c1,                 \* credentials
    p1, p2, p3, r1, r2      \* proposals and the revisions they make

VARIABLE part

ASSUME PublicationAssumption

MCCreds == {c0, c1}
MCUnborn == {c1}

\* The first and the last of three proposals make the same revision.
MCProposals == {p1, p2, p3}
MCRevisions == {r1, r2}
MCRevisionOf == p1 :> r1 @@ p2 :> r2 @@ p3 :> r1
MCNeedsReview == {p2, p3}
MCVerdicts == {"passed", "failed"}

\* The two settings have two proposals at work each: one that needs a reviewer
\* and one that does not, which make two revisions, or make the same.
AtWork == IF part = "apart" THEN {p1, p2} ELSE {p1, p3}
OnlyAtWork ==
    /\ \A w \in RepairWorkers : session[w].proposal \in AtWork \cup {None}
    /\ \A v \in Reviewers : review[v].proposal \in AtWork \cup {None}

ProcessInit == part \in {"provider", "apart", "alike"} /\ Init /\ PatchInit

ProcessNext ==
    \/ part = "provider" /\ Next /\ UNCHANGED <<part, patchVars>>
    \/ part \in {"apart", "alike"} /\ UNCHANGED <<part, vars>> /\ PatchNext /\ OnlyAtWork'

ProcessSpec == ProcessInit /\ [][ProcessNext]_<<part, vars, patchVars>>

\* The threads are interchangeable.
Symmetry == Permutations(Requests) \cup Permutations(RepairWorkers)

(* Claims of the docs and comments that the code does not keep, stated in the *)
(* components: WorkerIsCurrent, AlwaysOneActive and PacketsUseTheActive of    *)
(* ProviderCredentials; RejectionIsTerminal and ActiveBundleIsFound of        *)
(* PatchPublication.  In place of the properties of the configuration, each   *)
(* yields a counterexample.                                                   *)
=============================================================================
