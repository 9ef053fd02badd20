------------------------------ MODULE MCRunApi ------------------------------
(* What the API does with the runs of a document (RunControl) and what its   *)
(* event stream shows of one (EventStream).                                  *)
(*                                                                           *)
(* The two share no state.  One run of TLC checks them side by side: a       *)
(* behaviour is one of the component `part', while the other stays as it is  *)
(* at the start.                                                             *)
EXTENDS RunControl, EventStream, TLC

VARIABLE part

ASSUME StreamAssumption

ApiInit == part \in {"control", "stream"} /\ Init /\ StreamInit

ApiNext ==
    \/ part = "control" /\ Next /\ UNCHANGED <<part, streamVars>>
    \/ part = "stream" /\ StreamNext /\ UNCHANGED <<part, vars>>

ApiSpec == ApiInit /\ [][ApiNext]_<<part, vars, streamVars>>

\* Runs, packets, sessions and writers are interchangeable.
Symmetry ==
    Permutations(Runs) \cup Permutations(Sessions) \cup Permutations(Packets)
        \cup Permutations(Writers)

(* Claims of the docs and comments that the code does not keep, stated in the *)
(* components: FrontierNotShared of RunControl (what the index of the active  *)
(* run is there for), NeverMissed and FailureIsLogged of EventStream.  In     *)
(* place of the properties of the configuration, each yields a               *)
(* counterexample.                                                           *)
=============================================================================
