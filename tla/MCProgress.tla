----------------------------- MODULE MCProgress -----------------------------
(* What the schedulers promise: leases are taken back (WorkItemLease), the   *)
(* stream delivers (EventStream), the lock of a rebuild is left              *)
(* (ExportArtifacts).  No symmetry: these are liveness properties.           *)
(*                                                                           *)
(* The three share no state.  One run of TLC checks them side by side: a     *)
(* behaviour is one of the component `part', fair to that component, while   *)
(* the others stay as they are at the start.                                 *)
EXTENDS WorkItemLease, TLC

CONSTANTS w1, g1, g2, g3, s1, s2, t1, t2

VARIABLES
    part,
    nextId, open, failedCalls, log, stream, wire, got, drops,
    text, bytes, linked, old, row, rowLock, held, advisory, work, sent, tool, edits, losses

streamVars == <<nextId, open, failedCalls, log, stream, wire, got, drops>>
fileVars == <<text, bytes, linked, old, row, rowLock, held, advisory, work, sent, tool,
              edits, losses>>

Stream == INSTANCE EventStream WITH
    Writers <- {w1}, Limit <- 4, MaxId <- 4, MaxDrops <- 2

\* Three downloads in two processes, of an export whose file is lost.
Homes == g1 :> s1 @@ g2 :> s2 @@ g3 :> s2
Rebuild == INSTANCE ExportArtifacts WITH
    Posts <- {}, Runs <- {}, Gets <- {g1, g2, g3}, Processes <- {s1, s2},
    Home <- Homes,
    Texts <- {t1, t2}, First <- t1, Exported <- TRUE, SameDevice <- TRUE, Postgres <- TRUE,
    Tools <- {}, None <- NoItem, MaxEdits <- 0, MaxLosses <- 1, got <- sent

ASSUME Stream!StreamAssumption /\ Rebuild!ArtifactAssumption

ProgressInit == part \in {"lease", "stream", "rebuild"} /\ Init /\ Stream!StreamInit /\ Rebuild!Init

ProgressNext ==
    \/ part = "lease" /\ Next /\ UNCHANGED <<part, streamVars, fileVars>>
    \/ part = "stream" /\ Stream!StreamNext /\ UNCHANGED <<part, vars, fileVars>>
    \/ part = "rebuild" /\ Rebuild!Next /\ UNCHANGED <<part, vars, streamVars>>

ProgressSpec ==
    /\ ProgressInit
    /\ [][ProgressNext]_<<part, vars, streamVars, fileVars>>
    /\ \/ part = "lease" /\ Fairness
       \/ part = "stream" /\ Stream!StreamFairness
       \/ part = "rebuild" /\ Rebuild!Fairness

\* Properties of EventStream and ExportArtifacts, stated there.
EverythingAfter == Stream!EverythingAfter
LocksAreFreed == Rebuild!LocksAreFreed
=============================================================================
