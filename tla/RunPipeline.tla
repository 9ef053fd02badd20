---------------------------- MODULE RunPipeline ----------------------------
(***************************************************************************)
(* One translation run from its start to its outcome: the run loop, which  *)
(* takes the pipeline's stages in turn, the threads that translate packets *)
(* beside it, and the operator who pauses, resumes, drains or cancels.     *)
(*                                                                         *)
(* Every step of the loop is a database transaction of its own, so workers *)
(* and the operator come between any two of them.  A transaction that sets *)
(* the status of the run loads the run's row first, trusts what it loaded  *)
(* to the end, and writes without a condition: it takes two steps here, in *)
(* the loop (StageRaises, StageFails; LoadRun, Conclude; LoopRaises,       *)
(* LoopFails), in a worker that fails (WorkerRaises, WorkerFails) and for  *)
(* the operator (Ask, Serve).                                              *)
(*                                                                         *)
(* Work items stand where WorkLedger says; how leases keep them there is   *)
(* WorkItemLease's subject.  Here a thread either still has its lease      *)
(* (worker) or goes on after losing it (zombie).                           *)
(***************************************************************************)
EXTENDS Naturals, FiniteSets, StageStatus

CONSTANTS
    Chapters,       \* the chapters of the document
    Length,         \* how many packets each chapter has
    Parallelism,    \* max_parallel_workers
    MaxFaults       \* bound on lapses, retryable failures and crashes

ASSUME PipelineAssumption ==
    /\ IsFiniteSet(Chapters)
    /\ Length \in [Chapters -> Nat]
    /\ Parallelism \in Nat \ {0}
    /\ MaxFaults \in Nat

\* Packet k of chapter c is <<c, k>>: k is its packet_ordinal.
Packets == UNION {{c} \X (1..Length[c]) : c \in Chapters}
InChapter(c) == {p \in Packets : p[1] = c}
Before(p, q) == p[1] = q[1] /\ p[2] < q[2]

VARIABLES
    run,            \* document_runs.status
    item,           \* the translate work item of each packet
    translated,     \* the packets whose translation_packets.status is TRANSLATED
    stageItem,      \* the work item of each optional stage
    pc,             \* the next step of the run loop's thread
    loopSeen,       \* document_runs.status as the loop's transaction loaded it
    worker,         \* the packets with a thread that still has its lease
    zombie,         \* the packets with a thread whose lease was taken back
    seen,           \* the status as the transaction of a failing thread loaded it
    request,        \* the status an operator's request is about to set
    lapsed,         \* the packets whose lease has run out
    stageLapsed,    \* the lease of the stage in flight has run out
    faults          \* how much of MaxFaults is used up

ledgerVars == <<item, translated, stageItem>>
leaseVars == <<lapsed, stageLapsed>>
threadVars == <<worker, zombie, seen>>
loopVars == <<pc, loopSeen>>
vars == <<run, ledgerVars, loopVars, threadVars, leaseVars, request, faults>>

LiveRun == {"running", "draining"}
Succeeded == {"succeeded", "succeeded_with_warnings"}
RunStatus == LiveRun \cup Succeeded \cup {"paused", "failed", "cancelled"}
LoopStep == {"stopped", "top", "reclaim", "translate", "executing", "failing", "load", "conclude",
             "dying"} \cup OptionalStages
Unread == "none"

InFlight == {p \in Packets : item[p] = "inflight"}
Waiting(it) == {p \in Packets : it[p] = "waiting"}
AnyInFlight(it, st) == \/ \E p \in Packets : it[p] = "inflight"
                       \/ \E s \in OptionalStages : st[s] = "inflight"
AnyWaiting(it, st) == \/ \E p \in Packets : it[p] = "waiting"
                      \/ \E s \in OptionalStages : st[s] = "waiting"

\* A new run over a document some of whose packets an earlier run translated.
Init ==
    /\ run = "running"
    /\ item = [p \in Packets |-> "absent"]
    /\ translated \in SUBSET Packets
    /\ stageItem = [s \in OptionalStages |-> "absent"]
    /\ pc = "stopped"
    /\ loopSeen = Unread
    /\ worker = {} /\ zombie = {} /\ lapsed = {}
    /\ seen = [p \in Packets |-> Unread]
    /\ request = Unread
    /\ stageLapsed = FALSE
    /\ faults = 0

-----------------------------------------------------------------------------
(* Deciding whether the run is over *)

\* The status to give a run loaded as r, with these rows: nothing changes
\* while an item is in flight, a draining run with items left is paused.
Reconciled(r, it, tr, st) ==
    CASE r \notin LiveRun                                  -> r
      [] r \in LiveRun /\ AnyInFlight(it, st)              -> r
      [] r = "draining" /\ ~AnyInFlight(it, st) /\ AnyWaiting(it, st) -> "paused"
      [] OTHER ->
            LET outcome == RunOutcome(DerivedStatus(it, tr, st))
            IN  IF outcome = "running" THEN r ELSE outcome

\* After a failure that is for good the run may be paused instead: the
\* provider refuses for want of funds.
FailureOutcome_Unguarded(r, it, st, state) ==   \* mutant: pauses a run whatever its status
    {Reconciled(r, it, translated, st)} \cup (IF state = "failed" THEN {"paused"} ELSE {})
FailureOutcome(r, it, st, state) ==
    {Reconciled(r, it, translated, st)}
        \cup (IF state = "failed" /\ r \in LiveRun THEN {"paused"} ELSE {})

\* Only a changed status is written, over whatever the row holds by then.
SetStatus(loaded, status) == run' = IF status = loaded THEN run ELSE status

Status == DerivedStatus(item, translated, stageItem)

-----------------------------------------------------------------------------
(* The run loop *)

\* The supervisor starts a thread for every run that is live.
Supervise ==
    /\ pc = "stopped"
    /\ run \in LiveRun
    /\ pc' = "top"
    /\ UNCHANGED <<run, ledgerVars, loopSeen, threadVars, leaseVars, request, faults>>

CheckRun ==
    /\ pc = "top"
    /\ pc' = IF run \in LiveRun THEN "reclaim" ELSE "stopped"
    /\ UNCHANGED <<run, ledgerVars, loopSeen, threadVars, leaseVars, request, faults>>

\* Leases that ran out are taken back.
Reclaim_ItemsOnly ==                            \* mutant: forgets review and exports
    /\ pc = "reclaim"
    /\ item' = [p \in Packets |-> IF p \in lapsed THEN "waiting" ELSE item[p]]
    /\ zombie' = zombie \cup (worker \cap lapsed)
    /\ worker' = worker \ lapsed
    /\ lapsed' = {}
    /\ pc' = "translate"
    /\ UNCHANGED <<run, translated, stageItem, loopSeen, seen, stageLapsed, request, faults>>
Reclaim ==
    /\ pc = "reclaim"
    /\ item' = [p \in Packets |-> IF p \in lapsed THEN "waiting" ELSE item[p]]
    /\ stageItem' = [s \in OptionalStages |->
                       IF stageLapsed /\ stageItem[s] = "inflight" THEN "waiting" ELSE stageItem[s]]
    /\ zombie' = zombie \cup (worker \cap lapsed)
    /\ worker' = worker \ lapsed
    /\ lapsed' = {}
    /\ stageLapsed' = FALSE
    /\ pc' = "translate"
    /\ UNCHANGED <<run, translated, loopSeen, seen, request, faults>>

\* The next packet of each chapter that has no work item under way.
Frontier_Unblocked(it) ==                       \* mutant: chapters are never blocked
    {p \in Packets :
        /\ p \notin translated
        /\ it[p] = "absent"
        /\ \A q \in Packets : Before(q, p) => q \in translated \/ it[q] # "absent"}
Frontier(it) ==
    {p \in Packets :
        /\ p \notin translated
        /\ it[p] = "absent"
        /\ \A q \in InChapter(p[1]) : it[q] \notin {"waiting", "inflight"}
        /\ \A q \in Packets : Before(q, p) => q \in translated \/ it[q] # "absent"}

\* The items that may be claimed: none once an item has failed for good or
\* when the run is not running, else the first of each chapter that has none
\* in flight.
Claimable_PastFailure(it) ==                    \* mutant: goes on after a failed item
    {p \in Waiting(it) :
        /\ run = "running"
        /\ \A q \in InChapter(p[1]) : it[q] # "inflight"
        /\ \A q \in Waiting(it) : ~Before(q, p)}
Claimable(it) ==
    {p \in Waiting(it) :
        /\ run = "running"
        /\ ~AnyCounted(it, "failed")
        /\ \A q \in InChapter(p[1]) : it[q] # "inflight"
        /\ \A q \in Waiting(it) : ~Before(q, p)}

Slots_EveryRound == Parallelism                 \* mutant: forgets what is in flight
Slots == IF Cardinality(InFlight) < Parallelism
         THEN Parallelism - Cardinality(InFlight) ELSE 0

\* Waiting items of translated packets are cancelled, the frontier is seeded,
\* and as many items are claimed as there are slots.  Which chapters get the
\* slots depends on creation times, which are abstracted.
TranslateStage ==
    /\ pc = "translate"
    /\ LET kept == [p \in Packets |->
                      IF item[p] = "waiting" /\ p \in translated THEN "obsolete" ELSE item[p]]
           seeded == [p \in Packets |-> IF p \in Frontier(kept) THEN "waiting" ELSE kept[p]]
       IN  \E claimed \in SUBSET Claimable(seeded) :
             /\ \/ Cardinality(claimed) = Slots
                \/ Cardinality(claimed) < Slots /\ claimed = Claimable(seeded)
             /\ item' = [p \in Packets |-> IF p \in claimed THEN "inflight" ELSE seeded[p]]
             /\ worker' = worker \cup (claimed \ zombie)
             /\ pc' = IF claimed # {} THEN "top" ELSE "review"
    /\ UNCHANGED <<run, translated, stageItem, loopSeen, zombie, seen, leaseVars, request, faults>>

NextStep_Completed ==                           \* mutant: takes the cache's next stage
    [review |-> "bilingual_html", bilingual_html |-> "merged_html", merged_html |-> "completed"]
NextStep == [review         |-> "bilingual_html",
             bilingual_html |-> "merged_html",
             merged_html    |-> "load"]

\* Review and exports: behind its gate, a stage gets its one work item ...
SeedStage(s) ==
    /\ pc = s
    /\ CanStart(s, Status)
    /\ stageItem[s] = "absent"
    /\ stageItem' = [stageItem EXCEPT ![s] = "waiting"]
    /\ pc' = "top"
    /\ UNCHANGED <<run, item, translated, loopSeen, threadVars, leaseVars, request, faults>>

\* ... which the loop claims and executes in its own thread ...
ClaimStage(s) ==
    /\ pc = s
    /\ CanStart(s, Status)
    /\ stageItem[s] = "waiting"
    /\ run = "running"
    /\ stageItem' = [stageItem EXCEPT ![s] = "inflight"]
    /\ pc' = "executing"
    /\ UNCHANGED <<run, item, translated, loopSeen, threadVars, leaseVars, request, faults>>

\* ... or the loop goes on to the next stage.
PassStage(s) ==
    /\ pc = s
    /\ \/ ~CanStart(s, Status)
       \/ stageItem[s] \notin {"absent", "waiting"}
       \/ stageItem[s] = "waiting" /\ run # "running"
    /\ pc' = NextStep[s]
    /\ UNCHANGED <<run, ledgerVars, loopSeen, threadVars, leaseVars, request, faults>>

StageDone(s) ==
    /\ pc = "executing"
    /\ stageItem[s] = "inflight"
    /\ stageItem' = [stageItem EXCEPT ![s] = "done"]
    /\ pc' = "top"
    /\ UNCHANGED <<run, item, translated, loopSeen, threadVars, leaseVars, request, faults>>

\* Executing it raises: the failure is recorded, for a retry or for good, and
\* the same transaction decides whether the run is over.
StageRaises ==
    /\ pc = "executing"
    /\ loopSeen' = run
    /\ pc' = "failing"
    /\ UNCHANGED <<run, ledgerVars, threadVars, leaseVars, request, faults>>

StageFails(s, state) ==
    /\ pc = "failing"
    /\ stageItem[s] = "inflight"
    /\ state = "waiting" => faults < MaxFaults
    /\ stageItem' = [stageItem EXCEPT ![s] = state]
    /\ \E r \in FailureOutcome(loopSeen, item, stageItem', state) : SetStatus(loopSeen, r)
    /\ loopSeen' = Unread
    /\ pc' = "top"
    /\ faults' = IF state = "waiting" THEN faults + 1 ELSE faults
    /\ UNCHANGED <<item, translated, threadVars, leaseVars, request>>

\* The end of a round: load the run, and decide whether it is over.
LoadRun ==
    /\ pc = "load"
    /\ loopSeen' = run
    /\ pc' = "conclude"
    /\ UNCHANGED <<run, ledgerVars, threadVars, leaseVars, request, faults>>

Conclude ==
    /\ pc = "conclude"
    /\ SetStatus(loopSeen, Reconciled(loopSeen, item, translated, stageItem))
    /\ loopSeen' = Unread
    /\ pc' = "top"
    /\ UNCHANGED <<ledgerVars, threadVars, leaseVars, request, faults>>

\* Any other exception in a round of the loop fails the run and ends the thread.
LoopRaises ==
    /\ pc \notin {"stopped", "top", "dying"}
    /\ faults < MaxFaults
    /\ loopSeen' = run
    /\ pc' = "dying"
    /\ faults' = faults + 1
    /\ UNCHANGED <<run, ledgerVars, threadVars, leaseVars, request>>

LoopFails ==
    /\ pc = "dying"
    /\ SetStatus(loopSeen, IF loopSeen \in LiveRun \cup {"paused"} THEN "failed" ELSE loopSeen)
    /\ loopSeen' = Unread
    /\ pc' = "stopped"
    /\ UNCHANGED <<ledgerVars, threadVars, leaseVars, request, faults>>

-----------------------------------------------------------------------------
(* The translating threads *)

Translate(p) ==
    /\ p \in worker \cup zombie
    /\ seen[p] = Unread
    /\ p \notin translated
    /\ translated' = translated \cup {p}
    /\ UNCHANGED <<run, item, stageItem, loopVars, threadVars, leaseVars, request, faults>>

WorkerDone(p) ==
    /\ p \in worker \cap translated
    /\ seen[p] = Unread
    /\ item' = [item EXCEPT ![p] = "done"]
    /\ worker' = worker \ {p}
    /\ lapsed' = lapsed \ {p}
    /\ UNCHANGED <<run, translated, stageItem, loopVars, zombie, seen, stageLapsed, request, faults>>

\* Something raises, translated or not, and the failure is to be recorded.
WorkerRaises(p) ==
    /\ p \in worker
    /\ seen[p] = Unread
    /\ seen' = [seen EXCEPT ![p] = run]
    /\ UNCHANGED <<run, ledgerVars, loopVars, worker, zombie, leaseVars, request, faults>>

WorkerFails(p, state) ==
    /\ p \in worker
    /\ seen[p] # Unread
    /\ state = "waiting" => faults < MaxFaults
    /\ item' = [item EXCEPT ![p] = state]
    /\ \E r \in FailureOutcome(seen[p], item', stageItem, state) : SetStatus(seen[p], r)
    /\ worker' = worker \ {p}
    /\ seen' = [seen EXCEPT ![p] = Unread]
    /\ lapsed' = lapsed \ {p}
    /\ faults' = IF state = "waiting" THEN faults + 1 ELSE faults
    /\ UNCHANGED <<translated, stageItem, loopVars, zombie, stageLapsed, request>>

\* A thread that lost its lease is refused when it reports, and ends.
ZombieEnds(p) ==
    /\ p \in zombie
    /\ seen[p] = Unread
    /\ zombie' = zombie \ {p}
    /\ UNCHANGED <<run, ledgerVars, loopVars, worker, seen, leaseVars, request, faults>>

\* One that lost it while it was reporting a failure no longer changes its
\* item (compare-and-swap), but reconciles or pauses the run all the same.
ZombieFails(p, state) ==
    /\ p \in zombie
    /\ seen[p] # Unread
    /\ \E r \in FailureOutcome(seen[p], item, stageItem, state) : SetStatus(seen[p], r)
    /\ zombie' = zombie \ {p}
    /\ seen' = [seen EXCEPT ![p] = Unread]
    /\ UNCHANGED <<ledgerVars, loopVars, worker, leaseVars, request, faults>>

\* A lease runs out under a thread that is late: a fault.
LateLapse(p) ==
    /\ p \in worker \ lapsed
    /\ faults < MaxFaults
    /\ lapsed' = lapsed \cup {p}
    /\ faults' = faults + 1
    /\ UNCHANGED <<run, ledgerVars, loopVars, threadVars, stageLapsed, request>>

\* A lease runs out that no thread renews: of an item claimed beside a zombie,
\* or of an item or a stage left in flight by a crash.
OrphanLapse(p) ==
    /\ p \in InFlight \ (worker \cup lapsed)
    /\ lapsed' = lapsed \cup {p}
    /\ UNCHANGED <<run, ledgerVars, loopVars, threadVars, stageLapsed, request, faults>>

StageLapse ==
    /\ \E s \in OptionalStages : stageItem[s] = "inflight"
    /\ pc \notin {"executing", "failing"}
    /\ ~stageLapsed
    /\ stageLapsed' = TRUE
    /\ UNCHANGED <<run, ledgerVars, loopVars, threadVars, lapsed, request, faults>>

\* The process dies and is started again.
Crash ==
    /\ faults < MaxFaults
    /\ faults' = faults + 1
    /\ worker' = {} /\ zombie' = {}
    /\ seen' = [p \in Packets |-> Unread]
    /\ pc' = "stopped"
    /\ loopSeen' = Unread
    /\ request' = Unread
    /\ UNCHANGED <<run, ledgerVars, leaseVars>>

-----------------------------------------------------------------------------
(* The operator *)

\* A request loads the run, which must be in one of the statuses it may leave,
\* and sets its status.
Ask(from, to) ==
    /\ request = Unread
    /\ run \in from
    /\ request' = to
    /\ UNCHANGED <<run, ledgerVars, loopVars, threadVars, leaseVars, faults>>

Pause == Ask(LiveRun, "paused")
Resume == Ask({"paused"}, "running")
Drain == Ask({"running", "paused"}, "draining")
Cancel == Ask(LiveRun \cup {"paused"}, "cancelled")

Serve ==
    /\ request # Unread
    /\ run' = request
    /\ request' = Unread
    /\ UNCHANGED <<ledgerVars, loopVars, threadVars, leaseVars, faults>>

-----------------------------------------------------------------------------

RunLoop ==
    \/ Supervise
    \/ CheckRun
    \/ Reclaim
    \/ TranslateStage
    \/ \E s \in OptionalStages : SeedStage(s) \/ ClaimStage(s) \/ PassStage(s) \/ StageDone(s)
    \/ \E s \in OptionalStages, state \in {"waiting", "failed"} : StageFails(s, state)
    \/ StageRaises
    \/ LoadRun
    \/ Conclude
    \/ LoopRaises
    \/ LoopFails

Thread(p) ==
    \/ Translate(p)
    \/ WorkerDone(p)
    \/ WorkerRaises(p)
    \/ \E state \in {"waiting", "failed"} : WorkerFails(p, state) \/ ZombieFails(p, state)
    \/ ZombieEnds(p)

Next ==
    \/ RunLoop
    \/ \E p \in Packets : Thread(p)
    \/ \E p \in Packets : LateLapse(p)
    \/ \E p \in Packets : OrphanLapse(p)
    \/ StageLapse
    \/ Crash
    \/ Pause
    \/ Resume
    \/ Drain
    \/ Cancel
    \/ Serve

Spec == Init /\ [][Next]_vars

\* Threads that run get on with it, and the clock reaches the expiry of a
\* lease nobody renews.  Nothing is asked of the operator.
Fairness ==
    /\ WF_vars(RunLoop)
    /\ \A p \in Packets : WF_vars(Thread(p))
    /\ \A p \in Packets : WF_vars(OrphanLapse(p))
    /\ WF_vars(StageLapse)

FairSpec == Spec /\ Fairness

-----------------------------------------------------------------------------
(* Properties *)

\* The rows, threads and the loop hold values of their types.
TypeOK ==
    /\ run \in RunStatus
    /\ item \in [Packets -> ItemState]
    /\ translated \subseteq Packets
    /\ stageItem \in [OptionalStages -> ItemState]
    /\ pc \in LoopStep
    /\ loopSeen \in RunStatus \cup {Unread}
    /\ worker \subseteq Packets /\ zombie \subseteq Packets
    /\ seen \in [Packets -> RunStatus \cup {Unread}]
    /\ request \in {Unread, "running", "draining", "paused", "cancelled"}
    /\ lapsed \subseteq Packets
    /\ stageLapsed \in BOOLEAN
    /\ faults \in 0..MaxFaults

\* A run recorded as succeeded has translated the whole book and has no
\* translation left to do, although only one packet per chapter is a work
\* item at a time and items are all done again and again on the way there.
SuccessIsComplete ==
    run \in Succeeded =>
        /\ translated = Packets
        /\ \A p \in Packets : item[p] \in {"absent", "done", "obsolete"}

\* A chapter has at most one packet under way: the next one is seeded only
\* when the one before is settled, through retries, reaping and crashes.
OnePacketPerChapter ==
    \A p, q \in Packets :
        /\ p[1] = q[1]
        /\ item[p] \in {"waiting", "inflight"}
        /\ item[q] \in {"waiting", "inflight"}
        => p = q

\* A packet is worked on only when all the packets before it in its chapter
\* are translated: its context is complete.  In particular no chapter goes on
\* past a packet that failed for good.
PacketsInOrder ==
    \A p \in InFlight : \A q \in Packets : Before(q, p) => q \in translated

\* Nothing is reviewed before the whole book is translated, nothing exported
\* before the review has passed, and the merged export comes last; and what a
\* stage relied on when it was seeded stays so, whatever fails or is reaped.
StagesInOrder ==
    /\ \A s \in OptionalStages :
          stageItem[s] # "absent" => Status["translate"] = "succeeded"
    /\ stageItem["bilingual_html"] # "absent" => stageItem["review"] = "done"
    /\ stageItem["merged_html"] # "absent" => stageItem["bilingual_html"] = "done"

\* No more packets are in flight than the run's budget allows.
WithinParallelism == Cardinality(InFlight) <= Parallelism

\* The outcome of a run changes only by a transaction that loaded the run
\* before it ended: an operator's request, or a failing thread or the loop that
\* saw it live or, for the loop that fails, paused.  Nothing that looks at the run afterwards, late workers least
\* of all, changes it.
OutcomeIsFinal ==
    [][(run \in Succeeded \cup {"failed"} /\ run' # run) =>
          \/ request # Unread /\ request' = Unread
          \/ loopSeen \in LiveRun \cup {"paused"} /\ loopSeen' = Unread
          \/ \E p \in Packets : seen[p] \in LiveRun /\ seen'[p] = Unread]_vars

\* Once a translate item of the run is settled by a report, the run comes to
\* rest: it ends, or it is paused.
ReportedRunSettles ==
    (\E p \in Packets : item[p] \in {"done", "failed"}) ~> run \notin LiveRun

\* What the README promises: kill the process mid-run and restart it, and the
\* run resumes where it left off.  So a run whose item in flight has lost its
\* thread still comes to rest.
KilledRunSettles ==
    (run \in LiveRun /\ InFlight \ worker # {}) ~> run \notin LiveRun

\* What the reconciler's comment says: a run succeeds only when every stage
\* of the pipeline has.
SucceededMeansAllStages ==
    run = "succeeded" => \A s \in Stages : Status[s] = "succeeded"

\* What the comment on the soft success says: a run the operator paused or
\* otherwise holds is not moved to success.
HeldRunStaysHeld ==
    [][(run \in {"paused", "cancelled"}) => (run' \notin Succeeded)]_vars
=============================================================================
