------------------------------ MODULE SelfHeal ------------------------------
(***************************************************************************)
(* How a run heals itself.  At every turn of the run loop the controllers  *)
(* judge the health of each packet's lane by its translate work item; a    *)
(* packet that fails repeatedly gets an incident, a patch proposal and a   *)
(* repair work item.  A repair worker claims it, records its execution in  *)
(* the proposal's dispatch, and publishes the patch, or asks for a later   *)
(* try, or for a human, who may resume the repair.  A published repair     *)
(* seeds the packet's translation again.                                   *)
(*                                                                         *)
(* What publication does is PatchPublication's; here it is one step.  The  *)
(* frontier of RunPipeline is left out: any packet may be in translation.  *)
(***************************************************************************)
EXTENDS Integers, FiniteSets, Sequences, SequencesExt

CONSTANTS
    Packets,
    ChapterOf,
    AutoPatchCap,   \* max_auto_followup_attempts of the run's budget
    MaxRetries,     \* max_retry_count_per_work_item of the run's budget
    MaxAttempt,     \* bound: no translation is claimed beyond this attempt
    MaxRepair,      \* bound: no repair is claimed or resumed beyond this attempt
    NoRevision

\* What the constants are; the instances assume it.
HealAssumption ==
    /\ IsFiniteSet(Packets) /\ DOMAIN ChapterOf = Packets
    /\ AutoPatchCap \in Nat
    /\ {MaxRetries, MaxAttempt, MaxRepair} \subseteq Nat \ {0}
    /\ NoRevision \notin Packets

VARIABLES
    run,        \* the status of the run
    revision,   \* document_runs.runtime_bundle_revision_id
    work,       \* the translate work items of each packet, oldest first
    repair,     \* the proposals, oldest first, each with its dispatch and work item
    recalled,   \* the incidents whose details name their latest proposal
    patches,    \* auto_patch_attempt_count
    held,       \* the chapters on hold
    threads     \* the repair workers' threads, each with the lease it was given

healVars == <<run, revision, work, repair, recalled, patches, held, threads>>

\* Policy of the recovery matrix for translation.
RetryCap == 3
IncidentThreshold == 2

LiveStatus == {"pending", "leased", "retryable_failed"}
WorkStatus == LiveStatus \cup {"succeeded", "terminal_failed"}

NewItem(rev) == [status |-> "pending", attempt |-> 1, rev |-> rev]

HealInit ==
    /\ run = "running"
    /\ revision = NoRevision
    /\ work = [p \in Packets |-> <<NewItem(NoRevision)>>]
    /\ repair = <<>>
    /\ recalled = {}
    /\ patches = 0
    /\ held = {}
    /\ threads = {}

-----------------------------------------------------------------------------
(* The state of the run *)

AllItems == UNION {ToSet(work[p]) : p \in Packets}
AnyTerminal == \E i \in AllItems : i.status = "terminal_failed"

\* count_inflight_work_items, for the state the step leads to.
Inflight_TranslateOnly(w, r) ==                 \* mutant: repairs are not counted
    \E p \in Packets : \E i \in ToSet(w[p]) : i.status = "leased"
Inflight(w, r) ==
    \/ \E p \in Packets : \E i \in ToSet(w[p]) : i.status = "leased"
    \/ \E i \in ToSet(r) : i.item = "leased"

\* reconcile_run_terminal_state: repairs are no stage of the pipeline.
Reconciled(w, r) ==
    LET items == UNION {ToSet(w[p]) : p \in Packets}
    IN  IF run # "running" \/ Inflight(w, r) THEN run
        ELSE IF \E i \in items : i.status = "terminal_failed" THEN "failed"
        ELSE IF \A i \in items : i.status = "succeeded" THEN "succeeded"
        ELSE run

-----------------------------------------------------------------------------
(* Translation *)

LastOf(p) == Len(work[p])

\* The translate stage claims nothing any more once an item has failed for good.
ClaimTranslate(p) ==
    LET i == work[p][LastOf(p)]
    IN  /\ run = "running"
        /\ ~AnyTerminal
        /\ i.status \in {"pending", "retryable_failed"}
        /\ i.status = "retryable_failed" => i.attempt < MaxAttempt
        /\ work' = [work EXCEPT ![p][LastOf(p)] =
                      [i EXCEPT !.status = "leased",
                                !.attempt = IF i.status = "retryable_failed" THEN @ + 1 ELSE @]]
        /\ UNCHANGED <<run, revision, repair, recalled, patches, held, threads>>

\* The report of a translation, after which the run is reconciled.
FinishTranslate(p, outcome) ==
    LET i == work[p][LastOf(p)]
    IN  /\ i.status = "leased"
        /\ outcome = "retryable_failed" => i.attempt < MaxRetries
        /\ work' = [work EXCEPT ![p][LastOf(p)].status = outcome]
        /\ run' = IF outcome = "succeeded" THEN run ELSE Reconciled(work', repair)
        /\ UNCHANGED <<revision, repair, recalled, patches, held, threads>>

\* reclaim_expired_leases.
ReapTranslate(p) ==
    /\ run = "running"
    /\ work[p][LastOf(p)].status = "leased"
    /\ work' = [work EXCEPT ![p][LastOf(p)].status = "retryable_failed"]
    /\ UNCHANGED <<run, revision, repair, recalled, patches, held, threads>>

-----------------------------------------------------------------------------
(* The controllers *)

\* The item a lane is judged by: the highest attempt, the newest among equals.
Judged(p) ==
    work[p][CHOOSE n \in DOMAIN work[p] :
                \A m \in DOMAIN work[p] \ {n} :
                    \/ work[p][m].attempt < work[p][n].attempt
                    \/ work[p][m].attempt = work[p][n].attempt /\ m < n]

\* evaluate_packet_task: a failed item is unhealthy, one that waits for a retry
\* or is being worked on is so once it is overdue.
MayBeOverdue == {p \in Packets : Judged(p).status \in {"leased", "retryable_failed"}}
Sick(overdue) == {p \in Packets : Judged(p).status = "terminal_failed"} \cup overdue

\* _chapter_failure_fingerprint.
Symptom(p) == [chapter |-> ChapterOf[p], status |-> Judged(p).status, rev |-> Judged(p).rev]
Occurrences(p, sick) == Cardinality({q \in sick : Symptom(q) = Symptom(p)})

\* RecoveryMatrixService.evaluate.
Exhausted(p, sick) == Judged(p).attempt >= RetryCap /\ Occurrences(p, sick) >= IncidentThreshold
Due(sick) == {p \in sick : Judged(p).attempt >= IncidentThreshold /\ ~Exhausted(p, sick)}

\* fingerprint_incident.
Incident(p, sick) ==
    [packet |-> p, status |-> Judged(p).status, attempt |-> Judged(p).attempt,
     occurrences |-> Occurrences(p, sick),
     rev |-> IF Judged(p).rev # NoRevision THEN Judged(p).rev ELSE revision]

\* What an incident still names once open_or_update_incident is done with it:
\* the details of an incident that is there already are replaced.
Named(due, sick) == recalled \ {Incident(p, sick) : p \in due}

NewRepair(p, incident) ==
    [packet |-> p, incident |-> incident, item |-> "pending", attempt |-> 1,
     decision |-> "none", backoff |-> FALSE,
     dispatch |-> "pending", decided |-> "none", execution |-> 0]

\* evaluate_auto_patch, asked again for each packet of the turn.
Affordable_PerTurn(due) == IF patches < AutoPatchCap THEN Cardinality(due) ELSE 0   \* mutant: asked once
Affordable(due) ==
    IF Cardinality(due) <= AutoPatchCap - patches THEN Cardinality(due) ELSE AutoPatchCap - patches

\* ControllerRunner.reconcile_run: one session for all packets.
ReconcileControllers(overdue) ==
    LET sick == Sick(overdue)
        due  == Due(sick)
        new  == {p \in due : Incident(p, sick) \notin Named(due, sick)}
    IN  /\ run = "running"
        /\ \E scheduled \in SUBSET new :
             /\ Cardinality(scheduled) = Affordable(new)
             /\ LET order == SetToSeq(scheduled)
                IN  repair' = repair \o
                        [n \in DOMAIN order |-> NewRepair(order[n], Incident(order[n], sick))]
             /\ recalled' = Named(due, sick) \cup {Incident(p, sick) : p \in scheduled}
             /\ patches' = patches + Cardinality(scheduled)
        /\ held' = held \cup {ChapterOf[p] : p \in {q \in sick : Exhausted(q, sick)}}
        /\ UNCHANGED <<run, revision, work, threads>>

-----------------------------------------------------------------------------
(* Repair *)

Repairs == DOMAIN repair

ClaimableRepair(r) ==
    \/ repair[r].item = "pending"
    \/ repair[r].item = "retryable_failed" /\ ~repair[r].backoff

\* _process_repair_stage: one item at a turn, the oldest first, and none at all
\* once one has failed for good.
IsNext(r) ==
    /\ \A q \in Repairs : repair[q].item # "terminal_failed"
    /\ ClaimableRepair(r)
    /\ \A q \in Repairs : ClaimableRepair(q) => r <= q

\* The claim and start_work_item; a thread that loses its lease in between fails
\* as one that loses it later.
ClaimRepair(r) ==
    /\ run = "running"
    /\ IsNext(r)
    /\ LET attempt == IF repair[r].item = "retryable_failed" THEN repair[r].attempt + 1
                                                             ELSE repair[r].attempt
       IN  /\ attempt <= MaxRepair
           /\ repair' = [repair EXCEPT ![r] = [@ EXCEPT !.item = "leased", !.attempt = attempt,
                                                        !.decision = "none"]]
           /\ threads' = threads \cup {[repair |-> r, attempt |-> attempt, at |-> "started"]}
    /\ UNCHANGED <<run, revision, work, recalled, patches, held>>

\* A thread's lease is the one of the attempt it claimed.
Holds(t) == repair[t.repair].item = "leased" /\ repair[t.repair].attempt = t.attempt
Gone(t) == threads' = threads \ {t}

\* begin_repair_dispatch_execution, in a session of its own: it is told the
\* lease, and does not ask whether it is still good.
Begin(t) ==
    /\ t.at = "started"
    /\ repair' = [repair EXCEPT ![t.repair] = [@ EXCEPT !.dispatch = "claimed",
                                                        !.execution = t.attempt]]
    /\ threads' = (threads \ {t}) \cup {[t EXCEPT !.at = "begun"]}
    /\ UNCHANGED <<run, revision, work, recalled, patches, held>>

\* ensure_scope_replay_work_items and _bind_retryable_scope_work_items.
LiveItem_Waiting(i) == i.status \in {"pending", "retryable_failed"}    \* mutant: overlooks leases
LiveItem(i) == i.status \in LiveStatus
Bound(items, rev) ==
    [n \in DOMAIN items |-> IF items[n].status \in {"pending", "retryable_failed"}
                            THEN [items[n] EXCEPT !.rev = rev] ELSE items[n]]
Replayed_NextAttempt(items, rev) ==     \* mutant: goes on counting where the failed item stopped
    IF \E i \in ToSet(items) : LiveItem(i) THEN Bound(items, rev)
    ELSE Append(items, [NewItem(rev) EXCEPT !.attempt = Last(items).attempt + 1])
Replayed(items, rev) ==
    IF \E i \in ToSet(items) : LiveItem(i) THEN Bound(items, rev)
    ELSE Append(items, NewItem(rev))

\* complete_execution: publication, replay, dispatch and report in one session,
\* which the report undoes when the lease is gone.
Publish(t) ==
    LET p == repair[t.repair].packet
    IN  /\ t.at = "begun"
        /\ Holds(t)
        /\ repair' = [repair EXCEPT ![t.repair] = [@ EXCEPT !.item = "succeeded",
                        !.dispatch = "executed", !.decided = "publish", !.execution = 0]]
        /\ work' = [work EXCEPT ![p] = Replayed(@, p)]
        /\ revision' = p
        /\ Gone(t)
        /\ UNCHANGED <<run, recalled, patches, held>>

\* What the failure of an execution makes of the repair's item; wrapped
\* decisions say themselves whether they may be retried.
Failures ==
    {[decision |-> "manual_escalation_required", retryable |-> FALSE, backoff |-> FALSE],
     [decision |-> "retry_later", retryable |-> TRUE, backoff |-> TRUE],
     [decision |-> "none", retryable |-> TRUE, backoff |-> FALSE],
     [decision |-> "none", retryable |-> FALSE, backoff |-> FALSE]}

\* record_repair_dispatch_execution, which refuses, unheard, where nothing has begun.
Recorded(rep, failure) ==
    IF rep.execution = 0 THEN rep
    ELSE [rep EXCEPT
            !.execution = 0,
            !.decided = IF failure.decision = "none" THEN "failed" ELSE failure.decision,
            !.dispatch = IF failure.decision = "none" THEN "failed" ELSE failure.decision]

\* complete_work_item_failure.
Failed(rep, failure) ==
    [rep EXCEPT
        !.item = IF failure.retryable /\ rep.attempt < MaxRetries
                 THEN "retryable_failed" ELSE "terminal_failed",
        !.decision = failure.decision,
        !.backoff = failure.backoff]

\* _complete_failure: the item first, whose lease must be good, then the dispatch.
Reported_DispatchAnyway(t, failure) ==          \* mutant: the dispatch is told in any case
    LET rep == repair[t.repair]
    IN  Recorded(IF Holds(t) THEN Failed(rep, failure) ELSE rep, failure)
Reported(t, failure) ==
    LET rep == repair[t.repair]
    IN  IF Holds(t) THEN Recorded(Failed(rep, failure), failure) ELSE rep

\* A decision is made of an execution that has begun; an error may come before.
Fail(t, failure) ==
    /\ t.at = "begun" \/ failure.decision = "none"
    /\ repair' = [repair EXCEPT ![t.repair] = Reported(t, failure)]
    /\ run' = IF Holds(t) THEN Reconciled(work, repair') ELSE run
    /\ Gone(t)
    /\ UNCHANGED <<revision, work, recalled, patches, held>>

\* next_retry_after has passed.
Elapse(r) ==
    /\ repair[r].backoff
    /\ repair' = [repair EXCEPT ![r].backoff = FALSE]
    /\ UNCHANGED <<run, revision, work, recalled, patches, held, threads>>

\* reclaim_expired_leases; the dispatch is not told.
ReapRepair(r) ==
    /\ run = "running"
    /\ repair[r].item = "leased"
    /\ repair' = [repair EXCEPT ![r] = [@ EXCEPT !.item = "retryable_failed",
                                                 !.decision = "none", !.backoff = FALSE]]
    /\ UNCHANGED <<run, revision, work, recalled, patches, held, threads>>

\* The process is killed and started again.
HealCrash ==
    /\ threads # {}
    /\ threads' = {}
    /\ UNCHANGED <<run, revision, work, repair, recalled, patches, held>>

\* resume_repair_dispatch, by a human.
Resume(r) ==
    /\ repair[r].item \in {"terminal_failed", "retryable_failed"}
    /\ repair[r].decision \in {"manual_escalation_required", "retry_later"}
    /\ repair[r].attempt < MaxRepair
    /\ repair' = [repair EXCEPT ![r] = [repair[r] EXCEPT !.item = "pending", !.attempt = @ + 1,
                    !.decision = "none", !.backoff = FALSE,
                    !.dispatch = "pending", !.decided = "none", !.execution = 0]]
    /\ UNCHANGED <<run, revision, work, recalled, patches, held, threads>>

\* The end of a turn in which neither repair nor translation had anything to
\* claim; review and the exports follow a translation that is whole.
Settle ==
    /\ \A r \in Repairs : ~IsNext(r)
    /\ run' = Reconciled(work, repair)
    /\ run' # run
    /\ UNCHANGED <<revision, work, repair, recalled, patches, held, threads>>

-----------------------------------------------------------------------------

RepairThread(t) == Begin(t) \/ Publish(t) \/ \E f \in Failures : Fail(t, f)

HealNext ==
    \/ \E p \in Packets : ClaimTranslate(p) \/ ReapTranslate(p)
    \/ \E p \in Packets, o \in {"succeeded", "retryable_failed", "terminal_failed"} : FinishTranslate(p, o)
    \/ \E overdue \in SUBSET MayBeOverdue : ReconcileControllers(overdue)
    \/ \E r \in Repairs : ClaimRepair(r) \/ Elapse(r) \/ ReapRepair(r) \/ Resume(r)
    \/ \E t \in threads : RepairThread(t)
    \/ HealCrash
    \/ Settle

HealSpec == HealInit /\ [][HealNext]_healVars

\* The loop goes on with what it can claim, and threads with what they do.
HealFairness ==
    /\ \A p \in Packets : WF_healVars(ClaimTranslate(p))
    /\ \A p \in Packets : WF_healVars(FinishTranslate(p, "succeeded"))
    /\ WF_healVars(\E r \in Repairs : ClaimRepair(r))
    /\ WF_healVars(\E t \in threads : RepairThread(t))

HealFairSpec == HealSpec /\ HealFairness

-----------------------------------------------------------------------------
(* Properties *)

\* The types of the variables.
HealTypeOK ==
    /\ run \in {"running", "succeeded", "failed"}
    /\ revision \in Packets \cup {NoRevision}
    /\ \A p \in Packets : \A i \in ToSet(work[p]) :
         i.status \in WorkStatus /\ i.attempt \in 1..MaxAttempt /\ i.rev \in Packets \cup {NoRevision}
    /\ \A r \in Repairs :
         /\ repair[r].item \in WorkStatus
         /\ repair[r].attempt \in 1..MaxRepair
         /\ repair[r].execution \in 0..MaxRepair
    /\ patches \in Nat
    /\ \A t \in threads : t.repair \in Repairs

\* The index uq_work_items_active_scope: however often a packet is repaired and
\* whatever its item does meanwhile, one item of it is live.
OneLiveItem ==
    \A p \in Packets :
        \A m, n \in DOMAIN work[p] :
            work[p][m].status \in LiveStatus /\ work[p][n].status \in LiveStatus => m = n

\* BudgetController: the proposals the controllers open, several in a turn, are
\* those the budget has counted, and never more than it allows.
PatchesWithinBudget == Len(repair) = patches /\ patches <= AutoPatchCap

\* A dispatch shows the wait for a human exactly while its item waits for one,
\* though they are written by threads that may have lost their lease and by
\* sessions that do not know of each other.
EscalationIsTrue ==
    \A r \in Repairs :
        repair[r].decided = "manual_escalation_required"
            <=> repair[r].item = "terminal_failed" /\ repair[r].decision = "manual_escalation_required"

\* A run does not end while a worker is at it, repairs included.
NothingRunsOn ==
    run # "running" =>
        /\ \A i \in AllItems : i.status # "leased"
        /\ \A r \in Repairs : repair[r].item # "leased"

\* The contract of ControllerRunner: it does not seed work items or infer
\* incidents.
ControllersOnlyMirror ==
    [][(\E overdue \in SUBSET MayBeOverdue : ReconcileControllers(overdue)) => UNCHANGED repair]_healVars

\* What the tests of the controllers expect of a repair that was executed: the
\* one proposal of its incident.
OneProposalPerIncident ==
    \A q, r \in Repairs : repair[q].incident = repair[r].incident => q = r

\* Repair reruns the smallest unit that can fix the issue: the item a published
\* repair seeds is worked on.
RepairIsRerun ==
    \A p \in Packets :
        LET Seeded(status) == Len(work[p]) >= 2 /\ work[p][2].status = status
        IN  Seeded("pending") ~> ~Seeded("pending")
=============================================================================
