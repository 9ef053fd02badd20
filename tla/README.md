# Verification of the book-translation runtime

TLA+ models, TLC runs and TLAPS proofs for the part of this repository that is
hard to get right by testing: the machinery that drives one book through
translation, review and export with several threads, a database, files, a clock,
reviewers and operators. Paths below are relative to `src/book_agent/` unless
they start with `README.md`, `tests/`, `scripts/`, `alembic/` or a module name.

## 1. The system

A *document* is parsed into chapters and *packets* (`translation_packets`).
A *run* (`document_runs`) translates its packets, reviews the result and exports
it. Everything durable is in PostgreSQL or SQLite, except the exported files,
their blobs, and the manifests of runtime bundles. Inside one process:

| component | state it keeps | operations | talks to |
|---|---|---|---|
| supervisor and run loop (`app/runtime/document_run_executor.py`) | one thread per live run, one per claimed item | reap leases, seed the frontier, claim, run review and exports, decide whether the run is over | run control, run execution, workers |
| work items and leases (`services/run_execution.py`, `infra/repositories/run_control.py`) | `work_items`, `worker_leases` | seed, claim, start, heartbeat, release, expire, cancel | shared by the run loop and the worker threads through the tables |
| stage derivation (`orchestrator/stage_status.py`, `stage_gate.py`) | nothing: a function of packets and items | status of a stage, may a stage start, outcome of a run | run loop, workers, API |
| run control (`services/run_control.py`, `app/api/routes/runs.py`) | `document_runs.status`, lineage, audit events | create, resume, pause, drain, cancel, retry; the system's pause, fail and succeed | API requests, run loop, workers |
| progress, budget, stage cache (`services/run_execution.py`, `app/runtime/controllers/budget_controller.py`, `orchestrator/pipeline_stage_cache.py`) | counters, usage, repair count and cached stages in `status_detail_json`, `run_budgets` | bump on report, count repairs, cache a stage's status | every report, the loop, the operator |
| packet translation and chapter memory (`services/translation.py`, `memory_service.py`) | translation runs, memory snapshots, proposals | `execute_packet`, approve, reject, merge at review | worker threads, reviewers, review stage |
| review, rerun, follow-ups (`services/review.py`, `workflows.py`, `rerun.py`, `actions.py`, gate of `export.py`) | issues, actions, invalidations, chapter status | review, follow-ups, repair rounds, export gate | run loop, operator |
| self-heal (`app/runtime/controllers/`, `services/runtime_repair_worker.py`) | incidents, proposals, repair dispatches, holds | judge lanes, open repairs, execute, escalate, resume, replay | run loop |
| patch publication (`incident_controller.py`, `services/runtime_bundle.py`, `bundle_guard.py`, `patch_review.py`) | proposals, bundle rows, manifest files, `active.json` | validate, review, publish, activate, judge, roll back | repair workers, reviewers, runs |
| provider credentials (`services/provider_credentials.py`, `app/main.py`) | credential rows, a revision number, the cached worker | activate, create, edit, delete, resolve | API requests |
| event stream (`infra/repositories/events.py`, `app/api/routes/run_stream.py`) | `events`, one generator per client | emit, notify, back-fill, follow | workers, clients |
| exported artifacts (`services/export.py`, `infra/storage/blobs.py`, `infra/concurrency/rebuild_lock.py`, `app/api/routes/documents.py`, four scripts) | export rows, files, blobs, locks | export, stamp, download, rebuild, verify, seed, materialize, reap | API requests, export stage |
| parsing, OCR, segmentation, prompting, rendering, schemas, frontend | - | - | not part of the runtime protocol |

What is hard in it:

- *Threads against rows.* The run loop, one worker per item, heartbeat threads
  and API requests share rows through sessions that keep what they loaded
  (`infra/db/session.py`: no autoflush, no expiry). A decision is made on a row
  read earlier and written later, often the whole of a JSON value at once.
- *Leases and time.* A lease may lapse under a worker that is merely slow. The
  worker goes on, the item is claimed again, the report comes late.
- *Crashes.* A translation and the success of its item are two transactions;
  claims are committed before their threads exist.
- *State outside the transaction.* Files, a revision counter and a cached worker
  are written before the commit that justifies them, and are not rolled back.
- *Frontier seeding.* Only the next packet of each chapter is a work item, so
  "all items are done" is true over and over before the book is.
- *Termination.* The loop, every failing worker and the operator all decide
  about the same run. Reviews, follow-ups and repairs are loops bounded by counts.
- *Order.* Event ids are handed out before the commits that make them visible.

`PROJECT.json` lists the hazards with the lines where they bite, the
properties that would catch each, and the components that are not modelled.

## 2. The modules

| module | what it is | code |
|---|---|---|
| `WorkLedger` | abstract specification: each item is waiting, in flight, or settled once and for all; done or obsolete only with its effect in place | what the rest of the system relies on |
| `WorkItemLease` | items, leases, reaper, worker threads, heartbeats, crashes; implements `WorkLedger` | repository `run_control.py`, `run_execution.py`, worker part of the executor |
| `StageStatus` | stage derivation, gate, run outcome as operators | `stage_status.py`, `stage_gate.py` |
| `RunPipeline` | one run: loop, frontier, workers, review and exports, operator; uses `StageStatus`, and items at the level of `WorkLedger` | executor, `reconcile_run_terminal_state`, service `run_control.py` |
| `DocumentSlot` | abstract specification: a document has one place for an active run, taken, left, or passed on by a retry; lineage is fixed | the index `uq_document_runs_active_per_document` and `retry_run` |
| `RunControl` | all runs of a document and the sessions that move them; implements `DocumentSlot` | service `run_control.py`, routes `runs.py` |
| `RunBudget` | the JSON value of a run and everybody who writes the whole of it | `run_execution.py`, `budget_controller.py`, executor |
| `ChapterMemory` | attempts, proposals and versions of one chapter's memory | `translation.py`, `memory_service.py`, repository `chapter_memory.py` |
| `ReviewLoop` | review, follow-ups, repair rounds and export gate of a chapter | `review.py`, `actions.py`, `rerun.py`, `workflows.py`, `export.py` |
| `SelfHeal` | controllers, repair dispatches, repair workers, replay | `packet_controller.py`, `runtime_lane_health.py`, `runtime_repair_worker.py`, executor |
| `PatchPublication` | one proposal's way to the active bundle, rows and files apart | `incident_controller.py`, `runtime_bundle.py`, `bundle_guard.py`, `patch_review.py` |
| `ProviderCredentials` | credential rows, the requests that change them, the cached worker | `provider_credentials.py`, routes `providers.py`, `main.py` |
| `EventStream` | events from flush to client | `events.py`, `run_stream.py`, the notify trigger |
| `ExportArtifacts` | one export: row, file, blobs, locks, scripts | `export.py`, `blobs.py`, `rebuild_lock.py`, `documents.py`, `scripts/` |
| `WorkItemLease_proofs`, `RunPipeline_proofs`, `SelfHeal_proofs`, `PatchPublication_proofs`, `ProviderCredentials_proofs` | theorems about the module each is named after | |
| `RunApi_proofs`, `Bookkeeping_proofs`, `Delivery_proofs` | theorems about `RunControl` and `EventStream`; `RunBudget` and `ChapterMemory`; `ExportArtifacts` and `ReviewLoop` | |
| `MCRunPipeline` | instances of one component for TLC | |
| `MCWorkItems`, `MCProgress`, `MCRunApi`, `MCBookkeeping`, `MCProcess`, `MCDelivery` | instances of several components *side by side* | |

`WorkItemLease` and `RunPipeline` meet at `WorkLedger`: the first shows how leases
keep the ledger, the second uses items that stand where the ledger says, and
keeps of the leases only what the loop can tell apart (a thread that still has
its lease, one that lost it, a lease that has lapsed). `RunPipeline` and
`RunControl` meet at the status of a run: the first follows one run in detail, the
second all of a document's runs with the work reduced to packets in flight.
`SelfHeal` takes publication as one step, which `PatchPublication` takes apart.

*Side by side.* Components that share no state are checked by one TLC run: the
variable `part`, fixed at the start, says which of them moves, and the others
keep their initial state. Such a run explores the disjoint union of the
components' state spaces, not their product, and shows of each what a run of its
own would: every behaviour of a component is one of the module with that
`part`, and the properties only read that component's variables. In
`MCProgress` each part has its own component's fairness. Nothing about the
interaction of the components is claimed by these modules. The safety runs EXTEND
the components, so that the properties in the configuration are the definitions
the theorems name. Where a component is checked in several settings, there is one
instance of it and a setting restrains who moves in it (`OnlyAtWork` in
`MCProcess`, `RebuildSetting` and its like in `MCDelivery`) or what can go wrong
(`ReviewFaults` and `FallbackFaults` there: the faults a chapter may have).

### State and actions of `WorkItemLease`

`itemStatus`, `attempt`, `holder` are columns of `work_items`; `leaseStatus`,
`leaseItem`, `lapsed` those of `worker_leases` (`lapsed`: `lease_expires_at` is
in the past); `packet` is `translation_packets.status`; `thread` and `verdict`
are the worker threads, named by their lease token; `scan` is what the reaper
has listed and not yet written.

A transaction is one action, except where its decision rests on rows that other
sessions can change before it writes: a report (`BeginReport` reads the lease and
the attempt, `CommitReport` writes with the compare-and-swap of
`release_work_item`, `AbortReport` rolls back) and the sweep (`ReapScan` lists,
`ReapCommit` writes with the compare-and-swap of `expire_lease`). `Claim`
includes `_ensure_work_thread`, which does not start a second thread for an item
whose old one is alive: the claim then has a lease and no thread.

### State and actions of `RunPipeline`

`run` is `document_runs.status` (the run is started: `queued` is in `RunControl`),
`item` and `stageItem` the work items, `translated` the packets, `pc` the point
the loop's thread has reached in `_run_loop`. Each stage of the loop is a
transaction, and an action: `Reclaim`, `TranslateStage` (cancel obsolete items,
seed the frontier, claim up to the free slots, start threads), `SeedStage`,
`ClaimStage` and `PassStage` for review and the two exports, which the loop
executes in its own thread (`StageDone`).

A transaction that sets the status of the run takes two steps, because the row is
loaded at its start, never read again, and written without a condition:

| who | loads | writes | loaded status in |
|---|---|---|---|
| the loop at the end of a round (`reconcile_run_terminal_state`) | `LoadRun` | `Conclude` | `loopSeen` |
| the loop, whose review or export raised | `StageRaises` | `StageFails` | `loopSeen` |
| the loop on any other exception (`_fail_run`) | `LoopRaises` | `LoopFails` | `loopSeen` |
| a worker that raised | `WorkerRaises` | `WorkerFails`, or `ZombieFails` when its lease is gone | `seen` |
| the operator | `Ask` (as `Pause`, `Resume`, `Drain`, `Cancel`) | `Serve` | `request` holds the status to set |

A failing report reconciles the run or, for lack of funds, pauses it
(`FailureOutcome`). The operator's calls may come at any moment and not at all,
one request at a time.

### The other machines

- `RunControl`. `request[s]` is a database session: `Ask`, `Reconcile` and
  `AskRetry` load a run, `Serve` and `ServeRetry` write at its end by what was
  loaded, and `Commit` is refused when the partial index would see two active
  runs. `Create` reads nothing it depends on and is one step. `Claim`, `Translate`
  and `Fail` keep of the work what the index is there to protect.
- `RunBudget`. `detail` is the JSON value as committed, `audit` counts the rows of
  the audit trail and of patch proposals. Each session is a `Begin…` that copies
  `detail` and a `Commit…` that writes the copy back changed: the loop's tick,
  finish, reap and repair, a worker's report (which first takes the item's row,
  `HoldItem`) and its word to the stage cache, an operator's call. Restarts roll
  back what is open.
- `ChapterMemory`. A session translates (`BeginTranslation` or `BeginRerun`,
  `NumberAttempt`, `SaveTranslation`), approves, rejects, or reviews; the tables
  refuse a second translation run of an attempt and a second row of a version.
  The content of a snapshot is the set of packets that contributed.
- `ReviewLoop`. `db` is what the running session sees, `saved` what is committed;
  `stage.pc` walks through the stage: `StartReview`, follow-ups (`FollowUp…`),
  `Assess`, `BeginRound`, `Repair`, `EndReview`, then `StartExport`, the gate and
  its follow-ups, `Export` or `Refuse`. `flaws` is what is wrong with the content; a new
  translation may leave, mend or cause any fault of what it touches. The
  operator's calls come between sessions.
- `SelfHeal`. A turn of the loop lets the controllers judge every packet by its
  last translate item (`ReconcileControllers`), opens incident, proposal and
  repair item, and claims translations and the next due repair. `threads` are the repair
  workers with the lease they were given, so that one that lost its lease still
  writes what it writes before it finds out.
- `PatchPublication`. A repair worker's session goes `Claim`, `Publish`,
  `Activate`, `JudgeSound` or `RollBack`, `Commit`. `manifests` and `pointer` are
  files and change at once; `row`, `proposal`, `item` and `runs` change at
  `Commit`. A crash or an exception anywhere keeps the files and drops the rest.
- `ProviderCredentials`. A request goes read, deactivate the others, set its
  own, flush, announce (revision, then cache), commit, with PostgreSQL's row locks
  and re-read of a locked row. A resolver checks the revision, builds from
  committed rows and stores. `overlapped` is a history variable.
- `EventStream`. Writers flush (`Emit`, which takes the id), commit with their
  notifications, or fail; the stream connects, fetches at most `Limit` rows for the
  back-fill and for each batch of notifications, and sends them one by one
  (`SendRow`), where the cursor follows; the client receives and is cut off.
- `ExportArtifacts`. A writer truncates the file (`Open`), writes it, and may flush
  its row, stamp and link a blob before it commits. A download looks, resolves, tries the
  local lock and the advisory lock, rebuilds, and serves. Every script reads the
  rows first and acts later.

### Abstractions

- Which chapters get the free slots depends on creation times: any choice of
  the right number. Exceptions are classified by message text: retryable or not
  is a choice. The 402 pause is a choice too.
- Translation of a packet is one step in `RunPipeline`, whose sessions
  `ChapterMemory` takes apart.
- Seeding, the derivation's several queries, and each sweep's individual leases
  are atomic. Where a transaction of `RunPipeline` takes two steps, the items and
  packets are read with the write: an outcome is written only when nothing is in
  flight, and then only the loop itself changes them. A claim of the loop that
  falls between the reads and the commit of a failing worker, which then records a
  failed run with an item in flight, is seen only through `LoopFails` and `Cancel`.
- A worker's success is one step, and a failing worker that lost its lease leaves
  the item alone: the report that lands on a newer claim is `WorkItemLease`'s
  subject (finding 1) and not repeated in `RunPipeline`.
- In `RunPipeline` review never sends a packet back; re-translation by follow-ups
  happens inside the review item and is `ReviewLoop`'s. No run of `RunPipeline` has
  repair items; those are `SelfHeal`'s, which leaves out the frontier.
- `ReviewLoop` has one session at a time: the review stage runs in the loop's
  thread, and the operator's calls are short beside it. Which fault a detector
  finds is `Found`; how it finds it is text analysis.
- `RunBudget` lets one call cost one unit, so that `completed` stands for usage.
  `SelfHeal` and `RunBudget` let time be a choice: any lease may have expired.
- `ProviderCredentials` and the locks of `ExportArtifacts` follow PostgreSQL; a
  setting of `ExportArtifacts` without it or without hard links is a constant.
- One process, hence one loop per run: `_ensure_run_thread` guarantees it within
  a process, and nothing across processes. `ExportArtifacts` has several.
- `PacketStatus.FAILED` and `RUNNING` are read but never written by the code.

## 3. The runs

| run | instance | distinct states | shows |
|---|---|---|---|
| `lease_safety` | `MCWorkItems`: 2 items, 3 lease tokens, `MaxRetry` 2; 2 packets of one chapter under repair | 526,000 | lease safety, the refinement of `WorkLedger`, repairs |
| `lease_liveness` | `MCProgress`: 1 item and 3 tokens; one writer, 4 events, 2 disconnections; 3 downloads in 2 processes | 84,000 | `InFlightDrains`, `EverythingAfter`, `LocksAreFreed` |
| `lease_late_release` | `WorkItemLease`: 1 item, 2 tokens | violation | finding 1 |
| `pipeline_safety` | chapters of 2 and 1 packets, 1 worker, 2 faults | 1,935,000 | the properties of `RunPipeline` below |
| `pipeline_liveness` | 1 chapter of 2 packets, 2 faults | 192,000 | `ReportedRunSettles` |
| `pipeline_early_success` | 1 packet, no fault | violation | finding 2 |
| `pipeline_killed_run` | 1 packet, 1 fault | violation | finding 3 |
| `pipeline_held_run` | 1 packet, no fault | violation | finding 4 |
| `api_safety` | `MCRunApi`: 3 runs, 2 sessions, 1 packet; 2 writers, 6 events, limit 2, 2 disconnections | 2,380,000 | one active run, the refinement of `DocumentSlot`, the order of the stream |
| `bookkeeping_safety` | `MCBookkeeping`: 2 packets with 2 tokens and a repair; 2 packets, 2 sessions, 2 attempts | 3,350,000 | counters and memory |
| `process_safety` | `MCProcess`: 2 credentials (one not yet created), 2 requests, a resolver; 3 proposals, of which two for two revisions, or two for one, are at work, 2 workers, a reviewer | 3,820,000 | credentials and bundles |
| `delivery_safety` | `MCDelivery`: two settings of a chapter's review, three of its export | 3,610,000 | review, gate, downloads, scripts |

Properties of `WorkItemLease`:

- `OwnedItemHasActiveLease`: an item leased or running is held under an active
  lease of its own. The reaper finds items through active leases only.
- `SettledMeansTranslated`: succeeded or cancelled items have their translation
  committed, although the two are different transactions.
- `OneThreadPerItem`: a packet is never translated by two threads of a process.
- `AttemptCountsClaims`: the attempt number counts the claims, none skipped or
  counted twice.
- `SettledIsFinal`, `ImplementsLedger`, and `InFlightDrains` (liveness).

Properties of `RunPipeline`:

- `SuccessIsComplete`: a succeeded run has the whole book translated and nothing
  left to do.
- `OnePacketPerChapter`, `PacketsInOrder`: a chapter is translated one packet at
  a time, each after all those before it are translated, and not past a packet
  that failed for good.
- `StagesInOrder`: review follows the whole translation, exports a passed review,
  the merged export the bilingual one; and what a stage relied on stays so.
- `WithinParallelism`.
- `OutcomeIsFinal`: only a transaction that loaded the run before it ended can
  change its outcome; late workers that look at it afterwards cannot.
- `ReportedRunSettles` (liveness): once an item is settled by a report, the run
  ends or pauses.

Properties of the others:

- `OneActiveRun`, `ImplementsSlot`, `DisplacedRunHasFailed` (`RunControl`): one active
  run per document although every session decides on a row it loaded before; a
  place is passed on only by a retry, to the run that names the one displaced; and
  only a run with an item failed for good is displaced, whatever was done
  to it since it was found stale.
- `NothingInvented` (`RunBudget`): counters lag behind the audit trail and never run
  ahead of it, and the stage cache never reports a success that is none, whichever
  stale copy of the JSON value is written last.
- `NewestIsActive`, `PendingIsNewest` (`ChapterMemory`): the newest version is the
  active one; a proposal still pending belongs to the newest translation of its packet.
- `CheckedIsClean`, `OpenIsPlanned`, `ExportIsWhole`, `SuccessIsChecked` (`ReviewLoop`):
  a checked chapter has no fault that blocks; an open issue has an action still to
  run, or the repair would never come back to it; an export never takes a chapter with an invalidated
  packet; a stage reports success only for a chapter the last review checked.
- `OneLiveItem`, `PatchesWithinBudget`, `EscalationIsTrue`, `NothingRunsOn` (`SelfHeal`):
  one live item per packet whatever repairs and replays it; no more repairs than
  the budget; a dispatch shows a wait for a human exactly while there is one; no run ends
  under a worker.
- `NothingUnreviewed`, `BundlesAreBacked` (`PatchPublication`): nothing that needed
  a review is in force without it; a revision in use has its manifest, and a run's
  its committed row, wherever the process stops.
- `OneActive`, `FreshUnlessOverlapped` (`ProviderCredentials`): concurrent activations
  leave one active row; a cached worker is the active one unless a change
  overlapped another or a resolution.
- `ReceivedInOrder`, `EverythingAfter` (`EventStream`): the client's ids rise, and it
  misses only what was committed out of order; without overlap and within the
  limit it gets everything, however often it is cut off (liveness).
- `OneRebuild`, `LocksAreFreed`, `StampIsOfTheFile`, `MissingWasLost` (`ExportArtifacts`):
  one download at a time rebuilds, in all processes; the process's lock is left
  (liveness); at rest a stamp is of the file there is, although two POSTs crossed, as
  long as nothing but POSTs has written the export (`WrittenByPosts`: an export
  stage of a run and the backfill may leave stamps of other bytes); only a file
  that was lost is marked missing.

### Bounds

*Leases.* Lease tokens bound the number of claims: three let an item be claimed,
reaped, claimed beside its old thread, and claimed once more after that one is
gone, with another item in between; two items are enough for the interactions,
since an item's rows are touched only by its own claims and the common sweep.
`MaxRetry` 2 gives a retryable and a terminal failure of one item.

*Pipeline.* `MaxFaults` bounds lapses under running threads, retryable failures,
loop exceptions and crashes: without a bound such faults may recur for ever and no
run need end. Two allow, for example, a lapse and a crash, or a crash and a retry,
in one run; a failure for good is no bounded fault and may come besides. Two
chapters, one of them with a successor packet, and one slot make chapters
compete and the frontier advance; `WithinParallelism` needs more chapters than
slots. An orphan's lapse and the operator are not bounded.

*Runs of a document.* Three runs give a lineage of two generations beside a
competing creation; two sessions are every pair that races on one row.

*Bookkeeping.* Two tokens let two workers, or a late one and its successor, overlap
with the loop and with one operator's call; `PatchBound` 1 keeps the repair count
from being spent twice, which the code allows (section 4). Two attempts of two packets
let a rerun cross a stale thread and an approval.

*Repairs.* `MaxAttempt` 3 lets a packet become sick (the policy acts on the second),
`MaxRepair` 2 lets a repair be retried, escalated and resumed.

*Process.* Two requests and a resolver are every overlap of two changes and one use;
`MaxRevision` 2 lets the resolver be late by two. Of two proposals one needs a reviewer;
in one setting they derive different revision ids, in the other the same.

*Stream and delivery.* Six events with a limit of two need several batches;
two disconnections let the client lose what is on the wire twice. The chapter of
`MCDelivery` has two packets and every remedy, scope and kind of issue the
follow-ups distinguish: in one setting a conflict of terms, a lockable concept and a
chapter-wide rerun, in the other the fallback to a brief that two packets share,
realignment, a new parse and a sentence for a person. Two attempts let a follow-up
fail, be repeated and be held, and a second round sees what the first one did. The export settings each have the sessions their property
is about, one edit more than POSTs need to differ, and one lost file.

The violation runs use the smallest instance in which the behaviour exists.
Deadlock is not checked: the systems stop (all items settled; run ended; bounds used up).

### Fairness

`WorkItemLease`: a live thread takes its next step (threads are scheduled, and
provider calls have timeouts); the clock reaches the expiry of a lease whose
thread is gone; the reaper sweeps, which is the run loop's first step in each
round. No fairness on claims, heartbeats, crashes or lapses under a live thread.
`RunPipeline`: the loop and the threads take their steps, orphaned leases
expire. Nothing is assumed of the operator or of faults. The loop's fairness
includes starting it again (`Supervise`), which the supervisor does on every
poll. `EventStream`: the client comes back and reads, the generator does what it
can; nothing is assumed of the writers. `ExportArtifacts`: a request that has
begun goes on, in its thread of the server; none need begin.

## 4. Findings

1. **A late release can overwrite a newer claim** (`lease_late_release`). The
   compare-and-swap in `release_work_item` checks the item's status and not its
   holder. Read lease, reaper, new claim, write: the report of the first worker
   lands on the second's item. The comment at
   `infra/repositories/run_control.py:532-536` and `tests/test_work_item_cas.py`
   promise otherwise. `OwnedItemHasActiveLease` survives, since the item is then
   settled or waiting.
2. **A run can succeed without review and exports** (`pipeline_early_success`),
   against `services/run_execution.py:779-781`, when the last worker reports
   between the review gate and the reconciliation of the same round.
3. **A killed run can loop for ever** (`pipeline_killed_run`), against
   `README.md:24` and `README.md:285`: a crash between the commit of a
   translation and its report makes the item obsolete, and a stage with only
   cancelled items never succeeds. The same happens to a retry of a book that is
   already translated.
4. **A pause or cancel can be overwritten by success** (`pipeline_held_run`),
   against `services/run_control.py:660-662`: the reconciliation wrote on the strength of
   a status it loaded before the request. In the same way a request, or a
   worker that pauses the run, can overwrite an outcome it has not seen, which is
   why `OutcomeIsFinal` is stated of what a transaction has loaded.

Further statements of docs, comments and tests are stated in the modules beside the
properties that hold. TLC refutes each when it takes the place of the properties
in the configuration of the run named (as INVARIANT, or as PROPERTY where it is an
action or a temporal formula); they have no run of their own.

| statement | run | what the text says, and what happens |
|---|---|---|
| `FrontierNotShared` | `api_safety` | two runs never compete for one frontier (`alembic/versions/20260421_0027_document_runs_active_unique.py:7-13`). A run paused or cancelled keeps its threads, and the run that retries it claims the packet they are at. |
| `NeverMissed` | `api_safety` | back-fill never misses an event (`run_stream.py:4`). An id taken early and committed late is passed by the cursor. |
| `FailureIsLogged` | `api_safety` | every LLM call is a row (`README.md:81`). The event of a failed call is rolled back with its session. |
| `SuccessEventsAreTrue` | `bookkeeping_safety` | the reaper's decision is preserved (`run_control.py:532`). The late report still writes a success event and bumps the counters. |
| `SpendIsCapped` | `bookkeeping_safety` | the budget caps spend (`README.md:303`). Nothing in the service calls `enforce_budget_guardrails`. |
| `ApprovalKeepsMemory` | `bookkeeping_safety` | an approval on drifted memory is refused (`memory_service.py:192`). Not when the proposal was made before the chapter had a memory: each approval then replaces the ones before. |
| `DecidedOnce` | `bookkeeping_safety` | a committed proposal cannot be rejected (`memory_service.py:166`). Two sessions that loaded it pending decide it both ways. |
| `ControllersOnlyMirror` | `lease_safety` | controllers seed no work items (`controller_runner.py:33`). `project_lane_health` opens a proposal and seeds its repair. |
| `WorkerIsCurrent` | `process_safety` | a swapped provider takes effect on the next request (`main.py:89`). The cache is cleared before the commit, and a request in between refills it from the old row. |
| `AlwaysOneActive` | `process_safety` | the active provider cannot be deleted (`provider_credentials.py:153`). It can by a request that read it idle. |
| `PacketsUseTheActive` | `process_safety` | the next packet uses the active model (`provider_credentials.py:4`). The executor is given the worker of the start, which is none, and packets are echoed. |
| `RejectionIsTerminal` | `process_safety` | a rejection is terminal (`patch_review.py:12`). Its work item is claimed again, and `begin_validation` accepts any status. |
| `ActiveBundleIsFound` | `process_safety` | a published bundle is found (`runtime_bundle.py:163`). `active.json` names a row that was rolled back. |
| `FailureHasCause` | `delivery_safety` | a failed stage has unresolved blocking issues (`document_run_executor.py:806`). The number was taken before the last review. |
| `FailedTwiceIsHeld` | `delivery_safety` | an action that failed twice is held (`workflows.py:71`). The audit of the second stage overwrites the first. |
| `ServesWholeFiles` | `delivery_safety` | no download reads a file that is being written (`rebuild_lock.py:4-8`). One without a row, or a reader beside a rebuild, does. |
| `BlobIsItsName`, `NothingDrifts`, `ReexportServes`, `ReaperSparesReferenced`, `ServesNewestExport` | `delivery_safety` | a blob is the bytes of its name (`documents.py:326`); drift comes from outside (`verify_exports.py:13`); exporting again repairs a stale export (`documents.py:187`); the age gate protects blobs in use (`reap_blob_store.py:27`); a missing stamp is no visible failure (`blobs.py:16`). Hard links, merges that keep attributes, unchanged mtimes and stamps left behind by export stages break them. |

Others need another bound or fairness: `RunBudget!PatchesWithinBudget` with
`PatchBound` 2 (a stale copy of the JSON value takes the count back),
`SelfHeal!OneProposalPerIncident` with `AutoPatchCap` 2 (an incident forgets its
latest proposal at every turn), `EventStream!EverythingAfter` with `Limit` 1 (the
rest of a back-fill is never sent when the run has ended), and, under the
fair specifications of their modules (`ReviewFairSpec` and its like), `ReviewLoop!StageEnds` (a concept that cannot be
locked is chosen for ever), `PatchPublication!ApprovedIsPublished` (approval
does not revive the failed item) and `SelfHeal!RepairIsRerun` (the failed item
stays and ends the run).

## 5. The proofs

Eight modules of proofs about the eleven components, for every value of their constants. What a module assumes of them is its named assumption,
which the instances of section 3 satisfy; the bounds that keep TLC's instances
finite (`MaxFaults`, `MaxAttempt`, `MaxEdits`, ...) may have any value.

| component | theorem | states |
|---|---|---|
| `WorkItemLease` | `TypeCorrect`, `LeaseHeld`, `ThreadExclusion`, `SettledTranslated` | `TypeOK`, `OwnedItemHasActiveLease`, `OneThreadPerItem`, `SettledMeansTranslated` |
| | `SettledStays` | the action property `SettledIsFinal` |
| | `AttemptsAreClaims` | `AttemptCountsClaims` |
| | `Refinement` | `ImplementsLedger`: every behaviour is one of `WorkLedger` |
| `RunControl` | `RunsTypeCorrect`, `OneRunAtATime` | `TypeOK`, `OneActiveRun` |
| | `RetryDisplacesOnlyFailed` | the action property `DisplacedRunHasFailed` |
| | `SlotRefinement` | `ImplementsSlot`: every behaviour is one of `DocumentSlot` |
| `RunPipeline` | `PipelineTypeCorrect`, `OneAtATime`, `ChaptersInOrder`, `StagesFollow`, `BudgetKept`, `SuccessMeansComplete` | `TypeOK`, `OnePacketPerChapter`, `PacketsInOrder`, `StagesInOrder`, `WithinParallelism`, `SuccessIsComplete` |
| | `OutcomeStays` | the action property `OutcomeIsFinal` |
| `SelfHeal` | `HealTypesCorrect`, `OneLive`, `WithinBudget`, `EscalationTold`, `NothingRunning` | `HealTypeOK`, `OneLiveItem`, `PatchesWithinBudget`, `EscalationIsTrue`, `NothingRunsOn` |
| `PatchPublication` | `UnreviewedHasNoEffect`, `BundlesBacked` | `NothingUnreviewed`, `BundlesAreBacked` |
| `ProviderCredentials` | `ProvidersTypeCorrect`, `AtMostOneActive`, `CacheIsFresh` | `TypeOK`, `OneActive`, `FreshUnlessOverlapped` |
| `ExportArtifacts` | `ArtifactsTypeCorrect`, `RebuiltByOne`, `MissingIsLost`, `StampMatches` | `TypeOK`, `OneRebuild`, `MissingWasLost`, `StampIsOfTheFile` |
| `RunBudget` | `BudgetTypeCorrect`, `CopiesAreHonest` | `TypeOK`, `NothingInvented` |
| `ChapterMemory` | `MemoryTypeCorrect`, `NewestVersionIsActive`, `PendingOfNewest` | `MemoryTypeOK`, `NewestIsActive`, `PendingIsNewest` |
| `EventStream` | `StreamInOrder` | `ReceivedInOrder` |
| `ReviewLoop` | `CheckedClean`, `OpenPlanned` | `CheckedIsClean`, `OpenIsPlanned` |
| | `ExportWhole`, `SuccessChecked` | the action properties `ExportIsWhole`, `SuccessIsChecked` |

Every safety invariant and every action property of the safety runs is the subject of a
theorem.

### `WorkItemLease`

From `LeaseAssumption` alone (`MaxRetry` a natural number, the two null values no
members of their sets). The invariants are not inductive alone; `IInv` adds:

- `IssuedLeases`: an issued token names an item; one not issued has no item, no
  thread and no place in the reaper's listing. Without it a thread could report
  on no item, or a claim find its lease about to be expired.
- `SuccessIsEarned`: a thread that has translated, or is about to report
  success, has its packet translated. This carries the knowledge of the first
  transaction into the second and is what makes `SettledMeansTranslated`
  survive `CommitReport`, even when that write lands on a newer claim.
- `OutlivedThreadIsIdle`: a live thread whose item is settled has its packet
  translated. A thread can outlive its item only when the item was finished or
  cancelled as obsolete, because an item fails for good only by the report of its
  one thread (`OneThreadPerItem`). The refinement needs it: `WorkLedger` lets no
  effect happen once an item is settled.

`OwnedItemHasActiveLease` survives a report because a lease is released only
with its item's being given up, or when the item is not owned; and the sweep
because it gives up exactly the owned items of the leases it expires. The
`Refinement` proof maps each action to a ledger step or a stutter:
`Claim` to `Take`, `Translate` to `Perform` (or a stutter when it was
translated), `CommitReport` to `Finish`, `GiveUp` or `Requeue`, `ReapCommit` to
`Requeue` of the reaped set, `CancelObsolete` to `Drop`.
`AttemptsAreClaims` counts the tokens of an item, which are finitely many because
each comes from one claim (`ClaimsMatch`).

### `RunControl`

From `NoRun \notin Runs`. Nothing is assumed of what a session has loaded: a
transition may rest on any stale row, and `Commit` alone keeps `OneActiveRun`. The
refinement needs two facts besides, `NoPredecessor` (a run that is absent has no
lineage, so a creation sets it once) and `AskedOfExisting` (no session is under
way for an absent run, so a transition never brings one into being without
lineage). `HolderIs` says that the slot's holder, a CHOOSE, is the active run;
each action's lemma then shows the step of the slot. `RetryDisplacesOnlyFailed`
rests on `StaleHasFailed`: what a session found stale when it loaded the run has an
item that failed for good, and failures stay, so the claim outlasts whatever
others do to the run before the commit.

### `RunPipeline`

From `PipelineAssumption`: finitely many chapters, each with a natural number of
packets, at least one worker, any number of faults. Every step but the dispatch of
packets only settles items in flight or puts them back (`Settles`), so the proofs
look at two kinds of step. `LedgerInv` holds what the properties need besides
themselves: threads and lapsed leases are of items in flight, a packet whose item
is done is translated, and a chapter's items have no gap (`NoGap`: where a packet
has an item, each before it has one or is translated). `SuccessIsComplete` is kept
because a finished book stays so (`FinishedStays`: nothing waits, nothing is in
flight and the frontier is empty) and because the reconciliation concludes success
from a finished book only. `OutcomeIsFinal` follows from `RunStep`, which lists who
may write the status of the run and what each must have loaded.

### `SelfHeal`

From `HealAssumption`: finitely many packets, a chapter for each, caps as the
budget has them. `OneLiveItem` needs `OlderSettled` (all items of a packet but the
newest are settled) because replay looks for a live item anywhere and claims only
touch the newest. `EscalationIsTrue` is about a dispatch and an item that two sessions
write; what carries it is a fact about threads, `ThreadOK`: a thread's attempt is
never given out twice, so one that still holds its lease and has begun its
execution is the one the dispatch is open for, its report finds the execution,
and item and dispatch are written together. `NothingRunsOn` needs only itself
(`Quiet`), but of every step: what leases an item asks for a running run, and
what ends the run counts the items in flight of both kinds.

### `PatchPublication`

From `PublicationAssumption`. The database is rolled back when a session fails and
the files are not, so the invariant says of every session that publishes what must
hold if it ends right now (`SessionOK`): its proposal is cleared for publication,
its manifest is written, and what it falls back on is committed.

### `ProviderCredentials`

For any sets of credentials, requests and resolvers. `OneActive` is not inductive:
two activations may both have loaded the table before either wrote. The invariant
adds `NotYet` (an activation has not flushed its own row before it has dealt with
the others), `OneAhead` (of all activations one at most has flushed its own row:
the unique index makes the second wait for it) and `OthersOff` (that one has
switched off every other active row and holds the lock on it). `CacheIsFresh` adds
`CacheInv`: the cache is of no revision the counter has not reached, it is
unusable while an announced change is uncommitted (`Unusable`), and what a
resolution has built is of the rows as they are, for none is about to change.

### `ExportArtifacts`

From `ArtifactAssumption`, which says that POSTs are told from downloads and runs
and that the bytes of renderings are told from names and from no bytes.
`RebuiltByOne` holds on PostgreSQL, whose advisory lock spans processes: `Locking`
says that whoever rebuilds has it until its transaction has ended.
`MissingIsLost` rests on `LostInv`: who writes an export has made the file before
the row can say so, and a script that reports it gone saw the row first.
`StampMatches` needs the limits the property itself has (`WrittenByPosts`): after
an export stage of a run, the backfill or a loss the stamp may be of another file,
and the model shows it. Its `StampRight` says that the row is locked from a flush to
the commit, so the one that commits last has hashed what all have written; scripts
that write no stamp and downloads may come at any time.

### `RunBudget`

From `BudgetAssumption`: finitely many packets, natural bounds. The counters and the
stage cache are fields of one JSON value, which each session reads as a whole, keeps
and writes back as a whole. So nothing can be said of the value in the row alone:
`BudgetInv` says of every copy, the row's and each session's, that it is `Honest`
(its counters do not exceed the audit trail, and it caches success only of a
translation that is done). A copy stays honest while others work because the audit
trail only grows and a translation that is done stays done (`HonestStays`); what a
session writes is an honest copy with one more of what it has logged itself.

### `ChapterMemory`

From `MemoryAssumption`: finitely many packets, at least one attempt. `MemoryInv` adds
to the two properties that a session has loaded a version that exists, that each
proposal it has chosen exists, and `Numbered`: the attempt a translation is about
to save has all earlier ones in the table, so the proposals it retires are those of
every earlier attempt, and the unique key refuses it when another has taken its
number. `NewestIsActive` is carried by `NextVersionsKeep`: versions are written from
the loaded one on, over what others have written since, and the last of all is
active either way.

### `EventStream`

From `StreamAssumption`: a limit of at least one, any number of events and broken
connections, any writers. `ReceivedInOrder` speaks of what the client has
received, which by itself says nothing of the next row. `StreamInv` follows an
event all the way. `Sending`: what is received, what is on the wire, the cursor and
the rows still to send follow each other, and all are committed. `PassedLate`: an
event that one of them has passed and not taken along was committed after one of a
higher id. It has three parts, for the client, the cursor and the fetched rows,
because a row is left out at the fetch, passed by the cursor when the next is sent,
and by the client when that one arrives. A limit leaves out the newest rows only
(`Fetched` takes an event with all that are due before it), so it passes nothing, and a
broken connection takes the cursor back to what the client has.

### `ReviewLoop`

From `ReviewAssumption`: any packets and issues, any remedies, scopes and limits. The
content changes at will where a rerun touches it. `RowsSound` says of the rows what the
two invariants say, and `ReviewInv` asks it of the rows of the session and of those
committed, to which a refused export or an exception goes back. `Reviewed` makes any
rows sound; the lemmas show that what is written between two reviews keeps them so:
`ActedOnIsSound`, `RerunIsSound`, `LoggedIsSound`, and `GateKeeps` for the issues
the gate opens. `SuccessIsChecked` needs two facts from the first review of the stage to
its verdict: what blocks a chapter whose packets are translated is an active issue
(`Known`), and the chapter has passed or has such an issue, unless it was skipped
(`Told`). The verdict counts the active issues before the last review, and
`Known` is why that review then finds nothing that blocks. The choice of actions, a fold
over the issues, plays no part: the lemmas hold for any action.

### What the proofs brought out

Two premises of the models were implicit and are now in their assumptions: the
chapters of a book and the packets of a document are finite sets, and the values
of the storage model that stand for "none", names and bytes are distinct. And five
operators used CASE with arms that overlap, which TLC evaluates in order and TLA+
does not: by its semantics `Reconciled`, `Resolved`, `Hash`, `ApplyToRow` and
`Touched` said less than the code's if-else chains. They are IF chains now; the
lemma that a reconciliation never ends a run with something in flight was not
provable before.

One property was stated of the wrong rows. That an export takes no chapter with an
invalidated packet was asked of what the session sees. There it is false once three
sessions follow an export: an operator leaves the exported chapter with an invalidated
packet, the next session takes it out of that status, and its rollback brings the
status back. The bound of two sessions hid it. `ExportIsWhole` asks it of the commit. And `EventStream` sent a batch in one
step; it sends row by row now, as the generator does, because the connection can
break between two rows with the cursor between them.

### Model-checked only

- Every liveness property: fairness and ENABLED are beyond the prover.
- What the folds and sequence filters compute (`Chosen`, `InOrder` and `Free` of
  `ReviewLoop`, the queues of `SelfHeal`): that is induction over data. The theorems
  hold whatever they compute; `ReviewTypeOK`, which says that the queue holds issues,
  and the order of the repairs are not proved.
- `StreamTypeOK` as a whole: the proof has the types it needs (`StreamTypes`).

The inductive invariants `BudgetInv`, `MemoryInv`, `StreamInv` and `ReviewInv`, and
`IInv` of `SelfHeal`, were checked by TLC on the instances of section 3
before they were proved.

## 6. Plan

In order:

1. `RunPipeline` with the repair stage of `SelfHeal`: what a repair item does to
   the outcome of a run whose frontier is not empty.
2. `RunPipeline` over the items of `WorkItemLease`: that a step of the pipeline is a
   step of `WorkLedger`, so that the two levels are tied by a theorem and not by
   construction.
3. The type invariants `ReviewTypeOK` and `StreamTypeOK`, as far as they need no
   induction over sequences.

## 7. Not modelled

- Document parsing (`domain/structure/pdf.py`, `epub.py`, `ocr.py`), bootstrap and
  segmentation, prompting and provider calls, quality detectors, export
  rendering (nearly all of `services/export.py`), API schemas and read models,
  the frontend and the tools: heuristics and data transformation, sequential and
  without a protocol whose interleavings matter. They are most of the repository's
  lines; the models cover the state machines around them, and take their outcomes
  as choices.
- The recovery families of `SelfHeal` other than packet runtime defects
  (review deadlock, export misrouting): they take the same path through incident,
  dispatch and worker. Repair transports, which are calls out of the process.
- The layout issues of the export gate, which work as the alignment issues do.
- Context compilation, glossary, concept locking and term normalisation: what the
  text of a memory or a brief says.
- The eager commit of chapter memory and the bootstrap of an empty credential
  table, which no request reaches in the running service.
- The reaper of a paused run: it runs inside the loop, and the loop of a paused
  run has ended; no text promises more.

Components of which a part is modelled are marked `partly` in `PROJECT.json`, with
what is left out.

## 8. Running

    tlc -config MCWorkItems.cfg MCWorkItems
    tlc -config MCRunPipeline.cfg MCRunPipeline
    tlc -config MCProgress.cfg MCProgress
    tlc -config MCRunApi.cfg MCRunApi
    tlc -config MCBookkeeping.cfg MCBookkeeping
    tlc -config MCProcess.cfg MCProcess
    tlc -config MCDelivery.cfg MCDelivery
    tlapm WorkItemLease_proofs.tla
    tlapm RunApi_proofs.tla
    tlapm RunPipeline_proofs.tla
    tlapm SelfHeal_proofs.tla
    tlapm PatchPublication_proofs.tla
    tlapm ProviderCredentials_proofs.tla
    tlapm Delivery_proofs.tla
    tlapm Bookkeeping_proofs.tla

Each takes two and a half minutes at most on two cores; the four violations have the other configurations.
