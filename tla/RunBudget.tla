------------------------------ MODULE RunBudget ------------------------------
(***************************************************************************)
(* The progress of a run, as its row tells it: document_runs.              *)
(* status_detail_json holds the counters, the usage that the budget is     *)
(* compared with, the automatic repairs attempted and the cached status of *)
(* the stages, all in one JSON value.  Every session that changes any of   *)
(* them loads the value, and writes the whole of it back when it commits.  *)
(*                                                                         *)
(* The run's loop (seeding and claiming, reaping, repairing) is one thread *)
(* and holds one session at a time; the worker threads and the operator's  *)
(* calls have sessions of their own beside it.  The stage is translation,  *)
(* the packets are of different chapters, and one call costs one unit, so  *)
(* that `completed' stands for the usage too, which moves with it.         *)
(***************************************************************************)
EXTENDS Naturals, FiniteSets

CONSTANTS
    Packets,    \* the packets of the run, one work item each
    Tokens,     \* the lease tokens: a bound on the claims
    NoPacket,   \* the item of a token not handed out yet
    MaxRetry,   \* run_budgets.max_retry_count_per_work_item
    MaxPatches, \* run_budgets.max_auto_followup_attempts
    MaxUsage,   \* run_budgets.max_total_token_in, _out, max_total_cost_usd
    PatchBound, \* a bound on the repairs dispatched
    ControlBound \* a bound on the operator's calls

\* What the constants are; the instances assume it.
BudgetAssumption ==
    /\ IsFiniteSet(Packets) /\ NoPacket \notin Packets
    /\ {MaxRetry, MaxPatches, MaxUsage, PatchBound, ControlBound} \subseteq Nat

VARIABLES
    detail,     \* status_detail_json as committed
    audit,      \* how many run_audit_events (and patch proposals) there are
    items,      \* work_items.status; its row is locked while a report holds it
    lease,      \* the worker leases, by token
    thread,     \* the worker thread that was given the token
    loop,       \* the session of the run's loop
    operator    \* the session of an API call that moves the run

vars == <<detail, audit, items, lease, thread, loop, operator>>

Counters == {"seeded", "completed", "retryable", "terminal", "reclaimed", "patches"}
Events == Counters \cup {"control"}
CacheStatus == {"unknown", "running", "retryable_failed", "failed", "succeeded"}

Detail ==
    [seeded : Nat, completed : Nat, retryable : Nat, terminal : Nat, reclaimed : Nat,
     patches : Nat, consecutive : Nat, cache : CacheStatus]
Blank == [seeded |-> 0, completed |-> 0, retryable |-> 0, terminal |-> 0, reclaimed |-> 0,
          patches |-> 0, consecutive |-> 0, cache |-> "unknown"]

NoSession == [op |-> "none", read |-> Blank, subject |-> {}]
Session(op, subject) == [op |-> op, read |-> detail, subject |-> subject]

\* The thread of a token: what it does, how its call ended, what it has read.
NoThread == [at |-> "none", outcome |-> "none", read |-> Blank]
Ended_Finished == [NoThread EXCEPT !.at = "finished"]   \* mutant: a phase of its own
Ended == [NoThread EXCEPT !.at = "done"]

Init ==
    /\ detail = Blank
    /\ audit = [c \in Events |-> 0]
    /\ items = [p \in Packets |-> "absent"]
    /\ lease = [t \in Tokens |-> [packet |-> NoPacket, status |-> "unused"]]
    /\ thread = [t \in Tokens |-> NoThread]
    /\ loop = NoSession
    /\ operator = NoSession

-----------------------------------------------------------------------------
(* The loop seeds, claims and hands the claimed items to threads *)

Claimable(st) == {p \in Packets : st[p] \in {"pending", "retryable_failed"}}
Alive(t) == thread[t].at \notin {"none", "done"}
Attempt(p) == Cardinality({t \in Tokens : lease[t].packet = p})
Locked(p) == \E t \in Tokens : thread[t].at = "held" /\ lease[t].packet = p

\* A tick loads the run and the items; with an item that is missing or
\* claimable, and none failed for good, it goes on to write.
BeginTick ==
    /\ loop = NoSession
    /\ \A p \in Packets : items[p] # "terminal_failed"
    /\ \E p \in Packets : items[p] = "absent" \/ p \in Claimable(items)
    /\ loop' = Session("tick", {p \in Packets : items[p] = "absent"})
    /\ UNCHANGED <<detail, audit, items, lease, thread, operator>>

\* A claimed item gets a thread unless this process has one on it already.
Handed(t, p) ==
    IF \E u \in Tokens : Alive(u) /\ lease[u].packet = p
    THEN Ended
    ELSE [NoThread EXCEPT !.at = "work"]

\* How many it claims is up to the room its pool has.
CommitTick ==
    /\ loop.op = "tick"
    /\ \E new \in SUBSET {t \in Tokens : lease[t].status = "unused"} :
       \E claim \in [new -> Packets] :
         LET st == [p \in Packets |-> IF p \in loop.subject THEN "pending" ELSE items[p]]
         IN  /\ \A t \in new : claim[t] \in Claimable(st)
             /\ \A t, u \in new : claim[t] = claim[u] => t = u
             /\ items' = [p \in Packets |->
                            IF \E t \in new : claim[t] = p THEN "leased" ELSE st[p]]
             /\ lease' = [t \in Tokens |->
                            IF t \in new THEN [packet |-> claim[t], status |-> "active"]
                            ELSE lease[t]]
             /\ thread' = [t \in Tokens |->
                            IF t \in new THEN Handed(t, claim[t]) ELSE thread[t]]
    /\ detail' = [loop.read EXCEPT !.seeded = @ + Cardinality(loop.subject),
                                   !.cache = "running"]
    /\ audit' = [audit EXCEPT !["seeded"] = @ + Cardinality(loop.subject)]
    /\ loop' = NoSession
    /\ UNCHANGED operator

\* The tick that finds nothing left says so, in a session of its own.
AllDone_NoneWaiting == {p \in Packets : items[p] = "absent"} \cup Claimable(items) = {}
                                        \* mutant: nothing to claim is taken for done
AllDone == \A p \in Packets : items[p] = "succeeded"

BeginFinish ==
    /\ loop = NoSession
    /\ AllDone
    /\ detail.cache # "succeeded"
    /\ loop' = Session("finish", {})
    /\ UNCHANGED <<detail, audit, items, lease, thread, operator>>

CommitFinish ==
    /\ loop.op = "finish"
    /\ detail' = [loop.read EXCEPT !.cache = "succeeded"]
    /\ loop' = NoSession
    /\ UNCHANGED <<audit, items, lease, thread, operator>>

-----------------------------------------------------------------------------
(* The reaper *)

\* Any active lease may turn out to have expired: time is abstracted.
BeginReap ==
    /\ loop = NoSession
    /\ \E expired \in SUBSET {t \in Tokens : lease[t].status = "active"} :
         /\ expired # {}
         /\ loop' = Session("reap", expired)
    /\ UNCHANGED <<detail, audit, items, lease, thread, operator>>

\* The items the reaper takes back are those still owned, which it counts.
Reclaimed == {p \in Packets : items[p] = "leased" /\ \E t \in loop.subject : lease[t].packet = p}
ReclaimCount_Leases == Cardinality(loop.subject)    \* mutant: counts the leases it listed
ReclaimCount == Cardinality(Reclaimed)

CommitReap ==
    /\ loop.op = "reap"
    /\ \A t \in loop.subject : ~Locked(lease[t].packet)
    /\ items' = [p \in Packets |-> IF p \in Reclaimed THEN "retryable_failed" ELSE items[p]]
    /\ lease' = [t \in Tokens |->
                    IF t \in loop.subject THEN [lease[t] EXCEPT !.status = "expired"] ELSE lease[t]]
    /\ detail' = IF Reclaimed = {} THEN detail
                 ELSE [loop.read EXCEPT !.reclaimed = @ + ReclaimCount]
    /\ audit' = [audit EXCEPT !["reclaimed"] = @ + Cardinality(Reclaimed)]
    /\ loop' = NoSession
    /\ UNCHANGED <<thread, operator>>

-----------------------------------------------------------------------------
(* Automatic repairs: the controllers run in the loop *)

\* evaluate_auto_patch: as many as the count in the run's row allows.
BeginPatch ==
    /\ loop = NoSession
    /\ detail.patches < MaxPatches
    /\ audit["patches"] < PatchBound
    /\ loop' = Session("patch", {})
    /\ UNCHANGED <<detail, audit, items, lease, thread, operator>>

\* record_auto_patch_attempt, and the proposal opened in the same session.
CommitPatch ==
    /\ loop.op = "patch"
    /\ detail' = [loop.read EXCEPT !.patches = @ + 1]
    /\ audit' = [audit EXCEPT !["patches"] = @ + 1]
    /\ loop' = NoSession
    /\ UNCHANGED <<items, lease, thread, operator>>

-----------------------------------------------------------------------------
(* A worker's report *)

\* The call ended.  Its thread opens a session and finds its lease active; a
\* lease that is gone raises, and the report of that ends the thread.
BeginReport(t) ==
    /\ thread[t].at = "work"
    /\ IF lease[t].status = "active"
       THEN \E outcome \in {"success", "failure", "fatal"} :
              thread' = [thread EXCEPT ![t].at = "read", ![t].outcome = outcome]
       ELSE thread' = [thread EXCEPT ![t] = Ended]
    /\ UNCHANGED <<detail, audit, items, lease, loop, operator>>

\* The conditional update takes the item's row; then the run is loaded.
HoldItem(t) ==
    /\ thread[t].at = "read"
    /\ ~Locked(lease[t].packet)
    /\ thread' = [thread EXCEPT ![t].at = "held", ![t].read = detail]
    /\ UNCHANGED <<detail, audit, items, lease, loop, operator>>

Retried(t) == thread[t].outcome = "failure" /\ Attempt(lease[t].packet) < MaxRetry

Event(t) ==
    CASE thread[t].outcome = "success" -> "completed"
      [] Retried(t)                    -> "retryable"
      [] OTHER                         -> "terminal"

Reported(t) ==
    CASE Event(t) = "completed" -> "succeeded"
      [] Event(t) = "retryable" -> "retryable_failed"
      [] Event(t) = "terminal"  -> "terminal_failed"

\* _bump_success_progress, _bump_failure_progress.
Bumped(t) ==
    LET d == thread[t].read
    IN  CASE Event(t) = "completed" -> [d EXCEPT !.completed = @ + 1, !.consecutive = 0]
          [] Event(t) = "retryable" -> [d EXCEPT !.retryable = @ + 1, !.consecutive = @ + 1]
          [] Event(t) = "terminal"  -> [d EXCEPT !.terminal = @ + 1, !.consecutive = @ + 1]

\* The item changes only if it is still owned; the event and the counters are
\* written whether it is or not.  A failure is told to the stage cache next.
CommitReport(t) ==
    LET p == lease[t].packet
    IN  /\ thread[t].at = "held"
        /\ items' = [items EXCEPT ![p] = IF @ = "leased" THEN Reported(t) ELSE @]
        /\ lease' = [lease EXCEPT ![t].status = "released"]
        /\ detail' = Bumped(t)
        /\ audit' = [audit EXCEPT ![Event(t)] = @ + 1]
        /\ thread' = [thread EXCEPT ![t] = IF Event(t) = "completed" THEN Ended
                                           ELSE [@ EXCEPT !.at = "tell", !.read = Blank]]
        /\ UNCHANGED <<loop, operator>>

BeginTell(t) ==
    /\ thread[t].at = "tell"
    /\ thread' = [thread EXCEPT ![t].at = "telling", ![t].read = detail]
    /\ UNCHANGED <<detail, audit, items, lease, loop, operator>>

\* The label follows the exception, not what became of the item.
CommitTell(t) ==
    /\ thread[t].at = "telling"
    /\ detail' = [thread[t].read EXCEPT
                    !.cache = IF thread[t].outcome = "failure" THEN "retryable_failed" ELSE "failed"]
    /\ thread' = [thread EXCEPT ![t] = Ended]
    /\ UNCHANGED <<audit, items, lease, loop, operator>>

-----------------------------------------------------------------------------
(* The operator's calls, and the end of the process *)

\* _transition_run: what it says of the control action is left out, what it
\* writes beside is what it loaded.
BeginControl ==
    /\ operator = NoSession
    /\ audit["control"] < ControlBound
    /\ operator' = Session("control", {})
    /\ UNCHANGED <<detail, audit, items, lease, thread, loop>>

CommitControl ==
    /\ operator.op = "control"
    /\ detail' = operator.read
    /\ audit' = [audit EXCEPT !["control"] = @ + 1]
    /\ operator' = NoSession
    /\ UNCHANGED <<items, lease, thread, loop>>

\* The sessions under way are rolled back, the threads are gone.
Restart ==
    /\ \E t \in Tokens : Alive(t)
    /\ thread' = [t \in Tokens |-> IF Alive(t) THEN Ended ELSE thread[t]]
    /\ loop' = NoSession
    /\ operator' = NoSession
    /\ UNCHANGED <<detail, audit, items, lease>>

Loop == BeginTick \/ CommitTick \/ BeginFinish \/ CommitFinish
        \/ BeginReap \/ CommitReap \/ BeginPatch \/ CommitPatch

Worker(t) == BeginReport(t) \/ HoldItem(t) \/ CommitReport(t) \/ BeginTell(t) \/ CommitTell(t)

Next ==
    \/ Loop
    \/ \E t \in Tokens : Worker(t)
    \/ BeginControl
    \/ CommitControl
    \/ Restart

Spec == Init /\ [][Next]_vars

-----------------------------------------------------------------------------
(* Properties *)

\* The types of the variables.
TypeOK ==
    /\ {detail, loop.read, operator.read} \cup {thread[t].read : t \in Tokens} \subseteq Detail
    /\ audit \in [Events -> Nat]
    /\ \A p \in Packets : items[p] \in {"absent", "pending", "leased", "succeeded",
                                        "retryable_failed", "terminal_failed"}
    /\ \A t \in Tokens :
         /\ lease[t].packet \in Packets \cup {NoPacket}
         /\ lease[t].status \in {"unused", "active", "released", "expired"}
         /\ thread[t].at \in {"none", "work", "read", "held", "tell", "telling", "done"}

\* Whatever sessions overlap, the run's row never claims more progress than
\* the audit trail has events for: writes that cross lose counts, they never
\* make one up.
NeverOvercounts == \A c \in Counters : detail[c] <= audit[c]

\* The cache never reports translation as succeeded while an item is not,
\* whichever stale copy of it was written last.
CacheTellsNoSuccessLie == detail.cache = "succeeded" => \A p \in Packets : items[p] = "succeeded"

\* Both: whatever copy of the JSON value is written last, it lags and does not
\* invent.
NothingInvented == NeverOvercounts /\ CacheTellsNoSuccessLie

\* README: anomalies emit patch proposals that auto-apply within a budget.  A
\* session that loaded the run before an attempt was counted erases it.
PatchesWithinBudget == audit["patches"] <= MaxPatches

\* The audit trail: every state transition is a row.  So there are no more
\* events of success than items that succeeded.
SuccessEventsAreTrue ==
    audit["completed"] <= Cardinality({p \in Packets : items[p] = "succeeded"})

\* README: the run budget lets you cap spend per run.  Once the usage recorded
\* has reached the cap no item is claimed any more.
SpendIsCapped ==
    [][detail.completed >= MaxUsage =>
        \A t \in Tokens : lease[t].status = "unused" => lease'[t].status = "unused"]_vars
=============================================================================
