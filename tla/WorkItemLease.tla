--------------------------- MODULE WorkItemLease ---------------------------
(***************************************************************************)
(* The work items of one translation run, the leases under which worker    *)
(* threads execute them, and the reaper that takes back the leases of      *)
(* workers that died.                                                      *)
(*                                                                         *)
(* Two kinds of actor share the tables work_items, worker_leases and       *)
(* translation_packets.  The run loop (one thread per run) reaps, cancels  *)
(* and claims, in turn.  One worker thread per claim starts the item,      *)
(* translates the packet, and reports.  Each database transaction is one   *)
(* action, except the two whose decision rests on rows read before other   *)
(* sessions can commit: the worker's report (BeginReport, CommitReport)    *)
(* and the reaper's sweep (ReapScan, ReapCommit).                          *)
(*                                                                         *)
(* A worker thread is named by the lease token it was started with.        *)
(***************************************************************************)
EXTENDS Naturals, FiniteSets

CONSTANTS
    Items,      \* translate work items, one per packet of the document
    Leases,     \* lease tokens: their number bounds how many claims are made
    MaxRetry,   \* max_retry_count_per_work_item of the run's budget
    NoItem,     \* the item of a token not issued yet
    NoLease     \* the lease_owner of an item nobody holds

ASSUME LeaseAssumption ==
    /\ MaxRetry \in Nat
    /\ NoItem \notin Items
    /\ NoLease \notin Leases

VARIABLES
    itemStatus,     \* work_items.status
    attempt,        \* work_items.attempt
    holder,         \* work_items.lease_owner
    leaseStatus,    \* worker_leases.status
    leaseItem,      \* worker_leases.work_item_id
    lapsed,         \* leases whose lease_expires_at has passed
    packet,         \* translation_packets.status
    thread,         \* where each worker thread stands
    verdict,        \* the item status a reporting thread is about to write
    scan            \* the leases the reaper has listed and will expire

itemVars == <<itemStatus, attempt, holder>>
leaseVars == <<leaseStatus, leaseItem, lapsed>>
threadVars == <<thread, verdict>>
vars == <<itemStatus, attempt, holder, leaseStatus, leaseItem, lapsed, packet,
          thread, verdict, scan>>

-----------------------------------------------------------------------------
(* The values of the tables and of the threads *)

Claimable == {"pending", "retryable_failed"}
OwnedStatus == {"leased", "running"}
Settled == {"succeeded", "terminal_failed", "cancelled"}
ItemStatus == Claimable \cup OwnedStatus \cup Settled
LeaseStatus == {"unissued", "active", "released", "expired"}
Verdict == {"succeeded", "retryable_failed", "terminal_failed"}

\* "claimed": started, its first transaction still to come; "working": in the
\* worker function; "translated": the worker function returned; "failed": an
\* exception was caught; "reporting": inside the completing transaction.
LiveThread == {"claimed", "working", "translated", "failed", "reporting"}
ThreadState == {"none", "gone"} \cup LiveThread

Owned(i) == itemStatus[i] \in OwnedStatus
Live(l) == thread[l] \in LiveThread
ThreadsOf(i) == {l \in Leases : leaseItem[l] = i /\ Live(l)}

Init ==
    /\ itemStatus = [i \in Items |-> "pending"]
    /\ attempt = [i \in Items |-> 1]
    /\ holder = [i \in Items |-> NoLease]
    /\ leaseStatus = [l \in Leases |-> "unissued"]
    /\ leaseItem = [l \in Leases |-> NoItem]
    /\ lapsed = {}
    /\ packet = [i \in Items |-> "built"]
    /\ thread = [l \in Leases |-> "none"]
    /\ verdict = [l \in Leases |-> "succeeded"]
    /\ scan = {}

-----------------------------------------------------------------------------
(* The run loop *)

\* A claim after a failure or an expiry is a new attempt.
NextAttempt_EveryClaim(i) == attempt[i] + 1     \* mutant: the first claim counts too
NextAttempt_Countdown(i) ==                     \* mutant: counts what is left
    IF itemStatus[i] = "retryable_failed" THEN attempt[i] - 1 ELSE attempt[i]
NextAttempt(i) == IF itemStatus[i] = "retryable_failed" THEN attempt[i] + 1 ELSE attempt[i]

\* A claim starts a thread, unless one of this process is alive for the item.
NewThread_Always(i) == "claimed"                \* mutant: does not look for one
NewThread(i) == IF ThreadsOf(i) = {} THEN "claimed" ELSE "none"

\* Claim item i under the fresh token l: compare-and-swap out of the claimable
\* statuses, insert the lease, and start a thread for it.
Claim(i, l) ==
    /\ scan = {}
    /\ leaseStatus[l] = "unissued"
    /\ itemStatus[i] \in Claimable
    /\ itemStatus' = [itemStatus EXCEPT ![i] = "leased"]
    /\ attempt' = [attempt EXCEPT ![i] = NextAttempt(i)]
    /\ holder' = [holder EXCEPT ![i] = l]
    /\ leaseStatus' = [leaseStatus EXCEPT ![l] = "active"]
    /\ leaseItem' = [leaseItem EXCEPT ![l] = i]
    /\ thread' = [thread EXCEPT ![l] = NewThread(i)]
    /\ UNCHANGED <<lapsed, packet, verdict, scan>>

\* A claimable item whose packet is already translated is obsolete.
CancelObsolete_Untranslated(i) ==               \* mutant: does not look at the packet
    /\ scan = {}
    /\ itemStatus[i] \in Claimable
    /\ itemStatus' = [itemStatus EXCEPT ![i] = "cancelled"]
    /\ holder' = [holder EXCEPT ![i] = NoLease]
    /\ UNCHANGED <<attempt, leaseVars, packet, threadVars, scan>>
CancelObsolete_InFlight(i) ==                   \* mutant: cancels items in flight too
    /\ scan = {}
    /\ itemStatus[i] \in Claimable \cup OwnedStatus
    /\ packet[i] = "translated"
    /\ itemStatus' = [itemStatus EXCEPT ![i] = "cancelled"]
    /\ holder' = [holder EXCEPT ![i] = NoLease]
    /\ UNCHANGED <<attempt, leaseVars, packet, threadVars, scan>>
CancelObsolete(i) ==
    /\ scan = {}
    /\ itemStatus[i] \in Claimable
    /\ packet[i] = "translated"
    /\ itemStatus' = [itemStatus EXCEPT ![i] = "cancelled"]
    /\ holder' = [holder EXCEPT ![i] = NoLease]
    /\ UNCHANGED <<attempt, leaseVars, packet, threadVars, scan>>

\* The reaper lists the active leases that have run out ...
ReapScan ==
    /\ scan = {}
    /\ scan' = {l \in lapsed : leaseStatus[l] = "active"}
    /\ scan' # {}
    /\ UNCHANGED <<itemVars, leaseVars, packet, threadVars>>

\* ... and expires each of them.  It trusts its listing: a lease that was
\* renewed or released since is overwritten, but an item leaves the hands of
\* a worker only if it is still in them (compare-and-swap).
ReapedItems_Unchecked ==                        \* mutant: no compare-and-swap
    {i \in Items : \E l \in scan : leaseItem[l] = i}
ReapedItems_Running ==                          \* mutant: forgets items not started yet
    {i \in Items : itemStatus[i] = "running" /\ \E l \in scan : leaseItem[l] = i}
ReapedItems == {i \in Items : Owned(i) /\ \E l \in scan : leaseItem[l] = i}

ReapCommit ==
    /\ scan # {}
    /\ itemStatus' = [i \in Items |->
                        IF i \in ReapedItems THEN "retryable_failed" ELSE itemStatus[i]]
    /\ holder' = [i \in Items |-> IF i \in ReapedItems THEN NoLease ELSE holder[i]]
    /\ leaseStatus' = [l \in Leases |-> IF l \in scan THEN "expired" ELSE leaseStatus[l]]
    /\ scan' = {}
    /\ UNCHANGED <<attempt, leaseItem, lapsed, packet, threadVars>>

-----------------------------------------------------------------------------
(* Time and heartbeats *)

\* No heartbeat arrived in time.
Lapse(l) ==
    /\ leaseStatus[l] = "active"
    /\ l \notin lapsed
    /\ lapsed' = lapsed \cup {l}
    /\ UNCHANGED <<itemVars, leaseStatus, leaseItem, packet, threadVars, scan>>

\* A heartbeat extends the lease, late or not, while the lease is active and
\* its item is in a worker's hands.
Heartbeat(l) ==
    /\ thread[l] \in LiveThread \ {"claimed"}
    /\ l \in lapsed
    /\ leaseStatus[l] = "active"
    /\ Owned(leaseItem[l])
    /\ lapsed' = lapsed \ {l}
    /\ UNCHANGED <<itemVars, leaseStatus, leaseItem, packet, threadVars, scan>>

-----------------------------------------------------------------------------
(* A worker thread *)

\* Its first transaction: the lease must be active; the item moves on to
\* running if it is leased, and the lease is extended.
Start(l) ==
    /\ thread[l] = "claimed"
    /\ leaseStatus[l] = "active"
    /\ itemStatus' = [itemStatus EXCEPT ![leaseItem[l]] = IF @ = "leased" THEN "running" ELSE @]
    /\ lapsed' = lapsed \ {l}
    /\ thread' = [thread EXCEPT ![l] = "working"]
    /\ UNCHANGED <<attempt, holder, leaseStatus, leaseItem, packet, verdict, scan>>

\* The worker function commits the translation of the packet in a transaction
\* of its own, or finds the packet translated already.
Translate(l) ==
    /\ thread[l] = "working"
    /\ packet' = [packet EXCEPT ![leaseItem[l]] = "translated"]
    /\ thread' = [thread EXCEPT ![l] = "translated"]
    /\ UNCHANGED <<itemVars, leaseVars, verdict, scan>>

\* Starting the item or the worker function raises.
WorkerRaises(l) ==
    /\ thread[l] \in {"claimed", "working"}
    /\ thread' = [thread EXCEPT ![l] = "failed"]
    /\ UNCHANGED <<itemVars, leaseVars, packet, verdict, scan>>

\* The completing transaction reads the lease, which must be active, and for a
\* failure the item's attempt, and decides the status it will write.
BeginReport(l, v) ==
    /\ leaseStatus[l] = "active"
    /\ \/ thread[l] = "translated" /\ v = "succeeded"
       \/ thread[l] = "failed" /\ v = "terminal_failed"
       \/ thread[l] = "failed" /\ v = "retryable_failed" /\ attempt[leaseItem[l]] < MaxRetry
    /\ thread' = [thread EXCEPT ![l] = "reporting"]
    /\ verdict' = [verdict EXCEPT ![l] = v]
    /\ UNCHANGED <<itemVars, leaseVars, packet, scan>>

\* It then writes: the item only if it is still in a worker's hands
\* (compare-and-swap), the lease in any case.
CommitReport(l) ==
    /\ thread[l] = "reporting"
    /\ IF Owned(leaseItem[l])
       THEN /\ itemStatus' = [itemStatus EXCEPT ![leaseItem[l]] = verdict[l]]
            /\ holder' = [holder EXCEPT ![leaseItem[l]] = NoLease]
       ELSE UNCHANGED <<itemStatus, holder>>
    /\ leaseStatus' = [leaseStatus EXCEPT ![l] = "released"]
    /\ thread' = [thread EXCEPT ![l] = "gone"]
    /\ UNCHANGED <<attempt, leaseItem, lapsed, packet, verdict, scan>>

\* The completing transaction rolls back.  A success is then reported as a
\* failure; a failure is lost and its lease left to the reaper.
AbortReport(l) ==
    /\ thread[l] = "reporting"
    /\ thread' = [thread EXCEPT ![l] = IF verdict[l] = "succeeded" THEN "failed" ELSE "gone"]
    /\ UNCHANGED <<itemVars, leaseVars, packet, verdict, scan>>

\* The lease is not active any more: starting or reporting raises, and so does
\* reporting that failure.  The thread ends without writing anything.
ReportRefused(l) ==
    /\ thread[l] \in {"claimed", "translated", "failed"}
    /\ leaseStatus[l] # "active"
    /\ thread' = [thread EXCEPT ![l] = "gone"]
    /\ UNCHANGED <<itemVars, leaseVars, packet, verdict, scan>>

\* The process dies: every thread is lost, open transactions roll back.
Crash ==
    /\ \E l \in Leases : Live(l)
    /\ thread' = [l \in Leases |-> IF Live(l) THEN "gone" ELSE thread[l]]
    /\ scan' = {}
    /\ UNCHANGED <<itemVars, leaseVars, packet, verdict>>

-----------------------------------------------------------------------------

WorkerStep(l) ==
    \/ Start(l)
    \/ Translate(l)
    \/ WorkerRaises(l)
    \/ \E v \in Verdict : BeginReport(l, v)
    \/ CommitReport(l)
    \/ AbortReport(l)
    \/ ReportRefused(l)

Next ==
    \/ \E i \in Items, l \in Leases : Claim(i, l)
    \/ \E i \in Items : CancelObsolete(i)
    \/ ReapScan
    \/ ReapCommit
    \/ \E l \in Leases : Lapse(l)
    \/ \E l \in Leases : Heartbeat(l)
    \/ \E l \in Leases : WorkerStep(l)
    \/ Crash

Spec == Init /\ [][Next]_vars

\* A thread that runs ends its work and its transactions; the clock reaches
\* the expiry of a lease nobody renews; the run loop keeps sweeping.
Fairness ==
    /\ \A l \in Leases : WF_vars(WorkerStep(l))
    /\ \A l \in Leases : WF_vars(~Live(l) /\ Lapse(l))
    /\ WF_vars(ReapScan)
    /\ WF_vars(ReapCommit)

FairSpec == Spec /\ Fairness

-----------------------------------------------------------------------------
(* Properties *)

\* The tables and the threads hold values of their types.
TypeOK ==
    /\ itemStatus \in [Items -> ItemStatus]
    /\ attempt \in [Items -> Nat]
    /\ holder \in [Items -> Leases \cup {NoLease}]
    /\ leaseStatus \in [Leases -> LeaseStatus]
    /\ leaseItem \in [Leases -> Items \cup {NoItem}]
    /\ lapsed \subseteq Leases
    /\ packet \in [Items -> {"built", "translated"}]
    /\ thread \in [Leases -> ThreadState]
    /\ verdict \in [Leases -> Verdict]
    /\ scan \subseteq Leases

\* An item in a worker's hands is held under an active lease of its own.  The
\* reaper looks at active leases only, so an item whose lease had ended while
\* it was still leased or running would stay there for ever and the run,
\* which waits for its items in flight, with it.
OwnedItemHasActiveLease ==
    \A i \in Items : Owned(i) =>
        /\ holder[i] \in Leases
        /\ leaseStatus[holder[i]] = "active"
        /\ leaseItem[holder[i]] = i

\* A work item is recorded as succeeded only when the translation of its
\* packet is committed, and cancelled as obsolete only then, however reports,
\* reaping, retries and crashes interleave: the two are separate transactions.
SettledMeansTranslated ==
    \A i \in Items : itemStatus[i] \in {"succeeded", "cancelled"} => packet[i] = "translated"

\* Within a process no packet is ever translated by two threads at once: a
\* worker whose lease was reaped goes on, and the item is claimed again, but
\* no second thread starts beside it.
OneThreadPerItem ==
    \A l, m \in Leases : Live(l) /\ Live(m) /\ leaseItem[l] = leaseItem[m] => l = m

\* The attempt number is the number of times the item was claimed: no claim,
\* expiry or late report makes it skip or repeat one.
AttemptCountsClaims ==
    \A i \in Items :
        LET claims == Cardinality({l \in Leases : leaseItem[l] = i})
        IN  attempt[i] = IF claims = 0 THEN 1 ELSE claims

\* A settled item is final: no late report, sweep or claim revives it.
SettledIsFinal ==
    [][\A i \in Items : itemStatus[i] \in Settled => itemStatus'[i] = itemStatus[i]]_vars

\* What release_work_item promises: the late release of a worker whose lease
\* the reaper has expired leaves the item as the reaper (and whoever came
\* after it) left it.
LateReleaseKeepsItem ==
    [][\A l \in Leases :
          leaseStatus[l] = "expired" /\ leaseStatus'[l] = "released"
             => itemStatus'[leaseItem[l]] = itemStatus[leaseItem[l]]]_vars

\* No item stays in flight: whatever happens to its worker, it is reported or
\* taken back.
InFlightDrains == \A i \in Items : Owned(i) ~> ~Owned(i)
-----------------------------------------------------------------------------
(* The ledger these tables implement *)

\* What a work item's status means to the rest of the system.
LedgerState(status) ==
    CASE status \in Claimable          -> "waiting"
      [] status \in OwnedStatus        -> "inflight"
      [] status = "succeeded"          -> "done"
      [] status = "terminal_failed"    -> "failed"
      [] status = "cancelled"          -> "obsolete"

Ledger == INSTANCE WorkLedger WITH
    state <- [i \in Items |-> LedgerState(itemStatus[i])],
    effect <- {i \in Items : packet[i] = "translated"}

\* Every behaviour of the tables is a behaviour of the ledger: with the leases
\* hidden, an item is settled once, never as done without its translation,
\* and nothing is translated for a settled item.
ImplementsLedger == Ledger!Spec
=============================================================================
