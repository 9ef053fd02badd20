----------------------------- MODULE RunControl -----------------------------
(***************************************************************************)
(* The runs of one document over its whole life: created, started, paused, *)
(* resumed, drained, cancelled, ended by the system, and retried, which    *)
(* makes a new run that points at the old one.                             *)
(*                                                                         *)
(* Each call is a database session.  It loads the run's row (Ask), decides *)
(* by what it loaded, and writes at its end (Serve); other sessions come   *)
(* between.  The rows that are not loaded again are guarded only by the    *)
(* partial unique index on the active runs of a document, which refuses    *)
(* the session that would make a second one.  Beside the runs stand the    *)
(* packets their worker threads have under way: a run that is paused or    *)
(* cancelled keeps its threads until they finish.                          *)
(***************************************************************************)
EXTENDS Naturals

CONSTANTS
    Runs,       \* the runs that may be created
    Sessions,   \* API calls and reconciliations under way at once
    Packets,    \* the packets of the document, all of them independent
    NoRun       \* resume_from_run_id of a run that retries nothing

ASSUME ControlAssumption == NoRun \notin Runs

VARIABLES
    status,     \* document_runs.status
    parent,     \* document_runs.resume_from_run_id
    flight,     \* the packets each run has worker threads on
    failed,     \* the packets with a work item of the run failed for good
    translated, \* the packets whose translation is committed
    request     \* what each session is doing, and whether it loaded a stale run

vars == <<status, parent, flight, failed, translated, request>>
workVars == <<flight, failed, translated>>

Live == {"running", "draining"}
Terminal == {"succeeded", "failed", "cancelled"}
Active == Live \cup {"queued"}
RunStatus == {"absent", "paused"} \cup Active \cup Terminal

\* The condition of the partial unique index uq_document_runs_active_per_document.
Indexed_Started(st) == {r \in Runs : st[r] \in Live}    \* mutant: forgets queued runs
Indexed(st) == {r \in Runs : st[r] \in Active}

Existing == {r \in Runs : status[r] # "absent"}

Idle == [op |-> "none", run |-> NoRun, stale |-> FALSE]

Init ==
    /\ status = [r \in Runs |-> "absent"]
    /\ parent = [r \in Runs |-> NoRun]
    /\ flight = [r \in Runs |-> {}]
    /\ failed = [r \in Runs |-> {}]
    /\ translated = {}
    /\ request = [s \in Sessions |-> Idle]

-----------------------------------------------------------------------------
(* Requests *)

\* From which status each call may move a run, and where to.
AllowedFrom(op) ==
    CASE op = "pause"   -> Active
      [] op = "resume"  -> {"queued", "paused"}
      [] op = "drain"   -> {"queued", "running", "paused"}
      [] op = "cancel"  -> {"paused"} \cup Active
      [] op = "succeed" -> Active
      [] op = "fail"    -> {"paused"} \cup Active

NextStatus_Draining ==                          \* mutant: a drained run ends in a status of its own
    [pause |-> "paused", resume |-> "running", drain |-> "drained",
     cancel |-> "cancelled", succeed |-> "succeeded", fail |-> "failed"]
NextStatus == [pause |-> "paused", resume |-> "running", drain |-> "draining",
               cancel |-> "cancelled", succeed |-> "succeeded", fail |-> "failed"]

\* A live run is retried when it is stale: a stage failed and nothing has
\* moved for a while.  How long is abstracted: any such run may be found so.
Retryable_Live(r) ==                            \* mutant: any live run is retried
    status[r] \in {"failed", "cancelled", "paused"} \cup Live
Retryable(r) ==
    \/ status[r] \in {"failed", "cancelled", "paused"}
    \/ status[r] \in Active /\ failed[r] # {}

\* A session loads the row it is about to change.
Load(s, op, r) ==
    /\ request[s] = Idle
    /\ request' = [request EXCEPT ![s] =
                    [op |-> op, run |-> r, stale |-> op = "retry" /\ status[r] \in Active]]
    /\ UNCHANGED <<status, parent, workVars>>

Ask(s, op, r) ==
    /\ op \in {"pause", "resume", "drain", "cancel"}
    /\ status[r] \in AllowedFrom(op)
    /\ Load(s, op, r)

\* The run loop and the failing workers look whether the run is over.
Reconcile(s, op, r) ==
    /\ op \in {"succeed", "fail"}
    /\ status[r] \in AllowedFrom(op) \ {"queued"}
    /\ Load(s, op, r)

AskRetry(s, r) ==
    /\ r \in Existing
    /\ Retryable(r)
    /\ Load(s, "retry", r)

\* A run succeeds on finding its work done.  It fails for a failed item, or
\* for an exception that ends its loop, at any time.
Finding(s, r) ==
    request[s].op = "succeed" => flight[r] = {} /\ failed[r] = {} /\ translated = Packets

\* The index refuses a session that leaves two active runs.  It is rolled back
\* whole; nothing catches the error, which reaches the caller.
Commit(s, st, par) ==
    /\ IF \A q, r \in Indexed(st) : q = r
       THEN status' = st /\ parent' = par
       ELSE UNCHANGED <<status, parent>>
    /\ request' = [request EXCEPT ![s] = Idle]
    /\ UNCHANGED workVars

\* The transition is written over whatever the row holds by now.
Serve(s) ==
    /\ request[s].op \in DOMAIN NextStatus
    /\ Finding(s, request[s].run)
    /\ Commit(s, [status EXCEPT ![request[s].run] = NextStatus[request[s].op]], parent)

\* A retry ends a stale predecessor, creates the new run and starts it, in one
\* session.
RetryPrevious(s) ==
    IF request[s].stale THEN [status EXCEPT ![request[s].run] = "failed"] ELSE status

ResumeFrom_Root(s) == parent[request[s].run]    \* mutant: skips a generation
ResumeFrom(s) == request[s].run

ServeRetry(s, r) ==
    /\ request[s].op = "retry"
    /\ status[r] = "absent"
    /\ Commit(s, [RetryPrevious(s) EXCEPT ![r] = "running"],
              [parent EXCEPT ![r] = ResumeFrom(s)])

\* A new run waits for its start; it may name a run to resume from.
Create(s, r, older) ==
    /\ request[s] = Idle
    /\ status[r] = "absent"
    /\ older \in Existing \cup {NoRun}
    /\ Commit(s, [status EXCEPT ![r] = "queued"], [parent EXCEPT ![r] = older])

\* The session fails for another reason, or finds no reason to write.
Abandon(s) ==
    /\ request[s] # Idle
    /\ request' = [request EXCEPT ![s] = Idle]
    /\ UNCHANGED <<status, parent, workVars>>

-----------------------------------------------------------------------------
(* Work *)

\* The loop of a running run starts a thread on a packet it finds built.
Claim(r, p) ==
    /\ status[r] = "running"
    /\ failed[r] = {}
    /\ p \notin translated \cup flight[r]
    /\ flight' = [flight EXCEPT ![r] = @ \cup {p}]
    /\ UNCHANGED <<status, parent, failed, translated, request>>

\* The thread commits, whatever has become of its run; or it fails for good,
\* or is lost with its process.
Translate(r, p) ==
    /\ p \in flight[r]
    /\ translated' = translated \cup {p}
    /\ flight' = [flight EXCEPT ![r] = @ \ {p}]
    /\ UNCHANGED <<status, parent, failed, request>>

Fail(r, p) ==
    /\ p \in flight[r]
    /\ failed' = [failed EXCEPT ![r] = @ \cup {p}]
    /\ flight' = [flight EXCEPT ![r] = @ \ {p}]
    /\ UNCHANGED <<status, parent, translated, request>>

-----------------------------------------------------------------------------

Operate(s) ==
    \/ \E r \in Runs, op \in {"pause", "resume", "drain", "cancel"} : Ask(s, op, r)
    \/ \E r \in Runs, op \in {"succeed", "fail"} : Reconcile(s, op, r)
    \/ \E r \in Runs : AskRetry(s, r) \/ ServeRetry(s, r)
    \/ \E r \in Runs, older \in Runs \cup {NoRun} : Create(s, r, older)
    \/ Serve(s)
    \/ Abandon(s)

Next ==
    \/ \E s \in Sessions : Operate(s)
    \/ \E r \in Runs, p \in Packets : Claim(r, p) \/ Translate(r, p) \/ Fail(r, p)

Spec == Init /\ [][Next]_vars

-----------------------------------------------------------------------------
(* Properties *)

\* The tables hold values of their types.
TypeOK ==
    /\ status \in [Runs -> RunStatus]
    /\ parent \in [Runs -> Runs \cup {NoRun}]
    /\ flight \in [Runs -> SUBSET Packets]
    /\ failed \in [Runs -> SUBSET Packets]
    /\ translated \subseteq Packets
    /\ \A s \in Sessions : request[s].run \in Runs \cup {NoRun}
                        /\ request[s].stale \in BOOLEAN

\* At most one run of the document is queued, running or draining, although
\* creations, resumes and retries race on what they loaded before.
OneActiveRun == \A q, r \in Runs :
    status[q] \in Active /\ status[r] \in Active => q = r

\* What the index is there for: two runs never compete for the same frontier,
\* so no packet has worker threads of two runs on it.
FrontierNotShared ==
    \A q, r \in Runs : q # r => flight[q] \cap flight[r] = {}

\* A retry displaces a run that is still active only when an item of it has
\* failed for good: between the moment it is found stale and the commit of the
\* retry it may have been paused, resumed and cancelled.
DisplacedRunHasFailed ==
    [][\A q, r \in Runs :
          /\ status[q] \in Active /\ status'[q] \notin Active
          /\ status[r] \notin Active /\ status'[r] \in Active
          => failed[q] # {}]_vars

Holder ==
    IF \E r \in Runs : status[r] \in Active
    THEN CHOOSE r \in Runs : status[r] \in Active ELSE NoRun

Slot == INSTANCE DocumentSlot WITH slot <- Holder, retryOf <- parent, Free <- NoRun

\* The runs implement the slot: it is taken when free, given up, and passes
\* directly from one run to another only in a retry, to the run that names the
\* first as the one it retries.  The lineage of a run never changes.
ImplementsSlot == Slot!Spec
=============================================================================
