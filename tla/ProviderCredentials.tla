------------------------- MODULE ProviderCredentials -------------------------
(***************************************************************************)
(* The stored credentials of translation providers, the requests that      *)
(* change them, and the worker the service caches from the active one.     *)
(* A request reads its row, flushes what it changes, announces the change  *)
(* in memory (a revision counter and the cache), and commits last, when    *)
(* its session is closed.  Requests that need a worker compare the         *)
(* revision, and build one from the committed rows if it moved.            *)
(*                                                                         *)
(* PostgreSQL: an update waits for the transaction that holds the row and  *)
(* looks at it again; rows a statement did not see when it began it does   *)
(* not touch.  One process, as the service is started; the bootstrap of an *)
(* empty table, the connection test and creation without activation (no    *)
(* write that anyone reads) are left out.                                  *)
(***************************************************************************)
EXTENDS Integers, FiniteSets

CONSTANTS
    Creds,
    FirstActive,    \* the credential that is active at the start
    Unborn,         \* the credentials not yet created
    Requests,       \* the threads that change credentials
    Resolvers,      \* the threads that need a worker
    NoCred, Env, Echo,
    MaxRevision,    \* bound: no request starts once the revision is this
    MaxConfig       \* bound: no credential is edited beyond this version

ASSUME CredentialAssumption ==
    /\ FirstActive \in Creds /\ Unborn \subseteq Creds \ {FirstActive}
    /\ {NoCred, Env, Echo} \cap Creds = {} /\ Cardinality({NoCred, Env, Echo}) = 3
    /\ MaxRevision \in Nat /\ MaxConfig \in Nat

VARIABLES
    rows,       \* provider_credentials, as committed
    req,        \* the requests under way, with what they have flushed
    revision,   \* _revision
    app,        \* the worker in app.state and the revision it was built for
    res,        \* the requests under way that need a worker
    executor,   \* the worker the run executor was given
    used,       \* the worker that translated the last packet of a run
    overlapped  \* history: changes have overlapped each other or a resolution

vars == <<rows, req, revision, app, res, executor, used, overlapped>>

Worker(c, v) == [cred |-> c, config |-> v]
NoWorker == Worker(NoCred, 0)

Exists(c) == rows[c].state \in {"idle", "active"}
Active == {c \in Creds : rows[c].state = "active"}

\* resolve_translation_worker: the active credential, or the settings.
Current ==
    IF Active = {} THEN Worker(Env, 0)
    ELSE LET c == CHOOSE c \in Active : TRUE IN Worker(c, rows[c].config)

NoRequest == [at |-> "idle", op |-> "none", cred |-> NoCred, seen |-> FALSE,
              off |-> {}, on |-> FALSE]
NoResolution == [at |-> "idle", rev |-> 0, worker |-> NoWorker]

\* lifespan: the executor is made before any worker is resolved.
Init ==
    /\ rows = [c \in Creds |->
                [state |-> IF c = FirstActive THEN "active"
                           ELSE IF c \in Unborn THEN "unborn" ELSE "idle",
                 config |-> 0]]
    /\ req = [r \in Requests |-> NoRequest]
    /\ revision = 0
    /\ app = [worker |-> NoWorker, rev |-> -1]
    /\ res = [w \in Resolvers |-> NoResolution]
    /\ executor = NoWorker
    /\ used = NoWorker
    /\ overlapped = FALSE

-----------------------------------------------------------------------------
(* Changes *)

\* The rows a request has flushed and not committed.
Flushed(r) ==
    IF req[r].at = "idle" THEN {}
    ELSE req[r].off \cup (IF req[r].on THEN {req[r].cred} ELSE {})
Locked(r) == UNION {Flushed(s) : s \in Requests \ {r}}

At(r, at) == req' = [req EXCEPT ![r].at = at]
Abort(r) == req' = [req EXCEPT ![r] = NoRequest]

\* get_credential, or the new record.
Read(r, op, c) ==
    /\ req[r].at = "idle" /\ revision < MaxRevision
    /\ IF op = "create" THEN /\ rows[c].state = "unborn"
                             /\ \A s \in Requests : req[s].cred # c
       ELSE Exists(c)
    /\ op = "delete" => rows[c].state # "active"
    /\ op = "update" => rows[c].config < MaxConfig
    /\ req' = [req EXCEPT ![r] = [NoRequest EXCEPT
                 !.at = "read", !.op = op, !.cred = c, !.seen = rows[c].state = "active"]]
    /\ UNCHANGED <<rows, revision, app, res, executor, used>>

\* _activate_internal, first statement: begun, then past the rows' locks.
Deactivate(r) ==
    /\ req[r].op \in {"activate", "create"}
    /\ \/ /\ req[r].at = "read"
          /\ req' = [req EXCEPT ![r].at = "deactivating", ![r].off = Active \ {req[r].cred}]
       \/ /\ req[r].at = "deactivating"
          /\ req[r].off \cap Locked(r) = {}
          /\ req' = [req EXCEPT ![r].at = "alone", ![r].off = @ \cap Active]
    /\ UNCHANGED <<rows, revision, app, res, executor, used>>

\* uq_provider_credentials_one_active, as the second statement meets it.
Unique_NoIndex(r) == TRUE           \* mutant: the index is not there
Unique(r) == Active \subseteq req[r].off \cup {req[r].cred}

\* Second statement, which is none if the record was read active.
SetActive(r) ==
    LET c == req[r].cred
    IN  /\ req[r].at = "alone"
        /\ IF req[r].seen THEN At(r, "flushed")
           ELSE /\ c \notin Locked(r)
                /\ \A s \in Requests \ {r} : ~(req[s].on /\ req[s].op \in {"activate", "create"})
                /\ IF (Exists(c) \/ req[r].op = "create") /\ Unique(r)
                   THEN req' = [req EXCEPT ![r] = [@ EXCEPT !.at = "flushed", !.on = TRUE]]
                   ELSE Abort(r)
        /\ UNCHANGED <<rows, revision, app, res, executor, used>>

\* _bump_revision: after the flush of an activation, before that of an edit,
\* and of an edit only if the record was read active.
Bumps_Never(r) == FALSE             \* mutant
Bumps(r) ==
    \/ req[r].op \in {"activate", "create"}
    \/ req[r].op = "update" /\ req[r].seen

Bump(r) ==
    /\ \/ req[r].op \in {"activate", "create"} /\ req[r].at = "flushed"
       \/ req[r].op \in {"update", "delete"} /\ req[r].at = "read"
    /\ At(r, "bumped")
    /\ revision' = IF Bumps(r) THEN revision + 1 ELSE revision
    /\ UNCHANGED <<rows, app, res, executor, used>>

\* The flush of an edit or of a deletion.
Flush(r) ==
    LET c == req[r].cred
    IN  /\ req[r].op \in {"update", "delete"} /\ req[r].at = "bumped" /\ ~req[r].on
        /\ c \notin Locked(r)
        /\ IF Exists(c) THEN req' = [req EXCEPT ![r].on = TRUE] ELSE Abort(r)
        /\ UNCHANGED <<rows, revision, app, res, executor, used>>

\* _invalidate_app_worker.
Invalidate(r) ==
    /\ req[r].at = "bumped"
    /\ req[r].op \in {"update", "delete"} => req[r].on
    /\ At(r, "handled")
    /\ app' = IF Bumps(r) THEN [worker |-> NoWorker, rev |-> -1] ELSE app
    /\ UNCHANGED <<rows, revision, res, executor, used>>

\* The session is closed: what was flushed is committed.
Committed(r, c) ==
    LET own == req[r].on /\ c = req[r].cred
    IN  CASE own /\ req[r].op \in {"activate", "create"} -> [rows[c] EXCEPT !.state = "active"]
          [] own /\ req[r].op = "update"                 -> [rows[c] EXCEPT !.config = @ + 1]
          [] own /\ req[r].op = "delete"                 -> [rows[c] EXCEPT !.state = "gone"]
          [] c \in req[r].off                            -> [rows[c] EXCEPT !.state = "idle"]
          [] OTHER                                       -> rows[c]

Commit(r) ==
    /\ req[r].at = "handled"
    /\ rows' = [c \in Creds |-> Committed(r, c)]
    /\ Abort(r)
    /\ UNCHANGED <<revision, app, res, executor, used>>

-----------------------------------------------------------------------------
(* The cached worker: _resolve_translation_worker_state *)

Usable == app.worker # NoWorker /\ app.rev = revision

Check(w) ==
    /\ res[w].at = "idle"
    /\ res' = [res EXCEPT ![w] = [NoResolution EXCEPT
                 !.at = IF Usable THEN "hit" ELSE "miss", !.rev = revision]]
    /\ UNCHANGED <<rows, req, revision, app, executor, used>>

Hit(w) ==
    /\ res[w].at = "hit"
    /\ res' = [res EXCEPT ![w] = NoResolution]
    /\ UNCHANGED <<rows, req, revision, app, executor, used>>

Build(w) ==
    /\ res[w].at = "miss"
    /\ res' = [res EXCEPT ![w].at = "built", ![w].worker = Current]
    /\ UNCHANGED <<rows, req, revision, app, executor, used>>

\* The worker first, then the revision it was resolved for.
Store(w) ==
    /\ \/ /\ res[w].at = "built"
          /\ app' = [app EXCEPT !.worker = res[w].worker]
          /\ res' = [res EXCEPT ![w].at = "stored"]
       \/ /\ res[w].at = "stored"
          /\ app' = [app EXCEPT !.rev = res[w].rev]
          /\ res' = [res EXCEPT ![w] = NoResolution]
    /\ UNCHANGED <<rows, req, revision, executor, used>>

\* A packet of a run is translated by the executor's worker, or by an echo.
TranslatePacket ==
    /\ used' = IF executor = NoWorker THEN Worker(Echo, 0) ELSE executor
    /\ UNCHANGED <<rows, req, revision, app, res, executor>>

\* The service is stopped and started again.
Restart_KeepsCache ==               \* mutant: the cache outlives the counter
    /\ req' = [r \in Requests |-> NoRequest]
    /\ res' = [w \in Resolvers |-> NoResolution]
    /\ revision' = 0
    /\ UNCHANGED <<rows, app, executor, used>>
Restart ==
    /\ req' = [r \in Requests |-> NoRequest]
    /\ res' = [w \in Resolvers |-> NoResolution]
    /\ revision' = 0
    /\ app' = [worker |-> NoWorker, rev |-> -1]
    /\ executor' = NoWorker
    /\ UNCHANGED <<rows, used>>

-----------------------------------------------------------------------------

\* Two changes at a time, or a resolution between an announcement and its commit.
Overlapping ==
    \/ \E r, s \in Requests : r # s /\ req[r].at # "idle" /\ req[s].at # "idle"
    \/ /\ \E r \in Requests : req[r].at \in {"bumped", "handled"}
       /\ \E w \in Resolvers : res[w].at # "idle"

Step ==
    \/ \E r \in Requests, c \in Creds, op \in {"activate", "create", "update", "delete"} : Read(r, op, c)
    \/ \E r \in Requests : \/ Deactivate(r) \/ SetActive(r) \/ Bump(r) \/ Flush(r)
                           \/ Invalidate(r) \/ Commit(r)
    \/ \E w \in Resolvers : Check(w) \/ Hit(w) \/ Build(w) \/ Store(w)
    \/ TranslatePacket
    \/ Restart

Next == Step /\ overlapped' = (overlapped \/ Overlapping')

Spec == Init /\ [][Next]_vars

-----------------------------------------------------------------------------
(* Properties *)

Workers == [cred : Creds \cup {NoCred, Env, Echo}, config : Nat]

\* The types of the variables; the cache is never of a revision still to come.
RowsOK == rows \in [Creds -> [state : {"unborn", "idle", "active", "gone"}, config : Nat]]

ReqOK == req \in [Requests ->
    [at : {"idle", "read", "deactivating", "alone", "flushed", "bumped", "handled"},
     op : {"none", "activate", "create", "update", "delete"},
     cred : Creds \cup {NoCred}, seen : BOOLEAN, off : SUBSET Creds, on : BOOLEAN]]

TypeOK ==
    /\ RowsOK
    /\ ReqOK
    /\ revision \in Nat
    /\ app \in [worker : Workers, rev : Int] /\ app.rev <= revision
    /\ res \in [Resolvers -> [at : {"idle", "hit", "miss", "built", "stored"}, rev : Nat, worker : Workers]]
    /\ executor \in Workers /\ used \in Workers
    /\ overlapped \in BOOLEAN

\* Exactly one row may be active at a time: activations that run at once, each
\* of which has not seen the other, do not both succeed.
OneActive == \A c, d \in Active : c = d

\* As long as changes come one at a time and none of them is still uncommitted
\* while a worker is resolved, the cached worker that would be used is the one
\* of the active credential as it was last edited, whatever resolved it when.
FreshUnlessOverlapped ==
    /\ ~overlapped
    /\ \A r \in Requests : req[r].at = "idle"
    /\ Usable
    => app.worker = Current

\* A swapped provider takes effect on the next request: once nothing is under
\* way the cached worker that would be used is that of the active credential.
WorkerIsCurrent ==
    /\ \A r \in Requests : req[r].at = "idle"
    /\ \A w \in Resolvers : res[w].at = "idle"
    /\ Usable
    => app.worker = Current

\* The active credential is not deleted, and is replaced only by another one:
\* there always is one.
AlwaysOneActive == Active # {}

\* A packet is translated by the active provider as it stands.
PacketsUseTheActive == [][TranslatePacket => used' = Current]_vars
=============================================================================
