--------------------- MODULE ProviderCredentials_proofs ---------------------
(***************************************************************************)
(* At most one credential is active, for any number of credentials and     *)
(* requests.  The invariant alone is not inductive: what keeps it is that  *)
(* of all activations under way one at most has flushed its own row, and   *)
(* that this one has seen to every other row that is active by then, and   *)
(* holds it.                                                               *)
(* On top of it: the types of the cache, and that a cached worker the      *)
(* service would use is the active one as long as changes and resolutions  *)
(* do not overlap.                                                         *)
(***************************************************************************)
EXTENDS ProviderCredentials, TLAPS

Activates(r) == req[r].op \in {"activate", "create"}

\* The activation that has flushed its own row.
Ahead(r) == req[r].on /\ Activates(r)

NotYet ==
    \A r \in Requests :
        Activates(r) /\ req[r].at \in {"idle", "read", "deactivating", "alone"} => ~req[r].on

OneAhead == \A r, s \in Requests : Ahead(r) /\ Ahead(s) => r = s

OthersOff == \A r \in Requests : Ahead(r) => Active \subseteq req[r].off \cup {req[r].cred}

IInv == RowsOK /\ ReqOK /\ OneActive /\ NotYet /\ OneAhead /\ OthersOff

\* What ReqOK says of one request.
Request ==
    [at : {"idle", "read", "deactivating", "alone", "flushed", "bumped", "handled"},
     op : {"none", "activate", "create", "update", "delete"},
     cred : Creds \cup {NoCred}, seen : BOOLEAN, off : SUBSET Creds, on : BOOLEAN]

\* A step that writes one request.
LEMMA WriteRequest ==
    ASSUME ReqOK, NEW r \in Requests, NEW v \in Request, req' = [req EXCEPT ![r] = v]
    PROVE  ReqOK' /\ req'[r] = v /\ \A s \in Requests \ {r} : req'[s] = req[s]
  <1>1. req \in [Requests -> Request] /\ (req' \in [Requests -> Request] => ReqOK')
    BY DEF ReqOK, Request
  <1> QED
    BY <1>1

\* The values a request is written with.
LEMMA RequestValues ==
    ASSUME ReqOK, NEW r \in Requests
    PROVE  /\ NoRequest \in Request
           /\ [req[r] EXCEPT !.on = TRUE] \in Request
           /\ [req[r] EXCEPT !.at = "flushed"] \in Request
           /\ [req[r] EXCEPT !.at = "flushed", !.on = TRUE] \in Request
  <1>1. req[r] \in Request
    BY DEF ReqOK, Request
  <1>2. NoRequest \in Request
    BY DEF NoRequest, Request
  <1> QED
    BY <1>1, <1>2 DEF Request

\* In the initial state no request is under way.
LEMMA InitIInv == Init => IInv
  <1>1. SUFFICES ASSUME Init PROVE IInv
    OBVIOUS
  <1>2. RowsOK
    BY <1>1 DEF Init, RowsOK
  <1>3. ReqOK
    BY <1>1 DEF Init, ReqOK, NoRequest
  <1>4. OneActive
    BY <1>1, CredentialAssumption DEF Init, OneActive, Active
  <1>5. NotYet /\ OneAhead /\ OthersOff
    BY <1>1 DEF Init, NoRequest, NotYet, OneAhead, OthersOff, Ahead, Activates
  <1> QED
    BY <1>2, <1>3, <1>4, <1>5 DEF IInv

\* A step that leaves the rows alone and starts, ends or goes on with a request
\* that is not an activation ahead of the others.
LEMMA OneRequest ==
    ASSUME IInv, NEW r \in Requests, UNCHANGED rows, ReqOK',
           \A s \in Requests \ {r} : req'[s] = req[s],
           NotYet', Ahead(r)' => Ahead(r) /\ req'[r].off = req[r].off /\ req'[r].cred = req[r].cred
    PROVE  IInv'
  <1>1. RowsOK' /\ OneActive'
    BY DEF IInv, RowsOK, OneActive, Active
  <1>2. \A s \in Requests : Ahead(s)' => Ahead(s)
    BY DEF Ahead, Activates
  <1>3. OneAhead'
    BY <1>2 DEF IInv, OneAhead
  <1>4. OthersOff'
    BY <1>2 DEF IInv, OthersOff, Active
  <1> QED
    BY <1>1, <1>3, <1>4 DEF IInv

\* The first steps of a request, its announcements and the flush of an edit.
LEMMA PreparationIInv ==
    ASSUME IInv, NEW r \in Requests,
           \/ \E c \in Creds, op \in {"activate", "create", "update", "delete"} : Read(r, op, c)
           \/ Deactivate(r) \/ Bump(r) \/ Flush(r) \/ Invalidate(r)
    PROVE  IInv'
  <1> USE DEF IInv
  <1>1. ASSUME NEW c \in Creds, NEW op \in {"activate", "create", "update", "delete"}, Read(r, op, c)
        PROVE  IInv'
    <2>1. ReqOK' /\ req'[r].on = FALSE /\ UNCHANGED rows /\ \A s \in Requests \ {r} : req'[s] = req[s]
      BY <1>1 DEF Read, ReqOK, NoRequest
    <2>2. NotYet'
      BY <2>1 DEF NotYet, Activates
    <2> QED
      BY <2>1, <2>2, OneRequest DEF Ahead
  <1>2. CASE Deactivate(r)
    <2>1. Activates(r) /\ req[r].at \in {"read", "deactivating"}
      BY <1>2 DEF Deactivate, Activates
    <2>2. req[r].on = FALSE
      BY <2>1 DEF NotYet, ReqOK
    <2>3. Active \subseteq Creds
      BY DEF Active
    <2>4. ReqOK' /\ req'[r].on = FALSE /\ UNCHANGED rows /\ \A s \in Requests \ {r} : req'[s] = req[s]
      BY <1>2, <2>2, <2>3 DEF Deactivate, ReqOK
    <2>5. NotYet'
      BY <2>4 DEF NotYet, Activates
    <2> QED
      BY <2>4, <2>5, OneRequest DEF Ahead
  <1>3. CASE Bump(r) \/ Invalidate(r)
    <2>1. /\ ReqOK' /\ UNCHANGED rows /\ \A s \in Requests \ {r} : req'[s] = req[s]
          /\ req'[r] = [req[r] EXCEPT !.at = req'[r].at]
          /\ req'[r].at \in {"bumped", "handled"}
      BY <1>3 DEF Bump, Invalidate, At, ReqOK
    <2>2. /\ req'[r].on = req[r].on /\ req'[r].op = req[r].op
          /\ req'[r].off = req[r].off /\ req'[r].cred = req[r].cred
      BY <2>1 DEF ReqOK
    <2>3. NotYet'
      BY <2>1 DEF NotYet, Activates
    <2> QED
      BY <2>1, <2>2, <2>3, OneRequest DEF Ahead, Activates
  <1>4. CASE Flush(r)
    <2>0. /\ req[r].op \in {"update", "delete"} /\ UNCHANGED rows
          /\ req' = [req EXCEPT ![r].on = TRUE] \/ req' = [req EXCEPT ![r] = NoRequest]
      BY <1>4 DEF Flush, Abort
    <2>1. ReqOK' /\ UNCHANGED rows /\ \A s \in Requests \ {r} : req'[s] = req[s]
      <3>1. CASE req' = [req EXCEPT ![r].on = TRUE]
        <4>1. req' = [req EXCEPT ![r] = [req[r] EXCEPT !.on = TRUE]]
          BY <3>1
        <4> QED
          BY <2>0, <4>1, RequestValues, WriteRequest
      <3>2. CASE req' = [req EXCEPT ![r] = NoRequest]
        BY <2>0, <3>2, RequestValues, WriteRequest
      <3> QED
        BY <2>0, <3>1, <3>2
    <2>2. ~Activates(r)'
      BY <2>0 DEF NoRequest, Activates, ReqOK
    <2>3. NotYet'
      BY <2>1, <2>2 DEF NotYet, Activates
    <2> QED
      BY <2>1, <2>2, <2>3, OneRequest DEF Ahead
  <1> QED
    BY <1>1, <1>2, <1>3, <1>4

\* An activation flushes its own row: no other is ahead of it, and the index has
\* told it that every active row is its own or one it has deactivated.
LEMMA SetActiveIInv ==
    ASSUME IInv, NEW r \in Requests, SetActive(r)
    PROVE  IInv'
  <1> USE DEF IInv
  <1>0. /\ req[r].at = "alone" /\ UNCHANGED rows
        /\ \/ req' = [req EXCEPT ![r].at = "flushed"]
           \/ req' = [req EXCEPT ![r] = [@ EXCEPT !.at = "flushed", !.on = TRUE]]
           \/ req' = [req EXCEPT ![r] = NoRequest]
    BY DEF SetActive, At, Abort
  <1>1. /\ ReqOK' /\ UNCHANGED rows /\ \A s \in Requests \ {r} : req'[s] = req[s]
        /\ req[r].at = "alone"
    <2>1. CASE req' = [req EXCEPT ![r].at = "flushed"]
      <3>1. req' = [req EXCEPT ![r] = [req[r] EXCEPT !.at = "flushed"]]
        BY <2>1
      <3> QED
        BY <1>0, <3>1, RequestValues, WriteRequest
    <2>2. CASE req' = [req EXCEPT ![r] = [@ EXCEPT !.at = "flushed", !.on = TRUE]]
      <3>1. req' = [req EXCEPT ![r] = [req[r] EXCEPT !.at = "flushed", !.on = TRUE]]
        BY <2>2
      <3> QED
        BY <1>0, <3>1, RequestValues, WriteRequest
    <2>3. CASE req' = [req EXCEPT ![r] = NoRequest]
      BY <1>0, <2>3, RequestValues, WriteRequest
    <2> QED
      BY <1>0, <2>1, <2>2, <2>3
  <1>2. CASE req[r].seen \/ req' = [req EXCEPT ![r] = NoRequest]
    <2>1. NotYet'
      BY <1>1, <1>2 DEF SetActive, At, NoRequest, NotYet, Activates, ReqOK
    <2>2. Ahead(r)' => /\ Ahead(r)
                       /\ req'[r].off = req[r].off /\ req'[r].cred = req[r].cred
      BY <1>1, <1>2 DEF SetActive, At, NoRequest, Ahead, Activates, ReqOK
    <2> QED
      BY <1>1, <2>1, <2>2, OneRequest
  <1>3. CASE ~(req[r].seen \/ req' = [req EXCEPT ![r] = NoRequest])
    <2>1. /\ req' = [req EXCEPT ![r] = [@ EXCEPT !.at = "flushed", !.on = TRUE]]
          /\ \A s \in Requests \ {r} : ~(req[s].on /\ Activates(s))
          /\ Unique(r)
      BY <1>3 DEF SetActive, Abort, Activates
    <2>2. /\ req'[r].at = "flushed" /\ req'[r].off = req[r].off /\ req'[r].cred = req[r].cred
      BY <2>1 DEF ReqOK
    <2>3. \A s \in Requests : Ahead(s)' => s = r
      BY <1>1, <2>1 DEF Ahead, Activates
    <2>4. RowsOK' /\ OneActive'
      BY <1>1 DEF RowsOK, OneActive, Active
    <2>5. NotYet'
      BY <1>1, <2>2 DEF NotYet, Activates
    <2>6. OneAhead'
      BY <2>3 DEF OneAhead
    <2>7. OthersOff'
      BY <1>1, <2>1, <2>2, <2>3 DEF OthersOff, Unique, Active
    <2> QED
      BY <1>1, <2>4, <2>5, <2>6, <2>7
  <1> QED
    BY <1>2, <1>3

\* A commit: of the activation that is ahead, after which its row alone is
\* active, or of anything else, after which no row is active that was not.
LEMMA CommitIInv ==
    ASSUME IInv, NEW r \in Requests, Commit(r)
    PROVE  IInv'
  <1> USE DEF IInv
  <1>1. ReqOK' /\ req'[r] = NoRequest /\ \A s \in Requests \ {r} : req'[s] = req[s]
    BY DEF Commit, Abort, NoRequest, ReqOK
  <1>2. rows' = [c \in Creds |-> Committed(r, c)]
    BY DEF Commit
  <1>3. RowsOK'
    BY <1>2 DEF Committed, RowsOK
  <1>4. \A s \in Requests : Ahead(s)' => s # r /\ Ahead(s)
    BY <1>1 DEF Ahead, Activates, NoRequest
  <1>5. NotYet'
    BY <1>1 DEF NotYet, Activates, NoRequest
  <1>6. OneAhead'
    BY <1>4 DEF OneAhead
  <1>7. CASE Ahead(r)
    <2>1. \A c \in Creds : rows'[c].state = "active" => c = req[r].cred
      BY <1>2, <1>7 DEF Committed, Ahead, Activates, OthersOff, Active, RowsOK
    <2>2. OneActive'
      BY <2>1 DEF OneActive, Active
    <2>3. OthersOff'
      BY <1>4, <1>7 DEF OthersOff, OneAhead
    <2> QED
      BY <1>1, <1>3, <1>5, <1>6, <2>2, <2>3
  <1>8. CASE ~Ahead(r)
    <2>1. \A c \in Creds : rows'[c].state = "active" => rows[c].state = "active"
      BY <1>2, <1>8 DEF Committed, Ahead, Activates, RowsOK
    <2>2. Active' \subseteq Active
      BY <2>1 DEF Active
    <2>3. OneActive'
      BY <2>2 DEF OneActive
    <2>4. OthersOff'
      BY <1>1, <1>4, <2>2 DEF OthersOff
    <2> QED
      BY <1>1, <1>3, <1>5, <1>6, <2>3, <2>4
  <1> QED
    BY <1>7, <1>8

\* Every step keeps the inductive invariant.
LEMMA StepIInv == IInv /\ [Next]_vars => IInv'
  <1>1. SUFFICES ASSUME IInv, [Next]_vars PROVE IInv'
    OBVIOUS
  <1>2. ASSUME UNCHANGED <<rows, req>> PROVE IInv'
    BY <1>1, <1>2 DEF IInv, RowsOK, ReqOK, OneActive, Active, NotYet, OneAhead, OthersOff,
                      Ahead, Activates
  <1>3. CASE \E r \in Requests, c \in Creds, op \in {"activate", "create", "update", "delete"} : Read(r, op, c)
    BY <1>1, <1>3, PreparationIInv
  <1>4. ASSUME NEW r \in Requests,
               Deactivate(r) \/ SetActive(r) \/ Bump(r) \/ Flush(r) \/ Invalidate(r) \/ Commit(r)
        PROVE  IInv'
    BY <1>1, <1>4, PreparationIInv, SetActiveIInv, CommitIInv
  <1>5. CASE (\E w \in Resolvers : Check(w) \/ Hit(w) \/ Build(w) \/ Store(w)) \/ TranslatePacket
    BY <1>2, <1>5 DEF Check, Hit, Build, Store, TranslatePacket
  <1>6. CASE Restart
    <2>1. UNCHANGED rows /\ \A r \in Requests : req'[r] = NoRequest
      BY <1>6 DEF Restart
    <2>2. RowsOK' /\ OneActive'
      BY <1>1, <2>1 DEF IInv, RowsOK, OneActive, Active
    <2>3. ReqOK'
      BY <1>6 DEF Restart, NoRequest, ReqOK
    <2>4. NotYet' /\ OneAhead' /\ OthersOff'
      BY <2>1 DEF NoRequest, NotYet, OneAhead, OthersOff, Ahead, Activates
    <2> QED
      BY <2>2, <2>3, <2>4 DEF IInv
  <1>7. CASE UNCHANGED vars
    BY <1>2, <1>7 DEF vars
  <1> QED
    BY <1>1, <1>3, <1>4, <1>5, <1>6, <1>7 DEF Next, Step

\* Whatever requests run at once, at most one credential is active
\* (_activate_internal and the partial unique index).
THEOREM AtMostOneActive == Spec => []OneActive
  <1>1. IInv => OneActive
    BY DEF IInv
  <1> QED
    BY InitIInv, StepIInv, <1>1, PTL DEF Spec

-----------------------------------------------------------------------------
(* The cached worker.  While changes come one at a time and none of them is  *)
(* uncommitted during a resolution, a change that is announced makes the     *)
(* cache unusable until its commit, and a resolution that has begun is for   *)
(* the current revision and the committed rows.                              *)

Resolution == [at : {"idle", "hit", "miss", "built", "stored"}, rev : Nat, worker : Workers]

CacheTypes ==
    /\ revision \in Nat
    /\ app \in [worker : Workers, rev : Int] /\ app.rev <= revision
    /\ res \in [Resolvers -> Resolution] /\ \A w \in Resolvers : res[w].rev <= revision
    /\ executor \in Workers /\ used \in Workers
    /\ overlapped \in BOOLEAN

Announced(r) == req[r].at \in {"bumped", "handled"}

\* What a request read is still so, and an edit or a deletion touches one row.
ReadIsSo(r) ==
    req[r].at # "idle" =>
        /\ req[r].cred \in Creds /\ req[r].op # "none"
        /\ req[r].seen <=> rows[req[r].cred].state = "active"
        /\ req[r].op = "delete" => ~req[r].seen
        /\ req[r].op \in {"update", "delete"} => req[r].off = {}

Unusable == \A r \in Requests : Announced(r) /\ Bumps(r) => ~Usable

Fresh ==
    Usable /\ (\A r \in Requests : ~(Announced(r) /\ Bumps(r))) => app.worker = Current

Resolving(w) ==
    /\ res[w].at \in {"miss", "built", "stored"} => res[w].rev = revision
    /\ res[w].at \in {"built", "stored"} => res[w].worker = Current
    /\ res[w].at = "stored" => app.worker = Current

CacheInv ==
    ~overlapped =>
        /\ ~Overlapping
        /\ \A r \in Requests : ReadIsSo(r)
        /\ Unusable
        /\ Fresh
        /\ \A w \in Resolvers : Resolving(w)

LEMMA CurrentIsWorker == RowsOK => Current \in Workers
  BY DEF RowsOK, Current, Worker, Workers, Active

LEMMA NoWorkerYet == NoWorker \in Workers /\ NoResolution \in Resolution
  <1>1. NoWorker \in Workers
    BY DEF NoWorker, Worker, Workers
  <1> QED
    BY <1>1 DEF NoResolution, Resolution

\* A step that writes one resolution.
LEMMA WriteResolution ==
    ASSUME CacheTypes, NEW w \in Resolvers, NEW v \in Resolution, res' = [res EXCEPT ![w] = v]
    PROVE  /\ res' \in [Resolvers -> Resolution] /\ res'[w] = v
           /\ \A u \in Resolvers \ {w} : res'[u] = res[u]
  BY DEF CacheTypes

\* The values a resolution is written with.
LEMMA ResolutionValues ==
    ASSUME CacheTypes, NEW w \in Resolvers, NEW at \in {"hit", "miss"}, NEW b \in Workers
    PROVE  /\ res[w] \in Resolution
           /\ [NoResolution EXCEPT !.at = at, !.rev = revision] \in Resolution
           /\ [res[w] EXCEPT !.at = "built", !.worker = b] \in Resolution
           /\ [res[w] EXCEPT !.at = "stored"] \in Resolution
  <1>1. res[w] \in Resolution /\ revision \in Nat
    BY DEF CacheTypes
  <1>2. NoResolution \in Resolution
    BY NoWorkerYet
  <1> QED
    BY <1>1, <1>2 DEF Resolution

LEMMA InitCache == Init => CacheTypes /\ CacheInv
  <1>1. ASSUME Init PROVE CacheTypes
    <2>1. revision = 0 /\ app = [worker |-> NoWorker, rev |-> -1] /\ executor = NoWorker
          /\ used = NoWorker /\ overlapped = FALSE /\ res = [w \in Resolvers |-> NoResolution]
      BY <1>1 DEF Init
    <2>2. res \in [Resolvers -> Resolution] /\ \A w \in Resolvers : res[w].rev <= revision
      BY <2>1, NoWorkerYet DEF NoResolution
    <2>3. app \in [worker : Workers, rev : Int] /\ app.rev <= revision
      BY <2>1, NoWorkerYet
    <2> QED
      BY <2>1, <2>2, <2>3, NoWorkerYet DEF CacheTypes
  <1>2. ASSUME Init PROVE ~Overlapping /\ (\A r \in Requests : ReadIsSo(r) /\ ~Announced(r)) /\ ~Usable
    BY <1>2 DEF Init, Overlapping, ReadIsSo, Announced, NoRequest, Usable
  <1>3. ASSUME Init PROVE \A w \in Resolvers : Resolving(w)
    BY <1>3 DEF Init, Resolving, NoResolution
  <1> QED
    BY <1>1, <1>2, <1>3 DEF CacheInv, Unusable, Fresh

\* A request that does not announce anything, or gives up: the cache is as
\* fresh as before.
LEMMA QuietRequest ==
    ASSUME IInv, CacheInv, ~overlapped, NEW r \in Requests,
           UNCHANGED <<rows, revision, app, res>>, ~Overlapping',
           \A s \in Requests \ {r} : req'[s] = req[s],
           ReadIsSo(r)', Announced(r)' => Announced(r) /\ Bumps(r)' = Bumps(r)
    PROVE  CacheInv'
  <1>1. \A s \in Requests : ReadIsSo(s)'
    BY DEF CacheInv, ReadIsSo
  <1>2. Current' = Current /\ Usable' = Usable
    BY DEF Current, Active, Usable
  <1>3. \A s \in Requests : (Announced(s) /\ Bumps(s))' => Announced(s) /\ Bumps(s)
    BY DEF Announced, Bumps
  <1>4. Unusable'
    BY <1>2, <1>3 DEF CacheInv, Unusable
  <1>5. Fresh'
    <2>1. CASE \E s \in Requests : Announced(s) /\ Bumps(s)
      BY <1>2, <2>1 DEF CacheInv, Unusable, Fresh
    <2>2. CASE ~ \E s \in Requests : Announced(s) /\ Bumps(s)
      BY <1>2, <2>2 DEF CacheInv, Fresh
    <2> QED
      BY <2>1, <2>2
  <1>6. \A w \in Resolvers : Resolving(w)'
    BY <1>2 DEF CacheInv, Resolving
  <1> QED
    BY <1>1, <1>4, <1>5, <1>6 DEF CacheInv

\* The steps of a change up to its commit.
LEMMA ChangeCache ==
    ASSUME IInv, CacheTypes, CacheInv, ~overlapped, ~Overlapping', NEW r \in Requests,
           \/ \E c \in Creds, op \in {"activate", "create", "update", "delete"} : Read(r, op, c)
           \/ Deactivate(r) \/ SetActive(r) \/ Flush(r)
    PROVE  CacheInv'
  <1>1. ASSUME NEW c \in Creds, NEW op \in {"activate", "create", "update", "delete"}, Read(r, op, c)
        PROVE  CacheInv'
    <2>1. /\ req'[r] = [NoRequest EXCEPT !.at = "read", !.op = op, !.cred = c,
                                        !.seen = rows[c].state = "active"]
          /\ \A s \in Requests \ {r} : req'[s] = req[s]
          /\ UNCHANGED <<rows, revision, app, res>>
      BY <1>1 DEF Read, IInv, ReqOK
    <2>4. /\ req'[r].at = "read" /\ req'[r].op = op /\ req'[r].cred = c /\ req'[r].off = {}
          /\ req'[r].seen = (rows[c].state = "active")
      BY <2>1 DEF NoRequest
    <2>5. op = "delete" => rows[c].state # "active"
      BY <1>1 DEF Read
    <2>6. rows'[req'[r].cred] = rows[c]
      BY <2>1, <2>4
    <2>2. ReadIsSo(r)'
      BY <2>4, <2>5, <2>6 DEF ReadIsSo
    <2>3. ~Announced(r)'
      BY <2>4 DEF Announced
    <2> QED
      BY <2>1, <2>2, <2>3, QuietRequest
  <1>2. CASE Deactivate(r)
    <2>1. /\ req'[r].at \in {"deactivating", "alone"} /\ req[r].at # "idle"
          /\ req'[r].op = req[r].op /\ req'[r].op \in {"activate", "create"}
          /\ req'[r].cred = req[r].cred /\ req'[r].seen = req[r].seen
          /\ \A s \in Requests \ {r} : req'[s] = req[s]
          /\ UNCHANGED <<rows, revision, app, res>>
      BY <1>2 DEF Deactivate, IInv, ReqOK
    <2>2. ReadIsSo(r)'
      BY <2>1 DEF CacheInv, ReadIsSo
    <2>3. ~Announced(r)'
      BY <2>1 DEF Announced
    <2> QED
      BY <2>1, <2>2, <2>3, QuietRequest
  <1>3. CASE SetActive(r) \/ Flush(r)
    <2>1. /\ UNCHANGED <<rows, revision, app, res>>
          /\ \/ req' = [req EXCEPT ![r] = NoRequest]
             \/ req[r].at = "alone" /\ req' = [req EXCEPT ![r].at = "flushed"]
             \/ req[r].at = "alone" /\ req' = [req EXCEPT ![r] = [@ EXCEPT !.at = "flushed", !.on = TRUE]]
             \/ req[r].at = "bumped" /\ req' = [req EXCEPT ![r].on = TRUE]
      BY <1>3 DEF SetActive, Flush, Abort, At
    <2>2. \A s \in Requests \ {r} : req'[s] = req[s]
      BY <2>1 DEF IInv, ReqOK
    <2>3. CASE req' = [req EXCEPT ![r] = NoRequest]
      <3>1. req'[r].at = "idle"
        BY <2>3 DEF IInv, ReqOK, NoRequest
      <3> QED
        BY <2>1, <2>2, <3>1, QuietRequest DEF ReadIsSo, Announced
    <2>4. CASE req' # [req EXCEPT ![r] = NoRequest]
      <3>1. /\ req'[r].op = req[r].op /\ req'[r].cred = req[r].cred
            /\ req'[r].seen = req[r].seen /\ req'[r].off = req[r].off
            /\ req[r].at # "idle" /\ (req'[r].at = "flushed" \/ req'[r].at = req[r].at)
        <4>1. PICK v \in {[req[r] EXCEPT !.at = "flushed"],
                          [req[r] EXCEPT !.at = "flushed", !.on = TRUE],
                          [req[r] EXCEPT !.on = TRUE]} :
                /\ req' = [req EXCEPT ![r] = v]
                /\ req[r].at \in {"alone", "bumped"}
          BY <2>1, <2>4
        <4>2. req'[r] = v
          BY <4>1 DEF IInv, ReqOK
        <4>3. req[r] \in Request
          BY DEF IInv, ReqOK, Request
        <4>4. /\ v.op = req[r].op /\ v.cred = req[r].cred /\ v.seen = req[r].seen
              /\ v.off = req[r].off /\ (v.at = "flushed" \/ v.at = req[r].at)
          BY <4>3 DEF Request
        <4> QED
          BY <4>1, <4>2, <4>4
      <3>2. ReadIsSo(r)'
        BY <2>1, <3>1 DEF CacheInv, ReadIsSo
      <3>3. Announced(r)' => Announced(r) /\ Bumps(r)' = Bumps(r)
        BY <3>1 DEF Announced, Bumps
      <3> QED
        BY <2>1, <2>2, <3>2, <3>3, QuietRequest
    <2> QED
      BY <2>3, <2>4
  <1> QED
    BY <1>1, <1>2, <1>3

\* The announcement: if it counts, the cache is of an older revision, then none.
LEMMA AnnounceCache ==
    ASSUME IInv, CacheTypes, CacheInv, ~overlapped, ~Overlapping', NEW r \in Requests,
           Bump(r) \/ Invalidate(r)
    PROVE  CacheInv'
  <1>1. /\ UNCHANGED <<rows, res>> /\ req[r].at # "idle"
        /\ req'[r].at \in {"bumped", "handled"}
        /\ req'[r].op = req[r].op /\ req'[r].cred = req[r].cred
        /\ req'[r].seen = req[r].seen /\ req'[r].off = req[r].off
        /\ \A s \in Requests \ {r} : req'[s] = req[s]
    BY DEF Bump, Invalidate, At, IInv, ReqOK
  <1>2. \A s \in Requests : ReadIsSo(s)'
    BY <1>1 DEF CacheInv, ReadIsSo
  <1>3. Bumps(r)' = Bumps(r)
    BY <1>1 DEF Bumps
  <1>4. \A s \in Requests \ {r} : ~Announced(s)'
    BY <1>1 DEF Overlapping, Announced
  <1>5. \A w \in Resolvers : res'[w].at = "idle"
    BY <1>1 DEF Overlapping
  <1>6. \A w \in Resolvers : Resolving(w)'
    BY <1>5 DEF Resolving
  <1>7. CASE Bumps(r)
    <2>1. ~Usable'
      <3>1. CASE Bump(r)
        BY <1>7, <3>1 DEF Bump, CacheTypes, Usable
      <3>2. CASE Invalidate(r)
        BY <1>7, <3>2 DEF Invalidate, Usable
      <3> QED
        BY <3>1, <3>2
    <2> QED
      BY <1>2, <1>6, <2>1 DEF CacheInv, Unusable, Fresh
  <1>8. CASE ~Bumps(r)
    <2>1. UNCHANGED <<revision, app>>
      BY <1>8 DEF Bump, Invalidate
    <2>2. Current' = Current /\ Usable' = Usable
      BY <1>1, <2>1 DEF Current, Active, Usable
    <2>3. \A s \in Requests : ~(Announced(s) /\ Bumps(s))'
      BY <1>3, <1>4, <1>8
    <2>4. \A s \in Requests \ {r} : ~Announced(s)
      BY <1>1, <1>4 DEF Announced
    <2>5. Fresh'
      BY <1>8, <2>1, <2>2, <2>4 DEF CacheInv, Fresh
    <2> QED
      BY <1>2, <1>6, <2>3, <2>5 DEF CacheInv, Unusable
  <1> QED
    BY <1>7, <1>8

\* The commit: what was announced finds the cache unusable, and what was not
\* leaves the active row as it is.
LEMMA CommitCache ==
    ASSUME IInv, CacheTypes, CacheInv, ~overlapped, ~Overlapping', NEW r \in Requests, Commit(r)
    PROVE  CacheInv'
  <1>1. /\ req'[r].at = "idle" /\ Announced(r) /\ req[r].at # "idle"
        /\ \A s \in Requests \ {r} : req'[s] = req[s]
        /\ rows' = [c \in Creds |-> Committed(r, c)]
        /\ UNCHANGED <<revision, app, res>>
    BY DEF Commit, Abort, NoRequest, IInv, ReqOK, Announced
  <1>2. \A s \in Requests \ {r} : req'[s].at = "idle"
    BY <1>1 DEF CacheInv, Overlapping
  <1>3. \A s \in Requests : ReadIsSo(s)' /\ ~Announced(s)'
    BY <1>1, <1>2 DEF ReadIsSo, Announced
  <1>4. \A w \in Resolvers : res'[w].at = "idle"
    BY <1>1 DEF CacheInv, Overlapping, Announced
  <1>5. \A w \in Resolvers : Resolving(w)'
    BY <1>4 DEF Resolving
  <1>6. Usable' = Usable
    BY <1>1 DEF Usable
  <1>7. CASE Bumps(r)
    BY <1>1, <1>3, <1>5, <1>6, <1>7 DEF CacheInv, Unusable, Fresh
  <1>8. CASE ~Bumps(r)
    <2>1. /\ req[r].op \in {"update", "delete"} /\ req[r].off = {}
          /\ req[r].cred \in Creds /\ rows[req[r].cred].state # "active"
      BY <1>1, <1>8 DEF Bumps, CacheInv, ReadIsSo, IInv, ReqOK
    <2>2. \A c \in Creds \ {req[r].cred} : rows'[c] = rows[c]
      BY <1>1, <2>1 DEF Committed
    <2>3. rows'[req[r].cred].state # "active"
      BY <1>1, <2>1 DEF Committed, IInv, RowsOK
    <2>4. Active' = Active /\ \A c \in Active : rows'[c] = rows[c]
      BY <2>1, <2>2, <2>3 DEF Active
    <2>5. Current' = Current
      BY <2>4 DEF Current
    <2>6. \A s \in Requests : ~(Announced(s) /\ Bumps(s))
      BY <1>1, <1>2, <1>8 DEF Announced
    <2>7. Fresh'
      BY <1>1, <1>6, <2>5, <2>6 DEF CacheInv, Fresh
    <2> QED
      BY <1>3, <1>5, <2>7 DEF CacheInv, Unusable
  <1> QED
    BY <1>7, <1>8

\* What a resolution does: it looks, is done, builds a worker of the committed
\* rows, puts the worker into the cache, or the revision it was resolved for.
Looks(w, v) == v.at \in {"hit", "miss"} /\ v.rev = revision /\ UNCHANGED app
IsDone(w, v) == v = NoResolution /\ UNCHANGED app
Builds(w, v) ==
    /\ res[w].at = "miss" /\ v.at = "built" /\ v.worker = Current /\ v.rev = res[w].rev
    /\ UNCHANGED app
PutsWorker(w, v) ==
    /\ res[w].at = "built" /\ v.at = "stored" /\ v.worker = res[w].worker /\ v.rev = res[w].rev
    /\ app' = [app EXCEPT !.worker = res[w].worker]
PutsRevision(w, v) ==
    /\ res[w].at = "stored" /\ v = NoResolution
    /\ app' = [app EXCEPT !.rev = res[w].rev]

LEMMA ResolutionStep ==
    ASSUME RowsOK, CacheTypes, NEW w \in Resolvers, Check(w) \/ Hit(w) \/ Build(w) \/ Store(w)
    PROVE  /\ UNCHANGED <<rows, req, revision, executor, used>>
           /\ \E v \in Resolution :
                /\ res' = [res EXCEPT ![w] = v]
                /\ \/ Looks(w, v) \/ IsDone(w, v) \/ Builds(w, v)
                   \/ PutsWorker(w, v) \/ PutsRevision(w, v)
  <1>0. /\ res[w] \in Resolution /\ NoResolution \in Resolution
        /\ revision \in Nat /\ Current \in Workers
    BY NoWorkerYet, CurrentIsWorker DEF CacheTypes
  <1>1. CASE Check(w)
    <2> DEFINE at == IF Usable THEN "hit" ELSE "miss"
    <2> DEFINE v == [NoResolution EXCEPT !.at = at, !.rev = revision]
    <2>1. at \in {"hit", "miss"}
      OBVIOUS
    <2>2. /\ UNCHANGED <<rows, req, revision, executor, used>> /\ UNCHANGED app
          /\ res' = [res EXCEPT ![w] = v]
      BY <1>1 DEF Check
    <2> HIDE DEF at
    <2>3. v \in Resolution /\ v.at = at /\ v.rev = revision
      BY <1>0, <2>1 DEF NoResolution, Resolution
    <2> QED
      BY <2>1, <2>2, <2>3 DEF Looks
  <1>2. CASE Hit(w)
    BY <1>0, <1>2 DEF Hit, IsDone
  <1>3. CASE Build(w)
    <2> DEFINE v == [res[w] EXCEPT !.at = "built", !.worker = Current]
    <2>1. /\ UNCHANGED <<rows, req, revision, executor, used>> /\ UNCHANGED app
          /\ res[w].at = "miss"
          /\ res' = [res EXCEPT ![w].at = "built", ![w].worker = Current]
      BY <1>3 DEF Build
    <2>2. res' = [res EXCEPT ![w] = v]
      BY <2>1 DEF CacheTypes
    <2>3. v \in Resolution /\ v.at = "built" /\ v.worker = Current /\ v.rev = res[w].rev
      BY <1>0 DEF Resolution
    <2> HIDE DEF v
    <2> QED
      BY <2>1, <2>2, <2>3 DEF Builds
  <1>4. CASE Store(w)
    <2>0. UNCHANGED <<rows, req, revision, executor, used>>
      BY <1>4 DEF Store
    <2>1. CASE /\ res[w].at = "built" /\ app' = [app EXCEPT !.worker = res[w].worker]
               /\ res' = [res EXCEPT ![w].at = "stored"]
      <3> DEFINE v == [res[w] EXCEPT !.at = "stored"]
      <3>1. res' = [res EXCEPT ![w] = v]
        BY <2>1
      <3>2. v \in Resolution /\ v.at = "stored" /\ v.worker = res[w].worker /\ v.rev = res[w].rev
        BY <1>0 DEF Resolution
      <3> HIDE DEF v
      <3> QED
        BY <2>0, <2>1, <3>1, <3>2 DEF PutsWorker
    <2>2. CASE /\ res[w].at = "stored" /\ app' = [app EXCEPT !.rev = res[w].rev]
               /\ res' = [res EXCEPT ![w] = NoResolution]
      BY <1>0, <2>0, <2>2 DEF PutsRevision
    <2> QED
      BY <1>4, <2>1, <2>2 DEF Store
  <1> QED
    BY <1>1, <1>2, <1>3, <1>4

\* The resolutions: what is built is of the committed rows, which no request is
\* about to change.
LEMMA ResolveCache ==
    ASSUME IInv, CacheTypes, CacheInv, ~overlapped, ~Overlapping', NEW w \in Resolvers,
           Check(w) \/ Hit(w) \/ Build(w) \/ Store(w)
    PROVE  CacheInv'
  <1>1. PICK v \in Resolution :
            /\ res' = [res EXCEPT ![w] = v]
            /\ \/ Looks(w, v) \/ IsDone(w, v) \/ Builds(w, v)
               \/ PutsWorker(w, v) \/ PutsRevision(w, v)
    BY ResolutionStep DEF IInv
  <1>2. UNCHANGED <<rows, req, revision>>
    BY ResolutionStep DEF IInv
  <1>3. Current' = Current
    BY <1>2 DEF Current, Active
  <1>4. res'[w] = v /\ \A u \in Resolvers \ {w} : res'[u] = res[u]
    BY <1>1, WriteResolution
  <1>5. \A r \in Requests : ReadIsSo(r)'
    BY <1>2 DEF CacheInv, ReadIsSo
  <1>6. \A r \in Requests : (Announced(r) /\ Bumps(r))' <=> Announced(r) /\ Bumps(r)
    BY <1>2 DEF Announced, Bumps
  <1>7. ~Overlapping /\ Unusable /\ Fresh /\ \A u \in Resolvers : Resolving(u)
    BY DEF CacheInv
  <1>8. app.worker = Current => app'.worker = Current
    <2>1. CASE PutsWorker(w, v)
      BY <1>7, <2>1 DEF PutsWorker, Resolving, CacheTypes
    <2>2. CASE ~PutsWorker(w, v)
      BY <1>1, <2>2 DEF Looks, IsDone, Builds, PutsRevision, CacheTypes
    <2> QED
      BY <2>1, <2>2
  <1>9. CASE Looks(w, v) \/ IsDone(w, v) \/ Builds(w, v)
    <2>1. UNCHANGED app
      BY <1>9 DEF Looks, IsDone, Builds
    <2>2. Resolving(w)'
      <3>1. CASE Looks(w, v)
        BY <1>2, <1>4, <3>1 DEF Looks, Resolving
      <3>2. CASE IsDone(w, v)
        BY <1>4, <3>2 DEF IsDone, NoResolution, Resolving
      <3>3. CASE Builds(w, v)
        BY <1>2, <1>3, <1>4, <1>7, <3>3 DEF Builds, Resolving
      <3> QED
        BY <1>9, <3>1, <3>2, <3>3
    <2>3. \A u \in Resolvers \ {w} : Resolving(u)'
      BY <1>2, <1>3, <1>4, <1>7, <2>1 DEF Resolving
    <2>4. Usable' = Usable
      BY <1>2, <2>1 DEF Usable
    <2>5. Unusable'
      BY <1>6, <1>7, <2>4 DEF Unusable
    <2>6. Fresh'
      BY <1>3, <1>6, <1>7, <2>1, <2>4 DEF Fresh
    <2> QED
      BY <1>5, <2>2, <2>3, <2>5, <2>6 DEF CacheInv
  <1>10. CASE PutsWorker(w, v) \/ PutsRevision(w, v)
    <2>1. res[w].at \in {"built", "stored"} /\ res[w].worker = Current /\ res[w].rev = revision
      BY <1>7, <1>10 DEF PutsWorker, PutsRevision, Resolving
    <2>2. \A r \in Requests : ~Announced(r)
      BY <1>7, <2>1 DEF Overlapping, Announced
    <2>3. app'.worker = Current
      BY <1>7, <1>8, <1>10, <2>1 DEF PutsWorker, PutsRevision, Resolving, CacheTypes
    <2>4. Resolving(w)'
      BY <1>2, <1>3, <1>4, <1>10, <2>1, <2>3 DEF PutsWorker, PutsRevision, NoResolution, Resolving
    <2>5. \A u \in Resolvers \ {w} : Resolving(u)'
      BY <1>2, <1>3, <1>4, <1>7, <2>3 DEF Resolving
    <2>6. Unusable' /\ Fresh'
      BY <1>3, <1>6, <2>2, <2>3 DEF Unusable, Fresh
    <2> QED
      BY <1>5, <2>4, <2>5, <2>6 DEF CacheInv
  <1> QED
    BY <1>1, <1>9, <1>10

\* The service starts again without requests, and without a cached worker.
LEMMA RestartCache ==
    ASSUME Restart, ~Overlapping'
    PROVE  CacheInv'
  <1>1. /\ \A r \in Requests : req'[r].at = "idle"
        /\ \A w \in Resolvers : res'[w].at = "idle"
        /\ app'.worker = NoWorker
    BY DEF Restart, NoRequest, NoResolution
  <1>2. (\A r \in Requests : ReadIsSo(r))' /\ (\A w \in Resolvers : Resolving(w))'
    BY <1>1 DEF ReadIsSo, Resolving
  <1>3. ~Usable'
    BY <1>1 DEF Usable
  <1> QED
    BY <1>2, <1>3 DEF CacheInv, Unusable, Fresh

\* A step that leaves the changes, the cache and the resolutions alone.
LEMMA NoChangeCache ==
    ASSUME CacheInv, ~overlapped, ~Overlapping', UNCHANGED <<rows, req, revision, app, res>>
    PROVE  CacheInv'
  <1>1. Current' = Current /\ Usable' = Usable
    BY DEF Current, Active, Usable
  <1>2. \A r \in Requests : ReadIsSo(r)' /\ ((Announced(r) /\ Bumps(r))' <=> Announced(r) /\ Bumps(r))
    BY DEF CacheInv, ReadIsSo, Announced, Bumps
  <1>3. \A w \in Resolvers : Resolving(w)'
    BY <1>1 DEF CacheInv, Resolving
  <1>4. Unusable' /\ Fresh'
    BY <1>1, <1>2 DEF CacheInv, Unusable, Fresh
  <1> QED
    BY <1>2, <1>3, <1>4 DEF CacheInv

\* Every step keeps what is said of the cache.
LEMMA StepCache == IInv /\ CacheTypes /\ CacheInv /\ [Next]_vars => CacheInv'
  <1>1. SUFFICES ASSUME IInv, CacheTypes, CacheInv, [Next]_vars, ~overlapped' PROVE CacheInv'
    BY DEF CacheInv
  <1>2. CASE UNCHANGED vars
    <2>1. ~overlapped /\ UNCHANGED <<rows, req, revision, app, res>>
      BY <1>1, <1>2 DEF vars
    <2>2. ~Overlapping'
      BY <1>1, <2>1 DEF CacheInv, Overlapping
    <2> QED
      BY <1>1, <2>1, <2>2, NoChangeCache
  <1>3. CASE Next
    <2>1. Step /\ ~overlapped /\ ~Overlapping'
      BY <1>1, <1>3 DEF Next
    <2>2. ASSUME NEW r \in Requests, NEW c \in Creds,
                 NEW op \in {"activate", "create", "update", "delete"}, Read(r, op, c)
          PROVE  CacheInv'
      BY <1>1, <2>1, <2>2, ChangeCache
    <2>3. ASSUME NEW r \in Requests,
                 Deactivate(r) \/ SetActive(r) \/ Bump(r) \/ Flush(r) \/ Invalidate(r) \/ Commit(r)
          PROVE  CacheInv'
      BY <1>1, <2>1, <2>3, ChangeCache, AnnounceCache, CommitCache
    <2>4. ASSUME NEW w \in Resolvers, Check(w) \/ Hit(w) \/ Build(w) \/ Store(w)
          PROVE  CacheInv'
      BY <1>1, <2>1, <2>4, ResolveCache
    <2>5. CASE TranslatePacket
      BY <1>1, <2>1, <2>5, NoChangeCache DEF TranslatePacket
    <2>6. CASE Restart
      BY <2>1, <2>6, RestartCache
    <2> QED
      BY <2>1, <2>2, <2>3, <2>4, <2>5, <2>6 DEF Step
  <1> QED
    BY <1>1, <1>2, <1>3

\* The types of the cache and of what is resolved for it.
LEMMA StepCacheTypes == IInv /\ CacheTypes /\ [Next]_vars => CacheTypes'
  <1>1. SUFFICES ASSUME IInv, CacheTypes, [Next]_vars PROVE CacheTypes'
    OBVIOUS
  <1>2. overlapped' \in BOOLEAN
    BY <1>1 DEF Next, CacheTypes, vars, Overlapping
  <1>3. NoWorker \in Workers /\ Worker(Echo, 0) \in Workers
    BY NoWorkerYet DEF Worker, Workers
  <1>5. ASSUME NEW r \in Requests,
               \/ \E c \in Creds, op \in {"activate", "create", "update", "delete"} : Read(r, op, c)
               \/ Deactivate(r) \/ SetActive(r) \/ Flush(r) \/ Commit(r)
        PROVE  CacheTypes'
    <2>1. UNCHANGED <<revision, app, res, executor, used>>
      BY <1>5 DEF Read, Deactivate, SetActive, Flush, Commit
    <2> QED
      BY <1>1, <1>2, <2>1 DEF CacheTypes
  <1>6. ASSUME NEW r \in Requests, Bump(r) \/ Invalidate(r)
        PROVE  CacheTypes'
    <2>1. /\ revision' \in {revision, revision + 1} /\ app' \in {app, [worker |-> NoWorker, rev |-> -1]}
          /\ UNCHANGED <<res, executor, used>>
      BY <1>6 DEF Bump, Invalidate
    <2>2. revision' \in Nat /\ revision' >= revision
      BY <1>1, <2>1 DEF CacheTypes
    <2>3. app' \in [worker : Workers, rev : Int] /\ app'.rev <= revision'
      BY <1>1, <1>3, <2>1, <2>2 DEF CacheTypes
    <2>4. \A w \in Resolvers : res[w].rev \in Nat /\ res[w].rev <= revision
      BY <1>1 DEF CacheTypes, Resolution
    <2>5. \A w \in Resolvers : res'[w].rev <= revision'
      BY <1>1, <2>1, <2>2, <2>4 DEF CacheTypes
    <2> QED
      BY <1>1, <1>2, <2>1, <2>2, <2>3, <2>5 DEF CacheTypes
  <1>7. ASSUME NEW w \in Resolvers, Check(w) \/ Hit(w) \/ Build(w) \/ Store(w)
        PROVE  CacheTypes'
    <2>1. PICK v \in Resolution :
            /\ res' = [res EXCEPT ![w] = v]
            /\ \/ Looks(w, v) \/ IsDone(w, v) \/ Builds(w, v)
               \/ PutsWorker(w, v) \/ PutsRevision(w, v)
      BY <1>1, <1>7, ResolutionStep DEF IInv
    <2>2. UNCHANGED <<revision, executor, used>>
      BY <1>1, <1>7, ResolutionStep DEF IInv
    <2>3. res' \in [Resolvers -> Resolution] /\ res'[w] = v /\ \A u \in Resolvers \ {w} : res'[u] = res[u]
      BY <1>1, <2>1, WriteResolution
    <2>4. res[w] \in Resolution /\ res[w].rev <= revision /\ revision \in Nat
      BY <1>1 DEF CacheTypes
    <2>5. v.rev <= revision
      BY <2>1, <2>4 DEF Looks, IsDone, Builds, PutsWorker, PutsRevision, NoResolution
    <2>6. \A u \in Resolvers : res'[u].rev <= revision
      BY <1>1, <2>3, <2>5 DEF CacheTypes
    <2>7. res[w].worker \in Workers /\ res[w].rev \in Nat
      BY <2>4 DEF Resolution
    <2>8. app' \in {app, [app EXCEPT !.worker = res[w].worker], [app EXCEPT !.rev = res[w].rev]}
      BY <2>1 DEF Looks, IsDone, Builds, PutsWorker, PutsRevision
    <2>9. app' \in [worker : Workers, rev : Int] /\ app'.rev <= revision
      BY <1>1, <2>4, <2>7, <2>8 DEF CacheTypes
    <2> QED
      BY <1>1, <1>2, <2>2, <2>3, <2>6, <2>9 DEF CacheTypes
  <1>8. CASE TranslatePacket
    <2>1. UNCHANGED <<revision, app, res, executor>> /\ used' \in {Worker(Echo, 0), executor}
      BY <1>8 DEF TranslatePacket
    <2> QED
      BY <1>1, <1>2, <1>3, <2>1 DEF CacheTypes
  <1>9. CASE Restart
    <2>1. /\ revision' = 0 /\ app' = [worker |-> NoWorker, rev |-> -1] /\ executor' = NoWorker
          /\ UNCHANGED used /\ res' = [w \in Resolvers |-> NoResolution]
      BY <1>9 DEF Restart
    <2>2. res' \in [Resolvers -> Resolution] /\ \A w \in Resolvers : res'[w].rev <= revision'
      BY <2>1, NoWorkerYet DEF NoResolution
    <2>3. app' \in [worker : Workers, rev : Int] /\ app'.rev <= revision'
      BY <1>3, <2>1
    <2> QED
      BY <1>1, <1>2, <1>3, <2>1, <2>2, <2>3 DEF CacheTypes
  <1>10. CASE UNCHANGED vars
    BY <1>1, <1>10 DEF CacheTypes, vars
  <1> QED
    BY <1>1, <1>5, <1>6, <1>7, <1>8, <1>9, <1>10 DEF Next, Step

\* The rows, the requests, the cache and the resolutions keep their types, and
\* the cache is never of a revision the counter has not reached.
THEOREM ProvidersTypeCorrect == Spec => []TypeOK
  <1>1. IInv /\ CacheTypes => TypeOK
    BY DEF IInv, CacheTypes, TypeOK, Resolution
  <1> QED
    BY InitIInv, StepIInv, InitCache, StepCacheTypes, <1>1, PTL DEF Spec

\* As long as changes come one at a time and none is uncommitted during a
\* resolution, the cached worker a translation request would use is the one of
\* the active credential as last edited (_bump_revision, _invalidate_app_worker
\* and _resolve_translation_worker_state).
THEOREM CacheIsFresh == Spec => []FreshUnlessOverlapped
  <1>1. CacheInv => FreshUnlessOverlapped
    BY DEF CacheInv, Fresh, FreshUnlessOverlapped, Announced
  <1> QED
    BY InitIInv, StepIInv, InitCache, StepCacheTypes, StepCache, <1>1, PTL DEF Spec
=============================================================================
