---------------------------- MODULE RunApi_proofs ----------------------------
(***************************************************************************)
(* What the API does with the runs of a document and what it shows of one, *)
(* for any number of runs, sessions, packets and writers.                  *)
(*                                                                         *)
(* RunControl implements the slot of the document (DocumentSlot).  What a  *)
(* session writes may rest on a row that has changed since it was loaded;  *)
(* the index is what keeps two runs from being active, and the rest of the *)
(* refinement follows from that and from two facts about runs that do not  *)
(* exist yet: none of them has a predecessor, and no session is under way  *)
(* for one.  After that, a retry takes the slot from a run only when an    *)
(* item of it has failed.                                                  *)
(*                                                                         *)
(* EventStream: what the client receives rises, and what it misses was     *)
(* committed out of order.                                                 *)
(***************************************************************************)
EXTENDS RunControl, EventStream, FiniteSetTheorems, TLAPS

-----------------------------------------------------------------------------
(* RunControl: what the rows and the sessions hold *)

NoPredecessor == \A r \in Runs : status[r] = "absent" => parent[r] = NoRun

AskedOfExisting ==
    \A s \in Sessions :
        request[s].op # "none" => request[s].run \in Runs /\ status[request[s].run] # "absent"

Ops == {"none", "pause", "resume", "drain", "cancel", "succeed", "fail", "retry"}

Shape ==
    /\ status \in [Runs -> RunStatus]
    /\ parent \in [Runs -> Runs \cup {NoRun}]
    /\ request \in [Sessions -> [op : Ops, run : Runs \cup {NoRun}, stale : BOOLEAN]]

IInv == Shape /\ OneActiveRun /\ NoPredecessor /\ AskedOfExisting

\* The rows, as the slot sees them.
rowVars == <<status, parent>>

LEMMA InitIInv == Init => IInv
  <1>1. ASSUME Init PROVE Shape
    BY <1>1 DEF Init, Shape, RunStatus, Idle, Ops
  <1>2. ASSUME Init PROVE OneActiveRun /\ NoPredecessor /\ AskedOfExisting
    BY <1>2 DEF Init, OneActiveRun, Active, Live, NoPredecessor, AskedOfExisting, Idle
  <1> QED
    BY <1>1, <1>2 DEF IInv

-----------------------------------------------------------------------------
(* The holder of the slot *)

\* The run that is active holds the slot, and nobody does if there is none.
LEMMA HolderIs ==
    ASSUME OneActiveRun
    PROVE  /\ \A r \in Runs : status[r] \in Active => Holder = r
           /\ (\A r \in Runs : status[r] \notin Active) => Holder = NoRun
           /\ Holder \in Runs => status[Holder] \in Active
  <1>1. ASSUME NEW r \in Runs, status[r] \in Active PROVE Holder = r
    BY <1>1 DEF OneActiveRun, Holder
  <1>2. (\A r \in Runs : status[r] \notin Active) => Holder = NoRun
    BY DEF Holder
  <1>3. Holder \in Runs => status[Holder] \in Active
    BY <1>1, <1>2, ControlAssumption
  <1> QED
    BY <1>1, <1>2, <1>3

\* The same of the next state.
LEMMA HolderWillBe ==
    ASSUME OneActiveRun'
    PROVE  /\ \A r \in Runs : status'[r] \in Active => Holder' = r
           /\ (\A r \in Runs : status'[r] \notin Active) => Holder' = NoRun
           /\ Holder' \in Runs => status'[Holder'] \in Active
  <1>1. ASSUME NEW r \in Runs, status'[r] \in Active PROVE Holder' = r
    BY <1>1 DEF OneActiveRun, Holder
  <1>2. (\A r \in Runs : status'[r] \notin Active) => Holder' = NoRun
    BY DEF Holder
  <1>3. Holder' \in Runs => status'[Holder'] \in Active
    BY <1>1, <1>2, ControlAssumption
  <1> QED
    BY <1>1, <1>2, <1>3

\* A step that leaves the rows alone leaves the slot alone.
LEMMA RowsStutter == UNCHANGED rowVars => UNCHANGED <<Holder, parent>>
  BY DEF rowVars, Holder

-----------------------------------------------------------------------------
(* What a session writes *)

\* A commit either writes what it was given, of which one run at most is active,
\* or nothing; the session is over in both cases.
LEMMA CommitWrites ==
    ASSUME NEW s \in Sessions, NEW st \in [Runs -> RunStatus],
           NEW par \in [Runs -> Runs \cup {NoRun}], IInv, Commit(s, st, par)
    PROVE  /\ \/ status' = st /\ parent' = par /\ \A q, r \in Runs : st[q] \in Active /\ st[r] \in Active => q = r
              \/ UNCHANGED rowVars
           /\ request' = [request EXCEPT ![s] = Idle]
           /\ Shape' /\ OneActiveRun'
  <1>1. \/ status' = st /\ parent' = par /\ \A q, r \in Runs : st[q] \in Active /\ st[r] \in Active => q = r
        \/ UNCHANGED rowVars
    BY DEF Commit, Indexed, rowVars
  <1>2. request' = [request EXCEPT ![s] = Idle]
    BY DEF Commit
  <1>3. Shape'
    BY <1>1, <1>2 DEF IInv, Shape, rowVars, Idle, Ops
  <1>4. OneActiveRun'
    BY <1>1 DEF IInv, OneActiveRun, rowVars
  <1> QED
    BY <1>1, <1>2, <1>3, <1>4

\* What is written makes no run absent, and gives a predecessor only to runs
\* that exist from then on.
LEMMA CommitIInv ==
    ASSUME NEW s \in Sessions, NEW st \in [Runs -> RunStatus],
           NEW par \in [Runs -> Runs \cup {NoRun}], IInv, Commit(s, st, par),
           \A r \in Runs : st[r] = "absent" => status[r] = "absent" /\ par[r] = parent[r]
    PROVE  IInv'
  <1>1. NoPredecessor'
    BY CommitWrites DEF IInv, NoPredecessor, rowVars
  <1>2. AskedOfExisting'
    BY CommitWrites DEF IInv, Shape, AskedOfExisting, Idle, rowVars
  <1> QED
    BY CommitWrites, <1>1, <1>2 DEF IInv

-----------------------------------------------------------------------------
(* The steps *)

SlotStep == [Slot!Next]_(Slot!vars)

\* Loading a row changes no row.
LEMMA LoadStep ==
    ASSUME NEW s \in Sessions, NEW r \in Runs, NEW op \in Ops \ {"none"}, IInv,
           status[r] # "absent", Load(s, op, r)
    PROVE  IInv' /\ SlotStep
  <1>1. UNCHANGED rowVars
    BY DEF Load, rowVars
  <1>2. Shape'
    BY DEF Load, IInv, Shape, Idle, Ops
  <1>3. OneActiveRun' /\ NoPredecessor'
    BY <1>1 DEF IInv, OneActiveRun, NoPredecessor, rowVars
  <1>4. AskedOfExisting'
    BY <1>1 DEF Load, IInv, Shape, AskedOfExisting, rowVars
  <1> QED
    BY <1>1, <1>2, <1>3, <1>4, RowsStutter DEF IInv, SlotStep, Slot!vars

\* A transition of one run: it takes the free slot, gives it up, or neither.
LEMMA ServeStep ==
    ASSUME NEW s \in Sessions, IInv, Serve(s)
    PROVE  IInv' /\ SlotStep
  <1> DEFINE x  == request[s].run
             to == NextStatus[request[s].op]
             st == [status EXCEPT ![x] = to]
  <1>1. request[s].op \in {"pause", "resume", "drain", "cancel", "succeed", "fail"}
    BY DEF Serve, NextStatus
  <1>2. x \in Runs /\ status[x] # "absent"
    BY <1>1 DEF IInv, AskedOfExisting
  <1>3. to \in RunStatus \ {"absent"}
    BY <1>1 DEF NextStatus, RunStatus, Active, Live, Terminal
  <1>4. st \in [Runs -> RunStatus]
    BY <1>3 DEF IInv, Shape
  <1>5. Commit(s, st, parent)
    BY DEF Serve
  <1>6. parent \in [Runs -> Runs \cup {NoRun}]
    BY DEF IInv, Shape
  <1>7. \A r \in Runs : st[r] = "absent" => status[r] = "absent"
    BY <1>2, <1>3 DEF IInv, Shape
  <1>8. IInv'
    BY <1>4, <1>5, <1>6, <1>7, CommitIInv
  <1>9. \/ status' = st /\ parent' = parent
        \/ UNCHANGED rowVars
    BY <1>4, <1>5, <1>6, CommitWrites
  <1>10. CASE UNCHANGED rowVars
    BY <1>8, <1>10, RowsStutter DEF SlotStep, Slot!vars
  <1>11. CASE status' = st /\ parent' = parent
    <2>1. \A r \in Runs \ {x} : status'[r] = status[r]
      BY <1>11 DEF IInv, Shape
    <2>2. CASE status'[x] \in Active
      <3>1. Holder' = x
        BY <1>2, <1>8, <2>2, HolderWillBe DEF IInv
      <3>2. Holder \in {x, NoRun}
        BY <1>2, <1>8, <2>1, <2>2, HolderIs DEF IInv, OneActiveRun
      <3>3. CASE Holder = x
        BY <1>8, <1>11, <3>1, <3>3 DEF SlotStep, Slot!vars
      <3>4. CASE Holder = NoRun
        BY <1>2, <1>8, <1>11, <3>1, <3>4 DEF SlotStep, Slot!Next, Slot!Take
      <3> QED
        BY <3>2, <3>3, <3>4
    <2>3. CASE status'[x] \notin Active
      <3>1. CASE status[x] \in Active
        <4>1. Holder = x
          BY <1>2, <3>1, HolderIs DEF IInv
        <4>2. \A r \in Runs : status'[r] \notin Active
          BY <1>2, <2>1, <2>3, <3>1 DEF IInv, OneActiveRun
        <4>3. Holder' = NoRun
          BY <1>8, <4>2, HolderWillBe DEF IInv
        <4> QED
          BY <1>2, <1>8, <1>11, <4>1, <4>3, ControlAssumption
          DEF SlotStep, Slot!Next, Slot!GiveUp
      <3>2. CASE status[x] \notin Active
        <4>1. \A r \in Runs : status'[r] \in Active <=> status[r] \in Active
          BY <2>1, <2>3, <3>2
        <4>2. Holder' = Holder
          BY <1>8, <4>1, HolderIs, HolderWillBe DEF IInv
        <4> QED
          BY <1>8, <1>11, <4>2 DEF SlotStep, Slot!vars
      <3> QED
        BY <3>1, <3>2
    <2> QED
      BY <2>2, <2>3
  <1> QED
    BY <1>9, <1>10, <1>11

\* A retry takes the free slot, or takes it over from the stale run it retries.
LEMMA ServeRetryStep ==
    ASSUME NEW s \in Sessions, NEW r \in Runs, IInv, ServeRetry(s, r)
    PROVE  IInv' /\ SlotStep
  <1> DEFINE x   == request[s].run
             st  == [RetryPrevious(s) EXCEPT ![r] = "running"]
             par == [parent EXCEPT ![r] = x]
  <1>1. x \in Runs /\ status[x] # "absent" /\ status[r] = "absent" /\ x # r
    BY DEF ServeRetry, IInv, AskedOfExisting
  <1>2. RetryPrevious(s) \in [Runs -> RunStatus]
    BY <1>1 DEF RetryPrevious, IInv, Shape, RunStatus, Terminal
  <1>3. st \in [Runs -> RunStatus] /\ st[r] = "running"
    BY <1>2 DEF RunStatus, Active, Live
  <1>4. \A q \in Runs \ {r, x} : st[q] = status[q]
    BY <1>1, <1>2 DEF RetryPrevious, IInv, Shape
  <1>5. st[x] \in {status[x], "failed"}
    BY <1>1, <1>2 DEF RetryPrevious, IInv, Shape
  <1>6. par \in [Runs -> Runs \cup {NoRun}]
    BY <1>1 DEF IInv, Shape
  <1>7. Commit(s, st, par)
    BY DEF ServeRetry, ResumeFrom
  <1>8. \A q \in Runs : st[q] = "absent" => status[q] = "absent" /\ par[q] = parent[q]
    BY <1>1, <1>3, <1>4, <1>5 DEF IInv, Shape
  <1>9. IInv'
    BY <1>3, <1>6, <1>7, <1>8, CommitIInv
  <1>10. \/ status' = st /\ parent' = par
         \/ UNCHANGED rowVars
    BY <1>3, <1>6, <1>7, CommitWrites
  <1>11. CASE UNCHANGED rowVars
    BY <1>9, <1>11, RowsStutter DEF SlotStep, Slot!vars
  <1>12. CASE status' = st /\ parent' = par
    <2>1. Holder' = r
      BY <1>3, <1>9, <1>12, HolderWillBe DEF IInv, Active, Live
    <2>2. Slot!Enter(r, x)
      BY <1>1, <1>12 DEF Slot!Enter, IInv, NoPredecessor
    <2>3. Holder \in {x, NoRun}
      <3>1. \A q \in Runs \ {r, x} : status[q] \notin Active
        BY <1>3, <1>4, <1>9, <1>12 DEF IInv, OneActiveRun, Active, Live
      <3>2. status[r] \notin Active
        BY <1>1 DEF Active, Live
      <3> QED
        BY <1>1, <3>1, <3>2, HolderIs DEF IInv
    <2>4. CASE Holder = x
      BY <1>1, <1>9, <2>1, <2>2, <2>4 DEF SlotStep, Slot!Next, Slot!HandOver
    <2>5. CASE Holder = NoRun
      BY <1>1, <1>9, <2>1, <2>2, <2>5 DEF SlotStep, Slot!Next, Slot!Take
    <2> QED
      BY <2>3, <2>4, <2>5
  <1> QED
    BY <1>10, <1>11, <1>12

\* A new run takes the free slot; it may name a run it resumes from.
LEMMA CreateStep ==
    ASSUME NEW s \in Sessions, NEW r \in Runs, NEW older \in Runs \cup {NoRun}, IInv,
           Create(s, r, older)
    PROVE  IInv' /\ SlotStep
  <1> DEFINE st  == [status EXCEPT ![r] = "queued"]
             par == [parent EXCEPT ![r] = older]
  <1>1. status[r] = "absent" /\ older # r /\ parent[r] = NoRun
    BY ControlAssumption DEF Create, Existing, IInv, NoPredecessor
  <1>2. st \in [Runs -> RunStatus] /\ st[r] = "queued" /\ \A q \in Runs \ {r} : st[q] = status[q]
    BY DEF IInv, Shape, RunStatus, Active
  <1>3. par \in [Runs -> Runs \cup {NoRun}]
    BY DEF IInv, Shape
  <1>4. Commit(s, st, par)
    BY DEF Create
  <1>5. \A q \in Runs : st[q] = "absent" => status[q] = "absent" /\ par[q] = parent[q]
    BY <1>2 DEF IInv, Shape
  <1> HIDE DEF st, par
  <1>6. IInv'
    BY <1>2, <1>3, <1>4, <1>5, CommitIInv
  <1>7. \/ status' = st /\ parent' = par
        \/ UNCHANGED rowVars
    BY <1>2, <1>3, <1>4, CommitWrites
  <1>8. CASE UNCHANGED rowVars
    BY <1>6, <1>8, RowsStutter DEF SlotStep, Slot!vars
  <1>9. CASE status' = st /\ parent' = par
    <2>1. Holder' = r
      BY <1>2, <1>6, <1>9, HolderWillBe DEF IInv, Active
    <2>2. Holder = NoRun
      <3>1. \A q \in Runs : status[q] \notin Active
        BY <1>1, <1>2, <1>6, <1>9 DEF IInv, OneActiveRun, Active, Live
      <3> QED
        BY <3>1, HolderIs DEF IInv
    <2>3. CASE older = NoRun
      <3>1. parent' = parent
        BY <1>1, <1>9, <2>3 DEF IInv, Shape, par
      <3> QED
        BY <1>6, <2>1, <2>2, <3>1 DEF SlotStep, Slot!Next, Slot!Take
    <2>4. CASE older \in Runs
      <3>1. Slot!Enter(r, older)
        BY <1>1, <1>9 DEF Slot!Enter, par
      <3> QED
        BY <1>6, <2>1, <2>2, <2>4, <3>1 DEF SlotStep, Slot!Next, Slot!Take
    <2> QED
      BY <2>3, <2>4
  <1> QED
    BY <1>7, <1>8, <1>9

\* Giving up a session, and the work of the threads, change no row.
LEMMA OtherStep ==
    ASSUME IInv, UNCHANGED rowVars,
           UNCHANGED request \/ \E s \in Sessions : request' = [request EXCEPT ![s] = Idle]
    PROVE  IInv' /\ SlotStep
  <1>1. Shape'
    <2>1. Idle \in [op : Ops, run : Runs \cup {NoRun}, stale : BOOLEAN]
      BY DEF Idle, Ops
    <2>2. request' \in [Sessions -> [op : Ops, run : Runs \cup {NoRun}, stale : BOOLEAN]]
      <3>1. CASE UNCHANGED request
        BY <3>1 DEF IInv, Shape
      <3>2. CASE \E s \in Sessions : request' = [request EXCEPT ![s] = Idle]
        BY <2>1, <3>2 DEF IInv, Shape
      <3> QED
        BY <3>1, <3>2
    <2>3. UNCHANGED status /\ UNCHANGED parent
      BY DEF rowVars
    <2> QED
      BY <2>2, <2>3 DEF IInv, Shape
  <1>2. OneActiveRun' /\ NoPredecessor'
    BY DEF IInv, OneActiveRun, NoPredecessor, rowVars
  <1>3. AskedOfExisting'
    BY DEF IInv, Shape, AskedOfExisting, Idle, rowVars
  <1> QED
    BY <1>1, <1>2, <1>3, RowsStutter DEF IInv, SlotStep, Slot!vars

\* Every step keeps the inductive invariant and is a step of the slot, or none.
LEMMA StepIInv == IInv /\ [Next]_vars => IInv' /\ SlotStep
  <1>1. SUFFICES ASSUME IInv, [Next]_vars PROVE IInv' /\ SlotStep
    OBVIOUS
  <1>2. ASSUME NEW s \in Sessions, NEW r \in Runs, NEW op \in {"pause", "resume", "drain", "cancel"},
               Ask(s, op, r)
        PROVE  IInv' /\ SlotStep
    <2>1. status[r] # "absent" /\ op \in Ops \ {"none"}
      BY <1>2 DEF Ask, AllowedFrom, Active, Live, Ops
    <2> QED
      BY <1>1, <1>2, <2>1, LoadStep DEF Ask
  <1>3. ASSUME NEW s \in Sessions, NEW r \in Runs, NEW op \in {"succeed", "fail"}, Reconcile(s, op, r)
        PROVE  IInv' /\ SlotStep
    <2>1. status[r] # "absent" /\ op \in Ops \ {"none"}
      BY <1>3 DEF Reconcile, AllowedFrom, Active, Live, Ops
    <2> QED
      BY <1>1, <1>3, <2>1, LoadStep DEF Reconcile
  <1>4. ASSUME NEW s \in Sessions, NEW r \in Runs, AskRetry(s, r)
        PROVE  IInv' /\ SlotStep
    <2>1. status[r] # "absent" /\ "retry" \in Ops \ {"none"}
      BY <1>4 DEF AskRetry, Existing, Ops
    <2> QED
      BY <1>1, <1>4, <2>1, LoadStep DEF AskRetry
  <1>5. ASSUME NEW s \in Sessions, Abandon(s)
        PROVE  IInv' /\ SlotStep
    BY <1>1, <1>5, OtherStep DEF Abandon, rowVars
  <1>6. ASSUME NEW s \in Sessions, Operate(s)
        PROVE  IInv' /\ SlotStep
    BY <1>1, <1>2, <1>3, <1>4, <1>5, <1>6, ServeStep, ServeRetryStep, CreateStep DEF Operate
  <1>7. ASSUME NEW r \in Runs, NEW p \in Packets, Claim(r, p) \/ Translate(r, p) \/ Fail(r, p)
        PROVE  IInv' /\ SlotStep
    BY <1>1, <1>7, OtherStep DEF Claim, Translate, Fail, rowVars
  <1>8. CASE UNCHANGED vars
    BY <1>1, <1>8, OtherStep DEF vars, rowVars
  <1> QED
    BY <1>1, <1>6, <1>7, <1>8 DEF Next

\* However creations, resumes and retries race on what they loaded before, at
\* most one run of the document is active.
THEOREM OneRunAtATime == Spec => []OneActiveRun
  <1>1. IInv => OneActiveRun
    BY DEF IInv
  <1> QED
    BY InitIInv, StepIInv, <1>1, PTL DEF Spec

\* Run control implements the slot: it passes straight from one run to another
\* only in a retry, to the run that names the first as the one it retries.
THEOREM SlotRefinement == Spec => ImplementsSlot
  <1>1. Init => Slot!Init
    BY HolderIs, InitIInv DEF Init, Slot!Init, IInv, Active, Live
  <1>2. IInv /\ [Next]_vars => [Slot!Next]_(Slot!vars)
    BY StepIInv DEF SlotStep
  <1> QED
    BY InitIInv, StepIInv, <1>1, <1>2, PTL DEF Spec, ImplementsSlot, Slot!Spec

-----------------------------------------------------------------------------
(* What a retry displaces.  A session that found its run stale still knows a *)
(* failed item of it when it commits, whatever was done to the run since:    *)
(* failures are never taken back.                                            *)

WorkShape ==
    /\ flight \in [Runs -> SUBSET Packets]
    /\ failed \in [Runs -> SUBSET Packets]
    /\ translated \subseteq Packets

StaleHasFailed ==
    \A s \in Sessions :
        request[s].stale => request[s].run \in Runs /\ failed[request[s].run] # {}

Displaced(q) == status[q] \in Active /\ status'[q] \notin Active
Takes(r) == status[r] \notin Active /\ status'[r] \in Active
DisplacesFailed == \A q, r \in Runs : Displaced(q) /\ Takes(r) => failed[q] # {}

\* A session that loads a run finds it stale only with an item failed for good.
LEMMA LoadKnowsFailed ==
    ASSUME IInv, WorkShape, StaleHasFailed, NEW s \in Sessions, NEW r \in Runs, NEW op \in Ops,
           Load(s, op, r), op = "retry" => Retryable(r)
    PROVE  WorkShape' /\ StaleHasFailed' /\ DisplacesFailed
  <1>1. UNCHANGED <<status, flight, failed, translated>>
    BY DEF Load, workVars
  <1>2. request'[s].stale => request'[s].run \in Runs /\ failed[request'[s].run] # {}
    BY DEF Load, Retryable, Active, Live, IInv, Shape
  <1>3. \A t \in Sessions \ {s} : request'[t] = request[t]
    BY DEF Load, IInv, Shape
  <1> QED
    BY <1>1, <1>2, <1>3 DEF WorkShape, StaleHasFailed, DisplacesFailed, Displaced, Takes

\* A session that ends, whatever it wrote.
LEMMA EndKnowsFailed ==
    ASSUME IInv, WorkShape, StaleHasFailed, NEW s \in Sessions,
           request' = [request EXCEPT ![s] = Idle], UNCHANGED workVars
    PROVE  WorkShape' /\ StaleHasFailed'
  <1>1. request'[s].stale = FALSE /\ \A t \in Sessions \ {s} : request'[t] = request[t]
    BY DEF Idle, IInv, Shape
  <1> QED
    BY <1>1 DEF WorkShape, StaleHasFailed, workVars

\* A commit that moves at most one run displaces none.
LEMMA OneRunMoves ==
    ASSUME IInv, NEW s \in Sessions, NEW r \in Runs, NEW new \in RunStatus, NEW par,
           Commit(s, [status EXCEPT ![r] = new], par)
    PROVE  DisplacesFailed
  <1>1. \A q \in Runs \ {r} : status'[q] = status[q]
    BY DEF Commit, IInv, Shape
  <1> QED
    BY <1>1 DEF DisplacesFailed, Displaced, Takes

\* A retry moves the run it found stale and the one it makes.
LEMMA RetryDisplacesFailed ==
    ASSUME IInv, StaleHasFailed, NEW s \in Sessions, NEW r \in Runs, ServeRetry(s, r)
    PROVE  DisplacesFailed
  <1>1. request[s].run \in Runs /\ status \in [Runs -> RunStatus]
    BY DEF ServeRetry, IInv, Shape, AskedOfExisting
  <1>2. CASE request[s].stale
    <2>1. \A q \in Runs \ {r, request[s].run} : status'[q] = status[q]
      BY <1>1, <1>2 DEF ServeRetry, RetryPrevious, Commit
    <2>2. failed[request[s].run] # {}
      BY <1>2 DEF StaleHasFailed
    <2>3. status[r] \notin Active
      BY DEF ServeRetry, Active, Live
    <2> QED
      BY <2>1, <2>2, <2>3 DEF DisplacesFailed, Displaced, Takes
  <1>3. CASE ~request[s].stale
    <2>1. \A q \in Runs \ {r} : status'[q] = status[q]
      BY <1>1, <1>3 DEF ServeRetry, RetryPrevious, Commit
    <2> QED
      BY <2>1 DEF DisplacesFailed, Displaced, Takes
  <1> QED
    BY <1>2, <1>3

LEMMA StepKnowsFailed ==
    IInv /\ WorkShape /\ StaleHasFailed /\ [Next]_vars => WorkShape' /\ StaleHasFailed' /\ DisplacesFailed
  <1>1. SUFFICES ASSUME IInv, WorkShape, StaleHasFailed, [Next]_vars
                 PROVE  WorkShape' /\ StaleHasFailed' /\ DisplacesFailed
    OBVIOUS
  <1> DEFINE Goal == WorkShape' /\ StaleHasFailed' /\ DisplacesFailed
  <1>2. ASSUME NEW s \in Sessions, NEW r \in Runs, NEW op \in Ops, Ask(s, op, r) \/ Reconcile(s, op, r)
        PROVE  Goal
    BY <1>1, <1>2, LoadKnowsFailed DEF Ask, Reconcile
  <1>3. ASSUME NEW s \in Sessions, NEW r \in Runs, AskRetry(s, r)
        PROVE  Goal
    BY <1>1, <1>3, LoadKnowsFailed DEF AskRetry, Ops
  <1>4. ASSUME NEW s \in Sessions, NEW r \in Runs, ServeRetry(s, r)
        PROVE  Goal
    BY <1>1, <1>4, RetryDisplacesFailed, EndKnowsFailed DEF ServeRetry, Commit
  <1>5. ASSUME NEW s \in Sessions, NEW r \in Runs, NEW older, Create(s, r, older)
        PROVE  Goal
    <2>1. DisplacesFailed
      BY <1>1, <1>5, OneRunMoves DEF Create, RunStatus, Active
    <2> QED
      BY <1>1, <1>5, <2>1, EndKnowsFailed DEF Create, Commit
  <1>6. ASSUME NEW s \in Sessions, Serve(s)
        PROVE  Goal
    <2>1. request[s].run \in Runs /\ NextStatus[request[s].op] \in RunStatus
      BY <1>1, <1>6 DEF Serve, NextStatus, RunStatus, Active, Live, Terminal, IInv, Shape, AskedOfExisting
    <2>2. DisplacesFailed
      BY <1>1, <1>6, <2>1, OneRunMoves DEF Serve
    <2> QED
      BY <1>1, <1>6, <2>2, EndKnowsFailed DEF Serve, Commit
  <1>7. ASSUME NEW s \in Sessions, Abandon(s)
        PROVE  Goal
    <2>1. DisplacesFailed
      BY <1>7 DEF Abandon, DisplacesFailed, Displaced, Takes
    <2> QED
      BY <1>1, <1>7, <2>1, EndKnowsFailed DEF Abandon
  <1>8. ASSUME NEW r \in Runs, NEW p \in Packets, Claim(r, p) \/ Translate(r, p) \/ Fail(r, p)
        PROVE  Goal
    <2>1. UNCHANGED <<status, request>>
      BY <1>8 DEF Claim, Translate, Fail
    <2>2. WorkShape'
      BY <1>1, <1>8 DEF Claim, Translate, Fail, WorkShape
    <2>3. \A q \in Runs : failed[q] # {} => failed'[q] # {}
      BY <1>1, <1>8 DEF Claim, Translate, Fail, WorkShape
    <2> QED
      BY <1>1, <2>1, <2>2, <2>3 DEF StaleHasFailed, DisplacesFailed, Displaced, Takes
  <1>9. CASE UNCHANGED vars
    BY <1>1, <1>9 DEF vars, WorkShape, StaleHasFailed, DisplacesFailed, Displaced, Takes
  <1> QED
    BY <1>1, <1>2, <1>3, <1>4, <1>5, <1>6, <1>7, <1>8, <1>9 DEF Next, Operate, Ops

LEMMA InitKnowsFailed == Init => WorkShape /\ StaleHasFailed
  BY DEF Init, WorkShape, StaleHasFailed, Idle

\* The tables hold values of their types.
THEOREM RunsTypeCorrect == Spec => []TypeOK
  <1>1. IInv /\ WorkShape => TypeOK
    BY DEF IInv, Shape, WorkShape, TypeOK
  <1> QED
    BY InitIInv, StepIInv, InitKnowsFailed, StepKnowsFailed, <1>1, PTL DEF Spec

\* A retry displaces a run that is still active only when an item of it failed
\* for good, although the run may be paused, resumed and cancelled between the
\* moment retry_run finds it stale and its commit.
THEOREM RetryDisplacesOnlyFailed == Spec => DisplacedRunHasFailed
  <1>1. DisplacesFailed <=> \A q, r \in Runs :
            /\ status[q] \in Active /\ status'[q] \notin Active
            /\ status[r] \notin Active /\ status'[r] \in Active
            => failed[q] # {}
    BY DEF DisplacesFailed, Displaced, Takes
  <1> QED
    BY InitIInv, StepIInv, InitKnowsFailed, StepKnowsFailed, <1>1, PTL DEF Spec, DisplacedRunHasFailed

-----------------------------------------------------------------------------
(* EventStream: types *)

Id == Nat \ {0}

Generator ==
    [at : {"closed", "listening", "tailing"}, cursor : Nat, notes : SUBSET Id, rows : SUBSET Id]

StreamTypes ==
    /\ nextId \in Id /\ open \in [Writers -> Seq(Id)]
    /\ log \in Seq(Id) /\ wire \in Seq(Id) /\ got \in Seq(Id)
    /\ stream \in Generator

Rises(events) == \A m, n \in DOMAIN events : m < n => events[m] < events[n]

\* What is sent follows what is received, and the cursor is the last of it; the
\* rows still to send come after, and all of them are committed.
Sending ==
    /\ Rises(got) /\ Rises(wire) /\ \A e \in Ids(got), f \in Ids(wire) : e < f
    /\ stream.at = "closed" => wire = <<>> /\ stream.rows = {}
    /\ stream.at # "closed" => /\ stream.cursor # 0 => stream.cursor \in Ids(got) \cup Ids(wire)
                               /\ \A e \in Ids(got) \cup Ids(wire) : e <= stream.cursor
    /\ \A e \in stream.rows : e > stream.cursor
    /\ Ids(got) \cup Ids(wire) \cup stream.rows \subseteq Ids(log)

\* An event that is committed after one of a higher id.
Late(m) == \E n \in 1..(m - 1) : log[n] > log[m]

\* What is passed was late, by the client, by the cursor and by the rows to send.
PassedLate ==
    \A m \in DOMAIN log :
        /\ log[m] < Seen /\ log[m] \notin Ids(got) => Late(m)
        /\ stream.at # "closed" /\ log[m] < stream.cursor /\ log[m] \notin Ids(got) \cup Ids(wire)
              => Late(m)
        /\ \A r \in stream.rows :
              stream.cursor < log[m] /\ log[m] < r /\ log[m] \notin stream.rows => Late(m)

StreamInv == StreamTypes /\ Sending /\ PassedLate

LEMMA IdsOf == \A events \in Seq(Id) : Ids(events) \subseteq Id /\ Ids(<<>>) = {}
  BY DEF Ids

\* What is seen is the newest received.
LEMMA SeenIs ==
    ASSUME got \in Seq(Id), Rises(got)
    PROVE  /\ Seen \in Nat /\ (Seen # 0 => Seen \in Ids(got))
           /\ \A e \in Ids(got) : e <= Seen
  <1>1. CASE got = <<>>
    BY <1>1 DEF Seen, Ids
  <1>2. CASE got # <<>>
    <2>1. Len(got) \in DOMAIN got /\ Seen = got[Len(got)]
      BY <1>2 DEF Seen
    <2>2. ASSUME NEW m \in DOMAIN got
          PROVE  got[m] <= Seen
      BY <2>1, <2>2 DEF Rises, Id
    <2>3. Seen \in Id
      BY <2>1
    <2> QED
      BY <2>1, <2>2, <2>3 DEF Ids, Id
  <1> QED
    BY <1>1, <1>2

LEMMA AppendIds ==
    ASSUME NEW events \in Seq(Id), NEW e \in Id
    PROVE  /\ Append(events, e) \in Seq(Id) /\ Ids(Append(events, e)) = Ids(events) \cup {e}
           /\ Rises(events) /\ (\A f \in Ids(events) : f < e) => Rises(Append(events, e))
  <1>1. /\ Append(events, e) \in Seq(Id) /\ Len(Append(events, e)) = Len(events) + 1
        /\ \A m \in 1..Len(events) : Append(events, e)[m] = events[m]
        /\ Append(events, e)[Len(events) + 1] = e
        /\ Len(events) \in Nat
    OBVIOUS
  <1>2. DOMAIN Append(events, e) = 1..(Len(events) + 1) /\ DOMAIN events = 1..Len(events)
    BY <1>1
  <1>3. DOMAIN Append(events, e) = DOMAIN events \cup {Len(events) + 1}
    BY <1>1, <1>2
  <1> DEFINE after == Append(events, e)
  <1> HIDE DEF after
  <1>4. Ids(after) = Ids(events) \cup {e}
    BY <1>1, <1>2, <1>3 DEF Ids, after
  <1>5. ASSUME Rises(events), \A f \in Ids(events) : f < e
        PROVE  Rises(after)
    <2>1. \A m \in DOMAIN events : events[m] < e
      BY <1>5 DEF Ids
    <2> QED
      BY <1>1, <1>2, <1>3, <1>5, <2>1 DEF Rises, after
  <1> QED
    BY <1>1, <1>4, <1>5 DEF after

LEMMA TailIds ==
    ASSUME NEW events \in Seq(Id), events # <<>>
    PROVE  /\ Head(events) \in Id /\ Tail(events) \in Seq(Id)
           /\ Ids(events) = {Head(events)} \cup Ids(Tail(events))
           /\ Rises(events) => /\ Rises(Tail(events))
                               /\ \A e \in Ids(Tail(events)) : Head(events) < e
  <1> DEFINE rest == Tail(events)
  <1>1. /\ Head(events) \in Id /\ Head(events) = events[1] /\ rest \in Seq(Id)
        /\ Len(events) \in Nat /\ Len(events) >= 1 /\ Len(rest) = Len(events) - 1
        /\ \A m \in 1..Len(rest) : rest[m] = events[m + 1]
    OBVIOUS
  <1> HIDE DEF rest
  <1>2. DOMAIN rest = 1..Len(rest) /\ DOMAIN events = 1..(Len(rest) + 1) /\ Len(rest) \in Nat
    BY <1>1
  <1>3. \A m \in DOMAIN events : m = 1 \/ (m - 1 \in DOMAIN rest /\ rest[m - 1] = events[m])
    BY <1>1, <1>2
  <1>4. \A m \in DOMAIN rest : m + 1 \in DOMAIN events /\ rest[m] = events[m + 1]
    BY <1>1, <1>2
  <1>5. Ids(events) = {Head(events)} \cup Ids(rest)
    <2>1. 1 \in DOMAIN events
      BY <1>2
    <2>2. \A m \in DOMAIN events : events[m] \in {Head(events)} \cup Ids(rest)
      BY <1>1, <1>3 DEF Ids
    <2>3. \A m \in DOMAIN rest : rest[m] \in Ids(events)
      BY <1>4 DEF Ids
    <2> QED
      BY <1>1, <2>1, <2>2, <2>3 DEF Ids
  <1>6. ASSUME Rises(events)
        PROVE  Rises(rest) /\ \A m \in DOMAIN rest : Head(events) < rest[m]
    <2>1. Rises(rest)
      BY <1>2, <1>4, <1>6 DEF Rises
    <2>2. ASSUME NEW m \in DOMAIN rest
          PROVE  Head(events) < rest[m]
      <3>1. 1 \in DOMAIN events /\ m + 1 \in DOMAIN events /\ 1 < m + 1
        BY <1>2, <1>4
      <3> QED
        BY <1>1, <1>4, <1>6, <3>1 DEF Rises
    <2> QED
      BY <2>1, <2>2
  <1> QED
    BY <1>1, <1>5, <1>6 DEF Ids, rest

\* What is fetched: of the events that are due, no newer one without an older.
LEMMA FetchedFirst ==
    ASSUME NEW after \in Nat, NEW upTo \in SUBSET Id, log \in Seq(Id), Limit \in Nat
    PROVE  /\ \A e \in Fetched(after, upTo) : e \in Ids(log) /\ e > after
           /\ \A e \in Fetched(after, upTo), f \in Ids(log) :
                 after < f /\ f < e => f \in Fetched(after, upTo)
  <1> DEFINE due == {e \in Ids(log) : after < e /\ \E n \in upTo : e <= n}
             Before(e) == {f \in due : f < e}
  <1>1. Fetched(after, upTo) = {e \in due : Cardinality(Before(e)) < Limit}
    BY DEF Fetched
  <1>2. ASSUME NEW e \in Fetched(after, upTo), NEW f \in Ids(log), after < f, f < e
        PROVE  f \in Fetched(after, upTo)
    <2>1. e \in due /\ e \in Id /\ f \in Id /\ Cardinality(Before(e)) < Limit
      BY <1>1, IdsOf
    <2>2. f \in due
      BY <1>2, <2>1 DEF Id
    <2>3. Before(f) \subseteq Before(e)
      BY <1>2, <2>1, IdsOf DEF Id
    <2>4. IsFiniteSet(Before(e))
      <3>1. Before(e) \subseteq Nat /\ \A g \in Before(e) : g <= e
        BY <2>1, IdsOf DEF Id
      <3> HIDE DEF Before, due
      <3> QED
        BY <2>1, <3>1, FS_BoundedSetOfNaturals DEF Id
    <2>5. Cardinality(Before(f)) <= Cardinality(Before(e)) /\ IsFiniteSet(Before(f))
      BY <2>3, <2>4, FS_Subset
    <2>6. Cardinality(Before(f)) \in Nat /\ Cardinality(Before(e)) \in Nat
      BY <2>4, <2>5, FS_CardinalityType
    <2>7. Cardinality(Before(f)) < Limit
      BY <2>1, <2>5, <2>6
    <2> QED
      BY <1>1, <2>2, <2>7
  <1>3. \A e \in Fetched(after, upTo) : e \in Ids(log) /\ e > after
    BY <1>1, IdsOf DEF Id
  <1> QED
    BY <1>2, <1>3
-----------------------------------------------------------------------------
(* EventStream: the steps keep it *)

\* What the steps that neither commit nor send anything leave.
LEMMA WritersKeep ==
    ASSUME StreamInv, NEW w \in Writers, Emit(w) \/ FailCall(w)
    PROVE  StreamInv'
  <1>1. nextId' \in Id /\ open' \in [Writers -> Seq(Id)]
    <2>1. nextId \in Id /\ open \in [Writers -> Seq(Id)] /\ nextId + 1 \in Id
      BY DEF StreamInv, StreamTypes, Id
    <2>2. Append(open[w], nextId) \in Seq(Id) /\ <<>> \in Seq(Id)
      BY <2>1
    <2> QED
      BY <2>1, <2>2 DEF Emit, FailCall
  <1>2. UNCHANGED <<log, stream, wire, got>>
    BY DEF Emit, FailCall
  <1> QED
    BY <1>1, <1>2 DEF StreamInv, StreamTypes, Sending, PassedLate, Late, Seen

\* What is committed has a higher id than what is passed, or is late.
LEMMA CommitKeeps ==
    ASSUME StreamInv, NEW w \in Writers, CommitEvents(w)
    PROVE  StreamInv'
  <1>1. /\ log' = log \o open[w] /\ open' = [open EXCEPT ![w] = <<>>]
        /\ stream' = Notified(Ids(open[w])) /\ UNCHANGED <<nextId, wire, got>>
    BY DEF CommitEvents
  <1>2. log \in Seq(Id) /\ open \in [Writers -> Seq(Id)] /\ open[w] \in Seq(Id)
    BY DEF StreamInv, StreamTypes
  <1>3. /\ log' \in Seq(Id) /\ Len(log) \in Nat /\ Len(log') >= Len(log) /\ Len(log') \in Nat
        /\ \A m \in 1..Len(log) : log'[m] = log[m]
    BY <1>1, <1>2
  <1>4. /\ DOMAIN log = 1..Len(log) /\ DOMAIN log' = 1..Len(log')
        /\ DOMAIN log \subseteq DOMAIN log'
    BY <1>2, <1>3
  <1>5. Ids(log) \subseteq Ids(log')
    BY <1>3, <1>4 DEF Ids
  <1>6. /\ stream' \in Generator /\ stream'.at = stream.at /\ stream'.cursor = stream.cursor
        /\ stream'.rows = stream.rows
    <2>1. Ids(open[w]) \subseteq Id /\ stream \in Generator
      BY <1>2, IdsOf DEF StreamInv, StreamTypes
    <2> QED
      BY <1>1, <2>1 DEF Notified, Generator
  <1>7. StreamTypes'
    BY <1>1, <1>2, <1>3, <1>6 DEF StreamInv, StreamTypes
  <1>8. Sending'
    BY <1>1, <1>5, <1>6 DEF StreamInv, Sending
  <1>9. ASSUME NEW m \in DOMAIN log', NEW e \in Ids(log), log'[m] < e, m > Len(log)
        PROVE  Late(m)'
    <2>1. PICK n \in DOMAIN log : log[n] = e
      BY DEF Ids
    <2>2. n \in 1..(m - 1) /\ log'[n] = e
      BY <1>3, <1>4, <1>9, <2>1
    <2> QED
      BY <1>2, <1>3, <1>9, <2>2, IdsOf DEF Late, Id
  <1>10. ASSUME NEW m \in DOMAIN log, Late(m)
         PROVE  Late(m)'
    <2>1. PICK n \in 1..(m - 1) : log[n] > log[m]
      BY <1>10 DEF Late
    <2>2. n \in 1..Len(log) /\ m \in 1..Len(log)
      BY <1>3, <1>4, <2>1
    <2> QED
      BY <1>3, <2>1, <2>2 DEF Late
  <1>11. PassedLate'
    <2>1. Seen' = Seen /\ (Seen # 0 => Seen \in Ids(got))
      BY <1>1, SeenIs DEF Seen, StreamInv, StreamTypes, Sending
    <2>2. ASSUME NEW m \in DOMAIN log', m > Len(log)
          PROVE  /\ log'[m] < Seen' /\ log'[m] \notin Ids(got') => Late(m)'
                 /\ stream'.at # "closed" /\ log'[m] < stream'.cursor
                       /\ log'[m] \notin Ids(got') \cup Ids(wire') => Late(m)'
                 /\ \A r \in stream'.rows : stream'.cursor < log'[m] /\ log'[m] < r
                                               /\ log'[m] \notin stream'.rows => Late(m)'
      <3>1. log'[m] \in Id
        BY <1>3, <1>4, <2>2
      <3>2. log'[m] < Seen' => Seen' \in Ids(log)
        BY <2>1, <3>1 DEF Id, StreamInv, Sending
      <3>3. stream'.at # "closed" /\ log'[m] < stream'.cursor => stream'.cursor \in Ids(log)
        BY <1>6, <3>1 DEF Id, StreamInv, Sending
      <3>4. \A r \in stream'.rows : r \in Ids(log)
        BY <1>6 DEF StreamInv, Sending
      <3> QED
        BY <1>9, <2>2, <3>2, <3>3, <3>4
    <2>3. ASSUME NEW m \in DOMAIN log', ~(m > Len(log))
          PROVE  /\ log'[m] < Seen' /\ log'[m] \notin Ids(got') => Late(m)'
                 /\ stream'.at # "closed" /\ log'[m] < stream'.cursor
                       /\ log'[m] \notin Ids(got') \cup Ids(wire') => Late(m)'
                 /\ \A r \in stream'.rows : stream'.cursor < log'[m] /\ log'[m] < r
                                               /\ log'[m] \notin stream'.rows => Late(m)'
      <3>1. m \in DOMAIN log /\ log'[m] = log[m]
        BY <1>3, <1>4, <2>3
      <3>2. Late(m) => Late(m)'
        BY <1>10, <3>1
      <3>3. /\ log[m] < Seen /\ log[m] \notin Ids(got) => Late(m)
            /\ stream.at # "closed" /\ log[m] < stream.cursor
                  /\ log[m] \notin Ids(got) \cup Ids(wire) => Late(m)
            /\ \A r \in stream.rows : stream.cursor < log[m] /\ log[m] < r
                                          /\ log[m] \notin stream.rows => Late(m)
        BY <3>1 DEF StreamInv, PassedLate
      <3> HIDE DEF Late
      <3> QED
        BY <1>1, <1>6, <2>1, <3>1, <3>2, <3>3
    <2> QED
      BY <2>2, <2>3 DEF PassedLate
  <1> QED
    BY <1>7, <1>8, <1>11 DEF StreamInv

\* The client comes back with what it has seen.
LEMMA ConnectKeeps ==
    ASSUME StreamInv, Connect
    PROVE  StreamInv'
  <1>1. /\ stream' = [Closed EXCEPT !.at = "listening", !.cursor = Seen]
        /\ UNCHANGED <<nextId, open, log, wire, got>> /\ wire = <<>>
    BY DEF Connect, StreamInv, Sending
  <1>2. /\ Seen \in Nat /\ (Seen # 0 => Seen \in Ids(got))
        /\ \A e \in Ids(got) : e <= Seen
    BY SeenIs DEF StreamInv, StreamTypes, Sending
  <1>3. /\ stream' \in Generator /\ stream'.at = "listening" /\ stream'.cursor = Seen
        /\ stream'.rows = {}
    BY <1>1, <1>2 DEF Closed, Generator
  <1>4. StreamTypes'
    BY <1>1, <1>3 DEF StreamInv, StreamTypes
  <1>5. Ids(wire) = {}
    BY <1>1 DEF Ids
  <1>6. Sending'
    BY <1>1, <1>2, <1>3, <1>5 DEF StreamInv, Sending
  <1>7. Seen' = Seen
    BY <1>1 DEF Seen
  <1>8. PassedLate'
    BY <1>1, <1>3, <1>5, <1>7 DEF StreamInv, PassedLate, Late
  <1> QED
    BY <1>4, <1>6, <1>8 DEF StreamInv

\* Rows are fetched with all that are older, and not before those fetched
\* before them are sent.
LEMMA FetchKeeps ==
    ASSUME StreamAssumption, StreamInv, Backfill \/ LiveTail
    PROVE  StreamInv'
  <1>1. PICK upTo \in SUBSET Id : stream'.rows = Fetched(stream.cursor, upTo)
    <2>1. CASE Backfill
      <3>1. Ids(log) \in SUBSET Id
        BY IdsOf DEF StreamInv, StreamTypes
      <3>2. stream'.rows = Fetched(stream.cursor, Ids(log))
        BY <2>1 DEF Backfill, StreamInv, StreamTypes, Generator
      <3> QED
        BY <3>1, <3>2
    <2>2. CASE LiveTail
      <3>1. stream.notes \in SUBSET Id
        BY DEF StreamInv, StreamTypes, Generator
      <3>2. stream'.rows = Fetched(stream.cursor, stream.notes)
        BY <2>2 DEF LiveTail, StreamInv, StreamTypes, Generator
      <3> QED
        BY <3>1, <3>2
    <2> QED
      BY <2>1, <2>2
  <1>2. /\ stream.cursor \in Nat /\ log \in Seq(Id) /\ Limit \in Nat
        /\ UNCHANGED <<nextId, open, log, wire, got>>
    BY DEF Backfill, LiveTail, StreamInv, StreamTypes, Generator, StreamAssumption
  <1>3. /\ \A e \in stream'.rows : e \in Ids(log) /\ e > stream.cursor
        /\ \A e \in stream'.rows, f \in Ids(log) :
              stream.cursor < f /\ f < e => f \in stream'.rows
    BY <1>1, <1>2, FetchedFirst
  <1>4. stream' \in Generator /\ stream'.at = "tailing" /\ stream'.cursor = stream.cursor
        /\ stream.at # "closed"
    <2>1. stream'.rows \in SUBSET Id /\ stream \in Generator
      BY <1>2, <1>3, IdsOf DEF StreamInv, StreamTypes
    <2> QED
      BY <2>1 DEF Backfill, LiveTail, Generator
  <1>5. StreamTypes'
    BY <1>2, <1>4 DEF StreamInv, StreamTypes
  <1>6. Sending'
    BY <1>2, <1>3, <1>4 DEF StreamInv, Sending
  <1>7. Seen' = Seen
    BY <1>2 DEF Seen
  <1>8. \A m \in DOMAIN log : log[m] \in Ids(log)
    BY DEF Ids
  <1>9. PassedLate'
    BY <1>2, <1>3, <1>4, <1>7, <1>8 DEF StreamInv, PassedLate, Late
  <1> QED
    BY <1>5, <1>6, <1>9 DEF StreamInv

\* The oldest of the rows is sent: those between the cursor and it were late.
LEMMA SendRowKeeps ==
    ASSUME StreamInv, SendRow
    PROVE  StreamInv'
  <1>1. PICK e \in stream.rows :
           /\ \A f \in stream.rows : e <= f
           /\ wire' = Append(wire, e)
           /\ stream' = [stream EXCEPT !.rows = stream.rows \ {e},
                            !.cursor = IF stream.cursor < e THEN e ELSE stream.cursor]
    BY DEF SendRow
  <1>2. /\ stream \in Generator /\ wire \in Seq(Id) /\ e \in Id /\ stream.cursor \in Nat
        /\ UNCHANGED <<nextId, open, log, got>> /\ stream.rows \subseteq Id
    BY <1>1 DEF SendRow, StreamInv, StreamTypes, Generator
  <1>3. stream.at # "closed" /\ stream.cursor < e
    BY <1>1 DEF StreamInv, Sending
  <1>4. /\ stream' \in Generator /\ stream'.at = stream.at /\ stream'.cursor = e
        /\ stream'.rows = stream.rows \ {e}
    BY <1>1, <1>2, <1>3 DEF Generator, Id
  <1>5. Ids(got) \subseteq Id /\ Ids(wire) \subseteq Id
    BY IdsOf DEF StreamInv, StreamTypes
  <1>6. \A f \in Ids(got) \cup Ids(wire) : f < e
    BY <1>2, <1>3, <1>5 DEF StreamInv, Sending, Id
  <1>7. wire' \in Seq(Id) /\ Ids(wire') = Ids(wire) \cup {e} /\ Rises(wire')
    BY <1>1, <1>2, <1>6, AppendIds DEF StreamInv, Sending
  <1>8. StreamTypes'
    BY <1>2, <1>4, <1>7 DEF StreamInv, StreamTypes
  <1>9. Sending'
    <2>1. \A f \in stream'.rows : f > e
      BY <1>1, <1>2, <1>4 DEF Id
    <2>2. \A f \in Ids(got) \cup Ids(wire') : f <= e
      BY <1>2, <1>5, <1>6, <1>7 DEF Id
    <2>3. \A f \in Ids(got), g \in Ids(wire') : f < g
      BY <1>6, <1>7 DEF StreamInv, Sending
    <2>4. Ids(got) \cup Ids(wire') \cup stream'.rows \subseteq Ids(log)
      BY <1>4, <1>7 DEF StreamInv, Sending
    <2> QED
      BY <1>2, <1>3, <1>4, <1>7, <2>1, <2>2, <2>3, <2>4 DEF StreamInv, Sending
  <1>10. ASSUME NEW m \in DOMAIN log
         PROVE  /\ log[m] < Seen /\ log[m] \notin Ids(got) => Late(m)
                /\ log[m] < e /\ log[m] \notin Ids(got) \cup Ids(wire') => Late(m)
                /\ \A r \in stream'.rows :
                      e < log[m] /\ log[m] < r /\ log[m] \notin stream'.rows => Late(m)
    <2>1. log[m] \in Id
      BY DEF StreamInv, StreamTypes
    <2>2. /\ log[m] < Seen /\ log[m] \notin Ids(got) => Late(m)
          /\ log[m] < stream.cursor /\ log[m] \notin Ids(got) \cup Ids(wire) => Late(m)
          /\ \A r \in stream.rows :
                stream.cursor < log[m] /\ log[m] < r /\ log[m] \notin stream.rows => Late(m)
      BY <1>3 DEF StreamInv, PassedLate
    <2>3. stream.cursor # 0 => stream.cursor \in Ids(got) \cup Ids(wire)
      BY <1>3 DEF StreamInv, Sending
    <2>4. log[m] < e /\ log[m] \notin Ids(got) \cup Ids(wire') => Late(m)
      <3> SUFFICES ASSUME log[m] < e, log[m] \notin Ids(got) \cup Ids(wire')
                   PROVE  Late(m)
        OBVIOUS
      <3>1. log[m] # stream.cursor /\ log[m] \notin Ids(got) \cup Ids(wire)
        BY <1>7, <2>1, <2>3 DEF Id
      <3>2. log[m] \notin stream.rows
        BY <1>1, <1>2, <2>1 DEF Id
      <3>3. log[m] < stream.cursor \/ stream.cursor < log[m]
        BY <1>2, <2>1, <3>1 DEF Id
      <3> QED
        BY <2>2, <3>1, <3>2, <3>3
    <2>5. ASSUME NEW r \in stream'.rows, e < log[m], log[m] < r, log[m] \notin stream'.rows
          PROVE  Late(m)
      <3>1. log[m] \notin stream.rows /\ r \in stream.rows
        BY <1>2, <1>4, <2>1, <2>5 DEF Id
      <3>2. stream.cursor < log[m]
        BY <1>2, <1>3, <2>1, <2>5 DEF Id
      <3> QED
        BY <2>2, <2>5, <3>1, <3>2
    <2> QED
      BY <2>2, <2>4, <2>5
  <1>11. PassedLate'
    <2>1. Seen' = Seen /\ log' = log /\ got' = got /\ stream'.cursor = e
      BY <1>2, <1>4 DEF Seen
    <2>2. \A m : Late(m)' <=> Late(m)
      BY <2>1 DEF Late
    <2> QED
      BY <1>10, <2>1, <2>2 DEF PassedLate
  <1> QED
    BY <1>8, <1>9, <1>11 DEF StreamInv

LEMMA ReceiveKeeps ==
    ASSUME StreamInv, Receive
    PROVE  StreamInv'
  <1> DEFINE e == Head(wire)
  <1>1. /\ wire # <<>> /\ got' = Append(got, e) /\ wire' = Tail(wire)
        /\ UNCHANGED <<nextId, open, log, stream>>
    BY DEF Receive
  <1>2. /\ wire \in Seq(Id) /\ got \in Seq(Id) /\ stream \in Generator /\ stream.at # "closed"
        /\ Rises(wire) /\ Rises(got)
    BY <1>1 DEF StreamInv, StreamTypes, Sending
  <1>3. /\ e \in Id /\ wire' \in Seq(Id) /\ Ids(wire) = {e} \cup Ids(wire') /\ Rises(wire')
        /\ \A f \in Ids(wire') : e < f
    BY <1>1, <1>2, TailIds
  <1> HIDE DEF e
  <1>4. \A f \in Ids(got) : f < e
    BY <1>3 DEF StreamInv, Sending
  <1>5. got' \in Seq(Id) /\ Ids(got') = Ids(got) \cup {e} /\ Rises(got')
    BY <1>1, <1>2, <1>3, <1>4, AppendIds
  <1>6. Ids(got') \cup Ids(wire') = Ids(got) \cup Ids(wire)
    BY <1>3, <1>5
  <1>7. StreamTypes'
    BY <1>1, <1>3, <1>5 DEF StreamInv, StreamTypes
  <1>8. Sending'
    <2>1. \A f \in Ids(got'), g \in Ids(wire') : f < g
      BY <1>3, <1>5 DEF StreamInv, Sending
    <2> QED
      BY <1>1, <1>2, <1>3, <1>5, <1>6, <2>1 DEF StreamInv, Sending
  <1>9. Seen' = e
    <2>1. got' # <<>> /\ got'[Len(got')] = e
      BY <1>1, <1>2, <1>3
    <2> QED
      BY <2>1 DEF Seen
  <1>10. ASSUME NEW m \in DOMAIN log, log[m] < e, log[m] \notin Ids(got')
         PROVE  Late(m)
    <2>1. log[m] \in Id /\ stream.cursor \in Nat
      BY <1>2 DEF StreamInv, StreamTypes, Generator
    <2>2. log[m] \notin Ids(got) \cup Ids(wire)
      BY <1>3, <1>5, <1>10, <2>1 DEF Id
    <2>3. e <= stream.cursor
      BY <1>2, <1>3 DEF StreamInv, Sending
    <2>4. log[m] < stream.cursor
      BY <1>3, <1>10, <2>1, <2>3 DEF Id
    <2> QED
      BY <1>2, <2>2, <2>4 DEF StreamInv, PassedLate
  <1>11. PassedLate'
    <2>1. \A m : Late(m)' <=> Late(m)
      BY <1>1 DEF Late
    <2> QED
      BY <1>1, <1>6, <1>9, <1>10, <2>1 DEF StreamInv, PassedLate
  <1> QED
    BY <1>7, <1>8, <1>11 DEF StreamInv

LEMMA DropKeeps ==
    ASSUME StreamInv, Drop
    PROVE  StreamInv'
  <1>1. stream' = Closed /\ wire' = <<>> /\ UNCHANGED <<nextId, open, log, got>>
    BY DEF Drop
  <1>2. /\ stream' \in Generator /\ stream'.at = "closed" /\ stream'.cursor = 0
        /\ stream'.rows = {}
    BY <1>1 DEF Closed, Generator
  <1>3. wire' \in Seq(Id) /\ Ids(wire') = {} /\ Rises(wire')
    BY <1>1 DEF Ids, Rises
  <1>4. StreamTypes'
    BY <1>1, <1>2, <1>3 DEF StreamInv, StreamTypes
  <1>5. Sending'
    BY <1>1, <1>2, <1>3 DEF StreamInv, Sending
  <1>6. PassedLate'
    BY <1>1, <1>2 DEF StreamInv, PassedLate, Late, Seen
  <1> QED
    BY <1>4, <1>5, <1>6 DEF StreamInv

LEMMA StreamStep ==
    ASSUME StreamAssumption, StreamInv, [StreamNext]_streamVars
    PROVE  StreamInv'
  <1>1. ASSUME NEW w \in Writers, Emit(w) \/ CommitEvents(w) \/ FailCall(w)
        PROVE  StreamInv'
    BY <1>1, WritersKeep, CommitKeeps
  <1>2. CASE Connect \/ Backfill \/ LiveTail \/ SendRow \/ Receive \/ Drop
    BY <1>2, ConnectKeeps, FetchKeeps, SendRowKeeps, ReceiveKeeps, DropKeeps
  <1>3. CASE UNCHANGED streamVars
    BY <1>3 DEF streamVars, StreamInv, StreamTypes, Sending, PassedLate, Late, Seen
  <1> QED
    BY <1>1, <1>2, <1>3 DEF StreamNext

LEMMA StreamStarts ==
    ASSUME StreamInit
    PROVE  StreamInv
  <1>1. /\ stream \in Generator /\ stream.at = "closed" /\ stream.cursor = 0 /\ stream.rows = {}
    BY DEF StreamInit, Closed, Generator
  <1>2. /\ nextId \in Id /\ open \in [Writers -> Seq(Id)] /\ log \in Seq(Id) /\ log = <<>>
        /\ wire = <<>> /\ got = <<>> /\ wire \in Seq(Id) /\ got \in Seq(Id)
    BY DEF StreamInit, Id
  <1>3. Ids(got) = {} /\ Ids(wire) = {} /\ Rises(got) /\ Rises(wire) /\ DOMAIN log = {}
    BY <1>2 DEF Ids, Rises
  <1>4. Sending /\ PassedLate
    BY <1>1, <1>2, <1>3 DEF Sending, PassedLate
  <1> QED
    BY <1>1, <1>2, <1>4 DEF StreamInv, StreamTypes

\* However often the client is cut off, what it has received rises, and each event
\* it has passed without receiving it was committed after one of a higher id: for
\* any number of writers and any limit on the rows fetched at once.
THEOREM StreamInOrder == ASSUME StreamAssumption PROVE StreamSpec => []ReceivedInOrder
  <1>1. StreamInit => StreamInv
    BY StreamStarts
  <1>2. StreamInv /\ [StreamNext]_streamVars => StreamInv'
    BY StreamStep
  <1>3. StreamInv => ReceivedInOrder
    BY DEF StreamInv, Sending, PassedLate, Rises, Late, ReceivedInOrder, IdsRise,
           LostOnlyToReordering
  <1> QED
    BY <1>1, <1>2, <1>3, PTL DEF StreamSpec
=============================================================================
