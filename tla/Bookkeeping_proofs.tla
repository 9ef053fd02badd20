------------------------- MODULE Bookkeeping_proofs -------------------------
(***************************************************************************)
(* What a run keeps while it works, for any number of packets, sessions    *)
(* and claims.                                                             *)
(*                                                                         *)
(* RunBudget: whatever copy of the run's JSON value is written last, it    *)
(* claims no progress that was not made.  ChapterMemory: the newest        *)
(* version of a chapter's memory is the active one, and a proposal that is *)
(* still pending is of the newest translation of its packet.               *)
(***************************************************************************)
EXTENDS RunBudget, ChapterMemory, FiniteSetTheorems, TLAPS

-----------------------------------------------------------------------------
(* RunBudget: types *)

ItemStatus == {"absent", "pending", "leased", "succeeded", "retryable_failed", "terminal_failed"}
Lease == [packet : Packets \cup {NoPacket}, status : {"unused", "active", "released", "expired"}]
Thread ==
    [at : {"none", "work", "read", "held", "tell", "telling", "done"},
     outcome : {"none", "success", "failure", "fatal"}, read : Detail]
Sessional ==
    [op : {"none", "tick", "finish", "reap", "patch", "control"}, read : Detail,
     subject : SUBSET (Packets \cup Tokens)]

BudgetTypes ==
    /\ detail \in Detail /\ audit \in [Events -> Nat]
    /\ items \in [Packets -> ItemStatus]
    /\ lease \in [Tokens -> Lease] /\ thread \in [Tokens -> Thread]
    /\ loop \in Sessional /\ operator \in Sessional

\* What a copy of the JSON value claims, and what there is.
Lags(d, au) ==
    /\ d.seeded <= au["seeded"] /\ d.completed <= au["completed"]
    /\ d.retryable <= au["retryable"] /\ d.terminal <= au["terminal"]
    /\ d.reclaimed <= au["reclaimed"] /\ d.patches <= au["patches"]
Done(it) == \A p \in Packets : it[p] = "succeeded"
Honest(d, au, it) == Lags(d, au) /\ (d.cache = "succeeded" => Done(it))

\* Every copy that a session holds is as honest as the row; the items a tick has
\* found missing are missing until it has made them; the loop reports the end of
\* the translation only when there is no more of it.
BudgetInv ==
    /\ BudgetTypes
    /\ Honest(detail, audit, items) /\ Honest(loop.read, audit, items)
    /\ Honest(operator.read, audit, items)
    /\ \A t \in Tokens : Honest(thread[t].read, audit, items)
    /\ loop.op = "tick" => \A p \in loop.subject : p \in Packets /\ items[p] = "absent"
    /\ loop.op = "finish" => Done(items)

LEMMA BlankIsHonest ==
    ASSUME NEW au \in [Events -> Nat], NEW it
    PROVE  Blank \in Detail /\ Honest(Blank, au, it)
  BY DEF Blank, Detail, CacheStatus, Honest, Lags, Events, Counters

\* Events are not taken back, and what has succeeded stays so.
LEMMA HonestStays ==
    ASSUME NEW d \in Detail, NEW au \in [Events -> Nat], NEW later \in [Events -> Nat],
           NEW it, NEW then, Honest(d, au, it),
           \A c \in Counters : au[c] <= later[c], Done(it) => Done(then)
    PROVE  Honest(d, later, then)
  BY DEF Honest, Lags, Detail, Events, Counters

\* It is enough that a step leaves the row honest and copies no other value.
LEMMA CopiesKept ==
    ASSUME BudgetInv, BudgetTypes', Honest(detail', audit', items'),
           \A c \in Counters : audit[c] <= audit'[c], Done(items) => Done(items'),
           loop'.read \in {loop.read, detail, Blank},
           operator'.read \in {operator.read, detail, Blank},
           \A t \in Tokens : thread'[t].read \in {thread[t].read, detail, Blank},
           loop'.op = "tick" => \A p \in loop'.subject : p \in Packets /\ items'[p] = "absent",
           loop'.op = "finish" => Done(items')
    PROVE  BudgetInv'
  <1>1. /\ audit \in [Events -> Nat] /\ audit' \in [Events -> Nat]
        /\ detail \in Detail /\ loop.read \in Detail /\ operator.read \in Detail
        /\ \A t \in Tokens : thread[t].read \in Detail
    BY DEF BudgetInv, BudgetTypes, Sessional, Thread
  <1>2. /\ Honest(detail, audit', items') /\ Honest(loop.read, audit', items')
        /\ Honest(operator.read, audit', items') /\ Honest(Blank, audit', items')
        /\ \A t \in Tokens : Honest(thread[t].read, audit', items')
    BY <1>1, HonestStays, BlankIsHonest DEF BudgetInv
  <1>3. /\ Honest(loop'.read, audit', items') /\ Honest(operator'.read, audit', items')
        /\ \A t \in Tokens : Honest(thread'[t].read, audit', items')
    BY <1>2
  <1> QED
    BY <1>3 DEF BudgetInv

-----------------------------------------------------------------------------
(* RunBudget: steps *)

LEMMA PacketsFinite ==
    ASSUME BudgetAssumption, NEW S \in SUBSET Packets
    PROVE  Cardinality(S) \in Nat
  BY FS_Subset, FS_CardinalityType DEF BudgetAssumption

\* Rows are added to the audit trail.
LEMMA EventsAdded ==
    ASSUME audit \in [Events -> Nat], NEW c \in Events, NEW n \in Nat,
           audit' = [audit EXCEPT ![c] = audit[c] + n]
    PROVE  /\ audit' \in [Events -> Nat] /\ audit'[c] = audit[c] + n
           /\ \A e \in Events \ {c} : audit'[e] = audit[e]
           /\ \A e \in Counters : audit[e] <= audit'[e]
  <1>1. audit[c] + n \in Nat
    OBVIOUS
  <1>2. /\ audit' \in [Events -> Nat] /\ audit'[c] = audit[c] + n
        /\ \A e \in Events \ {c} : audit'[e] = audit[e]
    BY <1>1
  <1> QED
    BY <1>2 DEF Events

\* A step that opens a session of the loop.
LEMMA LoopOpens ==
    ASSUME BudgetInv, UNCHANGED <<detail, audit, items, lease, thread, operator>>,
           NEW op \in {"tick", "finish", "reap", "patch"},
           NEW subject \in SUBSET (Packets \cup Tokens), loop' = Session(op, subject),
           op = "tick" => \A p \in subject : p \in Packets /\ items[p] = "absent",
           op = "finish" => Done(items)
    PROVE  BudgetInv'
  <1>1. loop'.op = op /\ loop'.read = detail /\ loop'.subject = subject
    BY DEF Session
  <1>2. BudgetTypes'
    BY DEF Session, BudgetInv, BudgetTypes, Sessional
  <1> QED
    BY <1>1, <1>2 DEF BudgetInv

\* A step of the loop that closes its session.
LEMMA LoopCloses ==
    ASSUME BudgetInv, loop' = NoSession, operator' = operator,
           detail' \in Detail, audit' \in [Events -> Nat], items' \in [Packets -> ItemStatus],
           lease' \in [Tokens -> Lease], thread' \in [Tokens -> Thread],
           Honest(detail', audit', items'),
           \A c \in Counters : audit[c] <= audit'[c], Done(items) => Done(items'),
           \A t \in Tokens : thread'[t].read \in {thread[t].read, Blank}
    PROVE  BudgetInv'
  <1>1. loop'.op = "none" /\ loop'.read = Blank /\ loop'.subject = {}
    BY DEF NoSession
  <1>2. loop' \in Sessional
    BY <1>1, BlankIsHonest DEF NoSession, Sessional, BudgetInv, BudgetTypes
  <1>3. BudgetTypes'
    BY <1>2 DEF BudgetInv, BudgetTypes
  <1> QED
    BY <1>1, <1>3, CopiesKept

LEMMA BeginTickKeeps ==
    ASSUME BudgetInv, BeginTick
    PROVE  BudgetInv'
  <1> DEFINE S == {p \in Packets : items[p] = "absent"}
  <1>1. S \in SUBSET (Packets \cup Tokens) /\ \A p \in S : p \in Packets /\ items[p] = "absent"
    OBVIOUS
  <1>2. loop' = Session("tick", S) /\ UNCHANGED <<detail, audit, items, lease, thread, operator>>
    BY DEF BeginTick
  <1> HIDE DEF S
  <1> QED
    BY <1>1, <1>2, LoopOpens

LEMMA CommitTickKeeps ==
    ASSUME BudgetAssumption, BudgetInv, CommitTick
    PROVE  BudgetInv'
  <1> DEFINE n == Cardinality(loop.subject)
             st == [p \in Packets |-> IF p \in loop.subject THEN "pending" ELSE items[p]]
  <1>1. loop.op = "tick" /\ loop.subject \in SUBSET Packets
        /\ \A p \in loop.subject : items[p] = "absent"
    BY DEF CommitTick, BudgetInv
  <1>2. n \in Nat
    BY <1>1, PacketsFinite
  <1> DEFINE Claimed(new, claim) ==
             /\ \A t \in new : claim[t] \in Claimable(st)
             /\ items' = [p \in Packets |->
                            IF \E t \in new : claim[t] = p THEN "leased" ELSE st[p]]
             /\ lease' = [t \in Tokens |->
                            IF t \in new THEN [packet |-> claim[t], status |-> "active"]
                            ELSE lease[t]]
             /\ thread' = [t \in Tokens |->
                            IF t \in new THEN Handed(t, claim[t]) ELSE thread[t]]
  <1>3. PICK new \in SUBSET {t \in Tokens : lease[t].status = "unused"} :
             \E claim \in [new -> Packets] : Claimed(new, claim)
    BY DEF CommitTick
  <1>4. PICK claim \in [new -> Packets] : Claimed(new, claim)
    BY <1>3
  <1>5. /\ detail' = [loop.read EXCEPT !.seeded = loop.read.seeded + n, !.cache = "running"]
        /\ audit' = [audit EXCEPT !["seeded"] = audit["seeded"] + n]
        /\ loop' = NoSession /\ operator' = operator
    BY DEF CommitTick
  <1> HIDE DEF n
  <1>6. /\ audit' \in [Events -> Nat] /\ audit'["seeded"] = audit["seeded"] + n
        /\ \A e \in Events \ {"seeded"} : audit'[e] = audit[e]
        /\ \A c \in Counters : audit[c] <= audit'[c]
    BY <1>2, <1>5, EventsAdded DEF BudgetInv, BudgetTypes, Events, Counters
  <1>7. loop.read \in Detail /\ loop.read.seeded + n \in Nat
    BY <1>2 DEF BudgetInv, BudgetTypes, Sessional, Detail
  <1>8. detail' \in Detail
    BY <1>5, <1>7 DEF Detail, CacheStatus
  <1>9. Honest(detail', audit', items')
    BY <1>2, <1>5, <1>6, <1>7 DEF BudgetInv, BudgetTypes, Detail, Events, Counters, Honest, Lags
  <1>10. items' \in [Packets -> ItemStatus]
    BY <1>4 DEF BudgetInv, BudgetTypes, ItemStatus
  <1>11. Done(items) => Done(items')
    <2> SUFFICES ASSUME Done(items), NEW p \in Packets PROVE items'[p] = "succeeded"
      BY DEF Done
    <2>1. \A q \in Packets : st[q] = "succeeded"
      BY <1>1 DEF Done
    <2>2. \A t \in new : FALSE
      BY <1>4, <2>1 DEF Claimable
    <2> QED
      BY <1>4, <2>1, <2>2
  <1>12. lease' \in [Tokens -> Lease]
    BY <1>4 DEF BudgetInv, BudgetTypes, Lease
  <1>13. Ended \in Thread /\ [NoThread EXCEPT !.at = "work"] \in Thread
         /\ Ended.read = Blank /\ [NoThread EXCEPT !.at = "work"].read = Blank
    BY BlankIsHonest DEF Ended, NoThread, Thread, BudgetInv, BudgetTypes
  <1>14. \A t \in new : Handed(t, claim[t]) \in {Ended, [NoThread EXCEPT !.at = "work"]}
    BY DEF Handed
  <1>15. /\ thread' \in [Tokens -> Thread]
         /\ \A t \in Tokens : thread'[t].read \in {thread[t].read, Blank}
    BY <1>4, <1>13, <1>14 DEF BudgetInv, BudgetTypes
  <1> QED
    BY <1>5, <1>6, <1>8, <1>9, <1>10, <1>11, <1>12, <1>15, LoopCloses

LEMMA BeginFinishKeeps ==
    ASSUME BudgetInv, BeginFinish
    PROVE  BudgetInv'
  <1>1. {} \in SUBSET (Packets \cup Tokens) /\ Done(items)
    BY DEF BeginFinish, AllDone, Done
  <1>2. /\ loop' = Session("finish", {})
        /\ UNCHANGED <<detail, audit, items, lease, thread, operator>>
    BY DEF BeginFinish
  <1> QED
    BY <1>1, <1>2, LoopOpens

LEMMA CommitFinishKeeps ==
    ASSUME BudgetInv, CommitFinish
    PROVE  BudgetInv'
  <1>1. /\ detail' = [loop.read EXCEPT !.cache = "succeeded"] /\ loop' = NoSession
        /\ UNCHANGED <<audit, items, lease, thread, operator>> /\ Done(items)
    BY DEF CommitFinish, BudgetInv
  <1>2. detail' \in Detail /\ Honest(detail', audit', items')
    BY <1>1 DEF BudgetInv, BudgetTypes, Sessional, Detail, CacheStatus, Honest, Lags
  <1>3. \A c \in Counters : audit[c] <= audit'[c]
    BY <1>1 DEF BudgetInv, BudgetTypes, Events
  <1> QED
    BY <1>1, <1>2, <1>3, LoopCloses DEF BudgetInv, BudgetTypes

LEMMA BeginReapKeeps ==
    ASSUME BudgetInv, BeginReap
    PROVE  BudgetInv'
  <1>1. PICK expired \in SUBSET {t \in Tokens : lease[t].status = "active"} :
             loop' = Session("reap", expired)
    BY DEF BeginReap
  <1>2. expired \in SUBSET (Packets \cup Tokens)
        /\ UNCHANGED <<detail, audit, items, lease, thread, operator>>
    BY DEF BeginReap
  <1> QED
    BY <1>1, <1>2, LoopOpens

LEMMA CommitReapKeeps ==
    ASSUME BudgetAssumption, BudgetInv, CommitReap
    PROVE  BudgetInv'
  <1> DEFINE n == Cardinality(Reclaimed)
  <1>1. n \in Nat
    BY PacketsFinite DEF Reclaimed
  <1>2. /\ audit' = [audit EXCEPT !["reclaimed"] = audit["reclaimed"] + n]
        /\ detail' = IF Reclaimed = {} THEN detail
                     ELSE [loop.read EXCEPT !.reclaimed = loop.read.reclaimed + n]
        /\ loop' = NoSession /\ UNCHANGED <<thread, operator>>
    BY DEF CommitReap, ReclaimCount
  <1>3. /\ items' = [p \in Packets |-> IF p \in Reclaimed THEN "retryable_failed" ELSE items[p]]
        /\ lease' = [t \in Tokens |->
                IF t \in loop.subject THEN [lease[t] EXCEPT !.status = "expired"] ELSE lease[t]]
    BY DEF CommitReap
  <1> HIDE DEF n
  <1>4. /\ audit' \in [Events -> Nat] /\ audit'["reclaimed"] = audit["reclaimed"] + n
        /\ \A e \in Events \ {"reclaimed"} : audit'[e] = audit[e]
        /\ \A c \in Counters : audit[c] <= audit'[c]
    BY <1>1, <1>2, EventsAdded DEF BudgetInv, BudgetTypes, Events, Counters
  <1>5. items' \in [Packets -> ItemStatus] /\ (Done(items) => Done(items'))
    BY <1>3 DEF BudgetInv, BudgetTypes, ItemStatus, Done, Reclaimed
  <1>6. lease' \in [Tokens -> Lease]
    BY <1>3 DEF BudgetInv, BudgetTypes, Lease
  <1>7. detail' \in Detail /\ Honest(detail', audit', items')
    <2>1. CASE Reclaimed = {}
      <3>1. detail' = detail /\ detail \in Detail /\ audit \in [Events -> Nat]
        BY <1>2, <2>1 DEF BudgetInv, BudgetTypes
      <3> QED
        BY <3>1, <1>4, <1>5, HonestStays DEF BudgetInv
    <2>2. CASE Reclaimed # {}
      <3>1. loop.read \in Detail /\ loop.read.reclaimed + n \in Nat
        BY <1>1 DEF BudgetInv, BudgetTypes, Sessional, Detail
      <3>2. detail' = [loop.read EXCEPT !.reclaimed = loop.read.reclaimed + n]
        BY <1>2, <2>2
      <3>3. detail' \in Detail
        BY <3>1, <3>2 DEF Detail
      <3>4. Honest(loop.read, audit, items)
        BY DEF BudgetInv
      <3>5. Lags(detail', audit')
        BY <1>1, <1>4, <3>1, <3>2, <3>4 DEF BudgetInv, BudgetTypes, Detail, Events, Counters,
                                            Honest, Lags
      <3> QED
        BY <1>5, <3>1, <3>2, <3>3, <3>4, <3>5 DEF Detail, Honest
    <2> QED
      BY <2>1, <2>2
  <1>8. \A t \in Tokens : thread'[t].read \in {thread[t].read, Blank}
    BY <1>2
  <1> QED
    BY <1>2, <1>4, <1>5, <1>6, <1>7, <1>8, LoopCloses DEF BudgetInv, BudgetTypes

LEMMA BeginPatchKeeps ==
    ASSUME BudgetInv, BeginPatch
    PROVE  BudgetInv'
  <1>1. /\ loop' = Session("patch", {}) /\ {} \in SUBSET (Packets \cup Tokens)
        /\ UNCHANGED <<detail, audit, items, lease, thread, operator>>
    BY DEF BeginPatch
  <1> QED
    BY <1>1, LoopOpens

LEMMA CommitPatchKeeps ==
    ASSUME BudgetInv, CommitPatch
    PROVE  BudgetInv'
  <1>1. /\ detail' = [loop.read EXCEPT !.patches = loop.read.patches + 1]
        /\ audit' = [audit EXCEPT !["patches"] = audit["patches"] + 1]
        /\ loop' = NoSession /\ UNCHANGED <<items, lease, thread, operator>>
    BY DEF CommitPatch
  <1>2. /\ audit' \in [Events -> Nat] /\ audit'["patches"] = audit["patches"] + 1
        /\ \A e \in Events \ {"patches"} : audit'[e] = audit[e]
        /\ \A c \in Counters : audit[c] <= audit'[c]
    BY <1>1, EventsAdded DEF BudgetInv, BudgetTypes, Events, Counters
  <1>3. loop.read \in Detail /\ loop.read.patches + 1 \in Nat
    BY DEF BudgetInv, BudgetTypes, Sessional, Detail
  <1>4. detail' \in Detail
    BY <1>1, <1>3 DEF Detail
  <1>5. Honest(detail', audit', items')
    BY <1>1, <1>2, <1>3 DEF BudgetInv, BudgetTypes, Detail, Events, Counters, Honest, Lags
  <1> QED
    BY <1>1, <1>2, <1>4, <1>5, LoopCloses DEF BudgetInv, BudgetTypes

\* A step of one worker thread that leaves the row as it is.
LEMMA ThreadMoves ==
    ASSUME BudgetInv, UNCHANGED <<detail, audit, items, lease, loop, operator>>,
           NEW t \in Tokens, NEW w \in Thread, thread' = [thread EXCEPT ![t] = w],
           w.read \in {thread[t].read, detail, Blank}
    PROVE  BudgetInv'
  <1>1. thread' \in [Tokens -> Thread] /\ \A u \in Tokens :
            thread'[u].read \in {thread[u].read, detail, Blank}
    BY DEF BudgetInv, BudgetTypes
  <1>2. BudgetTypes'
    BY <1>1 DEF BudgetInv, BudgetTypes
  <1>3. Honest(Blank, audit, items)
    BY BlankIsHonest DEF BudgetInv, BudgetTypes
  <1> QED
    BY <1>1, <1>2, <1>3 DEF BudgetInv

LEMMA EndedIsAThread == Ended \in Thread /\ Ended.read = Blank
  BY DEF Ended, NoThread, Thread, Blank, Detail, CacheStatus

LEMMA BeginReportKeeps ==
    ASSUME BudgetInv, NEW t \in Tokens, BeginReport(t)
    PROVE  BudgetInv'
  <1>1. UNCHANGED <<detail, audit, items, lease, loop, operator>> /\ thread[t] \in Thread
    BY DEF BeginReport, BudgetInv, BudgetTypes
  <1>2. CASE lease[t].status = "active"
    <2>1. PICK outcome \in {"success", "failure", "fatal"} :
            thread' = [thread EXCEPT ![t] = [thread[t] EXCEPT !.at = "read", !.outcome = outcome]]
      BY <1>1, <1>2 DEF BeginReport, BudgetInv, BudgetTypes, Thread
    <2> DEFINE w == [thread[t] EXCEPT !.at = "read", !.outcome = outcome]
    <2>2. w \in Thread /\ w.read = thread[t].read
      BY <1>1 DEF Thread
    <2> QED
      BY <1>1, <2>1, <2>2, ThreadMoves
  <1>3. CASE lease[t].status # "active"
    BY <1>1, <1>3, EndedIsAThread, ThreadMoves DEF BeginReport
  <1> QED
    BY <1>2, <1>3

LEMMA HoldItemKeeps ==
    ASSUME BudgetInv, NEW t \in Tokens, HoldItem(t)
    PROVE  BudgetInv'
  <1> DEFINE w == [thread[t] EXCEPT !.at = "held", !.read = detail]
  <1>1. UNCHANGED <<detail, audit, items, lease, loop, operator>> /\ thread[t] \in Thread
    BY DEF HoldItem, BudgetInv, BudgetTypes
  <1>2. thread' = [thread EXCEPT ![t] = w]
    BY <1>1 DEF HoldItem, BudgetInv, BudgetTypes, Thread
  <1>3. w \in Thread /\ w.read = detail
    BY <1>1 DEF Thread, BudgetInv, BudgetTypes
  <1> HIDE DEF w
  <1> QED
    BY <1>1, <1>2, <1>3, ThreadMoves

LEMMA BeginTellKeeps ==
    ASSUME BudgetInv, NEW t \in Tokens, BeginTell(t)
    PROVE  BudgetInv'
  <1> DEFINE w == [thread[t] EXCEPT !.at = "telling", !.read = detail]
  <1>1. UNCHANGED <<detail, audit, items, lease, loop, operator>> /\ thread[t] \in Thread
    BY DEF BeginTell, BudgetInv, BudgetTypes
  <1>2. thread' = [thread EXCEPT ![t] = w]
    BY <1>1 DEF BeginTell, BudgetInv, BudgetTypes, Thread
  <1>3. w \in Thread /\ w.read = detail
    BY <1>1 DEF Thread, BudgetInv, BudgetTypes
  <1> HIDE DEF w
  <1> QED
    BY <1>1, <1>2, <1>3, ThreadMoves

\* What a report adds to the copy it has read.
LEMMA BumpedIsHonest ==
    ASSUME BudgetInv, NEW t \in Tokens, audit' = [audit EXCEPT ![Event(t)] = audit[Event(t)] + 1]
    PROVE  /\ audit' \in [Events -> Nat] /\ \A c \in Counters : audit[c] <= audit'[c]
           /\ Bumped(t) \in Detail /\ Lags(Bumped(t), audit')
           /\ Bumped(t).cache = thread[t].read.cache
  <1> DEFINE d == thread[t].read
  <1>1. d \in Detail /\ Lags(d, audit) /\ audit \in [Events -> Nat]
    BY DEF BudgetInv, BudgetTypes, Thread, Honest
  <1>2. Event(t) \in {"completed", "retryable", "terminal"}
    BY DEF Event
  <1>3. /\ audit' \in [Events -> Nat] /\ audit'[Event(t)] = audit[Event(t)] + 1
        /\ \A e \in Events \ {Event(t)} : audit'[e] = audit[e]
        /\ \A e \in Counters : audit[e] <= audit'[e]
    BY <1>1, <1>2, EventsAdded DEF Events, Counters
  <1>4. \/ Event(t) = "completed"
           /\ Bumped(t) = [d EXCEPT !.completed = d.completed + 1, !.consecutive = 0]
        \/ Event(t) = "retryable"
           /\ Bumped(t) = [d EXCEPT !.retryable = d.retryable + 1,
                                    !.consecutive = d.consecutive + 1]
        \/ Event(t) = "terminal"
           /\ Bumped(t) = [d EXCEPT !.terminal = d.terminal + 1, !.consecutive = d.consecutive + 1]
    BY <1>2 DEF Bumped
  <1> HIDE DEF d
  <1>5. /\ 0 \in Nat /\ d.completed + 1 \in Nat /\ d.retryable + 1 \in Nat /\ d.terminal + 1 \in Nat
        /\ d.consecutive + 1 \in Nat
    BY <1>1 DEF Detail
  <1>6. CASE Event(t) = "completed"
    <2>1. Bumped(t) = [d EXCEPT !.completed = d.completed + 1, !.consecutive = 0]
      BY <1>4, <1>6
    <2>2. Bumped(t) \in Detail
      BY <1>1, <1>5, <2>1 DEF Detail
    <2>3. Bumped(t).cache = d.cache /\ Bumped(t).completed = d.completed + 1
      BY <1>1, <2>1 DEF Detail
    <2>4. /\ Bumped(t).seeded = d.seeded /\ Bumped(t).retryable = d.retryable
          /\ Bumped(t).terminal = d.terminal /\ Bumped(t).reclaimed = d.reclaimed
          /\ Bumped(t).patches = d.patches
      BY <1>1, <2>1 DEF Detail
    <2>5. \A e \in Events \ {"completed"} : audit'[e] = audit[e]
      BY <1>3, <1>6
    <2>6. audit'["completed"] = audit["completed"] + 1
      BY <1>3, <1>6
    <2>7. Lags(Bumped(t), audit')
      BY <1>1, <2>3, <2>4, <2>5, <2>6 DEF Detail, Lags, Events, Counters
    <2> QED
      BY <1>3, <2>2, <2>3, <2>7 DEF d
  <1>7. CASE Event(t) = "retryable"
    <2>1. Bumped(t) = [d EXCEPT !.retryable = d.retryable + 1, !.consecutive = d.consecutive + 1]
      BY <1>4, <1>7
    <2>2. Bumped(t) \in Detail
      BY <1>1, <1>5, <2>1 DEF Detail
    <2>3. Bumped(t).cache = d.cache /\ Bumped(t).retryable = d.retryable + 1
      BY <1>1, <2>1 DEF Detail
    <2>4. /\ Bumped(t).seeded = d.seeded /\ Bumped(t).completed = d.completed
          /\ Bumped(t).terminal = d.terminal /\ Bumped(t).reclaimed = d.reclaimed
          /\ Bumped(t).patches = d.patches
      BY <1>1, <2>1 DEF Detail
    <2>5. \A e \in Events \ {"retryable"} : audit'[e] = audit[e]
      BY <1>3, <1>7
    <2>6. audit'["retryable"] = audit["retryable"] + 1
      BY <1>3, <1>7
    <2>7. Lags(Bumped(t), audit')
      BY <1>1, <2>3, <2>4, <2>5, <2>6 DEF Detail, Lags, Events, Counters
    <2> QED
      BY <1>3, <2>2, <2>3, <2>7 DEF d
  <1>8. CASE Event(t) = "terminal"
    <2>1. Bumped(t) = [d EXCEPT !.terminal = d.terminal + 1, !.consecutive = d.consecutive + 1]
      BY <1>4, <1>8
    <2>2. Bumped(t) \in Detail
      BY <1>1, <1>5, <2>1 DEF Detail
    <2>3. Bumped(t).cache = d.cache /\ Bumped(t).terminal = d.terminal + 1
      BY <1>1, <2>1 DEF Detail
    <2>4. /\ Bumped(t).seeded = d.seeded /\ Bumped(t).completed = d.completed
          /\ Bumped(t).retryable = d.retryable /\ Bumped(t).reclaimed = d.reclaimed
          /\ Bumped(t).patches = d.patches
      BY <1>1, <2>1 DEF Detail
    <2>5. \A e \in Events \ {"terminal"} : audit'[e] = audit[e]
      BY <1>3, <1>8
    <2>6. audit'["terminal"] = audit["terminal"] + 1
      BY <1>3, <1>8
    <2>7. Lags(Bumped(t), audit')
      BY <1>1, <2>3, <2>4, <2>5, <2>6 DEF Detail, Lags, Events, Counters
    <2> QED
      BY <1>3, <2>2, <2>3, <2>7 DEF d
  <1> QED
    BY <1>2, <1>3, <1>6, <1>7, <1>8 DEF d

LEMMA CommitReportKeeps ==
    ASSUME BudgetInv, NEW t \in Tokens, CommitReport(t)
    PROVE  BudgetInv'
  <1> DEFINE p == lease[t].packet
             w == IF Event(t) = "completed" THEN Ended
                  ELSE [thread[t] EXCEPT !.at = "tell", !.read = Blank]
  <1>1. /\ detail' = Bumped(t) /\ loop' = loop /\ operator' = operator
        /\ audit' = [audit EXCEPT ![Event(t)] = audit[Event(t)] + 1]
        /\ lease' = [lease EXCEPT ![t].status = "released"]
        /\ items' = [items EXCEPT ![p] = IF items[p] = "leased" THEN Reported(t) ELSE items[p]]
    BY DEF CommitReport
  <1>2. thread' = [thread EXCEPT ![t] = w]
    BY DEF CommitReport, BudgetInv, BudgetTypes
  <1>3. /\ audit' \in [Events -> Nat] /\ \A c \in Counters : audit[c] <= audit'[c]
        /\ detail' \in Detail /\ Lags(detail', audit')
        /\ detail'.cache = thread[t].read.cache
    BY <1>1, BumpedIsHonest
  <1>4. Reported(t) \in ItemStatus
    BY DEF Reported, Event, ItemStatus
  <1>5. /\ items' \in [Packets -> ItemStatus]
        /\ \A q \in Packets : items[q] # "leased" => items'[q] = items[q]
    BY <1>1, <1>4 DEF BudgetInv, BudgetTypes
  <1>6. lease' \in [Tokens -> Lease]
    BY <1>1 DEF BudgetInv, BudgetTypes, Lease
  <1>7. w \in Thread /\ w.read = Blank
    BY EndedIsAThread, BlankIsHonest DEF BudgetInv, BudgetTypes, Thread
  <1> HIDE DEF w
  <1>8. /\ thread' \in [Tokens -> Thread]
        /\ \A u \in Tokens : thread'[u].read \in {thread[u].read, Blank}
    BY <1>2, <1>7 DEF BudgetInv, BudgetTypes
  <1>9. BudgetTypes'
    BY <1>1, <1>3, <1>5, <1>6, <1>8 DEF BudgetInv, BudgetTypes
  <1>10. Done(items) => Done(items')
    BY <1>5 DEF Done
  <1>11. Honest(detail', audit', items')
    BY <1>3, <1>10 DEF BudgetInv, Honest
  <1>12. /\ loop'.op = "tick" => \A q \in loop'.subject : q \in Packets /\ items'[q] = "absent"
         /\ loop'.op = "finish" => Done(items')
    BY <1>1, <1>5, <1>10 DEF BudgetInv
  <1> QED
    BY <1>1, <1>3, <1>8, <1>9, <1>10, <1>11, <1>12, CopiesKept

LEMMA CommitTellKeeps ==
    ASSUME BudgetInv, NEW t \in Tokens, CommitTell(t)
    PROVE  BudgetInv'
  <1> DEFINE label == IF thread[t].outcome = "failure" THEN "retryable_failed" ELSE "failed"
  <1>1. /\ detail' = [thread[t].read EXCEPT !.cache = label]
        /\ thread' = [thread EXCEPT ![t] = Ended]
        /\ UNCHANGED <<audit, items, lease, loop, operator>>
    BY DEF CommitTell
  <1>2. label \in {"retryable_failed", "failed"}
    OBVIOUS
  <1> HIDE DEF label
  <1>3. detail' \in Detail /\ Honest(detail', audit', items')
    BY <1>1, <1>2 DEF BudgetInv, BudgetTypes, Thread, Detail, CacheStatus, Honest, Lags
  <1>4. /\ thread' \in [Tokens -> Thread]
        /\ \A u \in Tokens : thread'[u].read \in {thread[u].read, Blank}
    BY <1>1, EndedIsAThread DEF BudgetInv, BudgetTypes
  <1>5. BudgetTypes'
    BY <1>1, <1>3, <1>4 DEF BudgetInv, BudgetTypes
  <1>6. \A c \in Counters : audit[c] <= audit'[c]
    BY <1>1 DEF BudgetInv, BudgetTypes, Events
  <1> QED
    BY <1>1, <1>3, <1>4, <1>5, <1>6, CopiesKept DEF BudgetInv

LEMMA BeginControlKeeps ==
    ASSUME BudgetInv, BeginControl
    PROVE  BudgetInv'
  <1>1. /\ operator' = Session("control", {})
        /\ UNCHANGED <<detail, audit, items, lease, thread, loop>>
    BY DEF BeginControl
  <1>2. operator' \in Sessional /\ operator'.read = detail
    BY <1>1 DEF Session, Sessional, BudgetInv, BudgetTypes
  <1> QED
    BY <1>1, <1>2 DEF BudgetInv, BudgetTypes

LEMMA NoSessionIsOne == NoSession \in Sessional /\ NoSession.read = Blank /\ NoSession.op = "none"
  BY DEF NoSession, Sessional, Blank, Detail, CacheStatus

LEMMA CommitControlKeeps ==
    ASSUME BudgetInv, CommitControl
    PROVE  BudgetInv'
  <1>1. /\ detail' = operator.read /\ operator' = NoSession
        /\ audit' = [audit EXCEPT !["control"] = audit["control"] + 1]
        /\ UNCHANGED <<items, lease, thread, loop>>
    BY DEF CommitControl
  <1>2. audit' \in [Events -> Nat] /\ \A c \in Counters : audit[c] <= audit'[c]
    BY <1>1, EventsAdded DEF BudgetInv, BudgetTypes, Events
  <1>3. operator.read \in Detail /\ audit \in [Events -> Nat]
    BY DEF BudgetInv, BudgetTypes, Sessional
  <1>4. Honest(detail', audit', items')
    BY <1>1, <1>2, <1>3, HonestStays DEF BudgetInv
  <1>5. BudgetTypes'
    BY <1>1, <1>2, <1>3, NoSessionIsOne DEF BudgetInv, BudgetTypes
  <1> QED
    BY <1>1, <1>2, <1>4, <1>5, NoSessionIsOne, CopiesKept DEF BudgetInv

LEMMA RestartKeeps ==
    ASSUME BudgetInv, Restart
    PROVE  BudgetInv'
  <1>1. /\ thread' = [t \in Tokens |-> IF Alive(t) THEN Ended ELSE thread[t]]
        /\ loop' = NoSession /\ operator' = NoSession
        /\ UNCHANGED <<detail, audit, items, lease>>
    BY DEF Restart
  <1>2. /\ thread' \in [Tokens -> Thread]
        /\ \A u \in Tokens : thread'[u].read \in {thread[u].read, Blank}
    BY <1>1, EndedIsAThread DEF BudgetInv, BudgetTypes
  <1>3. BudgetTypes'
    BY <1>1, <1>2, NoSessionIsOne DEF BudgetInv, BudgetTypes
  <1>4. \A c \in Counters : audit[c] <= audit'[c]
    BY <1>1 DEF BudgetInv, BudgetTypes, Events
  <1> QED
    BY <1>1, <1>2, <1>3, <1>4, NoSessionIsOne, CopiesKept DEF BudgetInv

LEMMA BudgetStep ==
    ASSUME BudgetAssumption, BudgetInv, [Next]_vars
    PROVE  BudgetInv'
  <1>1. CASE Loop
    BY <1>1, BeginTickKeeps, CommitTickKeeps, BeginFinishKeeps, CommitFinishKeeps, BeginReapKeeps,
       CommitReapKeeps, BeginPatchKeeps, CommitPatchKeeps DEF Loop
  <1>2. ASSUME NEW t \in Tokens, Worker(t)
        PROVE  BudgetInv'
    BY <1>2, BeginReportKeeps, HoldItemKeeps, CommitReportKeeps, BeginTellKeeps, CommitTellKeeps
       DEF Worker
  <1>3. CASE BeginControl \/ CommitControl \/ Restart
    BY <1>3, BeginControlKeeps, CommitControlKeeps, RestartKeeps
  <1>4. CASE UNCHANGED vars
    BY <1>4 DEF vars, BudgetInv, BudgetTypes
  <1> QED
    BY <1>1, <1>2, <1>3, <1>4 DEF Next

LEMMA BudgetInit ==
    ASSUME Init
    PROVE  BudgetInv
  <1>1. audit \in [Events -> Nat] /\ items \in [Packets -> ItemStatus] /\ detail = Blank
    BY DEF Init, ItemStatus
  <1>2. /\ lease \in [Tokens -> Lease] /\ thread \in [Tokens -> Thread]
        /\ \A t \in Tokens : thread[t].read = Blank
    BY BlankIsHonest, <1>1 DEF Init, Lease, NoThread, Thread
  <1>3. loop = NoSession /\ operator = NoSession
    BY DEF Init
  <1> QED
    BY <1>1, <1>2, <1>3, NoSessionIsOne, BlankIsHonest DEF BudgetInv, BudgetTypes

\* Types of the variables of RunBudget, for the constants the model assumes.
THEOREM BudgetTypeCorrect == ASSUME BudgetAssumption PROVE Spec => []TypeOK
  <1>1. Init => BudgetInv
    BY BudgetInit
  <1>2. BudgetInv /\ [Next]_vars => BudgetInv'
    BY BudgetStep
  <1>3. BudgetInv => TypeOK
    BY DEF BudgetInv, BudgetTypes, TypeOK, ItemStatus, Lease, Thread, Sessional
  <1> QED
    BY <1>1, <1>2, <1>3, PTL DEF Spec

\* However the sessions of the loop, the workers and the operator overlap, and
\* whichever of them writes its copy of the run's JSON value last, the counters
\* lag behind the audit trail and the stage cache tells no success that is none.
THEOREM CopiesAreHonest == ASSUME BudgetAssumption PROVE Spec => []NothingInvented
  <1>1. Init => BudgetInv
    BY BudgetInit
  <1>2. BudgetInv /\ [Next]_vars => BudgetInv'
    BY BudgetStep
  <1>3. BudgetInv => NothingInvented
    BY DEF BudgetInv, Honest, Lags, Done, NothingInvented, NeverOvercounts, CacheTellsNoSuccessLie,
           Counters
  <1> QED
    BY <1>1, <1>2, <1>3, PTL DEF Spec

-----------------------------------------------------------------------------
(* ChapterMemory: what the tables and the sessions hold *)

Steps == {"idle", "calling", "numbered", "approving", "rejecting", "reviewing", "merging"}
Work ==
    [step : Steps, pkt : SUBSET ChapterPackets, base : Nat, content : SUBSET ChapterPackets,
     run : Nat, chosen : SUBSET Run]
Snapshot == [active : BOOLEAN, content : SUBSET ChapterPackets]
Proposal == [status : ProposalStatus, base : Nat, content : SUBSET ChapterPackets]

MemoryTypes ==
    /\ packet \in [ChapterPackets -> {"built", "translated"}]
    /\ runs \in [ChapterPackets -> 0..MaxAttempt]
    /\ snapshots \in Seq(Snapshot)
    /\ proposal \in [Run -> Proposal] /\ order \in Seq(Run)
    /\ session \in [Sessions -> Work]

LastActive(snaps) == snaps # <<>> => snaps[Len(snaps)].active

\* A session that has numbered its attempt found all before it in the table.
Numbered(w) ==
    w.step = "numbered" => w.run \in 1..MaxAttempt /\ \A p \in w.pkt : w.run <= runs[p] + 1

\* No session has loaded a version that is not there, or a proposal that is not.
SessionOK(w) ==
    /\ w.base <= Len(snapshots) /\ Numbered(w)
    /\ \A r \in w.chosen : proposal[r].status # "none"

MemoryInv ==
    /\ MemoryTypes /\ LastActive(snapshots) /\ PendingIsNewest
    /\ \A s \in Sessions : SessionOK(session[s])
    /\ \A r \in Run : proposal[r].status = "none" <=> r[2] > runs[r[1]]

LEMMA Runs == \A r \in Run : r = <<r[1], r[2]>> /\ r[1] \in ChapterPackets /\ r[2] \in 1..MaxAttempt
  BY DEF Run

LEMMA RunsFinite ==
    ASSUME MemoryAssumption, NEW S \in SUBSET Run
    PROVE  Cardinality(S) \in Nat /\ (S # {} => Cardinality(S) > 0)
  <1>1. IsFiniteSet(1..MaxAttempt)
    BY FS_Interval DEF MemoryAssumption
  <1>2. IsFiniteSet(S)
    BY <1>1, FS_Product, FS_Subset DEF Run, MemoryAssumption
  <1> QED
    BY <1>2, FS_CardinalityType, FS_EmptySet

\* The newest version is the active one, when it is active.
LEMMA LatestIsLast ==
    ASSUME snapshots \in Seq(Snapshot), LastActive(snapshots)
    PROVE  Latest = Len(snapshots) /\ ContentAt(Latest) \in SUBSET ChapterPackets
  <1> DEFINE Newest(v) == /\ snapshots[v].active
                          /\ \A w \in DOMAIN snapshots : snapshots[w].active => w <= v
  <1>1. Len(snapshots) \in Nat /\ DOMAIN snapshots = 1..Len(snapshots)
    OBVIOUS
  <1>2. CASE snapshots = <<>>
    BY <1>2 DEF Latest, NoBase, ContentAt
  <1>3. CASE snapshots # <<>>
    <2>1. Len(snapshots) \in DOMAIN snapshots /\ snapshots[Len(snapshots)].active
      BY <1>3 DEF LastActive
    <2>2. Newest(Len(snapshots))
      BY <1>1, <2>1
    <2>3. \A v \in DOMAIN snapshots : Newest(v) => v = Len(snapshots)
      BY <1>1, <2>1
    <2>4. Latest = CHOOSE v \in DOMAIN snapshots : Newest(v)
      BY <2>1 DEF Latest
    <2> HIDE DEF Newest
    <2>5. Latest = Len(snapshots)
      BY <2>1, <2>2, <2>3, <2>4
    <2>6. snapshots[Len(snapshots)] \in Snapshot
      BY <1>1, <2>1
    <2>7. snapshots[Len(snapshots)].content \in SUBSET ChapterPackets
      BY <2>6 DEF Snapshot
    <2>8. Len(snapshots) # NoBase
      BY <1>1, <2>1 DEF NoBase
    <2> QED
      BY <2>5, <2>7, <2>8 DEF ContentAt
  <1> QED
    BY <1>2, <1>3

\* Each version that is added supersedes the one before, from the one that was
\* loaded on.  The newest version is active again, whether it is one of them or
\* others have gone on from the version that was loaded.
LEMMA NextVersionsKeep ==
    ASSUME NEW snaps \in Seq(Snapshot), LastActive(snaps), NEW loaded \in Nat,
           loaded <= Len(snaps), NEW contents \in Seq(SUBSET ChapterPackets), contents # <<>>
    PROVE  /\ NextVersions(snaps, loaded, contents) \in Seq(Snapshot)
           /\ Len(NextVersions(snaps, loaded, contents)) >= Len(snaps)
           /\ LastActive(NextVersions(snaps, loaded, contents))
  <1> DEFINE newest == loaded + Len(contents)
             n == IF newest < Len(snaps) THEN Len(snaps) ELSE newest
             At(v) == IF v \in loaded + 1..newest
                      THEN [active |-> v = newest, content |-> contents[v - loaded]]
                      ELSE IF v = loaded THEN [snaps[v] EXCEPT !.active = FALSE]
                      ELSE snaps[v]
             new == [v \in 1..n |-> At(v)]
  <1>1. NextVersions(snaps, loaded, contents) = new
    BY DEF NextVersions
  <1>2. /\ Len(snaps) \in Nat /\ Len(contents) \in Nat /\ Len(contents) >= 1
        /\ newest \in Nat /\ newest >= loaded + 1 /\ n \in Nat /\ n >= newest /\ n >= Len(snaps)
        /\ n = newest \/ (n = Len(snaps) /\ n > newest)
    OBVIOUS
  <1>3. \A v \in 1..n : At(v) \in Snapshot
    <2> SUFFICES ASSUME NEW v \in 1..n PROVE At(v) \in Snapshot
      OBVIOUS
    <2>1. CASE v \in loaded + 1..newest
      <3>1. v - loaded \in 1..Len(contents)
        BY <1>2, <2>1
      <3>2. contents[v - loaded] \in SUBSET ChapterPackets
        BY <3>1
      <3> QED
        BY <2>1, <3>2 DEF Snapshot
    <2>2. CASE v \notin loaded + 1..newest
      <3>1. v \in 1..Len(snaps)
        BY <1>2, <2>2
      <3>2. snaps[v] \in Snapshot
        BY <3>1
      <3> QED
        BY <2>2, <3>2 DEF Snapshot
    <2> QED
      BY <2>1, <2>2
  <1>4. At(n).active
    <2>1. CASE n = newest
      <3>1. n \in loaded + 1..newest
        BY <1>2, <2>1
      <3> QED
        BY <2>1, <3>1
    <2>2. CASE n = Len(snaps) /\ n > newest
      <3>1. n \notin loaded + 1..newest /\ n # loaded /\ snaps # <<>>
        BY <1>2, <2>2
      <3> QED
        BY <2>2, <3>1 DEF LastActive
    <2> QED
      BY <1>2, <2>1, <2>2
  <1> HIDE DEF n, newest, At
  <1>5. new \in Seq(Snapshot) /\ Len(new) = n /\ new[n] = At(n)
    BY <1>2, <1>3
  <1> QED
    BY <1>1, <1>2, <1>4, <1>5 DEF LastActive

\* What a review merges: contents of versions.
LEMMA MergedIsContents ==
    ASSUME MemoryAssumption, NEW content \in SUBSET ChapterPackets, NEW S \in SUBSET Run, S # {}
    PROVE  Merged(content, S) \in Seq(SUBSET ChapterPackets) /\ Merged(content, S) # <<>>
  <1> DEFINE n == Cardinality(S)
             At(k) == content \cup {r[1] : r \in {q \in S : Cardinality(Older(S, q)) < k}}
  <1>1. n \in Nat /\ n > 0
    BY RunsFinite
  <1>2. \A k \in 1..n : At(k) \in SUBSET ChapterPackets
    BY Runs
  <1>3. Merged(content, S) = [k \in 1..n |-> At(k)]
    BY DEF Merged
  <1> HIDE DEF n, At
  <1> QED
    BY <1>1, <1>2, <1>3

\* An approval retires what it does not commit, a rejection rejects what there is.
LEMMA Approves ==
    ASSUME NEW prop \in [Run -> Proposal], NEW S \in SUBSET Run,
           \A r \in S : prop[r].status # "none"
    PROVE  /\ Committed(Retired(prop, S), S) \in [Run -> Proposal]
           /\ \A r \in Run :
                 LET after == Committed(Retired(prop, S), S)[r].status
                 IN  /\ after = "none" <=> prop[r].status = "none"
                     /\ after = "proposed" => prop[r].status = "proposed"
  <1> DEFINE half == Retired(prop, S)
             after == Committed(half, S)
  <1>1. /\ half \in [Run -> Proposal]
        /\ \A r \in Run : /\ half[r].status = "none" <=> prop[r].status = "none"
                          /\ half[r].status = "proposed" => prop[r].status = "proposed"
    BY DEF Retired, Proposal, ProposalStatus
  <1> HIDE DEF half
  <1>2. after \in [Run -> Proposal]
    BY <1>1 DEF Committed, Proposal, ProposalStatus
  <1>3. \A r \in Run : after[r].status = IF r \in S THEN "committed" ELSE half[r].status
    BY <1>1 DEF Committed, Proposal
  <1>4. \A r \in Run : /\ after[r].status = "none" <=> prop[r].status = "none"
                       /\ after[r].status = "proposed" => prop[r].status = "proposed"
    BY <1>1, <1>3
  <1> QED
    BY <1>2, <1>4 DEF half

LEMMA RejectedIs ==
    ASSUME NEW prop \in [Run -> Proposal], NEW S \in SUBSET Run
    PROVE  /\ Rejected(prop, S) \in [Run -> Proposal]
           /\ \A r \in Run :
                 Rejected(prop, S)[r].status = IF r \in S THEN "rejected" ELSE prop[r].status
  BY DEF Rejected, Proposal, ProposalStatus

LEMMA Rejects ==
    ASSUME NEW prop \in [Run -> Proposal], NEW S \in SUBSET Run,
           \A r \in S : prop[r].status # "none"
    PROVE  /\ Rejected(prop, S) \in [Run -> Proposal]
           /\ \A r \in Run :
                 /\ Rejected(prop, S)[r].status = "none" <=> prop[r].status = "none"
                 /\ Rejected(prop, S)[r].status = "proposed" => prop[r].status = "proposed"
  BY RejectedIs

-----------------------------------------------------------------------------
(* The steps of the sessions keep it *)

LEMMA IdleIsOne == Idle \in Work /\ Idle.step = "idle" /\ Idle.base = 0 /\ Idle.chosen = {}
  BY DEF Idle, Work, Steps, NoBase

\* A step that only moves a session on.
LEMMA Opens ==
    ASSUME MemoryInv, NEW s \in Sessions, NEW w \in Work, SessionOK(w), Became(s, w),
           UNCHANGED <<packet, runs, snapshots, proposal, order>>
    PROVE  MemoryInv'
  <1>1. session' \in [Sessions -> Work] /\ \A t \in Sessions : session'[t] \in {session[t], w}
    BY DEF Became, MemoryInv, MemoryTypes
  <1>2. MemoryTypes'
    BY <1>1 DEF MemoryInv, MemoryTypes
  <1>3. \A t \in Sessions : SessionOK(session[t])'
    BY <1>1 DEF MemoryInv, SessionOK, Numbered
  <1> QED
    BY <1>2, <1>3 DEF MemoryInv, PendingIsNewest

\* A step that ends a session, and may have decided proposals and written
\* versions of the memory.
LEMMA Closes ==
    ASSUME MemoryInv, NEW s \in Sessions, Became(s, Idle), UNCHANGED <<packet, runs, order>>,
           snapshots' \in Seq(Snapshot), Len(snapshots') >= Len(snapshots), LastActive(snapshots'),
           proposal' \in [Run -> Proposal],
           \A r \in Run : /\ proposal'[r].status = "none" <=> proposal[r].status = "none"
                          /\ proposal'[r].status = "proposed" => proposal[r].status = "proposed"
    PROVE  MemoryInv'
  <1>1. session' \in [Sessions -> Work] /\ \A t \in Sessions : session'[t] \in {session[t], Idle}
    BY IdleIsOne DEF Became, MemoryInv, MemoryTypes
  <1>2. MemoryTypes'
    BY <1>1 DEF MemoryInv, MemoryTypes
  <1>3. ASSUME NEW t \in Sessions
        PROVE  SessionOK(session[t])'
    <2>1. CASE session'[t] = Idle
      <3>1. Len(snapshots') \in Nat
        OBVIOUS
      <3> QED
        BY <2>1, <3>1, IdleIsOne DEF SessionOK, Numbered
    <2>2. CASE session'[t] = session[t]
      <3>1. session[t] \in Work /\ SessionOK(session[t])
        BY DEF MemoryInv, MemoryTypes
      <3>2. session[t].base \in Nat /\ session[t].chosen \in SUBSET Run
        BY <3>1 DEF Work
      <3>3. Len(snapshots) \in Nat /\ Len(snapshots') \in Nat
        BY DEF MemoryInv, MemoryTypes
      <3>4. session'[t].base <= Len(snapshots')
        BY <2>2, <3>1, <3>2, <3>3 DEF SessionOK
      <3>5. \A r \in session'[t].chosen : proposal'[r].status # "none"
        BY <2>2, <3>1, <3>2 DEF SessionOK
      <3>6. Numbered(session[t])'
        BY <2>2, <3>1 DEF SessionOK, Numbered
      <3> QED
        BY <3>4, <3>5, <3>6 DEF SessionOK
    <2> QED
      BY <1>1, <2>1, <2>2
  <1>4. PendingIsNewest'
    BY DEF MemoryInv, PendingIsNewest
  <1>5. LastActive(snapshots)'
    BY DEF LastActive
  <1>6. \A r \in Run : proposal'[r].status = "none" <=> r[2] > runs'[r[1]]
    BY DEF MemoryInv
  <1> QED
    BY <1>2, <1>3, <1>4, <1>5, <1>6 DEF MemoryInv

\* Both begin to translate: the memory that is loaded is the newest.
LEMMA BeginTranslationKeeps ==
    ASSUME MemoryInv, NEW s \in Sessions, NEW p \in ChapterPackets,
           BeginTranslation(s, p) \/ BeginRerun(s, p)
    PROVE  MemoryInv'
  <1> DEFINE from == [Idle EXCEPT !.step = "calling", !.pkt = {p}, !.base = Latest,
                                  !.content = ContentAt(Latest)]
             again == [Idle EXCEPT !.step = "calling", !.pkt = {p}, !.base = Latest,
                                   !.content = ContentAt(Latest), !.chosen = Pending(p)]
  <1>1. /\ Latest = Len(snapshots) /\ Len(snapshots) \in Nat
        /\ ContentAt(Latest) \in SUBSET ChapterPackets
    BY LatestIsLast DEF MemoryInv, MemoryTypes
  <1>2. Pending(p) \in SUBSET Run /\ \A r \in Pending(p) : proposal[r].status # "none"
    BY DEF Pending
  <1>3. from \in Work /\ again \in Work
    BY <1>1, <1>2 DEF Idle, Work, Steps, NoBase
  <1>4. SessionOK(from) /\ SessionOK(again)
    BY <1>1, <1>2 DEF Idle, SessionOK, Numbered
  <1>5. /\ Became(s, from) \/ Became(s, again)
        /\ UNCHANGED <<packet, runs, snapshots, proposal, order>>
    BY DEF BeginTranslation, BeginRerun
  <1> HIDE DEF from, again
  <1> QED
    BY <1>3, <1>4, <1>5, Opens

LEMMA NumberAttemptKeeps ==
    ASSUME MemoryAssumption, MemoryInv, NEW s \in Sessions, NEW p \in ChapterPackets,
           NumberAttempt(s, p)
    PROVE  MemoryInv'
  <1> DEFINE w == [session[s] EXCEPT !.step = "numbered", !.run = NextAttempt(p)]
  <1>1. session[s] \in Work /\ SessionOK(session[s]) /\ session[s].pkt = {p}
    BY DEF NumberAttempt, MemoryInv, MemoryTypes
  <1>2. runs[p] \in Nat /\ MaxAttempt \in Nat
    BY DEF MemoryInv, MemoryTypes, MemoryAssumption
  <1>3. NextAttempt(p) = runs[p] + 1 /\ NextAttempt(p) \in 1..MaxAttempt /\ NextAttempt(p) \in Nat
    BY <1>2 DEF NextAttempt, NumberAttempt
  <1>4. w \in Work
    BY <1>1, <1>3 DEF Work, Steps
  <1>5. /\ w.step = "numbered" /\ w.run = NextAttempt(p) /\ w.pkt = {p}
        /\ w.base = session[s].base /\ w.chosen = session[s].chosen
    BY <1>1 DEF Work
  <1>6. SessionOK(w)
    BY <1>1, <1>2, <1>3, <1>5 DEF SessionOK, Numbered
  <1>7. Became(s, w) /\ UNCHANGED <<packet, runs, snapshots, proposal, order>>
    BY DEF NumberAttempt
  <1> HIDE DEF w
  <1> QED
    BY <1>4, <1>6, <1>7, Opens

\* Its attempt is still the next, so the proposals of the packet that it retires
\* are those of all earlier attempts.
LEMMA SaveTranslationKeeps ==
    ASSUME MemoryAssumption, MemoryInv, NEW s \in Sessions, NEW p \in ChapterPackets,
           SaveTranslation(s, p)
    PROVE  MemoryInv'
  <1> DEFINE r == <<p, session[s].run>>
             made == [status |-> "proposed", base |-> session[s].base,
                      content |-> session[s].content \cup {p}]
             retired == Retired(proposal, {r})
             decided == Rejected(retired, session[s].chosen)
  <1>1. session[s] \in Work /\ SessionOK(session[s]) /\ Numbered(session[s]) /\ Became(s, Idle)
        /\ session[s].step = "numbered" /\ session[s].pkt = {p} /\ UNCHANGED snapshots
    BY DEF SaveTranslation, SessionOK, MemoryInv, MemoryTypes
  <1>2. runs[p] \in 0..MaxAttempt /\ MaxAttempt \in Nat
    BY DEF MemoryInv, MemoryTypes, MemoryAssumption
  <1>3. session[s].run \in 1..MaxAttempt /\ session[s].run <= runs[p] + 1
    BY <1>1 DEF Numbered
  <1>4. r \in Run /\ r[1] = p /\ r[2] = session[s].run
    BY <1>3 DEF Run
  <1>5. CASE runs[p] >= session[s].run
    <2>1. UNCHANGED <<packet, runs, proposal, order>>
      BY <1>5 DEF SaveTranslation
    <2> QED
      BY <1>1, <2>1, Closes DEF MemoryInv, MemoryTypes
  <1>6. CASE ~(runs[p] >= session[s].run)
    <2>1. /\ packet' = [packet EXCEPT ![p] = "translated"]
          /\ runs' = [runs EXCEPT ![p] = session[s].run]
          /\ proposal' = [decided EXCEPT ![r] = made]
          /\ order' = Append(order, r)
      BY <1>6 DEF SaveTranslation
    <2>2. session[s].run = runs[p] + 1
      BY <1>2, <1>3, <1>6
    <2>3. made \in Proposal /\ made.status = "proposed"
      BY <1>1 DEF Work, Proposal, ProposalStatus
    <2>4. proposal \in [Run -> Proposal] /\ session[s].chosen \in SUBSET Run
      BY <1>1 DEF Work, MemoryInv, MemoryTypes
    <2>5. /\ retired \in [Run -> Proposal]
          /\ \A q \in Run :
                /\ retired[q].status = "none" <=> proposal[q].status = "none"
                /\ retired[q].status = "proposed" => proposal[q].status = "proposed"
                /\ q # r /\ q[1] = p => retired[q].status # "proposed"
      BY <1>4, <2>4 DEF Retired, Proposal, ProposalStatus
    <2> HIDE DEF retired
    <2>6. /\ decided \in [Run -> Proposal]
          /\ \A q \in Run :
                /\ decided[q].status = "none" <=> proposal[q].status = "none"
                /\ decided[q].status = "proposed" => proposal[q].status = "proposed"
                /\ q # r /\ q[1] = p => decided[q].status # "proposed"
      <3>1. \A q \in session[s].chosen : proposal[q].status # "none"
        BY <1>1 DEF SessionOK
      <3>2. decided \in [Run -> Proposal]
        BY <2>4, <2>5, RejectedIs
      <3>3. \A q \in Run : decided[q].status =
               IF q \in session[s].chosen THEN "rejected" ELSE retired[q].status
        BY <2>4, <2>5, RejectedIs
      <3> QED
        BY <2>5, <3>1, <3>2, <3>3
    <2> HIDE DEF decided, made
    <2>7. /\ proposal' \in [Run -> Proposal] /\ proposal'[r] = made
          /\ \A q \in Run : q # r => proposal'[q] = decided[q]
      BY <1>4, <2>1, <2>3, <2>6
    <2>8. /\ runs' \in [ChapterPackets -> 0..MaxAttempt] /\ runs'[p] = runs[p] + 1
          /\ \A q \in ChapterPackets : q # p => runs'[q] = runs[q]
      BY <1>2, <1>3, <2>1, <2>2 DEF MemoryInv, MemoryTypes
    <2>9. session' \in [Sessions -> Work] /\ \A t \in Sessions : session'[t] \in {session[t], Idle}
      BY <1>1, IdleIsOne DEF Became, MemoryInv, MemoryTypes
    <2>10. MemoryTypes'
      <3>1. packet' \in [ChapterPackets -> {"built", "translated"}] /\ order' \in Seq(Run)
        BY <1>4, <2>1 DEF MemoryInv, MemoryTypes
      <3> QED
        BY <1>1, <2>7, <2>8, <2>9, <3>1 DEF MemoryInv, MemoryTypes
    <2> HIDE DEF r
    <2>11. \A q \in Run : proposal'[q].status = "none" <=> q[2] > runs'[q[1]]
      <3> SUFFICES ASSUME NEW q \in Run
                   PROVE  proposal'[q].status = "none" <=> q[2] > runs'[q[1]]
        OBVIOUS
      <3>1. q = <<q[1], q[2]>> /\ q[1] \in ChapterPackets /\ q[2] \in Nat
        BY Runs, <1>2
      <3>2. r = <<p, runs[p] + 1>>
        BY <2>2 DEF r
      <3>3. CASE q = r
        BY <1>2, <1>4, <2>2, <2>3, <2>7, <2>8, <3>3
      <3>4. CASE q # r
        <4>1. proposal'[q].status = "none" <=> q[2] > runs[q[1]]
          BY <2>6, <2>7, <3>4 DEF MemoryInv
        <4>2. q[1] = p => (q[2] > runs[p] <=> q[2] > runs[p] + 1)
          BY <1>2, <3>1, <3>2, <3>4
        <4> QED
          BY <2>8, <3>1, <4>1, <4>2
      <3> QED
        BY <3>3, <3>4
    <2>12. PendingIsNewest'
      <3> SUFFICES ASSUME NEW q \in Run, proposal'[q].status = "proposed"
                   PROVE  q[2] = runs'[q[1]]
        BY DEF PendingIsNewest
      <3>1. q[1] \in ChapterPackets
        BY Runs
      <3>2. CASE q = r
        BY <1>4, <2>2, <2>8, <3>2
      <3>3. CASE q # r
        <4>1. q[1] # p /\ proposal[q].status = "proposed"
          BY <2>6, <2>7, <3>3
        <4> QED
          BY <2>8, <3>1, <4>1 DEF MemoryInv, PendingIsNewest
      <3> QED
        BY <3>2, <3>3
    <2>13. ASSUME NEW t \in Sessions
           PROVE  SessionOK(session[t])'
      <3>1. CASE session'[t] = Idle
        <4>1. Len(snapshots') \in Nat
          BY <1>1 DEF MemoryInv, MemoryTypes
        <4> QED
          BY <3>1, <4>1, IdleIsOne DEF SessionOK, Numbered
      <3>2. CASE session'[t] = session[t]
        <4>1. session[t] \in Work /\ SessionOK(session[t])
          BY DEF MemoryInv, MemoryTypes
        <4>2. session[t].pkt \in SUBSET ChapterPackets /\ session[t].chosen \in SUBSET Run
              /\ session[t].run \in Nat
          BY <4>1 DEF Work
        <4>3. \A q \in session[t].chosen : proposal'[q].status # "none"
          <5>1. \A q \in session[t].chosen : proposal[q].status # "none"
            BY <4>1 DEF SessionOK
          <5> QED
            BY <2>3, <2>6, <2>7, <4>2, <5>1
        <4>4. ASSUME NEW q \in ChapterPackets
              PROVE  runs[q] \in Nat /\ runs'[q] \in Nat /\ runs[q] <= runs'[q]
          <5>1. runs[q] \in 0..MaxAttempt
            BY DEF MemoryInv, MemoryTypes
          <5>2. runs'[q] \in {runs[q], runs[q] + 1}
            BY <2>8
          <5> QED
            BY <1>2, <5>1, <5>2
        <4>5. Numbered(session[t])'
          <5>1. Numbered(session[t])
            BY <4>1 DEF SessionOK
          <5>2. ASSUME session[t].step = "numbered", NEW q \in session[t].pkt
                PROVE  session[t].run <= runs'[q] + 1
            <6>1. session[t].run <= runs[q] + 1 /\ q \in ChapterPackets
              BY <4>2, <5>1, <5>2 DEF Numbered
            <6> QED
              BY <4>2, <4>4, <6>1
          <5> QED
            BY <3>2, <5>1, <5>2 DEF Numbered
        <4> QED
          BY <1>1, <3>2, <4>1, <4>3, <4>5 DEF SessionOK
      <3> QED
        BY <2>9, <3>1, <3>2
    <2>14. LastActive(snapshots)'
      BY <1>1 DEF MemoryInv
    <2> QED
      BY <2>10, <2>11, <2>12, <2>13, <2>14 DEF MemoryInv
  <1> QED
    BY <1>5, <1>6

\* The approval of a proposal supersedes the version that was loaded, whichever
\* versions others have written since.
LEMMA FinishApprovalKeeps ==
    ASSUME MemoryInv, NEW s \in Sessions, FinishApproval(s)
    PROVE  MemoryInv'
  <1>1. session[s] \in Work /\ SessionOK(session[s])
    BY DEF MemoryInv, MemoryTypes
  <1>2. PICK r \in session[s].chosen :
           /\ snapshots' = NextVersions(snapshots, session[s].base, <<proposal[r].content>>)
           /\ proposal' = Committed(Retired(proposal, {r}), {r})
    BY DEF FinishApproval
  <1>3. r \in Run /\ proposal[r].status # "none" /\ session[s].base \in Nat
        /\ session[s].base <= Len(snapshots)
    BY <1>1 DEF Work, SessionOK
  <1>4. snapshots \in Seq(Snapshot) /\ LastActive(snapshots) /\ proposal \in [Run -> Proposal]
    BY DEF MemoryInv, MemoryTypes
  <1>5. proposal[r].content \in SUBSET ChapterPackets
    BY <1>3, <1>4 DEF Proposal
  <1>6. /\ snapshots' \in Seq(Snapshot) /\ Len(snapshots') >= Len(snapshots)
        /\ LastActive(snapshots')
    <2>1. <<proposal[r].content>> \in Seq(SUBSET ChapterPackets) /\ <<proposal[r].content>> # <<>>
      BY <1>5
    <2> QED
      BY <1>2, <1>3, <1>4, <2>1, NextVersionsKeep
  <1>7. /\ proposal' \in [Run -> Proposal]
        /\ \A q \in Run : /\ proposal'[q].status = "none" <=> proposal[q].status = "none"
                          /\ proposal'[q].status = "proposed" => proposal[q].status = "proposed"
    BY <1>2, <1>3, <1>4, Approves
  <1> QED
    BY <1>6, <1>7, Closes DEF FinishApproval

LEMMA BeginApprovalKeeps ==
    ASSUME MemoryInv, NEW s \in Sessions, NEW r \in Run, BeginApproval(s, r) \/ BeginRejection(s, r)
    PROVE  MemoryInv'
  <1> DEFINE approving == [Idle EXCEPT !.step = "approving", !.chosen = {r}, !.base = Latest]
             rejecting == [Idle EXCEPT !.step = "rejecting", !.chosen = {r}]
  <1>1. Latest = Len(snapshots) /\ Len(snapshots) \in Nat
    BY LatestIsLast DEF MemoryInv, MemoryTypes
  <1>2. approving \in Work /\ rejecting \in Work
    BY <1>1 DEF Idle, Work, Steps, NoBase
  <1>3. proposal[r].status # "none"
    BY DEF BeginApproval, BeginRejection
  <1>4. SessionOK(approving) /\ SessionOK(rejecting)
    BY <1>1, <1>3 DEF Idle, SessionOK, Numbered, NoBase
  <1>5. /\ Became(s, approving) \/ Became(s, rejecting)
        /\ UNCHANGED <<packet, runs, snapshots, proposal, order>>
    BY DEF BeginApproval, BeginRejection
  <1> HIDE DEF approving, rejecting
  <1> QED
    BY <1>2, <1>4, <1>5, Opens

LEMMA FinishRejectionKeeps ==
    ASSUME MemoryInv, NEW s \in Sessions, FinishRejection(s)
    PROVE  MemoryInv'
  <1>1. session[s].chosen \in SUBSET Run /\ \A r \in session[s].chosen : proposal[r].status # "none"
    BY DEF MemoryInv, MemoryTypes, Work, SessionOK
  <1>2. /\ proposal' \in [Run -> Proposal]
        /\ \A q \in Run : /\ proposal'[q].status = "none" <=> proposal[q].status = "none"
                          /\ proposal'[q].status = "proposed" => proposal[q].status = "proposed"
    BY <1>1, Rejects DEF FinishRejection, MemoryInv, MemoryTypes
  <1>3. snapshots' = snapshots /\ snapshots \in Seq(Snapshot) /\ LastActive(snapshots)
        /\ Len(snapshots) \in Nat
    BY DEF FinishRejection, MemoryInv, MemoryTypes
  <1>4. Len(snapshots') >= Len(snapshots)
    BY <1>3
  <1> QED
    BY <1>2, <1>3, <1>4, Closes DEF FinishRejection

\* A review has loaded the newest run of each packet: each has a proposal.
LEMMA BeginReviewKeeps ==
    ASSUME MemoryAssumption, MemoryInv, NEW s \in Sessions, BeginReview(s)
    PROVE  MemoryInv'
  <1> DEFINE newest == {r \in Run : r[2] = runs[r[1]]}
             w == [Idle EXCEPT !.step = "reviewing", !.chosen = newest]
  <1>1. w \in Work
    BY DEF Idle, Work, Steps, NoBase
  <1>2. \A r \in newest : proposal[r].status # "none"
    <2> SUFFICES ASSUME NEW r \in newest PROVE proposal[r].status # "none"
      OBVIOUS
    <2>1. r \in Run /\ r[1] \in ChapterPackets /\ r[2] = runs[r[1]]
      BY Runs
    <2>2. runs[r[1]] \in 0..MaxAttempt /\ MaxAttempt \in Nat
      BY <2>1 DEF MemoryInv, MemoryTypes, MemoryAssumption
    <2> QED
      BY <2>1, <2>2 DEF MemoryInv
  <1>3. w.step = "reviewing" /\ w.base = 0 /\ w.chosen = newest
    BY DEF Idle, NoBase
  <1>4. SessionOK(w)
    <2>1. Len(snapshots) \in Nat
      BY DEF MemoryInv, MemoryTypes
    <2> QED
      BY <1>2, <1>3, <2>1 DEF SessionOK, Numbered
  <1>5. Became(s, w) /\ UNCHANGED <<packet, runs, snapshots, proposal, order>>
    BY DEF BeginReview
  <1> HIDE DEF w
  <1> QED
    BY <1>1, <1>4, <1>5, Opens

LEMMA ReviewBlocksKeeps ==
    ASSUME MemoryInv, NEW s \in Sessions, NEW blocked \in SUBSET ChapterPackets,
           ReviewBlocks(s, blocked)
    PROVE  MemoryInv'
  <1> DEFINE S == UNION {Pending(p) : p \in blocked}
  <1>1. S \in SUBSET Run /\ \A r \in S : proposal[r].status # "none"
    BY DEF Pending
  <1>2. proposal' = Rejected(proposal, S) /\ proposal \in [Run -> Proposal]
    BY DEF ReviewBlocks, MemoryInv, MemoryTypes
  <1> HIDE DEF S
  <1>3. /\ proposal' \in [Run -> Proposal]
        /\ \A q \in Run : /\ proposal'[q].status = "none" <=> proposal[q].status = "none"
                          /\ proposal'[q].status = "proposed" => proposal[q].status = "proposed"
    BY <1>1, <1>2, Rejects
  <1>4. snapshots' = snapshots /\ snapshots \in Seq(Snapshot) /\ LastActive(snapshots)
        /\ Len(snapshots) \in Nat
    BY DEF ReviewBlocks, MemoryInv, MemoryTypes
  <1>5. Len(snapshots') >= Len(snapshots)
    BY <1>4
  <1> QED
    BY <1>3, <1>4, <1>5, Closes DEF ReviewBlocks

LEMMA ReviewPassesKeeps ==
    ASSUME MemoryInv, NEW s \in Sessions, ReviewPasses(s)
    PROVE  MemoryInv'
  <1> DEFINE pending == {r \in session[s].chosen : proposal[r].status = "proposed"}
             w == [session[s] EXCEPT !.step = "merging", !.base = Latest,
                                     !.content = ContentAt(Latest), !.chosen = pending]
  <1>1. session[s] \in Work
    BY DEF MemoryInv, MemoryTypes
  <1>2. pending \in SUBSET Run
    BY <1>1 DEF Work
  <1>3. /\ Latest = Len(snapshots) /\ Len(snapshots) \in Nat
        /\ ContentAt(Latest) \in SUBSET ChapterPackets
    BY LatestIsLast DEF MemoryInv, MemoryTypes
  <1>4. w \in Work
    BY <1>1, <1>2, <1>3 DEF Work, Steps
  <1>5. w.step = "merging" /\ w.base = Latest /\ w.chosen = pending
    BY <1>1 DEF Work
  <1>6. \A r \in pending : proposal[r].status # "none"
    OBVIOUS
  <1>7. Became(s, w) /\ UNCHANGED <<packet, runs, snapshots, proposal, order>>
    BY DEF ReviewPasses
  <1> HIDE DEF w, pending
  <1>8. SessionOK(w)
    BY <1>3, <1>5, <1>6 DEF SessionOK, Numbered
  <1> QED
    BY <1>4, <1>7, <1>8, Opens

LEMMA FinishReviewKeeps ==
    ASSUME MemoryAssumption, MemoryInv, NEW s \in Sessions, FinishReview(s)
    PROVE  MemoryInv'
  <1> DEFINE S == session[s].chosen
             merged == Merged(session[s].content, S)
  <1>1. session[s] \in Work /\ SessionOK(session[s])
    BY DEF MemoryInv, MemoryTypes
  <1>2. S \in SUBSET Run /\ (\A r \in S : proposal[r].status # "none")
        /\ session[s].base \in Nat /\ session[s].base <= Len(snapshots)
        /\ session[s].content \in SUBSET ChapterPackets
    BY <1>1 DEF Work, SessionOK
  <1>3. /\ snapshots' = (IF S = {} THEN snapshots
                         ELSE NextVersions(snapshots, session[s].base, merged))
        /\ proposal' = Committed(Retired(proposal, S), S)
    BY DEF FinishReview
  <1>4. snapshots \in Seq(Snapshot) /\ LastActive(snapshots) /\ proposal \in [Run -> Proposal]
        /\ Len(snapshots) \in Nat
    BY DEF MemoryInv, MemoryTypes
  <1>5. S # {} => merged \in Seq(SUBSET ChapterPackets) /\ merged # <<>>
    BY <1>2, MergedIsContents
  <1> HIDE DEF S, merged
  <1>6. /\ snapshots' \in Seq(Snapshot) /\ Len(snapshots') >= Len(snapshots)
        /\ LastActive(snapshots')
    <2>1. CASE S = {}
      BY <1>3, <1>4, <2>1
    <2>2. CASE S # {}
      BY <1>2, <1>3, <1>4, <1>5, <2>2, NextVersionsKeep
    <2> QED
      BY <2>1, <2>2
  <1>7. /\ proposal' \in [Run -> Proposal]
        /\ \A q \in Run : /\ proposal'[q].status = "none" <=> proposal[q].status = "none"
                          /\ proposal'[q].status = "proposed" => proposal[q].status = "proposed"
    BY <1>2, <1>3, <1>4, Approves
  <1> QED
    BY <1>6, <1>7, Closes DEF FinishReview

LEMMA AbortKeeps ==
    ASSUME MemoryInv, NEW s \in Sessions, Abort(s)
    PROVE  MemoryInv'
  <1>1. SessionOK(Idle)
    <2>1. Len(snapshots) \in Nat
      BY DEF MemoryInv, MemoryTypes
    <2> QED
      BY <2>1, IdleIsOne DEF SessionOK, Numbered
  <1> QED
    BY <1>1, IdleIsOne, Opens DEF Abort

LEMMA MemoryStep ==
    ASSUME MemoryAssumption, MemoryInv, [MemoryNext]_memoryVars
    PROVE  MemoryInv'
  <1>1. ASSUME NEW s \in Sessions, NEW p \in ChapterPackets,
               \/ BeginTranslation(s, p)
               \/ BeginRerun(s, p)
               \/ NumberAttempt(s, p)
               \/ SaveTranslation(s, p)
        PROVE  MemoryInv'
    BY <1>1, BeginTranslationKeeps, NumberAttemptKeeps, SaveTranslationKeeps
  <1>2. ASSUME NEW s \in Sessions, NEW r \in Run, BeginApproval(s, r) \/ BeginRejection(s, r)
        PROVE  MemoryInv'
    BY <1>2, BeginApprovalKeeps
  <1>3. ASSUME NEW s \in Sessions,
               \/ FinishApproval(s)
               \/ FinishRejection(s)
               \/ BeginReview(s)
               \/ ReviewPasses(s)
               \/ FinishReview(s)
               \/ Abort(s)
        PROVE  MemoryInv'
    BY <1>3, FinishApprovalKeeps, FinishRejectionKeeps, BeginReviewKeeps, ReviewPassesKeeps,
       FinishReviewKeeps, AbortKeeps
  <1>4. ASSUME NEW s \in Sessions, NEW blocked \in SUBSET ChapterPackets, ReviewBlocks(s, blocked)
        PROVE  MemoryInv'
    BY <1>4, ReviewBlocksKeeps
  <1>5. CASE UNCHANGED memoryVars
    BY <1>5 DEF memoryVars, MemoryInv, MemoryTypes, LastActive, PendingIsNewest, SessionOK, Numbered
  <1> QED
    BY <1>1, <1>2, <1>3, <1>4, <1>5 DEF MemoryNext

LEMMA MemoryStarts ==
    ASSUME MemoryAssumption, MemoryInit
    PROVE  MemoryInv
  <1>1. ASSUME NEW r \in Run
        PROVE  proposal[r].status = "none" /\ proposal[r] \in Proposal /\ r[2] > runs[r[1]]
    <2>1. r[1] \in ChapterPackets /\ r[2] \in 1..MaxAttempt /\ MaxAttempt \in Nat
      BY Runs DEF MemoryAssumption
    <2>2. proposal[r] = [status |-> "none", base |-> 0, content |-> {}] /\ runs[r[1]] = 0
      BY <2>1 DEF MemoryInit, NoBase
    <2> QED
      BY <2>1, <2>2 DEF Proposal, ProposalStatus
  <1>2. session \in [Sessions -> Work] /\ \A s \in Sessions : session[s] = Idle
    BY IdleIsOne DEF MemoryInit
  <1>3. MemoryTypes
    <2>1. proposal \in [Run -> Proposal]
      BY <1>1 DEF MemoryInit
    <2>2. runs \in [ChapterPackets -> 0..MaxAttempt]
      BY DEF MemoryInit, MemoryAssumption
    <2>3. packet \in [ChapterPackets -> {"built", "translated"}]
      BY DEF MemoryInit
    <2>4. snapshots \in Seq(Snapshot) /\ order \in Seq(Run)
      BY DEF MemoryInit
    <2> QED
      BY <1>2, <2>1, <2>2, <2>3, <2>4 DEF MemoryTypes
  <1>4. PendingIsNewest /\ LastActive(snapshots) /\ Len(snapshots) = 0
    BY <1>1 DEF PendingIsNewest, LastActive, MemoryInit
  <1> QED
    BY <1>1, <1>2, <1>3, <1>4, IdleIsOne DEF MemoryInv, SessionOK, Numbered

\* Types of the variables of ChapterMemory, and a proposal for each translation
\* run, for the constants the model assumes.
THEOREM MemoryTypeCorrect == ASSUME MemoryAssumption PROVE MemorySpec => []MemoryTypeOK
  <1>1. MemoryInit => MemoryInv
    BY MemoryStarts
  <1>2. MemoryInv /\ [MemoryNext]_memoryVars => MemoryInv'
    BY MemoryStep
  <1>3. MemoryInv => MemoryTypeOK
    <2> SUFFICES ASSUME MemoryInv
                 PROVE  MemoryTypeOK
      OBVIOUS
    <2>1. ASSUME NEW v \in DOMAIN snapshots
          PROVE  snapshots[v].content \subseteq ChapterPackets
      <3>1. snapshots[v] \in Snapshot
        BY DEF MemoryInv, MemoryTypes
      <3> QED
        BY <3>1 DEF Snapshot
    <2> QED
      BY <2>1 DEF MemoryInv, MemoryTypes, MemoryTypeOK
  <1> QED
    BY <1>1, <1>2, <1>3, PTL DEF MemorySpec

\* However many sessions approve, review and translate at once, the newest version
\* of the memory is the active one, although each supersedes only the version it
\* has loaded.
THEOREM NewestVersionIsActive == ASSUME MemoryAssumption PROVE MemorySpec => []NewestIsActive
  <1>1. MemoryInit => MemoryInv
    BY MemoryStarts
  <1>2. MemoryInv /\ [MemoryNext]_memoryVars => MemoryInv'
    BY MemoryStep
  <1>3. MemoryInv => NewestIsActive
    BY LatestIsLast DEF MemoryInv, MemoryTypes, NewestIsActive
  <1> QED
    BY <1>1, <1>2, <1>3, PTL DEF MemorySpec

\* A proposal that is pending is of its packet's newest translation, whichever
\* sessions translate the packet at once and whatever is decided meanwhile.
THEOREM PendingOfNewest == ASSUME MemoryAssumption PROVE MemorySpec => []PendingIsNewest
  <1>1. MemoryInit => MemoryInv
    BY MemoryStarts
  <1>2. MemoryInv /\ [MemoryNext]_memoryVars => MemoryInv'
    BY MemoryStep
  <1>3. MemoryInv => PendingIsNewest
    BY DEF MemoryInv
  <1> QED
    BY <1>1, <1>2, <1>3, PTL DEF MemorySpec

====
