------------------------- MODULE RunPipeline_proofs -------------------------
(***************************************************************************)
(* What holds of every run, for any number of chapters and packets, any    *)
(* number of parallel workers and any number of faults.                    *)
(*                                                                         *)
(* All steps but the dispatch of packets only settle items that are in     *)
(* flight, or put them back, so most of the proofs look at two kinds of    *)
(* step (Settles, TranslateStage).  What the properties need besides       *)
(* themselves: threads and lapsed leases are of items in flight, a done    *)
(* item's packet is translated, and a chapter's items have no gap.         *)
(***************************************************************************)
EXTENDS RunPipeline, FiniteSetTheorems, TLAPS

-----------------------------------------------------------------------------
(* Packets                                                                   *)

LEMMA PacketsArePairs ==
    \A p \in Packets : p \in Chapters \X Nat /\ p = <<p[1], p[2]>> /\ p[1] \in Chapters /\ p[2] \in Nat
  BY PipelineAssumption DEF Packets

\* The packets of a chapter are in a total order.
LEMMA BeforeTotal ==
    ASSUME NEW p \in Packets, NEW q \in Packets, p[1] = q[1]
    PROVE  p = q \/ Before(p, q) \/ Before(q, p)
  <1>1. p = <<p[1], p[2]>> /\ q = <<q[1], q[2]>> /\ p[2] \in Nat /\ q[2] \in Nat
    BY PacketsArePairs
  <1>2. p[2] = q[2] \/ p[2] < q[2] \/ q[2] < p[2]
    BY <1>1
  <1>3. p[2] = q[2] => p = q
    BY <1>1
  <1> QED
    BY <1>2, <1>3 DEF Before

LEMMA PacketsFinite == IsFiniteSet(Packets)
  <1> DEFINE f == [c \in Chapters |-> {c} \X (1..Length[c])]
             T == {{c} \X (1..Length[c]) : c \in Chapters}
  <1>1. f \in Surjection(Chapters, T)
    BY DEF Surjection
  <1>2. IsFiniteSet(T)
    BY <1>1, FS_Surjection, PipelineAssumption
  <1>3. ASSUME NEW t \in T PROVE IsFiniteSet(t)
    <2>1. PICK c \in Chapters : t = {c} \X (1..Length[c])
      OBVIOUS
    <2>2. Length[c] \in Int
      BY PipelineAssumption
    <2>3. IsFiniteSet({c})
      BY FS_Singleton
    <2>4. IsFiniteSet(1..Length[c])
      BY <2>2, FS_Interval
    <2>5. IsFiniteSet({c} \X (1..Length[c]))
      BY <2>3, <2>4, FS_Product
    <2> QED
      BY <2>1, <2>5
  <1> HIDE DEF T
  <1>4. IsFiniteSet(UNION T)
    BY <1>2, <1>3, FS_UNION
  <1> QED
    BY <1>4 DEF T, Packets

-----------------------------------------------------------------------------
(* The outcome                                                               *)

\* The whole book is translated and nothing is left to do.
Finished(it, tr) ==
    /\ tr = Packets
    /\ \A p \in Packets : it[p] \in {"absent", "done", "obsolete"}

LEMMA TranslateSucceeded ==
    ASSUME NEW it \in [Packets -> ItemState], NEW tr \in SUBSET Packets
    PROVE  /\ TranslateStatus(it, tr) \in StageStatuses
           /\ TranslateStatus(it, tr) = "succeeded" <=>
                Finished(it, tr) /\ \E p \in Packets : it[p] = "done"
  <1>1. DOMAIN it = Packets
    OBVIOUS
  <1>2. Counted(it) = {p \in Packets : it[p] \notin {"absent", "obsolete"}}
    BY <1>1 DEF Counted
  <1>3. CASE Packets = {} /\ Counted(it) = {}
    <2>1. TranslateStatus(it, tr) = "not_started"
      BY <1>1, <1>3 DEF TranslateStatus, AnyCounted
    <2>2. ~ \E p \in Packets : it[p] = "done"
      BY <1>3
    <2> QED
      BY <2>1, <2>2 DEF StageStatuses
  <1>4. CASE ~(Packets = {} /\ Counted(it) = {}) /\ AnyCounted(it, "failed")
    <2>1. TranslateStatus(it, tr) = "failed"
      BY <1>1, <1>4 DEF TranslateStatus, AnyCounted, AllCountedDone
    <2>2. ~Finished(it, tr)
      BY <1>2, <1>4 DEF AnyCounted, Finished
    <2> QED
      BY <2>1, <2>2 DEF StageStatuses
  <1>5. CASE ~(Packets = {} /\ Counted(it) = {}) /\ ~AnyCounted(it, "failed")
    <2> DEFINE Done == /\ Packets # {} /\ Packets \subseteq tr
                       /\ Counted(it) # {} /\ AllCountedDone(it)
    <2>1. TranslateStatus(it, tr) = IF Done THEN "succeeded" ELSE "running"
      BY <1>1, <1>5 DEF TranslateStatus
    <2>2. Done => Finished(it, tr) /\ \E p \in Packets : it[p] = "done"
      BY <1>2 DEF AllCountedDone, Finished
    <2>3. Finished(it, tr) /\ (\E p \in Packets : it[p] = "done") => Done
      BY <1>2 DEF AllCountedDone, Finished
    <2> HIDE DEF Done
    <2> QED
      BY <2>1, <2>2, <2>3 DEF StageStatuses
  <1> QED
    BY <1>3, <1>4, <1>5

\* A run is reconciled to another status only if it was loaded live, and to
\* success only over a finished book.
LEMMA ReconciledStatus ==
    ASSUME NEW r \in RunStatus \cup {Unread},
           NEW it \in [Packets -> ItemState], NEW tr \in SUBSET Packets,
           NEW st \in [OptionalStages -> ItemState]
    PROVE  /\ r \notin LiveRun => Reconciled(r, it, tr, st) = r
           /\ r \in LiveRun => Reconciled(r, it, tr, st) \in RunStatus
           /\ r \in LiveRun /\ Reconciled(r, it, tr, st) \in Succeeded => Finished(it, tr)
  <1> DEFINE status == DerivedStatus(it, tr, st)
  <1>1. status["translate"] = TranslateStatus(it, tr)
    BY DEF DerivedStatus, Stages
  <1>2. status["translate"] \in StageStatuses
    BY <1>1, TranslateSucceeded
  <1> HIDE DEF status
  <1>3. RunOutcome(status) \in {"failed", "running", "succeeded_with_warnings", "succeeded"}
    BY DEF RunOutcome
  <1>4. RunOutcome(status) \in Succeeded => status["translate"] = "succeeded"
    BY <1>2 DEF RunOutcome, StageStatuses, Succeeded
  <1>5. RunOutcome(status) \in Succeeded => Finished(it, tr)
    BY <1>1, <1>4, TranslateSucceeded
  <1>6. r \notin LiveRun => Reconciled(r, it, tr, st) = r
    BY DEF Reconciled, LiveRun
  <1>7. r \in LiveRun => Reconciled(r, it, tr, st) \in {r, "paused", RunOutcome(status)}
    <2>1. CASE AnyInFlight(it, st)
      BY <2>1 DEF Reconciled
    <2>2. CASE ~AnyInFlight(it, st)
      BY <2>2 DEF Reconciled, status
    <2> QED
      BY <2>1, <2>2
  <1> QED
    BY <1>3, <1>5, <1>6, <1>7 DEF RunStatus, LiveRun, Succeeded

\* A transaction that reconciles or pauses the run it loaded.
LEMMA OutcomeWritten ==
    ASSUME NEW loaded \in RunStatus \cup {Unread},
           NEW it \in [Packets -> ItemState], translated \in SUBSET Packets,
           NEW st \in [OptionalStages -> ItemState], NEW state,
           NEW r \in FailureOutcome(loaded, it, st, state), SetStatus(loaded, r),
           run \in RunStatus
    PROVE  /\ run' \in RunStatus
           /\ run' # run => loaded \in LiveRun
           /\ run' \in Succeeded => run \in Succeeded \/ Finished(it, translated)
  <1>1. r = Reconciled(loaded, it, translated, st) \/ (r = "paused" /\ loaded \in LiveRun)
    BY DEF FailureOutcome
  <1>2. run' = IF r = loaded THEN run ELSE r
    BY DEF SetStatus
  <1>3. CASE r = Reconciled(loaded, it, translated, st)
    BY <1>2, <1>3, ReconciledStatus
  <1>4. CASE r = "paused" /\ loaded \in LiveRun
    BY <1>2, <1>4 DEF RunStatus, Succeeded, LiveRun
  <1> QED
    BY <1>1, <1>3, <1>4

-----------------------------------------------------------------------------
(* The packets' work items                                                   *)

Ledger == item \in [Packets -> ItemState] /\ translated \in SUBSET Packets

HeldInFlight == worker \subseteq InFlight /\ lapsed \subseteq InFlight
SettledTranslated == \A p \in Packets : item[p] \in {"done", "obsolete"} => p \in translated
NoGap == \A p, q \in Packets : item[p] # "absent" /\ Before(q, p) => q \in translated \/ item[q] # "absent"

LedgerInv ==
    Ledger /\ HeldInFlight /\ SettledTranslated /\ NoGap /\ OnePacketPerChapter /\ PacketsInOrder

\* What any step but the dispatch of packets does to the items: one that is in
\* flight is done, fails or waits again.
Settles ==
    /\ Ledger' /\ HeldInFlight'
    /\ translated \subseteq translated'
    /\ \A p \in Packets :
          \/ item'[p] = item[p]
          \/ item[p] = "inflight" /\ item'[p] \in {"waiting", "failed"}
          \/ item[p] = "inflight" /\ item'[p] = "done" /\ p \in translated

LEMMA SettlesKeepsLedger ==
    ASSUME LedgerInv, Settles
    PROVE  LedgerInv'
  <1>1. SettledTranslated'
    BY DEF LedgerInv, Settles, SettledTranslated
  <1>2. NoGap'
    <2>1. \A p \in Packets : (item'[p] = "absent") <=> (item[p] = "absent")
      BY DEF Settles
    <2> QED
      BY <2>1 DEF LedgerInv, Settles, NoGap
  <1>3. \A p \in Packets : item'[p] \in {"waiting", "inflight"} => item[p] \in {"waiting", "inflight"}
    BY DEF Settles
  <1>4. OnePacketPerChapter'
    BY <1>3 DEF LedgerInv, OnePacketPerChapter
  <1>5. InFlight' \subseteq InFlight
    BY DEF Settles, InFlight
  <1>6. PacketsInOrder'
    BY <1>5 DEF LedgerInv, Settles, PacketsInOrder
  <1> QED
    BY <1>1, <1>2, <1>4, <1>6 DEF LedgerInv, Settles

\* A step that touches neither the items nor who holds them.
LEMMA NothingSettles ==
    ASSUME LedgerInv, UNCHANGED <<item, worker, lapsed>>, translated' \in SUBSET Packets,
           translated \subseteq translated'
    PROVE  Settles
  BY DEF LedgerInv, Ledger, HeldInFlight, InFlight, Settles

\* Every step but the dispatch of packets settles.
LEMMA ReclaimSettles ==
    ASSUME LedgerInv, Reclaim
    PROVE  Settles
  <1>1. /\ item' = [p \in Packets |-> IF p \in lapsed THEN "waiting" ELSE item[p]]
        /\ worker' = worker \ lapsed /\ lapsed' = {} /\ UNCHANGED translated
    BY DEF Reclaim
  <1>2. Ledger'
    BY <1>1 DEF LedgerInv, Ledger, ItemState
  <1>3. HeldInFlight'
    BY <1>1 DEF LedgerInv, HeldInFlight, InFlight
  <1> QED
    BY <1>1, <1>2, <1>3 DEF LedgerInv, HeldInFlight, InFlight, Settles

LEMMA ReportSettles ==
    ASSUME LedgerInv, NEW p \in Packets,
           WorkerDone(p) \/ \E state \in {"waiting", "failed"} : WorkerFails(p, state)
    PROVE  Settles
  <1>1. PICK state \in {"waiting", "failed", "done"} :
          /\ p \in worker
          /\ state = "done" => p \in translated
          /\ item' = [item EXCEPT ![p] = state]
          /\ worker' = worker \ {p} /\ lapsed' = lapsed \ {p} /\ UNCHANGED translated
    BY DEF WorkerDone, WorkerFails
  <1>2. Ledger'
    BY <1>1 DEF LedgerInv, Ledger, ItemState
  <1>3. item'[p] = state /\ \A q \in Packets \ {p} : item'[q] = item[q]
    BY <1>1 DEF LedgerInv, Ledger
  <1>4. item[p] = "inflight"
    BY <1>1 DEF LedgerInv, HeldInFlight, InFlight
  <1>5. HeldInFlight'
    BY <1>1, <1>3 DEF LedgerInv, HeldInFlight, InFlight
  <1> QED
    BY <1>1, <1>2, <1>3, <1>4, <1>5 DEF Settles

LEMMA StepSettles ==
    ASSUME LedgerInv, [Next]_vars, ~TranslateStage
    PROVE  Settles
  <1>1. CASE UNCHANGED vars
    BY <1>1, NothingSettles DEF vars, ledgerVars, threadVars, leaseVars, LedgerInv, Ledger
  <1>2. CASE \/ Supervise \/ CheckRun \/ StageRaises \/ LoadRun \/ Conclude \/ LoopRaises \/ LoopFails
             \/ \E s \in OptionalStages : SeedStage(s) \/ ClaimStage(s) \/ PassStage(s) \/ StageDone(s)
             \/ \E s \in OptionalStages, state \in {"waiting", "failed"} : StageFails(s, state)
    <2>1. UNCHANGED <<item, translated, worker, lapsed>>
      BY <1>2 DEF Supervise, CheckRun, StageRaises, LoadRun, Conclude, LoopRaises, LoopFails,
                  SeedStage, ClaimStage, PassStage, StageDone, StageFails,
                  ledgerVars, threadVars, leaseVars
    <2> QED
      BY <2>1, NothingSettles DEF LedgerInv, Ledger
  <1>3. CASE \/ \E p \in Packets : WorkerRaises(p) \/ ZombieEnds(p)
             \/ \E p \in Packets, state \in {"waiting", "failed"} : ZombieFails(p, state)
             \/ StageLapse \/ Pause \/ Resume \/ Drain \/ Cancel \/ Serve
    <2>1. UNCHANGED <<item, translated, worker, lapsed>>
      BY <1>3 DEF WorkerRaises, ZombieEnds, ZombieFails, StageLapse, Pause, Resume, Drain, Cancel,
                  Ask, Serve, ledgerVars, threadVars, leaseVars
    <2> QED
      BY <2>1, NothingSettles DEF LedgerInv, Ledger
  <1>4. CASE \E p \in Packets : Translate(p)
    <2>1. /\ UNCHANGED <<item, worker, lapsed>> /\ translated' \in SUBSET Packets
          /\ translated \subseteq translated'
      BY <1>4 DEF Translate, threadVars, leaseVars, LedgerInv, Ledger
    <2> QED
      BY <2>1, NothingSettles
  <1>5. CASE \E p \in Packets : LateLapse(p) \/ OrphanLapse(p)
    <2>1. PICK p \in InFlight : /\ lapsed' = lapsed \cup {p}
                                /\ UNCHANGED <<item, translated, worker>>
      BY <1>5 DEF LateLapse, OrphanLapse, ledgerVars, threadVars, LedgerInv, HeldInFlight
    <2>2. Ledger' /\ InFlight' = InFlight
      BY <2>1 DEF LedgerInv, Ledger, InFlight
    <2>3. HeldInFlight'
      BY <2>1, <2>2 DEF LedgerInv, HeldInFlight
    <2> QED
      BY <2>1, <2>2, <2>3 DEF Settles
  <1>6. CASE Crash
    <2>1. UNCHANGED <<item, translated, lapsed>> /\ worker' = {}
      BY <1>6 DEF Crash, ledgerVars, leaseVars
    <2>2. Ledger' /\ InFlight' = InFlight
      BY <2>1 DEF LedgerInv, Ledger, InFlight
    <2>3. HeldInFlight'
      BY <2>1, <2>2 DEF LedgerInv, HeldInFlight
    <2> QED
      BY <2>1, <2>2, <2>3 DEF Settles
  <1>7. CASE Reclaim
    BY <1>7, ReclaimSettles
  <1>8. CASE \E p \in Packets :
               WorkerDone(p) \/ \E state \in {"waiting", "failed"} : WorkerFails(p, state)
    BY <1>8, ReportSettles
  <1> QED
    BY <1>1, <1>2, <1>3, <1>4, <1>5, <1>6, <1>7, <1>8 DEF Next, RunLoop, Thread

\* The dispatch of packets: waiting items of translated packets are given up,
\* the frontier is seeded, and some items are claimed.
Kept == [p \in Packets |-> IF item[p] = "waiting" /\ p \in translated THEN "obsolete" ELSE item[p]]
Seeded == [p \in Packets |-> IF p \in Frontier(Kept) THEN "waiting" ELSE Kept[p]]
Claims(claimed) == item' = [p \in Packets |-> IF p \in claimed THEN "inflight" ELSE Seeded[p]]

LEMMA Dispatch ==
    ASSUME TranslateStage
    PROVE  /\ UNCHANGED <<run, translated, stageItem, lapsed>>
           /\ \E claimed \in SUBSET Claimable(Seeded) :
                /\ Cardinality(claimed) = Slots
                   \/ (Cardinality(claimed) < Slots /\ claimed = Claimable(Seeded))
                /\ Claims(claimed)
                /\ worker' = worker \cup (claimed \ zombie)
  BY DEF TranslateStage, leaseVars, Claims, Seeded, Kept

\* The items after seeding: one more may wait in a chapter that had none under
\* way, behind no packet that has no item.
LEMMA SeededItems ==
    ASSUME LedgerInv
    PROVE  /\ Seeded \in [Packets -> ItemState]
           /\ \A p \in Packets : Seeded[p] = "inflight" <=> item[p] = "inflight"
           /\ \A p \in Packets : Seeded[p] \in {"done", "obsolete"} => p \in translated
           /\ \A p, q \in Packets : Seeded[p] # "absent" /\ Before(q, p) =>
                                        q \in translated \/ Seeded[q] # "absent"
           /\ \A p, q \in Packets : /\ p[1] = q[1]
                                    /\ Seeded[p] \in {"waiting", "inflight"}
                                    /\ Seeded[q] \in {"waiting", "inflight"}
                                    => p = q
  <1>0. item \in [Packets -> ItemState] /\ SettledTranslated /\ NoGap /\ OnePacketPerChapter
    BY DEF LedgerInv, Ledger
  <1>1. Kept \in [Packets -> ItemState]
    BY <1>0 DEF Kept, ItemState
  <1>2. Seeded \in [Packets -> ItemState]
    BY <1>1 DEF Seeded, ItemState
  <1>3. \A p \in Packets : Kept[p] = item[p] \/ (item[p] = "waiting" /\ Kept[p] = "obsolete" /\ p \in translated)
    BY DEF Kept
  <1>4. \A p \in Packets : \/ Seeded[p] = Kept[p] /\ p \notin Frontier(Kept)
                           \/ Seeded[p] = "waiting" /\ p \in Frontier(Kept)
    BY DEF Seeded
  <1>5. \A p \in Frontier(Kept) :
            /\ p \in Packets /\ p \notin translated /\ Kept[p] = "absent"
            /\ \A q \in Packets : p[1] = q[1] => Kept[q] \notin {"waiting", "inflight"}
            /\ \A q \in Packets : Before(q, p) => q \in translated \/ Kept[q] # "absent"
    BY DEF Frontier, InChapter
  <1>6. \A p \in Packets : Seeded[p] = "inflight" <=> item[p] = "inflight"
    BY <1>3, <1>4, <1>5
  <1>7. \A p \in Packets : Seeded[p] \in {"done", "obsolete"} => p \in translated
    BY <1>0, <1>3, <1>4 DEF SettledTranslated
  <1>8. ASSUME NEW p \in Packets, NEW q \in Packets, Seeded[p] # "absent", Before(q, p)
        PROVE  q \in translated \/ Seeded[q] # "absent"
    <2>1. CASE p \in Frontier(Kept)
      BY <1>4, <1>5, <1>8, <2>1
    <2>2. CASE p \notin Frontier(Kept)
      <3>1. item[p] # "absent"
        BY <1>3, <1>4, <1>8, <2>2
      <3>2. q \in translated \/ item[q] # "absent"
        BY <1>0, <1>8, <3>1 DEF NoGap
      <3> QED
        BY <1>3, <1>4, <3>2
    <2> QED
      BY <2>1, <2>2
  <1>9. ASSUME NEW p \in Packets, NEW q \in Packets, p[1] = q[1],
               Seeded[p] \in {"waiting", "inflight"}, Seeded[q] \in {"waiting", "inflight"}
        PROVE  p = q
    <2>1. CASE p \in Frontier(Kept) /\ q \in Frontier(Kept)
      BY <1>5, <1>9, <2>1, BeforeTotal
    <2>2. CASE p \in Frontier(Kept) /\ q \notin Frontier(Kept)
      BY <1>4, <1>5, <1>9, <2>2
    <2>3. CASE p \notin Frontier(Kept) /\ q \in Frontier(Kept)
      BY <1>4, <1>5, <1>9, <2>3
    <2>4. CASE p \notin Frontier(Kept) /\ q \notin Frontier(Kept)
      <3>1. item[p] \in {"waiting", "inflight"} /\ item[q] \in {"waiting", "inflight"}
        BY <1>3, <1>4, <1>9, <2>4
      <3> QED
        BY <1>0, <1>9, <3>1 DEF OnePacketPerChapter
    <2> QED
      BY <2>1, <2>2, <2>3, <2>4
  <1> QED
    BY <1>2, <1>6, <1>7, <1>8, <1>9

LEMMA DispatchKeepsLedger ==
    ASSUME LedgerInv, TranslateStage
    PROVE  LedgerInv'
  <1>1. PICK claimed \in SUBSET Claimable(Seeded) :
            Claims(claimed) /\ worker' = worker \cup (claimed \ zombie)
    BY Dispatch
  <1>2. UNCHANGED <<translated, lapsed>>
    BY Dispatch
  <1>3. \A p \in claimed : /\ p \in Packets /\ Seeded[p] = "waiting"
                           /\ ~AnyCounted(Seeded, "failed")
                           /\ \A q \in Packets : p[1] = q[1] => Seeded[q] # "inflight"
                           /\ \A q \in Packets : Seeded[q] = "waiting" => ~Before(q, p)
    BY DEF Claimable, Waiting, InChapter
  <1>4. \A p \in Packets : item'[p] = IF p \in claimed THEN "inflight" ELSE Seeded[p]
    BY <1>1 DEF Claims
  <1>5. Seeded \in [Packets -> ItemState]
    BY SeededItems
  <1>6. item' \in [Packets -> ItemState]
    BY <1>1, <1>5 DEF Claims, ItemState
  <1>7. Ledger'
    BY <1>2, <1>6 DEF LedgerInv, Ledger
  <1>8. InFlight' = InFlight \cup claimed
    BY <1>3, <1>4, SeededItems DEF InFlight
  <1>9. HeldInFlight'
    BY <1>1, <1>2, <1>8 DEF LedgerInv, HeldInFlight
  <1>10. SettledTranslated'
    BY <1>2, <1>4, SeededItems DEF SettledTranslated
  <1>11. NoGap'
    <2>1. \A p \in Packets : (item'[p] = "absent") <=> (Seeded[p] = "absent")
      BY <1>3, <1>4
    <2> QED
      BY <1>2, <2>1, SeededItems DEF NoGap
  <1>12. OnePacketPerChapter'
    <2>1. \A p \in Packets : item'[p] \in {"waiting", "inflight"} => Seeded[p] \in {"waiting", "inflight"}
      BY <1>3, <1>4
    <2> QED
      BY <2>1, SeededItems DEF OnePacketPerChapter
  <1>13. ASSUME NEW p \in InFlight', NEW q \in Packets, Before(q, p)
         PROVE  q \in translated
    <2>1. CASE p \in InFlight
      BY <1>13, <2>1 DEF LedgerInv, PacketsInOrder
    <2>2. CASE p \in claimed
      <3>1. p[1] = q[1] /\ Seeded[p] # "absent"
        BY <1>3, <1>13, <2>2 DEF Before
      <3>2. q \in translated \/ Seeded[q] # "absent"
        BY <1>3, <1>13, <2>2, <3>1, SeededItems
      <3>3. Seeded[q] \notin {"waiting", "inflight"}
        BY <1>3, <1>13, <2>2, <3>1
      <3>4. Seeded[q] # "failed"
        <4>1. DOMAIN Seeded = Packets
          BY <1>5
        <4>2. Seeded[q] = "failed" => AnyCounted(Seeded, "failed")
          BY <4>1 DEF AnyCounted, Counted
        <4> QED
          BY <1>3, <2>2, <4>2
      <3>5. Seeded[q] \in ItemState
        BY <1>5
      <3>6. Seeded[q] \in {"done", "obsolete"} => q \in translated
        BY SeededItems
      <3> QED
        BY <3>2, <3>3, <3>4, <3>5, <3>6 DEF ItemState
    <2> QED
      BY <1>8, <2>1, <2>2
  <1>14. PacketsInOrder'
    BY <1>2, <1>13 DEF PacketsInOrder
  <1> QED
    BY <1>7, <1>9, <1>10, <1>11, <1>12, <1>14 DEF LedgerInv

LEMMA InitLedger == Init => LedgerInv
  BY DEF Init, LedgerInv, Ledger, HeldInFlight, SettledTranslated, NoGap, OnePacketPerChapter,
         PacketsInOrder, InFlight, ItemState

LEMMA StepLedger == LedgerInv /\ [Next]_vars => LedgerInv'
  BY StepSettles, SettlesKeepsLedger, DispatchKeepsLedger

\* A chapter has at most one packet waiting or in flight
\* (_plan_translate_frontier), through retries, the reaper and
\* crashes.
THEOREM OneAtATime == Spec => []OnePacketPerChapter
  <1>1. LedgerInv => OnePacketPerChapter
    BY DEF LedgerInv
  <1> QED
    BY InitLedger, StepLedger, <1>1, PTL DEF Spec

\* A packet is in flight only when all before it in its chapter are translated
\* (_claim_translate_work_items): no chapter goes on past a failure.
THEOREM ChaptersInOrder == Spec => []PacketsInOrder
  <1>1. LedgerInv => PacketsInOrder
    BY DEF LedgerInv
  <1> QED
    BY InitLedger, StepLedger, <1>1, PTL DEF Spec

-----------------------------------------------------------------------------
(* A finished book, the stages and the budget                               *)

\* A finished book stays as it is: nothing is in flight, and nothing is seeded.
LEMMA FinishedStays ==
    ASSUME LedgerInv, [Next]_vars, Finished(item, translated)
    PROVE  item' = item /\ translated' = translated
  <1>1. Ledger /\ Ledger'
    BY StepLedger DEF LedgerInv
  <1>2. \A p \in Packets : item[p] \in {"absent", "done", "obsolete"} /\ p \in translated
    BY DEF Finished
  <1>3. CASE ~TranslateStage
    <2>1. Settles
      BY <1>3, StepSettles
    <2>2. \A p \in Packets : item'[p] = item[p]
      BY <1>2, <2>1 DEF Settles
    <2>3. translated' = translated
      BY <1>1, <2>1 DEF Settles, Ledger, Finished
    <2> QED
      BY <1>1, <2>2, <2>3 DEF Ledger
  <1>4. CASE TranslateStage
    <2>1. \A p \in Packets : Kept[p] = item[p]
      BY <1>2 DEF Kept
    <2>2. Frontier(Kept) = {}
      BY <1>2 DEF Frontier
    <2>3. \A p \in Packets : Seeded[p] = item[p]
      BY <2>1, <2>2 DEF Seeded
    <2>4. Claimable(Seeded) = {}
      BY <1>2, <2>3 DEF Claimable, Waiting
    <2>5. \A p \in Packets : item'[p] = item[p]
      BY <1>4, <2>3, <2>4, Dispatch DEF Claims
    <2>6. translated' = translated
      BY <1>4, Dispatch
    <2> QED
      BY <1>1, <2>5, <2>6 DEF Ledger
  <1> QED
    BY <1>3, <1>4

\* What a step does to the item of an optional stage.
StageMoves(s) ==
    \/ stageItem'[s] = stageItem[s]
    \/ stageItem[s] = "absent" /\ CanStart(s, Status) /\ stageItem'[s] = "waiting"
    \/ stageItem[s] = "waiting" /\ stageItem'[s] = "inflight"
    \/ stageItem[s] = "inflight" /\ stageItem'[s] \in {"waiting", "done", "failed"}

StageTypes == stageItem \in [OptionalStages -> ItemState]

LEMMA StepStages ==
    ASSUME StageTypes, [Next]_vars
    PROVE  StageTypes' /\ \A s \in OptionalStages : StageMoves(s)
  <1>1. CASE UNCHANGED stageItem
    BY <1>1 DEF StageTypes, StageMoves
  <1>2. CASE Reclaim
    <2>1. stageItem' = [s \in OptionalStages |->
                          IF stageLapsed /\ stageItem[s] = "inflight" THEN "waiting" ELSE stageItem[s]]
      BY <1>2 DEF Reclaim
    <2>2. StageTypes'
      BY <2>1 DEF StageTypes, ItemState
    <2> QED
      BY <2>1, <2>2 DEF StageMoves
  <1>3. ASSUME NEW s \in OptionalStages,
               SeedStage(s) \/ ClaimStage(s) \/ StageDone(s)
               \/ \E state \in {"waiting", "failed"} : StageFails(s, state)
        PROVE  StageTypes' /\ \A t \in OptionalStages : StageMoves(t)
    <2>1. PICK x \in {"waiting", "inflight", "done", "failed"} :
            /\ stageItem' = [stageItem EXCEPT ![s] = x]
            /\ \/ stageItem[s] = "absent" /\ CanStart(s, Status) /\ x = "waiting"
               \/ stageItem[s] = "waiting" /\ x = "inflight"
               \/ stageItem[s] = "inflight" /\ x \in {"waiting", "done", "failed"}
      BY <1>3 DEF SeedStage, ClaimStage, StageDone, StageFails
    <2>2. StageTypes' /\ stageItem'[s] = x /\ \A t \in OptionalStages \ {s} : stageItem'[t] = stageItem[t]
      BY <2>1 DEF StageTypes, ItemState
    <2> QED
      BY <2>1, <2>2 DEF StageMoves
  <1>4. CASE \/ Supervise \/ CheckRun \/ TranslateStage \/ StageRaises \/ LoadRun \/ Conclude
             \/ LoopRaises \/ LoopFails \/ \E s \in OptionalStages : PassStage(s)
    <2>1. UNCHANGED stageItem
      BY <1>4 DEF Supervise, CheckRun, TranslateStage, StageRaises, LoadRun, Conclude, LoopRaises,
                  LoopFails, PassStage, ledgerVars
    <2> QED
      BY <1>1, <2>1
  <1>5. CASE \/ \E p \in Packets : Thread(p) \/ LateLapse(p) \/ OrphanLapse(p)
             \/ StageLapse \/ Crash \/ Pause \/ Resume \/ Drain \/ Cancel \/ Serve
    <2>1. UNCHANGED stageItem
      BY <1>5 DEF Thread, Translate, WorkerDone, WorkerRaises, WorkerFails, ZombieFails, ZombieEnds,
                  LateLapse, OrphanLapse, StageLapse, Crash, Pause, Resume, Drain, Cancel, Ask,
                  Serve, ledgerVars
    <2> QED
      BY <1>1, <2>1
  <1>6. CASE UNCHANGED vars
    BY <1>1, <1>6 DEF vars, ledgerVars
  <1> QED
    BY <1>2, <1>3, <1>4, <1>5, <1>6 DEF Next, RunLoop

LEMMA TranslateStatusHere ==
    ASSUME Ledger
    PROVE  Status["translate"] = "succeeded" <=>
             Finished(item, translated) /\ \E p \in Packets : item[p] = "done"
  <1>1. Status["translate"] = TranslateStatus(item, translated)
    BY DEF Status, DerivedStatus, Stages
  <1> QED
    BY <1>1, TranslateSucceeded DEF Ledger

LEMMA StepStagesInOrder ==
    ASSUME LedgerInv, StageTypes, StagesInOrder, [Next]_vars
    PROVE  StagesInOrder'
  <1>0. Ledger /\ Ledger'
    BY StepLedger DEF LedgerInv
  <1>1. Status["translate"] = "succeeded" => Status'["translate"] = "succeeded"
    <2>1. ASSUME Finished(item, translated), \E p \in Packets : item[p] = "done"
          PROVE  Finished(item, translated)' /\ \E p \in Packets : item'[p] = "done"
      BY <2>1, FinishedStays DEF Finished
    <2>2. Status'["translate"] = TranslateStatus(item', translated')
      BY DEF Status, DerivedStatus, Stages
    <2>3. Status'["translate"] = "succeeded" <=>
             Finished(item', translated') /\ \E p \in Packets : item'[p] = "done"
      BY <1>0, <2>2, TranslateSucceeded DEF Ledger
    <2> QED
      BY <1>0, <2>1, <2>3, TranslateStatusHere
  <1>2. \A s \in OptionalStages : StageMoves(s)
    BY StepStages
  <1>3. \A s \in OptionalStages : CanStart(s, Status) => Status["translate"] = "succeeded"
    BY DEF CanStart, StageDependencies, OptionalStages
  <1>4. \A s \in OptionalStages : Status[s] = "succeeded" => stageItem[s] = "done"
    <2>1. ASSUME NEW s \in OptionalStages PROVE Status[s] = ItemStageStatus(stageItem[s])
      BY DEF Status, DerivedStatus, Stages, OptionalStages
    <2>2. ASSUME NEW x \in ItemState, ItemStageStatus(x) = "succeeded" PROVE x = "done"
      BY <2>2 DEF ItemStageStatus, ItemState
    <2> QED
      BY <2>1, <2>2 DEF StageTypes
  <1>5. \A s \in OptionalStages : stageItem[s] = "done" => stageItem'[s] = "done"
    BY <1>2 DEF StageMoves
  <1>6. ASSUME NEW s \in OptionalStages, stageItem'[s] # "absent"
        PROVE  Status'["translate"] = "succeeded"
    BY <1>1, <1>2, <1>3, <1>6 DEF StageMoves, StagesInOrder
  <1>7. "review" \in OptionalStages /\ "bilingual_html" \in OptionalStages /\ "merged_html" \in OptionalStages
    BY DEF OptionalStages
  <1>8. CanStart("bilingual_html", Status) => stageItem["review"] = "done"
    BY <1>4, <1>7 DEF CanStart, StageDependencies
  <1>9. CanStart("merged_html", Status) => stageItem["bilingual_html"] = "done"
    BY <1>4, <1>7 DEF CanStart, StageDependencies
  <1>10. stageItem'["bilingual_html"] # "absent" => stageItem'["review"] = "done"
    BY <1>2, <1>5, <1>7, <1>8 DEF StageMoves, StagesInOrder
  <1>11. stageItem'["merged_html"] # "absent" => stageItem'["bilingual_html"] = "done"
    BY <1>2, <1>5, <1>7, <1>9 DEF StageMoves, StagesInOrder
  <1> QED
    BY <1>6, <1>10, <1>11 DEF StagesInOrder

LEMMA InitStages == Init => StageTypes /\ StagesInOrder
  BY DEF Init, StageTypes, StagesInOrder, ItemState, OptionalStages

\* Review after the whole book is translated, the bilingual export after the
\* review, the merged one last (PIPELINE_STAGES and its gate), and what a stage
\* relied on when it was seeded stays so.
THEOREM StagesFollow == Spec => []StagesInOrder
  <1>1. LedgerInv /\ StageTypes /\ StagesInOrder /\ [Next]_vars => StageTypes' /\ StagesInOrder'
    BY StepStages, StepStagesInOrder
  <1> QED
    BY InitLedger, StepLedger, InitStages, <1>1, PTL DEF Spec

\* Only the dispatch adds to the packets in flight, and not beyond the slots.
LEMMA StepParallelism ==
    ASSUME LedgerInv, WithinParallelism, [Next]_vars
    PROVE  WithinParallelism'
  <1>1. IsFiniteSet(Packets)
    BY PacketsFinite
  <1>2. InFlight \in SUBSET Packets
    BY DEF InFlight
  <1>3. IsFiniteSet(InFlight)
    BY <1>1, <1>2, FS_Subset
  <1>4. Parallelism \in Nat
    BY PipelineAssumption
  <1>5. Cardinality(InFlight) \in Nat
    BY <1>3, FS_CardinalityType
  <1>6. CASE ~TranslateStage
    <2>1. Settles
      BY <1>6, StepSettles
    <2>2. InFlight' \in SUBSET InFlight
      BY <2>1 DEF Settles, InFlight
    <2>3. IsFiniteSet(InFlight') /\ Cardinality(InFlight') <= Cardinality(InFlight)
      BY <1>3, <2>2, FS_Subset
    <2>4. Cardinality(InFlight') \in Nat
      BY <2>3, FS_CardinalityType
    <2> QED
      BY <1>4, <1>5, <2>3, <2>4 DEF WithinParallelism
  <1>7. CASE TranslateStage
    <2>1. PICK claimed \in SUBSET Claimable(Seeded) :
            /\ Cardinality(claimed) = Slots
               \/ (Cardinality(claimed) < Slots /\ claimed = Claimable(Seeded))
            /\ Claims(claimed)
      BY <1>7, Dispatch
    <2>2. claimed \in SUBSET Packets /\ \A p \in claimed : Seeded[p] = "waiting"
      BY <2>1 DEF Claimable, Waiting
    <2>3. IsFiniteSet(claimed)
      BY <1>1, <2>2, FS_Subset
    <2>4. Cardinality(claimed) \in Nat
      BY <2>3, FS_CardinalityType
    <2>10. \A p \in Packets : Seeded[p] = "inflight" <=> item[p] = "inflight"
      BY SeededItems
    <2>11. \A p \in Packets : item'[p] = IF p \in claimed THEN "inflight" ELSE Seeded[p]
      BY <2>1 DEF Claims
    <2>5. InFlight' = InFlight \cup claimed /\ InFlight \cap claimed = {}
      BY <2>2, <2>10, <2>11 DEF InFlight
    <2>6. Cardinality(InFlight') = Cardinality(InFlight) + Cardinality(claimed) - Cardinality({})
      BY <1>3, <2>3, <2>5, FS_Union
    <2>7. Cardinality({}) = 0
      BY FS_EmptySet
    <2>8. Slots \in Nat /\ Cardinality(claimed) <= Slots
      BY <1>4, <1>5, <2>1, <2>4 DEF Slots
    <2>9. Cardinality(InFlight) + Slots <= Parallelism
      BY <1>4, <1>5 DEF Slots, WithinParallelism
    <2> QED
      BY <1>4, <1>5, <2>4, <2>6, <2>7, <2>8, <2>9 DEF WithinParallelism
  <1> QED
    BY <1>6, <1>7

LEMMA InitParallelism == Init => WithinParallelism
  <1>1. Init => InFlight = {}
    BY DEF Init, InFlight
  <1>2. 0 <= Parallelism
    BY PipelineAssumption
  <1> QED
    BY <1>1, <1>2, FS_EmptySet DEF WithinParallelism

\* No more packets are in flight than max_parallel_workers, whatever is claimed,
\* lapses and is claimed again.
THEOREM BudgetKept == Spec => []WithinParallelism
  <1>1. LedgerInv /\ WithinParallelism /\ [Next]_vars => WithinParallelism'
    BY StepParallelism
  <1> QED
    BY InitLedger, StepLedger, InitParallelism, <1>1, PTL DEF Spec

-----------------------------------------------------------------------------
(* The loop's thread, and what transactions have loaded                      *)

ThreadTypes ==
    /\ pc \in LoopStep
    /\ zombie \subseteq Packets
    /\ stageLapsed \in BOOLEAN
    /\ faults \in 0..MaxFaults

LoadTypes ==
    /\ run \in RunStatus
    /\ loopSeen \in RunStatus \cup {Unread}
    /\ seen \in [Packets -> RunStatus \cup {Unread}]
    /\ request \in {Unread, "running", "draining", "paused", "cancelled"}

Types == LedgerInv /\ StageTypes /\ ThreadTypes /\ LoadTypes

LEMMA NextStepIsStep == \A s \in OptionalStages : s \in LoopStep /\ NextStep[s] \in LoopStep
  BY DEF OptionalStages, NextStep, LoopStep

LEMMA StepThreadTypes ==
    ASSUME Types, [Next]_vars
    PROVE  ThreadTypes'
  <1>0. ThreadTypes /\ worker \subseteq Packets
    BY DEF Types, LedgerInv, HeldInFlight, InFlight
  <1>1. pc' \in LoopStep
    <2>1. CASE RunLoop
      <3>1. \/ pc' \in {"stopped", "top", "reclaim", "translate", "review", "executing", "failing",
                        "conclude", "dying"}
            \/ \E s \in OptionalStages : pc' = NextStep[s]
        <4>1. CASE TranslateStage
          BY <4>1 DEF TranslateStage
        <4>2. CASE ~TranslateStage
          BY <2>1, <4>2 DEF RunLoop, Supervise, CheckRun, Reclaim, SeedStage, ClaimStage, PassStage,
               StageDone, StageFails, StageRaises, LoadRun, Conclude, LoopRaises, LoopFails
        <4> QED
          BY <4>1, <4>2
      <3> QED
        BY <3>1, NextStepIsStep DEF LoopStep, OptionalStages
    <2>2. CASE Crash
      BY <2>2 DEF Crash, LoopStep
    <2>3. CASE \/ \E p \in Packets : Thread(p) \/ LateLapse(p) \/ OrphanLapse(p)
               \/ StageLapse \/ Pause \/ Resume \/ Drain \/ Cancel \/ Serve \/ UNCHANGED vars
      BY <1>0, <2>3 DEF Thread, Translate, WorkerDone, WorkerRaises, WorkerFails, ZombieFails, ZombieEnds,
             LateLapse, OrphanLapse, StageLapse, Pause, Resume, Drain, Cancel, Ask, Serve,
             loopVars, vars, ThreadTypes
    <2> QED
      BY <2>1, <2>2, <2>3 DEF Next
  <1>2. zombie' \subseteq Packets
    <2>1. CASE RunLoop
      BY <1>0, <2>1
         DEF RunLoop, Supervise, CheckRun, Reclaim, TranslateStage, SeedStage, ClaimStage, PassStage,
             StageDone, StageFails, StageRaises, LoadRun, Conclude, LoopRaises, LoopFails,
             threadVars, ThreadTypes
    <2>2. CASE ~RunLoop
      BY <1>0, <2>2 DEF Next, Thread, Translate, WorkerDone, WorkerRaises, WorkerFails, ZombieFails,
             ZombieEnds, LateLapse, OrphanLapse, StageLapse, Crash, Pause, Resume, Drain, Cancel, Ask,
             Serve, threadVars, vars, ThreadTypes
    <2> QED
      BY <2>1, <2>2
  <1>3. stageLapsed' \in BOOLEAN
    <2>1. stageLapsed' \in {stageLapsed, TRUE, FALSE}
      BY DEF Next, RunLoop, Supervise, CheckRun, Reclaim, TranslateStage, SeedStage, ClaimStage,
             PassStage, StageDone, StageFails, StageRaises, LoadRun, Conclude, LoopRaises, LoopFails,
             Thread, Translate, WorkerDone, WorkerRaises, WorkerFails, ZombieFails, ZombieEnds,
             LateLapse, OrphanLapse, StageLapse, Crash, Pause, Resume, Drain, Cancel, Ask, Serve,
             leaseVars, vars
    <2> QED
      BY <1>0, <2>1 DEF ThreadTypes
  <1>4. faults' \in 0..MaxFaults
    <2>1. faults' = faults \/ (faults < MaxFaults /\ faults' = faults + 1)
      BY DEF Next, RunLoop, Supervise, CheckRun, Reclaim, TranslateStage, SeedStage, ClaimStage,
             PassStage, StageDone, StageFails, StageRaises, LoadRun, Conclude, LoopRaises, LoopFails,
             Thread, Translate, WorkerDone, WorkerRaises, WorkerFails, ZombieFails, ZombieEnds,
             LateLapse, OrphanLapse, StageLapse, Crash, Pause, Resume, Drain, Cancel, Ask, Serve, vars
    <2> QED
      BY <1>0, <2>1, PipelineAssumption DEF ThreadTypes
  <1> QED
    BY <1>1, <1>2, <1>3, <1>4 DEF ThreadTypes

\* Who may write the status of the run, and what it was loaded as.
Writes ==
    \/ request # Unread /\ request' = Unread
    \/ loopSeen \in LiveRun \cup {"paused"} /\ loopSeen' = Unread
    \/ \E p \in Packets : seen[p] \in LiveRun /\ seen'[p] = Unread

RunStep ==
    /\ run' \in RunStatus
    /\ run' # run => Writes
    /\ run' \in Succeeded => run \in Succeeded \/ Finished(item', translated')

LEMMA RunUntouched ==
    ASSUME Types, UNCHANGED run
    PROVE  RunStep
  BY DEF Types, LoadTypes, RunStep

LEMMA StepRun ==
    ASSUME Types, StageTypes', LedgerInv', [Next]_vars
    PROVE  RunStep
  <1>0. /\ run \in RunStatus /\ loopSeen \in RunStatus \cup {Unread}
        /\ seen \in [Packets -> RunStatus \cup {Unread}]
        /\ request \in {Unread, "running", "draining", "paused", "cancelled"}
        /\ translated \in SUBSET Packets
        /\ item \in [Packets -> ItemState] /\ item' \in [Packets -> ItemState]
        /\ stageItem \in [OptionalStages -> ItemState] /\ stageItem' \in [OptionalStages -> ItemState]
    BY DEF Types, LoadTypes, LedgerInv, Ledger, StageTypes
  <1>1. ASSUME NEW s \in OptionalStages, NEW state \in {"waiting", "failed"}, StageFails(s, state)
        PROVE  RunStep
    <2>1. PICK r \in FailureOutcome(loopSeen, item, stageItem', state) : SetStatus(loopSeen, r)
      BY <1>1 DEF StageFails
    <2>2. loopSeen' = Unread /\ UNCHANGED <<item, translated>>
      BY <1>1 DEF StageFails
    <2> QED
      BY <1>0, <2>1, <2>2, OutcomeWritten DEF RunStep, Writes
  <1>2. CASE Conclude
    <2> DEFINE r == Reconciled(loopSeen, item, translated, stageItem)
    <2>1. r \in FailureOutcome(loopSeen, item, stageItem, "waiting")
      BY DEF FailureOutcome
    <2>2. SetStatus(loopSeen, r) /\ loopSeen' = Unread /\ UNCHANGED <<item, translated>>
      BY <1>2 DEF Conclude, ledgerVars
    <2> HIDE DEF r
    <2> QED
      BY <1>0, <2>1, <2>2, OutcomeWritten DEF RunStep, Writes
  <1>3. CASE LoopFails
    <2>1. /\ loopSeen' = Unread
          /\ SetStatus(loopSeen, IF loopSeen \in LiveRun \cup {"paused"} THEN "failed" ELSE loopSeen)
      BY <1>3 DEF LoopFails
    <2>2. run' = run \/ (loopSeen \in LiveRun \cup {"paused"} /\ run' = "failed")
      BY <2>1 DEF SetStatus
    <2> QED
      BY <1>0, <2>1, <2>2 DEF RunStep, Writes, RunStatus, Succeeded
  <1>4. ASSUME NEW p \in Packets, NEW state \in {"waiting", "failed"},
               WorkerFails(p, state) \/ ZombieFails(p, state)
        PROVE  RunStep
    <2>1. PICK r \in FailureOutcome(seen[p], item', stageItem, state) : SetStatus(seen[p], r)
      BY <1>4 DEF WorkerFails, ZombieFails, ledgerVars
    <2>2. seen' = [seen EXCEPT ![p] = Unread] /\ UNCHANGED translated
      BY <1>4 DEF WorkerFails, ZombieFails, ledgerVars
    <2>3. seen'[p] = Unread /\ seen[p] \in RunStatus \cup {Unread}
      BY <1>0, <2>2
    <2> QED
      BY <1>0, <2>1, <2>2, <2>3, OutcomeWritten DEF RunStep, Writes
  <1>5. CASE Serve
    <2>1. request # Unread /\ run' = request /\ request' = Unread
      BY <1>5 DEF Serve
    <2>2. run' \in {"running", "draining", "paused", "cancelled"}
      BY <1>0, <2>1 DEF Unread
    <2> QED
      BY <2>1, <2>2 DEF RunStep, Writes, RunStatus, LiveRun, Succeeded
  <1>6. CASE \/ Supervise \/ CheckRun \/ Reclaim \/ TranslateStage \/ StageRaises \/ LoadRun \/ LoopRaises
             \/ \E s \in OptionalStages : SeedStage(s) \/ ClaimStage(s) \/ PassStage(s) \/ StageDone(s)
    <2>1. UNCHANGED run
      BY <1>6 DEF Supervise, CheckRun, Reclaim, TranslateStage, StageRaises, LoadRun, LoopRaises,
                  SeedStage, ClaimStage, PassStage, StageDone
    <2> QED
      BY <2>1, RunUntouched
  <1>7. CASE \/ \E p \in Packets : Translate(p) \/ WorkerDone(p) \/ WorkerRaises(p) \/ ZombieEnds(p)
                                   \/ LateLapse(p) \/ OrphanLapse(p)
             \/ StageLapse \/ Crash \/ Pause \/ Resume \/ Drain \/ Cancel \/ UNCHANGED vars
    <2>1. UNCHANGED run
      BY <1>7 DEF Translate, WorkerDone, WorkerRaises, ZombieEnds, LateLapse, OrphanLapse, StageLapse,
                  Crash, Pause, Resume, Drain, Cancel, Ask, vars
    <2> QED
      BY <2>1, RunUntouched
  <1> QED
    BY <1>1, <1>2, <1>3, <1>4, <1>5, <1>6, <1>7 DEF Next, RunLoop, Thread

LEMMA StepLoadTypes ==
    ASSUME Types, RunStep, [Next]_vars
    PROVE  LoadTypes'
  <1>0. /\ run \in RunStatus /\ run' \in RunStatus /\ loopSeen \in RunStatus \cup {Unread}
        /\ seen \in [Packets -> RunStatus \cup {Unread}]
        /\ request \in {Unread, "running", "draining", "paused", "cancelled"}
    BY DEF Types, LoadTypes, RunStep
  <1>1. loopSeen' \in {loopSeen, run, Unread}
    <2>1. CASE RunLoop
      BY <2>1 DEF RunLoop, Supervise, CheckRun, Reclaim, TranslateStage, SeedStage, ClaimStage,
             PassStage, StageDone, StageFails, StageRaises, LoadRun, Conclude, LoopRaises, LoopFails
    <2>2. CASE ~RunLoop
      BY <2>2 DEF Next, Thread, Translate, WorkerDone, WorkerRaises, WorkerFails, ZombieFails,
             ZombieEnds, LateLapse, OrphanLapse, StageLapse, Crash, Pause, Resume, Drain, Cancel, Ask,
             Serve, loopVars, vars
    <2> QED
      BY <2>1, <2>2
  <1>2. seen' \in [Packets -> RunStatus \cup {Unread}]
    <2>1. CASE RunLoop \/ UNCHANGED vars
      <3>1. UNCHANGED seen
        BY <2>1 DEF RunLoop, Supervise, CheckRun, Reclaim, TranslateStage, SeedStage, ClaimStage,
             PassStage, StageDone, StageFails, StageRaises, LoadRun, Conclude, LoopRaises, LoopFails,
             threadVars, vars
      <3> QED
        BY <1>0, <3>1
    <2>2. CASE ~(RunLoop \/ UNCHANGED vars)
      <3>1. \/ UNCHANGED seen
            \/ seen' = [p \in Packets |-> Unread]
            \/ \E p \in Packets : seen' = [seen EXCEPT ![p] = run]
            \/ \E p \in Packets : seen' = [seen EXCEPT ![p] = Unread]
        BY <2>2 DEF Next, Thread, Translate, WorkerDone, WorkerRaises, WorkerFails, ZombieFails,
             ZombieEnds, LateLapse, OrphanLapse, StageLapse, Crash, Pause, Resume, Drain, Cancel, Ask,
             Serve, threadVars
      <3> QED
        BY <1>0, <3>1
    <2> QED
      BY <2>1, <2>2
  <1>3. request' \in {Unread, "running", "draining", "paused", "cancelled"}
    <2>1. CASE RunLoop \/ UNCHANGED vars
      <3>1. UNCHANGED request
        BY <2>1 DEF RunLoop, Supervise, CheckRun, Reclaim, TranslateStage, SeedStage, ClaimStage,
             PassStage, StageDone, StageFails, StageRaises, LoadRun, Conclude, LoopRaises, LoopFails, vars
      <3> QED
        BY <1>0, <3>1
    <2>2. CASE ~(RunLoop \/ UNCHANGED vars)
      <3>1. request' \in {request, Unread, "running", "draining", "paused", "cancelled"}
        BY <2>2 DEF Next, Thread, Translate, WorkerDone, WorkerRaises, WorkerFails, ZombieFails,
             ZombieEnds, LateLapse, OrphanLapse, StageLapse, Crash, Pause, Resume, Drain, Cancel, Ask,
             Serve
      <3> QED
        BY <1>0, <3>1
    <2> QED
      BY <2>1, <2>2
  <1> QED
    BY <1>0, <1>1, <1>2, <1>3 DEF LoadTypes

\* What success says of the book, once written, stays so.
IInv == Types /\ SuccessIsComplete

LEMMA InitIInv == Init => IInv
  <1>1. ASSUME Init PROVE ThreadTypes
    <2>1. pc = "stopped" /\ zombie = {} /\ stageLapsed = FALSE /\ faults = 0
      BY <1>1 DEF Init
    <2>2. 0 \in 0..MaxFaults
      BY PipelineAssumption
    <2> QED
      BY <2>1, <2>2 DEF ThreadTypes, LoopStep
  <1>2. ASSUME Init PROVE LoadTypes /\ SuccessIsComplete
    BY <1>2 DEF Init, LoadTypes, RunStatus, LiveRun, Succeeded, SuccessIsComplete
  <1> QED
    BY <1>1, <1>2, InitLedger, InitStages DEF IInv, Types

LEMMA StepIInv == IInv /\ [Next]_vars => IInv' /\ RunStep
  <1>1. SUFFICES ASSUME IInv, [Next]_vars PROVE IInv' /\ RunStep
    OBVIOUS
  <1>2. Types /\ LedgerInv /\ StageTypes
    BY <1>1 DEF IInv, Types
  <1>3. LedgerInv' /\ StageTypes'
    BY <1>1, <1>2, StepLedger, StepStages
  <1>4. RunStep
    BY <1>1, <1>2, <1>3, StepRun
  <1>5. Types'
    BY <1>1, <1>2, <1>3, <1>4, StepThreadTypes, StepLoadTypes DEF Types
  <1>6. SuccessIsComplete'
    <2>1. SUFFICES ASSUME run' \in Succeeded PROVE Finished(item', translated')
      BY DEF SuccessIsComplete, Finished
    <2>2. CASE run \in Succeeded
      <3>1. Finished(item, translated)
        BY <1>1, <2>2 DEF IInv, SuccessIsComplete, Finished
      <3> QED
        BY <1>1, <1>2, <3>1, FinishedStays
    <2>3. CASE run \notin Succeeded
      BY <1>4, <2>1, <2>3 DEF RunStep
    <2> QED
      BY <2>2, <2>3
  <1> QED
    BY <1>4, <1>5, <1>6 DEF IInv

\* Rows, threads and the loop hold values of their types.
THEOREM PipelineTypeCorrect == Spec => []TypeOK
  <1>1. IInv => TypeOK
    BY DEF IInv, Types, LedgerInv, Ledger, HeldInFlight, InFlight, StageTypes, ThreadTypes, LoadTypes, TypeOK
  <1> QED
    BY InitIInv, StepIInv, <1>1, PTL DEF Spec

\* A run recorded as succeeded (reconcile_run_terminal_state, whoever writes it)
\* has the whole book translated and no translation left to do.
THEOREM SuccessMeansComplete == Spec => []SuccessIsComplete
  <1>1. IInv => SuccessIsComplete
    BY DEF IInv
  <1> QED
    BY InitIInv, StepIInv, <1>1, PTL DEF Spec

\* The outcome of a run is changed only by a transaction that loaded the run
\* before it ended, or by an operator's request (_transition_run and
\* reconcile_run_terminal_state write without a condition).
THEOREM OutcomeStays == Spec => OutcomeIsFinal
  <1>1. IInv /\ [Next]_vars =>
          [(run \in Succeeded \cup {"failed"} /\ run' # run) =>
             \/ request # Unread /\ request' = Unread
             \/ loopSeen \in LiveRun \cup {"paused"} /\ loopSeen' = Unread
             \/ \E p \in Packets : seen[p] \in LiveRun /\ seen'[p] = Unread]_vars
    BY StepIInv DEF RunStep, Writes
  <1> QED
    BY InitIInv, StepIInv, <1>1, PTL DEF Spec, OutcomeIsFinal
=============================================================================
