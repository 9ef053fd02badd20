--------------------------- MODULE SelfHeal_proofs ---------------------------
(***************************************************************************)
(* What holds of a run that heals itself, for any finite set of packets    *)
(* and any limits: one live item per packet, repairs within the budget,    *)
(* a run that does not end under a worker, and dispatches that wait for a  *)
(* human exactly when their items do.                                      *)
(*                                                                         *)
(* The last needs to be told about threads: one whose lease is still good  *)
(* and that has begun its execution is the one the dispatch is open for,   *)
(* because an attempt is never given out twice.                            *)
(***************************************************************************)
EXTENDS SelfHeal, FiniteSetTheorems, SequenceTheorems, TLAPS

Revs == Packets \cup {NoRevision}
Item == [status : WorkStatus, attempt : 1..MaxAttempt, rev : Revs]

WorkTypes ==
    /\ work \in [Packets -> Seq(Item)]
    /\ \A p \in Packets : Len(work[p]) >= 1

\* All items of a packet but the newest are settled.
Settled == {"succeeded", "terminal_failed"}
OlderSettled ==
    \A p \in Packets : \A n \in 1..Len(work[p]) :
        n < Len(work[p]) => work[p][n].status \in Settled

Decisions == {"none", "manual_escalation_required", "retry_later"}
Decided == Decisions \cup {"publish", "failed"}
DispatchStatus == {"pending", "claimed", "executed", "failed", "manual_escalation_required", "retry_later"}

\* What an incident says does not matter here.
RepairOf(incidents) ==
    [packet : Packets, incident : incidents, item : WorkStatus, attempt : 1..MaxRepair,
     decision : Decisions, backoff : BOOLEAN,
     dispatch : DispatchStatus, decided : Decided, execution : 0..MaxRepair]

IncidentsOf(reps) == {reps[r].incident : r \in 1..Len(reps)}
Incidents == IncidentsOf(repair)
RepairTypes == repair \in Seq(RepairOf(Incidents))

ThreadTypes ==
    threads \subseteq [repair : 1..Len(repair), attempt : 1..MaxRepair, at : {"started", "begun"}]

RestTypes ==
    /\ run \in {"running", "succeeded", "failed"}
    /\ revision \in Revs /\ patches \in Nat

\* A run that is over has nothing in flight.
Quiet == run # "running" => ~Inflight(work, repair)

\* No attempt of a repair is given out twice, and a thread that has begun, with
\* a lease that is still good, has an execution to report.
ThreadOK(t) ==
    /\ t.attempt <= repair[t.repair].attempt
    /\ repair[t.repair].item = "pending" => t.attempt < repair[t.repair].attempt
    /\ t.at = "begun" /\ Holds(t) => repair[t.repair].execution # 0

TellsTheTruth(rep) ==
    rep.decided = "manual_escalation_required"
        <=> rep.item = "terminal_failed" /\ rep.decision = "manual_escalation_required"

WorkInv == WorkTypes /\ OlderSettled
RepairInv ==
    /\ RepairTypes /\ ThreadTypes
    /\ \A r \in 1..Len(repair) : TellsTheTruth(repair[r])
    /\ \A t \in threads : ThreadOK(t)
BudgetInv == Len(repair) = patches /\ patches <= AutoPatchCap

IInv == WorkInv /\ RepairInv /\ BudgetInv /\ RestTypes /\ Quiet

-----------------------------------------------------------------------------
(* Items *)

LEMMA Lens ==
    ASSUME WorkTypes, NEW p \in Packets
    PROVE  /\ work[p] \in Seq(Item) /\ Len(work[p]) \in Nat /\ Len(work[p]) >= 1
           /\ DOMAIN work[p] = 1..Len(work[p]) /\ LastOf(p) \in 1..Len(work[p])
           /\ \A n \in 1..Len(work[p]) : work[p][n] \in Item
           /\ ToSet(work[p]) = {work[p][n] : n \in 1..Len(work[p])}
  <1>1. work[p] \in Seq(Item) /\ Len(work[p]) >= 1
    BY DEF WorkTypes
  <1>2. Len(work[p]) \in Nat /\ DOMAIN work[p] = 1..Len(work[p])
        /\ \A n \in 1..Len(work[p]) : work[p][n] \in Item
    BY <1>1, LenProperties, ElementOfSeq
  <1> QED
    BY <1>1, <1>2 DEF LastOf, ToSet

\* The newest item of a packet is written.
LEMMA SetLast ==
    ASSUME WorkInv, NEW p \in Packets, NEW i \in Item,
           work' = [work EXCEPT ![p] = [work[p] EXCEPT ![LastOf(p)] = i]]
    PROVE  /\ WorkInv'
           /\ \A q \in Packets : Len(work'[q]) = Len(work[q])
           /\ \A q \in Packets : \A n \in 1..Len(work[q]) :
                 work'[q][n] = IF q = p /\ n = LastOf(p) THEN i ELSE work[q][n]
  <1> DEFINE items == [work[p] EXCEPT ![LastOf(p)] = i]
  <1>1. /\ items \in Seq(Item) /\ Len(items) = Len(work[p])
        /\ \A n \in 1..Len(work[p]) : items[n] = IF n = LastOf(p) THEN i ELSE work[p][n]
    BY Lens, ExceptSeq DEF WorkInv
  <1>2. work' = [work EXCEPT ![p] = items]
    OBVIOUS
  <1> HIDE DEF items
  <1>3. /\ work' \in [Packets -> Seq(Item)] /\ work'[p] = items
        /\ \A q \in Packets \ {p} : work'[q] = work[q]
    BY <1>1, <1>2 DEF WorkInv, WorkTypes
  <1>4. \A q \in Packets : Len(work'[q]) = Len(work[q])
    BY <1>1, <1>3
  <1>5. WorkTypes'
    BY <1>3, <1>4 DEF WorkInv, WorkTypes
  <1>6. \A q \in Packets : \A n \in 1..Len(work[q]) :
            work'[q][n] = IF q = p /\ n = LastOf(p) THEN i ELSE work[q][n]
    BY <1>1, <1>3
  <1>7. OlderSettled'
    BY <1>4, <1>6 DEF WorkInv, OlderSettled, LastOf
  <1> QED
    BY <1>4, <1>5, <1>6, <1>7 DEF WorkInv

LEMMA ClaimTranslateWork ==
    ASSUME HealAssumption, WorkInv, NEW p \in Packets, ClaimTranslate(p)
    PROVE  WorkInv'
  <1> DEFINE i == work[p][LastOf(p)]
             j == [i EXCEPT !.status = "leased",
                            !.attempt = IF i.status = "retryable_failed" THEN i.attempt + 1 ELSE i.attempt]
  <1>1. i \in Item
    BY Lens DEF WorkInv
  <1>2. i.status = "retryable_failed" => i.attempt < MaxAttempt
    BY DEF ClaimTranslate
  <1>3. work' = [work EXCEPT ![p] = [work[p] EXCEPT ![LastOf(p)] = j]]
    <2>1. work' = [work EXCEPT ![p][LastOf(p)] = j]
      BY DEF ClaimTranslate
    <2> HIDE DEF j
    <2> QED
      BY <2>1
  <1>4. j \in Item
    <2> HIDE DEF i
    <2> DEFINE a == IF i.status = "retryable_failed" THEN i.attempt + 1 ELSE i.attempt
    <2>1. MaxAttempt \in Nat /\ i.attempt \in 1..MaxAttempt
      BY <1>1 DEF Item, HealAssumption
    <2>2. a \in 1..MaxAttempt
      BY <1>2, <2>1
    <2>3. j = [i EXCEPT !.status = "leased", !.attempt = a]
      OBVIOUS
    <2> HIDE DEF a, j
    <2> QED
      BY <1>1, <2>2, <2>3 DEF Item, WorkStatus, LiveStatus
  <1> HIDE DEF j
  <1> QED
    BY <1>3, <1>4, SetLast

\* The status of the newest item is written.
LEMMA SetStatus ==
    ASSUME WorkInv, NEW p \in Packets, NEW status \in WorkStatus,
           work' = [work EXCEPT ![p] = [work[p] EXCEPT ![LastOf(p)] =
                                           [work[p][LastOf(p)] EXCEPT !.status = status]]]
    PROVE  /\ WorkInv' /\ \A q \in Packets : Len(work'[q]) = Len(work[q])
           /\ \A q \in Packets : \A n \in 1..Len(work[q]) :
                 work'[q][n].status = IF q = p /\ n = LastOf(p) THEN status ELSE work[q][n].status
  <1> DEFINE i == work[p][LastOf(p)]
             j == [i EXCEPT !.status = status]
  <1>1. i \in Item
    BY Lens DEF WorkInv
  <1>2. j \in Item /\ j.status = status
    <2> HIDE DEF i
    <2> QED
      BY <1>1 DEF Item
  <1>3. work' = [work EXCEPT ![p] = [work[p] EXCEPT ![LastOf(p)] = j]]
    OBVIOUS
  <1> HIDE DEF i, j
  <1>4. /\ WorkInv' /\ \A q \in Packets : Len(work'[q]) = Len(work[q])
        /\ \A q \in Packets : \A n \in 1..Len(work[q]) :
              work'[q][n] = IF q = p /\ n = LastOf(p) THEN j ELSE work[q][n]
    BY <1>2, <1>3, SetLast
  <1>5. ASSUME NEW q \in Packets, NEW n \in 1..Len(work[q])
        PROVE  work'[q][n].status = IF q = p /\ n = LastOf(p) THEN status ELSE work[q][n].status
    <2>1. CASE q = p /\ n = LastOf(p)
      BY <1>2, <1>4, <2>1
    <2>2. CASE ~(q = p /\ n = LastOf(p))
      BY <1>4, <2>2
    <2> QED
      BY <2>1, <2>2
  <1> QED
    BY <1>4, <1>5

LEMMA FinishTranslateWork ==
    ASSUME WorkInv, NEW p \in Packets,
           NEW o \in {"succeeded", "retryable_failed", "terminal_failed"}, FinishTranslate(p, o)
    PROVE  WorkInv'
  <1>1. work' = [work EXCEPT ![p] = [work[p] EXCEPT ![LastOf(p)] =
                                        [work[p][LastOf(p)] EXCEPT !.status = o]]]
    BY DEF FinishTranslate
  <1>2. o \in WorkStatus
    BY DEF WorkStatus, LiveStatus
  <1> QED
    BY <1>1, <1>2, SetStatus

LEMMA ReapTranslateWork ==
    ASSUME WorkInv, NEW p \in Packets, ReapTranslate(p)
    PROVE  WorkInv' /\ run = "running" /\ run' = run
  <1>1. work' = [work EXCEPT ![p] = [work[p] EXCEPT ![LastOf(p)] =
                                        [work[p][LastOf(p)] EXCEPT !.status = "retryable_failed"]]]
    BY DEF ReapTranslate
  <1>2. "retryable_failed" \in WorkStatus
    BY DEF WorkStatus, LiveStatus
  <1> QED
    BY <1>1, <1>2, SetStatus DEF ReapTranslate

\* Replay appends an item only when none is live, and leases none.
LEMMA ReplayedItems ==
    ASSUME HealAssumption, WorkInv, NEW p \in Packets, NEW rev \in Revs
    PROVE  LET items == Replayed(work[p], rev)
           IN  /\ items \in Seq(Item) /\ Len(items) >= Len(work[p])
               /\ \A n \in 1..Len(items) : n < Len(items) => items[n].status \in Settled
               /\ \A n \in 1..Len(items) :
                     items[n].status = "leased" => n <= Len(work[p]) /\ work[p][n].status = "leased"
  <1> DEFINE old == work[p]
             items == Replayed(work[p], rev)
  <1>1. /\ old \in Seq(Item) /\ Len(old) \in Nat /\ Len(old) >= 1 /\ DOMAIN old = 1..Len(old)
        /\ \A n \in 1..Len(old) : old[n] \in Item
        /\ ToSet(old) = {old[n] : n \in 1..Len(old)}
        /\ \A n \in 1..Len(old) : n < Len(old) => old[n].status \in Settled
    BY Lens DEF WorkInv, OlderSettled
  <1>2. items = Replayed(old, rev)
    OBVIOUS
  <1> HIDE DEF old, items
  <1>3. CASE \E i \in ToSet(old) : LiveItem(i)
    <2>1. items = [n \in 1..Len(old) |-> IF old[n].status \in {"pending", "retryable_failed"}
                                         THEN [old[n] EXCEPT !.rev = rev] ELSE old[n]]
      BY <1>1, <1>2, <1>3 DEF Replayed, Bound
    <2>2. \A n \in 1..Len(old) : items[n] \in Item /\ items[n].status = old[n].status
      BY <1>1, <2>1 DEF Item
    <2>3. items \in Seq(Item) /\ Len(items) = Len(old)
      BY <1>1, <2>1, <2>2
    <2> QED
      BY <1>1, <2>2, <2>3 DEF old, items
  <1>4. CASE ~\E i \in ToSet(old) : LiveItem(i)
    <2>1. items = Append(old, NewItem(rev))
      BY <1>2, <1>4 DEF Replayed
    <2>2. NewItem(rev) \in Item /\ NewItem(rev).status = "pending"
      BY DEF NewItem, Item, WorkStatus, LiveStatus, HealAssumption
    <2>3. /\ items \in Seq(Item) /\ Len(items) = Len(old) + 1
          /\ \A n \in 1..Len(old) : items[n] = old[n]
          /\ items[Len(old) + 1] = NewItem(rev)
      BY <1>1, <2>1, <2>2, AppendProperties
    <2>4. \A n \in 1..Len(old) : old[n].status \in Settled
      BY <1>1, <1>4 DEF LiveItem, Item, WorkStatus, Settled
    <2> QED
      BY <1>1, <2>2, <2>3, <2>4 DEF old, items
  <1> QED
    BY <1>3, <1>4

LEMMA PublishWork ==
    ASSUME HealAssumption, WorkInv, NEW p \in Packets,
           work' = [work EXCEPT ![p] = Replayed(work[p], p)]
    PROVE  /\ WorkInv'
           /\ \A q \in Packets : \A n \in 1..Len(work'[q]) :
                 work'[q][n].status = "leased" => n <= Len(work[q]) /\ work[q][n].status = "leased"
  <1> DEFINE items == Replayed(work[p], p)
  <1>1. /\ items \in Seq(Item) /\ Len(items) >= Len(work[p])
        /\ \A n \in 1..Len(items) : n < Len(items) => items[n].status \in Settled
        /\ \A n \in 1..Len(items) :
              items[n].status = "leased" => n <= Len(work[p]) /\ work[p][n].status = "leased"
    BY ReplayedItems DEF Revs
  <1>2. work' = [work EXCEPT ![p] = items]
    OBVIOUS
  <1> HIDE DEF items
  <1>3. /\ work' \in [Packets -> Seq(Item)] /\ work'[p] = items
        /\ \A q \in Packets \ {p} : work'[q] = work[q]
    BY <1>1, <1>2 DEF WorkInv, WorkTypes
  <1>4. Len(work[p]) \in Nat /\ Len(items) \in Nat
    BY <1>1, Lens, LenProperties DEF WorkInv
  <1>5. \A q \in Packets : Len(work[q]) \in Nat /\ Len(work[q]) >= 1
    BY Lens DEF WorkInv
  <1>6. WorkTypes'
    BY <1>1, <1>3, <1>4, <1>5 DEF WorkTypes
  <1>7. OlderSettled'
    BY <1>1, <1>3 DEF WorkInv, OlderSettled
  <1> QED
    BY <1>1, <1>3, <1>5, <1>6, <1>7 DEF WorkInv

-----------------------------------------------------------------------------
(* Repairs and their threads *)

LEMMA Reps ==
    ASSUME RepairTypes
    PROVE  /\ Len(repair) \in Nat /\ Repairs = 1..Len(repair)
           /\ \A r \in 1..Len(repair) : repair[r] \in RepairOf(Incidents)
           /\ ToSet(repair) = {repair[r] : r \in 1..Len(repair)}
  <1>1. /\ Len(repair) \in Nat /\ Repairs = 1..Len(repair)
        /\ \A r \in 1..Len(repair) : repair[r] \in RepairOf(Incidents)
    BY LenProperties, ElementOfSeq DEF RepairTypes, Repairs
  <1> QED
    BY <1>1 DEF ToSet, Repairs

\* What a thread needs of its repair.
Fits(t, rep) ==
    /\ t.attempt <= rep.attempt
    /\ rep.item = "pending" => t.attempt < rep.attempt
    /\ t.at = "begun" /\ rep.item = "leased" /\ rep.attempt = t.attempt => rep.execution # 0

LEMMA FitsIs == \A t : ThreadOK(t) <=> Fits(t, repair[t.repair])
  BY DEF ThreadOK, Fits, Holds

LEMMA FitsNext == \A t : ThreadOK(t)' <=> Fits(t, repair'[t.repair])
  BY DEF ThreadOK, Fits, Holds

\* One repair is written; the threads of the others are those there were.
LEMMA UpdateRepair ==
    ASSUME RepairInv, NEW r \in 1..Len(repair), NEW rep \in RepairOf(Incidents),
           rep.incident = repair[r].incident, repair' = [repair EXCEPT ![r] = rep],
           TellsTheTruth(rep), ThreadTypes',
           \A t \in threads' : t.repair = r => Fits(t, rep),
           \A t \in threads' : t.repair # r => t \in threads
    PROVE  /\ RepairInv' /\ Len(repair') = Len(repair) /\ repair'[r] = rep
           /\ \A q \in 1..Len(repair) : q # r => repair'[q] = repair[q]
  <1>1. /\ repair' \in Seq(RepairOf(Incidents)) /\ Len(repair') = Len(repair)
        /\ \A q \in 1..Len(repair) : repair'[q] = IF q = r THEN rep ELSE repair[q]
    BY ExceptSeq DEF RepairInv, RepairTypes
  <1>2. \A q \in 1..Len(repair) : repair'[q].incident = repair[q].incident
    BY <1>1
  <1>3. Incidents' = Incidents
    BY <1>1, <1>2 DEF Incidents, IncidentsOf
  <1>4. RepairTypes'
    BY <1>1, <1>3 DEF RepairTypes, RepairOf
  <1>5. \A q \in 1..Len(repair') : TellsTheTruth(repair'[q])
    BY <1>1 DEF RepairInv
  <1>6. ASSUME NEW t \in threads' PROVE ThreadOK(t)'
    <2>1. t.repair \in 1..Len(repair)
      BY <1>1 DEF ThreadTypes
    <2>2. CASE t.repair = r
      BY <1>1, <2>1, <2>2, FitsNext
    <2>3. CASE t.repair # r
      BY <1>1, <2>1, <2>3, FitsIs, FitsNext DEF RepairInv
    <2> QED
      BY <2>2, <2>3
  <1>7. \A q \in 1..Len(repair') : TellsTheTruth(repair[q])'
    BY <1>5 DEF TellsTheTruth
  <1> QED
    BY <1>1, <1>4, <1>6, <1>7 DEF RepairInv

\* The threads' types do not depend on what a repair says.
LEMMA SameThreads ==
    ASSUME RepairInv, threads' \subseteq threads, NEW r \in 1..Len(repair), NEW rep,
           repair' = [repair EXCEPT ![r] = rep], rep \in RepairOf(Incidents)
    PROVE  ThreadTypes'
  <1>1. Len(repair') = Len(repair)
    BY ExceptSeq DEF RepairInv, RepairTypes
  <1> QED
    BY <1>1 DEF RepairInv, ThreadTypes

\* A thread and the repair it is of.
LEMMA Threads ==
    ASSUME RepairInv, NEW t \in threads
    PROVE  /\ t.repair \in 1..Len(repair) /\ t.attempt \in 1..MaxRepair /\ t.attempt \in Nat \ {0}
           /\ t.at \in {"started", "begun"} /\ Fits(t, repair[t.repair])
           /\ repair[t.repair].attempt \in 1..MaxRepair
           /\ t = [repair |-> t.repair, attempt |-> t.attempt, at |-> t.at]
  <1>1. t \in [repair : 1..Len(repair), attempt : 1..MaxRepair, at : {"started", "begun"}]
    BY DEF RepairInv, ThreadTypes
  <1>2. repair[t.repair] \in RepairOf(Incidents)
    BY <1>1, Reps DEF RepairInv
  <1> QED
    BY <1>1, <1>2, FitsIs DEF RepairInv, RepairOf

LEMMA ClaimRepairKeeps ==
    ASSUME HealAssumption, RepairInv, NEW r \in Repairs, ClaimRepair(r)
    PROVE  RepairInv' /\ Len(repair') = Len(repair)
  <1> DEFINE old == repair[r]
             attempt == IF old.item = "retryable_failed" THEN old.attempt + 1 ELSE old.attempt
             rep == [old EXCEPT !.item = "leased", !.attempt = attempt, !.decision = "none"]
             new == [repair |-> r, attempt |-> attempt, at |-> "started"]
  <1>1. /\ old.item \in {"pending", "retryable_failed"} /\ attempt <= MaxRepair
        /\ repair' = [repair EXCEPT ![r] = rep] /\ threads' = threads \cup {new}
    BY DEF ClaimRepair, IsNext, ClaimableRepair
  <1>2. old \in RepairOf(Incidents) /\ r \in 1..Len(repair) /\ TellsTheTruth(old)
    BY Reps DEF RepairInv
  <1>3. \A t \in threads : t.repair = r =>
            Fits(t, old) /\ t.attempt \in Nat
    BY Threads
  <1> HIDE DEF old
  <1>4. attempt \in 1..MaxRepair /\ old.attempt \in Nat
    BY <1>1, <1>2 DEF RepairOf, HealAssumption
  <1>5. \A t \in threads : t.repair = r => t.attempt < attempt
    BY <1>1, <1>3, <1>4 DEF Fits
  <1> HIDE DEF attempt
  <1>6. /\ rep \in RepairOf(Incidents) /\ rep.incident = old.incident /\ rep.item = "leased"
        /\ rep.attempt = attempt /\ rep.decided = old.decided
    BY <1>2, <1>4 DEF RepairOf, WorkStatus, LiveStatus, Decisions
  <1> HIDE DEF rep
  <1>7. TellsTheTruth(rep)
    BY <1>1, <1>2, <1>6 DEF TellsTheTruth
  <1>8. \A t \in threads' : t.repair = r => Fits(t, rep)
    <2>1. Fits(new, rep)
      BY <1>4, <1>6 DEF Fits
    <2>2. \A t \in threads : t.repair = r => Fits(t, rep)
      BY <1>3, <1>4, <1>5, <1>6 DEF Fits
    <2> QED
      BY <1>1, <2>1, <2>2
  <1>9. ThreadTypes'
    <2>1. Len(repair') = Len(repair)
      BY <1>1, <1>2, <1>6, ExceptSeq DEF RepairInv, RepairTypes
    <2> QED
      BY <1>1, <1>2, <1>4, <2>1 DEF RepairInv, ThreadTypes
  <1>10. \A t \in threads' : t.repair # r => t \in threads
    BY <1>1
  <1>11. rep.incident = repair[r].incident
    BY <1>6 DEF old
  <1> QED
    BY <1>1, <1>2, <1>6, <1>7, <1>8, <1>9, <1>10, <1>11, UpdateRepair

LEMMA BeginKeeps ==
    ASSUME HealAssumption, RepairInv, NEW t \in threads, Begin(t)
    PROVE  RepairInv' /\ Len(repair') = Len(repair)
           /\ \A q \in 1..Len(repair) : repair'[q].item = repair[q].item
  <1> DEFINE r == t.repair
             old == repair[r]
             rep == [old EXCEPT !.dispatch = "claimed", !.execution = t.attempt]
             new == [t EXCEPT !.at = "begun"]
  <1>1. /\ repair' = [repair EXCEPT ![r] = rep] /\ threads' = (threads \ {t}) \cup {new}
    BY DEF Begin
  <1>2. /\ r \in 1..Len(repair) /\ t.attempt \in 1..MaxRepair /\ Fits(t, old)
        /\ t.attempt \in Nat \ {0}
        /\ new = [repair |-> r, attempt |-> t.attempt, at |-> "begun"]
    BY Threads
  <1>3. old \in RepairOf(Incidents) /\ TellsTheTruth(old)
    BY <1>2, Reps DEF RepairInv
  <1>4. \A u \in threads : u.repair = r => Fits(u, old)
    BY Threads
  <1>5. r = t.repair /\ old.incident = repair[r].incident /\ old.item = repair[r].item
    OBVIOUS
  <1> HIDE DEF r, old, new
  <1>6. /\ rep \in RepairOf(Incidents) /\ rep.incident = old.incident /\ rep.item = old.item
        /\ rep.attempt = old.attempt /\ rep.decided = old.decided /\ rep.decision = old.decision
        /\ rep.execution = t.attempt
    <2>1. t.attempt \in 0..MaxRepair
      BY <1>2 DEF HealAssumption
    <2>2. rep \in RepairOf(Incidents)
      BY <1>3, <2>1 DEF RepairOf, DispatchStatus
    <2> QED
      BY <1>3, <2>2 DEF RepairOf
  <1> HIDE DEF rep
  <1>7. TellsTheTruth(rep)
    BY <1>3, <1>6 DEF TellsTheTruth
  <1>8. \A u \in threads' : u.repair = r => Fits(u, rep)
    <2>1. Fits(new, rep)
      BY <1>2, <1>6 DEF Fits
    <2>2. \A u \in threads : u.repair = r => Fits(u, rep)
      BY <1>2, <1>4, <1>6 DEF Fits
    <2> QED
      BY <1>1, <2>1, <2>2
  <1>9. ThreadTypes'
    <2>1. Len(repair') = Len(repair)
      BY <1>1, <1>2, <1>6, ExceptSeq DEF RepairInv, RepairTypes
    <2> QED
      BY <1>1, <1>2, <2>1 DEF RepairInv, ThreadTypes
  <1>10. \A u \in threads' : u.repair # r => u \in threads
    BY <1>1, <1>2
  <1>11. /\ RepairInv' /\ Len(repair') = Len(repair) /\ repair'[r] = rep
         /\ \A q \in 1..Len(repair) : q # r => repair'[q] = repair[q]
    BY <1>1, <1>2, <1>5, <1>6, <1>7, <1>8, <1>9, <1>10, UpdateRepair
  <1> QED
    BY <1>5, <1>6, <1>11

\* A step after which a repair is not leased, and, if it is to be claimed at the
\* same attempt again, at a higher one than before.
LEMMA Withdrawn ==
    ASSUME RepairInv, NEW r \in 1..Len(repair), NEW rep \in RepairOf(Incidents),
           rep.incident = repair[r].incident, repair' = [repair EXCEPT ![r] = rep],
           TellsTheTruth(rep), threads' \subseteq threads,
           \/ rep.item # "leased" /\ rep.attempt >= repair[r].attempt
              /\ (rep.item = "pending" => rep.attempt > repair[r].attempt)
           \/ /\ rep.item = repair[r].item /\ rep.attempt = repair[r].attempt
              /\ rep.execution = repair[r].execution
    PROVE  /\ RepairInv' /\ Len(repair') = Len(repair) /\ repair'[r] = rep
           /\ \A q \in 1..Len(repair) : q # r => repair'[q] = repair[q]
  <1>1. \A t \in threads : t.repair = r =>
            /\ Fits(t, repair[r]) /\ t.attempt \in Nat
    BY Threads
  <1>2. repair[r].attempt \in Nat /\ rep.attempt \in Nat
    BY Reps DEF RepairInv, RepairOf
  <1>3. \A t \in threads' : t.repair = r => Fits(t, rep)
    BY <1>1, <1>2 DEF Fits
  <1>4. ThreadTypes'
    BY SameThreads
  <1> QED
    BY <1>3, <1>4, UpdateRepair

LEMMA PublishKeeps ==
    ASSUME HealAssumption, RepairInv, NEW t \in threads, Publish(t)
    PROVE  /\ RepairInv' /\ Len(repair') = Len(repair) /\ t.repair \in Repairs
           /\ repair[t.repair].item = "leased" /\ repair[t.repair].packet \in Packets
           /\ \A q \in 1..Len(repair) : repair'[q].item \in {"succeeded", repair[q].item}
  <1> DEFINE r == t.repair
             old == repair[r]
             rep == [old EXCEPT !.item = "succeeded", !.dispatch = "executed",
                                !.decided = "publish", !.execution = 0]
  <1>1. repair' = [repair EXCEPT ![r] = rep] /\ threads' \subseteq threads /\ old.item = "leased"
    BY DEF Publish, Gone, Holds
  <1>2. r \in 1..Len(repair) /\ r \in Repairs /\ old \in RepairOf(Incidents) /\ r = t.repair
        /\ old = repair[r]
    BY Threads, Reps DEF RepairInv
  <1> HIDE DEF r, old
  <1>3. /\ rep \in RepairOf(Incidents) /\ rep.incident = old.incident /\ rep.item = "succeeded"
        /\ rep.attempt = old.attempt /\ rep.decided = "publish"
    <2>0. 0 \in 0..MaxRepair
      BY DEF HealAssumption
    <2>1. rep \in RepairOf(Incidents)
      BY <1>2, <2>0 DEF RepairOf, DispatchStatus, WorkStatus, Decided
    <2> QED
      BY <1>2, <2>1 DEF RepairOf
  <1> HIDE DEF rep
  <1>4. TellsTheTruth(rep)
    BY <1>3 DEF TellsTheTruth
  <1>5. rep.attempt >= old.attempt
    BY <1>2, <1>3 DEF RepairOf, HealAssumption
  <1>6. /\ RepairInv' /\ Len(repair') = Len(repair) /\ repair'[r] = rep
        /\ \A q \in 1..Len(repair) : q # r => repair'[q] = repair[q]
    BY <1>1, <1>2, <1>3, <1>4, <1>5, Withdrawn
  <1> QED
    BY <1>1, <1>2, <1>3, <1>6 DEF RepairOf

\* What a failed execution leaves of its repair, while the lease is good.
LEMMA FailedRepair ==
    ASSUME HealAssumption, NEW rep \in RepairOf(Incidents), TellsTheTruth(rep), rep.item = "leased",
           NEW failure \in Failures,
           failure.decision # "none" => rep.execution # 0
    PROVE  LET new == Recorded(Failed(rep, failure), failure)
           IN  /\ new \in RepairOf(Incidents) /\ new.incident = rep.incident
               /\ new.item \in {"retryable_failed", "terminal_failed"} /\ new.attempt = rep.attempt
               /\ TellsTheTruth(new)
  <1> DEFINE item == IF failure.retryable /\ rep.attempt < MaxRetries
                     THEN "retryable_failed" ELSE "terminal_failed"
             mid == Failed(rep, failure)
             word == IF failure.decision = "none" THEN "failed" ELSE failure.decision
             new == Recorded(mid, failure)
  <1>1. /\ failure.decision \in Decisions /\ failure.backoff \in BOOLEAN
        /\ failure.decision = "manual_escalation_required" => ~failure.retryable
    <2>1. CASE failure = [decision |-> "manual_escalation_required", retryable |-> FALSE, backoff |-> FALSE]
      BY <2>1 DEF Decisions
    <2>2. CASE failure = [decision |-> "retry_later", retryable |-> TRUE, backoff |-> TRUE]
      BY <2>2 DEF Decisions
    <2>3. CASE failure = [decision |-> "none", retryable |-> TRUE, backoff |-> FALSE]
      BY <2>3 DEF Decisions
    <2>4. CASE failure = [decision |-> "none", retryable |-> FALSE, backoff |-> FALSE]
      BY <2>4 DEF Decisions
    <2> QED
      BY <2>1, <2>2, <2>3, <2>4 DEF Failures
  <1>2. mid = [rep EXCEPT !.item = item, !.decision = failure.decision, !.backoff = failure.backoff]
    BY DEF Failed
  <1>3. item \in {"retryable_failed", "terminal_failed"}
        /\ (failure.decision = "manual_escalation_required" => item = "terminal_failed")
    BY <1>1
  <1>4. word \in Decided /\ word \in DispatchStatus /\ 0 \in 0..MaxRepair
        /\ (word = "manual_escalation_required" <=> failure.decision = "manual_escalation_required")
    BY <1>1 DEF Decided, Decisions, DispatchStatus, HealAssumption
  <1>5. new = IF mid.execution = 0 THEN mid
              ELSE [mid EXCEPT !.execution = 0, !.decided = word, !.dispatch = word]
    BY DEF Recorded
  <1> HIDE DEF item, mid, word, new
  <1>6. /\ mid \in RepairOf(Incidents) /\ mid.incident = rep.incident /\ mid.item = item
        /\ mid.decision = failure.decision /\ mid.attempt = rep.attempt
        /\ mid.execution = rep.execution /\ mid.decided = rep.decided
    BY <1>1, <1>2, <1>3 DEF RepairOf, WorkStatus, LiveStatus
  <1>7. rep.decided # "manual_escalation_required"
    BY DEF TellsTheTruth
  <1>8. CASE mid.execution = 0
    <2>1. new = mid /\ failure.decision = "none"
      BY <1>5, <1>6, <1>8
    <2>2. TellsTheTruth(new)
      BY <1>6, <1>7, <2>1 DEF TellsTheTruth
    <2> QED
      BY <1>3, <1>6, <2>1, <2>2 DEF new, mid
  <1>9. CASE mid.execution # 0
    <2>1. new = [mid EXCEPT !.execution = 0, !.decided = word, !.dispatch = word]
      BY <1>5, <1>9
    <2>2. /\ new \in RepairOf(Incidents) /\ new.incident = rep.incident /\ new.item = item
          /\ new.decision = failure.decision /\ new.attempt = rep.attempt /\ new.decided = word
      BY <1>4, <1>6, <2>1 DEF RepairOf
    <2>3. TellsTheTruth(new)
      BY <1>3, <1>4, <2>2 DEF TellsTheTruth
    <2> QED
      BY <1>3, <2>2, <2>3 DEF new, mid
  <1> QED
    BY <1>8, <1>9

LEMMA FailKeeps ==
    ASSUME HealAssumption, RepairInv, NEW t \in threads, NEW failure \in Failures, Fail(t, failure)
    PROVE  /\ RepairInv' /\ Len(repair') = Len(repair) /\ t.repair \in Repairs
           /\ \A q \in 1..Len(repair) : repair'[q].item = "leased" => repair[q].item = "leased"
           /\ Holds(t) => repair[t.repair].item = "leased"
  <1> DEFINE r == t.repair
             old == repair[r]
             new == IF Holds(t) THEN Recorded(Failed(old, failure), failure) ELSE old
  <1>1. /\ repair' = [repair EXCEPT ![r] = new] /\ threads' \subseteq threads
        /\ t.at = "begun" \/ failure.decision = "none"
    BY DEF Fail, Gone, Reported
  <1>2. /\ r \in 1..Len(repair) /\ r \in Repairs /\ old \in RepairOf(Incidents)
        /\ r = t.repair /\ old = repair[r] /\ TellsTheTruth(old) /\ Fits(t, old)
    BY Threads, Reps DEF RepairInv
  <1>3. Holds(t) => old.item = "leased" /\ old.attempt = t.attempt
    BY DEF Holds
  <1>4. /\ Holds(t) => new = Recorded(Failed(old, failure), failure)
        /\ ~Holds(t) => new = old
    OBVIOUS
  <1> HIDE DEF r, old, new
  <1>5. CASE Holds(t)
    <2>1. failure.decision # "none" => old.execution # 0
      BY <1>1, <1>2, <1>3, <1>5 DEF Fits
    <2>2. /\ new \in RepairOf(Incidents) /\ new.incident = old.incident
          /\ new.item \in {"retryable_failed", "terminal_failed"} /\ new.attempt = old.attempt
          /\ TellsTheTruth(new)
      BY <1>2, <1>3, <1>4, <1>5, <2>1, FailedRepair
    <2>3. new.attempt >= old.attempt
      BY <1>2, <2>2 DEF RepairOf, HealAssumption
    <2>4. /\ RepairInv' /\ Len(repair') = Len(repair) /\ repair'[r] = new
          /\ \A q \in 1..Len(repair) : q # r => repair'[q] = repair[q]
      BY <1>1, <1>2, <2>2, <2>3, Withdrawn
    <2> QED
      BY <1>2, <1>3, <2>2, <2>4
  <1>6. CASE ~Holds(t)
    <2>1. new = old
      BY <1>4, <1>6
    <2>2. /\ RepairInv' /\ Len(repair') = Len(repair) /\ repair'[r] = new
          /\ \A q \in 1..Len(repair) : q # r => repair'[q] = repair[q]
      BY <1>1, <1>2, <2>1, Withdrawn
    <2> QED
      BY <1>2, <1>6, <2>1, <2>2
  <1> QED
    BY <1>5, <1>6

LEMMA ElapseKeeps ==
    ASSUME HealAssumption, RepairInv, NEW r \in Repairs, Elapse(r)
    PROVE  /\ RepairInv' /\ Len(repair') = Len(repair)
           /\ \A q \in 1..Len(repair) : repair'[q].item = repair[q].item
  <1> DEFINE old == repair[r]
             new == [old EXCEPT !.backoff = FALSE]
  <1>1. repair' = [repair EXCEPT ![r] = new] /\ threads' \subseteq threads
    BY DEF Elapse
  <1>2. r \in 1..Len(repair) /\ old \in RepairOf(Incidents) /\ old = repair[r] /\ TellsTheTruth(old)
    BY Reps DEF RepairInv
  <1> HIDE DEF old
  <1>3. /\ new \in RepairOf(Incidents) /\ new.incident = old.incident /\ new.item = old.item
        /\ new.attempt = old.attempt /\ new.execution = old.execution
        /\ new.decided = old.decided /\ new.decision = old.decision
    BY <1>2 DEF RepairOf
  <1> HIDE DEF new
  <1>4. TellsTheTruth(new)
    BY <1>2, <1>3 DEF TellsTheTruth
  <1>5. /\ RepairInv' /\ Len(repair') = Len(repair) /\ repair'[r] = new
        /\ \A q \in 1..Len(repair) : q # r => repair'[q] = repair[q]
    BY <1>1, <1>2, <1>3, <1>4, Withdrawn
  <1> QED
    BY <1>2, <1>3, <1>5

LEMMA ReapRepairKeeps ==
    ASSUME HealAssumption, RepairInv, NEW r \in Repairs, ReapRepair(r)
    PROVE  RepairInv' /\ Len(repair') = Len(repair)
  <1> DEFINE old == repair[r]
             new == [old EXCEPT !.item = "retryable_failed", !.decision = "none", !.backoff = FALSE]
  <1>1. /\ repair' = [repair EXCEPT ![r] = new] /\ threads' \subseteq threads
        /\ old.item = "leased"
    BY DEF ReapRepair
  <1>2. r \in 1..Len(repair) /\ old \in RepairOf(Incidents) /\ old = repair[r] /\ TellsTheTruth(old)
    BY Reps DEF RepairInv
  <1> HIDE DEF old
  <1>3. /\ new \in RepairOf(Incidents) /\ new.incident = old.incident
        /\ new.item = "retryable_failed" /\ new.attempt = old.attempt /\ new.decided = old.decided
    BY <1>2 DEF RepairOf, WorkStatus, LiveStatus, Decisions
  <1> HIDE DEF new
  <1>4. TellsTheTruth(new) /\ new.attempt >= old.attempt
    BY <1>1, <1>2, <1>3 DEF TellsTheTruth, RepairOf, HealAssumption
  <1> QED
    BY <1>1, <1>2, <1>3, <1>4, Withdrawn

LEMMA ResumeKeeps ==
    ASSUME HealAssumption, RepairInv, NEW r \in Repairs, Resume(r)
    PROVE  /\ RepairInv' /\ Len(repair') = Len(repair)
           /\ \A q \in 1..Len(repair) : repair'[q].item \in {"pending", repair[q].item}
  <1> DEFINE old == repair[r]
             new == [old EXCEPT !.item = "pending", !.attempt = old.attempt + 1, !.decision = "none",
                       !.backoff = FALSE, !.dispatch = "pending", !.decided = "none", !.execution = 0]
  <1>1. /\ repair' = [repair EXCEPT ![r] = new] /\ threads' \subseteq threads
        /\ old.attempt < MaxRepair
    BY DEF Resume
  <1>2. r \in 1..Len(repair) /\ old \in RepairOf(Incidents) /\ old = repair[r]
    BY Reps DEF RepairInv
  <1> HIDE DEF old
  <1>3. old.attempt \in Nat /\ old.attempt + 1 \in 1..MaxRepair /\ 0 \in 0..MaxRepair
    BY <1>1, <1>2 DEF RepairOf, HealAssumption
  <1>4. /\ new \in RepairOf(Incidents) /\ new.incident = old.incident
        /\ new.item = "pending" /\ new.attempt = old.attempt + 1 /\ new.decided = "none"
    <2>1. new \in RepairOf(Incidents)
      BY <1>2, <1>3 DEF RepairOf, WorkStatus, LiveStatus, Decisions, Decided, DispatchStatus
    <2> QED
      BY <1>2, <2>1 DEF RepairOf
  <1> HIDE DEF new
  <1>5. TellsTheTruth(new) /\ new.attempt > old.attempt /\ new.attempt >= old.attempt
    BY <1>3, <1>4 DEF TellsTheTruth
  <1>6. /\ RepairInv' /\ Len(repair') = Len(repair) /\ repair'[r] = new
        /\ \A q \in 1..Len(repair) : q # r => repair'[q] = repair[q]
    BY <1>1, <1>2, <1>4, <1>5, Withdrawn
  <1> QED
    BY <1>2, <1>4, <1>6

-----------------------------------------------------------------------------
(* The controllers *)

\* A finite set put in an order is a sequence of its elements.
LEMMA SetToSeqOf ==
    ASSUME NEW S, IsFiniteSet(S)
    PROVE  /\ Cardinality(S) \in Nat /\ DOMAIN SetToSeq(S) = 1..Cardinality(S)
           /\ \A n \in 1..Cardinality(S) : SetToSeq(S)[n] \in S
  <1>1. Cardinality(S) \in Nat /\ ExistsBijection(1..Cardinality(S), S)
    BY FS_CardinalityType
  <1>2. \E f \in [1..Cardinality(S) -> S] : IsInjective(f)
    BY <1>1 DEF ExistsBijection, Bijection, Injection, IsInjective
  <1>3. SetToSeq(S) \in [1..Cardinality(S) -> S]
    BY <1>2 DEF SetToSeq
  <1> QED
    BY <1>1, <1>3

\* Repairs whose incidents are known are repairs with the incidents they have.
LEMMA TheirIncidents ==
    ASSUME NEW J, NEW reps \in Seq(RepairOf(J))
    PROVE  reps \in Seq(RepairOf(IncidentsOf(reps)))
  <1> DEFINE I == IncidentsOf(reps)
  <1>1. /\ Len(reps) \in Nat /\ reps \in [1..Len(reps) -> RepairOf(J)]
    BY LenProperties
  <1>2. \A r \in 1..Len(reps) : reps[r] \in RepairOf(J) /\ reps[r].incident \in I
    BY <1>1 DEF IncidentsOf
  <1> HIDE DEF I
  <1>3. \A r \in 1..Len(reps) : reps[r] \in RepairOf(I)
    BY <1>2 DEF RepairOf
  <1>4. reps \in [1..Len(reps) -> RepairOf(I)]
    BY <1>1, <1>3
  <1>5. reps \in Seq(RepairOf(I))
    BY <1>1, <1>4, SeqDef
  <1> QED
    BY <1>5 DEF I

\* Repairs are added at the end, none of them leased.
LEMMA AddRepairs ==
    ASSUME RepairInv, NEW J, NEW added \in Seq(RepairOf(J)), repair' = repair \o added, threads' = threads,
           \A n \in 1..Len(added) : added[n].item = "pending" /\ added[n].decided = "none"
    PROVE  /\ RepairInv' /\ Len(repair') = Len(repair) + Len(added)
           /\ \A r \in 1..Len(repair') :
                 repair'[r].item = "leased" => r <= Len(repair) /\ repair[r].item = "leased"
  <1> DEFINE K == Incidents \cup J
  <1>1. RepairOf(Incidents) \subseteq RepairOf(K) /\ RepairOf(J) \subseteq RepairOf(K)
    BY DEF RepairOf
  <1>2. repair \in Seq(RepairOf(K)) /\ added \in Seq(RepairOf(K))
    BY <1>1, SeqMonotonic DEF RepairInv, RepairTypes
  <1> HIDE DEF K
  <1>3. /\ repair' \in Seq(RepairOf(K)) /\ Len(repair') = Len(repair) + Len(added)
        /\ \A i \in 1..Len(repair) + Len(added) :
              repair'[i] = IF i <= Len(repair) THEN repair[i] ELSE added[i - Len(repair)]
    BY <1>2, ConcatProperties
  <1>4. Len(repair) \in Nat /\ Len(added) \in Nat
    BY <1>2, LenProperties
  <1>5. RepairTypes'
    <2>1. repair' \in Seq(RepairOf(IncidentsOf(repair')))
      BY <1>3, TheirIncidents
    <2>2. Incidents' = IncidentsOf(repair')
      BY DEF Incidents, IncidentsOf
    <2> QED
      BY <2>1, <2>2 DEF RepairTypes, RepairOf
  <1>6. \A i \in 1..Len(repair) : repair'[i] = repair[i]
    BY <1>3, <1>4
  <1>7. \A i \in 1..Len(repair') : i \in 1..Len(repair) \/
            (repair'[i].item = "pending" /\ repair'[i].decided = "none")
    <2>1. ASSUME NEW i \in 1..Len(repair'), i \notin 1..Len(repair)
          PROVE  repair'[i].item = "pending" /\ repair'[i].decided = "none"
      <3>1. i - Len(repair) \in 1..Len(added) /\ repair'[i] = added[i - Len(repair)]
        BY <1>3, <1>4, <2>1
      <3> QED
        BY <3>1
    <2> QED
      BY <2>1
  <1>8. \A i \in 1..Len(repair') : TellsTheTruth(repair'[i])
    BY <1>6, <1>7 DEF RepairInv, TellsTheTruth
  <1>9. ThreadTypes' /\ \A t \in threads' : ThreadOK(t)'
    <2>1. \A t \in threads : t.repair \in 1..Len(repair)
      BY Threads
    <2>2. \A t \in threads' : ThreadOK(t)'
      BY <1>6, <2>1, FitsIs, FitsNext DEF RepairInv
    <2>3. ThreadTypes'
      BY <1>3, <1>4 DEF RepairInv, ThreadTypes
    <2> QED
      BY <2>2, <2>3
  <1>10. \A i \in 1..Len(repair') : TellsTheTruth(repair[i])'
    BY <1>8 DEF TellsTheTruth
  <1>11. RepairInv'
    BY <1>5, <1>9, <1>10 DEF RepairInv
  <1>12. ASSUME NEW i \in 1..Len(repair'), repair'[i].item = "leased"
         PROVE  i <= Len(repair) /\ repair[i].item = "leased"
    <2>1. i \in 1..Len(repair)
      BY <1>7, <1>12
    <2> QED
      BY <1>4, <1>6, <1>12, <2>1
  <1> QED
    BY <1>3, <1>11, <1>12

\* The controllers open as many repairs as the budget still allows.
LEMMA ControllersKeep ==
    ASSUME HealAssumption, RepairInv, BudgetInv, RestTypes,
           NEW overdue \in SUBSET MayBeOverdue, ReconcileControllers(overdue)
    PROVE  /\ RepairInv' /\ BudgetInv' /\ patches' \in Nat
           /\ UNCHANGED <<run, revision, work, threads>>
  <1> DEFINE sick == Sick(overdue)
             new == {p \in Due(sick) : Incident(p, sick) \notin Named(Due(sick), sick)}
  <1>1. new \subseteq Packets /\ IsFiniteSet(new)
    <2>1. new \subseteq Packets
      BY DEF Due, Sick, MayBeOverdue
    <2> QED
      BY <2>1, FS_Subset DEF HealAssumption
  <1>2. /\ UNCHANGED <<run, revision, work, threads>>
        /\ \E scheduled \in SUBSET new :
              /\ Cardinality(scheduled) = Affordable(new)
              /\ repair' = repair \o [n \in DOMAIN SetToSeq(scheduled) |->
                    NewRepair(SetToSeq(scheduled)[n], Incident(SetToSeq(scheduled)[n], sick))]
              /\ patches' = patches + Cardinality(scheduled)
    BY DEF ReconcileControllers
  <1>3. Affordable(new) <= AutoPatchCap - patches
    <2>1. Cardinality(new) \in Nat /\ AutoPatchCap \in Nat /\ patches \in Nat
      BY <1>1, FS_CardinalityType DEF HealAssumption, RestTypes
    <2> HIDE DEF new
    <2> QED
      BY <2>1 DEF Affordable
  <1> HIDE DEF new
  <1>4. PICK scheduled \in SUBSET new :
              /\ Cardinality(scheduled) = Affordable(new)
              /\ repair' = repair \o [n \in DOMAIN SetToSeq(scheduled) |->
                    NewRepair(SetToSeq(scheduled)[n], Incident(SetToSeq(scheduled)[n], sick))]
              /\ patches' = patches + Cardinality(scheduled)
    BY <1>2
  <1> DEFINE k == Cardinality(scheduled)
             order == SetToSeq(scheduled)
             J == {Incident(p, sick) : p \in scheduled}
             added == [n \in 1..k |-> NewRepair(order[n], Incident(order[n], sick))]
  <1>5. k \in Nat /\ DOMAIN order = 1..k /\ \A n \in 1..k : order[n] \in scheduled
    BY <1>1, FS_Subset, SetToSeqOf
  <1>6. repair' = repair \o added
    BY <1>4, <1>5
  <1>7. \A p \in scheduled :
            /\ NewRepair(p, Incident(p, sick)) \in RepairOf(J)
            /\ NewRepair(p, Incident(p, sick)).item = "pending"
            /\ NewRepair(p, Incident(p, sick)).decided = "none"
    <2>1. scheduled \subseteq Packets /\ 1 \in 1..MaxRepair /\ 0 \in 0..MaxRepair
      BY <1>1 DEF HealAssumption
    <2>2. \A p \in scheduled : Incident(p, sick) \in J
      OBVIOUS
    <2> HIDE DEF J, sick
    <2> QED
      BY <2>1, <2>2
      DEF NewRepair, RepairOf, WorkStatus, LiveStatus, Decisions, Decided, DispatchStatus
  <1> HIDE DEF k, order, J, sick
  <1>8. \A n \in 1..k :
            /\ added[n] \in RepairOf(J)
            /\ added[n].item = "pending" /\ added[n].decided = "none"
    BY <1>5, <1>7
  <1>9. added \in [1..k -> RepairOf(J)]
    BY <1>8
  <1> HIDE DEF added
  <1>10. added \in Seq(RepairOf(J)) /\ Len(added) = k
    <2>1. added \in Seq(RepairOf(J))
      BY <1>5, <1>9, SeqDef
    <2>2. DOMAIN added = 1..k /\ DOMAIN added = 1..Len(added) /\ Len(added) \in Nat
      BY <1>9, <2>1, LenProperties
    <2> QED
      BY <1>5, <2>1, <2>2
  <1>11. RepairInv' /\ Len(repair') = Len(repair) + k
    BY <1>2, <1>6, <1>8, <1>10, AddRepairs
  <1>12. k <= AutoPatchCap - patches /\ patches' = patches + k
    BY <1>3, <1>4 DEF k
  <1>13. BudgetInv' /\ patches' \in Nat
    BY <1>5, <1>11, <1>12 DEF BudgetInv, RestTypes, HealAssumption
  <1> QED
    BY <1>2, <1>11, <1>13

-----------------------------------------------------------------------------
(* The end of the run *)

LEMMA InflightIs ==
    ASSUME WorkInv, RepairInv
    PROVE  Inflight(work, repair) <=>
               \/ \E p \in Packets : \E n \in 1..Len(work[p]) : work[p][n].status = "leased"
               \/ \E r \in 1..Len(repair) : repair[r].item = "leased"
  <1>1. \A p \in Packets : DOMAIN work[p] = 1..Len(work[p])
    BY Lens DEF WorkInv
  <1>2. DOMAIN repair = 1..Len(repair)
    BY Reps DEF RepairInv, Repairs
  <1> QED
    BY <1>1, <1>2 DEF Inflight, ToSet

LEMMA InflightNext ==
    ASSUME WorkInv', RepairInv'
    PROVE  Inflight(work', repair') <=>
               \/ \E p \in Packets : \E n \in 1..Len(work'[p]) : work'[p][n].status = "leased"
               \/ \E r \in 1..Len(repair') : repair'[r].item = "leased"
  <1>1. \A p \in Packets : work'[p] \in Seq(Item)
    BY DEF WorkInv, WorkTypes
  <1>2. \A p \in Packets : DOMAIN work'[p] = 1..Len(work'[p])
    BY <1>1, LenProperties
  <1>3. DOMAIN repair' = 1..Len(repair')
    <2>1. repair' \in Seq(RepairOf(IncidentsOf(repair')))
      BY DEF RepairInv, RepairTypes, Incidents, IncidentsOf, RepairOf
    <2> QED
      BY <2>1, LenProperties
  <1> QED
    BY <1>2, <1>3 DEF Inflight, ToSet

\* The reconciliation ends no run that has something in flight.
LEMMA ReconciledIs ==
    ASSUME NEW w, NEW r
    PROVE  /\ Reconciled(w, r) = run \/ (Reconciled(w, r) \in {"failed", "succeeded"} /\ ~Inflight(w, r))
           /\ run # "running" => Reconciled(w, r) = run
  BY DEF Reconciled

\* A run with something in flight is running.
LEMMA StillRunning ==
    ASSUME WorkInv, RepairInv, Quiet,
           \/ \E p \in Packets : work[p][LastOf(p)].status = "leased"
           \/ \E r \in Repairs : repair[r].item = "leased"
    PROVE  run = "running"
  <1>1. CASE \E p \in Packets : work[p][LastOf(p)].status = "leased"
    <2>1. \A p \in Packets : LastOf(p) \in 1..Len(work[p])
      BY Lens DEF WorkInv
    <2> QED
      BY <1>1, <2>1, InflightIs DEF Quiet
  <1>2. CASE \E r \in Repairs : repair[r].item = "leased"
    <2>1. Repairs = 1..Len(repair)
      BY Reps DEF RepairInv
    <2> QED
      BY <1>2, <2>1, InflightIs DEF Quiet
  <1> QED
    BY <1>1, <1>2

\* A step that decides on the run by what it leaves behind, or leaves it alone.
LEMMA QuietAfter ==
    ASSUME Quiet, RestTypes, revision' \in Revs, patches' \in Nat,
           run' = run \/ run' = Reconciled(work', repair'),
           run # "running" => (Inflight(work', repair') => Inflight(work, repair))
    PROVE  RestTypes' /\ Quiet'
  <1>1. run' = run \/ (run = "running" /\ run' \in {"failed", "succeeded"} /\ ~Inflight(work', repair'))
    BY ReconciledIs
  <1>2. RestTypes'
    BY <1>1 DEF RestTypes, Revs
  <1>3. Quiet' <=> (run' # "running" => ~Inflight(work', repair'))
    BY DEF Quiet, Inflight, ToSet
  <1> QED
    BY <1>1, <1>2, <1>3 DEF Quiet

-----------------------------------------------------------------------------
(* The steps *)

LEMMA InitIInv == ASSUME HealAssumption, HealInit PROVE IInv
  <1>1. NewItem(NoRevision) \in Item /\ NewItem(NoRevision).status = "pending"
    BY DEF NewItem, Item, WorkStatus, LiveStatus, Revs, HealAssumption
  <1>2. \A p \in Packets : work[p] = <<NewItem(NoRevision)>>
    BY DEF HealInit
  <1>3. \A p \in Packets : Len(work[p]) = 1 /\ work[p][1].status = "pending" /\ DOMAIN work[p] = 1..1
    BY <1>1, <1>2
  <1>4. WorkInv
    <2>1. <<NewItem(NoRevision)>> \in Seq(Item)
      BY <1>1
    <2>2. WorkTypes
      BY <1>3, <2>1 DEF HealInit, WorkTypes
    <2>3. \A p \in Packets : \A n \in 1..Len(work[p]) : ~(n < Len(work[p]))
      <3>1. \A n \in 1..1 : ~(n < 1)
        OBVIOUS
      <3>2. \A p \in Packets : Len(work[p]) = 1
        BY <1>3
      <3> QED
        BY <3>1, <3>2
    <2>4. OlderSettled
      BY <2>3 DEF OlderSettled
    <2> QED
      BY <2>2, <2>4 DEF WorkInv
  <1>5. RepairInv
    <2>1. repair = <<>> /\ Len(repair) = 0 /\ threads = {}
      BY DEF HealInit
    <2> QED
      BY <2>1 DEF RepairInv, RepairTypes, ThreadTypes
  <1>6. BudgetInv /\ RestTypes
    BY DEF HealInit, BudgetInv, RestTypes, Revs, HealAssumption
  <1>7. Quiet
    BY DEF HealInit, Quiet
  <1> QED
    BY <1>4, <1>5, <1>6, <1>7 DEF IInv

LEMMA SameWork == ASSUME WorkInv, work' = work PROVE WorkInv'
  BY DEF WorkInv, WorkTypes, OlderSettled

LEMMA SameRepairs ==
    ASSUME RepairInv, repair' = repair, threads' \subseteq threads
    PROVE  RepairInv'
  <1>1. \A t \in threads' : ThreadOK(t)'
    BY FitsIs, FitsNext DEF RepairInv
  <1>2. Incidents' = Incidents
    BY DEF Incidents, IncidentsOf
  <1>3. RepairTypes'
    BY <1>2 DEF RepairInv, RepairTypes, RepairOf
  <1>4. ThreadTypes'
    BY DEF RepairInv, ThreadTypes
  <1>5. \A r \in 1..Len(repair') : TellsTheTruth(repair[r])'
    BY DEF RepairInv, TellsTheTruth
  <1> QED
    BY <1>1, <1>3, <1>4, <1>5 DEF RepairInv

\* A step on a translation: its item is claimed while the run goes on, or leased.
LEMMA TranslateStep ==
    ASSUME HealAssumption, IInv, NEW p \in Packets,
           \/ ClaimTranslate(p) \/ ReapTranslate(p)
           \/ \E o \in {"succeeded", "retryable_failed", "terminal_failed"} : FinishTranslate(p, o)
    PROVE  IInv'
  <1> USE DEF IInv
  <1>1. WorkInv'
    BY ClaimTranslateWork, ReapTranslateWork, FinishTranslateWork
  <1>2. UNCHANGED <<repair, threads, patches, revision>>
    BY DEF ClaimTranslate, ReapTranslate, FinishTranslate
  <1>3. RepairInv'
    BY <1>2, SameRepairs
  <1>4. run = "running"
    <2>1. CASE ClaimTranslate(p) \/ ReapTranslate(p)
      BY <2>1 DEF ClaimTranslate, ReapTranslate
    <2>2. CASE \E o \in {"succeeded", "retryable_failed", "terminal_failed"} : FinishTranslate(p, o)
      <3>1. work[p][LastOf(p)].status = "leased"
        BY <2>2 DEF FinishTranslate
      <3> QED
        BY <3>1, StillRunning
    <2> QED
      BY <2>1, <2>2
  <1>5. run' = run \/ run' = Reconciled(work', repair')
    BY <1>2 DEF ClaimTranslate, ReapTranslate, FinishTranslate
  <1>6. RestTypes' /\ Quiet'
    BY <1>2, <1>4, <1>5, QuietAfter DEF RestTypes
  <1> QED
    BY <1>1, <1>2, <1>3, <1>6 DEF BudgetInv

LEMMA ControllersStep ==
    ASSUME HealAssumption, IInv, NEW overdue \in SUBSET MayBeOverdue, ReconcileControllers(overdue)
    PROVE  IInv'
  <1> USE DEF IInv
  <1>1. RepairInv' /\ BudgetInv' /\ patches' \in Nat /\ UNCHANGED <<run, revision, work, threads>>
    BY ControllersKeep
  <1>2. WorkInv'
    BY <1>1, SameWork
  <1>3. run = "running"
    BY DEF ReconcileControllers
  <1>4. RestTypes' /\ Quiet'
    BY <1>1, <1>3, QuietAfter DEF RestTypes
  <1> QED
    BY <1>1, <1>2, <1>4

\* A step that leases nothing, whether the run goes on or not.
LEMMA LeasesNothing ==
    ASSUME IInv, WorkInv', RepairInv', Len(repair') = Len(repair), UNCHANGED <<work, patches, revision>>,
           run' = run \/ run' = Reconciled(work', repair'),
           \A q \in 1..Len(repair) : repair'[q].item = "leased" => repair[q].item = "leased"
    PROVE  IInv'
  <1> USE DEF IInv
  <1>1. Inflight(work', repair') => Inflight(work, repair)
    BY InflightIs, InflightNext
  <1>2. RestTypes' /\ Quiet'
    BY <1>1, QuietAfter DEF RestTypes
  <1> QED
    BY <1>2 DEF BudgetInv

\* A step on a repair's item.
LEMMA RepairStep ==
    ASSUME HealAssumption, IInv, NEW r \in Repairs,
           ClaimRepair(r) \/ Elapse(r) \/ ReapRepair(r) \/ Resume(r)
    PROVE  IInv'
  <1> USE DEF IInv
  <1>1. UNCHANGED <<run, revision, work, patches>>
    BY DEF ClaimRepair, Elapse, ReapRepair, Resume
  <1>2. WorkInv'
    BY <1>1, SameWork
  <1>3. RepairInv' /\ Len(repair') = Len(repair)
    BY ClaimRepairKeeps, ElapseKeeps, ReapRepairKeeps, ResumeKeeps
  <1>4. CASE ClaimRepair(r) \/ ReapRepair(r)
    <2>1. run = "running"
      BY <1>4 DEF ClaimRepair, ReapRepair
    <2>2. RestTypes' /\ Quiet'
      BY <1>1, <2>1, QuietAfter DEF RestTypes
    <2> QED
      BY <1>1, <1>2, <1>3, <2>2 DEF BudgetInv
  <1>5. CASE Elapse(r)
    BY <1>1, <1>2, <1>3, <1>5, ElapseKeeps, LeasesNothing
  <1>6. CASE Resume(r)
    <2>1. \A q \in 1..Len(repair) : repair'[q].item = "leased" => repair[q].item = "leased"
      BY <1>6, ResumeKeeps
    <2> QED
      BY <1>1, <1>2, <1>3, <2>1, LeasesNothing
  <1> QED
    BY <1>4, <1>5, <1>6

\* A step of a repair worker's thread.
LEMMA ThreadStep ==
    ASSUME HealAssumption, IInv, NEW t \in threads, RepairThread(t)
    PROVE  IInv'
  <1> USE DEF IInv
  <1>1. CASE Begin(t)
    <2>1. UNCHANGED <<run, revision, work, patches>>
      BY <1>1 DEF Begin
    <2>2. /\ RepairInv' /\ Len(repair') = Len(repair)
          /\ \A q \in 1..Len(repair) : repair'[q].item = repair[q].item
      BY <1>1, BeginKeeps
    <2> QED
      BY <2>1, <2>2, SameWork, LeasesNothing
  <1>2. CASE Publish(t)
    <2> DEFINE p == repair[t.repair].packet
    <2>1. /\ work' = [work EXCEPT ![p] = Replayed(work[p], p)] /\ revision' = p
          /\ UNCHANGED <<run, patches>>
      BY <1>2 DEF Publish
    <2>2. /\ RepairInv' /\ Len(repair') = Len(repair) /\ t.repair \in Repairs
          /\ repair[t.repair].item = "leased" /\ p \in Packets
      BY <1>2, PublishKeeps
    <2> HIDE DEF p
    <2>3. WorkInv'
      BY <2>1, <2>2, PublishWork
    <2>4. run = "running"
      BY <2>2, StillRunning
    <2>5. RestTypes' /\ Quiet'
      BY <2>1, <2>2, <2>4, QuietAfter DEF RestTypes, Revs
    <2> QED
      BY <2>1, <2>2, <2>3, <2>5 DEF BudgetInv
  <1>3. CASE \E f \in Failures : Fail(t, f)
    <2>1. PICK f \in Failures : Fail(t, f)
      BY <1>3
    <2>2. UNCHANGED <<revision, work, patches>>
      BY <2>1 DEF Fail
    <2>3. run' = run \/ run' = Reconciled(work', repair')
      BY <2>1, <2>2 DEF Fail
    <2>4. /\ RepairInv' /\ Len(repair') = Len(repair)
          /\ \A q \in 1..Len(repair) : repair'[q].item = "leased" => repair[q].item = "leased"
      BY <2>1, FailKeeps
    <2> QED
      BY <2>2, <2>3, <2>4, SameWork, LeasesNothing
  <1> QED
    BY <1>1, <1>2, <1>3 DEF RepairThread

LEMMA NextIInv == ASSUME HealAssumption, IInv, [HealNext]_healVars PROVE IInv'
  <1>1. CASE HealCrash \/ Settle \/ UNCHANGED healVars
    <2>1. UNCHANGED <<work, repair, patches, revision>> /\ threads' \subseteq threads
      BY <1>1 DEF HealCrash, Settle, healVars
    <2>2. run' = run \/ run' = Reconciled(work', repair')
      BY <1>1, <2>1 DEF HealCrash, Settle, healVars
    <2>3. WorkInv' /\ RepairInv'
      BY <2>1, SameWork, SameRepairs DEF IInv
    <2>4. /\ Len(repair') = Len(repair)
          /\ \A q \in 1..Len(repair) : repair'[q].item = "leased" => repair[q].item = "leased"
      BY <2>1
    <2> QED
      BY <2>1, <2>2, <2>3, <2>4, LeasesNothing
  <1>2. CASE \E p \in Packets : ClaimTranslate(p) \/ ReapTranslate(p)
    BY <1>2, TranslateStep
  <1>3. CASE \E p \in Packets, o \in {"succeeded", "retryable_failed", "terminal_failed"} : FinishTranslate(p, o)
    BY <1>3, TranslateStep
  <1>4. CASE \E overdue \in SUBSET MayBeOverdue : ReconcileControllers(overdue)
    BY <1>4, ControllersStep
  <1>5. CASE \E r \in Repairs : ClaimRepair(r) \/ Elapse(r) \/ ReapRepair(r) \/ Resume(r)
    BY <1>5, RepairStep
  <1>6. CASE \E t \in threads : RepairThread(t)
    BY <1>6, ThreadStep
  <1> QED
    BY <1>1, <1>2, <1>3, <1>4, <1>5, <1>6 DEF HealNext

LEMMA Invariance == ASSUME HealAssumption PROVE HealSpec => []IInv
  <1>1. HealInit => IInv
    BY InitIInv
  <1>2. IInv /\ [HealNext]_healVars => IInv'
    BY NextIInv
  <1> QED
    BY <1>1, <1>2, PTL DEF HealSpec

-----------------------------------------------------------------------------
(* What follows *)

\* The types of the run's variables: every repair, attempt and execution is one
\* there is, whatever threads that outlived their lease still report.
THEOREM HealTypesCorrect == ASSUME HealAssumption PROVE HealSpec => []HealTypeOK
  <1>1. IInv => HealTypeOK
    <2> SUFFICES ASSUME IInv PROVE HealTypeOK
      OBVIOUS
    <2>1. ASSUME NEW p \in Packets PROVE \A i \in ToSet(work[p]) : i \in Item
      <3>1. /\ ToSet(work[p]) = {work[p][n] : n \in 1..Len(work[p])}
            /\ \A n \in 1..Len(work[p]) : work[p][n] \in Item
        BY Lens DEF IInv, WorkInv
      <3> QED
        BY <3>1
    <2>2. Repairs = 1..Len(repair) /\ \A r \in Repairs : repair[r] \in RepairOf(Incidents)
      BY Reps DEF IInv, RepairInv
    <2>3. \A t \in threads : t.repair \in Repairs
      BY <2>2, Threads DEF IInv
    <2> QED
      BY <2>1, <2>2, <2>3 DEF IInv, RestTypes, HealTypeOK, Item, RepairOf, Revs
  <1> QED
    BY <1>1, Invariance, PTL

\* The index uq_work_items_active_scope is never hit: replay, which a published
\* repair asks for, binds the live item of its packet and seeds another one only
\* where none is live, whatever was claimed, reaped or repaired before.
THEOREM OneLive == ASSUME HealAssumption PROVE HealSpec => []OneLiveItem
  <1>1. IInv => OneLiveItem
    <2> SUFFICES ASSUME IInv, NEW p \in Packets, NEW m \in DOMAIN work[p], NEW n \in DOMAIN work[p],
                        work[p][m].status \in LiveStatus, work[p][n].status \in LiveStatus
                 PROVE  m = n
      BY DEF OneLiveItem
    <2>1. Len(work[p]) \in Nat /\ m \in 1..Len(work[p]) /\ n \in 1..Len(work[p])
      BY Lens DEF IInv, WorkInv
    <2>2. m = Len(work[p]) /\ n = Len(work[p])
      BY <2>1 DEF IInv, WorkInv, OlderSettled, Settled, LiveStatus
    <2> QED
      BY <2>2
  <1> QED
    BY <1>1, Invariance, PTL

\* BudgetController: the proposals there are, are those the run has counted, and
\* a turn that opens several asks again for each, so they never exceed the cap.
THEOREM WithinBudget == ASSUME HealAssumption PROVE HealSpec => []PatchesWithinBudget
  <1>1. IInv => PatchesWithinBudget
    BY DEF IInv, BudgetInv, PatchesWithinBudget
  <1> QED
    BY <1>1, Invariance, PTL

\* A dispatch asks for a human exactly while its work item does: the report of a
\* failed execution writes both or, where the lease is gone, neither, and a
\* thread that still holds its lease always finds its execution there to end.
THEOREM EscalationTold == ASSUME HealAssumption PROVE HealSpec => []EscalationIsTrue
  <1>1. IInv => EscalationIsTrue
    <2>1. IInv => Repairs = 1..Len(repair)
      BY Reps DEF IInv, RepairInv
    <2> QED
      BY <2>1 DEF IInv, RepairInv, EscalationIsTrue, TellsTheTruth
  <1> QED
    BY <1>1, Invariance, PTL

\* The reconciliation of a run counts the repairs in flight too, though they are
\* no stage: a run that is over has no item, of either kind, with a worker.
THEOREM NothingRunning == ASSUME HealAssumption PROVE HealSpec => []NothingRunsOn
  <1>1. IInv => NothingRunsOn
    <2> SUFFICES ASSUME IInv, run # "running"
                 PROVE  /\ \A i \in AllItems : i.status # "leased"
                        /\ \A r \in Repairs : repair[r].item # "leased"
      BY DEF NothingRunsOn
    <2>1. ~Inflight(work, repair)
      BY DEF IInv, Quiet
    <2>2. \A i \in ToSet(repair) : i.item # "leased"
      BY <2>1 DEF Inflight
    <2>3. \A r \in Repairs : repair[r].item # "leased"
      BY <2>2 DEF ToSet, Repairs
    <2> QED
      BY <2>1, <2>3 DEF Inflight, AllItems
  <1> QED
    BY <1>1, Invariance, PTL
=============================================================================
