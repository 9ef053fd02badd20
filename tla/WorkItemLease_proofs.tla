------------------------ MODULE WorkItemLease_proofs ------------------------
(***************************************************************************)
(* Proofs about WorkItemLease, for any set of items and tokens and any     *)
(* retry limit.  The safety properties are not inductive one by one: they  *)
(* hold together with three facts about leases and threads, which make up  *)
(* the inductive invariant IInv.  At the end, a fact about counting: an    *)
(* item's attempt is the number of its claims.                             *)
(***************************************************************************)
EXTENDS WorkItemLease, FiniteSetTheorems, TLAPS

\* A token is given its item, and a thread, only when it is issued.
IssuedLeases ==
    \A l \in Leases :
        IF leaseStatus[l] = "unissued"
        THEN leaseItem[l] = NoItem /\ thread[l] = "none" /\ l \notin scan
        ELSE leaseItem[l] \in Items

\* A thread that is to report a success has a translated packet.
SuccessIsEarned ==
    \A l \in Leases :
        \/ thread[l] = "translated"
        \/ thread[l] = "reporting" /\ verdict[l] = "succeeded"
        => packet[leaseItem[l]] = "translated"

\* A thread that has outlived its item has nothing left to translate.
OutlivedThreadIsIdle ==
    \A l \in Leases :
        Live(l) /\ itemStatus[leaseItem[l]] \in Settled
            => packet[leaseItem[l]] = "translated"

IInv ==
    /\ TypeOK
    /\ IssuedLeases
    /\ OwnedItemHasActiveLease
    /\ OneThreadPerItem
    /\ SuccessIsEarned
    /\ SettledMeansTranslated
    /\ OutlivedThreadIsIdle

-----------------------------------------------------------------------------
(* IInv is inductive *)

LEMMA InitIInv == Init => IInv
BY LeaseAssumption DEF Init, IInv, TypeOK, IssuedLeases, OwnedItemHasActiveLease,
    OneThreadPerItem, SuccessIsEarned, SettledMeansTranslated, OutlivedThreadIsIdle,
    Owned, Live, LiveThread, ThreadState, ItemStatus, LeaseStatus, Verdict,
    Claimable, OwnedStatus, Settled

\* A live thread runs under an issued token, so it has an item.
LEMMA LiveHasItem ==
    ASSUME TypeOK, IssuedLeases, NEW l \in Leases, Live(l)
    PROVE  leaseItem[l] \in Items /\ leaseStatus[l] # "unissued"
BY DEF IssuedLeases, Live, LiveThread

\* The types are preserved by every action on its own: what an action writes
\* to a row is a value of the column, given that the row exists.
LEMMA TypeStep ==
    ASSUME TypeOK, IssuedLeases, Next
    PROVE  TypeOK'
<1> USE DEF TypeOK, ItemStatus, LeaseStatus, ThreadState, Verdict, Claimable,
            OwnedStatus, Settled, LiveThread, itemVars, leaseVars, threadVars
<1>1. ASSUME NEW i \in Items, NEW l \in Leases, Claim(i, l)
      PROVE  TypeOK'
  BY <1>1 DEF Claim, NewThread, NextAttempt
<1>2. ASSUME NEW i \in Items, CancelObsolete(i)
      PROVE  TypeOK'
  BY <1>2 DEF CancelObsolete
<1>3. CASE ReapScan
  BY <1>3 DEF ReapScan
<1>4. CASE ReapCommit
  BY <1>4 DEF ReapCommit
<1>5. ASSUME NEW l \in Leases, Lapse(l) \/ Heartbeat(l)
      PROVE  TypeOK'
  BY <1>5 DEF Lapse, Heartbeat
<1>6. ASSUME NEW l \in Leases, WorkerStep(l)
      PROVE  TypeOK'
  <2>1. CASE Start(l)
    BY <2>1 DEF Start
  <2>2. CASE Translate(l)
    BY <2>2 DEF Translate
  <2>3. ASSUME NEW v \in Verdict, BeginReport(l, v)
        PROVE  TypeOK'
    BY <2>3 DEF BeginReport
  <2>4. CASE CommitReport(l)
    BY <2>4 DEF CommitReport
  <2>5. CASE WorkerRaises(l) \/ AbortReport(l) \/ ReportRefused(l)
    BY <2>5 DEF WorkerRaises, AbortReport, ReportRefused
  <2> QED BY <1>6, <2>1, <2>2, <2>3, <2>4, <2>5 DEF WorkerStep
<1>7. CASE Crash
  BY <1>7 DEF Crash
<1> QED BY <1>1, <1>2, <1>3, <1>4, <1>5, <1>6, <1>7 DEF Next

\* A token has an item and a thread from the moment it is issued: the reaper
\* lists active leases only, and a thread starts with the claim.
LEMMA IssuedStep ==
    ASSUME TypeOK, IssuedLeases, Next
    PROVE  IssuedLeases'
<1> USE LeaseAssumption
    DEF TypeOK, IssuedLeases, LiveThread, Live, itemVars, leaseVars, threadVars
<1>1. ASSUME NEW i \in Items, NEW l \in Leases, Claim(i, l)
      PROVE  IssuedLeases'
  BY <1>1 DEF Claim, NewThread, NextAttempt
<1>2. CASE ReapScan
  BY <1>2 DEF ReapScan
<1>3. CASE ReapCommit
  BY <1>3 DEF ReapCommit
<1>4. ASSUME NEW l \in Leases, WorkerStep(l)
      PROVE  IssuedLeases'
  BY <1>4 DEF WorkerStep, Start, Translate, WorkerRaises, BeginReport,
              CommitReport, AbortReport, ReportRefused
<1>5. CASE Crash
  BY <1>5 DEF Crash
<1> QED
  BY <1>1, <1>2, <1>3, <1>4, <1>5 DEF Next, CancelObsolete, Lapse, Heartbeat

\* An item in hand keeps its active lease.  The three actions that matter:
\* a claim hands out a fresh token, which no item holds; a sweep takes back
\* every item whose lease it ends; a report ends only its own item's lease,
\* because the holder of another item is a lease of that other item.
LEMMA OwnedStep ==
    ASSUME TypeOK, IssuedLeases, OwnedItemHasActiveLease, Next
    PROVE  OwnedItemHasActiveLease'
<1> USE DEF TypeOK, OwnedItemHasActiveLease, Owned, itemVars, leaseVars, threadVars
<1>1. ASSUME NEW i \in Items, NEW l \in Leases, Claim(i, l)
      PROVE  OwnedItemHasActiveLease'
  <2>1. ASSUME NEW j \in Items, Owned(j)
        PROVE  holder[j] # l /\ j # i
    BY <1>1, <2>1 DEF Claim, Claimable, OwnedStatus
  <2> QED BY <1>1, <2>1 DEF Claim, NewThread, NextAttempt
<1>2. ASSUME NEW i \in Items, CancelObsolete(i)
      PROVE  OwnedItemHasActiveLease'
  BY <1>2 DEF CancelObsolete, OwnedStatus
<1>3. CASE ReapCommit
  <2>1. ASSUME NEW i \in Items, Owned(i)'
        PROVE  Owned(i) /\ i \notin ReapedItems
    BY <1>3, <2>1 DEF ReapCommit, OwnedStatus
  <2>2. ASSUME NEW i \in Items, Owned(i), i \notin ReapedItems
        PROVE  holder[i] \notin scan
    BY <2>2 DEF ReapedItems
  <2> QED BY <1>3, <2>1, <2>2 DEF ReapCommit
<1>4. ASSUME NEW l \in Leases, WorkerStep(l)
      PROVE  OwnedItemHasActiveLease'
  <2>1. CASE Start(l)
    BY <2>1 DEF Start, OwnedStatus
  <2>2. CASE CommitReport(l)
    <3>1. ~Owned(leaseItem[l])'
      BY <2>2, LiveHasItem DEF CommitReport, Live, LiveThread, Verdict, OwnedStatus
    <3>2. ASSUME NEW i \in Items, Owned(i)'
          PROVE  i # leaseItem[l] /\ Owned(i) /\ holder[i] # l
      BY <2>2, <3>1, <3>2 DEF CommitReport
    <3> QED BY <2>2, <3>2 DEF CommitReport
  <2> QED
    BY <1>4, <2>1, <2>2 DEF WorkerStep, Translate, WorkerRaises, BeginReport,
                            AbortReport, ReportRefused
<1> QED
  BY <1>1, <1>2, <1>3, <1>4 DEF Next, ReapScan, Lapse, Heartbeat, Crash

\* Only a claim starts a thread, and only for an item that has none.
LEMMA OneThreadStep ==
    ASSUME TypeOK, IssuedLeases, OneThreadPerItem, Next
    PROVE  OneThreadPerItem'
<1> USE DEF TypeOK, OneThreadPerItem, Live, LiveThread, itemVars, leaseVars, threadVars
<1>1. ASSUME NEW i \in Items, NEW l \in Leases, Claim(i, l)
      PROVE  OneThreadPerItem'
  <2>1. ASSUME NEW m \in Leases, Live(m)', m # l
        PROVE  Live(m) /\ leaseItem'[m] = leaseItem[m]
    BY <1>1, <2>1 DEF Claim, NewThread, NextAttempt
  <2>2. ASSUME Live(l)', NEW m \in Leases, Live(m), m # l
        PROVE  leaseItem[m] # i
    BY <1>1, <2>2 DEF Claim, NewThread, ThreadsOf
  <2>3. leaseItem'[l] = i
    BY <1>1 DEF Claim, NewThread, NextAttempt
  <2> QED BY <2>1, <2>2, <2>3
<1>2. ASSUME NEW l \in Leases, WorkerStep(l)
      PROVE  /\ leaseItem' = leaseItem
             /\ \A m \in Leases : Live(m)' => Live(m)
  BY <1>2 DEF WorkerStep, Start, Translate, WorkerRaises, BeginReport,
              CommitReport, AbortReport, ReportRefused
<1>3. CASE Crash
  BY <1>3 DEF Crash
<1> QED
  BY <1>1, <1>2, <1>3
  DEF Next, CancelObsolete, ReapScan, ReapCommit, Lapse, Heartbeat

\* A translated packet stays translated.
LEMMA PacketStep ==
    ASSUME TypeOK, IssuedLeases, Next, NEW i \in Items, packet[i] = "translated"
    PROVE  packet'[i] = "translated"
BY DEF TypeOK, Next, WorkerStep, Claim, CancelObsolete, ReapScan, ReapCommit, Lapse,
       Heartbeat, Start, Translate, WorkerRaises, BeginReport, CommitReport,
       AbortReport, ReportRefused, Crash, itemVars, leaseVars, threadVars

\* A thread gets to "translated" by translating, and to a success from there.
LEMMA SuccessStep ==
    ASSUME TypeOK, IssuedLeases, SuccessIsEarned, Next
    PROVE  SuccessIsEarned'
<1> DEFINE Earned(l) == \/ thread[l] = "translated"
                        \/ thread[l] = "reporting" /\ verdict[l] = "succeeded"
<1> SUFFICES ASSUME NEW l \in Leases, Earned(l)'
             PROVE  packet'[leaseItem'[l]] = "translated"
  BY DEF SuccessIsEarned
<1> USE DEF TypeOK, IssuedLeases, SuccessIsEarned, itemVars, leaseVars, threadVars
<1>1. CASE Translate(l)
  BY <1>1, LiveHasItem DEF Translate, Live, LiveThread
<1>2. ASSUME NEW i \in Items, NEW m \in Leases, Claim(i, m)
      PROVE  Earned(l) /\ leaseItem'[l] = leaseItem[l]
  BY <1>2 DEF Claim, NewThread, NextAttempt
<1>3. ASSUME NEW m \in Leases, WorkerStep(m), ~Translate(l)
      PROVE  Earned(l) /\ leaseItem'[l] = leaseItem[l]
  BY <1>3 DEF WorkerStep, Start, Translate, WorkerRaises, BeginReport,
              CommitReport, AbortReport, ReportRefused
<1>4. CASE Crash
  BY <1>4 DEF Crash, Live, LiveThread
<1>5. Earned(l) => leaseItem[l] \in Items
  BY LiveHasItem DEF Live, LiveThread
<1> QED
  BY <1>1, <1>2, <1>3, <1>4, <1>5, PacketStep
  DEF Next, CancelObsolete, ReapScan, ReapCommit, Lapse, Heartbeat

\* An item is written as succeeded by a report of a success, and as cancelled
\* when its packet is seen translated.
LEMMA SettledStep ==
    ASSUME TypeOK, IssuedLeases, SuccessIsEarned, SettledMeansTranslated, Next
    PROVE  SettledMeansTranslated'
<1> SUFFICES ASSUME NEW i \in Items, itemStatus'[i] \in {"succeeded", "cancelled"}
             PROVE  packet'[i] = "translated"
  BY DEF SettledMeansTranslated
<1> USE DEF TypeOK, SettledMeansTranslated, itemVars, leaseVars, threadVars
<1>1. ASSUME itemStatus[i] # itemStatus'[i]
      PROVE  packet[i] = "translated"
  <2>1. ASSUME NEW l \in Leases, WorkerStep(l)
        PROVE  packet[i] = "translated"
    <3>1. CommitReport(l) /\ i = leaseItem[l] /\ verdict[l] = "succeeded"
      BY <1>1, <2>1 DEF WorkerStep, Start, Translate, WorkerRaises, BeginReport,
                        CommitReport, AbortReport, ReportRefused, Verdict
    <3> QED BY <3>1 DEF CommitReport, SuccessIsEarned
  <2> QED
    BY <1>1, <2>1 DEF Next, Claim, CancelObsolete, ReapScan, ReapCommit, Lapse,
                      Heartbeat, Crash
<1> QED BY <1>1, PacketStep

\* Only its own report settles an item that has a thread, and that report is
\* the thread's last step.
LEMMA OutlivedStep ==
    ASSUME IInv, Next
    PROVE  OutlivedThreadIsIdle'
<1> SUFFICES ASSUME NEW l \in Leases, Live(l)', itemStatus'[leaseItem'[l]] \in Settled
             PROVE  packet'[leaseItem'[l]] = "translated"
  BY DEF OutlivedThreadIsIdle
<1> USE DEF IInv, TypeOK, Live, itemVars, leaseVars, threadVars
<1>1. ASSUME NEW i \in Items, NEW m \in Leases, Claim(i, m)
      PROVE  Live(l) /\ leaseItem'[l] = leaseItem[l] /\ leaseItem[l] # i
  BY <1>1 DEF Claim, LiveThread, Settled, IssuedLeases
<1>2. ASSUME NEW m \in Leases, WorkerStep(m)
      PROVE  /\ Live(l) /\ leaseItem' = leaseItem
             /\ itemStatus[leaseItem[l]] \in Settled
  <2>1. Live(l) /\ leaseItem' = leaseItem
    BY <1>2 DEF WorkerStep, Start, Translate, WorkerRaises, BeginReport,
                CommitReport, AbortReport, ReportRefused, LiveThread
  <2>2. CASE CommitReport(m)
    <3>1. m # l
      BY <2>2 DEF CommitReport, LiveThread
    <3>2. leaseItem[m] # leaseItem[l]
      BY <2>1, <2>2, <3>1 DEF OneThreadPerItem, CommitReport, LiveThread
    <3> QED BY <2>1, <2>2, <3>2, LiveHasItem DEF CommitReport
  <2> QED
    BY <1>2, <2>1, <2>2, LiveHasItem DEF WorkerStep, Start, Translate, WorkerRaises, BeginReport,
                            AbortReport, ReportRefused, Settled
<1>3. CASE ReapCommit
  BY <1>3, LiveHasItem, PacketStep DEF ReapCommit, Settled, OutlivedThreadIsIdle
<1>4. CASE Crash
  BY <1>4 DEF Crash, LiveThread
<1>5. ASSUME NEW i \in Items, CancelObsolete(i)
      PROVE  packet'[leaseItem'[l]] = "translated"
  BY <1>5, LiveHasItem DEF CancelObsolete, OutlivedThreadIsIdle
<1> QED
  BY <1>1, <1>2, <1>3, <1>4, <1>5, LiveHasItem, PacketStep
  DEF Next, Claim, ReapScan, Lapse, Heartbeat, OutlivedThreadIsIdle

LEMMA InductiveStep == IInv /\ [Next]_vars => IInv'
<1> SUFFICES ASSUME IInv, [Next]_vars
             PROVE  IInv'
  OBVIOUS
<1>1. CASE Next
  BY <1>1, TypeStep, IssuedStep, OwnedStep, OneThreadStep, SuccessStep, SettledStep,
     OutlivedStep DEF IInv
<1>2. CASE UNCHANGED vars
  BY <1>2 DEF vars, IInv, TypeOK, IssuedLeases, OwnedItemHasActiveLease, OneThreadPerItem,
              SuccessIsEarned, SettledMeansTranslated, OutlivedThreadIsIdle, Owned, Live
<1> QED BY <1>1, <1>2

-----------------------------------------------------------------------------
(* The theorems *)

\* IInv holds in every reachable state.
THEOREM Invariance == Spec => []IInv
BY InitIInv, InductiveStep, PTL DEF Spec

\* The tables and threads only hold values of their types, whatever the
\* number of items, tokens and retries.
THEOREM TypeCorrect == Spec => []TypeOK
<1>1. IInv => TypeOK
  BY DEF IInv
<1> QED BY <1>1, Invariance, PTL

\* An item in a worker's hands is always held under an active lease of its
\* own, so the reaper can always find it.
THEOREM LeaseHeld == Spec => []OwnedItemHasActiveLease
<1>1. IInv => OwnedItemHasActiveLease
  BY DEF IInv
<1> QED BY <1>1, Invariance, PTL

\* Two threads of a process never work on the same item, however many leases
\* of it were reaped and claimed again.
THEOREM ThreadExclusion == Spec => []OneThreadPerItem
<1>1. IInv => OneThreadPerItem
  BY DEF IInv
<1> QED BY <1>1, Invariance, PTL

\* A succeeded or obsolete item has its packet translated.
THEOREM SettledTranslated == Spec => []SettledMeansTranslated
<1>1. IInv => SettledMeansTranslated
  BY DEF IInv
<1> QED BY <1>1, Invariance, PTL

\* Every write to a settled item's status is guarded by the status it had, so
\* no step changes it: claims and cancellations want it claimable, sweeps and
\* reports want it in a worker's hands.
LEMMA SettledKept ==
    ASSUME TypeOK, IssuedLeases, [Next]_vars, NEW i \in Items, itemStatus[i] \in Settled
    PROVE  itemStatus'[i] = itemStatus[i]
<1> USE DEF TypeOK, Settled, Owned, OwnedStatus, Claimable, itemVars, leaseVars, threadVars
<1>1. ASSUME NEW j \in Items, NEW l \in Leases, Claim(j, l)
      PROVE  itemStatus'[i] = itemStatus[i]
  BY <1>1 DEF Claim, NewThread, NextAttempt
<1>2. ASSUME NEW j \in Items, CancelObsolete(j)
      PROVE  itemStatus'[i] = itemStatus[i]
  BY <1>2 DEF CancelObsolete
<1>3. CASE ReapCommit
  BY <1>3 DEF ReapCommit, ReapedItems
<1>4. ASSUME NEW l \in Leases, WorkerStep(l)
      PROVE  itemStatus'[i] = itemStatus[i]
  BY <1>4 DEF WorkerStep, Start, Translate, WorkerRaises, BeginReport,
              CommitReport, AbortReport, ReportRefused
<1> QED
  BY <1>1, <1>2, <1>3, <1>4 DEF Next, ReapScan, Lapse, Heartbeat, Crash, vars

\* A settled item stays as it is.
THEOREM SettledStays == Spec => SettledIsFinal
<1>1. IInv /\ [Next]_vars
        => [\A i \in Items : itemStatus[i] \in Settled
                               => itemStatus'[i] = itemStatus[i]]_vars
  BY SettledKept DEF IInv
<1> QED BY <1>1, Invariance, PTL DEF Spec, SettledIsFinal

-----------------------------------------------------------------------------
(* WorkItemLease implements WorkLedger *)

\* What the ledger sees of a status.
LEMMA LedgerStates ==
    /\ \A s \in Claimable : LedgerState(s) = "waiting"
    /\ \A s \in OwnedStatus : LedgerState(s) = "inflight"
    /\ LedgerState("succeeded") = "done"
    /\ LedgerState("terminal_failed") = "failed"
    /\ LedgerState("cancelled") = "obsolete"
BY DEF LedgerState, Claimable, OwnedStatus

LEMMA LedgerInit == Init => Ledger!Init
BY LedgerStates DEF Init, Ledger!Init, Claimable

\* Each action is a step of the ledger, or changes nothing it sees.
LEMMA LedgerStep ==
    ASSUME IInv, [Next]_vars
    PROVE  [Ledger!Next]_(Ledger!vars)
<1> DEFINE state == [i \in Items |-> LedgerState(itemStatus[i])]
           effect == {i \in Items : packet[i] = "translated"}
<1> USE LedgerStates DEF IInv, TypeOK, itemVars, leaseVars, threadVars
<1>1. ASSUME NEW i \in Items, NEW l \in Leases, Claim(i, l)
      PROVE  Ledger!Take(i)
  BY <1>1 DEF Claim, Claimable, OwnedStatus, Ledger!Take
<1>2. ASSUME NEW i \in Items, CancelObsolete(i)
      PROVE  Ledger!Drop(i)
  BY <1>2 DEF CancelObsolete, Ledger!Drop
<1>3. CASE ReapCommit
  <2>1. Ledger!Requeue(ReapedItems)
    BY <1>3 DEF ReapCommit, ReapedItems, Owned, Claimable, Ledger!Requeue
  <2> QED BY <2>1 DEF Ledger!Next, ReapedItems
<1>4. ASSUME NEW l \in Leases, Start(l)
      PROVE  UNCHANGED Ledger!vars
  BY <1>4 DEF Start, OwnedStatus, Ledger!vars
<1>5. ASSUME NEW l \in Leases, Translate(l)
      PROVE  [Ledger!Next]_(Ledger!vars)
  \* Perform, unless the item is settled: then it was translated before.
  <2>1. PICK i \in Items : i = leaseItem[l]
    BY <1>5, LiveHasItem DEF Translate, Live, LiveThread
  <2>2. state' = state /\ effect' = effect \cup {i}
    BY <1>5, <2>1 DEF Translate
  <2>3. CASE itemStatus[i] \in Settled
    <3>1. i \in effect
      BY <1>5, <2>1, <2>3 DEF Translate, OutlivedThreadIsIdle, Live, LiveThread
    <3> QED BY <2>2, <3>1 DEF Ledger!vars
  <2>4. CASE itemStatus[i] \notin Settled
    <3>1. state[i] \in {"waiting", "inflight"}
      BY <2>4 DEF ItemStatus
    <3>2. Ledger!Perform(i)
      BY <2>2, <3>1 DEF Ledger!Perform
    <3> QED BY <3>2 DEF Ledger!Next
  <2> QED BY <2>3, <2>4
<1>6. ASSUME NEW l \in Leases, CommitReport(l)
      PROVE  [Ledger!Next]_(Ledger!vars)
  \* Finish, GiveUp or Requeue, if the item is still in hand.
  <2>1. leaseItem[l] \in Items
    BY <1>6, LiveHasItem DEF CommitReport, Live, LiveThread
  <2>2. effect' = effect
    BY <1>6 DEF CommitReport
  <2>3. CASE ~Owned(leaseItem[l])
    BY <1>6, <2>2, <2>3 DEF CommitReport, Ledger!vars
  <2>4. CASE Owned(leaseItem[l])
    <3>1. state[leaseItem[l]] = "inflight"
      BY <2>1, <2>4 DEF Owned
    <3>2. state' = [state EXCEPT ![leaseItem[l]] = LedgerState(verdict[l])]
      BY <1>6, <2>1, <2>4 DEF CommitReport
    <3>3. CASE verdict[l] = "succeeded"
      <4>1. leaseItem[l] \in effect
        BY <1>6, <2>1, <3>3 DEF CommitReport, SuccessIsEarned
      <4>2. Ledger!Finish(leaseItem[l])
        BY <2>2, <3>1, <3>2, <3>3, <4>1 DEF Ledger!Finish
      <4> QED BY <2>1, <4>2 DEF Ledger!Next
    <3>4. CASE verdict[l] = "terminal_failed"
      <4>1. Ledger!GiveUp(leaseItem[l])
        BY <2>2, <3>1, <3>2, <3>4 DEF Ledger!GiveUp
      <4> QED BY <2>1, <4>1 DEF Ledger!Next
    <3>5. CASE verdict[l] = "retryable_failed"
      <4>0. state' = [i \in Items |-> IF i \in {leaseItem[l]} THEN "waiting" ELSE state[i]]
        BY <2>1, <3>2, <3>5 DEF Claimable
      <4> HIDE DEF state, effect
      <4>1. Ledger!Requeue({leaseItem[l]})
        BY <2>2, <3>1, <4>0 DEF Ledger!Requeue, state, effect
      <4> QED BY <2>1, <4>1 DEF Ledger!Next
    <3> QED BY <3>3, <3>4, <3>5 DEF Verdict
  <2> QED BY <2>3, <2>4
<1>7. ASSUME NEW l \in Leases,
             \/ WorkerRaises(l)
             \/ \E v \in Verdict : BeginReport(l, v)
             \/ AbortReport(l)
             \/ ReportRefused(l)
             \/ Lapse(l)
             \/ Heartbeat(l)
      PROVE  UNCHANGED Ledger!vars
  BY <1>7 DEF WorkerRaises, BeginReport, AbortReport, ReportRefused, Lapse, Heartbeat,
              Ledger!vars
<1>8. CASE ReapScan \/ Crash \/ UNCHANGED vars
  BY <1>8 DEF ReapScan, Crash, vars, Ledger!vars
<1> QED
  BY <1>1, <1>2, <1>3, <1>4, <1>5, <1>6, <1>7, <1>8
  DEF Next, WorkerStep, Ledger!Next

\* The tables implement the ledger: hiding leases and threads, every behaviour
\* is one in which an item is settled once, with its translation in place.
THEOREM Refinement == Spec => ImplementsLedger
BY LedgerInit, LedgerStep, Invariance, PTL DEF Spec, ImplementsLedger, Ledger!Spec

-----------------------------------------------------------------------------
(* Attempts and claims.  An item's claims are the tokens issued for it; that *)
(* they are finitely many is part of the invariant, so that nothing need be  *)
(* assumed of the set of tokens.  An item is pending until its first claim,  *)
(* and waits for a retry only after one.                                     *)

Claims(i) == {l \in Leases : leaseItem[l] = i}

ClaimsMatch ==
    \A i \in Items :
        /\ IsFiniteSet(Claims(i))
        /\ attempt[i] = IF Claims(i) = {} THEN 1 ELSE Cardinality(Claims(i))
        /\ itemStatus[i] = "pending" => Claims(i) = {}
        /\ itemStatus[i] = "retryable_failed" => Claims(i) # {}

\* A claim is the first one, or one more after a failure or an expiry.
LEMMA ClaimCounts ==
    ASSUME TypeOK, IssuedLeases, ClaimsMatch, NEW i \in Items, NEW l \in Leases, Claim(i, l)
    PROVE  ClaimsMatch'
<1>1. l \notin Claims(i) /\ leaseItem[l] = NoItem
  BY LeaseAssumption DEF Claim, IssuedLeases, Claims
<1>2. Claims(i)' = Claims(i) \cup {l}
  BY DEF Claim, Claims, TypeOK
<1>3. \A j \in Items \ {i} : Claims(j)' = Claims(j)
  BY <1>1, LeaseAssumption DEF Claim, Claims, TypeOK
<1>4. IsFiniteSet(Claims(i))
  BY DEF ClaimsMatch
<1>5. IsFiniteSet(Claims(i)') /\ Cardinality(Claims(i)') = Cardinality(Claims(i)) + 1
  BY <1>1, <1>2, <1>4, FS_AddElement
<1>6. attempt'[i] = Cardinality(Claims(i)')
  <2>1. CASE itemStatus[i] = "retryable_failed"
    BY <1>5, <2>1 DEF ClaimsMatch, Claim, NextAttempt, TypeOK
  <2>2. CASE itemStatus[i] = "pending"
    <3>1. attempt'[i] = 1 /\ Claims(i) = {}
      BY <2>2 DEF ClaimsMatch, Claim, NextAttempt, TypeOK
    <3> QED BY <1>5, <3>1, FS_EmptySet
  <2> QED BY <2>1, <2>2 DEF Claim, Claimable
<1>7. itemStatus'[i] = "leased" /\ \A j \in Items \ {i} : /\ itemStatus'[j] = itemStatus[j]
                                                        /\ attempt'[j] = attempt[j]
  BY DEF Claim, TypeOK
<1>8. Claims(i)' # {}
  BY <1>2
<1> HIDE DEF Claims
<1> QED
  BY <1>3, <1>5, <1>6, <1>7, <1>8 DEF ClaimsMatch

\* Nothing but a claim issues tokens or counts attempts, puts an item back to
\* pending, or has it wait for a retry without a claim.
LEMMA OthersCountNothing ==
    ASSUME TypeOK, IssuedLeases, ClaimsMatch, UNCHANGED <<leaseItem, attempt>>,
           \A i \in Items :
               \/ itemStatus'[i] = itemStatus[i]
               \/ itemStatus'[i] \notin {"pending", "retryable_failed"}
               \/ itemStatus'[i] = "retryable_failed" /\ \E l \in Leases : leaseItem[l] = i
    PROVE  ClaimsMatch'
<1>1. \A i \in Items : Claims(i)' = Claims(i)
  BY DEF Claims
<1>2. \A i \in Items : (\E l \in Leases : leaseItem[l] = i) => Claims(i) # {}
  BY DEF Claims
<1> HIDE DEF Claims
<1> QED
  BY <1>1, <1>2 DEF ClaimsMatch

LEMMA ClaimsStep == TypeOK /\ IssuedLeases /\ ClaimsMatch /\ [Next]_vars => ClaimsMatch'
<1>1. SUFFICES ASSUME TypeOK, IssuedLeases, ClaimsMatch, [Next]_vars PROVE ClaimsMatch'
  OBVIOUS
<1>2. ASSUME NEW i \in Items, NEW l \in Leases, Claim(i, l)
      PROVE  ClaimsMatch'
  BY <1>1, <1>2, ClaimCounts
<1>3. ASSUME NEW i \in Items, CancelObsolete(i)
      PROVE  ClaimsMatch'
  <2>1. UNCHANGED <<leaseItem, attempt>>
    BY <1>3 DEF CancelObsolete, leaseVars
  <2>2. \A j \in Items : itemStatus'[j] = itemStatus[j] \/ itemStatus'[j] = "cancelled"
    BY <1>1, <1>3 DEF CancelObsolete, TypeOK
  <2> QED BY <1>1, <2>1, <2>2, OthersCountNothing
<1>4. CASE ReapCommit
  <2>1. UNCHANGED <<leaseItem, attempt>>
    BY <1>4 DEF ReapCommit
  <2>2. \A j \in Items :
            \/ itemStatus'[j] = itemStatus[j]
            \/ itemStatus'[j] = "retryable_failed" /\ \E l \in Leases : leaseItem[l] = j
    BY <1>1, <1>4 DEF ReapCommit, ReapedItems, TypeOK
  <2> QED BY <1>1, <2>1, <2>2, OthersCountNothing
<1>5. ASSUME NEW l \in Leases, Start(l)
      PROVE  ClaimsMatch'
  <2>1. UNCHANGED <<leaseItem, attempt>>
    BY <1>5 DEF Start
  <2>2. \A j \in Items : itemStatus'[j] = itemStatus[j] \/ itemStatus'[j] = "running"
    BY <1>1, <1>5 DEF Start, TypeOK
  <2> QED BY <1>1, <2>1, <2>2, OthersCountNothing
<1>6. ASSUME NEW l \in Leases, CommitReport(l)
      PROVE  ClaimsMatch'
  <2>1. UNCHANGED <<leaseItem, attempt>>
    BY <1>6 DEF CommitReport
  <2>2. leaseItem[l] \in Items /\ verdict[l] \in Verdict
    BY <1>1, <1>6, LiveHasItem DEF CommitReport, Live, LiveThread, TypeOK
  <2>3. \A j \in Items : itemStatus'[j] = itemStatus[j] \/ (j = leaseItem[l] /\ itemStatus'[j] = verdict[l])
    BY <1>1, <1>6, <2>2 DEF CommitReport, TypeOK
  <2> QED BY <1>1, <2>1, <2>2, <2>3, OthersCountNothing DEF Verdict
<1>7. ASSUME UNCHANGED <<leaseItem, attempt, itemStatus>>
      PROVE  ClaimsMatch'
  BY <1>1, <1>7, OthersCountNothing
<1>8. ASSUME NEW l \in Leases,
             \/ Translate(l) \/ WorkerRaises(l) \/ \E v \in Verdict : BeginReport(l, v)
             \/ AbortReport(l) \/ ReportRefused(l) \/ Lapse(l) \/ Heartbeat(l)
      PROVE  ClaimsMatch'
  BY <1>7, <1>8 DEF Translate, WorkerRaises, BeginReport, AbortReport, ReportRefused, Lapse,
                    Heartbeat, itemVars, leaseVars
<1>9. CASE ReapScan \/ Crash \/ UNCHANGED vars
  BY <1>7, <1>9 DEF ReapScan, Crash, vars, itemVars, leaseVars
<1> QED
  BY <1>1, <1>2, <1>3, <1>4, <1>5, <1>6, <1>8, <1>9 DEF Next, WorkerStep

\* The attempt number of an item, which decides whether a failure is retried,
\* counts its claims, however leases expire and reports come late.
THEOREM AttemptsAreClaims == Spec => []AttemptCountsClaims
<1>1. Init => ClaimsMatch
  <2>1. ASSUME Init PROVE \A i \in Items : Claims(i) = {}
    BY <2>1, LeaseAssumption DEF Init, Claims
  <2>2. ASSUME Init PROVE \A i \in Items : attempt[i] = 1 /\ itemStatus[i] = "pending"
    BY <2>2 DEF Init
  <2> QED BY <2>1, <2>2, FS_EmptySet DEF ClaimsMatch
<1>2. ClaimsMatch => AttemptCountsClaims
  <2>1. SUFFICES ASSUME ClaimsMatch, NEW i \in Items
                 PROVE  attempt[i] = IF Cardinality(Claims(i)) = 0 THEN 1 ELSE Cardinality(Claims(i))
    BY DEF AttemptCountsClaims, Claims
  <2>2. IsFiniteSet(Claims(i)) => (Cardinality(Claims(i)) = 0 <=> Claims(i) = {})
    BY FS_EmptySet
  <2> QED BY <2>1, <2>2 DEF ClaimsMatch
<1>3. IInv => TypeOK /\ IssuedLeases
  BY DEF IInv
<1> QED BY <1>1, <1>2, <1>3, ClaimsStep, Invariance, PTL DEF Spec
=============================================================================
