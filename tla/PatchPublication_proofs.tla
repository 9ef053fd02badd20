----------------------- MODULE PatchPublication_proofs -----------------------
(***************************************************************************)
(* What publication guarantees for any number of proposals, revisions,     *)
(* workers and reviewers, whatever fails on the way: nothing takes effect  *)
(* that a reviewer had to approve and did not, and what is in use is       *)
(* backed by its manifest and, for runs, by its row.                       *)
(*                                                                         *)
(* The database is rolled back and the files are not, so the invariant     *)
(* says of every session that publishes what must hold if it ends at this  *)
(* point: its proposal is cleared, its manifest is written, and what it    *)
(* falls back on is committed.                                             *)
(***************************************************************************)
EXTENDS PatchPublication, TLAPS

Cleared(p) == p \in NeedsReview => proposal[p].approved
Blessed(r) == \E p \in Proposals : RevisionOf[p] = r /\ Cleared(p)

ProposalTypes == proposal \in [Proposals -> [status : ProposalStatus, approved : BOOLEAN]]

Session ==
    [at : {"none", "claimed"} \cup Publishing, proposal : Proposals \cup {None}, row : RowStatus,
     fallback : Revisions \cup {None}]

SessionTypes == session \in [RepairWorkers -> Session]

\* A session under way is of a proposal, one that publishes of a cleared one
\* whose manifest is written.
SessionOK(w) ==
    /\ session[w].at # "none" => session[w].proposal \in Proposals
    /\ session[w].at \in Publishing =>
         /\ Cleared(session[w].proposal)
         /\ RevisionOf[session[w].proposal] \in manifests
         /\ \/ session[w].row = "published"
            \/ /\ session[w].row = "rolled_back"
               /\ session[w].fallback \in Revisions /\ row[session[w].fallback] # "absent"

RowTypes == row \in [Revisions -> RowStatus] /\ manifests \subseteq Revisions

IInv ==
    /\ ProposalTypes /\ SessionTypes /\ RowTypes
    /\ \A w \in RepairWorkers : SessionOK(w)
    /\ \A p \in Proposals : proposal[p].status \in {"published", "rolled_back"} => Cleared(p)
    /\ \A r \in Revisions : row[r] # "absent" => Blessed(r) /\ r \in manifests
    /\ pointer = None \/ (pointer \in manifests /\ Blessed(pointer))
    /\ runs = None \/ (runs \in Revisions /\ row[runs] # "absent")

LEMMA InitIInv ==
    ASSUME PublicationAssumption, PatchInit
    PROVE  IInv
  <1>1. ProposalTypes /\ RowTypes
    BY DEF PatchInit, ProposalTypes, RowTypes, ProposalStatus, RowStatus
  <1>2. SessionTypes /\ \A w \in RepairWorkers : session[w].at = "none"
    BY DEF PatchInit, NoSession, SessionTypes, Session, RowStatus
  <1>3. \A w \in RepairWorkers : SessionOK(w)
    BY <1>2 DEF SessionOK, Publishing
  <1>4. /\ \A p \in Proposals : proposal[p].status = "proposed"
        /\ \A r \in Revisions : row[r] = "absent"
        /\ pointer = None /\ runs = None
    BY DEF PatchInit
  <1> QED
    BY <1>1, <1>2, <1>3, <1>4 DEF IInv

\* A step after which the database and the files say no less than before, and
\* the sessions are sound again.
LEMMA Grows ==
    ASSUME PublicationAssumption, IInv, ProposalTypes', SessionTypes', RowTypes',
           \A p \in Proposals : Cleared(p) => Cleared(p)',
           \A r \in Revisions : row'[r] # "absent" => row[r] # "absent" \/ (Blessed(r) /\ r \in manifests'),
           manifests \subseteq manifests',
           \A p \in Proposals : proposal'[p].status \in {"published", "rolled_back"} =>
                                    proposal[p].status \in {"published", "rolled_back"} \/ Cleared(p),
           pointer' = pointer \/ (pointer' \in manifests' /\ Blessed(pointer')),
           \A r \in Revisions : row[r] # "absent" => row'[r] # "absent",
           runs' = runs \/ (runs' \in Revisions /\ row'[runs'] # "absent"),
           \A w \in RepairWorkers : SessionOK(w)'
    PROVE  IInv'
  <1>1. \A r : Blessed(r) => Blessed(r)'
    BY DEF Blessed
  <1>2. \A p \in Proposals : proposal'[p].status \in {"published", "rolled_back"} => Cleared(p)'
    BY DEF IInv
  <1>3. \A r \in Revisions : row'[r] # "absent" => Blessed(r)' /\ r \in manifests'
    BY <1>1 DEF IInv
  <1>4. pointer' = None \/ (pointer' \in manifests' /\ Blessed(pointer)')
    <2>1. CASE pointer' = pointer
      BY <1>1, <2>1 DEF IInv
    <2>2. CASE pointer' \in manifests' /\ Blessed(pointer')
      BY <2>2 DEF Blessed, Cleared
    <2> QED
      BY <2>1, <2>2
  <1>5. runs' = None \/ (runs' \in Revisions /\ row'[runs'] # "absent")
    BY DEF IInv
  <1> QED
    BY <1>2, <1>3, <1>4, <1>5 DEF IInv

\* The sessions of the other workers are sound as long as nothing is taken back.
LEMMA OthersOK ==
    ASSUME IInv, NEW u \in RepairWorkers, session'[u] = session[u],
           \A p \in Proposals : Cleared(p) => Cleared(p)',
           manifests \subseteq manifests', \A r \in Revisions : row[r] # "absent" => row'[r] # "absent"
    PROVE  SessionOK(u)'
  <1>1. SessionOK(u)
    BY DEF IInv
  <1>2. session[u].at \in Publishing => session[u].at # "none"
    BY DEF Publishing
  <1> QED
    BY <1>1, <1>2 DEF SessionOK

\* A step that writes one session.
LEMMA WriteSession ==
    ASSUME SessionTypes, NEW w \in RepairWorkers, NEW x \in Session, session' = [session EXCEPT ![w] = x]
    PROVE  SessionTypes' /\ session'[w] = x /\ \A u \in RepairWorkers \ {w} : session'[u] = session[u]
  BY DEF SessionTypes

LEMMA NoSessionIs == NoSession \in Session /\ NoSession.at = "none"
  BY DEF NoSession, Session, RowStatus

\* A session ends, or begins: nothing else of what the invariant speaks of changes.
LEMMA SessionOnly ==
    ASSUME PublicationAssumption, IInv, UNCHANGED <<proposal, row, manifests, pointer, runs>>,
           NEW w \in RepairWorkers, NEW x \in Session, session' = [session EXCEPT ![w] = x], SessionOK(w)'
    PROVE  IInv'
  <1>1. SessionTypes' /\ \A u \in RepairWorkers \ {w} : session'[u] = session[u]
    BY WriteSession DEF IInv
  <1>2. \A p \in Proposals : Cleared(p) <=> Cleared(p)'
    BY DEF Cleared
  <1>3. \A u \in RepairWorkers \ {w} : SessionOK(u)'
    BY <1>1, <1>2, OthersOK
  <1>4. ProposalTypes' /\ RowTypes'
    BY DEF IInv, ProposalTypes, RowTypes
  <1> QED
    BY <1>1, <1>2, <1>3, <1>4, Grows

LEMMA ClaimIInv ==
    ASSUME PublicationAssumption, IInv, NEW w \in RepairWorkers, NEW p \in Proposals, Claim(w, p)
    PROVE  IInv'
  <1> DEFINE x == [NoSession EXCEPT !.at = "claimed", !.proposal = p]
  <1>1. session' = [session EXCEPT ![w] = x] /\ UNCHANGED <<proposal, row, manifests, pointer, runs>>
    BY DEF Claim, files
  <1>2. x \in Session /\ x.at = "claimed" /\ x.proposal = p
    BY DEF NoSession, Session, RowStatus
  <1> HIDE DEF x
  <1>3. session'[w] = x
    BY <1>1, <1>2, WriteSession DEF IInv
  <1>4. SessionOK(w)'
    BY <1>2, <1>3 DEF SessionOK, Publishing
  <1> QED
    BY <1>1, <1>2, <1>4, SessionOnly

LEMMA EndIInv ==
    ASSUME PublicationAssumption, IInv, NEW w \in RepairWorkers, session' = [session EXCEPT ![w] = NoSession],
           UNCHANGED <<proposal, row, manifests, pointer, runs>>
    PROVE  IInv'
  <1>1. session'[w] = NoSession
    BY NoSessionIs, WriteSession DEF IInv
  <1>2. SessionOK(w)'
    BY <1>1, NoSessionIs DEF SessionOK, Publishing
  <1> QED
    BY <1>2, NoSessionIs, SessionOnly

\* The gate has cleared the proposal, and the manifest is written first.
LEMMA PublishIInv ==
    ASSUME PublicationAssumption, IInv, NEW w \in RepairWorkers, Publish(w)
    PROVE  IInv'
  <1> DEFINE p == session[w].proposal
             x == [session[w] EXCEPT !.at = "published", !.row = "published"]
  <1>1. /\ session[w].at = "claimed" /\ MayPublish(p) /\ manifests' = manifests \cup {RevisionOf[p]}
        /\ session' = [session EXCEPT ![w] = x] /\ UNCHANGED <<proposal, row, pointer, runs>>
    BY DEF Publish, Written
  <1>2. session[w] \in Session /\ SessionOK(w)
    BY DEF IInv, SessionTypes
  <1>3. p \in Proposals /\ RevisionOf[p] \in Revisions /\ Cleared(p)
    BY <1>1, <1>2 DEF SessionOK, MayPublish, Cleared, PublicationAssumption
  <1>4. x \in Session /\ x.at = "published" /\ x.row = "published" /\ x.proposal = p
    BY <1>2 DEF Session, RowStatus, Publishing
  <1> HIDE DEF p, x
  <1>5. SessionTypes' /\ session'[w] = x /\ \A u \in RepairWorkers \ {w} : session'[u] = session[u]
    BY <1>1, <1>4, WriteSession DEF IInv
  <1>6. \A q \in Proposals : Cleared(q) <=> Cleared(q)'
    BY <1>1 DEF Cleared
  <1>7. SessionOK(w)'
    BY <1>1, <1>3, <1>4, <1>5, <1>6 DEF SessionOK
  <1>8. \A u \in RepairWorkers \ {w} : SessionOK(u)'
    BY <1>1, <1>5, <1>6, OthersOK
  <1>9. ProposalTypes' /\ RowTypes'
    BY <1>1, <1>3 DEF IInv, ProposalTypes, RowTypes
  <1> QED
    BY <1>1, <1>5, <1>6, <1>7, <1>8, <1>9, Grows

\* The pointer is moved to the session's own revision, or to a committed one.
LEMMA PointIInv ==
    ASSUME PublicationAssumption, IInv, NEW w \in RepairWorkers,
           Activate(w) \/ JudgeSound(w) \/ RollBack(w)
    PROVE  IInv'
  <1>0. session[w] \in Session /\ SessionOK(w)
    BY DEF IInv, SessionTypes
  <1>1. /\ session[w].at \in Publishing /\ UNCHANGED <<proposal, row, manifests, runs>>
        /\ \E x \in Session :
             /\ session' = [session EXCEPT ![w] = x] /\ x.proposal = session[w].proposal
             /\ x.at \in Publishing
             /\ \/ x.row = session[w].row /\ x.fallback = session[w].fallback
                   /\ (pointer' = pointer \/ pointer' = RevisionOf[session[w].proposal])
                \/ x.row = "rolled_back" /\ x.fallback \in Revisions /\ row[x.fallback] # "absent"
                   /\ pointer' = x.fallback
    <2>1. CASE Activate(w)
      <3> DEFINE x == [session[w] EXCEPT !.at = "activated"]
      <3>1. /\ session[w].at = "published" /\ session' = [session EXCEPT ![w] = x]
            /\ pointer' = RevisionOf[session[w].proposal] /\ UNCHANGED <<proposal, row, manifests, runs>>
        BY <2>1 DEF Activate
      <3>2. /\ x \in Session /\ x.proposal = session[w].proposal /\ x.at = "activated"
            /\ x.row = session[w].row /\ x.fallback = session[w].fallback
        BY <1>0 DEF Session, Publishing
      <3> HIDE DEF x
      <3> QED
        BY <3>1, <3>2 DEF Publishing
    <2>2. CASE JudgeSound(w)
      <3> DEFINE x == [session[w] EXCEPT !.at = "judged"]
      <3>1. /\ session[w].at = "activated" /\ session' = [session EXCEPT ![w] = x]
            /\ UNCHANGED <<proposal, row, manifests, pointer, runs>>
        BY <2>2 DEF JudgeSound, files
      <3>2. /\ x \in Session /\ x.proposal = session[w].proposal /\ x.at = "judged"
            /\ x.row = session[w].row /\ x.fallback = session[w].fallback
        BY <1>0 DEF Session, Publishing
      <3> HIDE DEF x
      <3> QED
        BY <3>1, <3>2 DEF Publishing
    <2>3. CASE RollBack(w)
      <3>1. PICK q \in Stable(RevisionOf[session[w].proposal]) :
              /\ pointer' = q
              /\ session' = [session EXCEPT ![w] =
                               [session[w] EXCEPT !.at = "judged", !.row = "rolled_back", !.fallback = q]]
        BY <2>3 DEF RollBack
      <3> DEFINE x == [session[w] EXCEPT !.at = "judged", !.row = "rolled_back", !.fallback = q]
      <3>2. session[w].at = "activated" /\ UNCHANGED <<proposal, row, manifests, runs>>
        BY <2>3 DEF RollBack
      <3>3. q \in Revisions /\ row[q] = "published"
        BY DEF Stable
      <3>4. /\ x \in Session /\ x.proposal = session[w].proposal /\ x.at = "judged"
            /\ x.row = "rolled_back" /\ x.fallback = q
        BY <1>0, <3>3 DEF Session, RowStatus, Publishing
      <3>5. session' = [session EXCEPT ![w] = x]
        BY <3>1
      <3> HIDE DEF x
      <3> QED
        BY <3>1, <3>2, <3>3, <3>4, <3>5 DEF Publishing
    <2> QED
      BY <2>1, <2>2, <2>3
  <1>2. PICK x \in Session :
             /\ session' = [session EXCEPT ![w] = x] /\ x.proposal = session[w].proposal
             /\ x.at \in Publishing
             /\ \/ x.row = session[w].row /\ x.fallback = session[w].fallback
                   /\ (pointer' = pointer \/ pointer' = RevisionOf[session[w].proposal])
                \/ x.row = "rolled_back" /\ x.fallback \in Revisions /\ row[x.fallback] # "absent"
                   /\ pointer' = x.fallback
    BY <1>1
  <1>3. SessionTypes' /\ session'[w] = x /\ \A u \in RepairWorkers \ {w} : session'[u] = session[u]
    BY <1>2, WriteSession DEF IInv
  <1>4. \A q \in Proposals : Cleared(q) <=> Cleared(q)'
    BY <1>1 DEF Cleared
  <1>5. /\ session[w].proposal \in Proposals /\ Cleared(session[w].proposal)
        /\ RevisionOf[session[w].proposal] \in manifests
    BY <1>0, <1>1 DEF SessionOK, Publishing
  <1>6. SessionOK(w)'
    BY <1>0, <1>1, <1>2, <1>3, <1>4, <1>5 DEF SessionOK
  <1>7. \A u \in RepairWorkers \ {w} : SessionOK(u)'
    BY <1>1, <1>3, <1>4, OthersOK
  <1>8. pointer' = pointer \/ (pointer' \in manifests /\ Blessed(pointer'))
    <2>1. CASE pointer' = RevisionOf[session[w].proposal]
      BY <1>5, <2>1 DEF Blessed
    <2>2. CASE pointer' \in Revisions /\ row[pointer'] # "absent"
      BY <2>2 DEF IInv
    <2> QED
      BY <1>2, <2>1, <2>2
  <1>9. ProposalTypes' /\ RowTypes'
    BY <1>1 DEF IInv, ProposalTypes, RowTypes
  <1> QED
    BY <1>1, <1>3, <1>4, <1>6, <1>7, <1>8, <1>9, Grows

\* The commit: the row, the proposal and the run take what the session holds.
LEMMA CommitIInv ==
    ASSUME PublicationAssumption, IInv, NEW w \in RepairWorkers, CommitPublication(w)
    PROVE  IInv'
  <1> DEFINE p == session[w].proposal
  <1>1. /\ session[w].at \in Publishing /\ UNCHANGED <<manifests, pointer>>
        /\ row' = [row EXCEPT ![RevisionOf[p]] = session[w].row]
        /\ proposal' = [proposal EXCEPT ![p].status = Outcome(w)]
        /\ runs' = Effective(w)
        /\ session' = [session EXCEPT ![w] = NoSession]
    BY DEF CommitPublication, files, Publishing
  <1>2. session[w] \in Session /\ SessionOK(w) /\ ProposalTypes /\ RowTypes
    BY DEF IInv, SessionTypes
  <1>3. /\ p \in Proposals /\ RevisionOf[p] \in Revisions /\ Cleared(p) /\ RevisionOf[p] \in manifests
        /\ session[w].row \in {"published", "rolled_back"}
        /\ session[w].row = "rolled_back" =>
             session[w].fallback \in Revisions /\ row[session[w].fallback] # "absent"
    BY <1>1, <1>2 DEF SessionOK, Publishing, PublicationAssumption
  <1>4. SessionTypes' /\ session'[w] = NoSession /\ \A u \in RepairWorkers \ {w} : session'[u] = session[u]
    BY <1>1, NoSessionIs, WriteSession DEF IInv
  <1> HIDE DEF p
  <1>5. /\ RowTypes' /\ row'[RevisionOf[p]] = session[w].row
        /\ \A r \in Revisions \ {RevisionOf[p]} : row'[r] = row[r]
    BY <1>1, <1>2, <1>3 DEF RowTypes, RowStatus
  <1>6. Outcome(w) \in {"published", "rolled_back"}
    BY DEF Outcome
  <1>7. /\ ProposalTypes'
        /\ \A q \in Proposals : proposal'[q].approved = proposal[q].approved
        /\ \A q \in Proposals \ {p} : proposal'[q] = proposal[q]
    BY <1>1, <1>2, <1>3, <1>6 DEF ProposalTypes, ProposalStatus
  <1>8. \A q \in Proposals : Cleared(q) <=> Cleared(q)'
    BY <1>7 DEF Cleared
  <1>9. Blessed(RevisionOf[p])
    BY <1>3 DEF Blessed
  <1>10. \A r \in Revisions : row[r] # "absent" => row'[r] # "absent"
    BY <1>3, <1>5
  <1>11. runs' \in Revisions /\ row'[runs'] # "absent"
    <2>1. CASE session[w].row = "published"
      BY <1>1, <1>3, <1>5, <2>1 DEF Effective, p
    <2>2. CASE session[w].row = "rolled_back"
      BY <1>1, <1>3, <1>10, <2>2 DEF Effective
    <2> QED
      BY <1>3, <2>1, <2>2
  <1>12. \A u \in RepairWorkers \ {w} : SessionOK(u)'
    BY <1>1, <1>4, <1>8, <1>10, OthersOK
  <1>13. SessionOK(w)'
    BY <1>4, NoSessionIs DEF SessionOK, Publishing
  <1>14. \A r \in Revisions : row'[r] # "absent" => row[r] # "absent" \/ (Blessed(r) /\ r \in manifests')
    BY <1>1, <1>3, <1>5, <1>9
  <1>15. \A q \in Proposals : proposal'[q].status \in {"published", "rolled_back"} =>
                                proposal[q].status \in {"published", "rolled_back"} \/ Cleared(q)
    BY <1>3, <1>7
  <1> QED
    BY <1>1, <1>4, <1>5, <1>7, <1>8, <1>10, <1>11, <1>12, <1>13, <1>14, <1>15, Grows

\* A review approves, or rejects, and takes no approval back.
LEMMA ReviewIInv ==
    ASSUME PublicationAssumption, IInv, NEW v \in Reviewers, Approve(v) \/ Reject(v)
    PROVE  IInv'
  <1> DEFINE p == review[v].proposal
  <1>1. /\ UNCHANGED <<row, manifests, pointer, runs, session>>
        /\ \/ proposal' = [proposal EXCEPT ![p].approved = TRUE]
           \/ proposal' = [proposal EXCEPT ![p].status = "rejected"]
    BY DEF Approve, Reject, files
  <1> HIDE DEF p
  <1>2. /\ ProposalTypes'
        /\ \A q \in Proposals : proposal[q].approved => proposal'[q].approved
        /\ \A q \in Proposals : proposal'[q].status \in {proposal[q].status, "rejected"}
    <2>1. CASE proposal' = [proposal EXCEPT ![p].approved = TRUE]
      BY <2>1 DEF IInv, ProposalTypes
    <2>2. CASE proposal' = [proposal EXCEPT ![p].status = "rejected"]
      BY <2>2 DEF IInv, ProposalTypes, ProposalStatus
    <2> QED
      BY <1>1, <2>1, <2>2
  <1>3. \A q \in Proposals : Cleared(q) => Cleared(q)'
    BY <1>2 DEF Cleared
  <1>4. \A u \in RepairWorkers : SessionOK(u)'
    BY <1>1, <1>3, OthersOK
  <1>5. SessionTypes' /\ RowTypes'
    BY <1>1 DEF IInv, SessionTypes, RowTypes
  <1> QED
    BY <1>1, <1>2, <1>3, <1>4, <1>5, Grows

LEMMA NothingMoves ==
    ASSUME PublicationAssumption, IInv, UNCHANGED <<proposal, row, manifests, pointer, runs, session>>
    PROVE  IInv'
  <1>1. \A q \in Proposals : Cleared(q) <=> Cleared(q)'
    BY DEF Cleared
  <1>2. \A u \in RepairWorkers : SessionOK(u)'
    BY <1>1, OthersOK
  <1>3. ProposalTypes' /\ SessionTypes' /\ RowTypes'
    BY DEF IInv, ProposalTypes, SessionTypes, RowTypes
  <1> QED
    BY <1>1, <1>2, <1>3, Grows

LEMMA StepIInv ==
    ASSUME PublicationAssumption, IInv, [PatchNext]_patchVars
    PROVE  IInv'
  <1>1. PublicationAssumption /\ IInv /\ [PatchNext]_patchVars
    OBVIOUS
  <1>2. ASSUME NEW w \in RepairWorkers, Work(w) PROVE IInv'
    BY <1>1, <1>2, ClaimIInv, PublishIInv, PointIInv, CommitIInv DEF Work
  <1>3. ASSUME NEW w \in RepairWorkers, Crash(w) \/ \E o \in {"retryable_failed", "terminal_failed"} : Raise(w, o)
        PROVE  IInv'
    <2>1. session' = [session EXCEPT ![w] = NoSession] /\ UNCHANGED <<proposal, row, manifests, pointer, runs>>
      BY <1>3 DEF Crash, Raise, files
    <2> QED
      BY <1>1, <2>1, EndIInv
  <1>4. ASSUME NEW v \in Reviewers, Approve(v) \/ Reject(v) PROVE IInv'
    BY <1>1, <1>4, ReviewIInv
  <1>5. CASE \/ \E p \in Proposals : Reap(p)
             \/ \E v \in Reviewers, op \in {"approve", "reject"}, p \in Proposals : BeginReview(v, op, p)
             \/ UNCHANGED patchVars
    <2>1. UNCHANGED <<proposal, row, manifests, pointer, runs, session>>
      BY <1>5 DEF Reap, BeginReview, files, patchVars
    <2> QED
      BY <1>1, <2>1, NothingMoves
  <1> QED
    BY <1>1, <1>2, <1>3, <1>4, <1>5 DEF PatchNext

\* A proposal that needs a reviewer's approval has no effect without it
\* (the gate of publish_validated_patch), on its own status, on the active
\* revision, or by way of a revision that is fallen back on.
THEOREM UnreviewedHasNoEffect ==
    ASSUME PublicationAssumption PROVE PatchSpec => []NothingUnreviewed
  <1>1. PatchInit => IInv
    BY InitIInv
  <1>2. IInv /\ [PatchNext]_patchVars => IInv'
    BY StepIInv
  <1>3. IInv => NothingUnreviewed
    BY DEF IInv, NothingUnreviewed, Blessed, Cleared
  <1> QED
    BY <1>1, <1>2, <1>3, PTL DEF PatchSpec

\* What the pointer or a run names can be loaded, and what a run names was
\* committed (publish_bundle, activate_bundle, the bundle guard), although files
\* are written at once and rows when the session ends.
THEOREM BundlesBacked ==
    ASSUME PublicationAssumption PROVE PatchSpec => []BundlesAreBacked
  <1>1. PatchInit => IInv
    BY InitIInv
  <1>2. IInv /\ [PatchNext]_patchVars => IInv'
    BY StepIInv
  <1>3. IInv => BundlesAreBacked
    BY DEF IInv, BundlesAreBacked, ManifestsArePresent, RunsFollowCommits
  <1> QED
    BY <1>1, <1>2, <1>3, PTL DEF PatchSpec
=============================================================================
