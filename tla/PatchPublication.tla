-------------------------- MODULE PatchPublication --------------------------
(***************************************************************************)
(* How a patch proposal reaches the running system.  A repair worker       *)
(* claims the proposal's work item and, in one database session, records   *)
(* its validation, publishes a revision of the runtime bundle, makes it    *)
(* the active one, lets the bundle guard judge it, and reports the item    *)
(* done.  A reviewer may approve or reject the proposal meanwhile.         *)
(*                                                                         *)
(* Not all of it is the database's: the manifest and the pointer to the    *)
(* active revision (active.json) are files, written at once and never      *)
(* rolled back.                                                            *)
(*                                                                         *)
(* A proposal is one repair work item.  The only caller passes no report   *)
(* of its own to the guard, which then takes the validation's; that it may *)
(* fail is what IncidentController and the guard provide for.              *)
(***************************************************************************)
EXTENDS Naturals, FiniteSets

CONSTANTS
    Proposals,
    Revisions,
    RevisionOf,     \* the id of a revision is derived from its name and manifest
    NeedsReview,    \* the proposals with requires_human_review
    RepairWorkers,
    Reviewers,
    None,
    Verdicts        \* what the guard may make of a revision

\* What the constants are; the instances assume it.
PublicationAssumption ==
    /\ RevisionOf \in [Proposals -> Revisions]
    /\ NeedsReview \subseteq Proposals
    /\ None \notin Revisions \cup RepairWorkers \cup Proposals
    /\ Verdicts \subseteq {"passed", "failed"}

VARIABLES
    proposal,   \* runtime_patch_proposals
    item,       \* the repair work item of each proposal, and who holds its lease
    row,        \* runtime_bundle_revisions
    manifests,  \* the manifest.json files
    pointer,    \* active.json
    runs,       \* document_runs.runtime_bundle_revision_id
    session,    \* the worker's session: what it has loaded and will commit
    review      \* the reviewer's session

patchVars == <<proposal, item, row, manifests, pointer, runs, session, review>>
files == <<manifests, pointer>>

ProposalStatus == {"proposed", "validating", "validated", "published", "rejected", "rolled_back"}
RowStatus == {"absent", "published", "rolled_back"}

NoSession == [at |-> "none", proposal |-> None, row |-> "absent", fallback |-> None]
NoReview == [op |-> "none", proposal |-> None]

PatchInit ==
    /\ proposal = [p \in Proposals |-> [status |-> "proposed", approved |-> FALSE]]
    /\ item = [p \in Proposals |-> [status |-> "pending", owner |-> None]]
    /\ row = [r \in Revisions |-> "absent"]
    /\ manifests = {}
    /\ pointer = None
    /\ runs = None
    /\ session = [w \in RepairWorkers |-> NoSession]
    /\ review = [v \in Reviewers |-> NoReview]

-----------------------------------------------------------------------------
(* Claiming and losing the work item *)

Claim(w, p) ==
    /\ session[w] = NoSession
    /\ item[p].status \in {"pending", "retryable_failed"}
    /\ item' = [item EXCEPT ![p] = [status |-> "leased", owner |-> w]]
    /\ session' = [session EXCEPT ![w] = [NoSession EXCEPT !.at = "claimed", !.proposal = p]]
    /\ UNCHANGED <<proposal, row, files, runs, review>>

\* The heartbeat stops before the publishing session begins, so that its lease
\* may expire under it.
Reap(p) ==
    /\ item[p].status = "leased"
    /\ item' = [item EXCEPT ![p] = [status |-> "retryable_failed", owner |-> None]]
    /\ UNCHANGED <<proposal, row, files, runs, session, review>>

-----------------------------------------------------------------------------
(* Publishing *)

Publishing == {"published", "activated", "judged"}

\* Flushed rows stay locked until their session ends.
RowHeld(r) == \E w \in RepairWorkers : session[w].at \in Publishing /\ RevisionOf[session[w].proposal] = r
ProposalHeld(p) == \E w \in RepairWorkers : session[w].at \in Publishing /\ session[w].proposal = p

\* The review gate; validation has made the status VALIDATED just before, from
\* whatever it was.
MayPublish_Anyway(p) == TRUE            \* mutant: the gate is left out
MayPublish(p) == p \in NeedsReview => proposal[p].approved

Written_Later(r) == manifests           \* mutant: the manifest is left to activation
Written(r) == manifests \cup {r}

\* validate_patch_proposal and publish_bundle: the manifest is on disk before
\* the revision's row is written.
Publish(w) ==
    LET p == session[w].proposal
        r == RevisionOf[p]
    IN  /\ session[w].at = "claimed"
        /\ MayPublish(p)
        /\ ~RowHeld(r) /\ ~ProposalHeld(p)
        /\ manifests' = Written(r)
        /\ session' = [session EXCEPT ![w] = [@ EXCEPT !.at = "published", !.row = "published"]]
        /\ UNCHANGED <<proposal, item, row, pointer, runs, review>>

\* activate_bundle.
Activate(w) ==
    /\ session[w].at = "published"
    /\ pointer' = RevisionOf[session[w].proposal]
    /\ session' = [session EXCEPT ![w].at = "activated"]
    /\ UNCHANGED <<proposal, item, row, manifests, runs, review>>

\* lookup_latest_stable_bundle: which one is latest is left open.
Stable(r) == {q \in Revisions \ {r} : row[q] = "published"}

\* The guard keeps the revision, or freezes it and goes back to a stable one.
JudgeSound(w) ==
    /\ session[w].at = "activated"
    /\ "passed" \in Verdicts
    /\ session' = [session EXCEPT ![w].at = "judged"]
    /\ UNCHANGED <<proposal, item, row, files, runs, review>>

RollBack(w) ==
    /\ session[w].at = "activated"
    /\ "failed" \in Verdicts
    /\ \E q \in Stable(RevisionOf[session[w].proposal]) :
         /\ ~RowHeld(q)
         /\ pointer' = q
         /\ session' = [session EXCEPT ![w] = [@ EXCEPT !.at = "judged", !.row = "rolled_back",
                                                        !.fallback = q]]
    /\ UNCHANGED <<proposal, item, row, manifests, runs, review>>

Outcome_Frozen(w) == IF session[w].row = "published" THEN "published" ELSE "frozen"  \* mutant: the incident's status
Outcome(w) == IF session[w].row = "published" THEN "published" ELSE "rolled_back"
Effective_Pointer(w) == pointer         \* mutant: the run follows active.json
Effective(w) ==
    IF session[w].row = "published" THEN RevisionOf[session[w].proposal] ELSE session[w].fallback

\* The report of the item comes last and needs the lease.
CommitPublication(w) ==
    LET p == session[w].proposal
    IN  /\ session[w].at = "judged"
        /\ item[p] = [status |-> "leased", owner |-> w]
        /\ item' = [item EXCEPT ![p] = [status |-> "succeeded", owner |-> None]]
        /\ row' = [row EXCEPT ![RevisionOf[p]] = session[w].row]
        /\ proposal' = [proposal EXCEPT ![p].status = Outcome(w)]
        /\ runs' = Effective(w)
        /\ session' = [session EXCEPT ![w] = NoSession]
        /\ UNCHANGED <<files, review>>

\* What raises ends the session, whose rows are rolled back: the refusal to
\* publish, a guard that finds nothing to go back to, a lease that is gone, an
\* error of the database or the disk.  The failure is then reported, for good
\* unless the error is a passing one, if the lease still allows it.
Raise(w, outcome) ==
    LET p == session[w].proposal
    IN  /\ session[w].at # "none"
        /\ outcome = "retryable_failed" => MayPublish(p)
        /\ item' = IF item[p].owner = w THEN [item EXCEPT ![p] = [status |-> outcome, owner |-> None]]
                   ELSE item
        /\ session' = [session EXCEPT ![w] = NoSession]
        /\ UNCHANGED <<proposal, row, files, runs, review>>

\* The process dies: nothing is reported.
Crash(w) ==
    /\ session[w].at # "none"
    /\ session' = [session EXCEPT ![w] = NoSession]
    /\ UNCHANGED <<proposal, item, row, files, runs, review>>

-----------------------------------------------------------------------------
(* Review *)

MayReview(op, status) ==
    CASE op = "approve" -> status \in {"proposed", "validating", "validated"}
      [] op = "reject"  -> status \notin {"published", "rolled_back", "rejected"}

BeginReview(v, op, p) ==
    /\ review[v] = NoReview
    /\ MayReview(op, proposal[p].status)
    /\ review' = [review EXCEPT ![v] = [op |-> op, proposal |-> p]]
    /\ UNCHANGED <<proposal, item, row, files, runs, session>>

Approve(v) ==
    LET p == review[v].proposal
    IN  /\ review[v].op = "approve"
        /\ ~ProposalHeld(p)
        /\ proposal' = [proposal EXCEPT ![p].approved = TRUE]
        /\ review' = [review EXCEPT ![v] = NoReview]
        /\ UNCHANGED <<item, row, files, runs, session>>

Reject(v) ==
    LET p == review[v].proposal
    IN  /\ review[v].op = "reject"
        /\ ~ProposalHeld(p)
        /\ proposal' = [proposal EXCEPT ![p].status = "rejected"]
        /\ review' = [review EXCEPT ![v] = NoReview]
        /\ UNCHANGED <<item, row, files, runs, session>>

Work(w) ==
    \/ \E p \in Proposals : Claim(w, p)
    \/ Publish(w)
    \/ Activate(w)
    \/ JudgeSound(w)
    \/ RollBack(w)
    \/ CommitPublication(w)

PatchNext ==
    \/ \E w \in RepairWorkers : Work(w) \/ Crash(w)
    \/ \E w \in RepairWorkers, outcome \in {"retryable_failed", "terminal_failed"} : Raise(w, outcome)
    \/ \E p \in Proposals : Reap(p)
    \/ \E v \in Reviewers, op \in {"approve", "reject"}, p \in Proposals : BeginReview(v, op, p)
    \/ \E v \in Reviewers : Approve(v) \/ Reject(v)

PatchSpec == PatchInit /\ [][PatchNext]_patchVars

\* The loop claims what is claimable and reaps what has expired; a worker that
\* may go on does.
Fairness ==
    /\ \A w \in RepairWorkers : WF_patchVars(Work(w))
    /\ \A w \in RepairWorkers : WF_patchVars(\E o \in {"retryable_failed", "terminal_failed"} :
                                    ~MayPublish(session[w].proposal) /\ Raise(w, o))
    /\ \A p \in Proposals : WF_patchVars(Reap(p) /\ \A w \in RepairWorkers : session[w].proposal # p)
    /\ \A v \in Reviewers : WF_patchVars(Approve(v) \/ Reject(v))

FairSpec == PatchSpec /\ Fairness

-----------------------------------------------------------------------------
(* Properties *)

\* The types of the variables.
PatchTypeOK ==
    /\ proposal \in [Proposals -> [status : ProposalStatus, approved : BOOLEAN]]
    /\ row \in [Revisions -> RowStatus]
    /\ manifests \subseteq Revisions
    /\ {pointer, runs} \subseteq Revisions \cup {None}
    /\ \A p \in Proposals : item[p].owner \in RepairWorkers \cup {None}
    /\ \A w \in RepairWorkers : session[w].proposal \in Proposals \cup {None}
    /\ \A v \in Reviewers : review[v].op \in {"none", "approve", "reject"}

\* A proposal that needs a reviewer's approval has no effect without it,
\* whatever the order of approval, rejection, crash and retry.
NothingUnreviewed ==
    LET Cleared(p) == p \in NeedsReview => proposal[p].approved
    IN  /\ \A p \in Proposals :
              proposal[p].status \in {"published", "rolled_back"} => Cleared(p)
        /\ pointer # None => \E p \in Proposals : RevisionOf[p] = pointer /\ Cleared(p)

\* A revision the database knows, or a run or the pointer names, can be loaded:
\* its manifest is there, however the session that published it ended.
ManifestsArePresent ==
    /\ \A r \in Revisions : row[r] # "absent" => r \in manifests
    /\ {pointer, runs} \subseteq manifests \cup {None}

\* The revision a run is bound to is one that was committed: a run never
\* follows the files ahead of the database.
RunsFollowCommits == runs # None => row[runs] # "absent"

\* Both: a revision in use is backed by its files, and a run's by its row.
BundlesAreBacked == ManifestsArePresent /\ RunsFollowCommits

\* The comment at the head of patch_review.py: rejection is terminal.
RejectionIsTerminal == [][\A p \in Proposals : proposal[p].status = "rejected" =>
                                                    proposal'[p].status = "rejected"]_patchVars

\* lookup_active_bundle: there is an active bundle once one is published.  The
\* pointer is believed when it is there, so the row it names must be.
ActiveBundleIsFound == pointer # None => row[pointer] # "absent"

\* patches.py: once a reviewer has approved, publication goes on.
ApprovedIsPublished ==
    \A p \in Proposals :
        (proposal[p].approved /\ proposal[p].status = "proposed")
            ~> (proposal[p].status \in {"published", "rolled_back", "rejected"})
=============================================================================
