--------------------------- MODULE ChapterMemory ---------------------------
(***************************************************************************)
(* The translations of one chapter's packets and the chapter's memory: the *)
(* versioned snapshot that every later packet is translated with.          *)
(*                                                                         *)
(* Translating a packet proposes a new memory, the snapshot it was         *)
(* translated with and the packet's own contribution.  A proposal enters   *)
(* the memory when an operator approves it, or when the chapter passes     *)
(* review, which merges all pending proposals in turn.  Translations,      *)
(* approvals, rejections and reviews are database sessions that read       *)
(* first and write later; the only conditions the tables impose are that a *)
(* packet has one translation run per attempt and the memory one row per   *)
(* version.                                                                *)
(*                                                                         *)
(* The content of a snapshot is the set of packets that contributed to it. *)
(***************************************************************************)
EXTENDS Naturals, FiniteSets, Sequences

CONSTANTS
    ChapterPackets, \* the packets of the chapter
    Sessions,       \* sessions at work at once
    MaxAttempt      \* bound on the translations of a packet

\* What the constants are; the instances assume it.
MemoryAssumption == IsFiniteSet(ChapterPackets) /\ MaxAttempt \in Nat \ {0}

VARIABLES
    packet,     \* translation_packets.status
    runs,       \* translation_runs: how many attempts each packet has had
    snapshots,  \* memory_snapshots by version
    proposal,   \* chapter_memory_proposals, by translation run
    order,      \* the proposals by created_at
    session     \* what each session has read and is about to write

memoryVars == <<packet, runs, snapshots, proposal, order, session>>

\* A translation run is identified by its packet and its attempt.
Run == ChapterPackets \X (1..MaxAttempt)
NoBase == 0         \* base_snapshot_version of a proposal made without memory

ProposalStatus == {"none", "proposed", "committed", "rejected"}

Latest == IF \E v \in DOMAIN snapshots : snapshots[v].active
          THEN CHOOSE v \in DOMAIN snapshots :
                  /\ snapshots[v].active
                  /\ \A w \in DOMAIN snapshots : snapshots[w].active => w <= v
          ELSE NoBase

ContentAt(v) == IF v = NoBase THEN {} ELSE snapshots[v].content

Pending(p) == {r \in Run : r[1] = p /\ proposal[r].status = "proposed"}

Idle == [step |-> "idle", pkt |-> {}, base |-> NoBase, content |-> {},
         run |-> 0, chosen |-> {}]
Became(s, to) == session' = [session EXCEPT ![s] = to]

MemoryInit ==
    /\ packet = [p \in ChapterPackets |-> "built"]
    /\ runs = [p \in ChapterPackets |-> 0]
    /\ snapshots = <<>>
    /\ proposal = [r \in Run |-> [status |-> "none", base |-> NoBase, content |-> {}]]
    /\ order = <<>>
    /\ session = [s \in Sessions |-> Idle]

-----------------------------------------------------------------------------
(* Translating a packet *)

\* A worker finds the packet built, loads the chapter's memory and calls the
\* provider.
BeginTranslation(s, p) ==
    /\ session[s] = Idle
    /\ packet[p] = "built"
    /\ Became(s, [Idle EXCEPT !.step = "calling", !.pkt = {p},
                              !.base = Latest, !.content = ContentAt(Latest)])
    /\ UNCHANGED <<packet, runs, snapshots, proposal, order>>

\* A follow-up of review has a translated packet translated again: one session
\* rejects its pending proposals, marks it built, and goes on as above.
BeginRerun(s, p) ==
    /\ session[s] = Idle
    /\ packet[p] = "translated"
    /\ Became(s, [Idle EXCEPT !.step = "calling", !.pkt = {p},
                              !.base = Latest, !.content = ContentAt(Latest),
                              !.chosen = Pending(p)])
    /\ UNCHANGED <<packet, runs, snapshots, proposal, order>>

\* The answer is there: the attempt is numbered by the runs in the table.
NextAttempt_AfterNext(p) == runs[p] + 2         \* mutant: adds one to the next attempt
NextAttempt(p) == runs[p] + 1

NumberAttempt(s, p) ==
    /\ session[s].step = "calling"
    /\ session[s].pkt = {p}
    /\ NextAttempt(p) <= MaxAttempt
    /\ Became(s, [session[s] EXCEPT !.step = "numbered", !.run = NextAttempt(p)])
    /\ UNCHANGED <<packet, runs, snapshots, proposal, order>>

\* Pending proposals of the packets of some runs, other than theirs, are retired.
Retired_Nothing(prop, keep) == prop             \* mutant: older proposals stay pending
Retired(prop, keep) ==
    [r \in Run |-> IF /\ r \notin keep /\ \E q \in keep : q[1] = r[1]
                      /\ prop[r].status = "proposed"
                   THEN [prop[r] EXCEPT !.status = "rejected"] ELSE prop[r]]

Rejected(prop, S) ==
    [r \in Run |-> IF r \in S THEN [prop[r] EXCEPT !.status = "rejected"] ELSE prop[r]]

\* The translation and its proposal are written in one transaction, unless the
\* attempt is taken by now: the unique key refuses it and all is rolled back.
SaveTranslation(s, p) ==
    /\ session[s].step = "numbered"
    /\ session[s].pkt = {p}
    /\ LET r == <<p, session[s].run>>
       IN  IF runs[p] >= session[s].run
           THEN UNCHANGED <<packet, runs, proposal, order>>
           ELSE /\ packet' = [packet EXCEPT ![p] = "translated"]
                /\ runs' = [runs EXCEPT ![p] = session[s].run]
                /\ proposal' = [Rejected(Retired(proposal, {r}), session[s].chosen)
                        EXCEPT ![r] =
                        [status |-> "proposed", base |-> session[s].base,
                         content |-> session[s].content \cup {p}]]
                /\ order' = Append(order, r)
    /\ Became(s, Idle)
    /\ UNCHANGED snapshots

-----------------------------------------------------------------------------
(* The next versions of the memory *)

\* Supersede the snapshot that was loaded and write the next version: a merge
\* by id, which overwrites a row of that version if one is found.  Done for each
\* content in turn, every new version supersedes the one before.
NextVersions_Beside(snaps, loaded, contents) == \* mutant: replaces the loaded version
    IF loaded = NoBase THEN <<[active |-> TRUE, content |-> contents[Len(contents)]]>>
    ELSE [snaps EXCEPT ![loaded] = [active |-> FALSE, content |-> contents[Len(contents)]]]
NextVersions(snaps, loaded, contents) ==
    LET newest == loaded + Len(contents)
    IN  [v \in 1..(IF newest < Len(snaps) THEN Len(snaps) ELSE newest) |->
            IF v \in loaded + 1..newest THEN [active |-> v = newest, content |-> contents[v - loaded]]
            ELSE IF v = loaded THEN [snaps[v] EXCEPT !.active = FALSE]
            ELSE snaps[v]]

-----------------------------------------------------------------------------
(* Approval and rejection by an operator *)

Committed(prop, S) ==
    [r \in Run |-> IF r \in S THEN [prop[r] EXCEPT !.status = "committed"] ELSE prop[r]]

\* The proposal must be pending and the memory the one it was based on.
BeginApproval(s, r) ==
    /\ session[s] = Idle
    /\ proposal[r].status = "proposed"
    /\ proposal[r].base # NoBase /\ Latest # NoBase => proposal[r].base = Latest
    /\ Became(s, [Idle EXCEPT !.step = "approving", !.chosen = {r}, !.base = Latest])
    /\ UNCHANGED <<packet, runs, snapshots, proposal, order>>

FinishApproval(s) ==
    /\ session[s].step = "approving"
    /\ \E r \in session[s].chosen :
          /\ snapshots' = NextVersions(snapshots, session[s].base, <<proposal[r].content>>)
          /\ proposal' = Committed(Retired(proposal, {r}), {r})
    /\ Became(s, Idle)
    /\ UNCHANGED <<packet, runs, order>>

BeginRejection(s, r) ==
    /\ session[s] = Idle
    /\ proposal[r].status = "proposed"
    /\ Became(s, [Idle EXCEPT !.step = "rejecting", !.chosen = {r}])
    /\ UNCHANGED <<packet, runs, snapshots, proposal, order>>

FinishRejection(s) ==
    /\ session[s].step = "rejecting"
    /\ proposal' = Rejected(proposal, session[s].chosen)
    /\ Became(s, Idle)
    /\ UNCHANGED <<packet, runs, snapshots, order>>

-----------------------------------------------------------------------------
(* Review *)

\* A review loads the chapter, and with it the newest run of each packet ...
BeginReview(s) ==
    /\ session[s] = Idle
    /\ \E p \in ChapterPackets : runs[p] > 0
    /\ Became(s, [Idle EXCEPT !.step = "reviewing",
                              !.chosen = {r \in Run : r[2] = runs[r[1]]}])
    /\ UNCHANGED <<packet, runs, snapshots, proposal, order>>

\* ... and finds blocking issues: the pending proposals of the packets they
\* name are rejected ...
ReviewBlocks(s, blocked) ==
    /\ session[s].step = "reviewing"
    /\ blocked # {}
    /\ proposal' = Rejected(proposal, UNION {Pending(p) : p \in blocked})
    /\ Became(s, Idle)
    /\ UNCHANGED <<packet, runs, snapshots, order>>

\* ... or none: it loads the memory and those of its runs' proposals that are
\* still pending ...
ReviewPasses(s) ==
    /\ session[s].step = "reviewing"
    /\ Became(s, [session[s] EXCEPT
                    !.step = "merging", !.base = Latest, !.content = ContentAt(Latest),
                    !.chosen = {r \in session[s].chosen : proposal[r].status = "proposed"}])
    /\ UNCHANGED <<packet, runs, snapshots, proposal, order>>

\* ... and merges each of them into the memory, by age, as a version of its own.
Older(S, r) == {q \in S : \E i, j \in DOMAIN order : order[i] = q /\ order[j] = r /\ i < j}
Merged(content, S) ==
    [k \in 1..Cardinality(S) |->
        content \cup {r[1] : r \in {q \in S : Cardinality(Older(S, q)) < k}}]

FinishReview(s) ==
    /\ session[s].step = "merging"
    /\ LET approved == session[s].chosen
       IN  /\ snapshots' = IF approved = {} THEN snapshots
                           ELSE NextVersions(snapshots, session[s].base,
                                             Merged(session[s].content, approved))
           /\ proposal' = Committed(Retired(proposal, approved), approved)
    /\ Became(s, Idle)
    /\ UNCHANGED <<packet, runs, order>>

\* Any session may fail and is rolled back: the provider refuses, the process
\* dies, or an insert meets a row that was committed meanwhile.
Abort(s) ==
    /\ session[s] # Idle
    /\ Became(s, Idle)
    /\ UNCHANGED <<packet, runs, snapshots, proposal, order>>

-----------------------------------------------------------------------------

MemoryNext ==
    \/ \E s \in Sessions, p \in ChapterPackets :
          \/ BeginTranslation(s, p)
          \/ BeginRerun(s, p)
          \/ NumberAttempt(s, p)
          \/ SaveTranslation(s, p)
    \/ \E s \in Sessions, r \in Run : BeginApproval(s, r) \/ BeginRejection(s, r)
    \/ \E s \in Sessions :
          \/ FinishApproval(s)
          \/ FinishRejection(s)
          \/ BeginReview(s)
          \/ ReviewPasses(s)
          \/ FinishReview(s)
          \/ Abort(s)
    \/ \E s \in Sessions, blocked \in SUBSET ChapterPackets : ReviewBlocks(s, blocked)

MemorySpec == MemoryInit /\ [][MemoryNext]_memoryVars

-----------------------------------------------------------------------------
(* Properties *)

\* The tables hold values of their types, and a proposal exists for every
\* translation run and for no other.
MemoryTypeOK ==
    /\ packet \in [ChapterPackets -> {"built", "translated"}]
    /\ runs \in [ChapterPackets -> 0..MaxAttempt]
    /\ \A v \in DOMAIN snapshots : snapshots[v].content \subseteq ChapterPackets
    /\ \A r \in Run : proposal[r].status = "none" <=> r[2] > runs[r[1]]

\* The newest version of the memory is the active one, whichever sessions
\* overlapped in writing it: no packet is translated with an older version,
\* or with none, while a newer exists.
NewestIsActive == Latest = Len(snapshots)

\* A proposal that is still pending belongs to the newest translation of its
\* packet, although two threads may translate a packet at once and a rerun may
\* cross an approval: what an operator or a review approves is what the book
\* contains.
PendingIsNewest ==
    \A r \in Run : proposal[r].status = "proposed" => r[2] = runs[r[1]]

\* What commit_approved_packet_memory refuses as drift: an approval does not
\* replace memory its proposal was not made from, so no earlier contribution to
\* the version that was current is lost by it.
ApprovalKeepsMemory ==
    [][\A s \in Sessions :
          session[s].step = "approving" /\ session'[s] = Idle /\ snapshots' # snapshots
             => \A r \in session[s].chosen :
                    ContentAt(session[s].base) \subseteq proposal[r].content]_memoryVars

\* What approve_proposal and reject_proposal refuse: a proposal is decided once.
DecidedOnce ==
    [][\A r \in Run : proposal[r].status \in {"committed", "rejected"}
                         => proposal'[r].status = proposal[r].status]_memoryVars
=============================================================================
