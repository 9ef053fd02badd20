----------------------------- MODULE ReviewLoop -----------------------------
(***************************************************************************)
(* The review stage of one chapter, and the export that follows it.       *)
(*                                                                         *)
(* A review looks at the content, opens an issue with a planned action for *)
(* every fault it finds and resolves the issues whose fault is gone.  The  *)
(* stage then follows up by itself: it runs the actions of some issues,    *)
(* repairs what blocks the export in rounds, and gives a verdict.  Running *)
(* an action invalidates what it is about, translates it again and reviews *)
(* the chapter.  An export asks a gate, and follows up in the same way.    *)
(* Operators run actions and reviews in between.                           *)
(*                                                                         *)
(* What is wrong with the content is `flaws'; a new translation may leave, *)
(* mend or cause any fault of what it touches.  A stage is one database    *)
(* session: db is what that session sees, saved what is committed, and an  *)
(* exception or a crash goes back to it.  One session runs at a time.      *)
(***************************************************************************)
EXTENDS Naturals, FiniteSets, Sequences, SequencesExt

CONSTANTS
    Packets,       \* the translation packets of the chapter
    Issues,        \* the issues a review can find; each has one action
    Kind,          \* issue type, as far as the follow-ups tell them apart
    Blocking,      \* the issues that block an export
    Scope,         \* scope of the rerun plan: packet, chapter or sentence
    Remedy,        \* rerun, realign, reparse, or mark for a person
    PacketsOf,     \* the packets an issue is about
    Gap,           \* for a packet: the issue that its translation is missing
    Order,         \* the issues, in the order in which actions are chosen
    Lockable,      \* concept issues for which the resolver finds a term
    AttemptLimit,  \* max_auto_followup_attempts
    RoundLimit,    \* max_rounds of the blocker repair
    MaxSessions    \* bound: stages, exports and operator requests

\* What the constants are; the instances assume it.
ReviewAssumption ==
    /\ Kind \in [Issues -> {"term", "concept", "style", "brief", "other"}]
    /\ Blocking \subseteq Issues /\ Lockable \subseteq Issues
    /\ Scope \in [Issues -> {"packet", "chapter", "sentence"}]
    /\ Remedy \in [Issues -> {"rerun", "realign", "reparse", "mark"}]
    /\ PacketsOf \in [Issues -> SUBSET Packets]
    /\ Gap \in [Packets -> Blocking]
    /\ IsInjective(Order) /\ ToSet(Order) = Issues
    /\ AttemptLimit \in Nat \ {0} /\ RoundLimit \in Nat \ {0}
    /\ MaxSessions \in Nat

VARIABLES
    db,        \* the rows as the running session sees them
    saved,     \* the rows as committed
    stage,     \* the worker: where it is and what it has tried
    sessions   \* sessions begun so far

reviewVars == <<db, saved, stage, sessions>>

RepeatLimit == 2

IssueStatus == {"none", "open", "triaged", "resolved"}
ActionStatus == {"none", "planned", "completed"}
PacketStatus == {"translated", "invalidated"}
ChapterStatus ==
    {"packet_built", "translated", "review_required", "qa_checked", "exported"}
AuditKind == {"review", "repair", "export"}

Idle == [pc |-> "idle", attempted |-> {}, count |-> 0, round |-> 0,
         queue |-> << >>, skipped |-> FALSE, verdict |-> "none"]

-----------------------------------------------------------------------------
(* Reviewing.  What a review finds, and what it writes.                    *)

Found(d) == d.flaws \cup {Gap[p] : p \in {q \in Packets : d.packet[q] # "translated"}}

Translated(d) == \A p \in Packets : d.packet[p] = "translated"

Reviewed_NewOnly(d) ==
    LET found == Found(d) IN
    [d EXCEPT
        !.issue = [i \in Issues |->
            IF i \in found THEN "open"
            ELSE IF @[i] \in {"open", "triaged"} THEN "resolved" ELSE @[i]],
        !.action = [i \in Issues |-> IF i \in found THEN "planned" ELSE @[i]],
        !.chapter = IF \E i \in found \cap Blocking : d.issue[i] # "open"
                    THEN "review_required" ELSE "qa_checked"]

Reviewed_KeepActions(d) ==
    LET found == Found(d) IN
    [d EXCEPT
        !.issue = [i \in Issues |->
            IF i \in found THEN "open"
            ELSE IF @[i] \in {"open", "triaged"} THEN "resolved" ELSE @[i]],
        !.action = [i \in Issues |->
            IF i \in found /\ @[i] = "none" THEN "planned" ELSE @[i]],
        !.chapter = IF found \cap Blocking # {} THEN "review_required"
                    ELSE "qa_checked"]

Reviewed(d) ==
    LET found == Found(d) IN
    [d EXCEPT
        !.issue = [i \in Issues |->
            IF i \in found THEN "open"
            ELSE IF @[i] \in {"open", "triaged"} THEN "resolved" ELSE @[i]],
        !.action = [i \in Issues |-> IF i \in found THEN "planned" ELSE @[i]],
        !.chapter = IF found \cap Blocking # {} THEN "review_required"
                    ELSE "qa_checked"]

(* A chapter with a packet that is not translated is not reviewed.         *)
ReviewedIfReady(d) == IF Translated(d) THEN Reviewed(d) ELSE d

(* The issues that still block: open, or triaged by an action.             *)
Active_OpenOnly(d) == {i \in Blocking : d.issue[i] = "open"}

Active(d) == {i \in Blocking : d.issue[i] \in {"open", "triaged"}}

-----------------------------------------------------------------------------
(* Running the action of an issue.                                         *)

Invalidated(i) ==
    IF Remedy[i] # "rerun" THEN {}
    ELSE IF Scope[i] = "chapter" THEN Packets ELSE PacketsOf[i]

ActedOn(d, i) ==
    [d EXCEPT
        !.issue[i] = "triaged",
        !.action[i] = "completed",
        !.packet = [p \in Packets |->
            IF p \in Invalidated(i) THEN "invalidated" ELSE @[p]],
        !.chapter = IF Remedy[i] = "rerun" /\ Scope[i] = "chapter"
                    THEN "packet_built" ELSE @]

(* The faults a rerun may mend or cause.                                   *)
Touched(i) ==
    IF Remedy[i] = "reparse" THEN {j \in Issues : Remedy[j] \in {"reparse", "mark"}}
    ELSE IF Scope[i] = "chapter" THEN {j \in Issues : Remedy[j] # "reparse"}
    ELSE {j \in Issues : PacketsOf[j] \cap PacketsOf[i] # {}}

(* A rerun rebuilds and translates what was invalidated, then reviews the  *)
(* chapter; for a single sentence it does neither.                         *)
Reruns(d, i) ==
    IF Scope[i] = "sentence" THEN {d}
    ELSE {Reviewed([d EXCEPT
              !.flaws = (@ \ Touched(i)) \cup new,
              !.packet = [p \in Packets |->
                  IF p \in Invalidated(i) THEN "translated" ELSE @[p]]])
          : new \in SUBSET Touched(i)}

(* The audit of an execution: its id is made of the kind, the action and   *)
(* the number of the execution in this session, and a row of the same id   *)
(* is overwritten.  failures counts what really happened.                  *)
Logged(d, kind, i, index) ==
    LET resolved == d.issue[i] = "resolved"
        same(a) == a.kind = kind /\ a.action = i /\ a.index = index
    IN  [d EXCEPT
            !.audits = {a \in @ : ~same(a)} \cup
                {[kind |-> kind, action |-> i, index |-> index, resolved |-> resolved]},
            !.failures[i] = IF ~resolved /\ @ < RepeatLimit THEN @ + 1 ELSE @]

(* An action that failed twice is left to a person.                        *)
Held(d, i) ==
    Cardinality({a \in d.audits : a.action = i /\ ~a.resolved}) >= RepeatLimit

-----------------------------------------------------------------------------
(* Choosing actions: in order, leaving out what another one covers.        *)

Covers(j, i) ==
    \/ /\ Scope[j] = "packet" /\ Scope[i] = "packet"
       /\ PacketsOf[i] \cap PacketsOf[j] # {}
    \/ Scope[j] = "chapter" /\ Scope[i] \in {"chapter", "packet"}

InOrder(candidates) == SelectSeq(Order, LAMBDA i : i \in candidates)

Chosen(candidates) ==
    FoldLeft(LAMBDA kept, i :
                 IF \E k \in DOMAIN kept : Covers(kept[k], i) THEN kept
                 ELSE Append(kept, i),
             << >>,
             InOrder(candidates))

Free(d, queue) == SelectSeq(queue, LAMBDA i : ~Held(d, i))

(* The follow-ups of the review: packet-sized, of three types, and among   *)
(* the blocking ones only conflicts of terms.                              *)
FollowUps ==
    Chosen({i \in Issues \ stage.attempted :
               /\ db.issue[i] = "open"
               /\ Kind[i] \in {"term", "concept", "style"}
               /\ i \in Blocking => Kind[i] = "term"
               /\ Scope[i] = "packet"})

(* When the term of a concept cannot be locked, the chapter brief of the   *)
(* same packets is rebuilt instead.                                        *)
Fallbacks(i) ==
    {j \in Issues \ stage.attempted :
        /\ db.issue[j] = "open" /\ Kind[j] = "brief" /\ Scope[j] = "packet"
        /\ PacketsOf[j] = PacketsOf[i]}

Repairs ==
    Chosen({i \in Active(db) \ stage.attempted : db.action[i] = "planned"})

-----------------------------------------------------------------------------
(* A chapter that has just been translated, or that was reviewed since.    *)
Fresh(f) == [flaws |-> f,
             issue |-> [i \in Issues |-> "none"],
             action |-> [i \in Issues |-> "none"],
             packet |-> [p \in Packets |-> "translated"],
             chapter |-> "translated",
             audits |-> {},
             failures |-> [i \in Issues |-> 0]]

ReviewInit ==
    \E f \in SUBSET Issues :
        /\ db \in {Fresh(f), Reviewed(Fresh(f))}
        /\ saved = db
        /\ stage = Idle
        /\ sessions = 0

BeginSession == sessions < MaxSessions /\ stage.pc = "idle" /\ sessions' = sessions + 1

GoOn(pc) == stage' = [stage EXCEPT !.pc = pc]

Finish_Uncommitted(d, verdict) ==
    /\ db' = d
    /\ stage' = [Idle EXCEPT !.verdict = verdict]
    /\ UNCHANGED <<saved, sessions>>

(* The stage ends: its session commits, and its verdict is reported.       *)
Finish(d, verdict) ==
    /\ db' = d
    /\ saved' = d
    /\ stage' = [Idle EXCEPT !.verdict = verdict]
    /\ UNCHANGED sessions

(* One action is run, reruns included, and logged.                         *)
Run(i, kind, next) ==
    /\ \E d \in Reruns(ActedOn(db, i), i) :
           db' = Logged(d, kind, i, stage.count + 1)
    /\ stage' = [next EXCEPT !.attempted = @ \cup {i}, !.count = @ + 1]
    /\ UNCHANGED <<saved, sessions>>

(* The first review of the stage.                                          *)
StartReview ==
    /\ BeginSession
    /\ db' = ReviewedIfReady(db)
    /\ stage' = [Idle EXCEPT !.pc = IF Translated(db) THEN "followup" ELSE "assess",
                             !.skipped = ~Translated(db)]
    /\ UNCHANGED saved

(* A turn of the follow-up loop that runs an action.                       *)
FollowUp ==
    /\ stage.pc = "followup" /\ stage.count < AttemptLimit
    /\ LET free == Free(db, FollowUps) IN
       /\ free # << >>
       /\ LET i == Head(free) IN
          IF Kind[i] # "concept" \/ i \in Lockable THEN Run(i, "review", stage)
          ELSE \E j \in Fallbacks(i) : Run(j, "review", stage)

(* A turn that can neither lock the term nor fall back, and starts over.   *)
FollowUpAgain ==
    /\ stage.pc = "followup" /\ stage.count < AttemptLimit
    /\ LET free == Free(db, FollowUps) IN
       /\ free # << >>
       /\ Kind[Head(free)] = "concept" /\ Head(free) \notin Lockable
       /\ Fallbacks(Head(free)) = {}
    /\ UNCHANGED reviewVars

EndFollowUps ==
    /\ stage.pc = "followup"
    /\ stage.count >= AttemptLimit \/ Free(db, FollowUps) = << >>
    /\ GoOn("assess")
    /\ UNCHANGED <<db, saved, sessions>>

(* The repair starts with a memory of its own of what it has tried.        *)
Assess ==
    /\ stage.pc = "assess"
    /\ stage' = [stage EXCEPT !.pc = "repair", !.attempted = {}, !.count = 0]
    /\ UNCHANGED <<db, saved, sessions>>

(* A round works off the actions that were there when it began.            *)
BeginRound ==
    /\ stage.pc = "repair" /\ stage.queue = << >> /\ stage.round < RoundLimit
    /\ Free(db, Repairs) # << >>
    /\ stage' = [stage EXCEPT !.queue = Free(db, Repairs), !.round = @ + 1]
    /\ UNCHANGED <<db, saved, sessions>>

Repair ==
    /\ stage.pc = "repair" /\ stage.queue # << >>
    /\ Run(Head(stage.queue), "repair", [stage EXCEPT !.queue = Tail(@)])

(* The verdict counts what blocks before the last review, and reports it   *)
(* after; everything is committed whichever it is.                         *)
Verdict(remaining, skipped) ==
    IF remaining # {} THEN "failed" ELSE IF skipped THEN "partial" ELSE "succeeded"

EndReview ==
    /\ stage.pc = "repair" /\ stage.queue = << >>
    /\ stage.round >= RoundLimit \/ Free(db, Repairs) = << >>
    /\ IF stage.count > 0
       THEN Finish(ReviewedIfReady(db), Verdict(Active(db), ~Translated(db)))
       ELSE Finish(db, Verdict(Active(db), stage.skipped))

-----------------------------------------------------------------------------
(* The export.  The gate asks for the status of the chapter, and looks for *)
(* targets that are no longer valid.                                       *)

Checked(d) == d.chapter \in {"qa_checked", "exported"}

Misaligned_Ignored(d) == {}

Misaligned(d) == {Gap[p] : p \in {q \in Packets : d.packet[q] # "translated"}}

OpenBlocking(d) == {i \in Blocking : d.issue[i] = "open"}

GatePasses(d) == Checked(d) /\ Misaligned(d) = {} /\ OpenBlocking(d) = {}

(* A gate that fails for invalid targets opens their issues first.         *)
GateOpens(d) ==
    IF ~Checked(d) THEN d
    ELSE [d EXCEPT
             !.issue = [i \in Issues |-> IF i \in Misaligned(d) THEN "open" ELSE @[i]],
             !.action = [i \in Issues |-> IF i \in Misaligned(d) THEN "planned" ELSE @[i]]]

GateActions(d) ==
    IF Checked(d) /\ Misaligned(d) # {} THEN Misaligned(d)
    ELSE {i \in OpenBlocking(d) : d.action[i] = "planned"}

GateCandidates(d) ==
    Free(d, InOrder(GateActions(d) \ stage.attempted))

StartExport ==
    /\ BeginSession
    /\ stage' = [Idle EXCEPT !.pc = "gate"]
    /\ UNCHANGED <<db, saved>>

Export ==
    /\ stage.pc = "gate" /\ stage.queue = << >>
    /\ GatePasses(db)
    /\ Finish([db EXCEPT !.chapter = "exported"], "exported")

GateFollowUps ==
    /\ stage.pc = "gate" /\ stage.queue = << >>
    /\ ~GatePasses(db)
    /\ LET d == GateOpens(db)
           candidates == GateCandidates(d)
       IN  /\ candidates # << >>
           /\ Len(candidates) <= AttemptLimit - stage.count
           /\ db' = d
           /\ stage' = [stage EXCEPT !.queue = candidates]
    /\ UNCHANGED <<saved, sessions>>

ExportFollowUp ==
    /\ stage.pc = "gate" /\ stage.queue # << >>
    /\ LET i == Head(stage.queue) IN
       \/ Run(i, "export", [stage EXCEPT !.queue = Tail(@)])
       \* the document cannot be parsed again: marked, neither run nor logged
       \/ /\ Remedy[i] = "reparse"
          /\ db' = ActedOn(db, i)
          /\ stage' = [stage EXCEPT !.queue = Tail(@), !.attempted = @ \cup {i}]
          /\ UNCHANGED <<saved, sessions>>

RollBack ==
    /\ db' = saved
    /\ stage' = [Idle EXCEPT !.verdict = "raised"]
    /\ UNCHANGED <<saved, sessions>>

(* The export is refused when nothing is left to try, and when there is    *)
(* more to try than attempts: what it did try is rolled back.              *)
Refuse ==
    /\ stage.pc = "gate" /\ stage.queue = << >>
    /\ ~GatePasses(db)
    /\ LET n == Len(GateCandidates(GateOpens(db)))
       IN  n = 0 \/ n > AttemptLimit - stage.count
    /\ RollBack

(* An exception in the session, or the death of the process, at any point: *)
(* a translation that failed, an action that cannot be run.                *)
Raise == stage.pc # "idle" /\ RollBack

-----------------------------------------------------------------------------
(* Operators run an action, with or without its rerun, whatever its status *)
(* and the status of its issue, or ask for a review.                       *)
OperatorExecutes ==
    /\ BeginSession
    /\ \E i \in Issues :
           /\ db.action[i] # "none"
           /\ db' \in {ActedOn(db, i)} \cup Reruns(ActedOn(db, i), i)
    /\ saved' = db'
    /\ stage' = Idle

OperatorReviews ==
    /\ BeginSession
    /\ db' = ReviewedIfReady(db)
    /\ saved' = db'
    /\ stage' = Idle

Work ==
    \/ FollowUp \/ FollowUpAgain \/ EndFollowUps
    \/ Assess \/ BeginRound \/ Repair \/ EndReview
    \/ Export \/ GateFollowUps \/ ExportFollowUp \/ Refuse

ReviewNext ==
    \/ StartReview \/ StartExport \/ Work \/ Raise
    \/ OperatorExecutes \/ OperatorReviews

ReviewSpec == ReviewInit /\ [][ReviewNext]_reviewVars

(* The thread of a claimed item runs on; exceptions are not promised.       *)
ReviewFairSpec == ReviewSpec /\ WF_reviewVars(Work)

-----------------------------------------------------------------------------
ReviewTypeOK ==
    /\ db \in [flaws : SUBSET Issues,
               issue : [Issues -> IssueStatus],
               action : [Issues -> ActionStatus],
               packet : [Packets -> PacketStatus],
               chapter : ChapterStatus,
               audits : SUBSET [kind : AuditKind, action : Issues,
                                index : 1 .. Cardinality(Issues) + AttemptLimit,
                                resolved : BOOLEAN],
               failures : [Issues -> 0 .. RepeatLimit]]
    /\ stage.pc \in {"idle", "followup", "assess", "repair", "gate"}
    /\ stage.pc = "idle" => saved = db

(* A chapter that passed its review, or was exported, has no fault that    *)
(* blocks: no rerun, reopened issue or repeated action lets one through    *)
(* (review_chapter decides the status from all it finds).                  *)
CheckedIsClean == Checked(db) => db.flaws \cap Blocking = {}

(* An open issue can be worked on: whenever a review or the gate reopens   *)
(* an issue, its action is planned again, or the repair, which takes       *)
(* planned actions only, would never come back to it.                      *)
OpenIsPlanned == \A i \in Issues : db.issue[i] = "open" => db.action[i] = "planned"

(* No export of a chapter with a packet whose translation was invalidated: *)
(* an operator who runs an action without its rerun leaves the status of   *)
(* the chapter as it was, and only the alignment check of the gate sees it.*)
ExportIsWhole ==
    [][saved'.chapter = "exported" /\ saved.chapter # "exported" => Translated(saved')]_reviewVars

(* A stage that succeeds leaves a chapter that passed its last review: an  *)
(* issue that was triaged and not mended keeps the stage from succeeding.  *)
SuccessIsChecked ==
    [][stage'.verdict = "succeeded" /\ stage.pc # "idle" => db'.chapter = "qa_checked"]_reviewVars

(* A stage that fails for unresolved issues leaves some.                   *)
FailureHasCause ==
    [][stage'.verdict = "failed" /\ stage.pc # "idle" => Active(db') # {}]_reviewVars

(* An action that failed twice is not run again by itself.                 *)
FailedTwiceIsHeld ==
    [][\A i \in stage'.attempted \ stage.attempted : db.failures[i] < RepeatLimit]_reviewVars

(* A stage or an export, once begun, ends.                                 *)
StageEnds == stage.pc # "idle" ~> stage.pc = "idle"
=============================================================================
