---------------------------- MODULE StageStatus ----------------------------
(***************************************************************************)
(* How the status of a pipeline stage, the permission to start a stage and *)
(* the outcome of a run are derived from work items and packets.  Nothing  *)
(* here is stored: the run loop, the worker threads and the API derive it  *)
(* afresh whenever they need it.                                           *)
(*                                                                         *)
(* A work item stands where WorkLedger says it does (WorkItemLease is the  *)
(* machinery behind it), or is "absent" as long as it is not seeded.  The  *)
(* packet status FAILED is written nowhere in the code and left out.       *)
(***************************************************************************)

OptionalStages == {"review", "bilingual_html", "merged_html"}
Stages == {"translate"} \cup OptionalStages
StageStatuses == {"not_started", "running", "succeeded", "failed"}
ItemState == {"absent", "waiting", "inflight", "done", "failed", "obsolete"}

\* The items a derivation counts: it ignores the cancelled ones.
Counted(item) == {x \in DOMAIN item : item[x] \notin {"absent", "obsolete"}}
AnyCounted(item, state) == \E x \in Counted(item) : item[x] = state
AllCountedDone(item) == \A x \in Counted(item) : item[x] = "done"

\* A stage that has work items only: review and the two exports, which have
\* one item each.
ItemStageStatus(state) ==
    CASE state \in {"absent", "obsolete"} -> "not_started"
      [] state = "failed"                 -> "failed"
      [] state = "done"                   -> "succeeded"
      [] state \in {"waiting", "inflight"} -> "running"

\* The translate stage looks at its work items and at all the packets of the
\* document.  It is never done without a work item that is.
TranslateStatus_ItemsOnly(item, translated) ==  \* mutant: asks the work items alone
    CASE Counted(item) = {}         -> "not_started"
      [] AnyCounted(item, "failed") -> "failed"
      [] /\ Counted(item) # {}
         /\ AllCountedDone(item)    -> "succeeded"
      [] OTHER                      -> "running"
TranslateStatus(item, translated) ==
    CASE DOMAIN item = {} /\ Counted(item) = {} -> "not_started"
      [] AnyCounted(item, "failed")             -> "failed"
      [] /\ DOMAIN item # {} /\ DOMAIN item \subseteq translated
         /\ Counted(item) # {} /\ AllCountedDone(item)
                                                -> "succeeded"
      [] OTHER                                  -> "running"

DerivedStatus(item, translated, stageItem) ==
    [s \in Stages |-> IF s = "translate" THEN TranslateStatus(item, translated)
                                         ELSE ItemStageStatus(stageItem[s])]

\* A stage may start when every stage upstream of it has succeeded.
StageDependencies_Unreviewed ==                 \* mutant: exports do not wait for review
    [review         |-> {"translate"},
     bilingual_html |-> {"translate"},
     merged_html    |-> {"translate", "bilingual_html"}]
StageDependencies ==
    [review         |-> {"translate"},
     bilingual_html |-> {"translate", "review"},
     merged_html    |-> {"translate", "review", "bilingual_html"}]

CanStart(stage, status) == \A up \in StageDependencies[stage] : status[up] = "succeeded"

\* The outcome of a run: translate is required, the other stages are optional
\* and count as not requested while they have no work item.
RunOutcome(status) ==
    CASE status["translate"] = "failed"                       -> "failed"
      [] status["translate"] \in {"not_started", "running"}   -> "running"
      [] /\ status["translate"] = "succeeded"
         /\ \E s \in OptionalStages : status[s] = "running"   -> "running"
      [] /\ status["translate"] = "succeeded"
         /\ \A s \in OptionalStages : status[s] # "running"
         /\ \E s \in OptionalStages : status[s] = "failed"    -> "succeeded_with_warnings"
      [] OTHER                                                -> "succeeded"
=============================================================================
