----------------------------- MODULE MCDelivery -----------------------------
(* From the translated chapter to the file: the exported artifacts           *)
(* (ExportArtifacts) and review and repair (ReviewLoop), each in several     *)
(* settings.                                                                 *)
(*                                                                           *)
(* The two share no state.  One run of TLC checks them side by side: a       *)
(* behaviour is one of the setting `part', while the other component stays   *)
(* as it is at the start.                                                    *)
EXTENDS ExportArtifacts, ReviewLoop, TLC

CONSTANTS p1, p2, r1, g1, g2, s1, s2, t1, t2, t3

VARIABLE part

(* A chapter of two packets.  What can be wrong with it: translations that   *)
(* are missing, a conflict of terms, a concept that can be locked and one    *)
(* that cannot, a brief that can be rebuilt for the packets of that one, an  *)
(* alignment, the structure and the context of the chapter, and a sentence   *)
(* in no packet, which waits for a person.                                   *)
MCIssues == {"structure", "context", "term", "gap1", "gap2", "align", "concept", "loose",
             "brief", "orphan"}
MCBlocking == MCIssues \ {"concept", "loose", "brief"}
MCKind == [i \in MCIssues |->
    CASE i \in {"term", "concept", "brief"} -> i [] i = "loose" -> "concept" [] OTHER -> "other"]
MCScope == [i \in MCIssues |->
    CASE i \in {"structure", "context"} -> "chapter" [] i = "orphan" -> "sentence"
      [] OTHER -> "packet"]
MCRemedy == [i \in MCIssues |->
    CASE i = "structure" -> "reparse" [] i = "align" -> "realign" [] i = "orphan" -> "mark"
      [] OTHER -> "rerun"]
MCPacketsOf == [i \in MCIssues |->
    CASE i \in {"term", "gap1", "concept"} -> {"p1"} [] i \in {"gap2", "align"} -> {"p2"}
      [] i \in {"loose", "brief"} -> {"p1", "p2"} [] OTHER -> {}]
MCGap == [p1 |-> "gap1", p2 |-> "gap2"]
MCOrder == <<"structure", "context", "term", "gap1", "gap2", "align", "concept", "loose",
             "brief", "orphan">>

\* The chapter has the faults of one setting.
ReviewFaults == {"term", "gap1", "concept", "context"}
FallbackFaults == {"gap2", "align", "loose", "brief", "structure", "orphan"}

(* The exports have one set of constants, of which each setting uses a part. *)
MCHome == g1 :> s1 @@ g2 :> s2
MCTools == {"verify", "backfill", "materialize", "reap"}

OnlyRequests(S) == \A s \in Sessions \ S : work'[s] = work[s]
OnlyTools(T) == \A t \in Tools \ T : tool'[t] = tool[t]
OneEdit == edits' <= 1 /\ text' # t3

\* Two downloads in two processes, a POST and an export stage of a run.
RebuildSetting == OnlyRequests({p1, r1, g1, g2}) /\ OnlyTools({}) /\ OneEdit
\* The scripts beside a POST and a download.
ScriptsSetting == OnlyRequests({p1, g1}) /\ OneEdit
\* Two POSTs, two edits, and the script that makes blobs.
PostingSetting == OnlyRequests({p1, p2}) /\ OnlyTools({"materialize"}) /\ losses' = 0

ASSUME ReviewAssumption /\ ArtifactAssumption

Setting ==
    CASE part = "review" -> db.flaws \subseteq ReviewFaults
      [] part = "fallback" -> db.flaws \subseteq FallbackFaults
      [] OTHER -> db.flaws = {}

DeliveryInit ==
    /\ part \in {"review", "fallback", "rebuild", "scripts", "posting"}
    /\ Init /\ ReviewInit
    /\ Setting

DeliveryNext ==
    \/ /\ part \in {"review", "fallback"} /\ UNCHANGED <<part, vars>>
       /\ ReviewNext
       /\ Setting'
    \/ /\ part \in {"rebuild", "scripts", "posting"} /\ UNCHANGED <<part, reviewVars>>
       /\ Next
       /\ part = "rebuild" => RebuildSetting
       /\ part = "scripts" => ScriptsSetting
       /\ part = "posting" => PostingSetting

DeliverySpec == DeliveryInit /\ [][DeliveryNext]_<<part, reviewVars, vars>>

(* Claims of the docs and comments that the code does not keep, stated in the *)
(* components: FailureHasCause and FailedTwiceIsHeld of ReviewLoop;           *)
(* ServesWholeFiles, BlobIsItsName, ReexportServes, ReaperSparesReferenced    *)
(* and ServesNewestExport of ExportArtifacts.  In place of the properties of  *)
(* the configuration, each yields a counterexample, and so does NoDrift of    *)
(* ExportArtifacts in this setting.                                           *)
\* No drift but from outside.
NothingDrifts == part = "scripts" => NoDrift
=============================================================================
