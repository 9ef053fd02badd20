--------------------------- MODULE ExportArtifacts ---------------------------
(***************************************************************************)
(* One export of a document: its row in exports, the file at its canonical *)
(* path, and the blobs under blobs/<aa>/<bb>/<sha>, which are hard links   *)
(* of the file, or copies when the blobs are on another device.            *)
(*                                                                         *)
(* A POST renders the file in place, merges the row, stamps it with the    *)
(* hash of the file, links the blob and commits.  The export stage of a    *)
(* run does the same without stamp and blob.  A download serves the blob   *)
(* of the stamp, or else the file; when neither is there it rebuilds the   *)
(* file under a lock of its process and an advisory lock of PostgreSQL,    *)
(* and its transaction is rolled back.  Beside them run the tools that     *)
(* verify, seed, materialize and reap.                                     *)
(***************************************************************************)
EXTENDS Naturals

CONSTANTS
    Posts, Runs, Gets,  \* POST /export, export stages of runs, downloads
    Processes, Home,    \* the server's processes, and the one of each download
    Texts,              \* what a rendering of the document may be
    First,              \* the rendering there is at the start
    Exported,           \* whether a run has exported it before
    SameDevice,         \* whether the blobs can be hard links
    Postgres,           \* whether the database is PostgreSQL
    Tools,              \* the scripts that run, each once
    None,
    MaxEdits, MaxLosses \* bounds: the translation changes, the file gets lost

\* What the constants are; the instances assume it.
ArtifactAssumption ==
    /\ Home \in [Gets -> Processes] /\ First \in Texts
    /\ Exported \in BOOLEAN /\ SameDevice \in BOOLEAN /\ Postgres \in BOOLEAN
    /\ Tools \subseteq {"verify", "backfill", "materialize", "reap"}
    /\ MaxEdits \in Nat /\ MaxLosses \in Nat
    /\ None \notin Posts \cup Runs \cup Gets /\ Posts \cap (Runs \cup Gets) = {}
    /\ Texts \cap {"empty", "mixed", "file", None} = {} /\ None \notin {"empty", "mixed", "file"}

VARIABLES
    text,       \* what a rendering made now would be
    bytes,      \* what each name holds: the file, and a blob per hash
    linked,     \* the blobs that are the same inode as the file
    old,        \* the names whose mtime is an hour past
    row,        \* the committed row: its content_sha256 and whether it is stale
    rowLock,    \* the session that has an uncommitted write of the row
    held,       \* the process-local lock of each process
    advisory,   \* the advisory lock
    work,       \* where each session is, and what it has read
    got,        \* what each download has sent
    tool,       \* where each script is, and what it has read
    edits, losses

files == <<bytes, linked, old>>
locks == <<rowLock, held, advisory>>
vars == <<text, files, row, locks, work, got, tool, edits, losses>>

Sessions == Posts \cup Runs \cup Gets
Contents == Texts \cup {"empty", "mixed"}
Names == {"file"} \cup Contents
NoRow == [sha |-> None, is |-> "absent"]

Init ==
    /\ text = First
    /\ bytes = [n \in Names |-> IF Exported /\ n = "file" THEN First ELSE None]
    /\ linked = {} /\ old = {}
    /\ row = IF Exported THEN [sha |-> None, is |-> "good"] ELSE NoRow
    /\ rowLock = None /\ advisory = None
    /\ held = [p \in Processes |-> None]
    /\ work = [s \in Sessions |-> [at |-> "idle", text |-> First, found |-> FALSE,
                                   locked |-> FALSE, sha |-> None, digest |-> None, path |-> None]]
    /\ got = [s \in Gets |-> None]
    /\ tool = [t \in Tools |-> [at |-> "idle", seen |-> {}]]
    /\ edits = 0 /\ losses = 0

Goto(s, w) == work' = [work EXCEPT ![s] = w]
At(s, place) == Goto(s, [work[s] EXCEPT !.at = place])

-----------------------------------------------------------------------------
(* Writing an export *)

Begin(s) ==
    /\ s \in Posts \cup Runs /\ work[s].at = "idle"
    /\ Goto(s, [work[s] EXCEPT !.at = "open", !.text = text])
    /\ UNCHANGED <<text, files, row, locks, got, tool, edits, losses>>

WriteThrough_FileOnly(content) ==   \* mutant: the file is replaced, the links forgotten
    /\ bytes' = [bytes EXCEPT !["file"] = content]
    /\ old' = old \ {"file"}
    /\ UNCHANGED linked
\* What is written to the file is written to every hard link of it.
WriteThrough(content) ==
    /\ bytes' = [n \in Names |-> IF n \in linked \cup {"file"} THEN content ELSE bytes[n]]
    /\ old' = old \ (linked \cup {"file"})
    /\ UNCHANGED linked

\* write_text truncates the file it opens ...
Open_Unlinks(s) ==                  \* mutant: the old file is removed first
    /\ work[s].at = "open"
    /\ bytes' = [bytes EXCEPT !["file"] = None]
    /\ linked' = {} /\ old' = old \ {"file"}
    /\ At(s, "write")
    /\ UNCHANGED <<text, row, locks, got, tool, edits, losses>>
Open(s) ==
    /\ work[s].at = "open"
    /\ WriteThrough("empty")
    /\ At(s, "write")
    /\ UNCHANGED <<text, row, locks, got, tool, edits, losses>>

\* ... and writes from its start, over what another has written meanwhile.
Write(s) ==
    /\ work[s].at = "write"
    /\ WriteThrough(IF bytes["file"] \in {"empty", work[s].text} THEN work[s].text ELSE "mixed")
    /\ Goto(s, [work[s] EXCEPT !.at = "flush", !.found = row # NoRow])
    /\ UNCHANGED <<text, row, locks, got, tool, edits, losses>>

\* Leaving try_acquire_rebuild_lock: the advisory lock stays to the end.
LeaveLocal_Keeps(s) == held' = held                 \* mutant: no finally
LeaveLocal(s) ==
    held' = IF work[s].locked THEN [held EXCEPT ![Home[s]] = None] ELSE held

\* The merged row is flushed, once no other session has it written and not
\* committed.  The row has one id for good: of two that insert it, one fails.
Flush(s) ==
    /\ work[s].at = "flush" /\ rowLock = None
    /\ IF ~work[s].found /\ row # NoRow
       THEN /\ LeaveLocal(s)
            /\ advisory' = IF advisory = s THEN None ELSE advisory
            /\ UNCHANGED rowLock
            /\ At(s, "done")
       ELSE /\ rowLock' = s
            /\ UNCHANGED <<held, advisory>>
            /\ At(s, IF s \in Runs THEN "commit" ELSE "digest")
    /\ UNCHANGED <<text, files, row, got, tool, edits, losses>>

AfterStamp(s) == IF s \in Gets THEN "release" ELSE "commit"

Digest_Once(s) ==                   \* mutant: a row that is stamped is not stamped again
    /\ work[s].at = "digest"
    /\ IF bytes["file"] = None \/ row.sha # None
       THEN At(s, AfterStamp(s))
       ELSE Goto(s, [work[s] EXCEPT !.at = "link", !.digest = bytes["file"]])
    /\ UNCHANGED <<text, files, row, locks, got, tool, edits, losses>>
Digest(s) ==
    /\ work[s].at = "digest"
    /\ IF bytes["file"] = None
       THEN At(s, AfterStamp(s))
       ELSE Goto(s, [work[s] EXCEPT !.at = "link", !.digest = bytes["file"]])
    /\ UNCHANGED <<text, files, row, locks, got, tool, edits, losses>>

\* A blob that is there is left as it is.  A hard link has the file's mtime.
Materialize(sha) ==
    IF bytes[sha] # None \/ bytes["file"] = None
    THEN UNCHANGED files
    ELSE /\ bytes' = [bytes EXCEPT ![sha] = bytes["file"]]
         /\ linked' = IF SameDevice THEN linked \cup {sha} ELSE linked
         /\ old' = IF SameDevice /\ "file" \in old THEN old \cup {sha} ELSE old

Link(s) ==
    /\ work[s].at = "link"
    /\ Materialize(work[s].digest)
    /\ At(s, AfterStamp(s))
    /\ UNCHANGED <<text, row, locks, got, tool, edits, losses>>

\* The merge writes neither content_sha256 nor stale_reason.
Committed(s) ==
    [sha |-> IF work[s].digest # None THEN work[s].digest ELSE row.sha,
     is  |-> IF work[s].found THEN row.is ELSE "good"]

Commit(s) ==
    /\ work[s].at = "commit"
    /\ row' = Committed(s)
    /\ rowLock' = None
    /\ At(s, "done")
    /\ UNCHANGED <<text, files, held, advisory, got, tool, edits, losses>>

-----------------------------------------------------------------------------
(* Downloads *)

\* A document without an export is exported at once, without a lock.
Look(s) ==
    /\ s \in Gets /\ work[s].at = "idle"
    /\ Goto(s, CASE row = NoRow      -> [work[s] EXCEPT !.at = "open", !.text = text]
                 [] row.is = "good"  -> [work[s] EXCEPT !.at = "resolve", !.sha = row.sha]
                 [] OTHER            -> [work[s] EXCEPT !.at = "done"])
    /\ UNCHANGED <<text, files, row, locks, got, tool, edits, losses>>

\* The blob of the stamp before the file.
Resolved(sha) ==
    IF sha # None /\ bytes[sha] # None THEN sha
    ELSE IF bytes["file"] # None THEN "file" ELSE None

Resolve(s) ==
    /\ work[s].at = "resolve"
    /\ LET path == Resolved(work[s].sha) IN
       Goto(s, [work[s] EXCEPT !.at = IF path = None THEN "local" ELSE "serve", !.path = path])
    /\ UNCHANGED <<text, files, row, locks, got, tool, edits, losses>>

TryLocal(s) ==
    /\ work[s].at = "local"
    /\ IF held[Home[s]] # None
       THEN At(s, "done") /\ UNCHANGED held
       ELSE held' = [held EXCEPT ![Home[s]] = s] /\ At(s, "advisory")
    /\ UNCHANGED <<text, files, row, rowLock, advisory, got, tool, edits, losses>>

TryAdvisory_LocalOnly(s) ==         \* mutant: the process-local lock is thought enough
    /\ work[s].at = "advisory"
    /\ Goto(s, [work[s] EXCEPT !.at = "open", !.text = text, !.locked = TRUE])
    /\ UNCHANGED <<text, files, row, locks, got, tool, edits, losses>>
TryAdvisory(s) ==
    /\ work[s].at = "advisory"
    /\ IF Postgres /\ advisory # None
       THEN /\ At(s, "done")
            /\ held' = [held EXCEPT ![Home[s]] = None]
            /\ UNCHANGED advisory
       ELSE /\ Goto(s, [work[s] EXCEPT !.at = "open", !.text = text, !.locked = TRUE])
            /\ advisory' = IF Postgres THEN s ELSE advisory
            /\ UNCHANGED held
    /\ UNCHANGED <<text, files, row, rowLock, got, tool, edits, losses>>

\* A rebuild resolves by the stamp it had loaded with the row, if there was one.
Release(s) ==
    /\ work[s].at = "release"
    /\ LeaveLocal(s)
    /\ LET path == Resolved(IF work[s].found THEN work[s].sha ELSE work[s].digest) IN
       Goto(s, [work[s] EXCEPT !.at = IF path = None THEN "end" ELSE "serve", !.path = path])
    /\ UNCHANGED <<text, files, row, rowLock, advisory, got, tool, edits, losses>>

Serve(s) ==
    /\ work[s].at = "serve"
    /\ got' = [got EXCEPT ![s] = bytes[work[s].path]]
    /\ At(s, "end")
    /\ UNCHANGED <<text, files, row, locks, tool, edits, losses>>

\* A GET is rolled back when its answer is sent.
End(s) ==
    /\ work[s].at = "end"
    /\ rowLock' = IF rowLock = s THEN None ELSE rowLock
    /\ advisory' = IF advisory = s THEN None ELSE advisory
    /\ At(s, "done")
    /\ UNCHANGED <<text, files, row, held, got, tool, edits, losses>>

-----------------------------------------------------------------------------
(* Scripts: each reads rows and files, then writes by what it has read.  The *)
(* verifier's week between two scans of a row may pass at any point.         *)

Use(t, place, seen) == tool' = [tool EXCEPT ![t] = [at |-> place, seen |-> seen]]

Scan(t) ==
    /\ tool[t].at = "idle"
    /\ CASE t \in {"verify", "materialize"} ->
                row.is = "good" /\ row.sha # None /\ Use(t, "hash", {row.sha})
         [] t = "backfill" ->
                row.is = "good" /\ row.sha = None /\ Use(t, "hash", {})
         [] t = "reap" ->
                Use(t, "apply", {b \in old \ {"file"} : row.is # "good" \/ row.sha # b})
    /\ UNCHANGED <<text, files, row, locks, work, got, edits, losses>>

Hash(t) ==
    /\ tool[t].at = "hash"
    /\ IF bytes["file"] = None THEN Use(t, "apply", {None})
       ELSE IF \/ t = "verify" /\ bytes["file"] \in tool[t].seen
               \/ t = "materialize" /\ bytes["file"] \notin tool[t].seen THEN Use(t, "done", {})
       ELSE Use(t, "apply", {bytes["file"]})
    /\ UNCHANGED <<text, files, row, locks, work, got, edits, losses>>

Marked(reason) == IF row.is = "good" THEN [row EXCEPT !.is = reason] ELSE row

ApplyToRow(t) ==
    /\ t \in {"verify", "backfill"} /\ tool[t].at = "apply" /\ rowLock = None
    /\ \E sha \in tool[t].seen :
          row' = IF sha = None THEN Marked("missing")
                 ELSE IF t = "verify" THEN Marked("content_drift") ELSE [row EXCEPT !.sha = sha]
    /\ Use(t, "done", {})
    /\ UNCHANGED <<text, files, locks, work, got, edits, losses>>

MaterializeBlob ==
    /\ "materialize" \in Tools /\ tool["materialize"].at = "apply"
    /\ \E sha \in tool["materialize"].seen :
          IF sha = None THEN UNCHANGED files ELSE Materialize(sha)
    /\ Use("materialize", "done", {})
    /\ UNCHANGED <<text, row, locks, work, got, edits, losses>>

Reap ==
    /\ "reap" \in Tools /\ tool["reap"].at = "apply"
    /\ bytes' = [n \in Names |-> IF n \in tool["reap"].seen THEN None ELSE bytes[n]]
    /\ linked' = linked \ tool["reap"].seen
    /\ old' = old \ tool["reap"].seen
    /\ Use("reap", "done", {})
    /\ UNCHANGED <<text, row, locks, work, got, edits, losses>>

-----------------------------------------------------------------------------
(* The world around *)

Edit ==
    /\ edits < MaxEdits /\ edits' = edits + 1
    /\ text' \in Texts \ {text}
    /\ UNCHANGED <<files, row, locks, work, got, tool, losses>>

Resting == \A s \in Sessions : work[s].at \in {"idle", "done"}

\* An hour passes.  No request takes that long.
Age ==
    /\ Resting
    /\ old' = {n \in Names : bytes[n] # None}
    /\ UNCHANGED <<text, bytes, linked, row, locks, work, got, tool, edits, losses>>

\* The directory of the exports is cleaned up while nothing writes to it.
Lose ==
    /\ losses < MaxLosses /\ losses' = losses + 1
    /\ Resting
    /\ bytes' = [bytes EXCEPT !["file"] = None]
    /\ linked' = {} /\ old' = old \ {"file"}
    /\ UNCHANGED <<text, row, locks, work, got, tool, edits>>

Stop ==
    /\ \A s \in Sessions : work[s].at = "done"
    /\ UNCHANGED vars

Request(s) ==
    \/ Begin(s) \/ Look(s) \/ Resolve(s) \/ TryLocal(s) \/ TryAdvisory(s)
    \/ Open(s) \/ Write(s) \/ Flush(s) \/ Digest(s) \/ Link(s)
    \/ Commit(s) \/ Release(s) \/ Serve(s) \/ End(s)

Next ==
    \/ \E s \in Sessions : Request(s)
    \/ \E t \in Tools : Scan(t) \/ Hash(t) \/ ApplyToRow(t)
    \/ MaterializeBlob \/ Reap
    \/ Edit \/ Age \/ Lose \/ Stop

Spec == Init /\ [][Next]_vars

\* A request that has begun goes on: it runs in a thread of the server.
Fairness == \A s \in Sessions : WF_vars(Request(s) /\ work[s].at # "idle")

FairSpec == Spec /\ Fairness

-----------------------------------------------------------------------------
(* Properties *)

TypeOK ==
    /\ text \in Texts
    /\ bytes \in [Names -> Contents \cup {None}]
    /\ linked \subseteq Contents /\ old \subseteq Names
    /\ row \in [sha : Contents \cup {None}, is : {"absent", "good", "content_drift", "missing"}]
    /\ rowLock \in Sessions \cup {None} /\ advisory \in Gets \cup {None}
    /\ held \in [Processes -> Gets \cup {None}]
    /\ \A s \in Sessions : work[s].path \in Names \cup {None}
    /\ \A n \in linked : bytes[n] = bytes["file"]

Rebuilding(s) == work[s].locked /\ work[s].at \notin {"end", "done"}

\* Of the downloads that find the artifact gone, in any process, one at a time
\* rebuilds it.  The process-local lock is left before the transaction ends;
\* the advisory lock is not.
OneRebuild == \A s, t \in Gets : Rebuilding(s) /\ Rebuilding(t) => s = t

\* The process-local lock of a key does not stay taken.
LocksAreFreed == \A p \in Processes : held[p] # None ~> held[p] = None

\* A document that was exported before, whose file has not been lost and whose
\* export nothing but POSTs has renewed, nor a script stamped: the export stage
\* of a run and the backfill leave stamps that are not of the file.
WrittenByPosts ==
    /\ Exported /\ losses = 0
    /\ \A s \in Runs : work[s].at = "idle"
    /\ \A t \in Tools : t = "backfill" => tool[t].at = "idle"

\* When no request is under way, the stamp of an export that two POSTs have
\* made at once is the hash of the file one of them left.
StampIsOfTheFile ==
    WrittenByPosts /\ Resting /\ row.is = "good" /\ row.sha # None => row.sha = bytes["file"]

\* A download sends no file that is being written.
ServesWholeFiles == \A s \in Gets : got[s] \notin {"empty", "mixed"}

\* The bytes of a blob are those of its name.
BlobIsItsName == \A b \in Contents : bytes[b] \in {None, b}

\* An export is marked as drifted for what was done out of band: here, nothing.
NoDrift == row.is # "content_drift"

\* A script marks an export as missing only when its file was lost: one that
\* looks while an export is being written finds a file.
MissingWasLost == row.is = "missing" => losses > 0

\* A POST that exports a document leaves an export that can be downloaded.
ReexportServes == [][\A s \in Posts : Commit(s) => row'.is = "good"]_vars

\* The reaper removes no blob the committed row refers to.
ReaperSparesReferenced == [][Reap /\ row.is = "good" /\ row.sha # None =>
                                row.sha \notin tool["reap"].seen]_vars

\* An export without a new stamp is served like another: with no export under
\* way, a download sends what the file of the newest export holds.
ServesNewest ==
    \A s \in Gets : Serve(s) /\ (\A w \in Posts \cup Runs : work[w].at \in {"idle", "done"})
                          /\ bytes["file"] # None
            => got'[s] = bytes["file"]
ServesNewestExport == [][ServesNewest]_vars
=============================================================================
