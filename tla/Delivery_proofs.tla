-------------------------- MODULE Delivery_proofs --------------------------
(***************************************************************************)
(* What the way from a translated chapter to a file keeps, for any         *)
(* constants.                                                              *)
(*                                                                         *)
(* The exported artifacts, for any number of requests, processes, scripts  *)
(* and renderings: one download at a time rebuilds a lost artifact; an     *)
(* export is marked as missing only when its file was lost; and, as long   *)
(* as only POSTs have renewed and stamped the export, the stamp is the     *)
(* hash of the file whenever the requests are done.                        *)
(*                                                                         *)
(* The review loop, for any packets, issues and remedies, any limits and   *)
(* any number of sessions: a chapter that passed has no fault that blocks, *)
(* an open issue has an action to run, a chapter is exported with all its  *)
(* packets translated, and a stage succeeds only on a chapter that passed. *)
(***************************************************************************)
EXTENDS ExportArtifacts, ReviewLoop, TLAPS

Places == {"idle", "open", "write", "flush", "digest", "link", "commit", "done", "resolve",
           "local", "advisory", "release", "serve", "end"}

Session ==
    [at : Places, text : Texts, found : BOOLEAN, locked : BOOLEAN,
     sha : Contents \cup {None}, digest : Contents \cup {None}, path : Names \cup {None}]

WorkTypes == work \in [Sessions -> Session]

FileTypes ==
    /\ text \in Texts
    /\ bytes \in [Names -> Contents \cup {None}]
    /\ linked \subseteq Contents /\ old \subseteq Names
    /\ \A n \in linked : bytes[n] = bytes["file"]

RowTypes ==
    row \in [sha : Contents \cup {None}, is : {"absent", "good", "content_drift", "missing"}]

LockTypes ==
    /\ rowLock \in Sessions \cup {None} /\ advisory \in Gets \cup {None}
    /\ held \in [Processes -> Gets \cup {None}]

ToolTypes ==
    tool \in [Tools -> [at : {"idle", "hash", "apply", "done"}, seen : SUBSET (Contents \cup {None})]]

\* Who has a lock, and who is on its way to one, is a download.
Downloading ==
    \A s \in Sessions :
        \/ work[s].locked
        \/ work[s].at \in {"resolve", "local", "advisory"}
        => s \in Gets

\* The blob a request links has a hash for its name.
LinksAHash ==
    \A s \in Sessions : work[s].at = "link" => work[s].digest # None

Types ==
    /\ WorkTypes /\ FileTypes /\ RowTypes /\ LockTypes /\ ToolTypes
    /\ Downloading /\ LinksAHash

-----------------------------------------------------------------------------
(* Steps of the model *)

LEMMA Data ==
    ASSUME ArtifactAssumption
    PROVE  /\ None \notin Contents /\ "file" \notin Contents /\ None # "file"
           /\ Texts \subseteq Contents /\ {"empty", "mixed"} \subseteq Contents
           /\ Names = {"file"} \cup Contents /\ None \notin Sessions /\ Gets \subseteq Sessions
  BY DEF ArtifactAssumption, Contents, Names, Sessions

\* A step that writes what one request knows.
LEMMA GotoWrites ==
    ASSUME WorkTypes, NEW s \in Sessions, NEW w \in Session, Goto(s, w)
    PROVE  WorkTypes' /\ work'[s] = w /\ \A t \in Sessions \ {s} : work'[t] = work[t]
  BY DEF WorkTypes, Goto

\* A request that goes on to another place.
LEMMA AtWrites ==
    ASSUME WorkTypes, NEW s \in Sessions, NEW place \in Places, At(s, place)
    PROVE  /\ WorkTypes' /\ \A t \in Sessions \ {s} : work'[t] = work[t]
           /\ work'[s] = [work[s] EXCEPT !.at = place]
           /\ work'[s].at = place /\ work'[s].digest = work[s].digest
           /\ work'[s].locked = work[s].locked /\ work'[s].found = work[s].found
           /\ work'[s].text = work[s].text /\ work'[s].sha = work[s].sha
           /\ work'[s].path = work[s].path
  <1> DEFINE w == [work[s] EXCEPT !.at = place]
  <1>1. /\ w \in Session /\ w.at = place /\ w.digest = work[s].digest
        /\ w.locked = work[s].locked /\ w.found = work[s].found
        /\ w.text = work[s].text /\ w.sha = work[s].sha /\ w.path = work[s].path
    BY DEF WorkTypes, Session
  <1>2. Goto(s, w)
    BY DEF At
  <1> HIDE DEF w
  <1>3. WorkTypes' /\ work'[s] = w /\ \A t \in Sessions \ {s} : work'[t] = work[t]
    BY <1>1, <1>2, GotoWrites
  <1> QED
    BY <1>1, <1>3 DEF w

\* The file and its links are written at once.
LEMMA WriteThroughWrites ==
    ASSUME ArtifactAssumption, FileTypes, UNCHANGED text, NEW c \in Contents, WriteThrough(c)
    PROVE  FileTypes' /\ bytes'["file"] = c
  <1>1. linked \cup {"file"} \subseteq Names
    BY Data DEF FileTypes
  <1>2. bytes' \in [Names -> Contents \cup {None}] /\ \A n \in linked \cup {"file"} : bytes'[n] = c
    BY <1>1 DEF WriteThrough, FileTypes
  <1> QED
    BY <1>2 DEF WriteThrough, FileTypes

\* A blob is added beside the file.
LEMMA MaterializeAdds ==
    ASSUME ArtifactAssumption, FileTypes, UNCHANGED text, NEW sha \in Contents, Materialize(sha)
    PROVE  FileTypes' /\ bytes'["file"] = bytes["file"]
  <1>1. "file" \in Names /\ sha \in Names /\ sha # "file"
    BY Data
  <1>2. CASE UNCHANGED files
    BY <1>2 DEF files, FileTypes
  <1>3. CASE ~(bytes[sha] # None \/ bytes["file"] = None)
    <2>1. /\ bytes' = [bytes EXCEPT ![sha] = bytes["file"]]
          /\ linked' = IF SameDevice THEN linked \cup {sha} ELSE linked
          /\ old' = IF SameDevice /\ "file" \in old THEN old \cup {sha} ELSE old
      BY <1>3 DEF Materialize
    <2>2. /\ bytes' \in [Names -> Contents \cup {None}] /\ bytes'["file"] = bytes["file"]
          /\ bytes'[sha] = bytes["file"] /\ \A n \in Names \ {sha} : bytes'[n] = bytes[n]
      BY <1>1, <2>1 DEF FileTypes
    <2>3. linked' \subseteq linked \cup {sha} /\ linked' \subseteq Contents /\ old' \subseteq Names
      BY <1>1, <2>1 DEF FileTypes
    <2>4. \A n \in linked' : bytes'[n] = bytes'["file"]
      BY <1>1, <2>2, <2>3, Data DEF FileTypes
    <2> QED
      BY <2>2, <2>3, <2>4 DEF FileTypes
  <1> QED
    BY <1>2, <1>3 DEF Materialize

\* A name to serve.
LEMMA ResolvedIsAName ==
    ASSUME ArtifactAssumption, FileTypes, NEW sha \in Contents \cup {None}
    PROVE  Resolved(sha) \in Names \cup {None}
  BY Data DEF Resolved

\* What the invariant says of one request, once it has moved.
LEMMA MoveKeeps ==
    ASSUME Types, NEW s \in Sessions, WorkTypes', \A t \in Sessions \ {s} : work'[t] = work[t],
           work'[s].locked => s \in Gets,
           work'[s].at \in {"resolve", "local", "advisory"} => s \in Gets,
           work'[s].at = "link" => work'[s].digest # None
    PROVE  Downloading' /\ LinksAHash'
  BY DEF Types, Downloading, LinksAHash

LEMMA BeginKeeps ==
    ASSUME ArtifactAssumption, Types, NEW s \in Sessions, Begin(s)
    PROVE  /\ Types' /\ work'[s].at = "open" /\ work'[s].locked = work[s].locked
           /\ \A t \in Sessions \ {s} : work'[t] = work[t]
  <1> DEFINE w == [work[s] EXCEPT !.at = "open", !.text = text]
  <1>1. Goto(s, w) /\ UNCHANGED <<text, bytes, linked, old, row, rowLock, held, advisory, tool>>
    BY DEF Begin, files, locks
  <1>2. w \in Session /\ w.at = "open" /\ w.locked = work[s].locked
    BY DEF Types, WorkTypes, FileTypes, Session, Places
  <1> HIDE DEF w
  <1>3. WorkTypes' /\ work'[s] = w /\ \A t \in Sessions \ {s} : work'[t] = work[t]
    BY <1>1, <1>2, GotoWrites DEF Types
  <1>4. Downloading' /\ LinksAHash'
    BY <1>2, <1>3, MoveKeeps DEF Types, Downloading
  <1>5. FileTypes' /\ RowTypes' /\ LockTypes' /\ ToolTypes'
    BY <1>1 DEF Types, FileTypes, RowTypes, LockTypes, ToolTypes
  <1> QED
    BY <1>2, <1>3, <1>4, <1>5 DEF Types

LEMMA OpenKeeps ==
    ASSUME ArtifactAssumption, Types, NEW s \in Sessions, Open(s)
    PROVE  /\ Types' /\ work[s].at = "open" /\ work'[s].at = "write"
           /\ work'[s].locked = work[s].locked
           /\ \A t \in Sessions \ {s} : work'[t] = work[t]
           /\ bytes'["file"] # None
  <1>1. /\ WriteThrough("empty") /\ At(s, "write") /\ work[s].at = "open"
        /\ UNCHANGED <<text, row, rowLock, held, advisory, tool>>
    BY DEF Open, locks
  <1>2. /\ WorkTypes' /\ work'[s].at = "write" /\ work'[s].locked = work[s].locked
        /\ \A t \in Sessions \ {s} : work'[t] = work[t]
    BY <1>1, AtWrites DEF Types, Places
  <1>3. FileTypes' /\ bytes'["file"] = "empty"
    BY <1>1, Data, WriteThroughWrites DEF Types
  <1>4. Downloading' /\ LinksAHash'
    BY <1>2, MoveKeeps DEF Types, Downloading
  <1>5. RowTypes' /\ LockTypes' /\ ToolTypes'
    BY <1>1 DEF Types, RowTypes, LockTypes, ToolTypes
  <1> QED
    BY <1>1, <1>2, <1>3, <1>4, <1>5, Data DEF Types

LEMMA WriteKeeps ==
    ASSUME ArtifactAssumption, Types, NEW s \in Sessions, Write(s)
    PROVE  /\ Types' /\ work[s].at = "write" /\ work'[s].at = "flush"
           /\ work'[s].locked = work[s].locked /\ work'[s].found = (row # NoRow)
           /\ \A t \in Sessions \ {s} : work'[t] = work[t]
           /\ bytes'["file"] # None
  <1> DEFINE c == IF bytes["file"] \in {"empty", work[s].text} THEN work[s].text ELSE "mixed"
             w == [work[s] EXCEPT !.at = "flush", !.found = row # NoRow]
  <1>1. /\ WriteThrough(c) /\ Goto(s, w) /\ work[s].at = "write"
        /\ UNCHANGED <<text, row, rowLock, held, advisory, tool>>
    BY DEF Write, locks
  <1>2. c \in Contents
    BY Data DEF Types, WorkTypes, Session
  <1>3. w \in Session /\ w.at = "flush" /\ w.locked = work[s].locked /\ w.found = (row # NoRow)
    BY DEF Types, WorkTypes, Session, Places
  <1> HIDE DEF w, c
  <1>4. WorkTypes' /\ work'[s] = w /\ \A t \in Sessions \ {s} : work'[t] = work[t]
    BY <1>1, <1>3, GotoWrites DEF Types
  <1>5. FileTypes' /\ bytes'["file"] = c
    BY <1>1, <1>2, WriteThroughWrites DEF Types
  <1>6. Downloading' /\ LinksAHash'
    BY <1>3, <1>4, MoveKeeps DEF Types, Downloading
  <1>7. RowTypes' /\ LockTypes' /\ ToolTypes'
    BY <1>1 DEF Types, RowTypes, LockTypes, ToolTypes
  <1> QED
    BY <1>1, <1>2, <1>3, <1>4, <1>5, <1>6, <1>7, Data DEF Types

LEMMA LeaveLocalKeeps ==
    ASSUME LockTypes, NEW s \in Sessions, LeaveLocal(s)
    PROVE  held' \in [Processes -> Gets \cup {None}]
  BY DEF LockTypes, LeaveLocal

LEMMA FlushKeeps ==
    ASSUME ArtifactAssumption, Types, NEW s \in Sessions, Flush(s)
    PROVE  /\ Types' /\ work[s].at = "flush" /\ rowLock = None
           /\ work'[s].at \in {"done", "commit", "digest"}
           /\ work'[s].locked = work[s].locked /\ work'[s].found = work[s].found
           /\ work'[s].digest = work[s].digest
           /\ \A t \in Sessions \ {s} : work'[t] = work[t]
           /\ IF ~work[s].found /\ row # NoRow
              THEN /\ work'[s].at = "done" /\ rowLock' = rowLock
                   /\ advisory' = IF advisory = s THEN None ELSE advisory
              ELSE /\ work'[s].at = (IF s \in Runs THEN "commit" ELSE "digest")
                   /\ rowLock' = s /\ advisory' = advisory
  <1> DEFINE place == IF ~work[s].found /\ row # NoRow THEN "done"
                      ELSE IF s \in Runs THEN "commit" ELSE "digest"
  <1>1. /\ At(s, place) /\ work[s].at = "flush" /\ rowLock = None
        /\ UNCHANGED <<text, bytes, linked, old, row, tool>>
    BY DEF Flush, files
  <1>2. place \in {"done", "commit", "digest"}
    OBVIOUS
  <1> HIDE DEF place
  <1>3. place \in Places
    BY <1>2 DEF Places
  <1>4. /\ WorkTypes' /\ work'[s].at = place /\ work'[s].locked = work[s].locked
        /\ work'[s].found = work[s].found /\ work'[s].digest = work[s].digest
        /\ \A t \in Sessions \ {s} : work'[t] = work[t]
    BY <1>1, <1>3, AtWrites DEF Types
  <1>5. Downloading' /\ LinksAHash'
    BY <1>2, <1>4, MoveKeeps DEF Types, Downloading
  <1>6. FileTypes' /\ RowTypes' /\ ToolTypes'
    BY <1>1 DEF Types, FileTypes, RowTypes, ToolTypes
  <1>7. CASE ~work[s].found /\ row # NoRow
    <2>1. /\ place = "done" /\ LeaveLocal(s) /\ rowLock' = rowLock
          /\ advisory' = IF advisory = s THEN None ELSE advisory
      BY <1>7 DEF Flush, place
    <2>2. LockTypes'
      BY <2>1, LeaveLocalKeeps DEF Types, LockTypes
    <2> QED
      BY <1>1, <1>2, <1>4, <1>5, <1>6, <1>7, <2>1, <2>2 DEF Types
  <1>8. CASE ~(~work[s].found /\ row # NoRow)
    <2>1. /\ place = (IF s \in Runs THEN "commit" ELSE "digest")
          /\ rowLock' = s /\ held' = held /\ advisory' = advisory
      BY <1>8 DEF Flush, place
    <2>2. LockTypes'
      BY <2>1 DEF Types, LockTypes
    <2> QED
      BY <1>1, <1>2, <1>4, <1>5, <1>6, <1>8, <2>1, <2>2 DEF Types
  <1> QED
    BY <1>7, <1>8

LEMMA DigestKeeps ==
    ASSUME ArtifactAssumption, Types, NEW s \in Sessions, Digest(s)
    PROVE  /\ Types' /\ work[s].at = "digest" /\ work'[s].at \in {"release", "commit", "link"}
           /\ work'[s].locked = work[s].locked /\ work'[s].found = work[s].found
           /\ bytes["file"] # None => work'[s].at = "link" /\ work'[s].digest = bytes["file"]
           /\ \A t \in Sessions \ {s} : work'[t] = work[t]
  <1>1. work[s].at = "digest" /\ UNCHANGED <<text, bytes, linked, old, row, rowLock, held, advisory, tool>>
    BY DEF Digest, files, locks
  <1>2. FileTypes' /\ RowTypes' /\ LockTypes' /\ ToolTypes'
    BY <1>1 DEF Types, FileTypes, RowTypes, LockTypes, ToolTypes
  <1>3. CASE bytes["file"] = None
    <2>1. At(s, AfterStamp(s)) /\ AfterStamp(s) \in {"release", "commit"} /\ AfterStamp(s) \in Places
      BY <1>3 DEF Digest, AfterStamp, Places
    <2>2. /\ WorkTypes' /\ work'[s].at \in {"release", "commit"} /\ work'[s].locked = work[s].locked
          /\ work'[s].found = work[s].found
          /\ \A t \in Sessions \ {s} : work'[t] = work[t]
      BY <2>1, AtWrites DEF Types
    <2>3. Downloading' /\ LinksAHash'
      BY <2>2, MoveKeeps DEF Types, Downloading
    <2> QED
      BY <1>1, <1>2, <1>3, <2>2, <2>3 DEF Types
  <1>4. CASE bytes["file"] # None
    <2> DEFINE w == [work[s] EXCEPT !.at = "link", !.digest = bytes["file"]]
    <2>0. bytes["file"] \in Contents
      BY <1>4, Data DEF Types, FileTypes
    <2>1. Goto(s, w)
      BY <1>4 DEF Digest
    <2>2. /\ w \in Session /\ w.at = "link" /\ w.digest = bytes["file"] /\ w.locked = work[s].locked
          /\ w.found = work[s].found
      BY <2>0 DEF Types, WorkTypes, Session, Places
    <2> HIDE DEF w
    <2>3. WorkTypes' /\ work'[s] = w /\ \A t \in Sessions \ {s} : work'[t] = work[t]
      BY <2>1, <2>2, GotoWrites DEF Types
    <2>4. Downloading' /\ LinksAHash'
      BY <1>4, <2>2, <2>3, MoveKeeps DEF Types, Downloading
    <2> QED
      BY <1>1, <1>2, <2>2, <2>3, <2>4 DEF Types
  <1> QED
    BY <1>3, <1>4

LEMMA LinkKeeps ==
    ASSUME ArtifactAssumption, Types, NEW s \in Sessions, Link(s)
    PROVE  /\ Types' /\ work[s].at = "link" /\ work'[s].at = AfterStamp(s)
           /\ work'[s].locked = work[s].locked /\ work'[s].found = work[s].found
           /\ work'[s].digest = work[s].digest /\ bytes'["file"] = bytes["file"]
           /\ \A t \in Sessions \ {s} : work'[t] = work[t]
  <1>1. /\ Materialize(work[s].digest) /\ At(s, AfterStamp(s)) /\ work[s].at = "link"
        /\ UNCHANGED <<text, row, rowLock, held, advisory, tool>>
    BY DEF Link, locks
  <1>2. work[s].digest \in Contents
    BY <1>1 DEF Types, LinksAHash, WorkTypes, Session
  <1>3. FileTypes' /\ bytes'["file"] = bytes["file"]
    BY <1>1, <1>2, MaterializeAdds DEF Types
  <1>4. AfterStamp(s) \in {"release", "commit"} /\ AfterStamp(s) \in Places
    BY DEF AfterStamp, Places
  <1>5. /\ WorkTypes' /\ work'[s].at = AfterStamp(s) /\ work'[s].locked = work[s].locked
        /\ work'[s].found = work[s].found /\ work'[s].digest = work[s].digest
        /\ \A t \in Sessions \ {s} : work'[t] = work[t]
    BY <1>1, <1>4, AtWrites DEF Types
  <1>6. Downloading' /\ LinksAHash'
    BY <1>4, <1>5, MoveKeeps DEF Types, Downloading
  <1>7. RowTypes' /\ LockTypes' /\ ToolTypes'
    BY <1>1 DEF Types, RowTypes, LockTypes, ToolTypes
  <1> QED
    BY <1>1, <1>3, <1>5, <1>6, <1>7 DEF Types

LEMMA CommitKeeps ==
    ASSUME ArtifactAssumption, Types, NEW s \in Sessions, Commit(s)
    PROVE  /\ Types' /\ work[s].at = "commit" /\ work'[s].at = "done"
           /\ work'[s].locked = work[s].locked
           /\ \A t \in Sessions \ {s} : work'[t] = work[t]
           /\ row'.sha = (IF work[s].digest # None THEN work[s].digest ELSE row.sha)
           /\ row'.is = (IF work[s].found THEN row.is ELSE "good")
  <1>1. /\ row' = Committed(s) /\ rowLock' = None /\ At(s, "done") /\ work[s].at = "commit"
        /\ UNCHANGED <<text, bytes, linked, old, held, advisory, tool>>
    BY DEF Commit, files
  <1>2. /\ WorkTypes' /\ work'[s].at = "done" /\ work'[s].locked = work[s].locked
        /\ \A t \in Sessions \ {s} : work'[t] = work[t]
    BY <1>1, AtWrites DEF Types, Places
  <1>3. Downloading' /\ LinksAHash'
    BY <1>2, MoveKeeps DEF Types, Downloading
  <1>4. /\ RowTypes'
        /\ row'.sha = (IF work[s].digest # None THEN work[s].digest ELSE row.sha)
        /\ row'.is = (IF work[s].found THEN row.is ELSE "good")
    BY <1>1 DEF Types, RowTypes, Committed, WorkTypes, Session
  <1>5. FileTypes' /\ LockTypes' /\ ToolTypes'
    BY <1>1 DEF Types, FileTypes, LockTypes, ToolTypes
  <1> QED
    BY <1>1, <1>2, <1>3, <1>4, <1>5 DEF Types

-----------------------------------------------------------------------------
(* Downloads *)

\* A request that only moves.
LEMMA OnlyMoves ==
    ASSUME ArtifactAssumption, Types, NEW s \in Sessions, NEW w \in Session, Goto(s, w),
           w.locked => s \in Gets, w.at \in {"resolve", "local", "advisory"} => s \in Gets,
           w.at # "link", LockTypes',
           UNCHANGED <<text, bytes, linked, old, row, tool>>
    PROVE  Types' /\ work'[s] = w /\ \A t \in Sessions \ {s} : work'[t] = work[t]
  <1>1. WorkTypes' /\ work'[s] = w /\ \A t \in Sessions \ {s} : work'[t] = work[t]
    BY GotoWrites DEF Types
  <1>2. Downloading' /\ LinksAHash'
    BY <1>1, MoveKeeps DEF Types
  <1>3. FileTypes' /\ RowTypes' /\ ToolTypes'
    BY DEF Types, FileTypes, RowTypes, ToolTypes
  <1> QED
    BY <1>1, <1>2, <1>3 DEF Types

LEMMA OnlyMovesAt ==
    ASSUME ArtifactAssumption, Types, NEW s \in Sessions, NEW place \in Places, At(s, place),
           place \notin {"resolve", "link"}, place \in {"local", "advisory"} => s \in Gets,
           LockTypes', UNCHANGED <<text, bytes, linked, old, row, tool>>
    PROVE  /\ Types' /\ work'[s].at = place /\ work'[s].locked = work[s].locked
           /\ \A t \in Sessions \ {s} : work'[t] = work[t]
  <1>1. /\ WorkTypes' /\ work'[s].at = place /\ work'[s].locked = work[s].locked
        /\ \A t \in Sessions \ {s} : work'[t] = work[t]
    BY AtWrites DEF Types
  <1>2. Downloading' /\ LinksAHash'
    BY <1>1, MoveKeeps DEF Types, Downloading
  <1>3. FileTypes' /\ RowTypes' /\ ToolTypes'
    BY DEF Types, FileTypes, RowTypes, ToolTypes
  <1> QED
    BY <1>1, <1>2, <1>3 DEF Types

LEMMA LookKeeps ==
    ASSUME ArtifactAssumption, Types, NEW s \in Sessions, Look(s)
    PROVE  /\ Types' /\ work[s].at = "idle" /\ work'[s].at \in {"open", "resolve", "done"}
           /\ work'[s].at = "open" => row = NoRow
           /\ work'[s].locked = work[s].locked
           /\ \A t \in Sessions \ {s} : work'[t] = work[t]
  <1>1. /\ s \in Gets /\ work[s].at = "idle"
        /\ UNCHANGED <<text, bytes, linked, old, row, rowLock, held, advisory, tool>>
    BY DEF Look, files, locks
  <1>2. LockTypes'
    BY <1>1 DEF Types, LockTypes
  <1> DEFINE w == CASE row = NoRow      -> [work[s] EXCEPT !.at = "open", !.text = text]
                    [] row.is = "good"  -> [work[s] EXCEPT !.at = "resolve", !.sha = row.sha]
                    [] OTHER            -> [work[s] EXCEPT !.at = "done"]
  <1>3. Goto(s, w)
    BY DEF Look
  <1> HIDE DEF w
  <1>4. /\ w \in Session /\ w.at \in {"open", "resolve", "done"} /\ w.locked = work[s].locked
        /\ w.at = "open" => row = NoRow
    <2>1. CASE row = NoRow
      <3>0. ~(row.is = "good")
        BY <2>1 DEF NoRow
      <3>1. w = [work[s] EXCEPT !.at = "open", !.text = text]
        BY <2>1, <3>0 DEF w
      <3>2. work[s] \in Session /\ text \in Texts
        BY DEF Types, WorkTypes, FileTypes
      <3> QED
        BY <2>1, <3>1, <3>2 DEF Session, Places
    <2>2. CASE row # NoRow /\ row.is = "good"
      <3>1. w = [work[s] EXCEPT !.at = "resolve", !.sha = row.sha]
        BY <2>2 DEF w
      <3>2. work[s] \in Session /\ row.sha \in Contents \cup {None}
        BY DEF Types, WorkTypes, RowTypes
      <3> QED
        BY <3>1, <3>2 DEF Session, Places
    <2>3. CASE row # NoRow /\ row.is # "good"
      <3>0. ~(row = NoRow) /\ ~(row.is = "good")
        BY <2>3
      <3>1. w = [work[s] EXCEPT !.at = "done"]
        BY <2>3, <3>0 DEF w
      <3>2. work[s] \in Session
        BY DEF Types, WorkTypes
      <3> QED
        BY <3>1, <3>2 DEF Session, Places
    <2> QED
      BY <2>1, <2>2, <2>3
  <1>5. Types' /\ work'[s] = w /\ \A t \in Sessions \ {s} : work'[t] = work[t]
    BY <1>1, <1>2, <1>3, <1>4, OnlyMoves
  <1> QED
    BY <1>1, <1>4, <1>5

LEMMA ResolveKeeps ==
    ASSUME ArtifactAssumption, Types, NEW s \in Sessions, Resolve(s)
    PROVE  /\ Types' /\ work[s].at = "resolve" /\ work'[s].at \in {"local", "serve"}
           /\ work'[s].locked = work[s].locked
           /\ \A t \in Sessions \ {s} : work'[t] = work[t]
  <1> DEFINE path == Resolved(work[s].sha)
             w == [work[s] EXCEPT !.at = IF path = None THEN "local" ELSE "serve", !.path = path]
  <1>1. /\ work[s].at = "resolve" /\ Goto(s, w)
        /\ UNCHANGED <<text, bytes, linked, old, row, rowLock, held, advisory, tool>>
    BY DEF Resolve, files, locks
  <1>2. LockTypes' /\ s \in Gets
    BY <1>1 DEF Types, LockTypes, Downloading
  <1>3. path \in Names \cup {None}
    BY ResolvedIsAName DEF Types, WorkTypes, Session
  <1> HIDE DEF path
  <1>4. w \in Session /\ w.at \in {"local", "serve"} /\ w.locked = work[s].locked
    BY <1>3 DEF Types, WorkTypes, Session, Places
  <1> HIDE DEF w
  <1>5. Types' /\ work'[s] = w /\ \A t \in Sessions \ {s} : work'[t] = work[t]
    BY <1>1, <1>2, <1>4, OnlyMoves
  <1> QED
    BY <1>1, <1>4, <1>5

LEMMA TryLocalKeeps ==
    ASSUME ArtifactAssumption, Types, NEW s \in Sessions, TryLocal(s)
    PROVE  /\ Types' /\ work[s].at = "local" /\ work'[s].at \in {"done", "advisory"}
           /\ work'[s].locked = work[s].locked
           /\ \A t \in Sessions \ {s} : work'[t] = work[t]
  <1>1. /\ work[s].at = "local" /\ {"done", "advisory"} \subseteq Places
        /\ UNCHANGED <<text, bytes, linked, old, row, rowLock, advisory, tool>>
    BY DEF TryLocal, files, Places
  <1>2. s \in Gets
    BY <1>1 DEF Types, Downloading
  <1>3. LockTypes' /\ (At(s, "done") \/ At(s, "advisory"))
    BY <1>1, <1>2 DEF TryLocal, Types, LockTypes
  <1>4. CASE At(s, "done")
    BY <1>1, <1>3, <1>4, OnlyMovesAt
  <1>5. CASE At(s, "advisory")
    BY <1>1, <1>2, <1>3, <1>5, OnlyMovesAt
  <1> QED
    BY <1>3, <1>4, <1>5

LEMMA TryAdvisoryKeeps ==
    ASSUME ArtifactAssumption, Types, NEW s \in Sessions, TryAdvisory(s)
    PROVE  /\ Types' /\ work[s].at = "advisory"
           /\ \/ work'[s].at = "done" /\ work'[s].locked = work[s].locked /\ advisory' = advisory
              \/ /\ work'[s].at = "open" /\ (Postgres => advisory = None /\ advisory' = s)
           /\ \A t \in Sessions \ {s} : work'[t] = work[t]
  <1>1. /\ work[s].at = "advisory" /\ {"done", "open"} \subseteq Places
        /\ UNCHANGED <<text, bytes, linked, old, row, rowLock, tool>>
    BY DEF TryAdvisory, files, Places
  <1>2. s \in Gets
    BY <1>1 DEF Types, Downloading
  <1>3. CASE Postgres /\ advisory # None
    <2>1. At(s, "done") /\ held' = [held EXCEPT ![Home[s]] = None] /\ advisory' = advisory
      BY <1>3 DEF TryAdvisory
    <2>2. LockTypes'
      BY <1>1, <2>1 DEF Types, LockTypes
    <2>3. /\ Types' /\ work'[s].at = "done" /\ work'[s].locked = work[s].locked
          /\ \A t \in Sessions \ {s} : work'[t] = work[t]
      BY <1>1, <2>1, <2>2, OnlyMovesAt
    <2> QED
      BY <1>1, <2>1, <2>3
  <1>4. CASE ~(Postgres /\ advisory # None)
    <2> DEFINE w == [work[s] EXCEPT !.at = "open", !.text = text, !.locked = TRUE]
    <2>1. Goto(s, w) /\ held' = held /\ advisory' = IF Postgres THEN s ELSE advisory
      BY <1>4 DEF TryAdvisory
    <2>2. LockTypes'
      BY <1>1, <1>2, <2>1 DEF Types, LockTypes
    <2>3. w \in Session /\ w.at = "open"
      BY DEF Types, WorkTypes, FileTypes, Session, Places
    <2> HIDE DEF w
    <2>4. Types' /\ work'[s] = w /\ \A t \in Sessions \ {s} : work'[t] = work[t]
      BY <1>1, <1>2, <2>1, <2>2, <2>3, OnlyMoves
    <2> QED
      BY <1>1, <1>4, <2>1, <2>3, <2>4
  <1> QED
    BY <1>3, <1>4

LEMMA ReleaseKeeps ==
    ASSUME ArtifactAssumption, Types, NEW s \in Sessions, Release(s)
    PROVE  /\ Types' /\ work[s].at = "release" /\ work'[s].at \in {"end", "serve"}
           /\ work'[s].locked = work[s].locked
           /\ \A t \in Sessions \ {s} : work'[t] = work[t]
  <1> DEFINE sha == IF work[s].found THEN work[s].sha ELSE work[s].digest
             path == Resolved(sha)
             w == [work[s] EXCEPT !.at = IF path = None THEN "end" ELSE "serve", !.path = path]
  <1>1. /\ work[s].at = "release" /\ Goto(s, w) /\ LeaveLocal(s)
        /\ UNCHANGED <<text, bytes, linked, old, row, rowLock, advisory, tool>>
    BY DEF Release, files
  <1>2. LockTypes'
    BY <1>1, LeaveLocalKeeps DEF Types, LockTypes
  <1>3. sha \in Contents \cup {None}
    BY DEF Types, WorkTypes, Session
  <1> HIDE DEF sha
  <1>4. path \in Names \cup {None}
    BY <1>3, ResolvedIsAName DEF Types
  <1> HIDE DEF path
  <1>5. w \in Session /\ w.at \in {"end", "serve"} /\ w.locked = work[s].locked
    BY <1>4 DEF Types, WorkTypes, Session, Places
  <1>6. w.locked => s \in Gets
    BY <1>5 DEF Types, Downloading
  <1> HIDE DEF w
  <1>7. Types' /\ work'[s] = w /\ \A t \in Sessions \ {s} : work'[t] = work[t]
    BY <1>1, <1>2, <1>5, <1>6, OnlyMoves
  <1> QED
    BY <1>1, <1>5, <1>7

LEMMA ServeKeeps ==
    ASSUME ArtifactAssumption, Types, NEW s \in Sessions, Serve(s)
    PROVE  /\ Types' /\ work[s].at = "serve" /\ work'[s].at = "end"
           /\ work'[s].locked = work[s].locked
           /\ \A t \in Sessions \ {s} : work'[t] = work[t]
  <1>1. /\ work[s].at = "serve" /\ At(s, "end") /\ "end" \in Places
        /\ UNCHANGED <<text, bytes, linked, old, row, rowLock, held, advisory, tool>>
    BY DEF Serve, files, locks, Places
  <1>2. LockTypes'
    BY <1>1 DEF Types, LockTypes
  <1> QED
    BY <1>1, <1>2, OnlyMovesAt

LEMMA EndKeeps ==
    ASSUME ArtifactAssumption, Types, NEW s \in Sessions, End(s)
    PROVE  /\ Types' /\ work[s].at = "end" /\ work'[s].at = "done"
           /\ work'[s].locked = work[s].locked
           /\ \A t \in Sessions \ {s} : work'[t] = work[t]
  <1>1. /\ work[s].at = "end" /\ At(s, "done") /\ "done" \in Places
        /\ UNCHANGED <<text, bytes, linked, old, row, held, tool>>
    BY DEF End, files, Places
  <1>2. LockTypes'
    BY <1>1 DEF End, Types, LockTypes
  <1> QED
    BY <1>1, <1>2, OnlyMovesAt

-----------------------------------------------------------------------------
(* Scripts and the world around *)

\* A step of no request.
LEMMA NoRequestMoves ==
    ASSUME Types, UNCHANGED work, FileTypes', RowTypes', LockTypes', ToolTypes'
    PROVE  Types'
  BY DEF Types, WorkTypes, Downloading, LinksAHash

LEMMA UseWrites ==
    ASSUME ToolTypes, NEW t \in Tools, NEW place \in {"idle", "hash", "apply", "done"},
           NEW seen \in SUBSET (Contents \cup {None}), Use(t, place, seen)
    PROVE  /\ ToolTypes' /\ tool'[t].at = place /\ tool'[t].seen = seen
           /\ \A u \in Tools \ {t} : tool'[u] = tool[u]
  <1> DEFINE x == [at |-> place, seen |-> seen]
  <1>1. tool' = [tool EXCEPT ![t] = x] /\ x.at = place /\ x.seen = seen
    BY DEF Use
  <1>2. x \in [at : {"idle", "hash", "apply", "done"}, seen : SUBSET (Contents \cup {None})]
    OBVIOUS
  <1> HIDE DEF x
  <1>3. tool'[t] = x /\ \A u \in Tools \ {t} : tool'[u] = tool[u]
    BY <1>1 DEF ToolTypes
  <1>4. ToolTypes'
    BY <1>1, <1>2 DEF ToolTypes
  <1> QED
    BY <1>1, <1>3, <1>4

LEMMA ScanKeeps ==
    ASSUME ArtifactAssumption, Types, NEW t \in Tools, Scan(t)
    PROVE  /\ Types' /\ tool[t].at = "idle" /\ \A u \in Tools \ {t} : tool'[u] = tool[u]
           /\ \/ t # "reap" /\ tool'[t].at = "hash" /\ row.is = "good"
              \/ t = "reap" /\ tool'[t].at = "apply"
  <1>1. /\ tool[t].at = "idle"
        /\ UNCHANGED <<text, bytes, linked, old, row, rowLock, held, advisory, work>>
    BY DEF Scan, files, locks
  <1>2. FileTypes' /\ RowTypes' /\ LockTypes'
    BY <1>1 DEF Types, FileTypes, RowTypes, LockTypes
  <1>3. t \in {"verify", "materialize", "backfill", "reap"}
    BY DEF ArtifactAssumption
  <1>4. \/ t # "reap" /\ row.is = "good" /\ (Use(t, "hash", {row.sha}) \/ Use(t, "hash", {}))
        \/ t = "reap" /\ Use(t, "apply", {b \in old \ {"file"} : row.is # "good" \/ row.sha # b})
    BY <1>3 DEF Scan
  <1>5. {row.sha} \in SUBSET (Contents \cup {None}) /\ {} \in SUBSET (Contents \cup {None})
    BY DEF Types, RowTypes
  <1>6. CASE t # "reap" /\ row.is = "good" /\ (Use(t, "hash", {row.sha}) \/ Use(t, "hash", {}))
    <2>1. ToolTypes' /\ tool'[t].at = "hash" /\ \A u \in Tools \ {t} : tool'[u] = tool[u]
      BY <1>5, <1>6, UseWrites DEF Types
    <2> QED
      BY <1>1, <1>2, <1>6, <2>1, NoRequestMoves
  <1>7. CASE t = "reap" /\ Use(t, "apply", {b \in old \ {"file"} : row.is # "good" \/ row.sha # b})
    <2> DEFINE seen == {b \in old \ {"file"} : row.is # "good" \/ row.sha # b}
    <2>1. seen \in SUBSET (Contents \cup {None})
      BY Data DEF Types, FileTypes
    <2>2. Use(t, "apply", seen)
      BY <1>7
    <2> HIDE DEF seen
    <2>3. ToolTypes' /\ tool'[t].at = "apply" /\ \A u \in Tools \ {t} : tool'[u] = tool[u]
      BY <2>1, <2>2, UseWrites DEF Types
    <2> QED
      BY <1>1, <1>2, <1>7, <2>3, NoRequestMoves
  <1> QED
    BY <1>4, <1>6, <1>7

LEMMA HashKeeps ==
    ASSUME ArtifactAssumption, Types, NEW t \in Tools, Hash(t)
    PROVE  /\ Types' /\ tool[t].at = "hash" /\ tool'[t].at \in {"apply", "done"}
           /\ None \in tool'[t].seen => bytes["file"] = None
           /\ \A u \in Tools \ {t} : tool'[u] = tool[u]
  <1>1. /\ tool[t].at = "hash"
        /\ UNCHANGED <<text, bytes, linked, old, row, rowLock, held, advisory, work>>
    BY DEF Hash, files, locks
  <1>2. FileTypes' /\ RowTypes' /\ LockTypes' /\ bytes["file"] \in Contents \cup {None}
    BY <1>1, Data DEF Types, FileTypes, RowTypes, LockTypes
  <1>3. \/ bytes["file"] = None /\ Use(t, "apply", {None})
        \/ Use(t, "done", {})
        \/ bytes["file"] # None /\ Use(t, "apply", {bytes["file"]})
    BY DEF Hash
  <1>4. CASE bytes["file"] = None /\ Use(t, "apply", {None})
    <2>1. /\ ToolTypes' /\ tool'[t].at = "apply" /\ \A u \in Tools \ {t} : tool'[u] = tool[u]
      BY <1>4, UseWrites DEF Types
    <2> QED
      BY <1>1, <1>2, <1>4, <2>1, NoRequestMoves
  <1>5. CASE Use(t, "done", {})
    <2>1. /\ ToolTypes' /\ tool'[t].at = "done" /\ tool'[t].seen = {}
          /\ \A u \in Tools \ {t} : tool'[u] = tool[u]
      BY <1>5, UseWrites DEF Types
    <2> QED
      BY <1>1, <1>2, <2>1, NoRequestMoves
  <1>6. CASE bytes["file"] # None /\ Use(t, "apply", {bytes["file"]})
    <2>1. /\ ToolTypes' /\ tool'[t].at = "apply" /\ tool'[t].seen = {bytes["file"]}
          /\ \A u \in Tools \ {t} : tool'[u] = tool[u]
      BY <1>2, <1>6, UseWrites DEF Types
    <2> QED
      BY <1>1, <1>2, <1>6, <2>1, NoRequestMoves
  <1> QED
    BY <1>3, <1>4, <1>5, <1>6

LEMMA ApplyToRowKeeps ==
    ASSUME ArtifactAssumption, Types, NEW t \in Tools, ApplyToRow(t)
    PROVE  /\ Types' /\ t \in {"verify", "backfill"} /\ tool[t].at = "apply"
           /\ tool'[t].at = "done" /\ \A u \in Tools \ {t} : tool'[u] = tool[u]
           /\ \/ row'.is = "missing" /\ None \in tool[t].seen
              \/ row'.is = row.is
              \/ row.is = "good" /\ row'.is = "content_drift"
           /\ t = "verify" => row'.sha = row.sha
  <1>1. /\ t \in {"verify", "backfill"} /\ tool[t].at = "apply" /\ Use(t, "done", {})
        /\ UNCHANGED <<text, bytes, linked, old, rowLock, held, advisory, work>>
    BY DEF ApplyToRow, files, locks
  <1>2. PICK sha \in tool[t].seen :
            row' = IF sha = None THEN Marked("missing")
                   ELSE IF t = "verify" THEN Marked("content_drift") ELSE [row EXCEPT !.sha = sha]
    BY DEF ApplyToRow
  <1>3. sha \in Contents \cup {None}
    BY DEF Types, ToolTypes
  <1>4. ToolTypes' /\ tool'[t].at = "done" /\ \A u \in Tools \ {t} : tool'[u] = tool[u]
    BY <1>1, UseWrites DEF Types
  <1>5. FileTypes' /\ LockTypes'
    BY <1>1 DEF Types, FileTypes, LockTypes
  <1>6. \A reason \in {"missing", "content_drift"} :
            /\ Marked(reason) \in [sha : Contents \cup {None},
                                    is : {"absent", "good", "content_drift", "missing"}]
            /\ Marked(reason).sha = row.sha
            /\ Marked(reason).is = row.is \/ (row.is = "good" /\ Marked(reason).is = reason)
    BY DEF Marked, Types, RowTypes
  <1>7. \/ sha = None /\ row' = Marked("missing")
        \/ t = "verify" /\ row' = Marked("content_drift")
        \/ t = "backfill" /\ row' = [row EXCEPT !.sha = sha]
    BY <1>1, <1>2
  <1>8. CASE sha = None /\ row' = Marked("missing")
    <2>1. RowTypes' /\ row'.sha = row.sha /\ (row'.is = row.is \/ row'.is = "missing")
      BY <1>6, <1>8 DEF RowTypes
    <2> QED
      BY <1>1, <1>4, <1>5, <1>8, <2>1, NoRequestMoves
  <1>9. CASE t = "verify" /\ row' = Marked("content_drift")
    <2>1. /\ RowTypes' /\ row'.sha = row.sha
          /\ row'.is = row.is \/ (row.is = "good" /\ row'.is = "content_drift")
      BY <1>6, <1>9 DEF RowTypes
    <2> QED
      BY <1>1, <1>4, <1>5, <2>1, NoRequestMoves
  <1>10. CASE t = "backfill" /\ row' = [row EXCEPT !.sha = sha]
    <2>1. RowTypes' /\ row'.is = row.is
      BY <1>3, <1>10 DEF Types, RowTypes
    <2> QED
      BY <1>1, <1>4, <1>5, <1>10, <2>1, NoRequestMoves
  <1> QED
    BY <1>7, <1>8, <1>9, <1>10

LEMMA MaterializeBlobKeeps ==
    ASSUME ArtifactAssumption, Types, MaterializeBlob
    PROVE  /\ Types' /\ bytes'["file"] = bytes["file"]
           /\ tool'["materialize"].at = "done"
           /\ \A u \in Tools \ {"materialize"} : tool'[u] = tool[u]
  <1>1. /\ "materialize" \in Tools /\ Use("materialize", "done", {})
        /\ UNCHANGED <<text, row, rowLock, held, advisory, work>>
    BY DEF MaterializeBlob, locks
  <1>2. PICK sha \in tool["materialize"].seen :
            IF sha = None THEN UNCHANGED files ELSE Materialize(sha)
    BY DEF MaterializeBlob
  <1>3. sha \in Contents \cup {None}
    BY <1>1 DEF Types, ToolTypes
  <1>4. FileTypes' /\ bytes'["file"] = bytes["file"]
    <2>1. CASE sha = None
      <3>1. UNCHANGED <<text, bytes, linked, old>>
        BY <1>1, <1>2, <2>1 DEF files
      <3> QED
        BY <3>1 DEF Types, FileTypes
    <2>2. CASE sha # None
      BY <1>1, <1>2, <1>3, <2>2, MaterializeAdds DEF Types
    <2> QED
      BY <2>1, <2>2
  <1>5. /\ ToolTypes' /\ tool'["materialize"].at = "done"
        /\ \A u \in Tools \ {"materialize"} : tool'[u] = tool[u]
    BY <1>1, UseWrites DEF Types
  <1>6. RowTypes' /\ LockTypes'
    BY <1>1 DEF Types, RowTypes, LockTypes
  <1> QED
    BY <1>1, <1>4, <1>5, <1>6, NoRequestMoves

LEMMA ReapKeeps ==
    ASSUME ArtifactAssumption, Types, Reap
    PROVE  /\ Types' /\ bytes'["file"] = bytes["file"]
           /\ tool'["reap"].at = "done" /\ \A u \in Tools \ {"reap"} : tool'[u] = tool[u]
  <1> DEFINE seen == tool["reap"].seen
  <1>1. /\ "reap" \in Tools /\ Use("reap", "done", {})
        /\ bytes' = [n \in Names |-> IF n \in seen THEN None ELSE bytes[n]]
        /\ linked' = linked \ seen /\ old' = old \ seen
        /\ UNCHANGED <<text, row, rowLock, held, advisory, work>>
    BY DEF Reap, locks
  <1>2. seen \subseteq Contents \cup {None}
    BY <1>1 DEF Types, ToolTypes
  <1> HIDE DEF seen
  <1>3. "file" \in Names /\ "file" \notin seen /\ linked \subseteq Names
    BY <1>2, Data DEF Types, FileTypes
  <1>4. bytes' \in [Names -> Contents \cup {None}]
    BY <1>1 DEF Types, FileTypes
  <1>5. bytes'["file"] = bytes["file"] /\ \A n \in linked' : bytes'[n] = bytes[n]
    BY <1>1, <1>3
  <1>6. FileTypes'
    BY <1>1, <1>4, <1>5 DEF Types, FileTypes
  <1>7. /\ ToolTypes' /\ tool'["reap"].at = "done"
        /\ \A u \in Tools \ {"reap"} : tool'[u] = tool[u]
    BY <1>1, UseWrites DEF Types
  <1>8. RowTypes' /\ LockTypes'
    BY <1>1 DEF Types, RowTypes, LockTypes
  <1> QED
    BY <1>1, <1>5, <1>6, <1>7, <1>8, NoRequestMoves

LEMMA WorldKeeps ==
    ASSUME ArtifactAssumption, Types, Edit \/ Age \/ Lose \/ UNCHANGED vars
    PROVE  /\ Types' /\ UNCHANGED <<row, rowLock, advisory, work, tool>>
           /\ \/ bytes'["file"] = bytes["file"] /\ losses' = losses
              \/ losses' = losses + 1 /\ losses < MaxLosses
  <1>1. UNCHANGED <<row, rowLock, held, advisory, work, tool>>
    BY DEF Edit, Age, Lose, locks, vars
  <1>2. RowTypes' /\ LockTypes' /\ ToolTypes'
    BY <1>1 DEF Types, RowTypes, LockTypes, ToolTypes
  <1>3. CASE Edit
    <2>1. UNCHANGED <<bytes, linked, old, losses>> /\ text' \in Texts
      BY <1>3 DEF Edit, files
    <2>2. FileTypes'
      BY <2>1 DEF Types, FileTypes
    <2> QED
      BY <1>1, <1>2, <2>1, <2>2, NoRequestMoves
  <1>4. CASE Age
    <2>1. UNCHANGED <<text, bytes, linked, losses>> /\ old' \subseteq Names
      BY <1>4 DEF Age
    <2>2. FileTypes'
      BY <2>1 DEF Types, FileTypes
    <2> QED
      BY <1>1, <1>2, <2>1, <2>2, NoRequestMoves
  <1>5. CASE Lose
    <2>1. /\ bytes' = [bytes EXCEPT !["file"] = None] /\ linked' = {} /\ old' = old \ {"file"}
          /\ text' = text /\ losses' = losses + 1 /\ losses < MaxLosses
      BY <1>5 DEF Lose
    <2>2. FileTypes'
      BY <2>1 DEF Types, FileTypes
    <2> QED
      BY <1>1, <1>2, <2>1, <2>2, NoRequestMoves
  <1>6. CASE UNCHANGED vars
    <2>1. UNCHANGED <<text, bytes, linked, old, losses>>
      BY <1>6 DEF vars, files
    <2>2. FileTypes'
      BY <2>1 DEF Types, FileTypes
    <2> QED
      BY <1>1, <1>2, <2>1, <2>2, NoRequestMoves
  <1> QED
    BY <1>3, <1>4, <1>5, <1>6

LEMMA RequestKeeps ==
    ASSUME ArtifactAssumption, Types, NEW s \in Sessions, Request(s)
    PROVE  Types'
  BY BeginKeeps, LookKeeps, ResolveKeeps, TryLocalKeeps, TryAdvisoryKeeps, OpenKeeps, WriteKeeps,
     FlushKeeps, DigestKeeps, LinkKeeps, CommitKeeps, ReleaseKeeps, ServeKeeps, EndKeeps DEF Request

\* The steps there are.
LEMMA Steps ==
    ASSUME [Next]_vars
    PROVE  \/ \E s \in Sessions : Request(s)
           \/ \E t \in Tools : Scan(t) \/ Hash(t) \/ ApplyToRow(t)
           \/ MaterializeBlob \/ Reap
           \/ Edit \/ Age \/ Lose \/ UNCHANGED vars
  BY DEF Next, Stop

LEMMA StepTypes ==
    ASSUME ArtifactAssumption, Types, [Next]_vars
    PROVE  Types'
  <1>1. ASSUME NEW s \in Sessions, Request(s)
        PROVE  Types'
    BY <1>1, RequestKeeps
  <1>2. ASSUME NEW t \in Tools, Scan(t) \/ Hash(t) \/ ApplyToRow(t)
        PROVE  Types'
    BY <1>2, ScanKeeps, HashKeeps, ApplyToRowKeeps
  <1>3. CASE MaterializeBlob \/ Reap
    BY <1>3, MaterializeBlobKeeps, ReapKeeps
  <1>4. CASE Edit \/ Age \/ Lose \/ UNCHANGED vars
    BY <1>4, WorldKeeps
  <1> QED
    BY <1>1, <1>2, <1>3, <1>4, Steps

LEMMA InitTypes ==
    ASSUME ArtifactAssumption, Init
    PROVE  /\ Types /\ \A s \in Sessions : work[s].at = "idle" /\ ~work[s].locked
           /\ \A t \in Tools : tool[t].at = "idle" /\ tool[t].seen = {}
           /\ row = (IF Exported THEN [sha |-> None, is |-> "good"] ELSE NoRow)
           /\ bytes["file"] = (IF Exported THEN First ELSE None)
  <1>0. First \in Texts /\ First \in Contents /\ None \notin Contents
    BY Data DEF ArtifactAssumption
  <1>1. /\ WorkTypes /\ \A s \in Sessions : work[s].at = "idle" /\ ~work[s].locked
    BY <1>0 DEF Init, WorkTypes, Session, Places
  <1>2. FileTypes /\ bytes["file"] = (IF Exported THEN First ELSE None)
    BY <1>0, Data DEF Init, FileTypes
  <1>3. RowTypes /\ row = (IF Exported THEN [sha |-> None, is |-> "good"] ELSE NoRow)
    BY DEF Init, RowTypes, NoRow
  <1>4. LockTypes
    BY DEF Init, LockTypes
  <1>5. ToolTypes /\ \A t \in Tools : tool[t].at = "idle" /\ tool[t].seen = {}
    BY DEF Init, ToolTypes
  <1> QED
    BY <1>1, <1>2, <1>3, <1>4, <1>5 DEF Types, Downloading, LinksAHash

\* Types of the variables, for the constants the model assumes: in all that the
\* requests, scripts and losses do, the blobs that are links of the file have
\* its bytes.
THEOREM ArtifactsTypeCorrect == ASSUME ArtifactAssumption PROVE Spec => []TypeOK
  <1>1. Init => Types
    BY InitTypes
  <1>2. Types /\ [Next]_vars => Types'
    BY StepTypes
  <1>3. Types => TypeOK
    <2> SUFFICES ASSUME Types PROVE TypeOK
      OBVIOUS
    <2>1. \A s \in Sessions : work[s].path \in Names \cup {None}
      BY DEF Types, WorkTypes, Session
    <2> QED
      BY <2>1 DEF Types, TypeOK, FileTypes, RowTypes, LockTypes
  <1> QED
    BY <1>1, <1>2, <1>3, PTL DEF Spec

-----------------------------------------------------------------------------
(* One rebuild at a time *)

\* A download that rebuilds has the advisory lock, from the moment it begins
\* until its transaction has ended.
Locking ==
    \A s \in Sessions :
        work[s].locked /\ work[s].at # "done" =>
            /\ work[s].at \notin {"idle", "resolve", "local", "advisory"}
            /\ advisory = s

RebuildInv == Types /\ Locking

\* A request moves on and leaves the advisory lock alone.
LEMMA LockingMoves ==
    ASSUME RebuildInv, NEW s \in Sessions, \A t \in Sessions \ {s} : work'[t] = work[t],
           work'[s].locked = work[s].locked, work[s].at # "done",
           \/ work[s].at \in {"idle", "resolve", "local", "advisory"}
           \/ work'[s].at \notin {"idle", "resolve", "local", "advisory"},
           advisory' = advisory
    PROVE  Locking'
  BY DEF RebuildInv, Locking

LEMMA RequestLocking ==
    ASSUME ArtifactAssumption, Postgres, RebuildInv, NEW s \in Sessions, Request(s)
    PROVE  Locking'
  <1> USE DEF RebuildInv
  <1>1. CASE Begin(s)
    <2>1. advisory' = advisory /\ work[s].at = "idle"
      BY <1>1 DEF Begin, locks
    <2> QED
      BY <1>1, <2>1, BeginKeeps, LockingMoves
  <1>2. CASE Look(s)
    <2>1. advisory' = advisory
      BY <1>2 DEF Look, locks
    <2> QED
      BY <1>2, <2>1, LookKeeps, LockingMoves
  <1>3. CASE Resolve(s)
    <2>1. advisory' = advisory
      BY <1>3 DEF Resolve, locks
    <2> QED
      BY <1>3, <2>1, ResolveKeeps, LockingMoves
  <1>4. CASE TryLocal(s)
    <2>1. advisory' = advisory
      BY <1>4 DEF TryLocal
    <2> QED
      BY <1>4, <2>1, TryLocalKeeps, LockingMoves
  <1>5. CASE TryAdvisory(s)
    <2>1. CASE work'[s].at = "done" /\ advisory' = advisory
      BY <1>5, <2>1, TryAdvisoryKeeps DEF Locking
    <2>2. CASE work'[s].at = "open" /\ advisory = None /\ advisory' = s
      BY <1>5, <2>2, TryAdvisoryKeeps, Data DEF Locking
    <2> QED
      BY <1>5, <2>1, <2>2, TryAdvisoryKeeps
  <1>6. CASE Open(s)
    <2>1. advisory' = advisory
      BY <1>6 DEF Open, locks
    <2> QED
      BY <1>6, <2>1, OpenKeeps, LockingMoves
  <1>7. CASE Write(s)
    <2>1. advisory' = advisory
      BY <1>7 DEF Write, locks
    <2> QED
      BY <1>7, <2>1, WriteKeeps, LockingMoves
  <1>8. CASE Flush(s)
    <2>1. CASE ~work[s].found /\ row # NoRow
      <3>1. work'[s].at = "done" /\ (advisory' = IF advisory = s THEN None ELSE advisory)
        BY <1>8, <2>1, FlushKeeps
      <3> QED
        BY <1>8, <3>1, FlushKeeps DEF Locking
    <2>2. CASE ~(~work[s].found /\ row # NoRow)
      <3>1. work'[s].at \in {"commit", "digest"} /\ advisory' = advisory
        BY <1>8, <2>2, FlushKeeps
      <3> QED
        BY <1>8, <3>1, FlushKeeps, LockingMoves
    <2> QED
      BY <2>1, <2>2
  <1>9. CASE Digest(s)
    <2>1. advisory' = advisory
      BY <1>9 DEF Digest, locks
    <2> QED
      BY <1>9, <2>1, DigestKeeps, LockingMoves
  <1>10. CASE Link(s)
    <2>1. advisory' = advisory /\ AfterStamp(s) \in {"release", "commit"}
      BY <1>10 DEF Link, locks, AfterStamp
    <2> QED
      BY <1>10, <2>1, LinkKeeps, LockingMoves
  <1>11. CASE Commit(s)
    <2>1. advisory' = advisory
      BY <1>11 DEF Commit
    <2> QED
      BY <1>11, <2>1, CommitKeeps, LockingMoves
  <1>12. CASE Release(s)
    <2>1. advisory' = advisory
      BY <1>12 DEF Release
    <2> QED
      BY <1>12, <2>1, ReleaseKeeps, LockingMoves
  <1>13. CASE Serve(s)
    <2>1. advisory' = advisory
      BY <1>13 DEF Serve, locks
    <2> QED
      BY <1>13, <2>1, ServeKeeps, LockingMoves
  <1>14. CASE End(s)
    <2>1. advisory' = IF advisory = s THEN None ELSE advisory
      BY <1>14 DEF End
    <2> QED
      BY <1>14, <2>1, EndKeeps DEF Locking
  <1> QED
    BY <1>1, <1>2, <1>3, <1>4, <1>5, <1>6, <1>7, <1>8, <1>9, <1>10, <1>11, <1>12, <1>13, <1>14
    DEF Request

LEMMA StepRebuild ==
    ASSUME ArtifactAssumption, Postgres, RebuildInv, [Next]_vars
    PROVE  RebuildInv'
  <1>1. Types'
    BY StepTypes DEF RebuildInv
  <1>2. CASE \E s \in Sessions : Request(s)
    BY <1>1, <1>2, RequestLocking DEF RebuildInv
  <1>3. CASE UNCHANGED <<work, advisory>>
    BY <1>1, <1>3 DEF RebuildInv, Locking
  <1> QED
    BY <1>2, <1>3, Steps
    DEF Scan, Hash, ApplyToRow, MaterializeBlob, Reap, Edit, Age, Lose, vars, locks

\* Where the database is PostgreSQL, two downloads that find the artifact gone
\* never rebuild it at the same time, however many processes serve them.
THEOREM RebuiltByOne == ASSUME ArtifactAssumption, Postgres PROVE Spec => []OneRebuild
  <1>1. Init => RebuildInv
    BY InitTypes DEF RebuildInv, Locking
  <1>2. RebuildInv /\ [Next]_vars => RebuildInv'
    BY StepRebuild
  <1>3. RebuildInv => OneRebuild
    BY Data DEF RebuildInv, Locking, OneRebuild, Rebuilding
  <1> QED
    BY <1>1, <1>2, <1>3, PTL DEF Spec

-----------------------------------------------------------------------------
(* Missing is lost *)

\* There is a file, or there was one that got lost.
FileThere == bytes["file"] # None \/ losses > 0

\* Who writes an export has made its file, a row has one, a script that is to
\* look for it saw the row, and one that is to report it gone found it gone.
LostInv ==
    /\ Types /\ losses \in Nat
    /\ row.is # "absent" => FileThere
    /\ \A s \in Sessions :
          work[s].at \in {"write", "flush", "digest", "link", "commit"} => FileThere
    /\ \A t \in Tools :
          /\ tool[t].at = "hash" => FileThere
          /\ t # "reap" /\ None \in tool[t].seen /\ tool[t].at = "apply" => losses > 0
    /\ row.is = "missing" => losses > 0

\* A request moves on beside the file; what it commits has one.
LEMMA LostMoves ==
    ASSUME LostInv, Types', NEW s \in Sessions, \A t \in Sessions \ {s} : work'[t] = work[t],
           UNCHANGED <<tool, losses>>,
           bytes'["file"] = bytes["file"] \/ bytes'["file"] # None,
           work'[s].at \in {"write", "flush", "digest", "link", "commit"} =>
               \/ bytes'["file"] # None
               \/ work[s].at \in {"write", "flush", "digest", "link", "commit"},
           \/ row'.is = row.is
           \/ row'.is = "good" /\ work[s].at \in {"write", "flush", "digest", "link", "commit"}
    PROVE  LostInv'
  <1>1. FileThere => FileThere'
    BY DEF FileThere
  <1>2. bytes'["file"] # None => FileThere'
    BY DEF FileThere
  <1> QED
    BY <1>1, <1>2 DEF LostInv

LEMMA RequestLost ==
    ASSUME ArtifactAssumption, LostInv, NEW s \in Sessions, Request(s)
    PROVE  LostInv'
  <1>0. UNCHANGED <<tool, losses>>
    BY DEF Request, Begin, Look, Resolve, TryLocal, TryAdvisory, Open, Write, Flush, Digest, Link,
           Commit, Release, Serve, End
  <1>1. CASE Begin(s)
    <2>1. UNCHANGED <<bytes, row>>
      BY <1>1 DEF Begin, files
    <2>2. Types' /\ work'[s].at = "open" /\ \A t \in Sessions \ {s} : work'[t] = work[t]
      BY <1>1, BeginKeeps DEF LostInv
    <2> QED
      BY <1>0, <2>1, <2>2, LostMoves
  <1>2. CASE Look(s)
    <2>1. UNCHANGED <<bytes, row>>
      BY <1>2 DEF Look, files
    <2>2. Types' /\ work'[s].at \in {"open", "resolve", "done"}
          /\ \A t \in Sessions \ {s} : work'[t] = work[t]
      BY <1>2, LookKeeps DEF LostInv
    <2> QED
      BY <1>0, <2>1, <2>2, LostMoves
  <1>3. CASE Resolve(s)
    <2>1. UNCHANGED <<bytes, row>>
      BY <1>3 DEF Resolve, files
    <2>2. Types' /\ work'[s].at \in {"local", "serve"}
          /\ \A t \in Sessions \ {s} : work'[t] = work[t]
      BY <1>3, ResolveKeeps DEF LostInv
    <2> QED
      BY <1>0, <2>1, <2>2, LostMoves
  <1>4. CASE TryLocal(s)
    <2>1. UNCHANGED <<bytes, row>>
      BY <1>4 DEF TryLocal, files
    <2>2. Types' /\ work'[s].at \in {"done", "advisory"}
          /\ \A t \in Sessions \ {s} : work'[t] = work[t]
      BY <1>4, TryLocalKeeps DEF LostInv
    <2> QED
      BY <1>0, <2>1, <2>2, LostMoves
  <1>5. CASE TryAdvisory(s)
    <2>1. UNCHANGED <<bytes, row>>
      BY <1>5 DEF TryAdvisory, files
    <2>2. Types' /\ work'[s].at \in {"done", "open"}
          /\ \A t \in Sessions \ {s} : work'[t] = work[t]
      BY <1>5, TryAdvisoryKeeps DEF LostInv
    <2> QED
      BY <1>0, <2>1, <2>2, LostMoves
  <1>6. CASE Open(s)
    <2>1. UNCHANGED row
      BY <1>6 DEF Open
    <2>2. Types' /\ bytes'["file"] # None /\ \A t \in Sessions \ {s} : work'[t] = work[t]
      BY <1>6, OpenKeeps DEF LostInv
    <2> QED
      BY <1>0, <2>1, <2>2, LostMoves
  <1>7. CASE Write(s)
    <2>1. UNCHANGED row
      BY <1>7 DEF Write
    <2>2. Types' /\ bytes'["file"] # None /\ \A t \in Sessions \ {s} : work'[t] = work[t]
      BY <1>7, WriteKeeps DEF LostInv
    <2> QED
      BY <1>0, <2>1, <2>2, LostMoves
  <1>8. CASE Flush(s)
    <2>1. UNCHANGED <<bytes, row>>
      BY <1>8 DEF Flush, files
    <2>2. Types' /\ work[s].at = "flush" /\ \A t \in Sessions \ {s} : work'[t] = work[t]
      BY <1>8, FlushKeeps DEF LostInv
    <2> QED
      BY <1>0, <2>1, <2>2, LostMoves
  <1>9. CASE Digest(s)
    <2>1. UNCHANGED <<bytes, row>>
      BY <1>9 DEF Digest, files
    <2>2. Types' /\ work[s].at = "digest" /\ \A t \in Sessions \ {s} : work'[t] = work[t]
      BY <1>9, DigestKeeps DEF LostInv
    <2> QED
      BY <1>0, <2>1, <2>2, LostMoves
  <1>10. CASE Link(s)
    <2>1. UNCHANGED row
      BY <1>10 DEF Link
    <2>2. /\ Types' /\ work[s].at = "link" /\ bytes'["file"] = bytes["file"]
          /\ \A t \in Sessions \ {s} : work'[t] = work[t]
      BY <1>10, LinkKeeps DEF LostInv
    <2> QED
      BY <1>0, <2>1, <2>2, LostMoves
  <1>11. CASE Commit(s)
    <2>1. UNCHANGED bytes
      BY <1>11 DEF Commit, files
    <2>2. /\ Types' /\ work[s].at = "commit" /\ \A t \in Sessions \ {s} : work'[t] = work[t]
          /\ row'.is = row.is \/ row'.is = "good"
      BY <1>11, CommitKeeps DEF LostInv
    <2> QED
      BY <1>0, <2>1, <2>2, LostMoves
  <1>12. CASE Release(s)
    <2>1. UNCHANGED <<bytes, row>>
      BY <1>12 DEF Release, files
    <2>2. Types' /\ work'[s].at \in {"end", "serve"}
          /\ \A t \in Sessions \ {s} : work'[t] = work[t]
      BY <1>12, ReleaseKeeps DEF LostInv
    <2> QED
      BY <1>0, <2>1, <2>2, LostMoves
  <1>13. CASE Serve(s)
    <2>1. UNCHANGED <<bytes, row>>
      BY <1>13 DEF Serve, files
    <2>2. Types' /\ work'[s].at = "end" /\ \A t \in Sessions \ {s} : work'[t] = work[t]
      BY <1>13, ServeKeeps DEF LostInv
    <2> QED
      BY <1>0, <2>1, <2>2, LostMoves
  <1>14. CASE End(s)
    <2>1. UNCHANGED <<bytes, row>>
      BY <1>14 DEF End, files
    <2>2. Types' /\ work'[s].at = "done" /\ \A t \in Sessions \ {s} : work'[t] = work[t]
      BY <1>14, EndKeeps DEF LostInv
    <2> QED
      BY <1>0, <2>1, <2>2, LostMoves
  <1> QED
    BY <1>1, <1>2, <1>3, <1>4, <1>5, <1>6, <1>7, <1>8, <1>9, <1>10, <1>11, <1>12, <1>13, <1>14
    DEF Request

LEMMA ScriptLost ==
    ASSUME ArtifactAssumption, LostInv, NEW t \in Tools, Scan(t) \/ Hash(t) \/ ApplyToRow(t)
    PROVE  LostInv'
  <1>0. UNCHANGED <<bytes, work, losses>> /\ (FileThere => FileThere')
    BY DEF Scan, Hash, ApplyToRow, files, FileThere
  <1>1. CASE Scan(t)
    <2>1. UNCHANGED row
      BY <1>1 DEF Scan
    <2>2. /\ Types' /\ \A u \in Tools \ {t} : tool'[u] = tool[u]
          /\ \/ t # "reap" /\ tool'[t].at = "hash" /\ row.is = "good"
             \/ t = "reap" /\ tool'[t].at = "apply"
      BY <1>1, ScanKeeps DEF LostInv
    <2> QED
      BY <1>0, <2>1, <2>2 DEF LostInv
  <1>2. CASE Hash(t)
    <2>1. UNCHANGED row
      BY <1>2 DEF Hash
    <2>2. /\ Types' /\ tool[t].at = "hash" /\ tool'[t].at \in {"apply", "done"}
          /\ None \in tool'[t].seen => bytes["file"] = None
          /\ \A u \in Tools \ {t} : tool'[u] = tool[u]
      BY <1>2, HashKeeps DEF LostInv
    <2>3. None \in tool'[t].seen => losses > 0
      BY <2>2 DEF LostInv, FileThere
    <2> QED
      BY <1>0, <2>1, <2>2, <2>3 DEF LostInv
  <1>3. CASE ApplyToRow(t)
    <2>1. /\ Types' /\ t # "reap" /\ tool[t].at = "apply" /\ tool'[t].at = "done"
          /\ \A u \in Tools \ {t} : tool'[u] = tool[u]
          /\ \/ row'.is = "missing" /\ None \in tool[t].seen
             \/ row'.is = row.is
             \/ row.is = "good" /\ row'.is = "content_drift"
      BY <1>3, ApplyToRowKeeps DEF LostInv
    <2>2. row'.is = "missing" => losses > 0
      BY <2>1 DEF LostInv
    <2>3. row'.is # "absent" => FileThere
      BY <2>1, <2>2 DEF LostInv, FileThere
    <2> QED
      BY <1>0, <2>1, <2>2, <2>3 DEF LostInv
  <1> QED
    BY <1>1, <1>2, <1>3

LEMMA StepLost ==
    ASSUME ArtifactAssumption, LostInv, [Next]_vars
    PROVE  LostInv'
  <1>1. CASE MaterializeBlob
    <2>1. /\ UNCHANGED <<row, work, losses>> /\ Types' /\ bytes'["file"] = bytes["file"]
          /\ tool'["materialize"].at = "done"
          /\ \A u \in Tools \ {"materialize"} : tool'[u] = tool[u]
      BY <1>1, MaterializeBlobKeeps DEF MaterializeBlob, LostInv
    <2>2. FileThere => FileThere'
      BY <2>1 DEF FileThere
    <2> QED
      BY <2>1, <2>2 DEF LostInv
  <1>2. CASE Reap
    <2>1. /\ UNCHANGED <<row, work, losses>> /\ Types' /\ bytes'["file"] = bytes["file"]
          /\ tool'["reap"].at = "done"
          /\ \A u \in Tools \ {"reap"} : tool'[u] = tool[u]
      BY <1>2, ReapKeeps DEF Reap, LostInv
    <2>2. FileThere => FileThere'
      BY <2>1 DEF FileThere
    <2> QED
      BY <2>1, <2>2 DEF LostInv
  <1>3. CASE Edit \/ Age \/ Lose \/ UNCHANGED vars
    <2>1. /\ UNCHANGED <<row, work, tool>> /\ Types'
          /\ \/ bytes'["file"] = bytes["file"] /\ losses' = losses
             \/ losses' = losses + 1
      BY <1>3, WorldKeeps DEF LostInv
    <2>2. losses' \in Nat /\ (FileThere => FileThere') /\ (losses > 0 => losses' > 0)
      BY <2>1 DEF LostInv, FileThere
    <2> QED
      BY <2>1, <2>2 DEF LostInv
  <1> QED
    BY <1>1, <1>2, <1>3, RequestLost, ScriptLost, Steps

\* However the exports, downloads, scripts and losses interleave, a script
\* marks an export as missing only when its file has been lost: no script
\* takes the moments of an export that is being written for a missing file.
THEOREM MissingIsLost == ASSUME ArtifactAssumption PROVE Spec => []MissingWasLost
  <1>1. Init => LostInv
    <2> SUFFICES ASSUME Init PROVE LostInv
      OBVIOUS
    <2>1. losses = 0
      BY DEF Init
    <2>2. row.is = "good" => bytes["file"] # None
      BY InitTypes, Data DEF NoRow, ArtifactAssumption
    <2>3. row.is \in {"good", "absent"}
      BY InitTypes DEF NoRow
    <2> QED
      BY <2>1, <2>2, <2>3, InitTypes DEF LostInv, FileThere
  <1>2. LostInv /\ [Next]_vars => LostInv'
    BY StepLost
  <1>3. LostInv => MissingWasLost
    BY DEF LostInv, MissingWasLost
  <1> QED
    BY <1>1, <1>2, <1>3, PTL DEF Spec

-----------------------------------------------------------------------------
(* The stamp and the file *)

Rewriting == {"write", "flush"}
Stamping == {"digest", "link", "commit"}

\* A POST under way has the row to itself from its flush to its commit, and will
\* stamp the file as it is, unless another is rewriting it: that one will stamp
\* it later.
StampRight ==
    /\ Types /\ losses = 0 /\ bytes["file"] # None /\ row.is # "absent"
    /\ \A s \in Sessions :
          /\ work[s].at \notin {"local", "advisory", "release"}
          /\ work[s].at \in {"open"} \cup Rewriting \cup Stamping => s \in Posts
          /\ work[s].at \in {"flush"} \cup Stamping => work[s].found
          /\ work[s].at \in Stamping <=> rowLock = s
          /\ work[s].at \in {"link", "commit"} =>
                /\ work[s].digest # None
                /\ \/ work[s].digest = bytes["file"]
                   \/ \E t \in Sessions : work[t].at \in Rewriting
    /\ \/ row.sha \in {None, bytes["file"]}
       \/ \E t \in Sessions : work[t].at \in Rewriting \cup Stamping

\* What the stamp is worth is lost for good with the first that is not a POST.
StampInv == Types /\ losses \in Nat /\ (WrittenByPosts => StampRight)

\* A step at a place where the file is neither rewritten nor stamped.
LEMMA StampMoves ==
    ASSUME StampRight, Types', NEW s \in Sessions, \A t \in Sessions \ {s} : work'[t] = work[t],
           losses' = losses, bytes'["file"] = bytes["file"], row' = row, rowLock' = rowLock,
           work[s].at \notin Rewriting \cup Stamping,
           work'[s].at \notin Rewriting \cup Stamping \cup {"local", "advisory", "release"},
           work'[s].at = "open" => s \in Posts
    PROVE  StampRight'
  <1>1. \A t \in Sessions : work[t].at \in Rewriting => t # s /\ work'[t].at \in Rewriting
    OBVIOUS
  <1>2. \A t \in Sessions : work[t].at \in Rewriting \cup Stamping =>
                                 t # s /\ work'[t].at \in Rewriting \cup Stamping
    OBVIOUS
  <1> QED
    BY <1>1, <1>2 DEF StampRight, Rewriting, Stamping

\* A step that rewrites the file.
LEMMA StampRewritten ==
    ASSUME StampRight, Types', NEW s \in Sessions, \A t \in Sessions \ {s} : work'[t] = work[t],
           losses' = losses, bytes'["file"] # None, row' = row, rowLock' = rowLock, s \in Posts,
           work[s].at \notin Stamping, work'[s].at \in Rewriting,
           work'[s].at = "flush" => work'[s].found
    PROVE  StampRight'
  BY DEF StampRight, Rewriting, Stamping

LEMMA FlushStamp ==
    ASSUME ArtifactAssumption, WrittenByPosts', StampRight, NEW s \in Sessions, Flush(s)
    PROVE  StampRight'
  <1>1. UNCHANGED <<bytes, row, losses>>
    BY DEF Flush, files
  <1>2. work[s].at = "flush" /\ work[s].found /\ s \in Posts /\ s \notin Runs /\ rowLock = None
    BY FlushKeeps DEF StampRight, ArtifactAssumption, Rewriting
  <1>3. /\ Types' /\ work'[s].at = "digest" /\ work'[s].found /\ rowLock' = s
        /\ \A t \in Sessions \ {s} : work'[t] = work[t]
    BY <1>2, FlushKeeps DEF StampRight
  <1>4. \A t \in Sessions : work[t].at \notin Stamping
    BY <1>2, Data DEF StampRight
  <1> QED
    BY <1>1, <1>2, <1>3, <1>4 DEF StampRight, Rewriting, Stamping

LEMMA DigestStamp ==
    ASSUME ArtifactAssumption, WrittenByPosts', StampRight, NEW s \in Sessions, Digest(s)
    PROVE  StampRight'
  <1>1. UNCHANGED <<bytes, row, rowLock, losses>>
    BY DEF Digest, files, locks
  <1>2. /\ Types' /\ work[s].at = "digest" /\ work'[s].at = "link" /\ work'[s].digest = bytes["file"]
        /\ work'[s].found = work[s].found
        /\ \A t \in Sessions \ {s} : work'[t] = work[t]
    BY DigestKeeps DEF StampRight
  <1> QED
    BY <1>1, <1>2 DEF StampRight, Rewriting, Stamping

LEMMA LinkStamp ==
    ASSUME ArtifactAssumption, WrittenByPosts', StampRight, NEW s \in Sessions, Link(s)
    PROVE  StampRight'
  <1>1. UNCHANGED <<row, rowLock, losses>>
    BY DEF Link, locks
  <1>2. s \in Posts /\ s \notin Gets
    BY LinkKeeps DEF StampRight, Stamping, ArtifactAssumption
  <1>3. /\ Types' /\ work[s].at = "link" /\ work'[s].at = "commit" /\ work'[s].digest = work[s].digest
        /\ work'[s].found = work[s].found /\ bytes'["file"] = bytes["file"]
        /\ \A t \in Sessions \ {s} : work'[t] = work[t]
    BY <1>2, LinkKeeps DEF StampRight, AfterStamp
  <1> QED
    BY <1>1, <1>2, <1>3 DEF StampRight, Rewriting, Stamping

LEMMA CommitStamp ==
    ASSUME ArtifactAssumption, WrittenByPosts', StampRight, NEW s \in Sessions, Commit(s)
    PROVE  StampRight'
  <1>1. UNCHANGED <<bytes, losses>> /\ rowLock' = None
    BY DEF Commit, files
  <1>2. /\ Types' /\ work[s].at = "commit" /\ work'[s].at = "done"
        /\ \A t \in Sessions \ {s} : work'[t] = work[t]
        /\ row'.sha = (IF work[s].digest # None THEN work[s].digest ELSE row.sha)
        /\ row'.is = (IF work[s].found THEN row.is ELSE "good")
    BY CommitKeeps DEF StampRight
  <1>3. /\ rowLock = s /\ work[s].found /\ work[s].digest # None
        /\ work[s].digest = bytes["file"] \/ \E t \in Sessions : work[t].at \in Rewriting
    BY <1>2 DEF StampRight, Stamping
  <1>4. \A t \in Sessions : work'[t].at \notin Stamping /\ rowLock' # t
    BY <1>1, <1>2, <1>3, Data DEF StampRight, Stamping
  <1>5. \A t \in Sessions : work[t].at \in Rewriting => work'[t].at \in Rewriting
    BY <1>2 DEF Rewriting
  <1>6. row'.is # "absent" /\ row'.sha = work[s].digest
    BY <1>2, <1>3 DEF StampRight
  <1>7. row'.sha = bytes'["file"] \/ \E t \in Sessions : work'[t].at \in Rewriting
    BY <1>1, <1>3, <1>5, <1>6
  <1> QED
    BY <1>1, <1>2, <1>4, <1>6, <1>7 DEF StampRight, Rewriting, Stamping

LEMMA RequestStamp ==
    ASSUME ArtifactAssumption, WrittenByPosts', StampRight, NEW s \in Sessions, Request(s)
    PROVE  StampRight'
  <1>1. CASE Begin(s)
    <2>1. /\ s \in Posts \cup Runs /\ work[s].at = "idle"
          /\ UNCHANGED <<bytes, row, rowLock, losses>>
      BY <1>1 DEF Begin, files, locks
    <2>2. Types' /\ work'[s].at = "open" /\ \A t \in Sessions \ {s} : work'[t] = work[t]
      BY <1>1, BeginKeeps DEF StampRight
    <2>3. s \in Posts
      BY <2>1, <2>2 DEF WrittenByPosts
    <2> QED
      BY <2>1, <2>2, <2>3, StampMoves DEF Rewriting, Stamping
  <1>2. CASE Look(s)
    <2>1. UNCHANGED <<bytes, row, rowLock, losses>>
      BY <1>2 DEF Look, files, locks
    <2>2. Types' /\ work[s].at = "idle" /\ \A t \in Sessions \ {s} : work'[t] = work[t]
      BY <1>2, LookKeeps DEF StampRight
    <2>3. row # NoRow
      BY DEF StampRight, NoRow
    <2>4. work'[s].at \in {"resolve", "done"}
      BY <1>2, <2>3, LookKeeps DEF StampRight
    <2> QED
      BY <2>1, <2>2, <2>4, StampMoves DEF Rewriting, Stamping
  <1>3. CASE Resolve(s)
    <2>1. UNCHANGED <<bytes, row, rowLock, losses>>
      BY <1>3 DEF Resolve, files, locks
    <2>2. /\ Types' /\ work[s].at = "resolve" /\ \A t \in Sessions \ {s} : work'[t] = work[t]
      BY <1>3, ResolveKeeps DEF StampRight
    <2>3. Resolved(work[s].sha) # None
      BY Data DEF Resolved, StampRight
    <2>4. work'[s].at = "serve"
      BY <1>3, <2>3 DEF Resolve, Goto, StampRight, Types, WorkTypes, Session
    <2> QED
      BY <2>1, <2>2, <2>4, StampMoves DEF Rewriting, Stamping
  <1>4. CASE TryLocal(s) \/ TryAdvisory(s) \/ Release(s)
    BY <1>4, TryLocalKeeps, TryAdvisoryKeeps, ReleaseKeeps DEF StampRight
  <1>5. CASE Open(s)
    <2>1. UNCHANGED <<row, rowLock, losses>>
      BY <1>5 DEF Open, locks
    <2>2. /\ Types' /\ work[s].at = "open" /\ work'[s].at = "write" /\ bytes'["file"] # None
          /\ \A t \in Sessions \ {s} : work'[t] = work[t]
      BY <1>5, OpenKeeps DEF StampRight
    <2>3. s \in Posts
      BY <2>2 DEF StampRight
    <2> QED
      BY <2>1, <2>2, <2>3, StampRewritten DEF Rewriting, Stamping
  <1>6. CASE Write(s)
    <2>1. UNCHANGED <<row, rowLock, losses>>
      BY <1>6 DEF Write, locks
    <2>2. /\ Types' /\ work[s].at = "write" /\ work'[s].at = "flush" /\ bytes'["file"] # None
          /\ work'[s].found = (row # NoRow)
          /\ \A t \in Sessions \ {s} : work'[t] = work[t]
      BY <1>6, WriteKeeps DEF StampRight
    <2>3. s \in Posts /\ row # NoRow
      BY <2>2 DEF StampRight, Rewriting, NoRow
    <2> QED
      BY <2>1, <2>2, <2>3, StampRewritten DEF Rewriting, Stamping
  <1>7. CASE Flush(s) \/ Digest(s) \/ Link(s) \/ Commit(s)
    BY <1>7, FlushStamp, DigestStamp, LinkStamp, CommitStamp
  <1>8. CASE Serve(s)
    <2>1. UNCHANGED <<bytes, row, rowLock, losses>>
      BY <1>8 DEF Serve, files, locks
    <2>2. /\ Types' /\ work[s].at = "serve" /\ work'[s].at = "end"
          /\ \A t \in Sessions \ {s} : work'[t] = work[t]
      BY <1>8, ServeKeeps DEF StampRight
    <2> QED
      BY <2>1, <2>2, StampMoves DEF Rewriting, Stamping
  <1>9. CASE End(s)
    <2>1. /\ Types' /\ work[s].at = "end" /\ work'[s].at = "done"
          /\ \A t \in Sessions \ {s} : work'[t] = work[t]
      BY <1>9, EndKeeps DEF StampRight
    <2>2. rowLock # s
      BY <2>1 DEF StampRight, Stamping
    <2>3. UNCHANGED <<bytes, row, rowLock, losses>>
      BY <1>9, <2>2 DEF End, files
    <2> QED
      BY <2>1, <2>3, StampMoves DEF Rewriting, Stamping
  <1> QED
    BY <1>1, <1>2, <1>3, <1>4, <1>5, <1>6, <1>7, <1>8, <1>9 DEF Request

LEMMA StepStamp ==
    ASSUME ArtifactAssumption, WrittenByPosts', StampRight, [Next]_vars
    PROVE  StampRight'
  <1>1. CASE \E s \in Sessions : Request(s)
    BY <1>1, RequestStamp
  <1>2. ASSUME UNCHANGED <<work, rowLock, losses>>, bytes'["file"] = bytes["file"], Types',
               row'.is # "absent", row'.sha = row.sha
        PROVE  StampRight'
    BY <1>2 DEF StampRight, Rewriting, Stamping
  <1>3. ASSUME NEW t \in Tools, Scan(t) \/ Hash(t)
        PROVE  StampRight'
    <2>1. UNCHANGED <<work, rowLock, losses, bytes, row>>
      BY <1>3 DEF Scan, Hash, files, locks
    <2>2. Types'
      BY <1>3, ScanKeeps, HashKeeps DEF StampRight
    <2> QED
      BY <1>2, <2>1, <2>2 DEF StampRight
  <1>4. ASSUME NEW t \in Tools, ApplyToRow(t)
        PROVE  StampRight'
    <2>1. UNCHANGED <<work, rowLock, losses, bytes>>
      BY <1>4 DEF ApplyToRow, files, locks
    <2>2. /\ Types' /\ t = "verify" /\ row'.sha = row.sha
          /\ row'.is \in {"missing", row.is, "content_drift"}
      BY <1>4, ApplyToRowKeeps DEF StampRight, WrittenByPosts
    <2> QED
      BY <1>2, <2>1, <2>2 DEF StampRight
  <1>5. CASE MaterializeBlob
    <2>1. UNCHANGED <<work, rowLock, losses, row>>
      BY <1>5 DEF MaterializeBlob, locks
    <2> QED
      BY <1>2, <1>5, <2>1, MaterializeBlobKeeps DEF StampRight
  <1>6. CASE Reap
    <2>1. UNCHANGED <<work, rowLock, losses, row>>
      BY <1>6 DEF Reap, locks
    <2> QED
      BY <1>2, <1>6, <2>1, ReapKeeps DEF StampRight
  <1>7. CASE Edit \/ Age \/ Lose \/ UNCHANGED vars
    <2>1. /\ UNCHANGED <<row, rowLock, work>> /\ Types'
          /\ bytes'["file"] = bytes["file"] /\ losses' = losses
      BY <1>7, WorldKeeps DEF StampRight, WrittenByPosts
    <2> QED
      BY <1>2, <2>1 DEF StampRight
  <1> QED
    BY <1>1, <1>3, <1>4, <1>5, <1>6, <1>7, Steps

\* An export that is not a POST, a stamp of the backfill and a lost file are
\* not taken back.
LEMMA WrittenBefore ==
    ASSUME ArtifactAssumption, Types, losses \in Nat, [Next]_vars
    PROVE  losses' \in Nat /\ (WrittenByPosts' => WrittenByPosts)
  <1>1. ASSUME NEW s \in Sessions, Request(s)
        PROVE  UNCHANGED <<tool, losses>> /\ \A t \in Runs : work'[t].at = "idle" => work[t].at = "idle"
    <2>1. UNCHANGED <<tool, losses>>
      BY <1>1 DEF Request, Begin, Look, Resolve, TryLocal, TryAdvisory, Open, Write, Flush, Digest,
                  Link, Commit, Release, Serve, End
    <2>2. /\ \A t \in Sessions \ {s} : work'[t] = work[t]
          /\ work'[s].at # "idle"
      BY <1>1, BeginKeeps, LookKeeps, ResolveKeeps, TryLocalKeeps, TryAdvisoryKeeps, OpenKeeps,
         WriteKeeps, FlushKeeps, DigestKeeps, LinkKeeps, CommitKeeps, ReleaseKeeps, ServeKeeps,
         EndKeeps DEF Request, AfterStamp
    <2> QED
      BY <2>1, <2>2 DEF Sessions
  <1>2. ASSUME NEW t \in Tools, Scan(t) \/ Hash(t) \/ ApplyToRow(t)
        PROVE  UNCHANGED <<work, losses>> /\ \A u \in Tools : tool'[u].at = "idle" => tool[u].at = "idle"
    <2>1. UNCHANGED <<work, losses>>
      BY <1>2 DEF Scan, Hash, ApplyToRow
    <2>2. (\A u \in Tools \ {t} : tool'[u] = tool[u]) /\ tool'[t].at # "idle"
      BY <1>2, ScanKeeps, HashKeeps, ApplyToRowKeeps
    <2> QED
      BY <2>1, <2>2
  <1>3. CASE MaterializeBlob
    <2>1. UNCHANGED <<work, losses>>
      BY <1>3 DEF MaterializeBlob
    <2>2. tool'["materialize"].at = "done" /\ \A u \in Tools \ {"materialize"} : tool'[u] = tool[u]
      BY <1>3, MaterializeBlobKeeps
    <2> QED
      BY <2>1, <2>2 DEF WrittenByPosts
  <1>4. CASE Reap
    <2>1. UNCHANGED <<work, losses>>
      BY <1>4 DEF Reap
    <2>2. tool'["reap"].at = "done" /\ \A u \in Tools \ {"reap"} : tool'[u] = tool[u]
      BY <1>4, ReapKeeps
    <2> QED
      BY <2>1, <2>2 DEF WrittenByPosts
  <1>5. CASE Edit \/ Age \/ Lose \/ UNCHANGED vars
    <2>1. UNCHANGED <<work, tool>> /\ losses' \in {losses, losses + 1}
      BY <1>5, WorldKeeps
    <2> QED
      BY <2>1 DEF WrittenByPosts
  <1> QED
    BY <1>1, <1>2, <1>3, <1>4, <1>5, Steps DEF WrittenByPosts

\* However many POSTs export a document at once, when all are done the stamp of
\* the row is the hash of the file, as long as only POSTs have written it: the
\* one that commits last has hashed what all have written, because the row is
\* locked from a flush to its commit.
THEOREM StampMatches == ASSUME ArtifactAssumption PROVE Spec => []StampIsOfTheFile
  <1>1. Init => StampInv
    <2> SUFFICES ASSUME Init PROVE StampInv
      OBVIOUS
    <2>1. losses = 0 /\ rowLock = None
      BY DEF Init
    <2>2. Exported => bytes["file"] # None /\ row.is = "good" /\ row.sha = None
      BY InitTypes, Data DEF ArtifactAssumption
    <2>3. Types
      BY InitTypes
    <2>4. \A s \in Sessions : work[s].at = "idle" /\ rowLock # s
      BY <2>1, InitTypes, Data
    <2>5. Exported => StampRight
      BY <2>1, <2>2, <2>3, <2>4 DEF StampRight, Rewriting, Stamping
    <2> QED
      BY <2>1, <2>3, <2>5 DEF StampInv, WrittenByPosts
  <1>2. StampInv /\ [Next]_vars => StampInv'
    <2> SUFFICES ASSUME StampInv, [Next]_vars PROVE StampInv'
      OBVIOUS
    <2>1. Types' /\ losses' \in Nat /\ (WrittenByPosts' => WrittenByPosts)
      BY StepTypes, WrittenBefore DEF StampInv
    <2>2. WrittenByPosts' => StampRight'
      BY <2>1, StepStamp DEF StampInv
    <2> QED
      BY <2>1, <2>2 DEF StampInv
  <1>3. StampInv => StampIsOfTheFile
    BY DEF StampInv, StampRight, StampIsOfTheFile, Resting, Rewriting, Stamping
  <1> QED
    BY <1>1, <1>2, <1>3, PTL DEF Spec

-----------------------------------------------------------------------------
(* The review loop.                                                        *)
(*                                                                         *)
(* A review writes status, issues and actions at once, out of all it       *)
(* finds.  What has to be shown is that nothing that runs between two      *)
(* reviews undoes it: an action run without its review, an audit, the      *)
(* issues that a gate opens, a rollback to what was committed.  What the   *)
(* fold that chooses the actions computes does not matter for it: any      *)
(* action may be the next one.                                             *)

\* The rows of a chapter, and the shape they keep.
RowFields == {"flaws", "issue", "action", "packet", "chapter", "audits", "failures"}

RowsShaped(d) ==
    /\ DOMAIN d = RowFields
    /\ d.issue = [i \in Issues |-> d.issue[i]] /\ d.action = [i \in Issues |-> d.action[i]]
    /\ d.packet = [p \in Packets |-> d.packet[p]]

\* The rows of a chapter: no fault that blocks in one that passed, and an action
\* to run for each open issue.
RowsSound(d) ==
    /\ RowsShaped(d)
    /\ Checked(d) => d.flaws \cap Blocking = {}
    /\ \A i \in Issues : d.issue[i] = "open" => d.action[i] = "planned"

\* In a chapter whose packets are translated, what blocks is an active issue.
Known(d) == Translated(d) => d.flaws \cap Blocking \subseteq Active(d)

\* A chapter that was reviewed has passed, or has an issue that blocks.
Told(d) == d.chapter = "qa_checked" \/ Active(d) # {}

\* Between the first review of a stage and its verdict.
Reviewing == stage.pc \in {"followup", "assess", "repair"}

\* The worker has a verdict only when it is done.
StageSound ==
    /\ DOMAIN stage = DOMAIN Idle
    /\ stage.pc = "idle" \/ stage.verdict = "none"

\* The inductive invariant.  The rows as committed are as sound as those of the
\* session, or a rollback would bring back what is not; a stage that has begun
\* knows what blocks, and began with a chapter that had passed, or had something
\* that blocks, or was not ready and is skipped.
ReviewInv ==
    /\ StageSound /\ RowsSound(db) /\ RowsSound(saved)
    /\ stage.pc = "idle" => saved = db
    /\ db.chapter = "exported" => saved.chapter = "exported"
    /\ Reviewing => Known(db) /\ (stage.skipped \/ Told(db))

\* A review makes the rows sound, whatever they were.
LEMMA ReviewedIsSound ==
    ASSUME ReviewAssumption, NEW d, RowsShaped(d)
    PROVE  /\ RowsSound(Reviewed(d)) /\ Known(Reviewed(d)) /\ Told(Reviewed(d))
           /\ Reviewed(d).chapter \in {"review_required", "qa_checked"}
           /\ Found(d) \cap Blocking = {} => Reviewed(d).chapter = "qa_checked"
  <1> DEFINE found == Found(d)
             e == Reviewed(d)
  <1>1. /\ e.flaws = d.flaws /\ e.packet = d.packet
        /\ e.issue = [i \in Issues |-> IF i \in found THEN "open"
               ELSE IF d.issue[i] \in {"open", "triaged"} THEN "resolved" ELSE d.issue[i]]
        /\ e.action = [i \in Issues |-> IF i \in found THEN "planned" ELSE d.action[i]]
        /\ e.chapter = IF found \cap Blocking # {} THEN "review_required" ELSE "qa_checked"
        /\ DOMAIN e = RowFields
    BY DEF RowsShaped, RowFields, Reviewed
  <1>2. d.flaws \subseteq found /\ Blocking \subseteq Issues
    BY DEF Found, ReviewAssumption
  <1>3. d.packet = [p \in Packets |-> d.packet[p]]
    BY DEF RowsShaped
  <1> HIDE DEF found, e
  <1>4. /\ e.issue = [i \in Issues |-> e.issue[i]] /\ e.action = [i \in Issues |-> e.action[i]]
        /\ e.packet = [p \in Packets |-> e.packet[p]]
    BY <1>1, <1>3
  <1>5. \A i \in Issues : e.issue[i] = "open" => e.action[i] = "planned"
    BY <1>1
  <1>6. Checked(e) => e.flaws \cap Blocking = {}
    BY <1>1, <1>2 DEF Checked
  <1>7. \A i \in found \cap Blocking : i \in Active(e)
    BY <1>1, <1>2 DEF Active
  <1>8. RowsSound(e)
    BY <1>1, <1>4, <1>5, <1>6 DEF RowsSound, RowsShaped
  <1>9. Known(e) /\ Told(e)
    BY <1>1, <1>2, <1>7 DEF Known, Told
  <1> QED
    BY <1>1, <1>8, <1>9 DEF e, found

\* A chapter that is not ready for a review is left as it is.
LEMMA ReviewedIfReadyIsSound ==
    ASSUME ReviewAssumption, NEW d, RowsSound(d)
    PROVE  /\ RowsSound(ReviewedIfReady(d))
           /\ ReviewedIfReady(d).chapter = "exported" => d.chapter = "exported"
           /\ Translated(d) => Known(ReviewedIfReady(d)) /\ Told(ReviewedIfReady(d))
           /\ ~Translated(d) => Known(ReviewedIfReady(d))
  BY ReviewedIsSound DEF RowsSound, ReviewedIfReady, Known

\* Running an action leaves the issue active, and the chapter no further.
LEMMA ActedOnIsSound ==
    ASSUME ReviewAssumption, NEW d, RowsSound(d), NEW i
    PROVE  /\ RowsSound(ActedOn(d, i)) /\ ActedOn(d, i).flaws = d.flaws
           /\ ActedOn(d, i).chapter \in {d.chapter, "packet_built"}
           /\ Scope[i] # "chapter" => ActedOn(d, i).chapter = d.chapter
           /\ Active(d) \subseteq Active(ActedOn(d, i))
           /\ Known(d) => Known(ActedOn(d, i))
  <1> DEFINE e == ActedOn(d, i)
  <1>1. /\ e.flaws = d.flaws
        /\ e.issue = [d.issue EXCEPT ![i] = "triaged"]
        /\ e.action = [d.action EXCEPT ![i] = "completed"]
        /\ e.packet = [p \in Packets |-> IF p \in Invalidated(i) THEN "invalidated" ELSE d.packet[p]]
        /\ e.chapter = IF Remedy[i] = "rerun" /\ Scope[i] = "chapter" THEN "packet_built"
                       ELSE d.chapter
        /\ DOMAIN e = RowFields
    BY DEF RowsSound, RowsShaped, RowFields, ActedOn
  <1> HIDE DEF e
  <1>2. /\ d.issue = [j \in Issues |-> d.issue[j]] /\ d.action = [j \in Issues |-> d.action[j]]
        /\ Checked(d) => d.flaws \cap Blocking = {}
        /\ \A j \in Issues : d.issue[j] = "open" => d.action[j] = "planned"
    BY DEF RowsSound, RowsShaped
  <1>3. /\ e.issue = [j \in Issues |-> e.issue[j]] /\ e.action = [j \in Issues |-> e.action[j]]
        /\ e.packet = [p \in Packets |-> e.packet[p]]
    BY <1>1, <1>2
  <1>4. \A j \in Issues : /\ e.issue[j] = IF j = i THEN "triaged" ELSE d.issue[j]
                          /\ e.action[j] = IF j = i THEN "completed" ELSE d.action[j]
    BY <1>1, <1>2
  <1>5. \A j \in Issues : e.issue[j] = "open" => e.action[j] = "planned"
    BY <1>2, <1>4
  <1>6. Checked(e) => e.flaws \cap Blocking = {}
    BY <1>1, <1>2 DEF Checked
  <1>7. RowsSound(e)
    BY <1>1, <1>3, <1>5, <1>6 DEF RowsSound, RowsShaped
  <1>8. Active(d) \subseteq Active(e)
    BY <1>4 DEF Active, ReviewAssumption
  <1>9. Translated(e) => Translated(d)
    BY <1>1 DEF Translated
  <1>10. Known(d) => Known(e)
    BY <1>1, <1>8, <1>9 DEF Known
  <1> QED
    BY <1>1, <1>7, <1>8, <1>10 DEF e

\* With its rerun, the chapter is reviewed, unless it was one sentence.
LEMMA RerunIsSound ==
    ASSUME ReviewAssumption, NEW d, RowsSound(d), NEW i, NEW e \in Reruns(ActedOn(d, i), i)
    PROVE  /\ RowsSound(e)
           /\ e.chapter = "exported" => d.chapter = "exported"
           /\ Known(d) => Known(e)
           /\ Told(d) => Told(e)
  <1> DEFINE a == ActedOn(d, i)
  <1>1. /\ RowsSound(a) /\ Active(d) \subseteq Active(a)
        /\ Known(d) => Known(a)
        /\ Scope[i] # "chapter" => a.chapter = d.chapter
    BY ActedOnIsSound
  <1>2. e \in Reruns(a, i)
    OBVIOUS
  <1> HIDE DEF a
  <1>3. CASE Scope[i] = "sentence"
    <2>1. e = a
      BY <1>2, <1>3 DEF Reruns
    <2>2. a.chapter = d.chapter
      BY <1>1, <1>3
    <2>3. Told(d) => Told(a)
      BY <1>1, <2>2 DEF Told
    <2> QED
      BY <1>1, <2>1, <2>2, <2>3, Zenon
  <1>4. CASE Scope[i] # "sentence"
    <2> DEFINE Edited(new) == [a EXCEPT
                        !.flaws = (@ \ Touched(i)) \cup new,
                        !.packet = [p \in Packets |->
                            IF p \in Invalidated(i) THEN "translated" ELSE @[p]]]
    <2>1. PICK new \in SUBSET Touched(i) : e = Reviewed(Edited(new))
      BY <1>2, <1>4 DEF Reruns
    <2> DEFINE b == Edited(new)
               packets == [p \in Packets |->
                              IF p \in Invalidated(i) THEN "translated" ELSE a.packet[p]]
    <2>2. DOMAIN b = DOMAIN a /\ b.issue = a.issue /\ b.action = a.action
      OBVIOUS
    <2>3. b.packet = packets
      BY <1>1 DEF RowsSound, RowsShaped, RowFields
    <2>4. packets = [p \in Packets |-> packets[p]]
      OBVIOUS
    <2> HIDE DEF b, packets
    <2>5. RowsShaped(b)
      BY <1>1, <2>2, <2>3, <2>4 DEF RowsSound, RowsShaped
    <2>6. e = Reviewed(b)
      BY <2>1 DEF b
    <2>7. RowsSound(Reviewed(b)) /\ Known(Reviewed(b)) /\ Told(Reviewed(b))
          /\ Reviewed(b).chapter # "exported"
      BY <2>5, ReviewedIsSound
    <2> QED
      BY <2>6, <2>7, Zenon
  <1> QED
    BY <1>3, <1>4

\* The audit of an execution leaves the other rows alone.
LEMMA LoggedIsSound ==
    ASSUME NEW d, RowsSound(d), NEW kind, NEW i, NEW index
    PROVE  /\ RowsSound(Logged(d, kind, i, index))
           /\ Logged(d, kind, i, index).chapter = d.chapter
           /\ Known(d) => Known(Logged(d, kind, i, index))
           /\ Told(d) => Told(Logged(d, kind, i, index))
  <1> DEFINE e == Logged(d, kind, i, index)
  <1>1. /\ DOMAIN e = DOMAIN d /\ e.flaws = d.flaws /\ e.issue = d.issue
        /\ e.action = d.action /\ e.packet = d.packet /\ e.chapter = d.chapter
    BY DEF Logged
  <1> HIDE DEF e
  <1>2. RowsSound(e)
    BY <1>1 DEF RowsSound, RowsShaped, Checked
  <1>3. Active(e) = Active(d) /\ (Translated(e) <=> Translated(d))
    BY <1>1 DEF Active, Translated
  <1>4. (Known(d) => Known(e)) /\ (Told(d) => Told(e))
    BY <1>1, <1>3 DEF Known, Told
  <1> QED
    BY <1>1, <1>2, <1>4 DEF e

\* A step of a session that runs an action.
LEMMA RunKeeps ==
    ASSUME ReviewAssumption, ReviewInv, NEW i, NEW kind, NEW next,
           DOMAIN next = DOMAIN Idle, next.pc = stage.pc, next.verdict = stage.verdict,
           next.skipped = stage.skipped, stage.pc # "idle",
           Run(i, kind, next)
    PROVE  ReviewInv' /\ stage'.verdict = "none" /\ saved' = saved
  <1>1. PICK d \in Reruns(ActedOn(db, i), i) : db' = Logged(d, kind, i, stage.count + 1)
    BY DEF Run
  <1>2. /\ RowsSound(d)
        /\ d.chapter = "exported" => db.chapter = "exported"
        /\ Known(db) => Known(d)
        /\ Told(db) => Told(d)
    BY <1>1, RerunIsSound DEF ReviewInv
  <1> DEFINE e == Logged(d, kind, i, stage.count + 1)
  <1>3. /\ RowsSound(e) /\ e.chapter = d.chapter
        /\ Known(d) => Known(e)
        /\ Told(d) => Told(e)
    BY <1>2, LoggedIsSound
  <1>4. /\ DOMAIN stage' = DOMAIN Idle /\ stage'.pc = stage.pc
        /\ stage'.verdict = stage.verdict /\ stage'.skipped = stage.skipped
        /\ saved' = saved
    BY DEF Run, Idle
  <1>5. db' = e
    BY <1>1
  <1> HIDE DEF e
  <1>6. RowsSound(db') /\ (db'.chapter = "exported" => db.chapter = "exported")
    BY <1>2, <1>3, <1>5, Zenon
  <1>7. (Known(db) => Known(db')) /\ (Told(db) => Told(db'))
    BY <1>2, <1>3, <1>5, Zenon
  <1>8. RowsSound(saved')
    BY <1>4, Zenon DEF ReviewInv
  <1>9. StageSound' /\ stage'.verdict = "none"
    BY <1>4 DEF ReviewInv, StageSound, Idle
  <1>10. Reviewing' => Known(db') /\ (stage'.skipped \/ Told(db'))
    BY <1>4, <1>7 DEF ReviewInv, Reviewing
  <1> QED
    BY <1>4, <1>6, <1>8, <1>9, <1>10 DEF ReviewInv

\* What a step keeps, and what the verdict and the commit of one tell.
Kept ==
    /\ ReviewInv'
    /\ stage'.verdict = "succeeded" /\ stage.pc # "idle" => db'.chapter = "qa_checked"
    /\ saved'.chapter = "exported" /\ saved.chapter # "exported" => Translated(saved')

\* A step that is one of the worker and leaves the rows.
LEMMA StageMoves ==
    ASSUME ReviewInv, UNCHANGED <<db, saved>>, StageSound',
           stage'.pc = "idle" => stage.pc = "idle",
           Reviewing' => Reviewing /\ stage'.skipped = stage.skipped,
           stage'.verdict \in {stage.verdict, "none"}
    PROVE  Kept
  <1>1. stage'.verdict = "succeeded" => stage.pc = "idle"
    BY DEF ReviewInv, StageSound
  <1>2. RowsSound(db') /\ RowsSound(saved')
    BY Zenon DEF ReviewInv
  <1>3. Reviewing' => Known(db') /\ (stage'.skipped \/ Told(db'))
    <2>1. Known(db) <=> Known(db')
      BY Zenon
    <2>2. Told(db) <=> Told(db')
      BY Zenon
    <2> QED
      BY <2>1, <2>2 DEF ReviewInv
  <1> QED
    BY <1>1, <1>2, <1>3 DEF ReviewInv, Kept

\* The session goes back to what is committed.
LEMMA RollBackIsKept == ASSUME ReviewInv, RollBack PROVE Kept
  <1>1. db' = saved /\ saved' = saved
    BY DEF RollBack
  <1>2. StageSound' /\ ~Reviewing' /\ stage'.verdict = "raised" /\ stage'.pc = "idle"
    BY DEF RollBack, Idle, StageSound, Reviewing
  <1>3. RowsSound(db') /\ RowsSound(saved')
    BY <1>1, Zenon DEF ReviewInv
  <1> QED
    BY <1>1, <1>2, <1>3 DEF Kept, ReviewInv

\* A session that commits and ends.
LEMMA CommitIsKept ==
    ASSUME ReviewInv, NEW d, NEW verdict, RowsSound(d), db' = d, saved' = d,
           stage' = [Idle EXCEPT !.verdict = verdict],
           verdict = "succeeded" /\ stage.pc # "idle" => d.chapter = "qa_checked",
           d.chapter = "exported" => db.chapter = "exported" \/ Translated(d)
    PROVE  Kept
  <1>1. StageSound' /\ ~Reviewing' /\ stage'.verdict = verdict /\ stage'.pc = "idle"
    BY DEF Idle, StageSound, Reviewing
  <1>2. RowsSound(db') /\ RowsSound(saved')
    BY Zenon
  <1>3. saved'.chapter = "exported" /\ saved.chapter # "exported" => Translated(saved')
    <2>1. d.chapter = "exported" /\ saved.chapter # "exported" => Translated(d)
      BY DEF ReviewInv
    <2> QED
      BY <2>1, Zenon
  <1> QED
    BY <1>1, <1>2, <1>3 DEF Kept, ReviewInv

-----------------------------------------------------------------------------
(* One lemma for each action *)

LEMMA StartReviewKeeps == ASSUME ReviewAssumption, ReviewInv, StartReview PROVE Kept
  <1> DEFINE d == ReviewedIfReady(db)
  <1>1. /\ RowsSound(d) /\ (d.chapter = "exported" => db.chapter = "exported")
        /\ Translated(db) => Told(d)
        /\ Known(d)
    BY ReviewedIfReadyIsSound DEF ReviewInv
  <1>2. db' = d /\ saved' = saved /\ stage.pc = "idle"
    BY DEF StartReview, BeginSession
  <1>3. StageSound' /\ stage'.pc # "idle" /\ stage'.skipped = ~Translated(db)
    BY DEF StartReview, Idle, StageSound
  <1> HIDE DEF d
  <1>4. RowsSound(db') /\ RowsSound(saved') /\ Known(db')
    BY <1>1, <1>2, Zenon DEF ReviewInv
  <1>5. stage'.skipped \/ Told(db')
    <2>1. Told(d) => Told(db')
      BY <1>2, Zenon
    <2> QED
      BY <1>1, <1>3, <2>1
  <1> QED
    BY <1>1, <1>2, <1>3, <1>4, <1>5 DEF Kept, ReviewInv

LEMMA EndReviewKeeps == ASSUME ReviewAssumption, ReviewInv, EndReview PROVE Kept
  <1>1. RowsSound(db) /\ Known(db) /\ (stage.skipped \/ Told(db)) /\ stage.pc = "repair"
    BY DEF EndReview, ReviewInv, Reviewing
  <1>2. CASE stage.count > 0
    <2> DEFINE d == ReviewedIfReady(db)
               verdict == Verdict(Active(db), ~Translated(db))
    <2>1. db' = d /\ saved' = d /\ stage' = [Idle EXCEPT !.verdict = verdict]
      BY <1>2 DEF EndReview, Finish
    <2>2. RowsSound(d) /\ (d.chapter = "exported" => db.chapter = "exported")
      BY <1>1, ReviewedIfReadyIsSound
    <2>3. ASSUME verdict = "succeeded" PROVE d.chapter = "qa_checked"
      <3>1. Active(db) = {} /\ Translated(db)
        BY <2>3 DEF Verdict
      <3>2. Found(db) \cap Blocking = {}
        BY <1>1, <3>1 DEF Known, Found, Translated
      <3>3. Reviewed(db).chapter = "qa_checked"
        BY <1>1, <3>2, ReviewedIsSound DEF RowsSound
      <3> QED
        BY <3>1, <3>3 DEF ReviewedIfReady
    <2> HIDE DEF d, verdict
    <2> QED
      BY <2>1, <2>2, <2>3, CommitIsKept
  <1>3. CASE ~(stage.count > 0)
    <2> DEFINE verdict == Verdict(Active(db), stage.skipped)
    <2>1. db' = db /\ saved' = db /\ stage' = [Idle EXCEPT !.verdict = verdict]
      BY <1>3 DEF EndReview, Finish
    <2>2. verdict = "succeeded" => db.chapter = "qa_checked"
      BY <1>1 DEF Verdict, Told
    <2> HIDE DEF verdict
    <2> QED
      BY <1>1, <2>1, <2>2, CommitIsKept
  <1> QED
    BY <1>2, <1>3

LEMMA ExportKeeps == ASSUME ReviewAssumption, ReviewInv, Export PROVE Kept
  <1> DEFINE d == [db EXCEPT !.chapter = "exported"]
  <1>1. /\ db' = d /\ saved' = d /\ stage' = [Idle EXCEPT !.verdict = "exported"]
        /\ Checked(db) /\ Misaligned(db) = {} /\ RowsSound(db)
    BY DEF Export, Finish, GatePasses, ReviewInv
  <1>2. /\ DOMAIN d = DOMAIN db /\ d.flaws = db.flaws /\ d.issue = db.issue
        /\ d.action = db.action /\ d.packet = db.packet
    OBVIOUS
  <1> HIDE DEF d
  <1>3. RowsSound(d)
    BY <1>1, <1>2 DEF RowsSound, RowsShaped
  <1>4. Translated(d)
    BY <1>1, <1>2 DEF Translated, Misaligned
  <1> QED
    BY <1>1, <1>3, <1>4, CommitIsKept

LEMMA GateKeeps == ASSUME ReviewAssumption, ReviewInv, GateFollowUps PROVE Kept
  <1> DEFINE d == GateOpens(db)
  <1>1. db' = d /\ saved' = saved /\ stage.pc = "gate"
    BY DEF GateFollowUps
  <1>2. StageSound' /\ stage'.pc = "gate" /\ stage'.verdict = "none"
    BY <1>1 DEF GateFollowUps, ReviewInv, StageSound, Idle
  <1>3. RowsShaped(db) /\ RowsSound(db)
    BY DEF ReviewInv, RowsSound
  <1>4. RowsSound(d) /\ d.chapter = db.chapter
    <2>1. CASE ~Checked(db)
      BY <1>3, <2>1 DEF GateOpens
    <2>2. CASE Checked(db)
      <3> DEFINE missing == Misaligned(db)
      <3>1. /\ DOMAIN d = RowFields /\ d.flaws = db.flaws /\ d.packet = db.packet
            /\ d.chapter = db.chapter
            /\ d.issue = [i \in Issues |-> IF i \in missing THEN "open" ELSE db.issue[i]]
            /\ d.action = [i \in Issues |-> IF i \in missing THEN "planned" ELSE db.action[i]]
        BY <1>3, <2>2 DEF GateOpens, RowsShaped, RowFields
      <3> HIDE DEF d, missing
      <3>2. d.issue = [i \in Issues |-> d.issue[i]] /\ d.action = [i \in Issues |-> d.action[i]]
        BY <3>1
      <3> QED
        BY <1>3, <3>1, <3>2 DEF RowsSound, RowsShaped, Checked
    <2> QED
      BY <2>1, <2>2
  <1> HIDE DEF d
  <1>5. RowsSound(db') /\ RowsSound(saved')
    BY <1>1, <1>4, Zenon DEF ReviewInv
  <1> QED
    BY <1>1, <1>2, <1>4, <1>5 DEF Kept, ReviewInv, Reviewing

\* No step that runs an action gives a verdict or commits.
LEMMA RunIsKept ==
    ASSUME ReviewInv', stage'.verdict = "none", saved' = saved
    PROVE  Kept
  BY DEF Kept

LEMMA FollowUpKeeps == ASSUME ReviewAssumption, ReviewInv, FollowUp PROVE Kept
  <1>1. PICK i \in {Head(Free(db, FollowUps))} \cup Fallbacks(Head(Free(db, FollowUps))) :
            Run(i, "review", stage)
    BY DEF FollowUp
  <1>2. stage.pc = "followup" /\ DOMAIN stage = DOMAIN Idle
    BY DEF FollowUp, ReviewInv, StageSound
  <1> QED
    BY <1>1, <1>2, RunKeeps, RunIsKept DEF ReviewInv, StageSound

LEMMA RepairKeeps == ASSUME ReviewAssumption, ReviewInv, Repair PROVE Kept
  <1> DEFINE next == [stage EXCEPT !.queue = Tail(@)]
  <1>1. Run(Head(stage.queue), "repair", next) /\ stage.pc = "repair"
    BY DEF Repair
  <1>2. /\ DOMAIN next = DOMAIN Idle /\ next.pc = stage.pc /\ next.verdict = stage.verdict
        /\ next.skipped = stage.skipped /\ stage.verdict = "none"
    BY <1>1 DEF ReviewInv, StageSound, Idle
  <1> HIDE DEF next
  <1> QED
    BY <1>1, <1>2, RunKeeps, RunIsKept

LEMMA ExportFollowUpKeeps == ASSUME ReviewAssumption, ReviewInv, ExportFollowUp PROVE Kept
  <1> DEFINE next == [stage EXCEPT !.queue = Tail(@)]
             i == Head(stage.queue)
  <1>1. stage.pc = "gate" /\ DOMAIN stage = DOMAIN Idle /\ stage.verdict = "none"
    BY DEF ExportFollowUp, ReviewInv, StageSound
  <1>2. CASE Run(i, "export", next)
    <2>1. /\ DOMAIN next = DOMAIN Idle /\ next.pc = stage.pc /\ next.verdict = stage.verdict
          /\ next.skipped = stage.skipped
      BY <1>1 DEF Idle
    <2> HIDE DEF next, i
    <2> QED
      BY <1>1, <1>2, <2>1, RunKeeps, RunIsKept
  <1>3. CASE /\ db' = ActedOn(db, i)
             /\ stage' = [stage EXCEPT !.queue = Tail(@), !.attempted = @ \cup {i}]
             /\ UNCHANGED <<saved, sessions>>
    <2> DEFINE d == ActedOn(db, i)
    <2>1. RowsSound(d) /\ (d.chapter = "exported" => db.chapter = "exported")
      BY ActedOnIsSound DEF ReviewInv
    <2>2. StageSound' /\ stage'.pc = "gate" /\ stage'.verdict = "none"
      BY <1>1, <1>3 DEF StageSound, Idle
    <2>3. db' = d
      BY <1>3
    <2> HIDE DEF d
    <2>4. RowsSound(db') /\ RowsSound(saved')
      BY <1>3, <2>1, <2>3, Zenon DEF ReviewInv
    <2> QED
      BY <1>3, <2>1, <2>2, <2>3, <2>4 DEF Kept, ReviewInv, Reviewing
  <1> QED
    BY <1>2, <1>3 DEF ExportFollowUp

LEMMA OperatorKeeps ==
    ASSUME ReviewAssumption, ReviewInv, OperatorExecutes \/ OperatorReviews
    PROVE  Kept
  <1>1. PICK d : /\ db' = d /\ saved' = d /\ stage' = [Idle EXCEPT !.verdict = "none"]
                 /\ RowsSound(d)
                 /\ d.chapter = "exported" => db.chapter = "exported"
    <2>1. CASE OperatorExecutes
      <3>1. PICK i \in Issues : db' \in {ActedOn(db, i)} \cup Reruns(ActedOn(db, i), i)
        BY <2>1 DEF OperatorExecutes
      <3>2. saved' = db' /\ stage' = [Idle EXCEPT !.verdict = "none"]
        BY <2>1 DEF OperatorExecutes, Idle
      <3>3. RowsSound(db)
        BY DEF ReviewInv
      <3>4. CASE db' = ActedOn(db, i)
        <4>1. /\ RowsSound(ActedOn(db, i))
              /\ ActedOn(db, i).chapter = "exported" => db.chapter = "exported"
          BY <3>3, ActedOnIsSound
        <4> QED
          BY <3>2, <3>4, <4>1
      <3>5. CASE db' \in Reruns(ActedOn(db, i), i)
        <4>1. PICK d \in Reruns(ActedOn(db, i), i) : db' = d
          BY <3>5
        <4>2. RowsSound(d) /\ (d.chapter = "exported" => db.chapter = "exported")
          BY <3>3, RerunIsSound
        <4> QED
          BY <3>2, <4>1, <4>2
      <3> QED
        BY <3>1, <3>4, <3>5
    <2>2. CASE OperatorReviews
      <3>1. /\ db' = ReviewedIfReady(db) /\ saved' = ReviewedIfReady(db)
            /\ stage' = [Idle EXCEPT !.verdict = "none"]
        BY <2>2 DEF OperatorReviews, Idle
      <3>2. /\ RowsSound(ReviewedIfReady(db))
            /\ ReviewedIfReady(db).chapter = "exported" => db.chapter = "exported"
        BY ReviewedIfReadyIsSound DEF ReviewInv
      <3> QED
        BY <3>1, <3>2
    <2> QED
      BY <2>1, <2>2
  <1> QED
    BY <1>1, CommitIsKept

LEMMA StepReview ==
    ASSUME ReviewAssumption, ReviewInv, [ReviewNext]_reviewVars
    PROVE  Kept
  <1>1. CASE StartReview \/ EndReview \/ FollowUp \/ Repair
    BY <1>1, StartReviewKeeps, EndReviewKeeps, FollowUpKeeps, RepairKeeps
  <1>2. CASE Export \/ GateFollowUps \/ ExportFollowUp
    BY <1>2, ExportKeeps, GateKeeps, ExportFollowUpKeeps
  <1>3. CASE Refuse \/ Raise
    BY <1>3, RollBackIsKept DEF Refuse, Raise
  <1>4. CASE OperatorExecutes \/ OperatorReviews
    BY <1>4, OperatorKeeps
  <1>5. CASE FollowUpAgain \/ UNCHANGED reviewVars
    <2>1. UNCHANGED <<db, saved, stage>>
      BY <1>5 DEF FollowUpAgain, reviewVars
    <2> QED
      BY <2>1, StageMoves DEF ReviewInv, StageSound, Reviewing
  <1>6. CASE EndFollowUps
    BY <1>6, StageMoves DEF EndFollowUps, GoOn, ReviewInv, StageSound, Reviewing, Idle
  <1>7. CASE Assess
    BY <1>7, StageMoves DEF Assess, ReviewInv, StageSound, Reviewing, Idle
  <1>8. CASE BeginRound
    BY <1>8, StageMoves DEF BeginRound, ReviewInv, StageSound, Reviewing, Idle
  <1>9. CASE StartExport
    <2>1. stage.pc = "idle" /\ UNCHANGED <<db, saved>> /\ stage' = [Idle EXCEPT !.pc = "gate"]
      BY <1>9 DEF StartExport, BeginSession
    <2>2. StageSound' /\ stage'.pc = "gate" /\ stage'.verdict = "none"
      BY <2>1 DEF StageSound, Idle
    <2> QED
      BY <2>1, <2>2, StageMoves DEF Reviewing
  <1> QED
    BY <1>1, <1>2, <1>3, <1>4, <1>5, <1>6, <1>7, <1>8, <1>9 DEF ReviewNext, Work

LEMMA InitReview == ASSUME ReviewAssumption, ReviewInit PROVE ReviewInv
  <1>1. PICK f \in SUBSET Issues : db \in {Fresh(f), Reviewed(Fresh(f))}
    BY DEF ReviewInit
  <1>2. saved = db /\ stage = Idle
    BY DEF ReviewInit
  <1>3. RowsSound(Fresh(f)) /\ Fresh(f).chapter = "translated"
    BY DEF RowsSound, RowsShaped, RowFields, Fresh, Checked
  <1>4. RowsSound(Reviewed(Fresh(f)))
    BY <1>3, ReviewedIsSound DEF RowsSound
  <1>5. RowsSound(db)
    BY <1>1, <1>3, <1>4
  <1>6. StageSound /\ ~Reviewing
    BY <1>2 DEF StageSound, Idle, Reviewing
  <1> QED
    BY <1>2, <1>5, <1>6 DEF ReviewInv

-----------------------------------------------------------------------------

\* The rows stay sound through every review, rerun, repair, refused export,
\* rollback and operator request, in the session and as committed.
THEOREM ReviewInvariance == ASSUME ReviewAssumption PROVE ReviewSpec => []ReviewInv
  <1>1. ReviewInv /\ [ReviewNext]_reviewVars => ReviewInv'
    BY StepReview DEF Kept
  <1> QED
    BY <1>1, InitReview, PTL DEF ReviewSpec

\* A chapter that passed its review or was exported has no fault that blocks an
\* export, for any packets, issues and remedies: whatever reruns do to the
\* content, the review after them decides the status from all it finds.
THEOREM CheckedClean == ASSUME ReviewAssumption PROVE ReviewSpec => []CheckedIsClean
  <1>1. ReviewInv => CheckedIsClean
    BY DEF ReviewInv, RowsSound, CheckedIsClean
  <1> QED
    BY <1>1, ReviewInvariance, PTL

\* Every open issue has a planned action, through reviews that open it again, the
\* gate that opens the issues of lost translations, and actions run many times.
THEOREM OpenPlanned == ASSUME ReviewAssumption PROVE ReviewSpec => []OpenIsPlanned
  <1>1. ReviewInv => OpenIsPlanned
    BY DEF ReviewInv, RowsSound, OpenIsPlanned
  <1> QED
    BY <1>1, ReviewInvariance, PTL

\* A chapter becomes exported only with all its packets translated, also when an
\* operator has run an action without its rerun and left the status as it was.
THEOREM ExportWhole == ASSUME ReviewAssumption PROVE ReviewSpec => ExportIsWhole
  <1>1. ReviewInv /\ [ReviewNext]_reviewVars
        => [saved'.chapter = "exported" /\ saved.chapter # "exported" => Translated(saved')]_reviewVars
    BY StepReview DEF Kept
  <1> QED
    BY <1>1, ReviewInvariance, PTL DEF ReviewSpec, ExportIsWhole

\* A review stage reports success only with a chapter that passed its last review,
\* however many follow-ups and repairs it ran and whatever they did.
THEOREM SuccessChecked == ASSUME ReviewAssumption PROVE ReviewSpec => SuccessIsChecked
  <1>1. ReviewInv /\ [ReviewNext]_reviewVars
        => [stage'.verdict = "succeeded" /\ stage.pc # "idle" => db'.chapter = "qa_checked"]_reviewVars
    BY StepReview DEF Kept
  <1> QED
    BY <1>1, ReviewInvariance, PTL DEF ReviewSpec, SuccessIsChecked
=============================================================================
