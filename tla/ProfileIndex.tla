---------------------------- MODULE ProfileIndex ----------------------------
(***************************************************************************)
(* The document profile: each click on Re-index builds an indexer for the  *)
(* folder in the settings and starts a thread that reads the folder, has a *)
(* model summarise it, and replaces the cached summary on disk by writing  *)
(* a temporary file and renaming it.                                       *)
(*                                                                         *)
(* A file is an inode; its content is the run that wrote it, nothing, or a *)
(* mix of two.  Which folder it is and its texts are left out.             *)
(***************************************************************************)
EXTENDS Naturals

CONSTANTS
  Reindexes, NoRun,
  Inodes, NoFile

ProfileIndexAssumption == NoRun \notin Reindexes /\ NoFile \notin Inodes

VARIABLES
  requested,  \* reindex_requested
  thread,     \* where a run is
  handle,     \* the file a run writes to
  names,      \* the two directory entries
  content,    \* what is in a file
  summary,    \* what the indexer of a run holds
  indexer,    \* the indexer the window and the orchestrator use
  overlapped  \* two runs were under way at once

disk == <<handle, names, content>>
vars == <<requested, thread, handle, names, content, summary, indexer, overlapped>>

Over == {"done", "failed", "killed"}
Stages == {"unused", "reading", "asking", "opening", "writing", "renaming", "publishing"}
Contents == Reindexes \cup {"empty", "mixed"}
Active == {r \in Reindexes : thread[r] \notin Over \cup {"unused"}}

Init ==
  /\ requested = FALSE
  /\ thread = [r \in Reindexes |-> "unused"]
  /\ handle = [r \in Reindexes |-> NoFile]
  /\ names = [tmp |-> NoFile, cache |-> NoFile]
  /\ content = [i \in Inodes |-> "empty"]
  /\ summary = [r \in Reindexes |-> NoRun]
  /\ indexer = NoRun /\ overlapped = FALSE

Go(r, stage) == thread' = [thread EXCEPT ![r] = stage]

ClickReindex ==
  /\ ~requested /\ requested' = TRUE
  /\ UNCHANGED <<thread, disk, summary, indexer, overlapped>>

(* The cache file, if it parses.                                           *)
Cached ==
  IF names.cache # NoFile /\ content[names.cache] \in Reindexes
  THEN content[names.cache] ELSE NoRun

(* The next frame: a new indexer, which starts from the cache, and its     *)
(* thread, while others may still run.                                     *)
StartReindex(r) ==
  /\ requested /\ requested' = FALSE
  /\ thread[r] = "unused" /\ Go(r, "reading")
  /\ summary' = [summary EXCEPT ![r] = Cached]
  /\ indexer' = r
  /\ overlapped' = (overlapped \/ Active # {})
  /\ UNCHANGED disk

(* The folder cannot be read or holds no text.                             *)
ReadFolder(r) ==
  /\ thread[r] = "reading" /\ (Go(r, "asking") \/ Go(r, "failed"))
  /\ UNCHANGED <<requested, disk, summary, indexer, overlapped>>

(* The model fails, or answers no JSON.                                    *)
AskModel(r) ==
  /\ thread[r] = "asking" /\ (Go(r, "opening") \/ Go(r, "failed"))
  /\ UNCHANGED <<requested, disk, summary, indexer, overlapped>>

Free == {i \in Inodes : i \notin {names.tmp, names.cache} /\ \A r \in Active : handle[r] # i}

(* Faulty: the summary is written in place.                                *)
OpenInPlace(r) ==
  /\ thread[r] = "opening" /\ Go(r, "writing")
  /\ \E i \in IF names.cache = NoFile THEN Free ELSE {names.cache} :
       /\ names' = [names EXCEPT !.cache = i]
       /\ content' = [content EXCEPT ![i] = "empty"]
       /\ handle' = [handle EXCEPT ![r] = i]
  /\ UNCHANGED <<requested, summary, indexer, overlapped>>

(* The temporary file is created, or the one that is there is emptied.  If *)
(* that fails the cache stays as it is.                                    *)
Open(r) ==
  /\ thread[r] = "opening"
  /\ \/ /\ Go(r, "writing")
        /\ \E i \in IF names.tmp = NoFile THEN Free ELSE {names.tmp} :
             /\ names' = [names EXCEPT !.tmp = i]
             /\ content' = [content EXCEPT ![i] = "empty"]
             /\ handle' = [handle EXCEPT ![r] = i]
     \/ Go(r, "publishing") /\ UNCHANGED disk
  /\ UNCHANGED <<requested, summary, indexer, overlapped>>

(* Over what another run has written meanwhile a shorter text leaves the   *)
(* rest of the longer one.  A write that fails leaves half a text.         *)
Write(r) ==
  /\ thread[r] = "writing"
  /\ \/ /\ Go(r, "renaming")
        /\ content' = [content EXCEPT ![handle[r]] = r]
     \/ /\ content[handle[r]] # "empty" /\ Go(r, "renaming")
        /\ content' = [content EXCEPT ![handle[r]] = "mixed"]
     \/ /\ Go(r, "publishing")
        /\ content' = [content EXCEPT ![handle[r]] = "mixed"]
  /\ UNCHANGED <<requested, handle, names, summary, indexer, overlapped>>

(* Without a temporary file the rename fails, which is ignored.            *)
Rename(r) ==
  /\ thread[r] = "renaming" /\ Go(r, "publishing")
  /\ names' = IF names.tmp = NoFile THEN names
              ELSE [tmp |-> NoFile, cache |-> names.tmp]
  /\ UNCHANGED <<requested, handle, content, summary, indexer, overlapped>>

Publish(r) ==
  /\ thread[r] = "publishing" /\ Go(r, "done")
  /\ summary' = [summary EXCEPT ![r] = r]
  /\ UNCHANGED <<requested, disk, indexer, overlapped>>

(* The program ends, wherever its threads are, and is started again with   *)
(* an indexer of its own for no folder.                                    *)
Restart ==
  /\ Active # {}
  /\ thread' = [r \in Reindexes |-> IF r \in Active THEN "killed" ELSE thread[r]]
  /\ requested' = FALSE /\ indexer' = NoRun
  /\ UNCHANGED <<disk, summary, overlapped>>

ProfileIndexNext ==
  \/ ClickReindex \/ Restart
  \/ \E r \in Reindexes :
       \/ StartReindex(r) \/ ReadFolder(r) \/ AskModel(r)
       \/ Open(r) \/ Write(r) \/ Rename(r) \/ Publish(r)

ProfileIndexSpec == Init /\ [][ProfileIndexNext]_vars

(* ------------------------------ properties ----------------------------- *)

ProfileIndexTypeOK ==
  /\ requested \in BOOLEAN /\ overlapped \in BOOLEAN
  /\ thread \in [Reindexes -> Stages \cup Over]
  /\ handle \in [Reindexes -> Inodes \cup {NoFile}]
  /\ names \in [tmp : Inodes \cup {NoFile}, cache : Inodes \cup {NoFile}]
  /\ content \in [Inodes -> Contents]
  /\ summary \in [Reindexes -> Reindexes \cup {NoRun}]
  /\ indexer \in Reindexes \cup {NoRun}

(* At every moment, also when the program is killed while it writes or the *)
(* disk is full, the cached summary is the whole one of some run: as long  *)
(* as no two runs were under way at once, which nothing prevents.          *)
CacheIsWhole ==
  overlapped \/ names.cache = NoFile \/ content[names.cache] \in Reindexes
=============================================================================
