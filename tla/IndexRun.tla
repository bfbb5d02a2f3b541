------------------------------- MODULE IndexRun -------------------------------
(***************************************************************************)
(* What one cbm_pipeline_run does to a project's DB file, run after run:   *)
(* discovery, the choice between the incremental and the full route, the   *)
(* parsing file by file, the dump that replaces the DB and the file-hash   *)
(* rows that tell the next run what is up to date. Between any two steps   *)
(* the user may edit, delete or create a file, shutdown may cancel the run *)
(* and the process may die. A version number stands for a file's content   *)
(* and for the (mtime, size) pair a hash row keeps of it.                  *)
(***************************************************************************)
EXTENDS Integers, FiniteSets

CONSTANTS Files,
          FastSkipped,  \* files only a full-mode discovery visits
          MaxEdits, MaxRuns, MaxCancels, MaxCrashes, MaxFails

ASSUME IndexRunAssumption ==
  /\ FastSkipped \subseteq Files
  /\ {MaxEdits, MaxRuns, MaxCancels, MaxCrashes, MaxFails} \subseteq Nat

None == [f \in Files |-> 0]

VARIABLES disk,        \* version of each file on disk (0: absent)
          db,          \* the DB file: "none", "partial" or "ok"
          graph,       \* version whose nodes the DB holds (0: none)
          hash,        \* version in its file_hashes row (0: no row)
          pc, mode,
          route,       \* "full" or "incr"
          files,       \* what discovery returned
          gbuf,        \* version whose nodes the graph buffer holds
          todo,        \* changed files not yet parsed
          kept,        \* files whose nodes were loaded from the DB and kept
          skipped,     \* hash rows of the mode-skipped files
          rows,        \* files whose hash row is still to be written
          cancelled,   \* p->cancelled
          rc,          \* what cbm_pipeline_run returned
          edits, runs, cancels, crashes, fails,
          touched,     \* history: not looked at since it changed on disk, or
                       \* could not be read
          excused,     \* history: DB entries made under a race, cancel, crash
                       \* or failed write
          had          \* history: files the DB had nodes and a row of before

stored == <<db, graph, hash>>
work == <<mode, route, files, gbuf, todo, kept, skipped, rows, had>>
bounds == <<edits, runs, cancels, crashes, fails>>

vars == <<disk, stored, work, pc, cancelled, rc, bounds, touched, excused>>

Init ==
  /\ disk \in [Files -> {0, 1}]
  /\ db = "none" /\ graph = None /\ hash = None
  /\ pc = "idle" /\ mode = "full" /\ route = "full"
  /\ files = {} /\ gbuf = None /\ todo = {} /\ kept = {}
  /\ skipped = None /\ rows = {} /\ had = {}
  /\ cancelled = FALSE /\ rc = 0
  /\ edits = 1 /\ runs = 0 /\ cancels = 0 /\ crashes = 0 /\ fails = 0
  /\ touched = {} /\ excused = {}

Return(code) == pc' = "done" /\ rc' = code

-----------------------------------------------------------------------------
(* The user, shutdown and the machine *)

\* The file gets new content, or is removed.
Edit(f) ==
  /\ edits <= MaxEdits
  /\ edits' = edits + 1
  /\ \E v \in {0, edits + 1} : v # disk[f] /\ disk' = [disk EXCEPT ![f] = v]
  /\ touched' = touched \union {f}
  /\ UNCHANGED <<stored, work, pc, cancelled, rc, runs, cancels, crashes, fails, excused>>

\* cbm_pipeline_cancel
Cancel ==
  /\ pc \notin {"idle", "done"} /\ ~cancelled /\ cancels < MaxCancels
  /\ cancels' = cancels + 1
  /\ cancelled' = TRUE
  /\ UNCHANGED <<disk, stored, work, pc, rc, edits, runs, crashes, fails, touched, excused>>

\* The process dies; the next one finds the files as they are.
Crash ==
  /\ pc \notin {"idle", "done"} /\ crashes < MaxCrashes
  /\ crashes' = crashes + 1
  /\ pc' = "idle"
  /\ excused' = IF pc = "persist" THEN excused \union rows ELSE excused
  /\ UNCHANGED <<disk, stored, work, cancelled, rc, edits, runs, cancels, fails, touched>>

-----------------------------------------------------------------------------
(* cbm_pipeline_run up to the choice of the route *)

Start(m) ==
  /\ pc = "idle" /\ runs < MaxRuns
  /\ runs' = runs + 1
  /\ mode' = m /\ cancelled' = FALSE
  /\ had' = {f \in Files : db = "ok" /\ graph[f] # 0 /\ hash[f] # 0}
  /\ touched' = {}
  /\ pc' = "discover"
  /\ UNCHANGED <<disk, stored, route, files, gbuf, todo, kept, skipped, rows, rc,
                 edits, cancels, crashes, fails, excused>>

Discover ==
  /\ pc = "discover"
  /\ files' = {f \in Files : disk[f] # 0 /\ (mode = "full" \/ f \notin FastSkipped)}
  /\ IF cancelled THEN Return(-1) ELSE pc' = "route" /\ UNCHANGED rc
  /\ UNCHANGED <<disk, stored, mode, route, gbuf, todo, kept, skipped, rows, had,
                 cancelled, bounds, touched, excused>>

\* Discovery fails, or a pass of a full run does.
FailPass ==
  /\ pc = "discover" \/ (pc = "extract" /\ route = "full")
  /\ fails < MaxFails
  /\ fails' = fails + 1
  /\ Return(-1)
  /\ UNCHANGED <<disk, stored, work, cancelled, edits, runs, cancels, crashes,
                 touched, excused>>

Rows == {f \in Files : hash[f] # 0}

\* The DB opens and has rows, and discovery did not find many more files.
UseIncremental ==
  /\ db = "ok" /\ Rows # {}
  /\ Cardinality(files) <= Cardinality(Rows) + Cardinality(Rows) \div 2

BeginFull ==
  /\ route' = "full"
  /\ gbuf' = None /\ todo' = files /\ kept' = {} /\ skipped' = None
  /\ touched' = {}
  /\ pc' = "extract"
  /\ UNCHANGED <<disk, mode, files, rows, had, cancelled, rc, edits, runs, cancels,
                 crashes, excused>>

\* The old DB is unlinked at once, also when it could not be opened just now.
RouteFull ==
  /\ pc = "route"
  /\ \/ ~UseIncremental /\ UNCHANGED fails
     \/ fails < MaxFails /\ fails' = fails + 1
  /\ db' = "none" /\ graph' = None /\ hash' = None
  /\ BeginFull

\* The incremental route cannot load the graph: a full run, DB still there.
RouteLoadFails ==
  /\ pc = "route" /\ UseIncremental /\ fails < MaxFails
  /\ fails' = fails + 1
  /\ BeginFull
  /\ UNCHANGED stored

\* Mutant: only files without a row are parsed.
BugChanged == {f \in files : hash[f] = 0}

\* classify_files: no row, or a row the file on disk differs from.
Changed == {f \in files : hash[f] = 0 \/ disk[f] # hash[f]}

\* Mutant: a stored file that discovery did not visit counts as deleted.
BugDeleted == Rows \ files

\* find_deleted_files: stored, not visited and not on disk. A stored file not
\* visited that does exist is mode-skipped.
Deleted == {f \in Rows \ files : disk[f] = 0}
ModeSkipped == (Rows \ files) \ Deleted

RouteNoop ==
  /\ pc = "route" /\ UseIncremental
  /\ Changed = {} /\ Deleted = {}
  /\ route' = "noop"
  /\ touched' = {}
  /\ Return(0)
  /\ UNCHANGED <<disk, stored, mode, files, gbuf, todo, kept, skipped, rows, had,
                 cancelled, bounds, excused>>

\* The graph is loaded, the nodes of changed and deleted files are purged.
RouteIncremental ==
  /\ pc = "route" /\ UseIncremental
  /\ Changed # {} \/ Deleted # {}
  /\ route' = "incr"
  /\ todo' = Changed
  /\ kept' = Files \ (Changed \union Deleted)
  /\ gbuf' = [f \in Files |-> IF f \in kept' THEN graph[f] ELSE 0]
  /\ skipped' = [f \in Files |-> IF f \in ModeSkipped THEN hash[f] ELSE 0]
  /\ touched' = {}
  /\ pc' = "extract"
  /\ UNCHANGED <<disk, stored, mode, files, rows, had, cancelled, rc, bounds, excused>>

-----------------------------------------------------------------------------
(* Extraction *)

\* A worker reads and parses one file (nothing if it has vanished).
Extract(f) ==
  /\ pc = "extract" /\ f \in todo
  /\ gbuf' = [gbuf EXCEPT ![f] = disk[f]]
  /\ todo' = todo \ {f}
  /\ touched' = touched \ {f}
  /\ UNCHANGED <<disk, stored, mode, route, files, kept, skipped, rows, had, pc,
                 cancelled, rc, bounds, excused>>

\* The file cannot be read or parsed: counted as an error, otherwise ignored.
FailExtract(f) ==
  /\ pc = "extract" /\ f \in todo /\ fails < MaxFails
  /\ fails' = fails + 1
  /\ todo' = todo \ {f}
  /\ touched' = touched \union {f}
  /\ UNCHANGED <<disk, stored, mode, route, files, gbuf, kept, skipped, rows, had, pc,
                 cancelled, rc, edits, runs, cancels, crashes, excused>>

\* The passes are over. A cancelled full run gives up; a cancelled incremental
\* run has skipped the rest of the files and goes on.
EndExtract ==
  /\ pc = "extract"
  /\ todo = {} \/ cancelled
  /\ IF route = "full" /\ cancelled THEN Return(-1) ELSE pc' = "predump" /\ UNCHANGED rc
  /\ UNCHANGED <<disk, stored, work, cancelled, bounds, touched, excused>>

-----------------------------------------------------------------------------
(* Dump and hash rows *)

\* The last look at the flag, in a full run only: nothing is dumped, rc is 0.
CancelledBeforeDump ==
  /\ pc = "predump" /\ route = "full" /\ cancelled
  /\ Return(0)
  /\ UNCHANGED <<disk, stored, work, cancelled, bounds, touched, excused>>

\* The old file is gone, the new one has no header page yet.
OpenDump ==
  /\ pc = "predump"
  /\ route = "incr" \/ ~cancelled
  /\ db' = "partial" /\ graph' = None /\ hash' = None
  /\ pc' = "dump"
  /\ UNCHANGED <<disk, work, cancelled, rc, bounds, touched, excused>>

\* Mutant: the rows of the mode-skipped files are not carried over.
BugFinishDump ==
  /\ pc = "dump"
  /\ db' = "ok" /\ graph' = gbuf /\ hash' = None
  /\ rows' = files
  /\ excused' = excused \intersect kept
  /\ pc' = "persist"
  /\ UNCHANGED <<disk, mode, route, files, gbuf, todo, kept, skipped, had, cancelled,
                 rc, bounds, touched>>

\* The header page is written: the DB holds the graph and no hash row yet.
FinishDump ==
  /\ pc = "dump"
  /\ db' = "ok" /\ graph' = gbuf /\ hash' = None
  /\ rows' = files \union {f \in Files : skipped[f] # 0}
  /\ excused' = excused \intersect kept
  /\ pc' = "persist"
  /\ UNCHANGED <<disk, mode, route, files, gbuf, todo, kept, skipped, had, cancelled,
                 rc, bounds, touched>>

\* The dump fails. Only the full route looks at the result; the incremental
\* one opens what is there, which may create an empty DB.
FailDump ==
  /\ pc = "dump" /\ fails < MaxFails
  /\ fails' = fails + 1
  /\ IF route = "full" THEN Return(-1) /\ UNCHANGED db
                       ELSE Return(0) /\ db' \in {"partial", "ok"}
  /\ excused' = IF route = "full" THEN excused ELSE Files
  /\ UNCHANGED <<disk, graph, hash, work, cancelled, edits, runs, cancels, crashes, touched>>

\* The rows of the visited files are written first.
NextRow(f) == f \in rows /\ (f \in files \/ rows \intersect files = {})

\* One upsert. A visited file's row has its present mtime and size (no row if
\* it is gone), a mode-skipped file's row is the old one.
Persist(f) ==
  /\ pc = "persist" /\ NextRow(f)
  /\ rows' = rows \ {f}
  /\ hash' = [hash EXCEPT ![f] = IF f \in files THEN disk[f] ELSE skipped[f]]
  /\ excused' = IF f \in files /\ f \in touched \union todo
                 THEN excused \union {f} ELSE excused
  /\ UNCHANGED <<disk, db, graph, mode, route, files, gbuf, todo, kept, skipped, had,
                 pc, cancelled, rc, bounds, touched>>

\* An upsert fails: logged only.
FailPersist(f) ==
  /\ pc = "persist" /\ NextRow(f) /\ fails < MaxFails
  /\ fails' = fails + 1
  /\ rows' = rows \ {f}
  /\ excused' = excused \union {f}
  /\ UNCHANGED <<disk, stored, mode, route, files, gbuf, todo, kept, skipped, had, pc,
                 cancelled, rc, edits, runs, cancels, crashes, touched>>

\* The new DB cannot be opened: no row is written, the run still returns 0.
FailOpenStore ==
  /\ pc = "persist" /\ files \subseteq rows /\ fails < MaxFails
  /\ fails' = fails + 1
  /\ excused' = excused \union rows
  /\ Return(0)
  /\ UNCHANGED <<disk, stored, work, cancelled, edits, runs, cancels, crashes, touched>>

EndPersist ==
  /\ pc = "persist" /\ rows = {}
  /\ Return(0)
  /\ UNCHANGED <<disk, stored, work, cancelled, bounds, touched, excused>>

Finish ==
  /\ pc = "done"
  /\ pc' = "idle"
  /\ UNCHANGED <<disk, stored, work, cancelled, rc, bounds, touched, excused>>

Idle == pc = "idle" /\ runs = MaxRuns /\ UNCHANGED vars

Next ==
  \/ \E f \in Files : Edit(f) \/ Extract(f) \/ FailExtract(f) \/ Persist(f) \/ FailPersist(f)
  \/ Cancel \/ Crash
  \/ \E m \in {"full", "fast"} : Start(m)
  \/ Discover \/ RouteFull \/ RouteLoadFails \/ RouteNoop \/ RouteIncremental
  \/ EndExtract \/ CancelledBeforeDump \/ OpenDump \/ FinishDump \/ FailDump
  \/ FailPass \/ FailOpenStore \/ EndPersist \/ Finish \/ Idle

Spec == Init /\ [][Next]_vars

-----------------------------------------------------------------------------
(* Properties *)

\* What the program's variables hold, from one run to the next.
TypeOK ==
  /\ disk \in [Files -> Nat] /\ graph \in [Files -> Nat] /\ hash \in [Files -> Nat]
  /\ db \in {"none", "partial", "ok"}
  /\ pc \in {"idle", "discover", "route", "extract", "predump", "dump", "persist", "done"}
  /\ mode \in {"full", "fast"} /\ route \in {"full", "incr", "noop"}
  /\ gbuf \in [Files -> Nat] /\ skipped \in [Files -> Nat]
  /\ {files, todo, kept, rows, had, touched, excused} \subseteq SUBSET Files
  /\ cancelled \in BOOLEAN /\ rc \in {0, -1} /\ edits \in Nat

\* Between runs, whatever was interrupted, a file's hash row names the very
\* version whose nodes the DB holds, and a file without nodes has no row. The
\* exceptions were changed on disk after the run read them, or their row was
\* not written (excused): no other sequence of runs, routes, modes, crashes
\* and failed dumps makes the next run take an outdated file for up to date,
\* or leaves nodes no later run would purge.
RowsMatchGraph ==
  pc = "idle" /\ db = "ok" => \A f \in Files \ excused : hash[f] = graph[f]

\* A run that was not cancelled and returns 0 has made the index equal to the
\* files it visited and holds no nodes of files that are gone, save those that
\* changed or could not be read while it ran, and those excused.
QuietRunExact ==
  pc = "done" /\ rc = 0 /\ ~cancelled =>
    \A f \in Files \ (touched \union excused) :
      /\ f \in files => graph[f] = disk[f]
      /\ disk[f] = 0 => graph[f] = 0

\* The additive-merge contract on the incremental route: the nodes of a file
\* that a fast run does not visit survive it, and stay deletable by a row.
IncrementalKeepsSkipped ==
  pc = "done" /\ route = "incr" /\ mode = "fast" =>
    \A f \in (had \intersect FastSkipped) \ (touched \union excused) :
      disk[f] # 0 => graph[f] # 0 /\ hash[f] # 0

=============================================================================
