------------------------------- MODULE Watcher -------------------------------
(***************************************************************************)
(* Change detection: the watcher polls the session's project through git   *)
(* (watcher.c) and reindexes it through watcher_index_fn (main.c), while   *)
(* a user edits, commits, discards and checks out, and other threads index *)
(* the same project under the pipeline lock. Contents of the working tree  *)
(* are numbered; a commit is the number of the content it records, 0 the   *)
(* repository before its first one. A git command may fail: nothing is     *)
(* read then, and the code goes on with what it had.                       *)
(***************************************************************************)
EXTENDS Naturals

CONSTANTS MaxVersion,   \* contents of the working tree
          MaxOthers,    \* runs of index_repository and autoindex_thread
          MaxFails,     \* watcher runs that fail
          MaxGitFails   \* git commands that fail

ASSUME WatcherAssumption ==
  MaxVersion \in Nat /\ MaxOthers \in Nat /\ MaxFails \in Nat /\ MaxGitFails \in Nat

Versions == 0..MaxVersion
NoHead == MaxVersion + 1  \* last_head before git_head has filled it

VARIABLES tree,        \* content of the working tree
          head,        \* content of HEAD
          commits,     \* every commit there is
          top,         \* number of the newest content
          idx,         \* content of the project's index
          holder,      \* who has the pipeline lock
          got,         \* content the holder has read
          others, fails, gitfails,
          state,       \* of the project: "none", or a project_state_t that is
                       \* "new" (no baseline), "git" or "skip" (not git)
          last_head,   \* s->last_head
          waiting,     \* now < s->next_poll_ns
          pc,          \* of the watcher thread
          shutdown     \* g_shutdown, then w->stopped

repo == <<tree, head, commits, top>>
lock == <<holder, got, others, fails>>
project == <<state, last_head, waiting>>

vars == <<repo, idx, lock, project, pc, shutdown, gitfails>>

Init ==
  /\ tree = 0 /\ head = 0 /\ commits = {0} /\ top = 0
  /\ idx = 0
  /\ holder = "none" /\ got = 0 /\ others = 0 /\ fails = 0 /\ gitfails = 0
  /\ state = "none" /\ last_head = NoHead /\ waiting = FALSE
  /\ pc = "sleep"
  /\ shutdown = FALSE

Dirty == tree # head

-----------------------------------------------------------------------------
(* The user and git *)

Edit ==
  /\ top < MaxVersion
  /\ top' = top + 1 /\ tree' = top + 1
  /\ UNCHANGED <<head, commits, idx, lock, project, pc, shutdown, gitfails>>

Commit ==
  /\ Dirty
  /\ head' = tree
  /\ commits' = commits \union {tree}
  /\ UNCHANGED <<tree, top, idx, lock, project, pc, shutdown, gitfails>>

\* git checkout -- . or git stash
Discard ==
  /\ Dirty
  /\ tree' = head
  /\ UNCHANGED <<head, commits, top, idx, lock, project, pc, shutdown, gitfails>>

Checkout(c) ==
  /\ ~Dirty /\ c # head
  /\ head' = c /\ tree' = c
  /\ UNCHANGED <<commits, top, idx, lock, project, pc, shutdown, gitfails>>

-----------------------------------------------------------------------------
(* index_repository and autoindex_thread *)

OtherReads ==
  /\ holder = "none" /\ others < MaxOthers
  /\ holder' = "other" /\ got' = tree /\ others' = others + 1
  /\ UNCHANGED <<repo, idx, fails, project, pc, shutdown, gitfails>>

OtherIndexes ==
  /\ holder = "other"
  /\ holder' = "none" /\ idx' = got
  /\ UNCHANGED <<repo, got, others, fails, project, pc, shutdown, gitfails>>

\* cbm_watcher_watch, by initialize or after an auto-index run.
Watch ==
  /\ state = "none"
  /\ state' = "new"
  /\ UNCHANGED <<repo, idx, lock, last_head, waiting, pc, shutdown, gitfails>>

-----------------------------------------------------------------------------
(* poll_project *)

\* popen fails, or git prints nothing.
GitFails == gitfails < MaxGitFails /\ gitfails' = gitfails + 1

\* The first poll only records HEAD, if git gives it; what the index lacks then
\* is not looked for. A root that is gone or not a git repository is never polled again.
InitBaseline ==
  /\ pc = "sleep" /\ ~shutdown /\ state = "new"
  /\ \/ state' = "git" /\ last_head' = head /\ waiting' = TRUE /\ UNCHANGED gitfails
     \/ state' = "git" /\ GitFails /\ waiting' = TRUE /\ UNCHANGED last_head
     \/ state' = "skip" /\ UNCHANGED <<last_head, waiting, gitfails>>
  /\ UNCHANGED <<repo, idx, lock, pc, shutdown>>

IntervalElapses ==
  /\ waiting
  /\ waiting' = FALSE
  /\ UNCHANGED <<repo, idx, lock, state, last_head, pc, shutdown, gitfails>>

\* Mutant: a moved HEAD is recorded and only the tree's status decides.
BugCheckHead ==
  /\ pc = "sleep" /\ ~shutdown /\ state = "git" /\ ~waiting
  /\ last_head' = head
  /\ pc' = "status"
  /\ UNCHANGED <<repo, idx, lock, state, waiting, shutdown, gitfails>>

\* check_changes: HEAD first, recorded at once; if it has not moved, was never
\* recorded before or cannot be read, the status of the working tree, in a
\* second git process.
CheckHead ==
  /\ pc = "sleep" /\ ~shutdown /\ state = "git" /\ ~waiting
  /\ \/ /\ last_head' = head
        /\ pc' = IF last_head # NoHead /\ head # last_head THEN "changed" ELSE "status"
        /\ UNCHANGED gitfails
     \/ GitFails /\ pc' = "status" /\ UNCHANGED last_head
  /\ UNCHANGED <<repo, idx, lock, state, waiting, shutdown>>

\* Mutant: git_is_dirty answers that the tree is clean.
BugCheckStatus ==
  /\ pc = "status"
  /\ pc' = "sleep" /\ waiting' = TRUE
  /\ UNCHANGED <<repo, idx, lock, state, last_head, shutdown, gitfails>>

\* git_is_dirty; a failing git means clean.
CheckStatus ==
  /\ pc = "status"
  /\ \/ Dirty /\ pc' = "changed" /\ UNCHANGED <<waiting, gitfails>>
     \/ ~Dirty /\ pc' = "sleep" /\ waiting' = TRUE /\ UNCHANGED gitfails
     \/ GitFails /\ pc' = "sleep" /\ waiting' = TRUE
  /\ UNCHANGED <<repo, idx, lock, state, last_head, shutdown>>

-----------------------------------------------------------------------------
(* watcher_index_fn *)

\* Shutting down or lock busy: the callback returns 0 without a run.
SkipRun ==
  /\ pc = "changed"
  /\ shutdown \/ holder # "none"
  /\ pc' = "skipped"
  /\ UNCHANGED <<repo, idx, lock, project, shutdown, gitfails>>

StartRun ==
  /\ pc = "changed" /\ ~shutdown /\ holder = "none"
  /\ holder' = "watcher" /\ got' = tree
  /\ pc' = "run"
  /\ UNCHANGED <<repo, idx, others, fails, project, shutdown, gitfails>>

EndRun ==
  /\ pc = "run"
  /\ idx' = got /\ holder' = "none"
  /\ pc' = "indexed"
  /\ UNCHANGED <<repo, got, others, fails, project, shutdown, gitfails>>

\* No pipeline, or its run returns -1: only the interval is set.
FailRun ==
  /\ pc = "run" /\ fails < MaxFails
  /\ holder' = "none" /\ fails' = fails + 1
  /\ waiting' = TRUE
  /\ pc' = "sleep"
  /\ UNCHANGED <<repo, idx, got, others, state, last_head, shutdown, gitfails>>

\* After a 0 from the callback poll_project records HEAD again.
UpdateHead ==
  /\ pc \in {"skipped", "indexed"}
  /\ \/ last_head' = head /\ UNCHANGED gitfails
     \/ GitFails /\ UNCHANGED last_head
  /\ waiting' = TRUE
  /\ pc' = "sleep"
  /\ UNCHANGED <<repo, idx, lock, state, shutdown>>

Shutdown ==
  /\ ~shutdown
  /\ shutdown' = TRUE
  /\ UNCHANGED <<repo, idx, lock, project, pc, gitfails>>

WatcherExit ==
  /\ pc = "sleep" /\ shutdown
  /\ pc' = "exited"
  /\ UNCHANGED <<repo, idx, lock, project, shutdown, gitfails>>

Exited == pc = "exited" /\ UNCHANGED vars

WatcherStep ==
  \/ InitBaseline \/ CheckHead \/ CheckStatus \/ SkipRun \/ StartRun
  \/ EndRun \/ FailRun \/ UpdateHead \/ WatcherExit

Next ==
  \/ Edit \/ Commit \/ Discard \/ \E c \in commits : Checkout(c)
  \/ OtherReads \/ OtherIndexes \/ Watch
  \/ IntervalElapses \/ WatcherStep \/ Shutdown \/ Exited

\* The watcher thread runs, time passes and a run that holds the lock ends.
Fairness ==
  /\ WF_vars(WatcherStep)
  /\ WF_vars(IntervalElapses)
  /\ WF_vars(OtherIndexes)

Spec == Init /\ [][Next]_vars /\ Fairness

-----------------------------------------------------------------------------
(* Properties *)

\* What the project state, the lock and the repository hold.
TypeOK ==
  /\ tree \in Versions /\ head \in Versions /\ commits \subseteq Versions
  /\ top \in Versions /\ idx \in Versions /\ got \in Versions
  /\ holder \in {"none", "other", "watcher"}
  /\ others \in 0..MaxOthers /\ fails \in 0..MaxFails /\ gitfails \in 0..MaxGitFails
  /\ state \in {"none", "new", "git", "skip"}
  /\ last_head \in Versions \union {NoHead} /\ waiting \in BOOLEAN
  /\ pc \in {"sleep", "status", "changed", "run", "skipped", "indexed", "exited"}
  /\ shutdown \in BOOLEAN

\* The index lacks the working tree's content, and neither HEAD, which is the
\* recorded one or is recorded unseen, nor the status of the tree will tell.
Hidden ==
  /\ state = "git" /\ pc \in {"sleep", "status"}
  /\ idx # tree /\ ~Dirty /\ last_head \in {head, NoHead}

\* A change the watcher could see becomes invisible to it only by the
\* baseline, by going back to content it had recorded, by another thread's
\* run that read older content, by a failed run, by the second recording of
\* HEAD, and by a commit while no HEAD is recorded because git failed in the
\* baseline. No other edit or commit, at whatever point of check_changes, and
\* no other failure of git does it.
HiddenOnlyBy ==
  [][~Hidden /\ Hidden' =>
       \/ InitBaseline \/ Discard \/ \E c \in commits : Checkout(c)
       \/ OtherIndexes \/ FailRun \/ UpdateHead
       \/ Commit /\ last_head = NoHead]_vars

\* A change the watcher can see gets indexed, unless it becomes invisible as
\* above or the server shuts down: busy locks, skipped and failed runs and
\* failing git commands only delay it.
ChangeIndexed ==
  (state = "git" /\ idx # tree /\ ~Hidden) ~> (idx = tree \/ Hidden \/ shutdown)

=============================================================================
