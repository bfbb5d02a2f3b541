----------------------------- MODULE IndexServer -----------------------------
(***************************************************************************)
(* The threads of the MCP server process around the global pipeline lock:  *)
(* the main thread (cbm_mcp_server_run, then the shutdown code of main),   *)
(* the watcher thread, the auto-index threads that `initialize` launches,  *)
(* and request_shutdown, run by a signal handler or the parent watchdog.   *)
(* What a pipeline run computes is left to IndexRun; here a run is its use *)
(* of the lock, of the process-global user config and of the DB file.      *)
(***************************************************************************)
EXTENDS Naturals

CONSTANTS Autos,       \* names for the auto-index threads
          MaxInits     \* bound on the `initialize` requests received

ASSUME ServerAssumption ==
  /\ Autos \intersect {"mcp", "watcher", "none"} = {}
  /\ MaxInits \in Nat

Threads == {"mcp", "watcher"} \union Autos

VARIABLES busy,           \* g_pipeline_busy
          shutdown,       \* g_shutdown
          pc,             \* where each thread is
          sd,             \* where request_shutdown is
          sd_by,          \* who runs it: "signal" or "watchdog"
          target,         \* its local p: TRUE when not NULL
          active,         \* srv->active_pipeline is not NULL
          cancelled,      \* the cancelled flag of the main thread's pipeline
          allocated,      \* threads whose pipeline object exists
          userconfig,     \* threads whose p->userconfig is not NULL
          g_userconfig,   \* whose configuration g_userconfig points to
          indexed,        \* auto-index threads whose run returned 0
          db,             \* the project's .db file exists
          projects,       \* the registered project_state_t (0: none)
          snap,           \* the one in poll_once's snapshot (0: none)
          inits,          \* `initialize` requests handled
          autoindex_tid,  \* the auto-index thread main will join
          stopped,        \* w->stopped
          stdin_open,     \* stdin not yet closed by request_shutdown
          freed           \* which of "watcher", "server" main has freed

locking == <<busy, pc>>
stopping == <<shutdown, sd, sd_by, target, stopped, stdin_open>>
running == <<active, cancelled, allocated, userconfig, g_userconfig, indexed>>
watching == <<projects, snap>>
session == <<inits, autoindex_tid, freed>>

vars == <<locking, stopping, running, db, watching, session>>

Init ==
  /\ busy = FALSE
  /\ shutdown = FALSE
  /\ pc = [t \in Threads |-> CASE t = "mcp"     -> "loop"
                               [] t = "watcher" -> "sleep"
                               [] OTHER         -> "absent"]
  /\ sd = "idle" /\ sd_by = "none" /\ target = FALSE
  /\ active = FALSE /\ cancelled = FALSE
  /\ allocated = {} /\ userconfig = {} /\ g_userconfig = "none"
  /\ indexed = {}
  /\ db \in BOOLEAN
  /\ projects = 0 /\ snap = 0
  /\ inits = 0 /\ autoindex_tid = "none"
  /\ stopped = FALSE /\ stdin_open = TRUE
  /\ freed = {}

\* The process exists: main has not returned and exit was not called.
Running == pc["mcp"] \notin {"exited", "killed"}

At(t, l) == Running /\ pc[t] = l
Goto(t, l) == pc' = [pc EXCEPT ![t] = l]

-----------------------------------------------------------------------------
(* The pipeline lock and cbm_pipeline_run, the same code in every thread *)

\* One successful atomic_exchange of the spin in cbm_pipeline_lock.
Lock(t) ==
  /\ At(t, "lock")
  /\ ~busy
  /\ busy' = TRUE
  /\ Goto(t, "begin")
  /\ UNCHANGED <<stopping, running, db, watching, session>>

\* The main thread publishes its pipeline; the run loads the configuration
\* (NULL when that fails) and installs it process-wide.
BeginRun(t) ==
  /\ At(t, "begin")
  /\ active' = (active \/ t = "mcp")
  /\ \E loaded \in BOOLEAN :
       /\ userconfig' = IF loaded THEN userconfig \union {t} ELSE userconfig
       /\ g_userconfig' = IF loaded THEN t ELSE "none"
  /\ Goto(t, "run")
  /\ UNCHANGED <<busy, stopping, cancelled, allocated, indexed, db, watching, session>>

\* The cleanup label at the end of cbm_pipeline_run, with its return code.
Cleanup(t, ok) ==
  /\ g_userconfig' = "none"
  /\ userconfig' = userconfig \ {t}
  /\ indexed' = IF ok /\ t \in Autos THEN indexed \union {t} ELSE indexed
  /\ Goto(t, "ran")
  /\ UNCHANGED <<busy, stopping, active, cancelled, allocated, watching, session>>

\* Discovery fails or the run is cancelled before the route is chosen.
FailDiscovery(t) == At(t, "run") /\ Cleanup(t, FALSE) /\ UNCHANGED db

\* try_incremental_or_delete_db: no usable DB, the old file is unlinked (but
\* kept when the incremental route was tried and could not load it).
RouteFull(t) ==
  /\ At(t, "run")
  /\ t = "mcp" => ~cancelled
  /\ \E kept \in BOOLEAN : db' = (db /\ kept)
  /\ Goto(t, "full")
  /\ UNCHANGED <<busy, stopping, running, watching, session>>

\* A full run ends. A failed dump may leave a partial file; a run cancelled
\* just before the dump returns 0 without one.
EndFull(t) ==
  /\ At(t, "full")
  /\ \E ok, dumped \in BOOLEAN :
       /\ ok /\ (t = "mcp" => ~cancelled) => dumped
       /\ Cleanup(t, ok)
       /\ db' = (db \/ dumped)

\* The incremental route: a no-op keeps the file, otherwise dump_and_persist
\* unlinks it before writing the new one.
RouteIncremental(t) ==
  /\ At(t, "run")
  /\ t = "mcp" => ~cancelled
  /\ db
  /\ \E noop \in BOOLEAN : db' = noop
  /\ Goto(t, "incr")
  /\ UNCHANGED <<busy, stopping, running, watching, session>>

\* cbm_pipeline_run returns from the incremental route without its cleanup:
\* the configuration stays installed until the pipeline is freed.
EndIncremental(t) ==
  /\ At(t, "incr")
  /\ \E written \in BOOLEAN : db' = (db \/ written)
  /\ indexed' = IF t \in Autos THEN indexed \union {t} ELSE indexed
  /\ Goto(t, "ran")
  /\ UNCHANGED <<busy, stopping, active, cancelled, allocated, userconfig,
                 g_userconfig, watching, session>>

\* Mutant: cbm_pipeline_free frees the configuration and leaves it installed.
BugFree(t) ==
  /\ allocated' = allocated \ {t}
  /\ userconfig' = userconfig \ {t}
  /\ UNCHANGED g_userconfig

\* cbm_pipeline_free: a configuration still attached is uninstalled and freed.
Free(t) ==
  /\ allocated' = allocated \ {t}
  /\ g_userconfig' = IF t \in userconfig THEN "none" ELSE g_userconfig
  /\ userconfig' = userconfig \ {t}

\* index_repository and autoindex_thread unlock first and free afterwards.
UnlockThenFree(t) ==
  /\ t # "watcher"
  /\ At(t, "ran")
  /\ busy' = FALSE
  /\ active' = (active /\ t # "mcp")
  /\ Goto(t, "free")
  /\ UNCHANGED <<stopping, cancelled, allocated, userconfig, g_userconfig, indexed,
                 db, watching, session>>

-----------------------------------------------------------------------------
(* The main thread: requests *)

\* cbm_watcher_watch: the old project_state_t, if any, is freed and replaced.
Watch == projects' = projects + 1

\* Mutant: the return after registering an indexed project is missing.
BugInitialize ==
  /\ At("mcp", "loop") /\ stdin_open /\ inits < MaxInits
  /\ inits' = inits + 1
  /\ IF db THEN Watch ELSE UNCHANGED projects
  /\ \E a \in Autos :
       /\ At(a, "absent")
       /\ Goto(a, "lock")
       /\ allocated' = allocated \union {a}
       /\ autoindex_tid' = a
  /\ UNCHANGED <<busy, stopping, active, cancelled, userconfig, g_userconfig,
                 indexed, db, snap, freed>>

\* `initialize`: register an indexed project with the watcher, or launch
\* auto-indexing (the thread ends at once if it cannot create a pipeline). No
\* launch: no session root, disabled, too many files, or no thread.
Initialize ==
  /\ At("mcp", "loop") /\ stdin_open /\ inits < MaxInits
  /\ inits' = inits + 1
  /\ \/ db /\ Watch /\ UNCHANGED <<pc, allocated, autoindex_tid>>
     \/ /\ ~db
        /\ \E a \in Autos :
             /\ At(a, "absent")
             /\ \/ Goto(a, "lock") /\ allocated' = allocated \union {a}
                \/ Goto(a, "exited") /\ UNCHANGED allocated
             /\ autoindex_tid' = a
        /\ UNCHANGED projects
     \/ UNCHANGED <<pc, allocated, autoindex_tid, projects>>
  /\ UNCHANGED <<busy, stopping, active, cancelled, userconfig, g_userconfig,
                 indexed, db, snap, freed>>

\* index_repository up to the lock: a new pipeline; when there is no DB file
\* an artifact may be imported, without the lock.
IndexRepository ==
  /\ At("mcp", "loop") /\ stdin_open
  /\ allocated' = allocated \union {"mcp"}
  /\ cancelled' = FALSE
  /\ \E imported \in BOOLEAN : db' = (db \/ imported)
  /\ Goto("mcp", "lock")
  /\ UNCHANGED <<busy, stopping, active, userconfig, g_userconfig, indexed,
                 watching, session>>

FinishIndexRepository ==
  /\ At("mcp", "free")
  /\ Free("mcp")
  /\ Goto("mcp", "loop")
  /\ UNCHANGED <<busy, stopping, active, cancelled, indexed, db, watching, session>>

\* delete_project waits for the lock, unlinks the file and unlocks.
DeleteProject ==
  /\ At("mcp", "loop") /\ stdin_open
  /\ Goto("mcp", "del_lock")
  /\ UNCHANGED <<busy, stopping, running, db, watching, session>>

DeleteLock ==
  /\ At("mcp", "del_lock") /\ ~busy
  /\ busy' = TRUE
  /\ Goto("mcp", "del")
  /\ UNCHANGED <<stopping, running, db, watching, session>>

DeleteFile ==
  /\ At("mcp", "del")
  /\ \E deleted \in BOOLEAN : db' = (db /\ ~deleted)
  /\ busy' = FALSE
  /\ Goto("mcp", "loop")
  /\ UNCHANGED <<stopping, running, watching, session>>

-----------------------------------------------------------------------------
(* autoindex_thread after its run *)

FinishAutoindex(a) ==
  /\ At(a, "free")
  /\ Free(a)
  /\ Goto(a, IF a \in indexed THEN "watch" ELSE "exited")
  /\ UNCHANGED <<busy, stopping, active, cancelled, indexed, db, watching, session>>

RegisterIndexed(a) ==
  /\ At(a, "watch")
  /\ Watch
  /\ Goto(a, "exited")
  /\ UNCHANGED <<busy, stopping, running, db, snap, session>>

-----------------------------------------------------------------------------
(* The watcher thread *)

\* poll_once copies the project pointers under projects_lock, then drops it.
PollOnce ==
  /\ At("watcher", "sleep") /\ ~stopped
  /\ projects # 0
  /\ snap' = projects
  /\ Goto("watcher", "poll")
  /\ UNCHANGED <<busy, stopping, running, db, projects, session>>

\* poll_project finds nothing to do (or only sets the baseline), or
\* watcher_index_fn returns at its shutdown test.
PollSkips ==
  /\ At("watcher", "poll")
  /\ snap' = 0
  /\ Goto("watcher", "sleep")
  /\ UNCHANGED <<busy, stopping, running, db, projects, session>>

\* watcher_index_fn gets past its shutdown test.
IndexFn ==
  /\ At("watcher", "poll")
  /\ ~shutdown
  /\ Goto("watcher", "try_lock")
  /\ UNCHANGED <<busy, stopping, running, db, watching, session>>

\* Mutant: the result of the atomic_exchange is not tested.
BugTryLock ==
  /\ At("watcher", "try_lock")
  /\ busy' = TRUE
  /\ allocated' = allocated \union {"watcher"}
  /\ Goto("watcher", "begin")
  /\ UNCHANGED <<stopping, active, cancelled, userconfig, g_userconfig, indexed,
                 db, watching, session>>

\* A pipeline that cannot be created: straight to the unlock.
TryLock ==
  /\ At("watcher", "try_lock")
  /\ \/ busy /\ Goto("watcher", "post") /\ UNCHANGED <<busy, allocated>>
     \/ /\ ~busy
        /\ busy' = TRUE
        /\ \/ allocated' = allocated \union {"watcher"} /\ Goto("watcher", "begin")
           \/ Goto("watcher", "unlock") /\ UNCHANGED allocated
  /\ UNCHANGED <<stopping, active, cancelled, userconfig, g_userconfig, indexed,
                 db, watching, session>>

\* watcher_index_fn frees first and unlocks afterwards.
WatcherFree ==
  /\ At("watcher", "ran")
  /\ Free("watcher")
  /\ Goto("watcher", "unlock")
  /\ UNCHANGED <<busy, stopping, active, cancelled, indexed, db, watching, session>>

WatcherUnlock ==
  /\ At("watcher", "unlock")
  /\ busy' = FALSE
  /\ Goto("watcher", "post")
  /\ UNCHANGED <<stopping, running, db, watching, session>>

\* poll_project writes the new HEAD and interval into the project state.
PollDone ==
  /\ At("watcher", "post")
  /\ snap' = 0
  /\ Goto("watcher", "sleep")
  /\ UNCHANGED <<busy, stopping, running, db, projects, session>>

WatcherExit ==
  /\ At("watcher", "sleep") /\ stopped
  /\ Goto("watcher", "exited")
  /\ UNCHANGED <<busy, stopping, running, db, watching, session>>

-----------------------------------------------------------------------------
(* request_shutdown, and the end of main *)

\* The atomic_exchange lets one caller in; it reads the active pipeline.
\* The watchdog thread is joined before main frees anything.
RequestShutdown ==
  /\ Running /\ ~shutdown
  /\ shutdown' = TRUE
  /\ sd' = "cancel"
  /\ sd_by' \in {"signal", "watchdog"}
  /\ target' = active
  /\ UNCHANGED <<locking, stopped, stdin_open, running, db, watching, session>>

ShutdownCancel ==
  /\ Running /\ sd = "cancel"
  /\ cancelled' = (cancelled \/ target)
  /\ sd' = "unlock"
  /\ UNCHANGED <<locking, shutdown, sd_by, target, stopped, stdin_open, active,
                 allocated, userconfig, g_userconfig, indexed, db, watching, session>>

\* Unconditional, whoever holds the lock.
ShutdownUnlock ==
  /\ Running /\ sd = "unlock"
  /\ busy' = FALSE
  /\ sd' = "stop"
  /\ UNCHANGED <<pc, shutdown, sd_by, target, stopped, stdin_open, running, db,
                 watching, session>>

ShutdownStop ==
  /\ Running /\ sd = "stop"
  /\ stopped' = TRUE
  /\ stdin_open' = FALSE
  /\ sd' = "done"
  /\ UNCHANGED <<locking, shutdown, sd_by, target, running, db, watching, session>>

\* The watchdog calls exit(0) after request_shutdown.
WatchdogExit ==
  /\ Running /\ sd = "done" /\ sd_by = "watchdog"
  /\ Goto("mcp", "killed")
  /\ UNCHANGED <<busy, stopping, running, db, watching, session>>

\* The watchdog saw its parent gone just before g_shutdown was set elsewhere:
\* its request_shutdown returns at once and it exits the process all the same.
WatchdogExitsLate ==
  /\ Running /\ shutdown /\ sd_by # "watchdog"
  /\ pc["mcp"] \notin {"join_watcher", "join_autoindex", "returning"}
  /\ Goto("mcp", "killed")
  /\ UNCHANGED <<busy, stopping, running, db, watching, session>>

\* The event loop ends on EOF from the client or on the closed stdin.
LeaveLoop ==
  /\ At("mcp", "loop")
  /\ shutdown' = TRUE
  /\ Goto("mcp", "join_watchdog")
  /\ UNCHANGED <<busy, sd, sd_by, target, stopped, stdin_open, running, db,
                 watching, session>>

\* Mutant: the watcher thread is joined without being told to stop.
BugNoStop ==
  /\ At("mcp", "join_watchdog")
  /\ sd_by # "watchdog"
  /\ Goto("mcp", "join_watcher")
  /\ UNCHANGED <<busy, stopping, running, db, watching, session>>

\* The watchdog returns on its own once g_shutdown is set, unless it is the
\* caller of request_shutdown: then it never returns but exits the process.
JoinWatchdog ==
  /\ At("mcp", "join_watchdog")
  /\ sd_by # "watchdog"
  /\ stopped' = TRUE
  /\ Goto("mcp", "join_watcher")
  /\ UNCHANGED <<busy, shutdown, sd, sd_by, target, stdin_open, running, db,
                 watching, session>>

\* cbm_watcher_free, after the join of the watcher thread.
JoinWatcher ==
  /\ At("mcp", "join_watcher")
  /\ At("watcher", "exited")
  /\ freed' = freed \union {"watcher"}
  /\ Goto("mcp", "join_autoindex")
  /\ UNCHANGED <<busy, stopping, running, db, watching, inits, autoindex_tid>>

\* Mutant: the server is freed without joining the auto-index thread.
BugFreeServer ==
  /\ At("mcp", "join_autoindex")
  /\ freed' = freed \union {"server"}
  /\ Goto("mcp", "returning")
  /\ UNCHANGED <<busy, stopping, running, db, watching, inits, autoindex_tid>>

\* cbm_mcp_server_free joins the last auto-index thread, then frees.
FreeServer ==
  /\ At("mcp", "join_autoindex")
  /\ autoindex_tid # "none" => At(autoindex_tid, "exited")
  /\ freed' = freed \union {"server"}
  /\ Goto("mcp", "returning")
  /\ UNCHANGED <<busy, stopping, running, db, watching, inits, autoindex_tid>>

MainReturns ==
  /\ At("mcp", "returning")
  /\ Goto("mcp", "exited")
  /\ UNCHANGED <<busy, stopping, running, db, watching, session>>

\* The process is gone.
Ended == ~Running /\ UNCHANGED vars

RunStep(t) ==
  \/ Lock(t) \/ BeginRun(t) \/ FailDiscovery(t) \/ RouteFull(t) \/ EndFull(t)
  \/ RouteIncremental(t) \/ EndIncremental(t) \/ UnlockThenFree(t)

Request == Initialize \/ IndexRepository \/ DeleteProject

MainStep ==
  \/ RunStep("mcp") \/ FinishIndexRepository \/ DeleteLock \/ DeleteFile
  \/ JoinWatchdog \/ JoinWatcher \/ FreeServer \/ MainReturns

WatcherStep ==
  \/ RunStep("watcher") \/ PollSkips \/ TryLock \/ WatcherFree \/ WatcherUnlock
  \/ PollDone \/ WatcherExit

AutoStep(a) == RunStep(a) \/ FinishAutoindex(a) \/ RegisterIndexed(a)

ShutdownStep == ShutdownCancel \/ ShutdownUnlock \/ ShutdownStop \/ WatchdogExit

Next ==
  \/ Request \/ MainStep \/ LeaveLoop
  \/ PollOnce \/ IndexFn \/ WatcherStep
  \/ \E a \in Autos : AutoStep(a)
  \/ RequestShutdown \/ ShutdownStep \/ WatchdogExitsLate
  \/ Ended

\* Every thread keeps running and every pipeline run ends; requests, changes
\* seen by a poll and signals come when they come. The event loop must end
\* only once stdin is closed.
Fairness ==
  /\ WF_vars(MainStep)
  /\ WF_vars(~stdin_open /\ LeaveLoop)
  /\ WF_vars(WatcherStep)
  /\ \A a \in Autos : WF_vars(AutoStep(a))
  /\ WF_vars(ShutdownStep)

Spec == Init /\ [][Next]_vars /\ Fairness

-----------------------------------------------------------------------------
(* Properties *)

\* The types of the shared state; a registration is never undone.
TypeOK ==
  /\ busy \in BOOLEAN /\ shutdown \in BOOLEAN
  /\ pc \in [Threads -> {"loop", "lock", "begin", "run", "full", "incr", "ran",
        "free", "del_lock", "del", "join_watchdog", "join_watcher",
        "join_autoindex", "returning", "exited", "killed", "absent", "watch",
        "sleep", "poll", "try_lock", "unlock", "post"}]
  /\ sd \in {"idle", "cancel", "unlock", "stop", "done"}
  /\ sd_by \in {"none", "signal", "watchdog"} /\ target \in BOOLEAN
  /\ active \in BOOLEAN /\ cancelled \in BOOLEAN
  /\ allocated \subseteq Threads /\ userconfig \subseteq Threads
  /\ g_userconfig \in Threads \union {"none"}
  /\ indexed \subseteq Autos
  /\ db \in BOOLEAN
  /\ projects \in Nat /\ snap \in Nat /\ inits \in Nat
  /\ autoindex_tid \in Autos \union {"none"}
  /\ stopped \in BOOLEAN /\ stdin_open \in BOOLEAN
  /\ freed \subseteq {"watcher", "server"}

InRun == {"run", "full", "incr"}
Holding == {"begin", "ran", "unlock", "del"} \union InRun

\* request_shutdown has released a lock it may not hold.
LockStolen == sd \in {"stop", "done"}

\* The index lock (pipeline.c:51): two threads are never between lock and
\* unlock together.
Exclusive ==
  \A t, u \in Threads : pc[t] \in Holding /\ pc[u] \in Holding => t = u

\* Until request_shutdown unlocks, the lock does exclude: index_repository,
\* delete_project, auto-index threads and the watcher never overlap.
ExclusiveUntilShutdown == ~LockStolen => Exclusive

\* g_userconfig never points to a freed configuration, whichever of the two
\* orders of unlock and cbm_pipeline_free the threads use.
ConfigNotDangling == g_userconfig # "none" => g_userconfig \in userconfig

\* userconfig.h: the setter is "not thread-safe - call before spawning worker
\* threads". Until shutdown, the configuration of a run at work is cleared
\* only by a thread that unlocked before it frees its pipeline: never by the
\* watcher, which frees first, and never by the start or end of another run.
ConfigClearedOnlyByFree ==
  [][\A t \in Threads :
       /\ ~LockStolen /\ pc[t] \in InRun /\ pc'[t] \in InRun
       /\ g_userconfig = t /\ g_userconfig' # t
       => \E u \in Threads \ {"watcher", t} : pc[u] = "free"]_vars

\* A client that sends `initialize` once, as the protocol says: the project
\* state in poll_once's snapshot is not replaced while poll_project uses it.
SnapshotLive == inits <= 1 /\ snap # 0 => snap = projects

\* main frees the server only after the auto-index threads have ended (they
\* dereference srv to the end). A thread can be left only by a client that
\* sends `initialize` again: its successor took its place in autoindex_tid.
ServerOutlivesAutos ==
  "server" \in freed =>
    \A a \in Autos : pc[a] \in {"absent", "exited"} \/ (inits > 1 /\ a # autoindex_tid)

\* The watchdog thread in request_shutdown finds the server and the watcher
\* alive: main joins it before freeing either.
WatchdogFindsAll == sd_by = "watchdog" => freed = {}

\* The watcher thread never runs on a freed watcher.
WatcherOutlivesThread == "watcher" \in freed => pc["watcher"] = "exited"

\* main's joins and frees are in such an order that no thread uses what has
\* been freed: not the watchdog, not the watcher's, not an auto-index thread.
OutlivesUsers == WatchdogFindsAll /\ WatcherOutlivesThread /\ ServerOutlivesAutos

\* pipeline.h: cbm_pipeline_cancel is a "thread-safe" request to "a running
\* pipeline": the pipeline request_shutdown cancels has not been freed.
CancelTargetAlive == sd = "cancel" /\ target => "mcp" \in allocated

\* A shutdown, once requested, ends the process, whatever runs and whoever
\* waits for the lock at that time.
ShutdownEnds == shutdown ~> ~Running

=============================================================================
