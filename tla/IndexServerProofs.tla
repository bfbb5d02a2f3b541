-------------------------- MODULE IndexServerProofs --------------------------
(***************************************************************************)
(* What IndexServer guarantees for any number of auto-index threads and    *)
(* of `initialize` requests. The inductive invariant adds to the results   *)
(* what makes them inductive: a thread between lock and unlock finds the   *)
(* lock taken, a shutdown in progress is never restarted, and what a first *)
(* `initialize` can have registered or launched.                           *)
(***************************************************************************)
EXTENDS IndexServer, TLAPS

\* A leaf that names no prover is tried with Zenon, then with SMT.
USE ZenonT(60), SMTT(60)

\* A holder finds g_pipeline_busy set, until request_shutdown clears it.
LockInv ==
  /\ sd # "idle" => shutdown
  /\ ~LockStolen => \A t \in Threads : pc[t] \in Holding => busy
  /\ ExclusiveUntilShutdown

\* Where main is when it has passed the join of the watchdog.
PastWatchdog == {"join_watcher", "join_autoindex", "returning", "exited"}

\* The order of main's shutdown, and how far an initialize can have gone.
SessionInv ==
  /\ pc["mcp"] \in PastWatchdog \union {"join_watchdog"} => shutdown
  /\ pc["mcp"] \in PastWatchdog => sd_by # "watchdog"
  /\ freed # {} => pc["mcp"] \in {"join_autoindex", "returning", "exited"}
  /\ "server" \in freed => pc["mcp"] \in {"returning", "exited"}
  /\ inits <= 1 => \A a \in Autos : a # autoindex_tid => pc[a] = "absent"
  /\ inits = 0 => autoindex_tid = "none"
  /\ ServerOutlivesAutos
  /\ WatcherOutlivesThread

\* With one initialize there is one registration: its own, or that of the one
\* thread it launched, which has then ended.
SnapInv ==
  /\ inits = 0 => projects = 0
  /\ inits <= 1 /\ projects # 0 => \A a \in Autos : pc[a] \in {"absent", "exited"}
  /\ SnapshotLive

IInv == TypeOK /\ LockInv /\ ConfigNotDangling /\ SessionInv /\ SnapInv

USE ServerAssumption

LEMMA InitIInv == Init => IInv
<1> SUFFICES ASSUME Init PROVE IInv
  OBVIOUS
<1> USE DEF Init, Threads
<1>1. /\ busy \in BOOLEAN /\ shutdown \in BOOLEAN /\ target \in BOOLEAN
      /\ active \in BOOLEAN /\ cancelled \in BOOLEAN /\ stopped \in BOOLEAN
      /\ stdin_open \in BOOLEAN
  OBVIOUS
<1>2. /\ pc["mcp"] = "loop" /\ pc["watcher"] = "sleep"
      /\ \A a \in Autos : pc[a] = "absent"
  OBVIOUS
<1>3. TypeOK
  <2>1. \A t \in Threads : pc[t] \in {"loop", "sleep", "absent"}
    BY <1>2
  <2> QED
    BY <1>1, <2>1 DEF TypeOK
<1>4. LockInv
  BY <1>2 DEF LockInv, ExclusiveUntilShutdown, Exclusive, Holding, InRun
<1>5. ConfigNotDangling /\ SessionInv /\ SnapInv
  BY <1>2 DEF ConfigNotDangling, SessionInv, PastWatchdog, ServerOutlivesAutos, WatcherOutlivesThread,
     SnapInv, SnapshotLive
<1> QED
  BY <1>3, <1>4, <1>5 DEF IInv

\* Every step keeps the types.
LEMMA StepTypeOK == ASSUME TypeOK, [Next]_vars PROVE TypeOK'
<1> USE DEF TypeOK, Threads, Holding, InRun, LockStolen, Running, At, Goto, Cleanup,
    Free, Watch, locking, stopping, running, watching, session
<1>1. CASE \E t \in Threads : RunStep(t)
  <2> PICK t \in Threads : RunStep(t)
    BY <1>1
  <2>1. CASE Lock(t)
    BY <2>1, SMTT(60) DEF Lock
  <2>2. CASE BeginRun(t)
    BY <2>2, SMTT(60) DEF BeginRun
  <2>3. CASE FailDiscovery(t)
    BY <2>3, SMTT(60) DEF FailDiscovery
  <2>4. CASE RouteFull(t)
    BY <2>4, SMTT(60) DEF RouteFull
  <2>5. CASE EndFull(t)
    BY <2>5, SMTT(60) DEF EndFull
  <2>6. CASE RouteIncremental(t)
    BY <2>6, SMTT(60) DEF RouteIncremental
  <2>7. CASE EndIncremental(t)
    BY <2>7, SMTT(60) DEF EndIncremental
  <2>8. CASE UnlockThenFree(t)
    <3>1. busy' \in BOOLEAN /\ active' \in BOOLEAN
      BY <2>8 DEF UnlockThenFree
    <3> QED
      BY <2>8, <3>1, SMTT(60) DEF UnlockThenFree
  <2> QED
    BY <2>1, <2>2, <2>3, <2>4, <2>5, <2>6, <2>7, <2>8 DEF RunStep
<1>2. CASE Initialize
  <2>1. CASE db /\ Watch /\ UNCHANGED <<pc, allocated, autoindex_tid>>
    BY <1>2, <2>1, SMTT(60) DEF Initialize
  <2>2. ASSUME NEW a \in Autos, NEW l \in {"lock", "exited"}, At(a, "absent"),
               Goto(a, l), allocated' \in {allocated, allocated \union {a}},
               autoindex_tid' = a, UNCHANGED projects
        PROVE  TypeOK'
    <3>1. allocated' \subseteq Threads /\ autoindex_tid' \in Autos \union {"none"}
      BY <2>2
    <3>2. pc' = [pc EXCEPT ![a] = l]
      BY <2>2
    <3>3. inits' = inits + 1 /\ projects' = projects
      BY <1>2, <2>2 DEF Initialize
    <3> QED
      BY <1>2, <3>1, <3>2, <3>3, SMTT(60) DEF Initialize
  <2>3. CASE UNCHANGED <<pc, allocated, autoindex_tid, projects>>
    BY <1>2, <2>3, SMTT(60) DEF Initialize
  <2>4. ASSUME NEW a \in Autos, At(a, "absent"), autoindex_tid' = a, UNCHANGED projects,
               \/ Goto(a, "lock") /\ allocated' = allocated \union {a}
               \/ Goto(a, "exited") /\ UNCHANGED allocated
        PROVE  \E l \in {"lock", "exited"} :
                 Goto(a, l) /\ allocated' \in {allocated, allocated \union {a}}
    BY <2>4
  <2> HIDE DEF TypeOK, SessionInv, At, Goto, Watch
  <2> QED
    BY <1>2, <2>1, <2>2, <2>3, <2>4 DEF Initialize
<1>3. CASE IndexRepository
  <2>1. cancelled' \in BOOLEAN /\ db' \in BOOLEAN
    BY <1>3 DEF IndexRepository
  <2> QED
    BY <1>3, <2>1, SMTT(60) DEF IndexRepository
<1>4. CASE DeleteProject
  BY <1>4, SMTT(60) DEF DeleteProject
<1>5. CASE FinishIndexRepository
  BY <1>5, SMTT(60) DEF FinishIndexRepository
<1>6. CASE DeleteLock
  BY <1>6, SMTT(60) DEF DeleteLock
<1>7. CASE DeleteFile
  <2>1. busy' \in BOOLEAN /\ db' \in BOOLEAN
    BY <1>7 DEF DeleteFile
  <2> QED
    BY <1>7, <2>1, SMTT(60) DEF DeleteFile
<1>8. CASE JoinWatchdog
  BY <1>8, SMTT(60) DEF JoinWatchdog
<1>9. CASE JoinWatcher
  BY <1>9, SMTT(60) DEF JoinWatcher
<1>10. CASE FreeServer
  BY <1>10, SMTT(60) DEF FreeServer
<1>11. CASE MainReturns
  BY <1>11, SMTT(60) DEF MainReturns
<1>12. CASE LeaveLoop
  BY <1>12, SMTT(60) DEF LeaveLoop
<1>13. CASE PollOnce
  BY <1>13, SMTT(60) DEF PollOnce
<1>14. CASE IndexFn
  BY <1>14, SMTT(60) DEF IndexFn
<1>15. CASE PollSkips
  BY <1>15, SMTT(60) DEF PollSkips
<1>16. CASE TryLock
  <2>1. busy' \in BOOLEAN
    BY <1>16 DEF TryLock
  <2>2. allocated' \in {allocated, allocated \union {"watcher"}}
    BY <1>16 DEF TryLock
  <2>3. \E l \in {"post", "begin", "unlock"} : pc' = [pc EXCEPT !["watcher"] = l]
    BY <1>16 DEF TryLock
  <2> QED
    BY <1>16, <2>1, <2>2, <2>3, SMTT(60) DEF TryLock
<1>17. CASE WatcherFree
  BY <1>17, SMTT(60) DEF WatcherFree
<1>18. CASE WatcherUnlock
  <2>1. busy' \in BOOLEAN
    BY <1>18 DEF WatcherUnlock
  <2> QED
    BY <1>18, <2>1, SMTT(60) DEF WatcherUnlock
<1>19. CASE PollDone
  BY <1>19, SMTT(60) DEF PollDone
<1>20. CASE WatcherExit
  BY <1>20, SMTT(60) DEF WatcherExit
<1>21. CASE RequestShutdown
  BY <1>21, SMTT(60) DEF RequestShutdown
<1>22. CASE ShutdownCancel
  BY <1>22, SMTT(60) DEF ShutdownCancel
<1>23. CASE ShutdownUnlock
  <2>1. busy' \in BOOLEAN
    BY <1>23 DEF ShutdownUnlock
  <2> QED
    BY <1>23, <2>1, SMTT(60) DEF ShutdownUnlock
<1>24. CASE ShutdownStop
  <2>1. stopped' \in BOOLEAN /\ stdin_open' \in BOOLEAN
    BY <1>24 DEF ShutdownStop
  <2> QED
    BY <1>24, <2>1, SMTT(60) DEF ShutdownStop
<1>25. CASE WatchdogExit
  BY <1>25, SMTT(60) DEF WatchdogExit
<1>29. CASE WatchdogExitsLate
  BY <1>29, SMTT(60) DEF WatchdogExitsLate
<1>26. ASSUME NEW a \in Autos, FinishAutoindex(a) PROVE TypeOK'
  <2>1. \E l \in {"watch", "exited"} : pc' = [pc EXCEPT ![a] = l]
    BY <1>26 DEF FinishAutoindex
  <2>2. g_userconfig' \in Threads \union {"none"}
    BY <1>26 DEF FinishAutoindex
  <2>3. allocated' = allocated \ {a} /\ userconfig' = userconfig \ {a}
    BY <1>26 DEF FinishAutoindex
  <2>4. UNCHANGED <<busy, stopping, active, cancelled, indexed, db, watching, session>>
    BY <1>26 DEF FinishAutoindex
  <2>5. allocated' \subseteq Threads /\ userconfig' \subseteq Threads
    BY <2>3
  <2> PICK l \in {"watch", "exited"} : pc' = [pc EXCEPT ![a] = l]
    BY <2>1
  <2> QED
    BY <2>2, <2>4, <2>5, SMTT(60)
<1>27. ASSUME NEW a \in Autos, RegisterIndexed(a) PROVE TypeOK'
  BY <1>27, SMTT(60) DEF RegisterIndexed
<1>28. CASE UNCHANGED vars
  BY <1>28, SMTT(60) DEF vars
<1> HIDE DEF TypeOK
<1> QED
  BY <1>1, <1>2, <1>3, <1>4, <1>5, <1>6, <1>7, <1>8, <1>9, <1>10, <1>11, <1>12, <1>13,
       <1>14, <1>15, <1>16, <1>17, <1>18, <1>19, <1>20, <1>21, <1>22, <1>23, <1>24,
       <1>25, <1>26, <1>27, <1>28, <1>29
     DEF Next, Request, MainStep, WatcherStep, AutoStep, ShutdownStep, Ended

\* Every step keeps the lock's discipline.
LEMMA StepLockInv == ASSUME TypeOK, LockInv, [Next]_vars PROVE LockInv'
<1> USE DEF TypeOK, LockInv, ExclusiveUntilShutdown, Exclusive, Threads, Holding, InRun,
    LockStolen, Running, At, Goto, Cleanup, Free, Watch, locking, stopping, running,
    watching, session
<1>1. CASE \E t \in Threads : RunStep(t)
  <2> PICK t \in Threads : RunStep(t)
    BY <1>1
  <2>1. CASE Lock(t)
    BY <2>1 DEF Lock
  <2>2. CASE BeginRun(t)
    BY <2>2 DEF BeginRun
  <2>3. CASE FailDiscovery(t)
    BY <2>3 DEF FailDiscovery
  <2>4. CASE RouteFull(t)
    BY <2>4 DEF RouteFull
  <2>5. CASE EndFull(t)
    BY <2>5, SMTT(60) DEF EndFull
  <2>6. CASE RouteIncremental(t)
    BY <2>6 DEF RouteIncremental
  <2>7. CASE EndIncremental(t)
    BY <2>7 DEF EndIncremental
  <2>8. CASE UnlockThenFree(t)
    BY <2>8 DEF UnlockThenFree
  <2> QED
    BY <2>1, <2>2, <2>3, <2>4, <2>5, <2>6, <2>7, <2>8 DEF RunStep
<1>2. CASE Initialize
  BY <1>2, SMTT(60) DEF Initialize
<1>3. CASE IndexRepository
  BY <1>3 DEF IndexRepository
<1>4. CASE DeleteProject
  BY <1>4 DEF DeleteProject
<1>5. CASE FinishIndexRepository
  BY <1>5 DEF FinishIndexRepository
<1>6. CASE DeleteLock
  BY <1>6 DEF DeleteLock
<1>7. CASE DeleteFile
  BY <1>7 DEF DeleteFile
<1>8. CASE JoinWatchdog
  BY <1>8 DEF JoinWatchdog
<1>9. CASE JoinWatcher
  BY <1>9 DEF JoinWatcher
<1>10. CASE FreeServer
  BY <1>10 DEF FreeServer
<1>11. CASE MainReturns
  BY <1>11 DEF MainReturns
<1>12. CASE LeaveLoop
  BY <1>12 DEF LeaveLoop
<1>13. CASE PollOnce
  BY <1>13 DEF PollOnce
<1>14. CASE IndexFn
  BY <1>14 DEF IndexFn
<1>15. CASE PollSkips
  BY <1>15 DEF PollSkips
<1>16. CASE TryLock
  BY <1>16, SMTT(60) DEF TryLock
<1>17. CASE WatcherFree
  BY <1>17 DEF WatcherFree
<1>18. CASE WatcherUnlock
  BY <1>18 DEF WatcherUnlock
<1>19. CASE PollDone
  BY <1>19 DEF PollDone
<1>20. CASE WatcherExit
  BY <1>20 DEF WatcherExit
<1>21. CASE RequestShutdown
  BY <1>21 DEF RequestShutdown
<1>22. CASE ShutdownCancel
  BY <1>22 DEF ShutdownCancel
<1>23. CASE ShutdownUnlock
  BY <1>23 DEF ShutdownUnlock
<1>24. CASE ShutdownStop
  BY <1>24 DEF ShutdownStop
<1>25. CASE WatchdogExit
  BY <1>25 DEF WatchdogExit
<1>29. CASE WatchdogExitsLate
  BY <1>29 DEF WatchdogExitsLate
<1>26. ASSUME NEW a \in Autos, FinishAutoindex(a) PROVE LockInv'
  BY <1>26 DEF FinishAutoindex
<1>27. ASSUME NEW a \in Autos, RegisterIndexed(a) PROVE LockInv'
  BY <1>27 DEF RegisterIndexed
<1>28. CASE UNCHANGED vars
  BY <1>28 DEF vars
<1> HIDE DEF TypeOK, LockInv, ExclusiveUntilShutdown, Exclusive
<1> QED
  BY <1>1, <1>2, <1>3, <1>4, <1>5, <1>6, <1>7, <1>8, <1>9, <1>10, <1>11, <1>12, <1>13,
       <1>14, <1>15, <1>16, <1>17, <1>18, <1>19, <1>20, <1>21, <1>22, <1>23, <1>24,
       <1>25, <1>26, <1>27, <1>28, <1>29
     DEF Next, Request, MainStep, WatcherStep, AutoStep, ShutdownStep, Ended

\* Every step keeps g_userconfig on a live configuration.
LEMMA StepConfigNotDangling == ASSUME TypeOK, ConfigNotDangling, [Next]_vars PROVE ConfigNotDangling'
<1> USE DEF TypeOK, ConfigNotDangling, Threads, Holding, InRun, LockStolen, Running, At,
    Goto, Cleanup, Free, Watch, locking, stopping, running, watching, session
<1>1. CASE \E t \in Threads : RunStep(t)
  <2> PICK t \in Threads : RunStep(t)
    BY <1>1
  <2>1. CASE Lock(t)
    BY <2>1 DEF Lock
  <2>2. CASE BeginRun(t)
    BY <2>2 DEF BeginRun
  <2>3. CASE FailDiscovery(t)
    BY <2>3 DEF FailDiscovery
  <2>4. CASE RouteFull(t)
    BY <2>4 DEF RouteFull
  <2>5. CASE EndFull(t)
    BY <2>5 DEF EndFull
  <2>6. CASE RouteIncremental(t)
    BY <2>6 DEF RouteIncremental
  <2>7. CASE EndIncremental(t)
    BY <2>7 DEF EndIncremental
  <2>8. CASE UnlockThenFree(t)
    BY <2>8 DEF UnlockThenFree
  <2> QED
    BY <2>1, <2>2, <2>3, <2>4, <2>5, <2>6, <2>7, <2>8 DEF RunStep
<1>2. CASE Initialize
  BY <1>2 DEF Initialize
<1>3. CASE IndexRepository
  BY <1>3 DEF IndexRepository
<1>4. CASE DeleteProject
  BY <1>4 DEF DeleteProject
<1>5. CASE FinishIndexRepository
  BY <1>5 DEF FinishIndexRepository
<1>6. CASE DeleteLock
  BY <1>6 DEF DeleteLock
<1>7. CASE DeleteFile
  BY <1>7 DEF DeleteFile
<1>8. CASE JoinWatchdog
  BY <1>8 DEF JoinWatchdog
<1>9. CASE JoinWatcher
  BY <1>9 DEF JoinWatcher
<1>10. CASE FreeServer
  BY <1>10 DEF FreeServer
<1>11. CASE MainReturns
  BY <1>11 DEF MainReturns
<1>12. CASE LeaveLoop
  BY <1>12 DEF LeaveLoop
<1>13. CASE PollOnce
  BY <1>13 DEF PollOnce
<1>14. CASE IndexFn
  BY <1>14 DEF IndexFn
<1>15. CASE PollSkips
  BY <1>15 DEF PollSkips
<1>16. CASE TryLock
  BY <1>16 DEF TryLock
<1>17. CASE WatcherFree
  BY <1>17 DEF WatcherFree
<1>18. CASE WatcherUnlock
  BY <1>18 DEF WatcherUnlock
<1>19. CASE PollDone
  BY <1>19 DEF PollDone
<1>20. CASE WatcherExit
  BY <1>20 DEF WatcherExit
<1>21. CASE RequestShutdown
  BY <1>21 DEF RequestShutdown
<1>22. CASE ShutdownCancel
  BY <1>22 DEF ShutdownCancel
<1>23. CASE ShutdownUnlock
  BY <1>23 DEF ShutdownUnlock
<1>24. CASE ShutdownStop
  BY <1>24 DEF ShutdownStop
<1>25. CASE WatchdogExit
  BY <1>25 DEF WatchdogExit
<1>29. CASE WatchdogExitsLate
  BY <1>29 DEF WatchdogExitsLate
<1>26. ASSUME NEW a \in Autos, FinishAutoindex(a) PROVE ConfigNotDangling'
  BY <1>26 DEF FinishAutoindex
<1>27. ASSUME NEW a \in Autos, RegisterIndexed(a) PROVE ConfigNotDangling'
  BY <1>27 DEF RegisterIndexed
<1>28. CASE UNCHANGED vars
  BY <1>28 DEF vars
<1> HIDE DEF TypeOK, ConfigNotDangling
<1> QED
  BY <1>1, <1>2, <1>3, <1>4, <1>5, <1>6, <1>7, <1>8, <1>9, <1>10, <1>11, <1>12, <1>13,
       <1>14, <1>15, <1>16, <1>17, <1>18, <1>19, <1>20, <1>21, <1>22, <1>23, <1>24,
       <1>25, <1>26, <1>27, <1>28, <1>29
     DEF Next, Request, MainStep, WatcherStep, AutoStep, ShutdownStep, Ended

\* Every step keeps the order of the shutdown.
LEMMA StepSessionInv == ASSUME TypeOK, SessionInv, [Next]_vars PROVE SessionInv'
<1> USE DEF TypeOK, SessionInv, PastWatchdog, ServerOutlivesAutos,
    WatcherOutlivesThread, Threads, Holding,
    InRun, LockStolen, Running, At, Goto, Cleanup, Free, Watch, locking, stopping,
    running, watching, session
<1>1. CASE \E t \in Threads : RunStep(t)
  <2> PICK t \in Threads : RunStep(t)
    BY <1>1
  <2>1. CASE Lock(t)
    BY <2>1 DEF Lock
  <2>2. CASE BeginRun(t)
    BY <2>2 DEF BeginRun
  <2>3. CASE FailDiscovery(t)
    BY <2>3 DEF FailDiscovery
  <2>4. CASE RouteFull(t)
    BY <2>4 DEF RouteFull
  <2>5. CASE EndFull(t)
    BY <2>5, SMTT(60) DEF EndFull
  <2>6. CASE RouteIncremental(t)
    BY <2>6 DEF RouteIncremental
  <2>7. CASE EndIncremental(t)
    BY <2>7 DEF EndIncremental
  <2>8. CASE UnlockThenFree(t)
    BY <2>8 DEF UnlockThenFree
  <2> QED
    BY <2>1, <2>2, <2>3, <2>4, <2>5, <2>6, <2>7, <2>8 DEF RunStep
<1>2. CASE Initialize
  <2>1. CASE db /\ Watch /\ UNCHANGED <<pc, allocated, autoindex_tid>>
    BY <1>2, <2>1, SMTT(60) DEF Initialize
  <2>2. ASSUME NEW a \in Autos, NEW l \in {"lock", "exited"}, At(a, "absent"),
               Goto(a, l), allocated' \in {allocated, allocated \union {a}},
               autoindex_tid' = a, UNCHANGED projects
        PROVE  SessionInv'
    BY <1>2, <2>2, SMTT(60) DEF Initialize
  <2>3. CASE UNCHANGED <<pc, allocated, autoindex_tid, projects>>
    BY <1>2, <2>3, SMTT(60) DEF Initialize
  <2>4. ASSUME NEW a \in Autos, At(a, "absent"), autoindex_tid' = a, UNCHANGED projects,
               \/ Goto(a, "lock") /\ allocated' = allocated \union {a}
               \/ Goto(a, "exited") /\ UNCHANGED allocated
        PROVE  \E l \in {"lock", "exited"} :
                 Goto(a, l) /\ allocated' \in {allocated, allocated \union {a}}
    BY <2>4
  <2> HIDE DEF TypeOK, SessionInv, At, Goto, Watch
  <2> QED
    BY <1>2, <2>1, <2>2, <2>3, <2>4 DEF Initialize
<1>3. CASE IndexRepository
  BY <1>3 DEF IndexRepository
<1>4. CASE DeleteProject
  BY <1>4 DEF DeleteProject
<1>5. CASE FinishIndexRepository
  BY <1>5 DEF FinishIndexRepository
<1>6. CASE DeleteLock
  BY <1>6 DEF DeleteLock
<1>7. CASE DeleteFile
  BY <1>7 DEF DeleteFile
<1>8. CASE JoinWatchdog
  BY <1>8 DEF JoinWatchdog
<1>9. CASE JoinWatcher
  BY <1>9 DEF JoinWatcher
<1>10. CASE FreeServer
  BY <1>10, SMTT(60) DEF FreeServer
<1>11. CASE MainReturns
  BY <1>11 DEF MainReturns
<1>12. CASE LeaveLoop
  BY <1>12 DEF LeaveLoop
<1>13. CASE PollOnce
  BY <1>13 DEF PollOnce
<1>14. CASE IndexFn
  BY <1>14 DEF IndexFn
<1>15. CASE PollSkips
  BY <1>15 DEF PollSkips
<1>16. CASE TryLock
  <2>1. \E l \in {"post", "begin", "unlock"} : pc' = [pc EXCEPT !["watcher"] = l]
    BY <1>16 DEF TryLock
  <2> QED
    BY <1>16, <2>1 DEF TryLock
<1>17. CASE WatcherFree
  BY <1>17 DEF WatcherFree
<1>18. CASE WatcherUnlock
  BY <1>18 DEF WatcherUnlock
<1>19. CASE PollDone
  BY <1>19 DEF PollDone
<1>20. CASE WatcherExit
  BY <1>20 DEF WatcherExit
<1>21. CASE RequestShutdown
  BY <1>21 DEF RequestShutdown
<1>22. CASE ShutdownCancel
  BY <1>22 DEF ShutdownCancel
<1>23. CASE ShutdownUnlock
  BY <1>23 DEF ShutdownUnlock
<1>24. CASE ShutdownStop
  BY <1>24 DEF ShutdownStop
<1>25. CASE WatchdogExit
  BY <1>25 DEF WatchdogExit
<1>29. CASE WatchdogExitsLate
  BY <1>29 DEF WatchdogExitsLate
<1>26. ASSUME NEW a \in Autos, FinishAutoindex(a) PROVE SessionInv'
  BY <1>26 DEF FinishAutoindex
<1>27. ASSUME NEW a \in Autos, RegisterIndexed(a) PROVE SessionInv'
  BY <1>27 DEF RegisterIndexed
<1>28. CASE UNCHANGED vars
  BY <1>28 DEF vars
<1> HIDE DEF TypeOK, SessionInv, PastWatchdog, ServerOutlivesAutos,
    WatcherOutlivesThread
<1> QED
  BY <1>1, <1>2, <1>3, <1>4, <1>5, <1>6, <1>7, <1>8, <1>9, <1>10, <1>11, <1>12, <1>13,
       <1>14, <1>15, <1>16, <1>17, <1>18, <1>19, <1>20, <1>21, <1>22, <1>23, <1>24,
       <1>25, <1>26, <1>27, <1>28, <1>29
     DEF Next, Request, MainStep, WatcherStep, AutoStep, ShutdownStep, Ended

\* Every step keeps the snapshot of poll_once on the registered project.
LEMMA StepSnapInv == ASSUME TypeOK, SessionInv, SnapInv, [Next]_vars PROVE SnapInv'
<1> DEFINE Idle(a) == pc[a] \in {"absent", "exited"}
           Rest == UNCHANGED <<projects, inits>> /\ \A a \in Autos : Idle(a) => pc'[a] = pc[a]
<1>1. inits = 0 => \A a \in Autos : pc[a] = "absent"
  BY SMTT(60) DEF SessionInv
<1>2. ASSUME Rest, snap' \in {snap, projects, 0} PROVE SnapInv'
  BY <1>2 DEF SnapInv, SnapshotLive
<1>3. CASE Initialize
  <2>1. inits' = inits + 1 /\ snap' = snap /\ inits \in Nat /\ projects \in Nat
    BY <1>3 DEF Initialize, TypeOK
  <2>2. inits' # 0 /\ (inits' <= 1 => inits = 0)
    BY <2>1, SMTT(60)
  <2>3. inits' <= 1 => snap = 0
    BY <2>2, SMTT(60) DEF SnapInv, SnapshotLive
  <2>4. projects' # projects => pc' = pc
    BY <1>3 DEF Initialize
  <2>5. inits' <= 1 /\ projects' # 0 => \A a \in Autos : pc'[a] \in {"absent", "exited"}
    BY <1>1, <2>2, <2>4 DEF SnapInv
  <2> QED
    BY <2>1, <2>2, <2>3, <2>5 DEF SnapInv, SnapshotLive
<1>4. ASSUME NEW a \in Autos, RegisterIndexed(a) PROVE SnapInv'
  <2>1. pc[a] = "watch" /\ pc' = [pc EXCEPT ![a] = "exited"] /\ UNCHANGED <<inits, snap>>
    BY <1>4 DEF RegisterIndexed, At, Goto, session
  <2>2. inits # 0
    BY <1>1, <2>1
  <2>3. inits <= 1 => a = autoindex_tid /\ \A b \in Autos \ {a} : pc[b] = "absent"
    BY <2>1 DEF SessionInv
  <2>4. \A b \in Autos : pc'[b] = IF b = a THEN "exited" ELSE pc[b]
    BY <2>1 DEF TypeOK, Threads
  <2>5. inits <= 1 => snap = 0
    BY <2>1 DEF SnapInv, SnapshotLive
  <2> QED
    BY <2>1, <2>2, <2>3, <2>4, <2>5 DEF SnapInv, SnapshotLive
<1>5. ASSUME NEW t \in Threads, NEW l, pc[t] \notin {"absent", "exited"}, Goto(t, l), UNCHANGED <<projects, inits>>
      PROVE  Rest
  BY <1>5, SMTT(60) DEF Goto, TypeOK
<1>6. "mcp" \in Threads /\ "watcher" \in Threads /\ Autos \subseteq Threads
  BY DEF Threads
<1>7. ASSUME NEW t \in Threads, RunStep(t) PROVE Rest /\ snap' = snap
  <2>1. UNCHANGED <<projects, snap, inits>>
    BY <1>7 DEF RunStep, Lock, BeginRun, FailDiscovery, RouteFull, EndFull, RouteIncremental,
       EndIncremental, UnlockThenFree, Cleanup, watching, session
  <2>2. pc[t] \notin {"absent", "exited"} /\ \E l : Goto(t, l)
    BY <1>7 DEF RunStep, Lock, BeginRun, FailDiscovery, RouteFull, EndFull, RouteIncremental,
       EndIncremental, UnlockThenFree, Cleanup, At
  <2> QED
    BY <1>5, <2>1, <2>2
<1>8. ASSUME \/ IndexRepository \/ DeleteProject \/ FinishIndexRepository \/ DeleteLock \/ DeleteFile
             \/ JoinWatchdog \/ JoinWatcher \/ FreeServer \/ MainReturns \/ LeaveLoop
      PROVE  Rest /\ snap' = snap
  <2>1. UNCHANGED <<projects, snap, inits>>
    BY <1>8 DEF IndexRepository, DeleteProject, FinishIndexRepository, DeleteLock, DeleteFile,
       JoinWatchdog, JoinWatcher, FreeServer, MainReturns, LeaveLoop, watching, session
  <2>2. pc["mcp"] \notin {"absent", "exited"} /\ \E l : Goto("mcp", l)
    BY <1>8 DEF IndexRepository, DeleteProject, FinishIndexRepository, DeleteLock, DeleteFile,
       JoinWatchdog, JoinWatcher, FreeServer, MainReturns, LeaveLoop, At
  <2> QED
    BY <1>5, <1>6, <2>1, <2>2
<1>9. ASSUME \/ PollOnce \/ IndexFn \/ PollSkips \/ TryLock \/ WatcherFree \/ WatcherUnlock
             \/ PollDone \/ WatcherExit
      PROVE  Rest /\ snap' \in {snap, projects, 0}
  <2>1. UNCHANGED <<projects, inits>> /\ snap' \in {snap, projects, 0}
    BY <1>9 DEF PollOnce, IndexFn, PollSkips, TryLock, WatcherFree, WatcherUnlock, PollDone,
       WatcherExit, watching, session
  <2>2. pc["watcher"] \notin {"absent", "exited"} /\ \E l : Goto("watcher", l)
    BY <1>9 DEF PollOnce, IndexFn, PollSkips, TryLock, WatcherFree, WatcherUnlock, PollDone,
       WatcherExit, At
  <2> QED
    BY <1>5, <1>6, <2>1, <2>2
<1>10. ASSUME NEW a \in Autos, FinishAutoindex(a) PROVE Rest /\ snap' = snap
  <2>1. pc[a] = "free" /\ UNCHANGED <<projects, snap, inits>> /\ \E l : Goto(a, l)
    BY <1>10 DEF FinishAutoindex, At, watching, session
  <2> QED
    BY <1>5, <1>6, <2>1
<1>11. ASSUME \/ RequestShutdown \/ ShutdownStep \/ WatchdogExitsLate \/ UNCHANGED vars
       PROVE  Rest /\ snap' = snap
  <2>1. UNCHANGED <<projects, snap, inits>> /\ (pc' = pc \/ Goto("mcp", "killed"))
    BY <1>11 DEF RequestShutdown, ShutdownStep, ShutdownCancel, ShutdownUnlock, ShutdownStop,
       WatchdogExit, WatchdogExitsLate, vars, locking, watching, session
  <2>2. "mcp" \notin Autos
    OBVIOUS
  <2> QED
    BY <1>6, <2>1, <2>2 DEF Goto, TypeOK
<1> HIDE DEF Rest
<1> QED
  BY <1>2, <1>3, <1>4, <1>6, <1>7, <1>8, <1>9, <1>10, <1>11
     DEF Next, Request, MainStep, WatcherStep, AutoStep, Ended

LEMMA ServerIInv == Spec => []IInv
<1>1. IInv /\ [Next]_vars => IInv'
  BY StepTypeOK, StepLockInv, StepConfigNotDangling, StepSessionInv, StepSnapInv DEF IInv
<1> QED
  BY InitIInv, <1>1, PTL DEF Spec

\* For a client that sends `initialize` once, no registration replaces the
\* project state that poll_project is working on, however many auto-index
\* threads there could be.
THEOREM SnapshotStays == Spec => []SnapshotLive
<1>1. IInv => SnapshotLive
  BY DEF IInv, SnapInv
<1> QED
  BY ServerIInv, <1>1, PTL

\* Until request_shutdown releases the lock, at most one of index_repository,
\* delete_project, the auto-index threads and the watcher is between lock and
\* unlock; and the state always has its type.
THEOREM LockExcludes == Spec => [](TypeOK /\ ExclusiveUntilShutdown)
<1>1. IInv => TypeOK /\ ExclusiveUntilShutdown
  BY DEF IInv, LockInv
<1> QED
  BY ServerIInv, <1>1, PTL

\* g_userconfig never points to a freed configuration, even after the lock
\* has been taken away from a running pipeline.
THEOREM ConfigSafe == Spec => []ConfigNotDangling
<1>1. IInv => ConfigNotDangling
  BY DEF IInv
<1> QED
  BY ServerIInv, <1>1, PTL

\* A step that takes the configuration from a run at work is the free of a
\* thread that has unlocked already.
LEMMA StepConfig ==
  ASSUME TypeOK, ExclusiveUntilShutdown, ~LockStolen, Next,
         NEW t \in Threads, pc[t] \in InRun, pc'[t] \in InRun,
         g_userconfig = t, g_userconfig' # t
  PROVE  \E u \in Threads \ {"watcher", t} : pc[u] = "free"
<1> USE DEF At, Goto, InRun, Holding
<1>1. \A u \in Threads : pc[u] \in Holding => u = t
  BY DEF ExclusiveUntilShutdown, Exclusive
<1>2. t # "none" /\ pc[t] # "free"
  BY DEF Threads
<1>3. CASE FinishIndexRepository
  BY <1>2, <1>3 DEF FinishIndexRepository, Threads
<1>4. ASSUME NEW a \in Autos, FinishAutoindex(a)
      PROVE  \E u \in Threads \ {"watcher", t} : pc[u] = "free"
  BY <1>2, <1>4 DEF FinishAutoindex, Threads
<1>5. ~WatcherFree
  BY <1>1 DEF WatcherFree, Threads, TypeOK
<1>6. ASSUME NEW u \in Threads PROVE ~BeginRun(u)
  BY <1>1 DEF BeginRun
<1>7. ASSUME NEW u \in Threads, NEW ok \in BOOLEAN, pc[u] \in InRun
      PROVE  ~Cleanup(u, ok)
  BY <1>1, <1>7 DEF Cleanup, TypeOK
<1>8. ASSUME NEW u \in Threads PROVE ~RunStep(u)
  <2>1. ~FailDiscovery(u) /\ ~EndFull(u)
    BY <1>7 DEF FailDiscovery, EndFull
  <2> QED
    BY <1>6, <2>1 DEF RunStep, Lock, RouteFull, RouteIncremental, EndIncremental,
         UnlockThenFree, running
<1>9. CASE UNCHANGED g_userconfig
  BY <1>9
<1>10. \/ FinishIndexRepository \/ WatcherFree \/ UNCHANGED g_userconfig
       \/ \E u \in Threads : RunStep(u)
       \/ \E a \in Autos : FinishAutoindex(a)
  <2>1. ASSUME MainStep \/ LeaveLoop \/ Request
        PROVE  FinishIndexRepository \/ UNCHANGED g_userconfig \/ RunStep("mcp")
    BY <2>1 DEF MainStep, LeaveLoop, Request, Initialize, IndexRepository, DeleteProject,
         DeleteLock, DeleteFile, JoinWatchdog, JoinWatcher, FreeServer, MainReturns, running
  <2>2. ASSUME PollOnce \/ IndexFn \/ WatcherStep
        PROVE  WatcherFree \/ UNCHANGED g_userconfig \/ RunStep("watcher")
    BY <2>2 DEF PollOnce, IndexFn, WatcherStep, PollSkips, TryLock, WatcherUnlock,
         PollDone, WatcherExit, running
  <2>3. ASSUME NEW a \in Autos, AutoStep(a)
        PROVE  FinishAutoindex(a) \/ UNCHANGED g_userconfig \/ RunStep(a)
    BY <2>3 DEF AutoStep, RegisterIndexed, running
  <2>4. ASSUME RequestShutdown \/ ShutdownStep \/ WatchdogExitsLate \/ Ended
        PROVE  UNCHANGED g_userconfig
    BY <2>4 DEF RequestShutdown, ShutdownStep, ShutdownCancel, ShutdownUnlock,
         ShutdownStop, WatchdogExit, WatchdogExitsLate, Ended, vars, running
  <2> QED
    BY <2>1, <2>2, <2>3, <2>4 DEF Next, Threads
<1> QED
  BY <1>3, <1>4, <1>5, <1>8, <1>9, <1>10

\* Until shutdown, only a thread that frees after its unlock clears the
\* configuration under a run at work.
THEOREM ConfigKept == Spec => ConfigClearedOnlyByFree
<1>1. IInv /\ [Next]_vars =>
        [\A t \in Threads :
           /\ ~LockStolen /\ pc[t] \in InRun /\ pc'[t] \in InRun
           /\ g_userconfig = t /\ g_userconfig' # t
           => \E u \in Threads \ {"watcher", t} : pc[u] = "free"]_vars
  BY StepConfig DEF IInv, LockInv
<1> QED
  BY <1>1, ServerIInv, PTL DEF Spec, ConfigClearedOnlyByFree

\* The watchdog finds server and watcher alive, the watcher thread ends before
\* its watcher is freed, and with one initialize the server outlives its
\* auto-index thread.
THEOREM ShutdownOrder ==
  Spec => []OutlivesUsers
<1>1. IInv => OutlivesUsers
  BY DEF IInv, SessionInv, OutlivesUsers, WatchdogFindsAll, PastWatchdog
<1> QED
  BY ServerIInv, <1>1, PTL

=============================================================================
