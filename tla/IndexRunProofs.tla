---------------------------- MODULE IndexRunProofs ----------------------------
(***************************************************************************)
(* RowsMatchGraph for every set of files and every number of runs, edits,  *)
(* cancellations, crashes and failures. The invariant follows the graph    *)
(* buffer and the rows through a run: before the dump the DB is as the     *)
(* last run left it, and what the buffer holds of a file is what its row   *)
(* will say; while rows are written, the files without one are known.      *)
(***************************************************************************)
EXTENDS IndexRun, TLAPS

\* A leaf that names no prover is tried with Zenon, then with SMT.
USE ZenonT(60), SMTT(60)

\* The DB agrees with itself while no run is replacing it.
StoredInv ==
  /\ pc \notin {"dump", "persist"} /\ db = "ok" =>
       \A f \in Files \ excused : hash[f] = graph[f]
  /\ pc = "dump" => graph = None /\ hash = None

\* What the graph buffer holds is what the rows are going to say.
BufferInv ==
  pc \in {"extract", "predump", "dump", "persist"} =>
    /\ todo \subseteq files
    /\ \A f \in Files \ (excused \intersect kept) :
         /\ f \in files => f \in touched \union todo \/ gbuf[f] = disk[f]
         /\ f \notin files => gbuf[f] = skipped[f]

\* While rows are written, only the pending ones are missing.
PersistInv ==
  pc = "persist" =>
    /\ db = "ok" /\ graph = gbuf
    /\ \A f \in Files \ (rows \union excused) : hash[f] = graph[f]

RunInv == StoredInv /\ BufferInv /\ PersistInv

\* What a run that was not cancelled has done.
QuietInv ==
  /\ pc \in {"predump", "dump", "persist"} /\ ~cancelled => todo = {}
  /\ pc \in {"extract", "predump", "dump", "persist"} =>
       \A f \in Files : skipped[f] # 0 => f \notin files /\ (f \in touched \/ disk[f] # 0)
  /\ QuietRunExact

\* How a fast run carries the rows of the files it does not visit.
SkipInv ==
  /\ pc \in {"discover", "route"} =>
       had = {f \in Files : db = "ok" /\ graph[f] # 0 /\ hash[f] # 0}
  /\ pc \notin {"idle", "discover", "done"} /\ mode = "fast" => files \intersect FastSkipped = {}
  /\ pc \in {"extract", "predump", "dump", "persist"} /\ route = "incr" /\ mode = "fast" =>
       \A f \in (had \intersect FastSkipped) \ touched : disk[f] # 0 => skipped[f] # 0
  /\ IncrementalKeepsSkipped

IInv == TypeOK /\ RunInv /\ QuietInv /\ SkipInv

USE IndexRunAssumption

LEMMA InitIInv == Init => IInv
<1> SUFFICES ASSUME Init PROVE IInv
  OBVIOUS
<1>1. cancelled \in BOOLEAN
  BY DEF Init
<1>2. TypeOK
  BY <1>1, SMTT(60) DEF Init, TypeOK, None
<1> QED
  BY <1>2 DEF Init, IInv, RunInv, StoredInv, BufferInv, PersistInv, QuietInv, QuietRunExact,
     SkipInv, IncrementalKeepsSkipped

LEMMA StepTypeOK == ASSUME TypeOK, [Next]_vars PROVE TypeOK'
<1> USE DEF TypeOK, None, Return, stored, work, bounds
<1>1. CASE Cancel
  BY <1>1 DEF Cancel
<1>2. CASE Crash
  BY <1>2 DEF Crash
<1>3. CASE Discover
  BY <1>3, SMTT(60) DEF Discover
<1>4. CASE RouteFull
  BY <1>4 DEF RouteFull, BeginFull
<1>5. CASE RouteLoadFails
  BY <1>5 DEF RouteLoadFails, BeginFull
<1>6. CASE RouteNoop
  BY <1>6, SMTT(60) DEF RouteNoop, UseIncremental, Changed, Deleted, Rows
<1>7. CASE RouteIncremental
  BY <1>7, SMTT(60) DEF RouteIncremental, UseIncremental, Changed, Deleted, ModeSkipped, Rows
<1>8. CASE EndExtract
  BY <1>8 DEF EndExtract
<1>9. CASE CancelledBeforeDump
  BY <1>9 DEF CancelledBeforeDump
<1>10. CASE OpenDump
  BY <1>10 DEF OpenDump
<1>11. CASE FinishDump
  BY <1>11, SMTT(60) DEF FinishDump
<1>12. CASE FailDump
  BY <1>12, SMTT(60) DEF FailDump
<1>13. CASE EndPersist
  BY <1>13 DEF EndPersist
<1>14. CASE Finish
  BY <1>14 DEF Finish
<1>15. ASSUME NEW f \in Files, Edit(f) PROVE TypeOK'
  BY <1>15, SMTT(60) DEF Edit
<1>16. ASSUME NEW f \in Files, Extract(f) PROVE TypeOK'
  BY <1>16, SMTT(60) DEF Extract
<1>17. ASSUME NEW f \in Files, Persist(f) PROVE TypeOK'
  BY <1>17, SMTT(60) DEF Persist, NextRow
<1>18. ASSUME NEW f \in Files, FailPersist(f) PROVE TypeOK'
  BY <1>18, SMTT(60) DEF FailPersist, NextRow
<1>21. CASE FailPass
  BY <1>21 DEF FailPass
<1>22. CASE FailOpenStore
  BY <1>22, SMTT(60) DEF FailOpenStore
<1>23. ASSUME NEW f \in Files, FailExtract(f) PROVE TypeOK'
  BY <1>23, SMTT(60) DEF FailExtract
<1>19. ASSUME NEW m \in {"full", "fast"}, Start(m) PROVE TypeOK'
  <2>1. cancelled' \in BOOLEAN
    BY <1>19 DEF Start
  <2> QED
    BY <1>19, <2>1, SMTT(60) DEF Start
<1>20. CASE UNCHANGED vars
  BY <1>20 DEF vars
<1> HIDE DEF TypeOK
<1> QED
  BY <1>1, <1>2, <1>3, <1>4, <1>5, <1>6, <1>7, <1>8, <1>9, <1>10,
     <1>11, <1>12, <1>13, <1>14, <1>15, <1>16, <1>17, <1>18, <1>19, <1>20, <1>21, <1>22, <1>23
     DEF Next, Idle

LEMMA StepRunInv == ASSUME TypeOK, RunInv, [Next]_vars PROVE RunInv'
<1> USE DEF TypeOK, RunInv, StoredInv, BufferInv, PersistInv, None, Return, stored,
    work, bounds
<1>1. CASE Cancel
  BY <1>1 DEF Cancel
<1>2. CASE Crash
  BY <1>2 DEF Crash
<1>3. CASE Discover
  BY <1>3 DEF Discover
<1>4. CASE RouteFull
  BY <1>4 DEF RouteFull, BeginFull
<1>5. CASE RouteLoadFails
  BY <1>5 DEF RouteLoadFails, BeginFull
<1>6. CASE RouteNoop
  BY <1>6 DEF RouteNoop, UseIncremental, Changed, Deleted, Rows
<1>7. CASE RouteIncremental
  BY <1>7 DEF RouteIncremental, UseIncremental, Changed, Deleted, ModeSkipped, Rows
<1>8. CASE EndExtract
  BY <1>8 DEF EndExtract
<1>9. CASE CancelledBeforeDump
  BY <1>9 DEF CancelledBeforeDump
<1>10. CASE OpenDump
  BY <1>10 DEF OpenDump
<1>11. CASE FinishDump
  BY <1>11 DEF FinishDump
<1>12. CASE FailDump
  BY <1>12 DEF FailDump
<1>13. CASE EndPersist
  BY <1>13 DEF EndPersist
<1>14. CASE Finish
  BY <1>14 DEF Finish
<1>15. ASSUME NEW f \in Files, Edit(f) PROVE RunInv'
  BY <1>15, SMTT(60) DEF Edit
<1>16. ASSUME NEW f \in Files, Extract(f) PROVE RunInv'
  BY <1>16, SMTT(60) DEF Extract
<1>17. ASSUME NEW f \in Files, Persist(f) PROVE RunInv'
  BY <1>17, SMTT(60) DEF Persist, NextRow
<1>18. ASSUME NEW f \in Files, FailPersist(f) PROVE RunInv'
  BY <1>18 DEF FailPersist, NextRow
<1>21. CASE FailPass
  BY <1>21 DEF FailPass
<1>22. CASE FailOpenStore
  BY <1>22 DEF FailOpenStore
<1>23. ASSUME NEW f \in Files, FailExtract(f) PROVE RunInv'
  BY <1>23 DEF FailExtract
<1>19. ASSUME NEW m \in {"full", "fast"}, Start(m) PROVE RunInv'
  BY <1>19 DEF Start
<1>20. CASE UNCHANGED vars
  BY <1>20 DEF vars
<1> HIDE DEF RunInv
<1> QED
  BY <1>1, <1>2, <1>3, <1>4, <1>5, <1>6, <1>7, <1>8, <1>9, <1>10,
     <1>11, <1>12, <1>13, <1>14, <1>15, <1>16, <1>17, <1>18, <1>19, <1>20, <1>21, <1>22, <1>23
     DEF Next, Idle

LEMMA StepQuietInv == ASSUME TypeOK, RunInv, QuietInv, [Next]_vars PROVE QuietInv'
<1> USE DEF TypeOK, RunInv, QuietInv, QuietRunExact, StoredInv, BufferInv, PersistInv,
    None, Return, stored, work, bounds
<1>1. CASE Cancel
  BY <1>1 DEF Cancel
<1>2. CASE Crash
  BY <1>2 DEF Crash
<1>3. CASE Discover
  BY <1>3 DEF Discover
<1>4. CASE RouteFull
  BY <1>4 DEF RouteFull, BeginFull
<1>5. CASE RouteLoadFails
  BY <1>5 DEF RouteLoadFails, BeginFull
<1>6. CASE RouteNoop
  BY <1>6 DEF RouteNoop, UseIncremental, Changed, Deleted, Rows
<1>7. CASE RouteIncremental
  BY <1>7 DEF RouteIncremental, UseIncremental, Changed, Deleted, ModeSkipped, Rows
<1>8. CASE EndExtract
  BY <1>8 DEF EndExtract
<1>9. CASE CancelledBeforeDump
  BY <1>9 DEF CancelledBeforeDump
<1>10. CASE OpenDump
  BY <1>10 DEF OpenDump
<1>11. CASE FinishDump
  BY <1>11 DEF FinishDump
<1>12. CASE FailDump
  BY <1>12, SMTT(60) DEF FailDump
<1>13. CASE EndPersist
  BY <1>13 DEF EndPersist
<1>14. CASE Finish
  BY <1>14 DEF Finish
<1>15. ASSUME NEW f \in Files, Edit(f) PROVE QuietInv'
  BY <1>15, SMTT(60) DEF Edit
<1>16. ASSUME NEW f \in Files, Extract(f) PROVE QuietInv'
  BY <1>16 DEF Extract
<1>17. ASSUME NEW f \in Files, Persist(f) PROVE QuietInv'
  BY <1>17 DEF Persist, NextRow
<1>18. ASSUME NEW f \in Files, FailPersist(f) PROVE QuietInv'
  BY <1>18 DEF FailPersist, NextRow
<1>21. CASE FailPass
  BY <1>21, SMTT(60) DEF FailPass
<1>22. CASE FailOpenStore
  BY <1>22 DEF FailOpenStore
<1>23. ASSUME NEW f \in Files, FailExtract(f) PROVE QuietInv'
  BY <1>23 DEF FailExtract
<1>19. ASSUME NEW m \in {"full", "fast"}, Start(m) PROVE QuietInv'
  BY <1>19 DEF Start
<1>20. CASE UNCHANGED vars
  BY <1>20 DEF vars
<1> HIDE DEF QuietInv
<1> QED
  BY <1>1, <1>2, <1>3, <1>4, <1>5, <1>6, <1>7, <1>8, <1>9, <1>10,
     <1>11, <1>12, <1>13, <1>14, <1>15, <1>16, <1>17, <1>18, <1>19, <1>20, <1>21, <1>22, <1>23
     DEF Next, Idle

LEMMA StepSkipInv == ASSUME TypeOK, RunInv, QuietInv, SkipInv, [Next]_vars PROVE SkipInv'
<1> USE DEF TypeOK, RunInv, QuietInv, SkipInv, IncrementalKeepsSkipped, StoredInv,
    BufferInv, PersistInv, None, Return, stored, work, bounds
<1>1. CASE Cancel
  BY <1>1 DEF Cancel
<1>2. CASE Crash
  BY <1>2 DEF Crash
<1>3. CASE Discover
  BY <1>3 DEF Discover
<1>4. CASE RouteFull
  BY <1>4 DEF RouteFull, BeginFull
<1>5. CASE RouteLoadFails
  BY <1>5 DEF RouteLoadFails, BeginFull
<1>6. CASE RouteNoop
  BY <1>6 DEF RouteNoop, UseIncremental, Changed, Deleted, Rows
<1>7. CASE RouteIncremental
  BY <1>7 DEF RouteIncremental, UseIncremental, Changed, Deleted, ModeSkipped, Rows
<1>8. CASE EndExtract
  BY <1>8 DEF EndExtract
<1>9. CASE CancelledBeforeDump
  BY <1>9 DEF CancelledBeforeDump
<1>10. CASE OpenDump
  BY <1>10 DEF OpenDump
<1>11. CASE FinishDump
  BY <1>11 DEF FinishDump
<1>12. CASE FailDump
  BY <1>12 DEF FailDump
<1>13. CASE EndPersist
  BY <1>13, SMTT(60) DEF EndPersist
<1>14. CASE Finish
  BY <1>14 DEF Finish
<1>15. ASSUME NEW f \in Files, Edit(f) PROVE SkipInv'
  BY <1>15, SMTT(60) DEF Edit
<1>16. ASSUME NEW f \in Files, Extract(f) PROVE SkipInv'
  BY <1>16 DEF Extract
<1>17. ASSUME NEW f \in Files, Persist(f) PROVE SkipInv'
  BY <1>17 DEF Persist, NextRow
<1>18. ASSUME NEW f \in Files, FailPersist(f) PROVE SkipInv'
  BY <1>18 DEF FailPersist, NextRow
<1>21. CASE FailPass
  BY <1>21 DEF FailPass
<1>22. CASE FailOpenStore
  BY <1>22, SMTT(60) DEF FailOpenStore
<1>23. ASSUME NEW f \in Files, FailExtract(f) PROVE SkipInv'
  BY <1>23 DEF FailExtract
<1>19. ASSUME NEW m \in {"full", "fast"}, Start(m) PROVE SkipInv'
  BY <1>19 DEF Start
<1>20. CASE UNCHANGED vars
  BY <1>20 DEF vars
<1> HIDE DEF SkipInv
<1> QED
  BY <1>1, <1>2, <1>3, <1>4, <1>5, <1>6, <1>7, <1>8, <1>9, <1>10,
     <1>11, <1>12, <1>13, <1>14, <1>15, <1>16, <1>17, <1>18, <1>19, <1>20, <1>21, <1>22, <1>23
     DEF Next, Idle

\* The types and the agreement of buffer, graph and rows hold throughout.
THEOREM IndexRunIInv == Spec => []IInv
<1>1. IInv /\ [Next]_vars => IInv'
  BY StepTypeOK, StepRunInv, StepQuietInv, StepSkipInv DEF IInv
<1> QED
  BY <1>1, InitIInv, PTL DEF Spec

\* Between runs, whatever was interrupted before, the hash rows of the DB name
\* the versions its nodes come from, except where a race, a cancellation, a
\* crash or a failed read or write is on record.
THEOREM RowsTruthful == Spec => []RowsMatchGraph
<1>1. IInv => RowsMatchGraph
  BY DEF IInv, RunInv, StoredInv, RowsMatchGraph
<1> QED
  BY <1>1, IndexRunIInv, PTL

\* A run that was not cancelled and returns 0 has brought the index up to
\* date with the files it visited and purged those that are gone.
THEOREM SuccessIsExact == Spec => []QuietRunExact
<1>1. IInv => QuietRunExact
  BY DEF IInv, QuietInv
<1> QED
  BY <1>1, IndexRunIInv, PTL

\* A fast run on the incremental route keeps the nodes and the row of every
\* file that only full mode visits.
THEOREM SkippedFilesKept == Spec => []IncrementalKeepsSkipped
<1>1. IInv => IncrementalKeepsSkipped
  BY DEF IInv, SkipInv
<1> QED
  BY <1>1, IndexRunIInv, PTL

=============================================================================
