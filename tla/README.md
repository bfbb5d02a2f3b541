# A TLA+ development for amaze-mcp

amaze-mcp is a code-indexing MCP server: one process that answers JSON-RPC
requests on stdin, indexes a source tree into a SQLite file, watches the tree
through git and reindexes what changed, and keeps a small "agent memory" in a
second SQLite file that all server processes of a user share. This directory
holds TLA+ modules for the parts of it where order matters (threads, files,
interruptions), the TLC configurations that check them, and TLAPS proofs.

All source paths below are relative to the repository's `src/`.

## 1. The system

| part | state | operations | where | module |
|---|---|---|---|---|
| worker pool | shared counter, thread array, the caller's stack frame | `cbm_parallel_for` | `pipeline/worker_pool.c` | WorkerPool |
| server process | `g_server`, `g_watcher`, `g_shutdown`, `active_pipeline`, `autoindex_tid` | `initialize`, `index_repository`, `delete_project`, `request_shutdown`, end of `main` | `main.c`, `mcp/mcp.c` | IndexServer |
| pipeline lock and user config | `g_pipeline_busy`, `g_userconfig` | lock, try_lock, unlock; install, clear | `pipeline/pipeline.c`, `discover/userconfig.c` | IndexServer |
| watcher | one `project_state_t` per project | watch, `poll_once`, `poll_project`, `watcher_index_fn` | `watcher/watcher.c`, `main.c` | Watcher |
| indexing run | the DB file (graph, `file_hashes`), the graph buffer | discovery, route, classify, extract, dump, persist | `pipeline/pipeline.c`, `pipeline/pipeline_incremental.c` | IndexRun |
| agent memory | `memory_candidates`, `memories` | candidate, validate, commit, recall | `mcp/mcp.c` | MemoryManifest |
| artifacts | `graph.db.zst`, metadata | export, import | `pipeline/artifact.c` | ProjectStore |
| project store | the cached connection, the DB file, ADRs | `resolve_store`, auto-clean, `manage_adr` | `mcp/mcp.c`, `store/store.c` | ProjectStore |
| HTTP UI | four job slots, log ring | start, status, kill, delete | `ui/http_server.c` | UiJobs, ProjectStore |
| extraction, graph buffer, passes | per-worker buffers, indexes | parse, resolve, merge | `pipeline/pass_*.c`, `graph_buffer/` | GraphBuild |
| SQLite page writer | the page being built, two page counters | leaves, overflow chains, interior levels, page 1 | `../internal/cbm/sqlite_writer.c` | SqliteWriter |
| queries | none of its own | Cypher, search, trace | `cypher/`, `store/` | none |
| foundation, CLI | allocators, tables, files of other programs | | `foundation/`, `cli/` | none |

What makes it hard:

- The event loop, the watcher thread, auto-index threads, the parent watchdog
  and a signal handler share one spinlock and a few plain pointers.
- `request_shutdown` cancels a pipeline it found through an unprotected pointer
  and releases a lock that somebody else may hold.
- A run unlinks the old DB, writes a new one page by page and then adds the
  hash rows one by one, while the user goes on editing; it can be cancelled or
  killed at each step, and the next run trusts the hash rows.
- The watcher compares two pieces of git state read at different moments with
  what it recorded earlier, and the run in between can be skipped or fail.
- Four kinds of actors open, replace or unlink a project's DB file, and only
  two of them share a lock. The event loop keeps a connection open meanwhile.
- Workers build parts of one graph with ids from a shared counter, and
  sequential passes in between use another counter.
- The dump writes SQLite's file format itself, page by page.
- Job threads, child processes and process numbers that come around meet in the
  UI's four slots.
- Several processes write the memory manifest without multi-statement
  transactions.

`PROJECT.json` lists the hazards line by line, with the properties that cover
them.

## 2. The modules

### WorkerPool, ParallelFor

`ParallelFor` is what `worker_pool.h` promises of a call: each index below
`count` is visited once, by some thread, before the call returns.
`WorkerPool` is the code: the serial fallback for one worker or a short loop,
thread creation that may fail at any thread, the `fetch_add` and the bound test
as separate steps, and the join of the threads that were created. It implements
`ParallelFor` (`ImplementsParallelFor`). `FrameOutlivesThreads` is about the
argument block, which lives on the caller's stack.

### IndexServer

The process seen from the lock. `pc[t]` places each of the main thread `"mcp"`,
the watcher and the auto-index threads; `sd` places `request_shutdown`, which
the watchdog thread or a signal handler runs. A pipeline run is here only its
use of the lock, of the configuration and of the DB file. The places where the
code differs between threads are kept: `index_repository` and
`autoindex_thread` unlock and then free their pipeline, `watcher_index_fn` frees
and then unlocks; the incremental route of `cbm_pipeline_run` returns without
the cleanup of the configuration.

### Watcher

The repository as numbered contents of the working tree, the index, and the
watcher's `last_head`. `check_changes` reads HEAD and the status in two steps,
and each git command may fail (`GitFails`; a baseline taken then has no HEAD).
`Hidden` describes the states in which the index is behind and no later poll
will notice.

### IndexRun

One project's files and DB over consecutive runs. A version number stands for a
file's content and for the (mtime, size) pair of its hash row; `graph[f]` is the
version whose nodes the DB holds, `hash[f]` the one its row names. Each file is
read, and each row written, in a step of its own. `FastSkipped` are the files
only full mode visits. `excused` and `touched` are history variables: they
record the events after which a file may be wrong, and the properties say that
nothing else makes it wrong.

### MemoryManifest

The two tables and, for each process, the statement its handler has reached.
Each statement is a transaction; the result of a refused one is not examined by
the code, which the model folds with the death of the process (`Mishap`). The
history variable `raced` collects the ids that were validated while some
process was between the two statements of its commit.

### ProjectStore

One project's DB file and its shared archive under their four users: the event
loop with its cached connection (`conn`, that is `srv->store`), a background run
(watcher or auto-index thread), the child that the UI starts to index, and the
UI's own handlers. `fs.path` is the file the name leads to;
unlinked files live on while someone has them open, which is what makes a
connection stale. `rpc[r]` places a run: import (before the lock), lock, route,
unlink, dump in three stages, hash rows, export of the archive and its metadata
in two renames. `Query` is `resolve_store`; the integrity check and the unlink
that may follow (`AutoClean`) are separate steps. `hit` and `at_risk` are
history variables: which runs were surprised by somebody else, and whether
something that replaces files happened since the last saved ADR.

### GraphBuild

One build of the graph, full or incremental, on the parallel route. A source is
a record of what extraction finds in it; a buffer is its nodes in order, with
`id` and `qn`, its edges and its counter. Workers take files, fill buffers of
their own with ids from `shared` (`shared_ids`), and `cbm_gbuf_merge` moves the
buffers into `main` in worker order, one node per step, remapping edges where a
qualified name is there already. The registry pass runs between the two
parallel phases; `InfraBinding` and `K8sManifest` stand for the late passes.
`Reference` says which edges a set of sources calls for, without ids, workers or
order, and the dumped graph is compared with it.

### UiJobs

The slots of `/api/index`, the detached thread of each job, its child, process
numbers with zombies and strangers (`proc`), the one log file name all children
share, and the log ring. `status` and `child_pid` are the fields of
`index_job_t`. Thread steps are fork, the polling `waitpid` (`Poll`), the opening
of the log file (`OpenLog`), the read of what the child has written so far into
the stream's buffer (`Fill`), the copying of the buffer to the ring line by line
(`CopyLine`, one `cbm_ui_log_append` under its mutex each) and the second
`waitpid` with the final store (`Finish`). Two threads may copy at the same time.
`ProcessKill` is the handler's test of the slots and the signal in one step,
since the HTTP loop is the only caller.

### SqliteWriter

A file of several trees, tables and indexes. A row is its key and the length of
its payload; a page is its cells in order and the bytes left in it. `TableRow`
puts a cell on the current leaf, flushing the leaf first if need be;
`SpillIndexCell` and `IndexCell` are the index's two passes, with the cell that
is promoted to the parent; `FillCell` and `ClosePage` are `fill_interior_page`
and `write_interior_page`, level by level; `Master` writes page 1 last.
`next` and `pb` are the two page counters that are copied to one another.
`Found` is SQLite's descent from a root, written from the file format.

### Modules for TLC

`MCIndexRun` declares the symmetry of the files, `MCGraphBuild` lists the kinds
of sources, `MCSqliteWriter` the trees of the file. The other configurations
use the component's module directly.

## 3. What is checked

Passing runs:

| run | instance | distinct states | shows |
|---|---|---|---|
| `worker_pool` | 0, 1 or 4 indices, up to 3 workers | 3,874 | each index once, no thread left on the frame, the call returns, refinement of `ParallelFor` |
| `index_server` | 1 auto-index thread, 2 `initialize` requests | 424,590 | the lock excludes until shutdown releases it; the configuration never dangles and is cleared under a run only by a late free; watcher, server and project state are not freed under their users; a shutdown ends the process |
| `watcher` | 3 contents, 2 foreign runs, 1 failed run, 2 failing git commands | 481,098 | the exact list of events that hide a change; a visible change is indexed |
| `index_run` | 3 files (one skipped by fast mode), 2 edits, 2 runs, 1 cancel, 1 crash, 1 failure | 2,736,262 | hash rows and graph agree between runs; success means up to date; fast incremental runs keep what they do not visit |
| `manifest` | 2 processes, 3 candidates, 2 faults | 107,966 | memories come from validated candidates; when committed and recallable come apart |
| `graph_build` | 2 files, 7 kinds of source, before and after, 2 workers | 1,666,366 | ids unique and edges attached; a full build dumps exactly the edges the sources call for; an incremental one those of the changed files, and no false one |
| `project_store` | 2 runs, 1 other request, 1 edit, 1 fault | 1,612,639 | an undisturbed successful run leaves its database; who can make the connection stale, leave a database without a project, spoil the archive or lose an ADR |
| `ui_jobs` | 2 slots, 2 jobs, 2 process numbers, 2 lines, ring of 2 | 375,044 | a slot has one owner; children are reaped; what a kill can hit; log lines arrive; the ring returns the last ones; every job ends |
| `sqlite_writer` | a table then an index, 8 rows of 3 sizes, 14-byte pages, pending page 5 | 922,602 | no page overfull; every row found by SQLite's descent, once, at even depth; every page written once and named once |

Runs that refute a statement of the repository (each has an entry under
`findings` with the quotation):

| run | statement | what happens |
|---|---|---|
| `cancel_freed` | cancellation is "thread-safe" | the pipeline is freed between the read of the pointer and the cancel |
| `ids_clash` | "shared_ids provides globally unique node/edge IDs across workers" | the registry pass creates Channel nodes from the main buffer's counter, a resolve worker gets the same id, and an edge is dumped to the wrong node |
| `lone_child` | the writer makes "a valid .db file" | one child left over on a level becomes an interior page without cells |

`ids_clash` and `lone_child` say what the passing runs have to leave open:
`FullBuildExact` and `IncrementalExact` except EMITS edges once a Channel node
was created (`Settled`), and `TreesSound` describes lookups, for which a page
with only a right child is no obstacle.

More consequences of the code have no run of their own; the properties that
hold have to name them:

- `ExclusiveUntilShutdown`: `request_shutdown` unlocks for whoever holds the
  lock, and a waiting thread starts beside the holder.
- `ConfigClearedOnlyByFree` allows a thread at its late free: such a free clears
  the configuration of the run that took the lock in between.
- `OutlivesUsers` excepts an auto-index thread whose place in `autoindex_tid` a
  second `initialize` has taken: nobody joins it.
- `HiddenOnlyBy` names a poll skipped because the lock was busy (the callback's
  0 is taken for success and HEAD is recorded, although
  `main.c:161` says "Watcher will retry on next poll cycle"), a failed run (HEAD is recorded before the run, although
  `watcher.c:450` says "after successful reindex"), and a commit while
  `last_head` is empty because git failed.
- `IncrementalKeepsSkipped` holds on the incremental route only: a fast run with
  many new files takes the full route and purges what only full mode visits.
- `QuietRunExact` excludes cancelled runs: a cancel just before the dump, or in
  an incremental run, returns 0. The same property and `SuccessLeavesDb`
  exclude a failed dump of an incremental run, whose result is only logged.
- `LostOnlyByRace`: another process's validation between INSERT and UPDATE makes
  a candidate committed that is not in `memories`. `RecalledIsCommitted`
  excludes faults between the two statements.
- `AdrLostOnlyBy`: every run that dumps writes a DB without the ADR, although
  the hint in `mcp.c` (line 2653) speaks of `manage_adr` "to persist architectural
  insights across sessions"; and an ADR written through a stale connection is acknowledged and
  seen by nobody else, although `mcp.c:4169` says that "writes via the MCP tool
  and the UI are visible to each other".
- `GhostOnlyBy`: a database with the schema and no project passes the integrity
  check and keeps the project from being indexed automatically.
- `RowsTruthful`: only the import, which takes no lock, can leave hash rows
  beside a graph they do not describe.
- `KillAstrayOnlyBy`: between the start of a job and its fork, the slot still
  has the process number of its previous child.
- `ChildReaped` holds because the polling `waitpid` reaps; the second one then
  fails with ECHILD, so a job whose child failed or was killed is reported as
  done (2), not as error (3).
- `PendingOnlyOverflow`: `write_overflow_pages` does not skip the pending-byte
  page, although the comment at `sqlite_writer.c:30` says that it "MUST be
  skipped during allocation".
- `IncrementalExact`: edges from unchanged files into a purged node, and infra
  bindings, are missing after an incremental run.

**Bounds.** Two consecutive runs are the least that shows what a run does to
its successor, and an interrupted run followed by a complete one; three files
give the route's growth test (`files <= rows + rows / 2`) both outcomes with a
mode-skipped file beside. Three contents let the user edit and commit before,
during and after a run. Three contenders for the lock (event loop, watcher,
auto-index thread) use each of its three entry points. Two processes suffice for
the manifest because a lost row needs one committer and one validator. Two
workers and two files are the least with which buffers collide and ids
interleave; the seven kinds of source have each feature alone or with those it
interacts with. In `project_store` two runs with a request and a fault beside
them meet in every place of the code; the counters bound the length of a
history, not who takes part. `Slots`, five files alive at once, is no bound: the
proof of `StoreTypes` shows that a sixth is never asked for. Two jobs on two process numbers let a number come
around and a kill meet its second owner, and a ring of two wraps. Pages of 14
bytes hold one to four cells, so eight rows give three levels, overflow chains
of more than one page, and a pending page in the middle of the trees. The proofs below
remove the bounds for the properties they cover.

**Deadlock** is not checked where the system may stop: a build, a job or a
history that has used up its bounds.

**Fairness.** `WF` of a thread's own steps: the operating system schedules it
and a pipeline run ends. A weakly fair `Lock` is enough although the lock is a
spinlock without order, because after a shutdown the watcher starts no further
run and the main thread takes no further request, so a waiting thread meets
finitely many other holders. Requests, edits, signals and the client's
end-of-file have no fairness; the event loop must leave only when stdin is
closed. In `Watcher`, time passes, the foreign run that holds the lock ends, and
git fails finitely often. In `UiJobs`, job threads run (`ThreadStep`), and a
child starts and ends (`ChildOpen`, `ChildExit`), since indexing terminates; a
kill is never required.

Every property has a mutant of the model that violates it: a change the code
could plausibly suffer, in an operator next to the definition it stands in for
and marked `Bug` or `Mutant`.

## 4. What is proved

For all values of the constants, with TLAPS:

| theorem | states | inductive invariant |
|---|---|---|
| `PoolVisitsOnce`, `PoolFrameSafe`, `PoolImplementsParallelFor` | no index twice; no thread after the return; refinement | claimed indices are distinct and below the counter; a thread that ended saw the counter past `count`; the caller joins what it created |
| `LockExcludes` | `TypeOK`, `ExclusiveUntilShutdown` | who is between lock and unlock finds `busy` set, until shutdown clears it |
| `ConfigSafe`, `ConfigKept` | `ConfigNotDangling`, `ConfigClearedOnlyByFree` | the first is inductive; the second is a step property that follows from exclusion |
| `ShutdownOrder` | `OutlivesUsers`, for any number of `initialize` requests | the order of main's joins and frees; one `initialize` starts at most one thread, and the last one is in `autoindex_tid` |
| `ChangeStaysVisible` | `HiddenOnlyBy` | git's part: a dirty tree differs from every commit, so a commit never lands on `last_head` |
| `RowsTruthful`, `SuccessIsExact`, `SkippedFilesKept` | the three properties of `index_run` | what the buffer, the remaining rows and the saved mode-skipped rows say of each file at each phase, up to `touched` and `excused` |
| `SnapshotStays` | `SnapshotLive`, for any number of auto-index threads | with one `initialize` there is one registration, made by the event loop or by the one thread it started, which has then ended |
| `MemoriesValidated`, `CommittedAreRecallable`, `RecallableAreCommitted` | the three properties of `manifest` | the rows an UPDATE will mark are in `memories`, or raced |
| `IdsUnique`, `EdgesStayAttached` | `NodeIdsUnique`, `EdgesAttached` | ids of worker buffers are below `shared`, distinct across workers and, until merged, absent from `main`; edges of a worker end in its own nodes or in `main`'s; merged nodes are found by name, so remapping lands on a live node |
| `PagesNeverOverfull`, `PendingSkipped`, `PagesWrittenOnce` | `PagesFit`, `PendingOnlyOverflow`, `WriteOnce` | `room` is what the cells of the page leave; no cell is longer than `Geometry` allows; all written pages are below the counter in use at each phase |
| `PagesUsedOnce` | `UsedOnce` | `UInv`: a page number is in at most one of the six places that hold page numbers, at most once in it, and it is in one exactly if the page is written; see below |
| `SlotsOwned`, `ChildrenReaped`, `KillMissesOnlyBeforeFork` | `SlotOwned`, `ChildReaped`, `KillAstrayOnlyBy` | where a job's thread is determines who has the process number in its slot |
| `LogsComplete`, `RingHasLast` | `LogComplete`, `RingIsLast` | `LInv`: `tail` minus the lines still in the stream's buffer is what the ring has been given of a lone job's log, and at the end `tail` is all the child wrote; the ring's entry for an append number is the line appended then, for the last `RingSize` numbers |
| `StoreTypes`, `StoreSuccess`, `StoreRows`, `StoreConnection`, `StoreGhosts`, `StoreArchive`, `StoreAdr` | the seven properties of `project_store` | see below |

The theorem `RowsTruthful` of `IndexRunProofs` is about `RowsMatchGraph`; the
property `RowsTruthful` of `ProjectStore` is another one, proved as `StoreRows`.

**ProjectStore.** The seven properties lean on one another: what a run leaves
depends on what it finds at the path, and that on what an import may put there.
Beside types, `IInv` of `StoreProofs` has these parts. `Good` is true of every
file, also of one whose name is gone: its rows describe its graph, or it was
imported or has an empty graph, and an imported one can be opened. `Claim` says,
for each place in the code, what a run that nobody surprised (not in `hit`)
finds at the path: nothing after its unlink, its own file while it dumps, the
graph it built when it writes the rows. `Fresh` says that the graph at the path
is that of the present sources while some run is between unlink and rows.
`ArtInv` is about the archive and its copy in an import; `LoopInv`,
`StaleOnlyBy` and `AdrLostOnlyBy` are about the event loop. A step of one actor is then split into what it does to the files
(`Fit`, then `After` for files nobody holds any more) and what it does to the
actor's own place; the lemma `Step` says once what the first does to everybody
else, and each action has a lemma of its own that supplies the second. `StoreProofs` also has the theorems about
MemoryManifest, the other SQLite file that processes share.

**SqliteWriter.** Between being handed out and being named by a finished page, a
page number is in the cells of the page under construction, in an index's
spilled cells, in the PageRefs of the level below or of the level being built,
or in the roots. `Named(q)` says that page `q` is written exactly if one of
these five places or the file names it, and that it is named once. Every action
moves numbers between two or three places: a flush takes the cells of a leaf
into the file and puts the leaf's number among the children, `FillCell` moves a
child and its separator to the interior page, the end of a level makes parents
of it. What counts as a separator still to be written depends on the phase
(`Seps`): the last one of a level never is, and a table's never are. `SInv` has
the facts about the phases this rests on, among them that a full index leaf has
at least two cells (so that promoting the last leaves a leaf to write) and that
no number below the counter is passed over except the pending page (`Filled`).

**UiJobs.** `LInv` is proved on top of the invariant of the first three results.
A job's lines reach the ring in three moves (child to file, file to buffer,
buffer to ring), in steps of two processes, while other jobs append to the same
ring. `Progress` ties the three together for a job that overlaps no other;
`Apart` says that nobody else has its log file; `RingInv` is index arithmetic
modulo `RingSize`.

Type correctness is part of every inductive invariant, so the runs of these
components do not check it again; `project_store` does, and has it proved as
well, because the property includes the pipeline lock.

Assumptions are the named `ASSUME`s on the constants only: bounds are natural
numbers, thread and candidate names are distinct from the reserved ones,
`FastSkipped` is a set of files, and `Geometry`, inequalities between page size,
headers and overflow limits that the constants of `sqlite_writer.c` meet.

Only model-checked:

- `Returns`, `ShutdownEnds`, `ChangeIndexed` and `JobEnds`: liveness under
  fairness is out of the prover's reach.
- `TreesSound`: SQLite's descent and the levels of a tree are recursions over
  what the writer left; for every tree they need induction over data.
- `FullBuildExact` and `IncrementalExact`: the invariant has to say, at each step
  of extraction, merge and resolution, which edges of the reference are still to
  come. It has not been worked out; `IdsUnique` and `EdgesStayAttached`, on
  which it would rest, are proved.

## 5. Abstractions

- IndexRun: full and fast mode only (moderate behaves as fast with another set
  of skipped files); what the passes extract is the version they extracted it
  from; an allocation failure that skips the extraction counts as unreadable
  files. Two edits of a file differ in mtime or size.
- IndexServer: one project; the HTTP thread, which has a server object of its
  own, and the update-check thread are left out; the artifact import is only
  its effect on the existence of the file. `SnapshotLive` is stated for clients
  that send `initialize` once, as the MCP handshake has it; with a second one it
  fails. An auto-index thread can reach its registration with the watcher after
  main has freed it. Two auto-index threads with liveness are too many for TLC;
  the proofs cover them for safety.
- Watcher: one project; intervals have no length. `cbm_watcher_unwatch` and
  `cbm_watcher_touch` have no caller in the server.
- MemoryManifest: ids are distinct; one project key; recall, search, feedback
  and rebuild do not change the two tables.
- ProjectStore: one version number for all sources, and edits only between the
  runs (IndexRun has the others); the migration of `adr.md`, WAL and SHM files,
  mtimes of imported rows and the content of the metadata are left out.
- GraphBuild: labels, lines, properties, edge ids, vectors and import edges are
  left out, and with them the secondary indexes of the buffer; so are
  cancellation, back-pressure, and the sequential route of small runs. Other
  late passes have the shape of the two that are there.
- UiJobs: the server's own log lines, which go to the same ring (`main.c:454`),
  the exit code, which the polling `waitpid` drops and the second does not get,
  the lazy initialisation of the log mutex, the unsynchronised read of
  `root_path`, the log file of an earlier server and the Windows branch are left
  out. A process number is not reused between the reaping and the end of the
  thread. `LogComplete` is about jobs that overlap no other: children that
  overlap share one log file name.
- SqliteWriter: record encoding, serial types, the widths of varints, the sort
  of index keys, failing writes and allocations are left out. Under `Geometry`
  the branches for a cell larger than a page and for an un-add that empties a
  leaf are not reached. The file's head comment gives a page size of 4096; the
  code uses 65536.

## 6. Not modelled

The definitions that model code cover a few thousand lines, about one per cent
of the 235,000 lines of C in the repository, most of which are generated
parsers; of the hand-written code they are the parts with shared state, order
or a file format to get wrong. Left out, with the reason:

- Cypher, search, trace and layout: read-only evaluation of one request, without
  state of its own.
- Discovery, ignore rules, language table: walks and matching on strings; their
  result is a parameter of `IndexRun`.
- Resolution passes other than those in `GraphBuild`, similarity, semantic
  scoring, git history: heuristics on data that no property tells apart; what
  they add goes through the buffer operations that are modelled.
- Allocators, hash table, interning, logging: sequential containers, or a single
  atomic operation each.
- MCP parsing and dispatch, `notifications/cancelled` (read by the thread that
  is busy with the run it would cancel), and the update check (one unsynchronised
  field without a protocol).
- CLI, installer, hooks: edits of other programs' files.
- The generated parsers and vendored libraries; SQLite, git and the operating
  system appear as their users see them.
