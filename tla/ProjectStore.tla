----------------------------- MODULE ProjectStore -----------------------------
(***************************************************************************)
(* The database file of one project and everybody who opens, replaces or   *)
(* removes it: the MCP event loop with its cached connection (query tools, *)
(* manage_adr, delete_project, index_repository with the import of the     *)
(* shared artifact, idle eviction), the watcher or auto-index thread, the  *)
(* UI's HTTP thread, and the child process that the UI starts to index.    *)
(* Only some of them take the pipeline lock.                               *)
(*                                                                         *)
(* The file system is POSIX: a name leads to a file, an open connection    *)
(* stays on its file when the name is removed or leads to another one. A   *)
(* file is what SQLite makes of it:                                        *)
(*   "new"    no bytes yet (the dump's fopen): an empty database           *)
(*   "part"   pages but no page 1: not a database                          *)
(*   "ghost"  the schema and no project row                                *)
(*   "ok"     a whole dump: graph g, hash rows h, ADR adr (0: none)        *)
(*   "bad"    written by two at once, no readable tables                   *)
(* The sources have a version, and a graph or a row that of the sources it *)
(* was made from. An edit in the middle of a run is IndexRun's subject.    *)
(***************************************************************************)
EXTENDS Integers, Sequences, FiniteSets

CONSTANTS MaxEdits,     \* bounds on versions,
          MaxRuns,      \* runs,
          MaxRequests,  \* other requests, of MCP clients and of the UI,
          MaxFaults     \* and writes that fail or deaths of the child

ASSUME ProjectStoreAssumption ==
  MaxEdits \in Nat /\ MaxRuns \in Nat /\ MaxRequests \in Nat /\ MaxFaults \in Nat

Runners == {"srv", "bg", "child"}
Locked == {"srv", "bg"}      \* the child process has a lock of its own
Importers == {"srv", "child"}  \* handle_index_repository

VARIABLES fs,       \* [path, files]: the file at the DB path (0: none), all files
          ver,      \* version of the sources
          conn,     \* srv->store: the file it is on, 0 if NULL
          spc,      \* the event loop: "ready", "clean" (in resolve_store), "run"
          lock,
          rpc, rfile, rg, route,  \* the runs: place, file written, graph, route
          failed,   \* runs whose dump failed
          boot,     \* what an import has read
          art,      \* the archive: its DB, whether the metadata "fits" it, its maker
          acked,    \* the last ADR a client was told is saved
          edits, runs, requests, faults,  \* counters
          hit,      \* history: runs whose file somebody else touched
          at_risk   \* history: the file was replaced since, or the ADR went to a stale one

run == <<rpc, rfile, rg, route, failed, boot>>
count == <<edits, runs, requests, faults>>
vars == <<fs, ver, conn, spc, lock, run, art, acked, count, hit, at_risk>>

-----------------------------------------------------------------------------
(* The file system *)

File(st, g, h, adr, src) == [st |-> st, g |-> g, h |-> h, adr |-> adr, src |-> src, by |-> "none", two |-> FALSE]
NoFile == File("part", 0, 0, 0, "none")

\* Enough for the path, the connection, two writers and a file to come
Slots == 1..5

At(f) == IF f.path = 0 THEN NoFile ELSE f.files[f.path]
Here(f, st) == f.path # 0 /\ At(f).st \in st

Rewrite(f, i, file) == [f EXCEPT !.files[i] = file]

Unlink(f, who) ==
  IF f.path = 0 THEN f
  ELSE [path |-> 0, files |-> [f.files EXCEPT ![f.path].by = IF f.path = conn THEN who ELSE @]]

\* A file lives as long as its name or somebody who has it open.
Held(f, i) == i = f.path \/ i = conn \/ \E r \in Runners : rfile[r] = i

Place(f, new, who) ==
  LET i == CHOOSE i \in Slots : ~Held(f, i) /\ \A j \in Slots : j < i => Held(f, j)
  IN [path |-> i, files |-> [Unlink(f, who).files EXCEPT ![i] = new]]

\* cbm_store_open_path: an absent or empty file gets the schema.
OpenCreate(f, who) ==
  IF f.path = 0 THEN Place(f, File("ghost", 0, 0, 0, who), who)
  ELSE IF At(f).st = "new"
       THEN Rewrite(f, f.path, [At(f) EXCEPT !.st = "ghost", !.src = "raced", !.two = TRUE])
       ELSE f

\* The statements that a store just opened by name can run.
Usable(f) == Here(f, {"ghost", "ok"})

InRun(r) == rpc[r] \notin {"off", "import", "lock"}

\* A change of the file takes the other runs by surprise.
Touch(a, new) ==
  /\ fs' = [new EXCEPT !.files = [i \in Slots |-> IF Held(new, i) THEN @[i] ELSE NoFile]]
  /\ hit' = IF new = fs THEN hit ELSE {r \in Runners : InRun(r) /\ (r \in hit \/ r # a)}

Replace(a, new) ==
  /\ Touch(a, new)
  /\ at_risk' = (acked # 0 /\ (at_risk \/ fs.path # 0))

-----------------------------------------------------------------------------

Init ==
  /\ \E has, shared \in BOOLEAN :
       /\ fs = IF has THEN [path |-> 1, files |-> [i \in Slots |-> IF i = 1 THEN File("ok", 1, 1, 0, "run") ELSE NoFile]]
                      ELSE [path |-> 0, files |-> [i \in Slots |-> NoFile]]
       /\ art = IF shared THEN [zst |-> File("ok", 1, 1, 0, "run"), meta |-> "fits", by |-> "run", why |-> "run"]
                          ELSE [zst |-> NoFile, meta |-> "none", by |-> "none", why |-> "none"]
  /\ ver = 1 /\ conn = 0 /\ spc = "ready" /\ lock = "none"
  /\ rpc = [r \in Runners |-> "off"] /\ rfile = [r \in Runners |-> 0]
  /\ rg = [r \in Runners |-> 0] /\ route = [r \in Runners |-> "full"]
  /\ failed = {} /\ boot = [r \in Importers |-> NoFile]
  /\ acked = 0 /\ edits = 0 /\ runs = 0 /\ requests = 0 /\ faults = 0
  /\ hit = {} /\ at_risk = FALSE

Edit ==
  /\ edits < MaxEdits /\ \A r \in Runners : ~InRun(r)
  /\ ver' = ver + 1 /\ edits' = edits + 1
  /\ UNCHANGED <<fs, conn, spc, lock, run, art, acked, runs, requests, faults, hit, at_risk>>

-----------------------------------------------------------------------------
(* The event loop's requests *)

\* resolve_store: the cached connection, or a query-only open, an integrity
\* check and a look for the project row.
Resolve ==
  \/ conn # 0 /\ conn' = conn /\ spc' = "ready"
  \/ conn = 0 /\ Here(fs, {"ok"}) /\ conn' = fs.path /\ spc' = "ready"
  \/ /\ conn = 0 /\ (fs.path = 0 \/ Here(fs, {"ghost", "part", "bad"}))
     /\ conn' = 0 /\ spc' = "ready"
  \/ conn = 0 /\ Here(fs, {"new", "bad"}) /\ conn' = 0 /\ spc' = "clean"

\* Mutant: resolve_store opens with create.
ProbedCreating == IF conn = 0 THEN OpenCreate(fs, "query") ELSE fs

\* The open writes a header into an empty file, whose writer goes on.
Probed ==
  IF conn = 0 /\ Here(fs, {"new"}) THEN Rewrite(fs, fs.path, [At(fs) EXCEPT !.two = TRUE]) ELSE fs

Query ==
  /\ spc = "ready" /\ requests < MaxRequests
  /\ requests' = requests + 1
  /\ Resolve
  /\ Touch("srv", Probed)
  /\ UNCHANGED <<ver, lock, run, art, acked, edits, runs, faults, at_risk>>

\* The rest of resolve_store when the check failed: the name is removed,
\* whatever it leads to by now.
AutoClean ==
  /\ spc = "clean"
  /\ Replace("srv", Unlink(fs, "clean"))
  /\ spc' = "ready"
  /\ UNCHANGED <<ver, conn, lock, run, art, acked, count>>

\* Mutant: the result of resolve_store is not looked at.
AdrUpdateUnchecked ==
  /\ spc = "ready" /\ requests < MaxRequests
  /\ requests' = requests + 1
  /\ Resolve
  /\ IF conn' # 0 /\ fs.files[conn'].st \in {"ok", "ghost"}
     THEN /\ fs' = Rewrite(fs, conn', [fs.files[conn'] EXCEPT !.adr = requests'])
          /\ acked' = requests'
          /\ at_risk' = (conn' # fs.path)
          /\ UNCHANGED hit
     ELSE Touch("srv", Probed) /\ acked' = requests' /\ at_risk' = FALSE
  /\ UNCHANGED <<ver, lock, run, art, edits, runs, faults>>

\* manage_adr with mode update or store
AdrUpdate ==
  /\ spc = "ready" /\ requests < MaxRequests
  /\ requests' = requests + 1
  /\ Resolve
  /\ IF conn' # 0 /\ fs.files[conn'].st \in {"ok", "ghost"}
     THEN /\ fs' = Rewrite(fs, conn', [fs.files[conn'] EXCEPT !.adr = requests'])
          /\ acked' = requests'
          /\ at_risk' = (conn' # fs.path)
          /\ UNCHANGED hit
     ELSE Touch("srv", Probed) /\ UNCHANGED <<acked, at_risk>>
  /\ UNCHANGED <<ver, lock, run, art, edits, runs, faults>>

\* Mutant: the connection stays open.
DeleteProjectKeepsStore ==
  /\ spc = "ready" /\ requests < MaxRequests /\ lock = "none"
  /\ requests' = requests + 1
  /\ Replace("srv", Unlink(fs, "srv"))
  /\ UNCHANGED <<ver, conn, spc, lock, run, art, acked, edits, runs, faults>>

\* handle_delete_project: the lock is taken and released around the removal.
DeleteProject ==
  /\ spc = "ready" /\ requests < MaxRequests /\ lock = "none"
  /\ requests' = requests + 1
  /\ conn' = 0
  /\ Replace("srv", Unlink(fs, "srv"))
  /\ UNCHANGED <<ver, spc, lock, run, art, acked, edits, runs, faults>>

\* cbm_mcp_server_evict_idle, after a time without requests
EvictIdle ==
  /\ spc = "ready" /\ conn # 0
  /\ conn' = 0
  /\ UNCHANGED <<fs, ver, spc, lock, run, art, acked, count, hit, at_risk>>

-----------------------------------------------------------------------------
(* The UI's HTTP thread *)

\* handle_adr_get: the store is opened with create.
UiAdrGet ==
  /\ requests < MaxRequests
  /\ requests' = requests + 1
  /\ Touch("ui", OpenCreate(fs, "ui"))
  /\ UNCHANGED <<ver, conn, spc, lock, run, art, acked, edits, runs, faults, at_risk>>

\* handle_adr_save
UiAdrSave ==
  /\ requests < MaxRequests
  /\ requests' = requests + 1
  /\ LET opened == OpenCreate(fs, "ui")
     IN IF Usable(opened)
        THEN /\ Touch("ui", Rewrite(opened, opened.path, [At(opened) EXCEPT !.adr = requests']))
             /\ acked' = requests' /\ at_risk' = FALSE
        ELSE Touch("ui", opened) /\ UNCHANGED <<acked, at_risk>>
  /\ UNCHANGED <<ver, conn, spc, lock, run, art, edits, runs, faults>>

\* handle_delete_project of http_server.c, without the lock
UiDelete ==
  /\ requests < MaxRequests /\ fs.path # 0
  /\ requests' = requests + 1
  /\ Replace("ui", Unlink(fs, "ui"))
  /\ UNCHANGED <<ver, conn, spc, lock, run, art, acked, edits, runs, faults>>

-----------------------------------------------------------------------------
(* A run: index_repository in the event loop or in the child, or the pipeline of *)
(* the watcher and of the auto-index thread.                                     *)

\* What every step of a run leaves alone
Others == <<ver, acked, edits, runs, requests>>
Fault == faults < MaxFaults /\ faults' = faults + 1
Server == <<conn, spc, lock>>

Goto(r, l) == rpc' = [rpc EXCEPT ![r] = l]

\* What a run leaves is marked with what went wrong before.
Maker(r) == IF r \in hit THEN "raced" ELSE IF r \in failed THEN "failed" ELSE "run"

\* What follows the bootstrap: the event loop closes its connection, the child
\* has a lock nobody else takes.
AfterBoot(r) ==
  /\ conn' = IF r = "srv" THEN 0 ELSE conn
  /\ Goto(r, "lock")

\* The imported copy is opened and checked before it is renamed.
Opens(db) ==
  db.st \in {"ok", "ghost"}

\* handle_index_repository (srv, child) with try_artifact_bootstrap and
\* cbm_artifact_import up to the integrity check; the watcher's and auto-index's
\* call (bg). Metadata of an earlier archive may give too small a size.
Start(r) ==
  /\ rpc[r] = "off" /\ runs < MaxRuns
  /\ r = "srv" => spc = "ready"
  /\ spc' = IF r = "srv" THEN "run" ELSE spc
  /\ runs' = runs + 1 /\ hit' = hit \ {r}
  /\ \/ /\ r \in Importers /\ fs.path = 0 /\ art.meta # "none" /\ Opens(art.zst)
        /\ boot' = [boot EXCEPT ![r] = art.zst] /\ Goto(r, "import") /\ UNCHANGED conn
     \/ /\ r \in Importers => fs.path # 0 \/ art.meta # "fits" \/ ~Opens(art.zst)
        /\ AfterBoot(r) /\ UNCHANGED boot
  /\ UNCHANGED <<fs, ver, lock, rfile, rg, route, failed, art, acked, edits, requests, faults, at_risk>>

\* rename onto the path, whatever is there by now
Import(r) ==
  /\ rpc[r] = "import"
  /\ Replace(r, Place(fs, [boot[r] EXCEPT !.src = "import"], r))
  /\ boot' = [boot EXCEPT ![r] = NoFile]
  /\ AfterBoot(r)
  /\ UNCHANGED <<spc, lock, rfile, rg, route, failed, art, Others, faults>>

\* The lock, then try_incremental_or_delete_db up to the call or the unlink
Route(r) ==
  /\ rpc[r] = "lock"
  /\ r \in Locked => lock = "none"
  /\ lock' = IF r \in Locked THEN r ELSE lock
  /\ \/ /\ fs.path = 0
        /\ route' = [route EXCEPT ![r] = "full"] /\ Goto(r, "open")
        /\ UNCHANGED <<fs, hit>>
     \/ /\ fs.path # 0
        /\ Touch(r, OpenCreate(fs, r))
        /\ \/ /\ Here(fs', {"ok"}) /\ At(fs').h > 0
              /\ route' = [route EXCEPT ![r] = "incr"] /\ Goto(r, "incr")
           \/ \* no rows, not a database, or too many new files
              route' = [route EXCEPT ![r] = "full"] /\ Goto(r, "unlink")
  /\ rg' = [rg EXCEPT ![r] = ver]
  /\ UNCHANGED <<conn, spc, rfile, failed, boot, art, Others, faults, at_risk>>

\* Mutant: rows of any version count as no change.
UpToDateAny(db) == db.h # 0

\* classify_files and find_deleted_files find nothing to do.
UpToDate(db) ==
  db.h = ver

\* Mutant: the changed files are not extracted again.
MergedOld(db) == IF db.h \in {0, db.g} THEN db.g ELSE 0

\* The loaded graph with what changed since the rows purged and extracted again;
\* 0 if the rows were not of that graph.
Merged(db) ==
  IF db.h \in {0, db.g} THEN ver ELSE 0

\* cbm_pipeline_run_incremental up to the purge: the database is opened again.
\* Where that fails the run goes on as a full one, with the file in place.
Incr(r) ==
  /\ rpc[r] = "incr"
  /\ Touch(r, OpenCreate(fs, IF r \in hit THEN "raced" ELSE "run"))
  /\ IF ~Usable(fs')
     THEN /\ route' = [route EXCEPT ![r] = "full"] /\ Goto(r, "open")
          /\ UNCHANGED rg
     ELSE /\ UNCHANGED route
          /\ IF UpToDate(At(fs'))
             THEN Goto(r, "end") /\ UNCHANGED rg
             ELSE /\ Goto(r, "unlink")
                  /\ rg' = [rg EXCEPT ![r] = Merged(At(fs'))]
  /\ UNCHANGED <<Server, rfile, failed, boot, art, Others, faults, at_risk>>

\* The full route removes the name before its passes, the incremental one after.
\* The passes themselves touch no file and are not a step.
RemoveOld(r) ==
  /\ rpc[r] = "unlink"
  /\ Replace(r, Unlink(fs, r))
  /\ Goto(r, "open")
  /\ UNCHANGED <<Server, rfile, rg, route, failed, boot, art, Others, faults>>

\* Where a failed dump leads: an error for the full route, nothing for the other
Failed(r) ==
  /\ Fault /\ failed' = failed \union {r}
  /\ Goto(r, IF route[r] = "full" THEN "end" ELSE "persist")

\* cbm_writer_open: fopen with "wb" makes a file, or empties the one that is there.
Open(r) ==
  /\ rpc[r] = "open"
  /\ \/ /\ IF fs.path = 0
           THEN Replace(r, Place(fs, File("new", 0, 0, 0, "run"), r))
           ELSE Replace(r, Rewrite(fs, fs.path, [File("new", 0, 0, 0, "run") EXCEPT !.two = TRUE]))
        /\ rfile' = [rfile EXCEPT ![r] = fs'.path]
        /\ Goto(r, "write") /\ UNCHANGED <<failed, faults>>
     \/ /\ Failed(r)
        /\ UNCHANGED <<fs, hit, at_risk, rfile>>
  /\ UNCHANGED <<Server, rg, route, boot, art, Others>>

\* The first pages reach the file the run has open.
Write(r) ==
  /\ rpc[r] = "write"
  /\ LET f == fs.files[rfile[r]]
     IN Touch(r, Rewrite(fs, rfile[r], [f EXCEPT !.st = IF f.st = "new" THEN "part" ELSE "bad", !.g = 0, !.h = 0, !.adr = 0]))
  /\ at_risk' = (acked # 0)
  /\ Goto(r, "finish")
  /\ UNCHANGED <<Server, rfile, rg, route, failed, boot, art, Others, faults>>

\* Another run has the file of run r open for writing too.
Shared(r) == \E o \in Runners \ {r} : rfile[o] = rfile[r]

\* Page 1 is written last, and the file is closed. A file that somebody else
\* wrote to may end up broken.
Finish(r) ==
  /\ rpc[r] = "finish"
  /\ \/ /\ LET f == fs.files[rfile[r]]
           IN \E st \in IF f.two THEN {"ok", "bad"} ELSE {"ok"} :
                Touch(r, Rewrite(fs, rfile[r], [f EXCEPT !.st = st, !.g = rg[r], !.h = 0, !.adr = 0, !.two = Shared(r)]))
        /\ at_risk' = (acked # 0)
        /\ Goto(r, "persist") /\ UNCHANGED <<failed, faults>>
     \/ /\ Failed(r)
        /\ UNCHANGED <<fs, hit, at_risk>>
  /\ rfile' = [rfile EXCEPT ![r] = 0]
  /\ UNCHANGED <<Server, rg, route, boot, art, Others>>

\* The hash rows, written through a connection opened by name: an absent file
\* is made anew, and the rows need the project row that they refer to.
Persist(r) ==
  /\ rpc[r] = "persist"
  /\ LET opened == OpenCreate(fs, Maker(r))
     IN Touch(r, IF Here(opened, {"ok"}) THEN Rewrite(opened, opened.path, [At(opened) EXCEPT !.h = ver]) ELSE opened)
  /\ Goto(r, "export")
  /\ UNCHANGED <<Server, rfile, rg, route, failed, boot, art, Others, faults, at_risk>>

\* Mutant: the archive is written in place, and may be half written.
ArchivedInPlace(r) == {At(fs).st, "bad"}

\* write_file_atomic: the archive is a copy of the database, unless another run
\* writes to the temporary file, which has a fixed name, at the same time.
Archived(r) ==
  {At(fs).st} \union {"bad" : o \in {x \in Runners \ {r} : rpc[x] = "export"}}

\* cbm_artifact_export up to the rename of the archive. The full route exports
\* on request, through VACUUM INTO; the incremental one if there is an archive,
\* the bytes as they are.
Export(r) ==
  /\ rpc[r] = "export"
  /\ \/ /\ IF route[r] = "full" THEN Usable(fs)
           ELSE art.meta # "none" /\ fs.path # 0 /\ At(fs).st # "new"
        /\ \E st \in Archived(r) :
             art' = [zst |-> [At(fs) EXCEPT !.st = st, !.by = "none"], by |-> r,
                     meta |-> IF art.meta = "none" THEN "none" ELSE "old",
                     why |-> IF \E x \in Runners \ {r} : rpc[x] = "export" THEN "raced" ELSE Maker(r)]
        /\ Goto(r, "meta")
     \/ UNCHANGED art /\ Goto(r, "end")
  /\ UNCHANGED <<fs, Server, rfile, rg, route, failed, boot, Others, faults, hit, at_risk>>

\* The rest of the export: the counts are read through an open with create, the
\* metadata are renamed into place; a failure is not noticed.
Meta(r) ==
  /\ rpc[r] = "meta"
  /\ Touch(r, OpenCreate(fs, Maker(r)))
  /\ \/ Fault /\ art' = [art EXCEPT !.by = "none"]
     \/ /\ art' = [art EXCEPT !.by = "none", !.meta = IF art.by = r THEN "fits" ELSE "old"]
        /\ UNCHANGED faults
  /\ Goto(r, "end")
  /\ UNCHANGED <<Server, rfile, rg, route, failed, boot, Others, at_risk>>

\* The locals of a run that is over
Forget(r) ==
  /\ failed' = failed \ {r}
  /\ rfile' = [rfile EXCEPT ![r] = 0] /\ rg' = [rg EXCEPT ![r] = 0]
  /\ route' = [route EXCEPT ![r] = "full"]
  /\ boot' = IF r \in Importers THEN [boot EXCEPT ![r] = NoFile] ELSE boot

\* Mutant: a failed run returns without the unlock.
ReleasedIfDone(r) == IF r \in Locked \ failed THEN "none" ELSE lock

\* cbm_pipeline_unlock
Released(r) ==
  IF r \in Locked THEN "none" ELSE lock

\* The lock is released. The event loop drops its connection and resolves the
\* store again for the response of a successful run.
End(r) ==
  /\ rpc[r] = "end"
  /\ lock' = Released(r)
  /\ Goto(r, "off")
  /\ IF r = "srv" /\ (route[r] = "incr" \/ r \notin failed)
     THEN Resolve /\ Touch("srv", Probed)
     ELSE /\ spc' = IF r = "srv" THEN "ready" ELSE spc
          /\ hit' = hit \ {r}
          /\ UNCHANGED <<fs, conn>>
  /\ Forget(r)
  /\ UNCHANGED <<art, Others, faults, at_risk>>

\* The child is killed (the UI's process-kill) or crashes.
ChildDies ==
  /\ rpc["child"] # "off" /\ Fault
  /\ Goto("child", "off")
  /\ Forget("child")
  /\ hit' = hit \ {"child"}
  /\ UNCHANGED <<fs, Server, art, Others, at_risk>>

RunStep(r) ==
  \/ Start(r) \/ Route(r) \/ Incr(r) \/ RemoveOld(r) \/ Open(r)
  \/ Write(r) \/ Finish(r) \/ Persist(r) \/ Export(r) \/ Meta(r) \/ End(r)
  \/ r \in Importers /\ Import(r)

Next ==
  \/ \E r \in Runners : RunStep(r)
  \/ Edit \/ Query \/ AutoClean \/ AdrUpdate \/ DeleteProject \/ EvictIdle
  \/ UiAdrGet \/ UiAdrSave \/ UiDelete \/ ChildDies

Spec == Init /\ [][Next]_vars

-----------------------------------------------------------------------------
(* Properties *)

States == {"new", "part", "ghost", "ok", "bad"}

\* The types, and that a run of the server process is between lock and unlock
\* exactly while the pipeline lock is its own, also when its dump failed.
TypeOK ==
  /\ fs.path \in Slots \union {0} /\ conn \in Slots \union {0}
  /\ \A i \in Slots :
       LET f == fs.files[i]
       IN f.st \in States /\ f.g \in 0..ver /\ f.h \in 0..ver /\ f.adr \in 0..MaxRequests
  /\ ver = edits + 1 /\ spc \in {"ready", "clean", "run"}
  /\ lock \in Locked \union {"none"}
  /\ \A r \in Locked : InRun(r) <=> lock = r
  /\ \A r \in Runners : rfile[r] \in Slots \union {0} /\ rg[r] \in 0..ver /\ route[r] \in {"full", "incr"}
  /\ failed \subseteq Runners /\ hit \subseteq Runners
  /\ art.zst.st \in States /\ art.meta \in {"none", "old", "fits"}

\* A run that says it stored the index, and whose file nobody else touched
\* meanwhile, leaves a database with the graph and the rows of its sources,
\* unless it trusted rows that an import got from another run.
SuccessLeavesDb ==
  \A r \in Runners :
    rpc[r] = "end" /\ r \notin failed \union hit =>
      Here(fs, {"ok"}) /\ At(fs).h = ver /\ (At(fs).g \in {ver, 0} \/ At(fs).src = "import")

\* Hash rows describe the graph beside them, except in an imported database
\* whose rows another run replaced, or in what was later built from one: only
\* an import outside the lock makes a stale graph look up to date.
RowsTruthful ==
  \A i \in Slots :
    LET f == fs.files[i]
    IN f.st = "ok" /\ f.h # 0 /\ f.h # f.g => f.src = "import" \/ f.g = 0

\* The event loop's cached connection is on another file than the path's only
\* where another thread or process replaced the file: its own delete_project
\* and index_repository never leave it on the old one.
StaleOnlyBy ==
  conn \notin {0, fs.path} => fs.files[conn].by \in {"bg", "child", "ui"} \/ spc = "run"

\* A database without a project row is found at the path only where the UI
\* opened an unknown project, where a run was surprised or failed to dump, or
\* where an archive of such a database was imported; query tools make none.
GhostOnlyBy ==
  Here(fs, {"ghost"}) => At(fs).src \in {"ui", "raced", "failed", "import"}

\* The shared archive is a whole database unless the run that exported it had
\* failed to dump or was surprised by another.
ArchiveWhole ==
  art.zst.src # "none" /\ art.zst.st # "ok" => art.why \in {"raced", "failed"}

\* What an import put at the path can be opened, whatever bytes a failed or
\* surprised run left in the archive.
ImportOpens ==
  \A i \in Slots : fs.files[i].src = "import" => fs.files[i].st \in {"ok", "ghost"}

\* What teams share by the archive is a database, and what they get is one:
\* export's temporary file and rename on one side, import's check on the other.
ArchiveSound == ArchiveWhole /\ ImportOpens

\* The ADR a client was told is saved can be read at the path until a run, a
\* removal or an import replaces the file, unless it went through a stale
\* connection: reads, evictions, exports and the hash rows never cost it.
AdrLostOnlyBy ==
  acked # 0 /\ ~at_risk => Usable(fs) /\ At(fs).adr = acked

=============================================================================
