------------------------------ MODULE GraphBuild ------------------------------
(***************************************************************************)
(* How an index run puts the graph together on its parallel route: the     *)
(* graph buffer (nodes merged by qualified name, edges deduplicated by     *)
(* their key, one id counter), the workers' private buffers that draw ids  *)
(* from the shared atomic counter, the merges in worker order, the passes  *)
(* that run between and after the parallel phases on the main buffer, and  *)
(* the dump that renumbers everything. The incremental route starts from   *)
(* the graph of the previous run and purges the changed files first.       *)
(*                                                                         *)
(* A file's source is a record that says what extraction finds in it: a    *)
(* definition, a route that it handles, a channel that it emits on, a node *)
(* that resolution makes up for it (a service route or a decorator), a     *)
(* call to another file's definition, and what a late pass makes of it.    *)
(* A node is known by its qualified name (QN); label, lines and properties *)
(* are left out. Edge ids are left out too: an edge only uses up a number. *)
(***************************************************************************)
EXTENDS Integers, Sequences, FiniteSets

CONSTANTS Files,
          Contents,   \* what a file may hold
          NumWorkers

ASSUME NumWorkersAssumption == NumWorkers \in Nat \ {0}

None == "none"
Workers == 1 .. NumWorkers

FileQn(f) == <<"file", f>>
DefQn(f) == <<"def", f>>
ResourceQn(f) == <<"resource", f>>
RouteQn == <<"route", None>>
DecoratorQn == <<"decorator", None>>
ChannelQn == <<"channel", None>>
InfraQn == <<"infra", None>>
TopicQn == <<"topic", None>>
NoQn == <<"freed", None>>  \* qualified_name of a deleted node: NULL

Absent == [here |-> FALSE, def |-> FALSE, handles |-> FALSE, emits |-> FALSE,
           uses |-> None, calls |-> None, late |-> None]

ASSUME FilesAssumption == None \notin Files

\* What a source may hold; a file that is not there holds nothing.
ASSUME ContentsAssumption ==
  \A c \in Contents :
    /\ c \in [here : BOOLEAN, def : BOOLEAN, handles : BOOLEAN, emits : BOOLEAN,
              uses : {None, "route", "decorator"}, calls : Files \union {None},
              late : {None, "infra", "k8s"}]
    /\ c.here \/ c = Absent

VARIABLES mode,      \* "full" or "incr"
          was, now,  \* content of each file at the previous run and now
          main,      \* ctx->gbuf: [nodes, edges, next]
          shared,    \* shared_ids
          wbuf,      \* the workers' local buffers: [nodes, edges]
          wpc, wfile,
          todo,      \* files the current phase has not taken yet
          cached,    \* files with an entry in result_cache
          manifests, \* files that the k8s pass could read
          pc,
          phase,     \* the parallel phase that runs: "extract" or "resolve"
          mw, mi,    \* the worker buffer and node that the merge is at
          pend,      \* edges a load or a merge has still to insert
          graph,     \* the dumped edges, as <<source QN, target QN, type>>
          minted     \* history: the registry pass added a Channel node

inputs == <<mode, was, now>>
merge == <<mw, mi, pend>>
read == <<cached, manifests>>
workers == <<shared, wbuf, wpc, wfile>>
vars == <<inputs, main, workers, todo, read, pc, phase, merge, graph, minted>>

Changed == {f \in Files : now[f].here /\ now[f] # was[f]}
Gone == {f \in Files : was[f].here /\ ~now[f].here}

-----------------------------------------------------------------------------
(* The graph buffer *)

EmptyNodes == <<>>

\* cbm_gbuf_find_by_qn
Has(nodes, qn) == \E i \in DOMAIN nodes : nodes[i].qn = qn
At(nodes, qn) == CHOOSE i \in DOMAIN nodes : nodes[i].qn = qn
IdOf(nodes, qn) == nodes[At(nodes, qn)].id

Node(id, qn, file) == [id |-> id, qn |-> qn, file |-> file]

\* cbm_gbuf_upsert_node
Upsert(gb, qn, file) ==
  IF Has(gb.nodes, qn)
  THEN [gb EXCEPT !.nodes[At(gb.nodes, qn)].file = file]
  ELSE [gb EXCEPT !.nodes = Append(@, Node(gb.next, qn, file)), !.next = @ + 1]

\* cbm_gbuf_insert_edge
Insert(gb, source, target, type) ==
  IF <<source, target, type>> \in gb.edges
  THEN gb
  ELSE [gb EXCEPT !.edges = @ \union {<<source, target, type>>}, !.next = @ + 1]

\* A pass looks both ends up by name and inserts the edge if both are there.
Link(gb, q1, q2, type) ==
  IF Has(gb.nodes, q1) /\ Has(gb.nodes, q2)
  THEN Insert(gb, IdOf(gb.nodes, q1), IdOf(gb.nodes, q2), type)
  ELSE gb

\* cbm_gbuf_delete_by_file, for every file of the set
DeleteByFiles(gb, fs) ==
  LET dead == {gb.nodes[i].id : i \in {j \in DOMAIN gb.nodes :
                                         gb.nodes[j].qn # NoQn /\ gb.nodes[j].file \in fs}}
  IN [gb EXCEPT !.nodes = [i \in DOMAIN gb.nodes |->
                             IF gb.nodes[i].file \in fs
                             THEN [gb.nodes[i] EXCEPT !.qn = NoQn]
                             ELSE gb.nodes[i]],
                !.edges = {e \in gb.edges : e[1] \notin dead /\ e[2] \notin dead}]

\* The row a temporary id is written as: the last live node that has it and
\* is below the counter takes its slot of temp_to_final.
DumpedAs(gb, id) ==
  LET slots == {i \in DOMAIN gb.nodes : /\ gb.nodes[i].qn # NoQn
                                        /\ gb.nodes[i].id = id
                                        /\ id < gb.next}
  IN IF slots = {} THEN NoQn
     ELSE gb.nodes[CHOOSE i \in slots : \A j \in slots : j <= i].qn

DumpedEdges(gb) ==
  {e \in {<<DumpedAs(gb, d[1]), DumpedAs(gb, d[2]), d[3]>> : d \in gb.edges} :
     e[1] # NoQn /\ e[2] # NoQn}

-----------------------------------------------------------------------------
(* What the graph should be *)

\* The edges that file f, holding c, accounts for in a tree of contents.
EdgesOf(f, c, tree) ==
  {e \in {<<FileQn(f), DefQn(f), "DEFINES">>} : c.def}
    \union {e \in {<<DefQn(f), RouteQn, "HANDLES">>} : c.def /\ c.handles}
    \union {e \in {<<IF c.def THEN DefQn(f) ELSE FileQn(f), ChannelQn, "EMITS">>} : c.emits}
    \union {e \in {<<DefQn(f), RouteQn, "CALLS">>} : c.def /\ c.uses = "route"}
    \union {e \in {<<DefQn(f), DecoratorQn, "DECORATES">>} : c.def /\ c.uses = "decorator"}
    \union {e \in {<<DefQn(f), DefQn(g), "CALLS">> : g \in Files} :
              c.def /\ c.calls \notin {None, f} /\ e[2] = DefQn(c.calls) /\ tree[c.calls].def}
    \union {e \in {<<TopicQn, InfraQn, "INFRA_MAPS">>} : c.late = "infra"}
    \union {e \in {<<FileQn(f), ResourceQn(f), "DEFINES">>} : c.late = "k8s"}

Reference(tree) == UNION {EdgesOf(f, tree[f], tree) : f \in Files}

\* The tree as the run saw it: what it could not read of a file is not there.
Seen ==
  [f \in Files |->
     IF f \notin Changed THEN now[f]
     ELSE LET c == IF f \in cached THEN now[f] ELSE [Absent EXCEPT !.here = TRUE]
          IN [c EXCEPT !.late = IF now[f].late # "k8s" THEN @
                                ELSE IF f \in manifests THEN "k8s" ELSE None]]

\* The nodes of the graph of a tree, and the file each is filed under: that of
\* the last upsert, none for the nodes that several files share.
QnsOf(tree) ==
  {FileQn(f) : f \in {g \in Files : tree[g].here}}
    \union {e[1] : e \in Reference(tree)} \union {e[2] : e \in Reference(tree)}

OwnerOf(qn, tree) ==
  LET owners == IF qn[2] # None THEN {qn[2]}
                ELSE IF qn \in {InfraQn, TopicQn} THEN {f \in Files : tree[f].late = "infra"}
                ELSE IF qn = RouteQn /\ \A f \in Files : tree[f].uses # "route"
                     THEN {f \in Files : tree[f].handles}
                ELSE {}
  IN IF owners = {} THEN None ELSE CHOOSE f \in owners : TRUE

-----------------------------------------------------------------------------
(* The start of a run *)

NoBuf == [w \in Workers |-> [nodes |-> EmptyNodes, edges |-> {}]]

Init ==
  /\ mode \in {"full", "incr"}
  /\ now \in [Files -> Contents]
  /\ was \in [Files -> IF mode = "full" THEN {Absent} ELSE Contents]
  /\ main = [nodes |-> EmptyNodes, edges |-> {}, next |-> 1]
  /\ shared = 0 /\ wbuf = NoBuf
  /\ wpc = [w \in Workers |-> "done"] /\ wfile = [w \in Workers |-> None]
  /\ todo = {} /\ cached = {} /\ manifests = {}
  /\ pc = (IF mode = "full" THEN "files" ELSE "load") /\ phase = "extract" /\ mw = 1 /\ mi = 1 /\ pend = {}
  /\ graph = {} /\ minted = FALSE

ToLoad == {qn \in QnsOf(was) : ~Has(main.nodes, qn)}

\* cbm_gbuf_load_from_db: the node rows in turn, then the edge rows.
LoadNode ==
  /\ pc = "load" /\ ToLoad # {}
  /\ LET qn == CHOOSE q \in ToLoad : TRUE
     IN main' = Upsert(main, qn, OwnerOf(qn, was))
  /\ UNCHANGED <<inputs, workers, todo, read, pc, phase, merge, graph, minted>>

LoadEdges ==
  /\ pc = "load" /\ ToLoad = {}
  /\ pend' = {<<IdOf(main.nodes, e[1]), IdOf(main.nodes, e[2]), e[3]>> : e \in Reference(was)}
  /\ pc' = "loadEdges"
  /\ UNCHANGED <<inputs, main, workers, todo, read, phase, mw, mi, graph, minted>>

\* One edge of a load or a merge
InsertPending ==
  /\ pc \in {"loadEdges", "mergeEdges"} /\ pend # {}
  /\ LET e == CHOOSE d \in pend : TRUE
     IN /\ main' = Insert(main, e[1], e[2], e[3])
        /\ pend' = pend \ {e}
  /\ UNCHANGED <<inputs, workers, todo, read, pc, phase, mw, mi, graph, minted>>

\* Mutant: the nodes of deleted files stay.
PurgeChangedOnly ==
  /\ pc = "loadEdges" /\ pend = {}
  /\ main' = DeleteByFiles(main, Changed)
  /\ pc' = "files"
  /\ UNCHANGED <<inputs, workers, todo, read, phase, merge, graph, minted>>

Purge ==
  /\ pc = "loadEdges" /\ pend = {}
  /\ main' = DeleteByFiles(main, Changed \union Gone)
  /\ pc' = "files"
  /\ UNCHANGED <<inputs, workers, todo, read, phase, merge, graph, minted>>

NoFileNode == {f \in Changed : ~Has(main.nodes, FileQn(f))}

\* The File nodes, of pass_structure or of the files to parse again.
AddFile ==
  /\ pc = "files" /\ NoFileNode # {}
  /\ LET f == CHOOSE g \in NoFileNode : TRUE IN main' = Upsert(main, FileQn(f), f)
  /\ UNCHANGED <<inputs, workers, todo, read, pc, phase, merge, graph, minted>>

\* Mutant: the shared counter does not start where the main one stands.
StartExtractAtOne ==
  /\ pc = "files" /\ NoFileNode = {}
  /\ shared' = 1
  /\ wpc' = [w \in Workers |-> "take"]
  /\ todo' = Changed
  /\ pc' = "work"
  /\ UNCHANGED <<inputs, main, wbuf, wfile, read, phase, merge, graph, minted>>

\* The shared counter is set from the main one and extraction starts.
StartExtract ==
  /\ pc = "files" /\ NoFileNode = {}
  /\ shared' = main.next
  /\ wpc' = [w \in Workers |-> "take"]
  /\ todo' = Changed
  /\ pc' = "work"
  /\ UNCHANGED <<inputs, main, wbuf, wfile, read, phase, merge, graph, minted>>

-----------------------------------------------------------------------------
(* The workers of both parallel phases *)

Worker(w) ==
  /\ pc = "work"
  /\ UNCHANGED <<inputs, main, manifests, pc, phase, merge, graph, minted>>

Goto(w, l) == wpc' = [wpc EXCEPT ![w] = l]

\* The next file, or none left. Extraction may fail to read or parse it;
\* resolution passes over a file that has no result.
Take(w) ==
  /\ Worker(w) /\ wpc[w] = "take"
  /\ \/ /\ todo = {}
        /\ Goto(w, "done")
        /\ UNCHANGED <<todo, wfile, cached>>
     \/ \E f \in todo :
          /\ todo' = todo \ {f}
          /\ \/ /\ phase = "extract" \/ f \in cached
                /\ wfile' = [wfile EXCEPT ![w] = f]
                /\ Goto(w, IF phase = "extract" THEN "def" ELSE "calls")
                /\ cached' = cached \union {f}
             \/ /\ phase = "extract" \/ f \notin cached
                /\ UNCHANGED <<wfile, wpc, cached>>
  /\ UNCHANGED <<shared, wbuf>>

\* One operation on the worker's own buffer, with ids from the shared counter.
Local(w, gb) ==
  /\ wbuf' = [wbuf EXCEPT ![w] = [nodes |-> gb.nodes, edges |-> gb.edges]]
  /\ shared' = gb.next
  /\ UNCHANGED <<todo, cached, wfile>>

Buf(w) == [nodes |-> wbuf[w].nodes, edges |-> wbuf[w].edges, next |-> shared]
Src(w) == now[wfile[w]]

\* extract_worker: insert_def_into_gbuf, one allocation a step
ExtractDef(w) ==
  /\ Worker(w) /\ wpc[w] = "def"
  /\ Goto(w, IF Src(w).def /\ Src(w).handles THEN "route" ELSE "take")
  /\ Local(w, IF Src(w).def THEN Upsert(Buf(w), DefQn(wfile[w]), wfile[w]) ELSE Buf(w))

ExtractRoute(w) ==
  /\ Worker(w) /\ wpc[w] = "route"
  /\ Goto(w, "handles")
  /\ Local(w, Upsert(Buf(w), RouteQn, wfile[w]))

ExtractHandles(w) ==
  /\ Worker(w) /\ wpc[w] = "handles"
  /\ Goto(w, "take")
  /\ Local(w, Link(Buf(w), DefQn(wfile[w]), RouteQn, "HANDLES"))

\* resolve_worker: resolve_file_calls, both ends found in the main buffer
ResolveCalls(w) ==
  /\ Worker(w) /\ wpc[w] = "calls"
  /\ LET q1 == DefQn(wfile[w])
         q2 == DefQn(Src(w).calls)
     IN /\ Goto(w, IF Has(main.nodes, q1) /\ Src(w).uses # None THEN "synth" ELSE "take")
        /\ Local(w, IF Has(main.nodes, q1) /\ Has(main.nodes, q2) /\ q1 # q2
                    THEN Insert(Buf(w), IdOf(main.nodes, q1), IdOf(main.nodes, q2), "CALLS")
                    ELSE Buf(w))

SynthQn(w) == IF Src(w).uses = "route" THEN RouteQn ELSE DecoratorQn

\* The node for a service call's route or an external decorator goes into the
\* local buffer, and then the edge to it from the node in the main buffer.
ResolveSynth(w) ==
  /\ Worker(w) /\ wpc[w] = "synth"
  /\ Goto(w, "edge")
  /\ Local(w, Upsert(Buf(w), SynthQn(w), None))

ResolveEdge(w) ==
  /\ Worker(w) /\ wpc[w] = "edge"
  /\ Goto(w, "take")
  /\ Local(w, Insert(Buf(w), IdOf(main.nodes, DefQn(wfile[w])),
                     IdOf(wbuf[w].nodes, SynthQn(w)),
                     IF Src(w).uses = "route" THEN "CALLS" ELSE "DECORATES"))

\* cbm_parallel_for returns: every worker is through.
Joined ==
  /\ pc = "work"
  /\ \A w \in Workers : wpc[w] = "done"
  /\ pc' = "merge" /\ mw' = 1 /\ mi' = 1
  /\ UNCHANGED <<inputs, main, workers, todo, read, phase, pend, graph, minted>>

-----------------------------------------------------------------------------
(* cbm_gbuf_merge, buffer after buffer *)

Bump(n, id) == IF id >= n THEN id + 1 ELSE n

\* One source node: src wins on a QN that is there, else it keeps its id.
MergeNode ==
  /\ pc = "merge" /\ mi <= Len(wbuf[mw].nodes)
  /\ LET sn == wbuf[mw].nodes[mi]
     IN main' = IF Has(main.nodes, sn.qn)
                THEN [main EXCEPT !.nodes[At(main.nodes, sn.qn)].file = sn.file]
                ELSE [main EXCEPT !.nodes = Append(@, sn), !.next = Bump(@, sn.id)]
  /\ mi' = mi + 1
  /\ UNCHANGED <<inputs, workers, todo, read, pc, phase, mw, pend, graph, minted>>

\* Mutant: edges keep the ids they were recorded with.
RemapNothing(id) == id

\* An end that is a node of the source buffer becomes the id its QN has now.
Remap(id) ==
  LET own == {i \in DOMAIN wbuf[mw].nodes : wbuf[mw].nodes[i].id = id}
  IN IF own = {} THEN id
     ELSE IdOf(main.nodes, wbuf[mw].nodes[CHOOSE i \in own : TRUE].qn)

MergeEdges ==
  /\ pc = "merge" /\ mi > Len(wbuf[mw].nodes)
  /\ pend' = {<<Remap(e[1]), Remap(e[2]), e[3]>> : e \in wbuf[mw].edges}
  /\ pc' = "mergeEdges"
  /\ UNCHANGED <<inputs, main, workers, todo, read, phase, mw, mi, graph, minted>>

\* On to the next buffer, or all are merged.
MergeNext ==
  /\ pc = "mergeEdges" /\ pend = {}
  /\ IF mw < NumWorkers THEN mw' = mw + 1 /\ pc' = "merge" ELSE mw' = mw /\ pc' = "sync"
  /\ mi' = 1
  /\ UNCHANGED <<inputs, main, workers, todo, read, phase, pend, graph, minted>>

\* cbm_gbuf_set_next_id; the local buffers were freed by the merge loop.
Sync ==
  /\ pc = "sync"
  /\ main' = [main EXCEPT !.next = shared]
  /\ wbuf' = NoBuf /\ wfile' = [w \in Workers |-> None]
  /\ todo' = Changed
  /\ pc' = IF phase = "extract" THEN "registry" ELSE "late"
  /\ UNCHANGED <<inputs, shared, wpc, read, phase, merge, graph, minted>>

-----------------------------------------------------------------------------
(* The serial passes on the main buffer *)

\* cbm_build_registry_from_cache for one file
Registry(f) ==
  /\ pc = "registry" /\ f \in todo
  /\ todo' = todo \ {f}
  /\ LET emits == f \in cached /\ now[f].emits
         b1 == IF f \in cached THEN Link(main, FileQn(f), DefQn(f), "DEFINES") ELSE main
         b2 == IF emits THEN Upsert(b1, ChannelQn, None) ELSE b1
         from == IF Has(b2.nodes, DefQn(f)) THEN DefQn(f) ELSE FileQn(f)
     IN /\ main' = IF emits THEN Link(b2, from, ChannelQn, "EMITS") ELSE b2
        /\ minted' = (minted \/ (emits /\ ~Has(main.nodes, ChannelQn)))
  /\ UNCHANGED <<inputs, workers, read, pc, phase, merge, graph>>

\* The resolve phase starts, on the shared counter as extraction left it.
RegistryDone ==
  /\ pc = "registry" /\ todo = {}
  /\ pc' = "work" /\ phase' = "resolve"
  /\ todo' = Changed
  /\ wpc' = [w \in Workers |-> "take"]
  /\ UNCHANGED <<inputs, main, shared, wbuf, wfile, read, merge, graph, minted>>

\* Mutant: source and target change places.
InfraBindingSwapped(f) ==
  /\ pc = "late" /\ f \in todo /\ now[f].late # "k8s"
  /\ todo' = todo \ {f}
  /\ LET b1 == Upsert(main, InfraQn, f)
         b2 == IF Has(b1.nodes, TopicQn) THEN b1 ELSE Upsert(b1, TopicQn, f)
     IN main' = IF now[f].late = "infra" /\ mode = "full" /\ f \in cached
                THEN Link(b2, InfraQn, TopicQn, "INFRA_MAPS") ELSE main
  /\ UNCHANGED <<inputs, workers, read, pc, phase, merge, graph, minted>>

\* cbm_pipeline_process_infra_bindings for one file, on the full route only:
\* the endpoint's Route, the topic's Route unless it is there, the edge.
InfraBinding(f) ==
  /\ pc = "late" /\ f \in todo /\ now[f].late # "k8s"
  /\ todo' = todo \ {f}
  /\ LET b1 == Upsert(main, InfraQn, f)
         b2 == IF Has(b1.nodes, TopicQn) THEN b1 ELSE Upsert(b1, TopicQn, f)
     IN main' = IF now[f].late = "infra" /\ mode = "full" /\ f \in cached
                THEN Link(b2, TopicQn, InfraQn, "INFRA_MAPS") ELSE main
  /\ UNCHANGED <<inputs, workers, read, pc, phase, merge, graph, minted>>

\* cbm_pipeline_pass_k8s for one manifest, which it reads by itself.
K8sManifest(f) ==
  /\ pc = "late" /\ f \in todo /\ \A g \in todo : now[g].late = "k8s"
  /\ todo' = todo \ {f}
  /\ \/ /\ manifests' = manifests \union {f}
        /\ main' = Link(Upsert(main, ResourceQn(f), f), FileQn(f), ResourceQn(f), "DEFINES")
     \/ UNCHANGED <<main, manifests>>
  /\ UNCHANGED <<inputs, workers, cached, pc, phase, merge, graph, minted>>

\* cbm_gbuf_dump_to_sqlite
Dump ==
  /\ pc = "late" /\ todo = {}
  /\ graph' = DumpedEdges(main)
  /\ pc' = "done"
  /\ UNCHANGED <<inputs, main, workers, todo, read, phase, merge, minted>>

Next ==
  \/ LoadNode \/ LoadEdges \/ Purge \/ AddFile \/ StartExtract
  \/ Joined \/ MergeNode \/ MergeEdges \/ InsertPending \/ MergeNext \/ Sync
  \/ RegistryDone \/ Dump
  \/ \E f \in Files : Registry(f) \/ InfraBinding(f) \/ K8sManifest(f)
  \/ \E w \in Workers :
       \/ Take(w) \/ ExtractDef(w) \/ ExtractRoute(w) \/ ExtractHandles(w)
       \/ ResolveCalls(w) \/ ResolveSynth(w) \/ ResolveEdge(w)

Spec == Init /\ [][Next]_vars

-----------------------------------------------------------------------------
(* Correctness *)

\* The phases, and that the merge loop of cbm_parallel_extract and
\* cbm_parallel_resolve stays on the buffers of workers there are.
TypeOK ==
  /\ pc \in {"load", "loadEdges", "files", "work", "merge", "mergeEdges", "sync", "registry", "late", "done"}
  /\ phase \in {"extract", "resolve"}
  /\ todo \subseteq Files /\ cached \subseteq Files /\ manifests \subseteq Files
  /\ main.next \in Nat /\ shared \in Nat
  /\ mw \in Workers /\ mi \in Nat
  /\ minted \in BOOLEAN

\* No two nodes of the main buffer have the same temporary id, whatever the
\* workers' order, unless cbm_build_registry_from_cache created a Channel node:
\* shared_ids does not know of the ids that pass takes from the main buffer.
NodeIdsUnique ==
  minted \/ \A i, j \in DOMAIN main.nodes : main.nodes[i].id = main.nodes[j].id => i = j

\* Every edge of the main buffer joins nodes that are there: purging a file
\* takes the edges with the nodes, and the ids a worker's edges were recorded
\* with are those of its nodes or of the main buffer once they are remapped.
EdgesAttached ==
  \A e \in main.edges : \A id \in {e[1], e[2]} :
    \E i \in DOMAIN main.nodes : main.nodes[i].id = id /\ main.nodes[i].qn # NoQn

\* The edges that a created Channel node does not put in doubt.
Settled(es) == {e \in es : minted => e[3] # "EMITS"}

\* A full run dumps exactly the edges the sources call for, each between the
\* two nodes it is about, however the files fell to the workers and in
\* whatever order their buffers collide on a QN in cbm_gbuf_merge.
FullBuildExact ==
  pc = "done" /\ mode = "full" => Settled(graph) = Settled(Reference(Seen))

\* An incremental run dumps no edge the sources do not call for, and every edge
\* that a re-parsed file calls for but the infra bindings, which its route has
\* no pass for. What it may miss are edges that only unchanged files call for:
\* delete_by_file takes those into a purged node and nobody makes them again.
IncrementalExact ==
  pc = "done" /\ mode = "incr" =>
    /\ Settled(graph) \subseteq Reference(Seen)
    /\ \A f \in Changed : \A e \in Settled(EdgesOf(f, Seen[f], Seen)) :
         e \in graph \/ e[3] = "INFRA_MAPS"

\* Every dumped edge is one the sources call for: the ids that both parallel
\* phases work with name one node each.
EdgesTrue == pc = "done" => graph \subseteq Reference(Seen)
=============================================================================
