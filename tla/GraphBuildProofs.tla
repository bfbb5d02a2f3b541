--------------------------- MODULE GraphBuildProofs ---------------------------
(***************************************************************************)
(* What GraphBuild promises, for every set of files and contents and every *)
(* number of workers: ids and edges (NodeIdsUnique, EdgesAttached), and    *)
(* then the graph that is dumped (FullBuildExact, IncrementalExact).       *)
(*                                                                         *)
(* Ids: those of the workers' nodes are distinct across all local buffers  *)
(* and below the shared counter, and those of the buffers not yet merged   *)
(* are not in the main buffer. Edges: an end of a worker's edge is a node  *)
(* of its own buffer or one of the main buffer, and every node of a buffer *)
(* whose nodes are merged is found by its QN.                              *)
(*                                                                         *)
(* The graph: every edge of every buffer stands for an edge the sources    *)
(* call for, each end for the node of that name (SoundInv), and every edge *)
(* that a file calls for is in some buffer once the pass that makes it has *)
(* been over the file (CompleteInv). The nodes that passes look up by name *)
(* are there exactly when the sources define them (DefsTrue, DefsThere).   *)
(***************************************************************************)
EXTENDS GraphBuild, TLAPS

\* A leaf that names no prover is tried with Zenon, then with SMT.
USE ZenonT(60), SMTT(60)

Kinds == {"file", "def", "resource", "route", "decorator", "channel", "infra", "topic", "freed"}
QN == Kinds \X (Files \union {None})
FileT == Files \union {None}
NodeT == [id : Nat, qn : QN, file : FileT]

IsBuf(gb) ==
  /\ gb = [nodes |-> gb.nodes, edges |-> gb.edges, next |-> gb.next]
  /\ gb.nodes \in Seq(NodeT)
  /\ gb.next \in Nat

Live(nodes, id) == \E i \in DOMAIN nodes : nodes[i].id = id /\ nodes[i].qn # NoQn

\* What the operations of a pass may do to the nodes of a buffer: the nodes
\* stay, with their ids and names; those they add have fresh, distinct ids.
Grows(g, h) ==
  /\ IsBuf(h) /\ g.next <= h.next
  /\ DOMAIN g.nodes \subseteq DOMAIN h.nodes
  /\ \A i \in DOMAIN g.nodes : h.nodes[i].id = g.nodes[i].id /\ h.nodes[i].qn = g.nodes[i].qn
  /\ \A i \in DOMAIN h.nodes \ DOMAIN g.nodes :
       /\ g.next <= h.nodes[i].id /\ h.nodes[i].id < h.next
       /\ h.nodes[i].qn # NoQn
       /\ \A j \in DOMAIN h.nodes : h.nodes[j].id = h.nodes[i].id => j \in DOMAIN g.nodes \/ j = i

Attached(gb) == \A e \in gb.edges : Live(gb.nodes, e[1]) /\ Live(gb.nodes, e[2])

\* A node found by name
LEMMA FoundLemma ==
  ASSUME NEW nodes \in Seq(NodeT), NEW qn, Has(nodes, qn)
  PROVE  /\ At(nodes, qn) \in DOMAIN nodes
         /\ nodes[At(nodes, qn)].qn = qn
         /\ IdOf(nodes, qn) \in Nat
         /\ qn # NoQn => Live(nodes, IdOf(nodes, qn))
<1>1. At(nodes, qn) \in DOMAIN nodes /\ nodes[At(nodes, qn)].qn = qn
  BY DEF Has, At
<1>2. nodes[At(nodes, qn)] \in NodeT
  BY <1>1, SMTT(60)
<1> QED
  BY <1>1, <1>2 DEF IdOf, NodeT, Live

\* cbm_gbuf_upsert_node keeps the ids and names of the nodes that are there.
LEMMA UpsertLemma ==
  ASSUME NEW gb, IsBuf(gb), NEW qn \in QN, qn # NoQn, NEW file \in FileT
  PROVE  /\ Grows(gb, Upsert(gb, qn, file))
         /\ Has(Upsert(gb, qn, file).nodes, qn)
         /\ Upsert(gb, qn, file).edges = gb.edges
         /\ Has(gb.nodes, qn) => DOMAIN Upsert(gb, qn, file).nodes = DOMAIN gb.nodes
         /\ \A i \in DOMAIN Upsert(gb, qn, file).nodes \ DOMAIN gb.nodes : Upsert(gb, qn, file).nodes[i].qn = qn
<1> DEFINE r == Upsert(gb, qn, file)
<1>1. CASE Has(gb.nodes, qn)
  <2> DEFINE k == At(gb.nodes, qn)
  <2>1. k \in DOMAIN gb.nodes /\ gb.nodes[k].qn = qn
    BY <1>1, FoundLemma DEF IsBuf
  <2>2. r = [gb EXCEPT !.nodes[k].file = file]
    BY <1>1 DEF Upsert
  <2> HIDE DEF k
  <2>3. /\ r.nodes = [gb.nodes EXCEPT ![k].file = file]
        /\ r.edges = gb.edges /\ r.next = gb.next
        /\ r = [nodes |-> r.nodes, edges |-> r.edges, next |-> r.next]
    BY <2>2 DEF IsBuf
  <2>4. gb.nodes[k] \in NodeT
    BY <2>1, SMTT(60) DEF IsBuf
  <2>5. [gb.nodes[k] EXCEPT !.file = file] \in NodeT
    BY <2>4 DEF NodeT
  <2>6. r.nodes \in Seq(NodeT) /\ DOMAIN r.nodes = DOMAIN gb.nodes
    BY <2>1, <2>3, <2>5, SMTT(60) DEF IsBuf
  <2>7. \A i \in DOMAIN gb.nodes : r.nodes[i].id = gb.nodes[i].id /\ r.nodes[i].qn = gb.nodes[i].qn
    BY <2>1, <2>3, <2>4, SMTT(60) DEF NodeT
  <2> QED
    BY <2>1, <2>3, <2>6, <2>7, SMTT(60) DEF Grows, IsBuf, Has
<1>2. CASE ~Has(gb.nodes, qn)
  <2> DEFINE n == Node(gb.next, qn, file)
  <2>1. n \in NodeT /\ n.id = gb.next /\ n.qn = qn
    BY DEF Node, NodeT, IsBuf
  <2>2. r = [gb EXCEPT !.nodes = Append(gb.nodes, n), !.next = gb.next + 1]
    BY <1>2 DEF Upsert
  <2> HIDE DEF n
  <2>3. /\ r.nodes = Append(gb.nodes, n)
        /\ r.edges = gb.edges /\ r.next = gb.next + 1
        /\ r = [nodes |-> r.nodes, edges |-> r.edges, next |-> r.next]
    BY <2>2 DEF IsBuf
  <2>4. /\ r.nodes \in Seq(NodeT) /\ Len(r.nodes) = Len(gb.nodes) + 1
        /\ DOMAIN gb.nodes = 1 .. Len(gb.nodes) /\ DOMAIN r.nodes = 1 .. Len(gb.nodes) + 1
        /\ \A i \in 1 .. Len(gb.nodes) : r.nodes[i] = gb.nodes[i]
        /\ r.nodes[Len(gb.nodes) + 1] = n
    BY <2>1, <2>3, SMTT(60) DEF IsBuf
  <2> QED
    BY <1>2, <2>1, <2>3, <2>4, SMTT(60) DEF Grows, IsBuf, Has
<1> QED
  BY <1>1, <1>2

\* cbm_gbuf_insert_edge leaves the nodes alone.
LEMMA InsertLemma ==
  ASSUME NEW gb, IsBuf(gb), NEW a, NEW b, NEW t
  PROVE  /\ Grows(gb, Insert(gb, a, b, t))
         /\ Insert(gb, a, b, t).nodes = gb.nodes
         /\ \A e \in Insert(gb, a, b, t).edges : e \in gb.edges \/ (e[1] = a /\ e[2] = b)
<1> DEFINE r == Insert(gb, a, b, t)
<1>1. /\ r.nodes = gb.nodes /\ r.next \in {gb.next, gb.next + 1}
      /\ r = [nodes |-> r.nodes, edges |-> r.edges, next |-> r.next]
      /\ r.edges \in {gb.edges, gb.edges \union {<<a, b, t>>}}
  BY DEF Insert, IsBuf
<1> HIDE DEF r
<1> QED
  BY <1>1, SMTT(60) DEF Grows, IsBuf, r

\* What a pass does to its buffer is growth, and it may be repeated.
LEMMA GrowsSelf ==
  ASSUME NEW gb, IsBuf(gb)
  PROVE  Grows(gb, gb)
BY SMTT(60) DEF Grows, IsBuf

LEMMA LinkLemma ==
  ASSUME NEW gb, IsBuf(gb), NEW q1, q1 # NoQn, NEW q2, q2 # NoQn, NEW t
  PROVE  /\ Grows(gb, Link(gb, q1, q2, t))
         /\ Link(gb, q1, q2, t).nodes = gb.nodes
         /\ \A e \in Link(gb, q1, q2, t).edges :
              e \in gb.edges \/ (Live(gb.nodes, e[1]) /\ Live(gb.nodes, e[2]))
<1>1. CASE Has(gb.nodes, q1) /\ Has(gb.nodes, q2)
  <2>1. Live(gb.nodes, IdOf(gb.nodes, q1)) /\ Live(gb.nodes, IdOf(gb.nodes, q2))
    BY <1>1, FoundLemma DEF IsBuf
  <2> QED
    BY <1>1, <2>1, InsertLemma, SMTT(60) DEF Link
<1>2. CASE ~(Has(gb.nodes, q1) /\ Has(gb.nodes, q2))
  BY <1>2, GrowsSelf DEF Link
<1> QED
  BY <1>1, <1>2

\* What linking two known names does, as one relation between the buffers
Joins(gb, r) ==
  /\ Grows(gb, r) /\ r.nodes = gb.nodes
  /\ \A e \in r.edges : e \in gb.edges \/ (Live(gb.nodes, e[1]) /\ Live(gb.nodes, e[2]))

LEMMA LinkJoins ==
  ASSUME NEW gb, IsBuf(gb), NEW q1, q1 # NoQn, NEW q2, q2 # NoQn, NEW t
  PROVE  Joins(gb, Link(gb, q1, q2, t))
BY LinkLemma DEF Joins

\* A node that is there stays there.
LEMMA LiveStays ==
  ASSUME NEW g, NEW h, Grows(g, h), NEW id, Live(g.nodes, id)
  PROVE  Live(h.nodes, id)
BY DEF Grows, Live

LEMMA HasStays ==
  ASSUME NEW g, NEW h, Grows(g, h), NEW qn, Has(g.nodes, qn)
  PROVE  Has(h.nodes, qn)
BY DEF Grows, Has

LEMMA GrowsTrans ==
  ASSUME NEW f, NEW g, NEW h, IsBuf(f), Grows(f, g), Grows(g, h)
  PROVE  Grows(f, h)
<1>1. IsBuf(h) /\ IsBuf(g) /\ f.next <= g.next /\ g.next <= h.next /\ f.next <= h.next
  BY SMTT(60) DEF Grows, IsBuf
<1>2. DOMAIN f.nodes \subseteq DOMAIN g.nodes /\ DOMAIN g.nodes \subseteq DOMAIN h.nodes
  BY DEF Grows
<1>3. \A i \in DOMAIN f.nodes : h.nodes[i].id = f.nodes[i].id /\ h.nodes[i].qn = f.nodes[i].qn
  BY DEF Grows
<1>4. \A i \in DOMAIN h.nodes : h.nodes[i].id \in Nat
  <2>1. \A i \in DOMAIN h.nodes : h.nodes[i] \in NodeT
    BY <1>1, SMTT(60) DEF IsBuf
  <2> QED
    BY <2>1 DEF NodeT
<1>5. ASSUME NEW i \in DOMAIN h.nodes \ DOMAIN f.nodes
      PROVE  /\ f.next <= h.nodes[i].id /\ h.nodes[i].id < h.next
             /\ h.nodes[i].qn # NoQn
             /\ \A j \in DOMAIN h.nodes : h.nodes[j].id = h.nodes[i].id => j \in DOMAIN f.nodes \/ j = i
  <2>1. CASE i \in DOMAIN g.nodes
    <3>1. g.nodes[i].id = h.nodes[i].id /\ g.nodes[i].qn = h.nodes[i].qn
      BY <2>1 DEF Grows
    <3>2. f.next <= h.nodes[i].id /\ h.nodes[i].id < g.next /\ h.nodes[i].qn # NoQn
      BY <2>1, <3>1, <1>5 DEF Grows
    <3>3. ASSUME NEW j \in DOMAIN h.nodes, h.nodes[j].id = h.nodes[i].id
          PROVE  j \in DOMAIN f.nodes \/ j = i
      <4>1. j \in DOMAIN g.nodes
        BY <1>1, <1>4, <3>2, <3>3, SMTT(60) DEF Grows, IsBuf
      <4> QED
        BY <2>1, <3>1, <3>3, <4>1, <1>5 DEF Grows
    <3> QED
      BY <1>1, <1>4, <3>2, <3>3, SMTT(60) DEF IsBuf
  <2>2. CASE i \notin DOMAIN g.nodes
    <3>1. g.next <= h.nodes[i].id /\ h.nodes[i].id < h.next /\ h.nodes[i].qn # NoQn
      BY <2>2 DEF Grows
    <3>2. ASSUME NEW j \in DOMAIN h.nodes, h.nodes[j].id = h.nodes[i].id
          PROVE  j \in DOMAIN f.nodes \/ j = i
      <4>1. j \in DOMAIN g.nodes \/ j = i
        BY <2>2, <3>2 DEF Grows
      <4>2. CASE j \in DOMAIN g.nodes \ DOMAIN f.nodes
        <5>1. g.nodes[j].id = h.nodes[j].id /\ g.nodes[j].id < g.next
          BY <4>2 DEF Grows
        <5> QED
          BY <1>1, <1>4, <3>1, <3>2, <5>1, SMTT(60) DEF IsBuf
      <4> QED
        BY <4>1, <4>2
    <3> QED
      BY <1>1, <1>4, <3>1, <3>2, SMTT(60) DEF IsBuf
  <2> QED
    BY <2>1, <2>2
<1> HIDE DEF IsBuf
<1> QED
  BY <1>1, <1>2, <1>3, <1>5 DEF Grows

\* The two operations that passes are made of keep the edges attached.
LEMMA PassLemma ==
  ASSUME NEW gb, IsBuf(gb), Attached(gb)
  PROVE  /\ \A qn \in QN \ {NoQn}, file \in FileT : Attached(Upsert(gb, qn, file))
         /\ \A q1, q2 \in QN \ {NoQn} : \A t : Attached(Link(gb, q1, q2, t))
<1>1. ASSUME NEW qn \in QN \ {NoQn}, NEW file \in FileT
      PROVE  Attached(Upsert(gb, qn, file))
  BY <1>1, UpsertLemma, LiveStays, SMTT(60) DEF Attached
<1>2. ASSUME NEW q1 \in QN \ {NoQn}, NEW q2 \in QN \ {NoQn}, NEW t
      PROVE  Attached(Link(gb, q1, q2, t))
  BY <1>2, LinkLemma, SMTT(60) DEF Attached
<1> QED
  BY <1>1, <1>2

\* The names are names of nodes that are there.
LEMMA QnLemma ==
  /\ \A f \in FileT : FileQn(f) \in QN \ {NoQn} /\ DefQn(f) \in QN \ {NoQn} /\ ResourceQn(f) \in QN \ {NoQn}
  /\ {RouteQn, DecoratorQn, ChannelQn, InfraQn, TopicQn} \subseteq QN \ {NoQn}
<1>1. None \in FileT
  BY DEF FileT
<1>2. ASSUME NEW f \in FileT
      PROVE  FileQn(f) \in QN /\ DefQn(f) \in QN /\ ResourceQn(f) \in QN
  BY <1>2 DEF FileQn, DefQn, ResourceQn, QN, FileT, Kinds
<1>3. ASSUME NEW f \in FileT
      PROVE  FileQn(f) # NoQn /\ DefQn(f) # NoQn /\ ResourceQn(f) # NoQn
  BY <1>3 DEF FileQn, DefQn, ResourceQn, NoQn
<1>4. {RouteQn, DecoratorQn, ChannelQn, InfraQn, TopicQn} \subseteq QN
  BY <1>1, SMTT(60) DEF RouteQn, DecoratorQn, ChannelQn, InfraQn, TopicQn, QN, FileT, Kinds
<1>5. NoQn \notin {RouteQn, DecoratorQn, ChannelQn, InfraQn, TopicQn}
  BY DEF RouteQn, DecoratorQn, ChannelQn, InfraQn, TopicQn, NoQn
<1> QED
  BY <1>2, <1>3, <1>4, <1>5

LEMMA ReferenceLemma ==
  ASSUME NEW tree
  PROVE  /\ \A e \in Reference(tree) : e[1] \in QN \ {NoQn} /\ e[2] \in QN \ {NoQn}
         /\ QnsOf(tree) \subseteq QN \ {NoQn}
         /\ \A qn \in QN : OwnerOf(qn, tree) \in FileT
<1>1. ASSUME NEW f \in Files, NEW c, NEW e \in EdgesOf(f, c, tree)
      PROVE  e[1] \in QN \ {NoQn} /\ e[2] \in QN \ {NoQn}
  <2>1. /\ FileQn(f) \in QN \ {NoQn} /\ DefQn(f) \in QN \ {NoQn} /\ ResourceQn(f) \in QN \ {NoQn}
        /\ \A g \in Files : DefQn(g) \in QN \ {NoQn}
        /\ {RouteQn, DecoratorQn, ChannelQn, InfraQn, TopicQn} \subseteq QN \ {NoQn}
    BY QnLemma DEF FileT
  <2> QED
    BY <1>1, <2>1, SMTT(60) DEF EdgesOf
<1>2. \A e \in Reference(tree) : e[1] \in QN \ {NoQn} /\ e[2] \in QN \ {NoQn}
  BY <1>1 DEF Reference
<1>3. QnsOf(tree) \subseteq QN \ {NoQn}
  BY <1>2, QnLemma DEF QnsOf, FileT
<1>4. ASSUME NEW qn \in QN PROVE OwnerOf(qn, tree) \in FileT
  BY <1>4 DEF OwnerOf, QN, FileT
<1> QED
  BY <1>2, <1>3, <1>4
-----------------------------------------------------------------------------
(* The inductive invariant *)

Labels == {"take", "def", "route", "handles", "calls", "synth", "edge", "done"}

BufInv ==
  /\ IsBuf(main)
  /\ wbuf = [w \in Workers |-> [nodes |-> wbuf[w].nodes, edges |-> wbuf[w].edges]]
  /\ \A w \in Workers : /\ wbuf[w].nodes \in Seq(NodeT)
                        /\ \A k \in DOMAIN wbuf[w].nodes : wbuf[w].nodes[k].qn # NoQn
  /\ wpc \in [Workers -> Labels] /\ wfile \in [Workers -> FileT]

\* The local buffers are empty but in a parallel phase and its merge.
EmptyInv ==
  pc \notin {"work", "merge", "mergeEdges", "sync"} =>
    \A w \in Workers : wbuf[w].nodes = <<>> /\ wbuf[w].edges = {}

\* The workers' ids are distinct, and below the shared counter.
IdsApart(wb, n) ==
  \A w \in Workers : \A k \in DOMAIN wb[w].nodes :
    /\ wb[w].nodes[k].id < n
    /\ \A v \in Workers : \A l \in DOMAIN wb[v].nodes :
         wb[v].nodes[l].id = wb[w].nodes[k].id => v = w /\ l = k

WorkerIds == IdsApart(wbuf, shared)

\* The merge has still to come to node k of worker w.
Unmerged(w, k) ==
  \/ pc = "work"
  \/ pc \in {"merge", "mergeEdges"} /\ mw < w
  \/ pc = "merge" /\ w = mw /\ mi <= k

\* The nodes whose ids are not in doubt: all, or all but a Channel node when
\* the registry pass has made one.
Sure == {i \in DOMAIN main.nodes : minted => main.nodes[i].qn # ChannelQn}

\* The ids of these are distinct, below the counter that hands out ids now, and
\* not those of a node that is still to be merged. One that has the id of the
\* Channel node comes after it, so that it takes the slot in the dump.
Below(n) == \A i \in Sure : main.nodes[i].id < n
Free(id) == \A i \in Sure : main.nodes[i].id # id
Apart == \A i, j \in Sure : main.nodes[i].id = main.nodes[j].id => i = j
ChannelFirst ==
  \A i \in Sure : \A c \in DOMAIN main.nodes \ Sure : main.nodes[c].id = main.nodes[i].id => c < i

MainIds ==
  /\ pc \in {"load", "loadEdges", "files", "late", "done"} => Below(main.next)
  /\ pc \in {"work", "merge", "mergeEdges", "sync", "registry"} => Below(shared)
  /\ pc = "registry" => shared <= main.next
  /\ \A w \in Workers : \A k \in DOMAIN wbuf[w].nodes : Unmerged(w, k) => Free(wbuf[w].nodes[k].id)
  /\ Apart /\ ChannelFirst
  /\ pc \in {"load", "loadEdges", "files"} => ~minted

\* The end of a worker's edge
Known(w, id) == Live(main.nodes, id) \/ \E k \in DOMAIN wbuf[w].nodes : wbuf[w].nodes[k].id = id

EdgeInv ==
  /\ Attached(main)
  /\ \A e \in pend : Live(main.nodes, e[1]) /\ Live(main.nodes, e[2])
  /\ \A w \in Workers : \A e \in wbuf[w].edges : Known(w, e[1]) /\ Known(w, e[2])

\* A worker on its way to an edge has both ends.
EndsInv ==
  pc = "work" => \A w \in Workers :
    /\ wpc[w] \in {"synth", "edge"} => Has(main.nodes, DefQn(wfile[w]))
    /\ wpc[w] = "edge" => Has(wbuf[w].nodes, SynthQn(w))

\* The merged nodes of the present buffer are found by their names.
MergedInv ==
  /\ pc = "merge" => mi # 0
  /\ pc \in {"merge", "mergeEdges"} =>
    \A k \in DOMAIN wbuf[mw].nodes : pc = "mergeEdges" \/ k < mi => Has(main.nodes, wbuf[mw].nodes[k].qn)

IInv ==
  /\ TypeOK /\ BufInv /\ EmptyInv /\ WorkerIds /\ MainIds
  /\ EdgeInv /\ EndsInv /\ MergedInv

LEMMA NoIds ==
  ASSUME NEW wb, NEW n, \A w \in Workers : wb[w].nodes = <<>>
  PROVE  IdsApart(wb, n)
BY SMTT(60) DEF IdsApart

\* What one worker adds to its buffer keeps the ids of all buffers apart.
NewIds(old, new, n, m) ==
  /\ DOMAIN old \subseteq DOMAIN new
  /\ \A i \in DOMAIN old : new[i].id = old[i].id
  /\ \A i \in DOMAIN new \ DOMAIN old :
       /\ new[i].id \in Nat /\ n <= new[i].id /\ new[i].id < m
       /\ \A j \in DOMAIN new : new[j].id = new[i].id => j \in DOMAIN old \/ j = i

LEMMA IdsStayApart ==
  ASSUME NEW wb, NEW wc, NEW w \in Workers, NEW n \in Nat, NEW m \in Nat, n <= m,
         IdsApart(wb, n),
         \A v \in Workers : \A k \in DOMAIN wb[v].nodes : wb[v].nodes[k].id \in Nat,
         \A v \in Workers \ {w} : wc[v] = wb[v],
         NewIds(wb[w].nodes, wc[w].nodes, n, m)
  PROVE  IdsApart(wc, m)
<1> DEFINE new == DOMAIN wc[w].nodes \ DOMAIN wb[w].nodes
<1>1. \A v \in Workers : \A k \in DOMAIN wb[v].nodes :
        /\ wb[v].nodes[k].id < m
        /\ \A i \in new : wc[w].nodes[i].id # wb[v].nodes[k].id
  BY SMTT(60) DEF IdsApart, NewIds
<1>2. \A i \in new : wc[w].nodes[i].id < m /\ \A j \in new : wc[w].nodes[j].id = wc[w].nodes[i].id => j = i
  BY DEF NewIds
<1>3. \A v \in Workers : \A k \in DOMAIN wc[v].nodes :
        \/ v = w /\ k \in new
        \/ k \in DOMAIN wb[v].nodes /\ wc[v].nodes[k].id = wb[v].nodes[k].id
  BY DEF NewIds
<1>4. \A v \in Workers : \A k \in DOMAIN wb[v].nodes : \A u \in Workers : \A l \in DOMAIN wb[u].nodes :
        wb[u].nodes[l].id = wb[v].nodes[k].id => u = v /\ l = k
  BY DEF IdsApart
<1> HIDE DEF new
<1>5. ASSUME NEW v \in Workers, NEW k \in DOMAIN wc[v].nodes PROVE wc[v].nodes[k].id < m
  BY <1>1, <1>2, <1>3
<1>6. ASSUME NEW v \in Workers, NEW k \in DOMAIN wc[v].nodes,
             NEW u \in Workers, NEW l \in DOMAIN wc[u].nodes,
             wc[u].nodes[l].id = wc[v].nodes[k].id
      PROVE  u = v /\ l = k
  <2>1. CASE v = w /\ k \in new /\ u = w /\ l \in new
    BY <1>2, <1>6, <2>1
  <2>2. CASE v = w /\ k \in new /\ ~(u = w /\ l \in new)
    BY <1>1, <1>3, <1>6, <2>2, SMTT(60)
  <2>3. CASE ~(v = w /\ k \in new) /\ u = w /\ l \in new
    BY <1>1, <1>3, <1>6, <2>3, SMTT(60)
  <2>4. CASE ~(v = w /\ k \in new) /\ ~(u = w /\ l \in new)
    BY <1>3, <1>4, <1>6, <2>4, SMTT(60)
  <2> QED
    BY <2>1, <2>2, <2>3, <2>4
<1> QED
  BY <1>5, <1>6 DEF IdsApart

LEMMA InitIInv == Init => IInv
<1> SUFFICES ASSUME Init PROVE IInv
  OBVIOUS
<1>1. minted \in BOOLEAN
  BY DEF Init
<1>2. pc \in {"load", "files"}
  BY DEF Init
<1>3. 1 \in Workers
  BY NumWorkersAssumption, SMTT(60) DEF Workers
<1>4. TypeOK
  BY <1>1, <1>2, <1>3 DEF Init, TypeOK
<1>5. main.nodes = <<>> /\ main.edges = {} /\ main.next = 1
  BY DEF Init, EmptyNodes
<1>6. IsBuf(main)
  BY <1>5, SMTT(60) DEF Init, IsBuf, EmptyNodes
<1>7. \A w \in Workers : wbuf[w].nodes = <<>> /\ wbuf[w].edges = {}
  BY DEF Init, NoBuf, EmptyNodes
<1>8. wbuf = [w \in Workers |-> [nodes |-> wbuf[w].nodes, edges |-> wbuf[w].edges]]
  BY <1>7 DEF Init, NoBuf, EmptyNodes
<1>9. wpc \in [Workers -> Labels] /\ wfile \in [Workers -> FileT]
  BY DEF Init, Labels, FileT
<1>10. BufInv
  <2>1. <<>> \in Seq(NodeT) /\ DOMAIN <<>> = {}
    BY SMTT(60)
  <2>2. \A w \in Workers : wbuf[w].nodes \in Seq(NodeT) /\ DOMAIN wbuf[w].nodes = {}
    BY <1>7, <2>1
  <2> QED
    BY <1>6, <1>8, <1>9, <2>2 DEF BufInv
<1>11. EmptyInv /\ WorkerIds /\ MainIds
  <2>1. DOMAIN <<>> = {}
    BY SMTT(60)
  <2>2. Sure = {} /\ \A w \in Workers : DOMAIN wbuf[w].nodes = {}
    BY <1>5, <1>7, <2>1 DEF Sure
  <2> QED
    BY <1>2, <1>7, <2>2, NoIds DEF Init, EmptyInv, WorkerIds, MainIds, Below, Apart, ChannelFirst
<1>12. EdgeInv
  BY <1>5, <1>7 DEF Init, EdgeInv, Attached
<1>13. EndsInv /\ MergedInv
  BY <1>2 DEF EndsInv, MergedInv
<1> QED
  BY <1>4, <1>10, <1>11, <1>12, <1>13 DEF IInv

LEMMA IdsNat ==
  ASSUME NEW nodes \in Seq(NodeT)
  PROVE  \A i \in DOMAIN nodes : nodes[i] \in NodeT /\ nodes[i].id \in Nat /\ i \in Nat
<1>1. \A i \in DOMAIN nodes : nodes[i] \in NodeT /\ i \in Nat
  BY SMTT(60)
<1> QED
  BY <1>1 DEF NodeT

\* New nodes come after those that are there.
LEMMA AfterAll ==
  ASSUME NEW m \in Seq(NodeT), NEW n \in Seq(NodeT),
         NEW i \in DOMAIN n, i \notin DOMAIN m, NEW c \in DOMAIN m
  PROVE  c < i
BY SMTT(60)

\* The ids in doubt are the same as long as the nodes are.
LEMMA SameIds ==
  ASSUME main'.nodes = main.nodes, minted' = minted
  PROVE  /\ Sure' = Sure
         /\ Apart => Apart'
         /\ ChannelFirst => ChannelFirst'
         /\ Below(shared) /\ shared' = shared => Below(shared)'
         /\ Below(main.next) /\ main'.next = main.next => Below(main.next)'
         /\ wbuf' = wbuf => \A w \in Workers : \A k \in DOMAIN wbuf[w].nodes :
                               Free(wbuf[w].nodes[k].id) => Free(wbuf[w].nodes[k].id)'
<1>1. Sure' = Sure
  BY DEF Sure
<1>2. \A n : Below(n) => Below(n)'
  BY <1>1 DEF Below
<1>3. \A i : Free(i) => Free(i)'
  BY <1>1 DEF Free
<1>4. Apart => Apart'
  BY <1>1, SMTT(60) DEF Apart
<1>5. ChannelFirst => ChannelFirst'
  BY <1>1 DEF ChannelFirst
<1> QED
  BY <1>1, <1>2, <1>3, <1>4, <1>5

\* Fresh ids keep the ids that are not in doubt apart.
LEMMA SureGrow ==
  ASSUME IsBuf(main), Grows(main, main'), minted' = minted,
         Below(main.next), Apart, ChannelFirst
  PROVE  Below(main.next)' /\ Apart' /\ ChannelFirst'
<1>1. /\ IsBuf(main') /\ main.nodes \in Seq(NodeT) /\ main'.nodes \in Seq(NodeT)
      /\ main.next \in Nat /\ main'.next \in Nat /\ main.next <= main'.next
  BY DEF Grows, IsBuf
<1>2. \A i \in DOMAIN main'.nodes : main'.nodes[i].id \in Nat /\ i \in Nat
  BY <1>1, IdsNat
<1>3. \A i \in DOMAIN main.nodes : main.nodes[i].id \in Nat /\ i \in Nat
  BY <1>1, IdsNat
<1> DEFINE old == DOMAIN main.nodes
           new == DOMAIN main'.nodes \ DOMAIN main.nodes
<1>4. /\ \A i \in old : i \in DOMAIN main'.nodes /\ main'.nodes[i].id = main.nodes[i].id
      /\ \A i \in old : i \in Sure' <=> i \in Sure
      /\ \A i \in Sure' : i \in new \/ i \in Sure
      /\ \A c \in DOMAIN main'.nodes \ Sure' : c \in new \/ c \in old \ Sure
      /\ Sure \subseteq old
  BY DEF Grows, Sure
<1>5. \A i \in new : /\ main.next <= main'.nodes[i].id /\ main'.nodes[i].id < main'.next
                     /\ \A j \in DOMAIN main'.nodes : main'.nodes[j].id = main'.nodes[i].id => j \in old \/ j = i
  BY DEF Grows
<1>6. \A i \in Sure : main'.nodes[i].id < main.next /\ main'.nodes[i].id \in Nat
  BY <1>3, <1>4 DEF Below
<1>7. \A i \in Sure : \A j \in new : main'.nodes[j].id # main'.nodes[i].id
  BY <1>1, <1>2, <1>5, <1>6, SMTT(60)
<1>8. \A i \in new : \A c \in old : c < i
  BY <1>1, AfterAll
<1>s. \A i \in Sure : \A c \in old \ Sure : main'.nodes[c].id = main'.nodes[i].id => c < i
  BY <1>4 DEF ChannelFirst
<1> HIDE DEF old, new
<1>9. Below(main.next)'
  <2>1. \A i \in Sure : main'.nodes[i].id < main'.next
    BY <1>1, <1>6, SMTT(60)
  <2> QED
    BY <1>4, <1>5, <2>1 DEF Below
<1>10. Apart'
  <2>1. \A i, j \in Sure : main'.nodes[i].id = main'.nodes[j].id => i = j
    BY <1>4 DEF Apart
  <2>2. \A i, j \in new : main'.nodes[i].id = main'.nodes[j].id => i = j
    BY <1>5 DEF old, new
  <2> QED
    BY <1>4, <1>7, <2>1, <2>2 DEF Apart
<1>11. ChannelFirst'
  <2>1. ASSUME NEW i \in Sure', NEW c \in DOMAIN main'.nodes \ Sure', main'.nodes[c].id = main'.nodes[i].id
        PROVE  c < i
    <3>1. CASE i \in new /\ c \in old
      BY <1>8, <3>1
    <3>2. CASE i \in new /\ c \in new
      BY <1>5, <2>1, <3>2 DEF old, new
    <3>3. CASE i \in Sure /\ c \in new
      BY <1>7, <2>1, <3>3
    <3>4. CASE i \in Sure /\ c \in old \ Sure
      BY <1>s, <2>1, <3>4
    <3> QED
      BY <1>4, <3>1, <3>2, <3>3, <3>4
  <2> QED
    BY <2>1 DEF ChannelFirst
<1> QED
  BY <1>9, <1>10, <1>11

\* A pass that works on the main buffer while there are no workers
LEMMA SerialStep ==
  ASSUME IInv, pc \in {"load", "files", "late"}, pc' = pc, phase' = phase,
         Grows(main, main'), Attached(main'),
         wbuf' = wbuf, shared' = shared, wpc' = wpc, wfile' = wfile,
         mw' = mw, mi' = mi, pend' = pend, minted' = minted,
         todo' \subseteq Files, cached' \subseteq Files, manifests' \subseteq Files
  PROVE  IInv'
<1>1. IsBuf(main) /\ IsBuf(main')
  BY DEF IInv, BufInv, Grows
<1>2. TypeOK'
  BY <1>1 DEF IInv, TypeOK, IsBuf
<1>3. BufInv'
  BY <1>1 DEF IInv, BufInv
<1>4. EmptyInv' /\ WorkerIds' /\ EndsInv' /\ MergedInv'
  BY DEF IInv, EmptyInv, WorkerIds, EndsInv, MergedInv
<1>5. EdgeInv'
  BY LiveStays, SMTT(60) DEF IInv, EdgeInv, EmptyInv
<1>6. MainIds'
  <2>1. \A w \in Workers : DOMAIN wbuf[w].nodes = {}
    <3>1. DOMAIN <<>> = {}
      BY SMTT(60)
    <3> QED
      BY <3>1 DEF IInv, EmptyInv
  <2>2. \A i \in Sure : main.nodes[i].id < main.next
    BY DEF IInv, MainIds, Below
  <2> QED
    BY <1>1, <2>1, <2>2, SureGrow DEF IInv, MainIds, Unmerged
<1> QED
  BY <1>2, <1>3, <1>4, <1>5, <1>6 DEF IInv

\* A worker's operation on its own buffer
LEMMA WorkerStep ==
  ASSUME IInv, NEW w \in Workers, Worker(w), NEW l \in Labels, Goto(w, l),
         NEW gb, Grows(Buf(w), gb), Local(w, gb),
         \A e \in gb.edges : \A id \in {e[1], e[2]} :
            e \in wbuf[w].edges \/ Live(main.nodes, id) \/ Live(gb.nodes, id),
         l \in {"synth", "edge"} => Has(main.nodes, DefQn(wfile[w])),
         l = "edge" => Has(gb.nodes, SynthQn(w))
  PROVE  IInv'
<1>1. /\ pc = "work" /\ pc' = "work"
      /\ main' = main /\ mw' = mw /\ mi' = mi /\ pend' = pend /\ minted' = minted /\ now' = now
      /\ phase' = phase /\ manifests' = manifests
      /\ todo' = todo /\ cached' = cached /\ wfile' = wfile
      /\ shared' = gb.next
  BY DEF Worker, inputs, merge, Local
<1>2. /\ wbuf' = [wbuf EXCEPT ![w] = [nodes |-> gb.nodes, edges |-> gb.edges]]
      /\ wpc' = [wpc EXCEPT ![w] = l]
  BY DEF Local, Goto
<1>3. /\ wbuf'[w].nodes = gb.nodes /\ wbuf'[w].edges = gb.edges /\ wpc'[w] = l
      /\ \A v \in Workers \ {w} : wbuf'[v] = wbuf[v] /\ wpc'[v] = wpc[v]
  BY <1>2 DEF IInv, BufInv
<1>4. /\ IsBuf(gb) /\ shared \in Nat /\ shared <= gb.next
      /\ DOMAIN wbuf[w].nodes \subseteq DOMAIN gb.nodes
      /\ \A i \in DOMAIN wbuf[w].nodes :
           gb.nodes[i].id = wbuf[w].nodes[i].id /\ gb.nodes[i].qn = wbuf[w].nodes[i].qn
      /\ \A i \in DOMAIN gb.nodes \ DOMAIN wbuf[w].nodes :
           /\ shared <= gb.nodes[i].id /\ gb.nodes[i].id < gb.next
           /\ gb.nodes[i].qn # NoQn
           /\ \A j \in DOMAIN gb.nodes : gb.nodes[j].id = gb.nodes[i].id => j \in DOMAIN wbuf[w].nodes \/ j = i
  BY DEF Grows, Buf, IInv, TypeOK
<1>5. \A v \in Workers : \A k \in DOMAIN wbuf[v].nodes : wbuf[v].nodes[k].id \in Nat /\ wbuf[v].nodes[k].id < shared
  <2>1. \A v \in Workers : \A k \in DOMAIN wbuf[v].nodes : wbuf[v].nodes[k] \in NodeT
    BY SMTT(60) DEF IInv, BufInv
  <2> QED
    BY <2>1 DEF NodeT, IInv, WorkerIds, IdsApart
<1>6. \A k \in DOMAIN gb.nodes : gb.nodes[k].id \in Nat
  <2>1. \A k \in DOMAIN gb.nodes : gb.nodes[k] \in NodeT
    BY <1>4, SMTT(60) DEF IsBuf
  <2> QED
    BY <2>1 DEF NodeT
<1>7. TypeOK'
  BY <1>1, <1>4 DEF IInv, TypeOK, IsBuf
<1>8. BufInv'
  <2>1. wbuf' = [v \in Workers |-> [nodes |-> wbuf'[v].nodes, edges |-> wbuf'[v].edges]]
    BY <1>2, <1>3 DEF IInv, BufInv
  <2>2. \A v \in Workers : /\ wbuf'[v].nodes \in Seq(NodeT)
                           /\ \A k \in DOMAIN wbuf'[v].nodes : wbuf'[v].nodes[k].qn # NoQn
    <3>1. gb.nodes \in Seq(NodeT)
      BY <1>4 DEF IsBuf
    <3>2. \A k \in DOMAIN gb.nodes : gb.nodes[k].qn # NoQn
      BY <1>4 DEF IInv, BufInv
    <3>3. \A v \in Workers \ {w} :
            /\ wbuf[v].nodes \in Seq(NodeT)
            /\ \A k \in DOMAIN wbuf[v].nodes : wbuf[v].nodes[k].qn # NoQn
      BY DEF IInv, BufInv
    <3> QED
      BY <1>3, <3>1, <3>2, <3>3
  <2>3. wpc' \in [Workers -> Labels]
    BY <1>2 DEF IInv, BufInv
  <2> QED
    BY <1>1, <2>1, <2>2, <2>3 DEF IInv, BufInv
<1>9. EmptyInv' /\ MergedInv'
  BY <1>1 DEF EmptyInv, MergedInv
<1>10. WorkerIds'
  <2>1. NewIds(wbuf[w].nodes, wbuf'[w].nodes, shared, shared')
    BY <1>1, <1>3, <1>4, <1>6 DEF NewIds
  <2>2. shared \in Nat /\ shared' \in Nat /\ shared <= shared'
    BY <1>1, <1>4 DEF IsBuf
  <2> QED
    BY <1>3, <1>5, <2>1, <2>2, IdsStayApart, SMTT(60) DEF IInv, WorkerIds
<1>11. MainIds'
  <2>0. Sure' = Sure
    BY <1>1 DEF Sure
  <2>1. \A i \in Sure : main.nodes[i].id \in Nat /\ main.nodes[i].id < shared
    <3>1. \A i \in DOMAIN main.nodes : main.nodes[i].id \in Nat
      BY IdsNat DEF IInv, BufInv, IsBuf
    <3> QED
      BY <1>1, <3>1 DEF IInv, MainIds, Below, Sure
  <2>2. ASSUME NEW v \in Workers, NEW k \in DOMAIN wbuf'[v].nodes
        PROVE  Free(wbuf'[v].nodes[k].id)
    <3>1. \A x \in Workers : \A m \in DOMAIN wbuf[x].nodes : Free(wbuf[x].nodes[m].id)
      BY <1>1 DEF IInv, MainIds, Unmerged
    <3>2. CASE v = w /\ k \in DOMAIN wbuf[w].nodes
      <4>1. wbuf'[v].nodes[k].id = wbuf[w].nodes[k].id
        BY <1>3, <1>4, <3>2
      <4> QED
        BY <3>1, <3>2, <4>1
    <3>3. CASE v = w /\ k \notin DOMAIN wbuf[w].nodes
      <4>1. wbuf'[v].nodes = gb.nodes /\ k \in DOMAIN gb.nodes
        BY <1>3, <2>2, <3>3
      <4>2. shared \in Nat /\ gb.nodes[k].id \in Nat /\ shared <= gb.nodes[k].id
        BY <1>4, <1>6, <3>3, <4>1
      <4>3. Free(gb.nodes[k].id)
        BY <2>1, <4>2, SMTT(60) DEF Free
      <4> QED
        BY <4>1, <4>3
    <3>4. CASE v # w
      BY <1>3, <2>2, <3>1, <3>4
    <3> QED
      BY <3>2, <3>3, <3>4
  <2>3. \A i \in Sure : main.nodes[i].id < shared'
    BY <1>1, <1>4, <2>1, SMTT(60) DEF IsBuf
  <2>4. Below(shared)' /\ Apart' /\ ChannelFirst'
    BY <1>1, <2>0, <2>3 DEF IInv, MainIds, Below, Apart, ChannelFirst
  <2>5. \A v \in Workers : \A k \in DOMAIN wbuf'[v].nodes : Free(wbuf[v].nodes[k].id)'
    BY <1>1, <2>0, <2>2 DEF Free
  <2> QED
    BY <1>1, <2>4, <2>5 DEF MainIds
<1>12. EdgeInv'
  <2>1. \A v \in Workers \ {w} : \A id : Known(v, id) => Known(v, id)'
    BY <1>1, <1>3 DEF Known
  <2>2. \A id : Known(w, id) => Known(w, id)'
    BY <1>1, <1>3, <1>4 DEF Known
  <2>3. \A id : Live(main.nodes, id) \/ Live(gb.nodes, id) => Known(w, id)'
    BY <1>1, <1>3 DEF Known, Live
  <2>4. ASSUME NEW v \in Workers, NEW e \in wbuf'[v].edges
        PROVE  (Known(v, e[1]) /\ Known(v, e[2]))'
    <3>1. CASE v = w
      <4>1. e \in gb.edges
        BY <1>3, <2>4, <3>1
      <4>2. CASE e \in wbuf[w].edges
        BY <2>2, <3>1, <4>2 DEF IInv, EdgeInv
      <4>3. CASE e \notin wbuf[w].edges
        BY <2>3, <3>1, <4>1, <4>3
      <4> QED
        BY <4>2, <4>3
    <3>2. CASE v # w
      BY <1>3, <2>1, <2>4, <3>2 DEF IInv, EdgeInv
    <3> QED
      BY <3>1, <3>2
  <2> QED
    BY <1>1, <2>4 DEF IInv, EdgeInv
<1>13. EndsInv'
  <2>1. \A v \in Workers : SynthQn(v)' = SynthQn(v)
    BY <1>1 DEF SynthQn, Src
  <2> QED
    BY <1>1, <1>3, <2>1 DEF IInv, EndsInv
<1> QED
  BY <1>1, <1>7, <1>8, <1>9, <1>10, <1>11, <1>12, <1>13 DEF IInv

LEMMA TakeStep ==
  ASSUME IInv, NEW w \in Workers, Take(w)
  PROVE  IInv'
<1>1. /\ pc = "work" /\ pc' = "work"
      /\ main' = main /\ mw' = mw /\ mi' = mi /\ pend' = pend /\ minted' = minted /\ now' = now
      /\ phase' = phase /\ manifests' = manifests /\ shared' = shared /\ wbuf' = wbuf
  BY DEF Take, Worker, inputs, merge
<1>2. /\ todo' \subseteq Files /\ cached' \subseteq Files
      /\ wfile' \in [Workers -> FileT]
      /\ \A v \in Workers \ {w} : wfile'[v] = wfile[v]
  BY DEF Take, IInv, TypeOK, BufInv, FileT
<1>3. /\ wpc' \in [Workers -> Labels]
      /\ \A v \in Workers \ {w} : wpc'[v] = wpc[v]
      /\ wpc'[w] \notin {"synth", "edge"}
  <2>1. wpc' = wpc \/ \E l \in {"done", "def", "calls"} : wpc' = [wpc EXCEPT ![w] = l]
    BY DEF Take, Goto
  <2>2. wpc[w] = "take"
    BY DEF Take
  <2> QED
    BY <2>1, <2>2 DEF IInv, BufInv, Labels
<1>4. TypeOK' /\ BufInv' /\ EmptyInv' /\ MergedInv'
  BY <1>1, <1>2, <1>3 DEF IInv, TypeOK, BufInv, EmptyInv, MergedInv
<1>5. WorkerIds' /\ MainIds'
  BY <1>1, SameIds DEF IInv, WorkerIds, MainIds, Unmerged
<1>6. EdgeInv'
  BY <1>1 DEF IInv, EdgeInv, Known, Attached
<1>7. EndsInv'
  <2>1. \A v \in Workers \ {w} : SynthQn(v)' = SynthQn(v)
    BY <1>1, <1>2 DEF SynthQn, Src
  <2> QED
    BY <1>1, <1>2, <1>3, <2>1 DEF IInv, EndsInv
<1> QED
  BY <1>1, <1>4, <1>5, <1>6, <1>7 DEF IInv

LEMMA WorkersStep ==
  ASSUME IInv, NEW w \in Workers,
         \/ ExtractDef(w) \/ ExtractRoute(w) \/ ExtractHandles(w)
         \/ ResolveCalls(w) \/ ResolveSynth(w) \/ ResolveEdge(w)
  PROVE  IInv'
<1> DEFINE g == Buf(w)
<1>1. IsBuf(g) /\ g.nodes = wbuf[w].nodes /\ g.edges = wbuf[w].edges
  BY DEF IInv, BufInv, TypeOK, IsBuf, Buf
<1>2. wfile[w] \in FileT /\ Grows(g, g)
  BY <1>1, GrowsSelf DEF IInv, BufInv
<1>q. /\ DefQn(wfile[w]) \in QN \ {NoQn} /\ RouteQn \in QN \ {NoQn} /\ DecoratorQn \in QN \ {NoQn}
      /\ None \in FileT
  <2>1. None \in FileT
    BY DEF FileT
  <2> QED
    BY <1>2, <2>1, QnLemma
<1>3. \A q \in QN \ {NoQn}, f \in FileT :
        Grows(g, Upsert(g, q, f)) /\ Upsert(g, q, f).edges = g.edges /\ Has(Upsert(g, q, f).nodes, q)
  <2> TAKE q \in QN \ {NoQn}, f \in FileT
  <2> QED
    BY <1>1, UpsertLemma, SMTT(60)
<1>4. CASE ExtractDef(w)
  <2>1. PICK l \in {"route", "take"} : Goto(w, l)
    BY <1>4 DEF ExtractDef
  <2>2. PICK gb \in {g, Upsert(g, DefQn(wfile[w]), wfile[w])} : Local(w, gb)
    BY <1>4 DEF ExtractDef
  <2>3. Grows(Buf(w), gb) /\ gb.edges = wbuf[w].edges
    BY <1>1, <1>2, <1>3, <1>q
  <2>4. Worker(w) /\ l \in Labels /\ l \notin {"synth", "edge"}
    BY <1>4, <2>1 DEF ExtractDef, Labels
  <2> HIDE DEF g
  <2> QED
    BY <2>1, <2>2, <2>3, <2>4, WorkerStep
<1>5. CASE ExtractRoute(w)
  <2>1. Goto(w, "handles") /\ Worker(w) /\ Local(w, Upsert(g, RouteQn, wfile[w]))
    BY <1>5 DEF ExtractRoute
  <2>2. Grows(Buf(w), Upsert(g, RouteQn, wfile[w])) /\ Upsert(g, RouteQn, wfile[w]).edges = wbuf[w].edges
    BY <1>1, <1>2, <1>3, <1>q
  <2>3. "handles" \in Labels
    BY DEF Labels
  <2> HIDE DEF g
  <2> QED
    BY <2>1, <2>2, <2>3, WorkerStep
<1>6. CASE ExtractHandles(w)
  <2> DEFINE q1 == DefQn(wfile[w])
             gb == Link(g, q1, RouteQn, "HANDLES")
  <2>1. Goto(w, "take") /\ Worker(w) /\ Local(w, gb)
    BY <1>6 DEF ExtractHandles
  <2>4. q1 # NoQn /\ RouteQn # NoQn
    BY <1>q
  <2>6. gb = Link(g, q1, RouteQn, "HANDLES")
    OBVIOUS
  <2> HIDE DEF g, q1, gb
  <2>5. /\ Grows(g, gb) /\ gb.nodes = g.nodes
        /\ \A e \in gb.edges : e \in g.edges \/ (Live(g.nodes, e[1]) /\ Live(g.nodes, e[2]))
    <3>1. Joins(g, gb)
      BY <1>1, <2>4, <2>6, LinkJoins
    <3> QED
      BY <3>1 DEF Joins
  <2>2. /\ Grows(Buf(w), gb)
        /\ \A e \in gb.edges : e \in wbuf[w].edges \/ (Live(gb.nodes, e[1]) /\ Live(gb.nodes, e[2]))
    BY <1>1, <2>5 DEF g
  <2>3. "take" \in Labels
    BY DEF Labels
  <2> QED
    BY <2>1, <2>2, <2>3, WorkerStep
<1>7. CASE ResolveCalls(w)
  <2> DEFINE q1 == DefQn(wfile[w])
             q2 == DefQn(Src(w).calls)
  <2>1. PICK l \in {"synth", "take"} : Goto(w, l) /\ (l = "synth" => Has(main.nodes, q1))
    BY <1>7 DEF ResolveCalls
  <2>2. PICK gb : /\ Local(w, gb)
                  /\ \/ gb = g
                     \/ /\ gb = Insert(g, IdOf(main.nodes, q1), IdOf(main.nodes, q2), "CALLS")
                        /\ Has(main.nodes, q1) /\ Has(main.nodes, q2)
    BY <1>7 DEF ResolveCalls
  <2>3. q1 # NoQn /\ q2 # NoQn
    BY DEF DefQn, NoQn
  <2>4. /\ Grows(Buf(w), gb)
        /\ \A e \in gb.edges : e \in wbuf[w].edges \/ (Live(main.nodes, e[1]) /\ Live(main.nodes, e[2]))
    <3>1. CASE gb = g
      BY <1>1, <1>2, <3>1
    <3>2. CASE gb # g
      <4>1. Live(main.nodes, IdOf(main.nodes, q1)) /\ Live(main.nodes, IdOf(main.nodes, q2))
        BY <2>2, <2>3, <3>2, FoundLemma DEF IInv, BufInv, IsBuf
      <4> DEFINE a == IdOf(main.nodes, q1)
                 b == IdOf(main.nodes, q2)
      <4>2. gb = Insert(g, a, b, "CALLS")
        BY <2>2, <3>2
      <4> HIDE DEF g, a, b
      <4>3. Grows(g, gb) /\ \A e \in gb.edges : e \in g.edges \/ (e[1] = a /\ e[2] = b)
        BY <1>1, <4>2, InsertLemma, SMTT(60)
      <4>4. Live(main.nodes, a) /\ Live(main.nodes, b)
        BY <4>1 DEF a, b
      <4> QED
        BY <1>1, <4>3, <4>4 DEF g
    <3> QED
      BY <3>1, <3>2
  <2>5. Worker(w) /\ l \in Labels
    BY <1>7, <2>1 DEF ResolveCalls, Labels
  <2> HIDE DEF g
  <2> QED
    BY <2>1, <2>2, <2>4, <2>5, WorkerStep
<1>8. CASE ResolveSynth(w)
  <2> DEFINE gb == Upsert(g, SynthQn(w), None)
  <2>1. Goto(w, "edge") /\ Worker(w) /\ Local(w, gb) /\ wpc[w] = "synth" /\ pc = "work"
    BY <1>8 DEF ResolveSynth, Worker
  <2>2. SynthQn(w) \in QN \ {NoQn}
    BY <1>q DEF SynthQn
  <2>3. /\ Grows(Buf(w), gb) /\ gb.edges = wbuf[w].edges /\ Has(gb.nodes, SynthQn(w))
    BY <1>1, <1>3, <1>q, <2>2
  <2>4. Has(main.nodes, DefQn(wfile[w]))
    BY <2>1 DEF IInv, EndsInv
  <2>5. "edge" \in Labels
    BY DEF Labels
  <2> HIDE DEF g, gb
  <2> QED
    BY <2>1, <2>3, <2>4, <2>5, WorkerStep
<1>9. CASE ResolveEdge(w)
  <2>1. PICK t : Local(w, Insert(g, IdOf(main.nodes, DefQn(wfile[w])), IdOf(wbuf[w].nodes, SynthQn(w)), t))
    BY <1>9 DEF ResolveEdge
  <2> DEFINE a == IdOf(main.nodes, DefQn(wfile[w]))
             b == IdOf(wbuf[w].nodes, SynthQn(w))
             gb == Insert(g, a, b, t)
  <2>2. Goto(w, "take") /\ Worker(w) /\ wpc[w] = "edge" /\ pc = "work"
    BY <1>9 DEF ResolveEdge, Worker
  <2>3. SynthQn(w) \in QN \ {NoQn}
    BY <1>q DEF SynthQn
  <2>4. Live(main.nodes, a) /\ Live(g.nodes, b)
    BY <1>1, <1>q, <2>2, <2>3, FoundLemma DEF IInv, EndsInv, BufInv, IsBuf
  <2>9. gb = Insert(g, a, b, t)
    OBVIOUS
  <2> HIDE DEF g, a, b, gb
  <2>5. /\ Grows(g, gb) /\ gb.nodes = g.nodes
        /\ \A e \in gb.edges : e \in g.edges \/ (e[1] = a /\ e[2] = b)
    BY <1>1, <2>9, InsertLemma, SMTT(60)
  <2>6. \A e \in gb.edges : \A id \in {e[1], e[2]} :
          e \in wbuf[w].edges \/ Live(main.nodes, id) \/ Live(gb.nodes, id)
    BY <1>1, <2>4, <2>5
  <2>7. Grows(Buf(w), gb) /\ Local(w, gb)
    BY <2>1, <2>5 DEF g, gb, a, b
  <2>8. "take" \in Labels
    BY DEF Labels
  <2> QED
    BY <2>2, <2>6, <2>7, <2>8, WorkerStep
<1> QED
  BY <1>4, <1>5, <1>6, <1>7, <1>8, <1>9

LEMMA SerialActions ==
  ASSUME IInv, LoadNode \/ AddFile \/ \E f \in Files : InfraBinding(f) \/ K8sManifest(f)
  PROVE  IInv'
<1>1. IsBuf(main) /\ Attached(main) /\ TypeOK
  BY DEF IInv, BufInv, EdgeInv
<1> DEFINE Ok(gb) == Grows(main, gb) /\ Attached(gb) /\ IsBuf(gb)
<1>2. Ok(main)
  BY <1>1, GrowsSelf
<1>3. ASSUME NEW gb, Ok(gb), NEW qn \in QN \ {NoQn}, NEW file \in FileT
      PROVE  Ok(Upsert(gb, qn, file))
  <2>1. Grows(gb, Upsert(gb, qn, file)) /\ Attached(Upsert(gb, qn, file))
    BY <1>3, UpsertLemma, PassLemma
  <2> QED
    BY <1>1, <1>3, <2>1, GrowsTrans DEF Grows
<1>4. ASSUME NEW gb, Ok(gb), NEW q1 \in QN \ {NoQn}, NEW q2 \in QN \ {NoQn}, NEW t
      PROVE  Ok(Link(gb, q1, q2, t))
  <2>1. Grows(gb, Link(gb, q1, q2, t)) /\ Attached(Link(gb, q1, q2, t))
    BY <1>4, LinkLemma, PassLemma
  <2> QED
    BY <1>1, <1>4, <2>1, GrowsTrans DEF Grows
<1>5. Files \subseteq FileT /\ {InfraQn, TopicQn} \subseteq QN \ {NoQn}
      /\ \A f \in Files : FileQn(f) \in QN \ {NoQn} /\ ResourceQn(f) \in QN \ {NoQn}
  BY QnLemma DEF FileT
<1>6. CASE LoadNode
  <2>1. PICK qn \in ToLoad : main' = Upsert(main, qn, OwnerOf(qn, was))
    BY <1>6 DEF LoadNode
  <2>2. qn \in QN \ {NoQn} /\ OwnerOf(qn, was) \in FileT
    BY ReferenceLemma DEF ToLoad
  <2>3. Ok(main')
    BY <1>2, <1>3, <2>1, <2>2
  <2> HIDE DEF Ok
  <2>4. /\ pc = "load" /\ pc' = pc /\ phase' = phase
        /\ wbuf' = wbuf /\ shared' = shared /\ wpc' = wpc /\ wfile' = wfile
        /\ mw' = mw /\ mi' = mi /\ pend' = pend /\ minted' = minted
        /\ todo' = todo /\ cached' = cached /\ manifests' = manifests
    BY <1>6 DEF LoadNode, workers, merge, read
  <2> QED
    BY <1>1, <2>3, <2>4, SerialStep DEF Ok, TypeOK
<1>7. CASE AddFile
  <2>1. PICK f \in NoFileNode : main' = Upsert(main, FileQn(f), f)
    BY <1>7 DEF AddFile
  <2>2. f \in Files
    BY DEF NoFileNode, Changed
  <2>3. Ok(main')
    BY <1>2, <1>3, <1>5, <2>1, <2>2
  <2> HIDE DEF Ok
  <2>4. /\ pc = "files" /\ pc' = pc /\ phase' = phase
        /\ wbuf' = wbuf /\ shared' = shared /\ wpc' = wpc /\ wfile' = wfile
        /\ mw' = mw /\ mi' = mi /\ pend' = pend /\ minted' = minted
        /\ todo' = todo /\ cached' = cached /\ manifests' = manifests
    BY <1>7 DEF AddFile, workers, merge, read
  <2> QED
    BY <1>1, <2>3, <2>4, SerialStep DEF Ok, TypeOK
<1>8. ASSUME NEW f \in Files, InfraBinding(f) PROVE IInv'
  <2> DEFINE b1 == Upsert(main, InfraQn, f)
             b2 == IF Has(b1.nodes, TopicQn) THEN b1 ELSE Upsert(b1, TopicQn, f)
             b3 == Link(b2, TopicQn, InfraQn, "INFRA_MAPS")
  <2>1. main' = b3 \/ main' = main
    BY <1>8 DEF InfraBinding
  <2>2. Ok(b1)
    BY <1>2, <1>3, <1>5
  <2> HIDE DEF Ok, b1
  <2>3. Ok(b2)
    BY <1>3, <1>5, <2>2
  <2> HIDE DEF b2
  <2>4. Ok(main')
    BY <1>2, <1>4, <1>5, <2>1, <2>3
  <2>5. /\ pc = "late" /\ pc' = pc /\ phase' = phase
        /\ wbuf' = wbuf /\ shared' = shared /\ wpc' = wpc /\ wfile' = wfile
        /\ mw' = mw /\ mi' = mi /\ pend' = pend /\ minted' = minted
        /\ todo' \subseteq todo /\ cached' = cached /\ manifests' = manifests
    BY <1>8 DEF InfraBinding, workers, merge, read
  <2> QED
    BY <1>1, <2>4, <2>5, SerialStep DEF Ok, TypeOK
<1>9. ASSUME NEW f \in Files, K8sManifest(f) PROVE IInv'
  <2> DEFINE b1 == Upsert(main, ResourceQn(f), f)
             b2 == Link(b1, FileQn(f), ResourceQn(f), "DEFINES")
  <2>1. main' = b2 \/ main' = main
    BY <1>9 DEF K8sManifest
  <2>2. Ok(b1)
    BY <1>2, <1>3, <1>5
  <2> HIDE DEF Ok, b1
  <2>3. Ok(main')
    BY <1>2, <1>4, <1>5, <2>1, <2>2
  <2>4. /\ pc = "late" /\ pc' = pc /\ phase' = phase
        /\ wbuf' = wbuf /\ shared' = shared /\ wpc' = wpc /\ wfile' = wfile
        /\ mw' = mw /\ mi' = mi /\ pend' = pend /\ minted' = minted
        /\ todo' \subseteq todo /\ cached' = cached /\ manifests' \subseteq manifests \union {f}
    BY <1>9 DEF K8sManifest, workers, merge
  <2> QED
    BY <1>1, <2>3, <2>4, SerialStep DEF Ok, TypeOK
<1> QED
  BY <1>6, <1>7, <1>8, <1>9

\* The steps that leave the nodes and the workers' buffers alone
LEMMA LoadEdgesStep ==
  ASSUME IInv, LoadEdges
  PROVE  IInv'
<1>1. /\ pc = "load" /\ pc' = "loadEdges" /\ main' = main /\ phase' = phase
      /\ wbuf' = wbuf /\ shared' = shared /\ wpc' = wpc /\ wfile' = wfile
      /\ mw' = mw /\ mi' = mi /\ minted' = minted
      /\ todo' = todo /\ cached' = cached /\ manifests' = manifests
  BY DEF LoadEdges, workers, read
<1>2. ASSUME NEW e \in pend' PROVE Live(main.nodes, e[1]) /\ Live(main.nodes, e[2])
  <2>1. PICK d \in Reference(was) : e = <<IdOf(main.nodes, d[1]), IdOf(main.nodes, d[2]), d[3]>>
    BY <1>2 DEF LoadEdges
  <2>2. d[1] \in QN \ {NoQn} /\ d[2] \in QN \ {NoQn}
    BY ReferenceLemma
  <2>3. Has(main.nodes, d[1]) /\ Has(main.nodes, d[2])
    BY DEF LoadEdges, ToLoad, QnsOf
  <2>4. Live(main.nodes, IdOf(main.nodes, d[1])) /\ Live(main.nodes, IdOf(main.nodes, d[2]))
    BY <2>2, <2>3, FoundLemma DEF IInv, BufInv, IsBuf
  <2> QED
    BY <2>1, <2>4
<1>3. TypeOK' /\ BufInv' /\ EmptyInv' /\ MergedInv' /\ EndsInv'
  BY <1>1 DEF IInv, TypeOK, BufInv, EmptyInv, MergedInv, EndsInv
<1>4. WorkerIds' /\ MainIds'
  BY <1>1, SameIds DEF IInv, WorkerIds, MainIds, Unmerged
<1>5. EdgeInv'
  BY <1>1, <1>2 DEF IInv, EdgeInv, Known, Attached
<1> QED
  BY <1>1, <1>3, <1>4, <1>5 DEF IInv

LEMMA InsertPendingStep ==
  ASSUME IInv, InsertPending
  PROVE  IInv'
<1>1. /\ pc \in {"loadEdges", "mergeEdges"} /\ pc' = pc /\ phase' = phase
      /\ wbuf' = wbuf /\ shared' = shared /\ wpc' = wpc /\ wfile' = wfile
      /\ mw' = mw /\ mi' = mi /\ minted' = minted
      /\ todo' = todo /\ cached' = cached /\ manifests' = manifests
  BY DEF InsertPending, workers, read
<1>2. PICK e \in pend : main' = Insert(main, e[1], e[2], e[3]) /\ pend' = pend \ {e}
  BY DEF InsertPending
<1>3. /\ IsBuf(main) /\ IsBuf(main') /\ main'.nodes = main.nodes /\ main.next <= main'.next
      /\ \A d \in main'.edges : d \in main.edges \/ (d[1] = e[1] /\ d[2] = e[2])
  BY <1>2, InsertLemma, SMTT(60) DEF IInv, BufInv, Grows
<1>4. TypeOK' /\ BufInv' /\ EmptyInv' /\ MergedInv' /\ EndsInv'
  <2>1. TypeOK' /\ BufInv'
    BY <1>1, <1>3 DEF IInv, TypeOK, BufInv, IsBuf
  <2>2. EmptyInv' /\ MergedInv' /\ EndsInv'
    BY <1>1, <1>3 DEF IInv, EmptyInv, MergedInv, EndsInv
  <2> QED
    BY <2>1, <2>2
<1>5. WorkerIds'
  BY <1>1 DEF IInv, WorkerIds
<1>6. MainIds'
  <2>1. \A i \in Sure : main.nodes[i].id \in Nat
    BY <1>3, IdsNat DEF IsBuf, Sure
  <2>2. Below(main.next) => Below(main.next)'
    BY <1>1, <1>3, <2>1, SameIds, SMTT(60) DEF Below, IsBuf
  <2> QED
    BY <1>1, <1>3, <2>2, SameIds DEF IInv, MainIds, Unmerged
<1>7. EdgeInv'
  BY <1>1, <1>2, <1>3 DEF IInv, EdgeInv, Known, Attached
<1> QED
  BY <1>1, <1>4, <1>5, <1>6, <1>7 DEF IInv

LEMMA PhaseSteps ==
  ASSUME IInv, StartExtract \/ Joined \/ RegistryDone \/ Dump
  PROVE  IInv'
<1>1. /\ main' = main /\ wbuf' = wbuf /\ wfile' = wfile /\ minted' = minted /\ pend' = pend
      /\ cached' = cached /\ manifests' = manifests /\ now' = now
  BY DEF StartExtract, Joined, RegistryDone, Dump, workers, read, merge, inputs
<1>2. /\ shared' \in Nat /\ mw' \in Workers /\ mi' \in Nat
      /\ wpc' \in [Workers -> Labels]
      /\ todo' \subseteq Files
  <2>1. 1 \in Workers
    BY NumWorkersAssumption, SMTT(60) DEF Workers
  <2> QED
    BY <2>1, SMTT(60) DEF StartExtract, Joined, RegistryDone, Dump, workers, merge, IInv, TypeOK, BufInv, Labels, Changed
<1>3. /\ pc' \in {"work", "merge", "done"} /\ phase' \in {"extract", "resolve"}
      /\ pc' = "done" => pc = "late"
      /\ pc' = "merge" => pc = "work" /\ mi' = 1 /\ shared' = shared
      /\ pc' = "work" => /\ pc \in {"files", "registry"}
                         /\ wpc' = [w \in Workers |-> "take"]
                         /\ pc = "files" => shared' = main.next
                         /\ pc = "registry" => shared' = shared
  BY DEF StartExtract, Joined, RegistryDone, Dump, workers, merge, IInv, TypeOK
<1>4. \A w \in Workers : pc # "work" => wbuf[w].nodes = <<>> /\ wbuf[w].edges = {}
  BY <1>3 DEF IInv, EmptyInv
<1>5. TypeOK' /\ BufInv'
  BY <1>1, <1>2, <1>3 DEF IInv, TypeOK, BufInv
<1>6. EmptyInv' /\ EndsInv'
  BY <1>1, <1>3, <1>4 DEF EmptyInv, EndsInv
<1>7. WorkerIds'
  BY <1>1, <1>3, <1>4, NoIds DEF IInv, WorkerIds
<1>8. MainIds'
  <2>1. \A w \in Workers : pc # "work" => DOMAIN wbuf[w].nodes = {}
    <3>1. DOMAIN <<>> = {}
      BY SMTT(60)
    <3> QED
      BY <1>4, <3>1
  <2>2. Apart' /\ ChannelFirst' /\ Sure' = Sure
    BY <1>1, SameIds DEF IInv, MainIds
  <2>3. CASE pc' = "work"
    BY <1>1, <1>3, <2>1, <2>2, <2>3 DEF IInv, MainIds, Below
  <2>4. CASE pc' = "merge"
    BY <1>1, <1>3, <2>2, <2>4 DEF IInv, MainIds, Below, Unmerged, Free
  <2>5. CASE pc' = "done"
    BY <1>1, <1>3, <2>1, <2>2, <2>5 DEF IInv, MainIds, Below
  <2> QED
    BY <1>3, <2>3, <2>4, <2>5
<1>9. EdgeInv'
  BY <1>1 DEF IInv, EdgeInv, Known, Attached
<1>10. MergedInv'
  <2>1. \A w \in Workers : \A k \in DOMAIN wbuf[w].nodes : ~(k < 1)
    BY SMTT(60) DEF IInv, BufInv
  <2> QED
    BY <1>1, <1>2, <1>3, <2>1, SMTT(60) DEF MergedInv
<1> QED
  BY <1>1, <1>5, <1>6, <1>7, <1>8, <1>9, <1>10 DEF IInv

\* delete_by_file keeps the ids, and takes the edges with the nodes.
LEMMA PurgeStep ==
  ASSUME IInv, Purge
  PROVE  IInv'
<1> DEFINE fs == Changed \union Gone
           dead == {main.nodes[i].id : i \in {j \in DOMAIN main.nodes :
                                                main.nodes[j].qn # NoQn /\ main.nodes[j].file \in fs}}
<1>1. /\ pc = "loadEdges" /\ pc' = "files" /\ phase' = phase /\ pend = {} /\ pend' = pend
      /\ wbuf' = wbuf /\ shared' = shared /\ wpc' = wpc /\ wfile' = wfile
      /\ mw' = mw /\ mi' = mi /\ minted' = minted
      /\ todo' = todo /\ cached' = cached /\ manifests' = manifests
  BY DEF Purge, workers, read, merge
<1>2. IsBuf(main)
  BY DEF IInv, BufInv
<1>3. /\ main' = [nodes |-> main'.nodes, edges |-> main'.edges, next |-> main'.next]
      /\ main'.next = main.next
      /\ main'.nodes = [i \in DOMAIN main.nodes |-> IF main.nodes[i].file \in fs
                                                    THEN [main.nodes[i] EXCEPT !.qn = NoQn]
                                                    ELSE main.nodes[i]]
      /\ main'.edges = {e \in main.edges : e[1] \notin dead /\ e[2] \notin dead}
  BY <1>2 DEF Purge, DeleteByFiles, IsBuf
<1> HIDE DEF fs
<1>4. NoQn \in QN
  BY DEF NoQn, QN, Kinds
<1>5. \A i \in DOMAIN main.nodes : main.nodes[i] \in NodeT
  BY <1>2, SMTT(60) DEF IsBuf
<1>6. /\ DOMAIN main'.nodes = DOMAIN main.nodes
      /\ \A i \in DOMAIN main.nodes :
           /\ main'.nodes[i] \in NodeT /\ main'.nodes[i].id = main.nodes[i].id
           /\ main.nodes[i].file \notin fs => main'.nodes[i] = main.nodes[i]
  BY <1>3, <1>4, <1>5, SMTT(60) DEF NodeT
<1>7. main'.nodes \in Seq(NodeT)
  <2>1. Len(main.nodes) \in Nat /\ DOMAIN main.nodes = 1 .. Len(main.nodes)
    BY <1>2, SMTT(60) DEF IsBuf
  <2>2. main'.nodes \in [1 .. Len(main.nodes) -> NodeT]
    BY <1>3, <1>6, <2>1
  <2> QED
    BY <2>1, <2>2, SMTT(60)
<1>8. IsBuf(main')
  BY <1>2, <1>3, <1>7 DEF IsBuf
<1>9. TypeOK' /\ BufInv' /\ EmptyInv' /\ MergedInv' /\ EndsInv'
  <2>1. TypeOK' /\ BufInv'
    BY <1>1, <1>8 DEF IInv, TypeOK, BufInv, IsBuf
  <2>2. EmptyInv' /\ MergedInv' /\ EndsInv'
    BY <1>1 DEF IInv, EmptyInv, MergedInv, EndsInv
  <2> QED
    BY <2>1, <2>2
<1>10. WorkerIds'
  BY <1>1 DEF IInv, WorkerIds
<1>11. \A w \in Workers : wbuf[w].nodes = <<>> /\ wbuf[w].edges = {}
  BY <1>1 DEF IInv, EmptyInv
<1>12. MainIds'
  <2>1. ~minted /\ Sure = DOMAIN main.nodes /\ Sure' = DOMAIN main.nodes
    BY <1>1, <1>6 DEF IInv, MainIds, Sure
  <2>2. Below(main.next)' /\ Apart' /\ ChannelFirst'
    BY <1>1, <1>3, <1>6, <2>1 DEF IInv, MainIds, Below, Apart, ChannelFirst
  <2>3. \A w \in Workers : DOMAIN wbuf[w].nodes = {}
    <3>1. DOMAIN <<>> = {}
      BY SMTT(60)
    <3> QED
      BY <1>11, <3>1
  <2> QED
    BY <1>1, <2>1, <2>2, <2>3 DEF MainIds
<1>13. EdgeInv'
  <2>1. ASSUME NEW id, Live(main.nodes, id), id \notin dead PROVE Live(main'.nodes, id)
    BY <1>6, <2>1 DEF Live
  <2> HIDE DEF dead
  <2>2. Attached(main')
    BY <1>3, <2>1 DEF IInv, EdgeInv, Attached
  <2> QED
    BY <1>1, <1>11, <2>2 DEF EdgeInv
<1> QED
  BY <1>1, <1>9, <1>10, <1>12, <1>13 DEF IInv

\* The main buffer takes over one node of the present worker's buffer.
LEMMA MergeNodeStep ==
  ASSUME IInv, MergeNode
  PROVE  IInv'
<1> DEFINE sn == wbuf[mw].nodes[mi]
<1>1. /\ pc = "merge" /\ pc' = pc /\ phase' = phase /\ pend' = pend /\ mi' = mi + 1
      /\ wbuf' = wbuf /\ shared' = shared /\ wpc' = wpc /\ wfile' = wfile
      /\ mw' = mw /\ minted' = minted
      /\ todo' = todo /\ cached' = cached /\ manifests' = manifests
  BY DEF MergeNode, workers, read
<1>2. IsBuf(main) /\ mw \in Workers /\ mi \in Nat
  BY DEF IInv, BufInv, TypeOK
<1>3. mi \in DOMAIN wbuf[mw].nodes \/ mi = 0
  <2>1. wbuf[mw].nodes \in Seq(NodeT) /\ mi <= Len(wbuf[mw].nodes)
    BY <1>2 DEF MergeNode, IInv, BufInv
  <2> QED
    BY <1>2, <2>1, SMTT(60)
<1>4. mi # 0
  BY <1>1 DEF IInv, MergedInv
<1>5. sn \in NodeT /\ sn.qn # NoQn /\ sn.id \in Nat /\ sn.id < shared /\ sn.file \in FileT
  <2>1. sn \in NodeT /\ sn.qn # NoQn /\ sn.id < shared
    BY <1>2, <1>3, <1>4, SMTT(60) DEF IInv, BufInv, WorkerIds, IdsApart
  <2> QED
    BY <2>1 DEF NodeT
<1>6. main' = IF Has(main.nodes, sn.qn)
              THEN [main EXCEPT !.nodes[At(main.nodes, sn.qn)].file = sn.file]
              ELSE [main EXCEPT !.nodes = Append(main.nodes, sn), !.next = Bump(main.next, sn.id)]
  BY DEF MergeNode
<1> HIDE DEF sn
<1>7. /\ IsBuf(main') /\ main'.edges = main.edges /\ Has(main'.nodes, sn.qn)
      /\ DOMAIN main.nodes \subseteq DOMAIN main'.nodes
      /\ \A i \in DOMAIN main.nodes : /\ main'.nodes[i].id = main.nodes[i].id
                                      /\ main'.nodes[i].qn = main.nodes[i].qn
      /\ \A i \in DOMAIN main'.nodes \ DOMAIN main.nodes :
           i = Len(main.nodes) + 1 /\ main'.nodes[i].id = sn.id /\ main'.nodes[i].qn = sn.qn
  <2>1. CASE Has(main.nodes, sn.qn)
    <3>1. sn.qn \in QN
      BY <1>5 DEF NodeT
    <3>2. main' = Upsert(main, sn.qn, sn.file)
      BY <1>6, <2>1 DEF Upsert
    <3>3. Grows(main, main') /\ Has(main'.nodes, sn.qn) /\ main'.edges = main.edges
          /\ DOMAIN main'.nodes = DOMAIN main.nodes
      BY <1>2, <1>5, <2>1, <3>1, <3>2, UpsertLemma
    <3> QED
      BY <3>3 DEF Grows
  <2>2. CASE ~Has(main.nodes, sn.qn)
    <3>1. /\ main'.nodes = Append(main.nodes, sn) /\ main'.edges = main.edges
          /\ main'.next = Bump(main.next, sn.id)
          /\ main' = [nodes |-> main'.nodes, edges |-> main'.edges, next |-> main'.next]
      BY <1>2, <1>6, <2>2 DEF IsBuf
    <3>2. main'.next \in Nat
      BY <1>2, <1>5, <3>1, SMTT(60) DEF Bump, IsBuf
    <3>3. /\ main'.nodes \in Seq(NodeT)
          /\ Len(main.nodes) \in Nat
          /\ DOMAIN main.nodes = 1 .. Len(main.nodes) /\ DOMAIN main'.nodes = 1 .. Len(main.nodes) + 1
          /\ \A i \in 1 .. Len(main.nodes) : main'.nodes[i] = main.nodes[i]
          /\ main'.nodes[Len(main.nodes) + 1] = sn
      BY <1>2, <1>5, <3>1, SMTT(60) DEF IsBuf
    <3>4. IsBuf(main')
      BY <3>1, <3>2, <3>3 DEF IsBuf
    <3>5. Len(main.nodes) + 1 \in DOMAIN main'.nodes
      BY <3>3, SMTT(60)
    <3>6. \A i \in DOMAIN main'.nodes : i \in DOMAIN main.nodes \/ i = Len(main.nodes) + 1
      BY <3>3, SMTT(60)
    <3>7. DOMAIN main.nodes \subseteq DOMAIN main'.nodes
      BY <3>3, SMTT(60)
    <3> QED
      BY <3>1, <3>3, <3>4, <3>5, <3>6, <3>7 DEF Has
  <2> QED
    BY <2>1, <2>2
<1>8. /\ \A id : Live(main.nodes, id) => Live(main'.nodes, id)
      /\ \A qn : Has(main.nodes, qn) => Has(main'.nodes, qn)
  BY <1>7 DEF Live, Has
<1>9. TypeOK' /\ BufInv' /\ EmptyInv' /\ EndsInv'
  <2>1. TypeOK' /\ BufInv'
    BY <1>1, <1>2, <1>7, SMTT(60) DEF IInv, TypeOK, BufInv, IsBuf
  <2>2. EmptyInv' /\ EndsInv'
    BY <1>1 DEF EmptyInv, EndsInv
  <2> QED
    BY <2>1, <2>2
<1>10. WorkerIds'
  BY <1>1 DEF IInv, WorkerIds
<1>11. MainIds'
  <2>1. Below(shared) /\ Free(sn.id) /\ Apart /\ ChannelFirst
    BY <1>1, <1>2, <1>3, <1>4, SMTT(60) DEF IInv, MainIds, Unmerged, sn
  <2>2. /\ \A i \in Sure' : i \in Sure \/ i \in DOMAIN main'.nodes \ DOMAIN main.nodes
        /\ \A c \in DOMAIN main'.nodes \ Sure' :
             c \in DOMAIN main.nodes \ Sure \/ c \in DOMAIN main'.nodes \ DOMAIN main.nodes
        /\ Sure \subseteq DOMAIN main.nodes
    BY <1>1, <1>7 DEF Sure
  <2>3. Below(shared)'
    BY <1>1, <1>5, <1>7, <2>1, <2>2 DEF Below
  <2>4. Apart'
    BY <1>7, <2>1, <2>2, SMTT(60) DEF Free, Apart
  <2>5. ChannelFirst'
    <3>1. ASSUME NEW i \in Sure', NEW c \in DOMAIN main'.nodes \ Sure', main'.nodes[c].id = main'.nodes[i].id
          PROVE  c < i
      <4>1. CASE i \notin DOMAIN main.nodes /\ c \in DOMAIN main.nodes
        <5>1. i \in DOMAIN main'.nodes /\ main.nodes \in Seq(NodeT) /\ main'.nodes \in Seq(NodeT)
          BY <1>2, <1>7, <3>1 DEF Sure, IsBuf
        <5> QED
          BY <4>1, <5>1, AfterAll
      <4>2. CASE i \notin DOMAIN main.nodes /\ c \notin DOMAIN main.nodes
        BY <1>7, <2>2, <3>1, <4>2
      <4>3. CASE i \in DOMAIN main.nodes /\ c \notin DOMAIN main.nodes
        BY <1>7, <2>1, <2>2, <3>1, <4>3 DEF Free
      <4>4. CASE i \in DOMAIN main.nodes /\ c \in DOMAIN main.nodes
        BY <1>7, <2>1, <2>2, <3>1, <4>4 DEF ChannelFirst
      <4> QED
        BY <4>1, <4>2, <4>3, <4>4
    <3> QED
      BY <3>1 DEF ChannelFirst
  <2>6. ASSUME NEW w \in Workers, NEW k \in DOMAIN wbuf[w].nodes, Unmerged(w, k)'
        PROVE  Free(wbuf[w].nodes[k].id)'
    <3>1. k \in Nat
      BY SMTT(60) DEF IInv, BufInv
    <3>2. Unmerged(w, k) /\ ~(w = mw /\ k = mi)
      BY <1>1, <1>2, <2>6, <3>1, SMTT(60) DEF Unmerged, Workers
    <3>3. sn.id # wbuf[w].nodes[k].id
      BY <1>2, <1>3, <1>4, <3>2 DEF IInv, WorkerIds, IdsApart, sn
    <3>4. Free(wbuf[w].nodes[k].id)
      BY <3>2 DEF IInv, MainIds
    <3> QED
      BY <1>1, <1>7, <2>2, <3>3, <3>4 DEF Free
  <2> QED
    BY <1>1, <2>3, <2>4, <2>5, <2>6 DEF MainIds
<1>12. EdgeInv'
  BY <1>1, <1>7, <1>8 DEF IInv, EdgeInv, Known, Attached
<1>13. MergedInv'
  <2>1. ASSUME NEW k \in DOMAIN wbuf[mw].nodes, k < mi + 1
        PROVE  Has(main'.nodes, wbuf[mw].nodes[k].qn)
    <3>1. k \in Nat
      BY <1>2, SMTT(60) DEF IInv, BufInv
    <3>2. k < mi \/ k = mi
      BY <1>2, <2>1, <3>1, SMTT(60)
    <3> QED
      BY <1>1, <1>7, <1>8, <3>2 DEF IInv, MergedInv, sn
  <2> QED
    BY <1>1, <1>2, <2>1, SMTT(60) DEF MergedInv
<1> QED
  BY <1>1, <1>9, <1>10, <1>11, <1>12, <1>13 DEF IInv

LEMMA MergeEdgesStep ==
  ASSUME IInv, MergeEdges
  PROVE  IInv'
<1>1. /\ pc = "merge" /\ pc' = "mergeEdges" /\ main' = main /\ phase' = phase
      /\ wbuf' = wbuf /\ shared' = shared /\ wpc' = wpc /\ wfile' = wfile
      /\ mw' = mw /\ mi' = mi /\ minted' = minted
      /\ todo' = todo /\ cached' = cached /\ manifests' = manifests
  BY DEF MergeEdges, workers, read
<1>2. mw \in Workers /\ mi \in Nat /\ wbuf[mw].nodes \in Seq(NodeT) /\ mi > Len(wbuf[mw].nodes)
  BY DEF IInv, TypeOK, BufInv, MergeEdges
<1>3. \A k \in DOMAIN wbuf[mw].nodes : Has(main.nodes, wbuf[mw].nodes[k].qn)
  BY <1>1, <1>2, SMTT(60) DEF IInv, MergedInv
<1>4. ASSUME NEW id, Known(mw, id) PROVE Live(main.nodes, Remap(id))
  <2> DEFINE own == {i \in DOMAIN wbuf[mw].nodes : wbuf[mw].nodes[i].id = id}
  <2>1. CASE own = {}
    BY <1>4, <2>1 DEF Remap, Known
  <2>2. CASE own # {}
    <3>1. PICK k \in own : Remap(id) = IdOf(main.nodes, wbuf[mw].nodes[k].qn)
      BY <2>2 DEF Remap
    <3>2. wbuf[mw].nodes[k].qn # NoQn
      BY <1>2 DEF IInv, BufInv
    <3> QED
      BY <1>3, <3>1, <3>2, FoundLemma DEF IInv, BufInv, IsBuf
  <2> QED
    BY <2>1, <2>2
<1>5. ASSUME NEW e \in pend' PROVE Live(main.nodes, e[1]) /\ Live(main.nodes, e[2])
  <2>1. PICK d \in wbuf[mw].edges : e = <<Remap(d[1]), Remap(d[2]), d[3]>>
    BY <1>5 DEF MergeEdges
  <2>2. Known(mw, d[1]) /\ Known(mw, d[2])
    BY <1>2 DEF IInv, EdgeInv
  <2> QED
    BY <1>4, <2>1, <2>2
<1>6. TypeOK' /\ BufInv' /\ EmptyInv' /\ EndsInv'
  BY <1>1 DEF IInv, TypeOK, BufInv, EmptyInv, EndsInv
<1>7. WorkerIds' /\ MainIds'
  BY <1>1, SameIds DEF IInv, WorkerIds, MainIds, Unmerged
<1>8. EdgeInv'
  BY <1>1, <1>5 DEF IInv, EdgeInv, Known, Attached
<1>9. MergedInv'
  BY <1>1, <1>3 DEF MergedInv
<1> QED
  BY <1>1, <1>6, <1>7, <1>8, <1>9 DEF IInv

LEMMA MergeNextStep ==
  ASSUME IInv, MergeNext
  PROVE  IInv'
<1>1. /\ pc = "mergeEdges" /\ main' = main /\ phase' = phase /\ pend' = pend /\ mi' = 1
      /\ wbuf' = wbuf /\ shared' = shared /\ wpc' = wpc /\ wfile' = wfile
      /\ minted' = minted
      /\ todo' = todo /\ cached' = cached /\ manifests' = manifests
  BY DEF MergeNext, workers, read
<1>2. \/ pc' = "merge" /\ mw < NumWorkers /\ mw' = mw + 1
      \/ pc' = "sync" /\ mw' = mw
  BY DEF MergeNext
<1>3. mw \in Workers /\ mw' \in Workers
  BY <1>2, NumWorkersAssumption, SMTT(60) DEF IInv, TypeOK, Workers
<1>4. TypeOK' /\ BufInv' /\ EmptyInv' /\ EndsInv'
  BY <1>1, <1>2, <1>3 DEF IInv, TypeOK, BufInv, EmptyInv, EndsInv
<1>5. WorkerIds'
  BY <1>1 DEF IInv, WorkerIds
<1>6. MainIds'
  <2>1. \A w \in Workers : \A k \in DOMAIN wbuf[w].nodes : Unmerged(w, k)' => Unmerged(w, k)
    BY <1>1, <1>2, <1>3, SMTT(60) DEF Unmerged, Workers
  <2> QED
    BY <1>1, <1>2, <2>1, SameIds DEF IInv, MainIds
<1>7. EdgeInv'
  BY <1>1 DEF IInv, EdgeInv, Known, Attached
<1>8. MergedInv'
  <2>1. \A w \in Workers : \A k \in DOMAIN wbuf[w].nodes : ~(k < 1)
    BY SMTT(60) DEF IInv, BufInv
  <2> QED
    BY <1>1, <1>2, <1>3, <2>1, SMTT(60) DEF MergedInv
<1> QED
  BY <1>1, <1>4, <1>5, <1>6, <1>7, <1>8 DEF IInv

LEMMA SyncStep ==
  ASSUME IInv, Sync
  PROVE  IInv'
<1>1. /\ pc = "sync" /\ pc' \in {"registry", "late"} /\ phase' = phase /\ pend' = pend /\ mi' = mi /\ mw' = mw
      /\ main' = [main EXCEPT !.next = shared]
      /\ wbuf' = NoBuf /\ wfile' = [w \in Workers |-> None]
      /\ shared' = shared /\ wpc' = wpc /\ minted' = minted
      /\ todo' \subseteq Files /\ cached' = cached /\ manifests' = manifests
  BY DEF Sync, read, merge, Changed
<1>2. /\ main'.nodes = main.nodes /\ main'.edges = main.edges /\ main'.next = shared /\ IsBuf(main')
  BY <1>1 DEF IInv, BufInv, IsBuf, TypeOK
<1>3. \A w \in Workers : wbuf'[w].nodes = <<>> /\ wbuf'[w].edges = {}
  BY <1>1 DEF NoBuf, EmptyNodes
<1>4. wbuf' = [w \in Workers |-> [nodes |-> wbuf'[w].nodes, edges |-> wbuf'[w].edges]]
  BY <1>1, <1>3 DEF NoBuf, EmptyNodes
<1>5. BufInv'
  <2>1. <<>> \in Seq(NodeT) /\ DOMAIN <<>> = {}
    BY SMTT(60)
  <2>2. \A w \in Workers : wbuf'[w].nodes \in Seq(NodeT) /\ DOMAIN wbuf'[w].nodes = {}
    BY <1>3, <2>1
  <2>3. wpc' \in [Workers -> Labels] /\ wfile' \in [Workers -> FileT]
    BY <1>1 DEF IInv, BufInv, FileT
  <2> QED
    BY <1>2, <1>4, <2>2, <2>3 DEF BufInv
<1>6. TypeOK'
  BY <1>1, <1>2 DEF IInv, TypeOK
<1>7. EmptyInv' /\ WorkerIds' /\ EndsInv' /\ MergedInv'
  BY <1>1, <1>3, NoIds DEF EmptyInv, WorkerIds, EndsInv, MergedInv
<1>8. MainIds'
  <2>1. \A w \in Workers : DOMAIN wbuf'[w].nodes = {}
    <3>1. DOMAIN <<>> = {}
      BY SMTT(60)
    <3> QED
      BY <1>3, <3>1
  <2>2. Below(shared) /\ Apart' /\ ChannelFirst' /\ Sure' = Sure
    BY <1>1, <1>2, SameIds DEF IInv, MainIds
  <2>3. Below(shared)' /\ Below(main.next)'
    BY <1>1, <1>2, <2>2 DEF Below
  <2>4. shared <= shared
    BY SMTT(60) DEF IInv, TypeOK
  <2> QED
    BY <1>1, <1>2, <2>1, <2>2, <2>3, <2>4 DEF MainIds
<1>9. EdgeInv'
  BY <1>1, <1>2, <1>3 DEF IInv, EdgeInv, Attached
<1> QED
  BY <1>1, <1>5, <1>6, <1>7, <1>8, <1>9 DEF IInv

\* The registry pass adds edges, and at most one node, which it then records.
LEMMA RegistryStep ==
  ASSUME IInv, NEW f \in Files, Registry(f)
  PROVE  IInv'
<1>1. /\ pc = "registry" /\ pc' = pc /\ phase' = phase /\ pend' = pend /\ mi' = mi /\ mw' = mw
      /\ wbuf' = wbuf /\ wfile' = wfile /\ shared' = shared /\ wpc' = wpc
      /\ todo' \subseteq todo /\ cached' = cached /\ manifests' = manifests
  BY DEF Registry, workers, read, merge
<1> DEFINE emits == f \in cached /\ now[f].emits
           b1 == IF f \in cached THEN Link(main, FileQn(f), DefQn(f), "DEFINES") ELSE main
           b2 == IF emits THEN Upsert(b1, ChannelQn, None) ELSE b1
           from == IF Has(b2.nodes, DefQn(f)) THEN DefQn(f) ELSE FileQn(f)
           b3 == IF emits THEN Link(b2, from, ChannelQn, "EMITS") ELSE b2
<1>2. main' = b3 /\ minted' = (minted \/ (emits /\ ~Has(main.nodes, ChannelQn)))
  BY DEF Registry
<1>3. /\ FileQn(f) \in QN \ {NoQn} /\ DefQn(f) \in QN \ {NoQn} /\ ChannelQn \in QN \ {NoQn}
      /\ None \in FileT
  BY QnLemma DEF FileT
<1>4. IsBuf(main) /\ Attached(main)
  BY DEF IInv, BufInv, EdgeInv
<1>5. minted' \in BOOLEAN
  BY <1>2
<1> HIDE DEF emits
<1>6. Grows(main, b1) /\ Attached(b1) /\ IsBuf(b1) /\ b1.nodes = main.nodes
  <2>1. CASE f \in cached
    <3>1. b1 = Link(main, FileQn(f), DefQn(f), "DEFINES")
      BY <2>1
    <3>2. Grows(main, b1) /\ b1.nodes = main.nodes
      BY <1>3, <1>4, <3>1, LinkLemma
    <3>3. Attached(b1)
      BY <1>3, <1>4, <3>1, PassLemma
    <3> QED
      BY <3>2, <3>3 DEF Grows
  <2>2. CASE f \notin cached
    BY <1>4, <2>2, GrowsSelf
  <2> QED
    BY <2>1, <2>2
<1> HIDE DEF b1
<1>7. /\ Grows(main, b2) /\ Attached(b2) /\ IsBuf(b2)
      /\ ~(emits /\ ~Has(main.nodes, ChannelQn)) => DOMAIN b2.nodes = DOMAIN main.nodes
      /\ \A i \in DOMAIN b2.nodes \ DOMAIN main.nodes : b2.nodes[i].qn = ChannelQn
  <2>1. CASE emits
    <3>1. b2 = Upsert(b1, ChannelQn, None)
      BY <2>1
    <3>2. /\ Grows(b1, b2)
          /\ Has(b1.nodes, ChannelQn) => DOMAIN b2.nodes = DOMAIN b1.nodes
          /\ \A i \in DOMAIN b2.nodes \ DOMAIN b1.nodes : b2.nodes[i].qn = ChannelQn
      BY <1>3, <1>6, <3>1, UpsertLemma, SMTT(60)
    <3>3. Attached(b2) /\ IsBuf(b2)
      BY <1>3, <1>6, <3>1, <3>2, PassLemma DEF Grows
    <3> QED
      BY <1>4, <1>6, <2>1, <3>2, <3>3, GrowsTrans
  <2>2. CASE ~emits
    BY <1>6, <2>2
  <2> QED
    BY <2>1, <2>2
<1>8. from \in QN \ {NoQn}
  BY <1>3
<1> HIDE DEF b2, from
<1>9. /\ Grows(main, b3) /\ Attached(b3)
      /\ ~(emits /\ ~Has(main.nodes, ChannelQn)) => DOMAIN b3.nodes = DOMAIN main.nodes
      /\ \A i \in DOMAIN b3.nodes \ DOMAIN main.nodes : b3.nodes[i].qn = ChannelQn
  <2>1. CASE emits
    <3>1. Grows(b2, b3) /\ Attached(b3) /\ b3.nodes = b2.nodes
      BY <1>3, <1>7, <1>8, <2>1, LinkLemma, PassLemma
    <3> QED
      BY <1>4, <1>7, <2>1, <3>1, GrowsTrans
  <2>2. CASE ~emits
    BY <1>7, <2>2
  <2> QED
    BY <2>1, <2>2
<1> HIDE DEF b3
<1>10. /\ Grows(main, main') /\ Attached(main') /\ IsBuf(main')
       /\ minted => minted'
       /\ minted' = minted \/ ~Has(main.nodes, ChannelQn)
       /\ minted' \/ DOMAIN main'.nodes = DOMAIN main.nodes
       /\ \A i \in DOMAIN main'.nodes \ DOMAIN main.nodes : main'.nodes[i].qn = ChannelQn
  <2>1. CASE emits /\ ~Has(main.nodes, ChannelQn)
    BY <1>2, <1>9, <2>1 DEF Grows
  <2>2. CASE ~(emits /\ ~Has(main.nodes, ChannelQn))
    <3>1. minted' = minted
      BY <1>2, <2>2 DEF IInv, TypeOK
    <3> QED
      BY <1>2, <1>9, <2>2, <3>1 DEF Grows
  <2> QED
    BY <2>1, <2>2
<1>11. TypeOK' /\ BufInv'
  BY <1>1, <1>5, <1>10 DEF IInv, TypeOK, BufInv, IsBuf
<1>12. EmptyInv' /\ WorkerIds' /\ EndsInv' /\ MergedInv'
  <2>1. EmptyInv' /\ WorkerIds'
    BY <1>1 DEF IInv, EmptyInv, WorkerIds
  <2>2. EndsInv' /\ MergedInv'
    BY <1>1 DEF EndsInv, MergedInv
  <2> QED
    BY <2>1, <2>2
<1>13. MainIds'
  <2>1. \A w \in Workers : DOMAIN wbuf[w].nodes = {}
    <3>1. DOMAIN <<>> = {}
      BY SMTT(60)
    <3> QED
      BY <1>1, <3>1 DEF IInv, EmptyInv
  <2>2. /\ \A i \in DOMAIN main.nodes : /\ i \in DOMAIN main'.nodes
                                      /\ main'.nodes[i].id = main.nodes[i].id
                                      /\ main'.nodes[i].qn = main.nodes[i].qn
        /\ \A i \in DOMAIN main'.nodes \ DOMAIN main.nodes :
             main'.nodes[i].qn = ChannelQn /\ main.next <= main'.nodes[i].id
    BY <1>10 DEF Grows
  <2>3. /\ Sure' \subseteq Sure /\ Sure \subseteq DOMAIN main.nodes
        /\ \A c \in DOMAIN main'.nodes \ Sure' : c \in DOMAIN main.nodes => c \in DOMAIN main.nodes \ Sure
    BY <1>10, <2>2 DEF Sure, Has
  <2>4. Below(shared) /\ Apart /\ ChannelFirst /\ shared <= main.next
    BY <1>1 DEF IInv, MainIds
  <2>5. /\ shared \in Nat /\ main.next \in Nat /\ main'.next \in Nat /\ main.next <= main'.next
        /\ \A i \in DOMAIN main'.nodes : main'.nodes[i].id \in Nat
    BY <1>4, <1>10, IdsNat DEF IInv, TypeOK, IsBuf, Grows
  <2>6. Below(shared)' /\ Apart'
    BY <1>1, <2>2, <2>3, <2>4 DEF Below, Apart
  <2>7. \A i \in Sure' : main'.nodes[i].id < shared
    BY <1>1, <2>6 DEF Below
  <2>8. ASSUME NEW i \in Sure', NEW c \in DOMAIN main'.nodes \ Sure', main'.nodes[c].id = main'.nodes[i].id
        PROVE  c < i
    <3>1. i \in DOMAIN main.nodes /\ i \in Sure
      BY <2>3, <2>8
    <3>2. CASE c \in DOMAIN main.nodes
      BY <2>2, <2>3, <2>4, <2>8, <3>1, <3>2 DEF ChannelFirst
    <3>3. CASE c \notin DOMAIN main.nodes
      <4>1. main.next <= main'.nodes[c].id /\ main'.nodes[i].id < shared /\ i \in DOMAIN main'.nodes
        BY <2>2, <2>7, <2>8, <3>1, <3>3
      <4> QED
        BY <2>4, <2>5, <2>8, <4>1, SMTT(60)
    <3> QED
      BY <3>2, <3>3
  <2>9. ChannelFirst'
    BY <2>8 DEF ChannelFirst
  <2>10. shared <= main'.next
    BY <2>4, <2>5, SMTT(60)
  <2> QED
    BY <1>1, <2>1, <2>6, <2>9, <2>10 DEF MainIds
<1>14. EdgeInv'
  <2>1. \A w \in Workers : wbuf[w].edges = {}
    BY <1>1 DEF IInv, EmptyInv
  <2> QED
    <3>1. \A id : Live(main.nodes, id) => Live(main'.nodes, id)
      BY <1>10, LiveStays
    <3> QED
      BY <1>1, <1>10, <2>1, <3>1 DEF IInv, EdgeInv
<1> QED
  BY <1>11, <1>12, <1>13, <1>14 DEF IInv

LEMMA NextIInv == IInv /\ [Next]_vars => IInv'
<1> SUFFICES ASSUME IInv, [Next]_vars PROVE IInv'
  OBVIOUS
<1>1. CASE LoadNode \/ AddFile \/ \E f \in Files : InfraBinding(f) \/ K8sManifest(f)
  BY <1>1, SerialActions
<1>2. CASE StartExtract \/ Joined \/ RegistryDone \/ Dump
  BY <1>2, PhaseSteps
<1>3. CASE LoadEdges
  BY <1>3, LoadEdgesStep
<1>4. CASE InsertPending
  BY <1>4, InsertPendingStep
<1>5. CASE Purge
  BY <1>5, PurgeStep
<1>6. CASE MergeNode
  BY <1>6, MergeNodeStep
<1>7. CASE MergeEdges
  BY <1>7, MergeEdgesStep
<1>8. CASE MergeNext
  BY <1>8, MergeNextStep
<1>9. CASE Sync
  BY <1>9, SyncStep
<1>10. ASSUME NEW f \in Files, Registry(f) PROVE IInv'
  BY <1>10, RegistryStep
<1>11. ASSUME NEW w \in Workers, Take(w) PROVE IInv'
  BY <1>11, TakeStep
<1>12. ASSUME NEW w \in Workers,
              \/ ExtractDef(w) \/ ExtractRoute(w) \/ ExtractHandles(w)
              \/ ResolveCalls(w) \/ ResolveSynth(w) \/ ResolveEdge(w)
       PROVE  IInv'
  BY <1>12, WorkersStep
<1>13. CASE UNCHANGED vars
  <2>1. /\ main' = main /\ wbuf' = wbuf /\ shared' = shared /\ wpc' = wpc /\ wfile' = wfile
        /\ pc' = pc /\ phase' = phase /\ mw' = mw /\ mi' = mi /\ pend' = pend /\ minted' = minted
        /\ todo' = todo /\ cached' = cached /\ manifests' = manifests /\ now' = now
    BY <1>13 DEF vars, inputs, workers, read, merge
  <2>2. TypeOK' /\ BufInv' /\ EmptyInv'
    BY <2>1 DEF IInv, TypeOK, BufInv, EmptyInv
  <2>3. WorkerIds' /\ MergedInv' /\ MainIds'
    BY <2>1, SameIds DEF IInv, WorkerIds, MergedInv, MainIds, Unmerged
  <2>4. EdgeInv' /\ EndsInv'
    BY <2>1 DEF IInv, EdgeInv, EndsInv, Known, Attached, SynthQn, Src
  <2> QED
    BY <2>1, <2>2, <2>3, <2>4 DEF IInv
<1> QED
  BY <1>1, <1>2, <1>3, <1>4, <1>5, <1>6, <1>7, <1>8, <1>9, <1>10, <1>11, <1>12, <1>13 DEF Next

\* NodeIdsUnique: whatever the number of workers, and however their
\* allocations from shared_ids interleave, cbm_gbuf_merge never brings an id
\* into the main buffer that is taken, unless a Channel node was created
\* behind the shared counter's back.
THEOREM IdsUnique == Spec => []NodeIdsUnique
<1>1. IInv => NodeIdsUnique
  BY DEF IInv, MainIds, Apart, Sure, NodeIdsUnique
<1> QED
  BY <1>1, InitIInv, NextIInv, PTL DEF Spec

\* EdgesAttached: no pass, no purge and no merge leaves an edge in the main
\* buffer without a node at either end.
THEOREM EdgesStayAttached == Spec => []EdgesAttached
<1>1. IInv => EdgesAttached
  BY DEF IInv, EdgeInv, Attached, Live, EdgesAttached
<1> QED
  BY <1>1, InitIInv, NextIInv, PTL DEF Spec
-----------------------------------------------------------------------------
(* The dumped edges *)

ContentT ==
  [here : BOOLEAN, def : BOOLEAN, handles : BOOLEAN, emits : BOOLEAN,
   uses : {None, "route", "decorator"}, calls : Files \union {None},
   late : {None, "infra", "k8s"}]

\* The edges a file may account for
DefinesEdge(f) == <<FileQn(f), DefQn(f), "DEFINES">>
HandlesEdge(f) == <<DefQn(f), RouteQn, "HANDLES">>
EmitsEdge(f) == <<IF now[f].def THEN DefQn(f) ELSE FileQn(f), ChannelQn, "EMITS">>
RouteEdge(f) == <<DefQn(f), RouteQn, "CALLS">>
DecoratorEdge(f) == <<DefQn(f), DecoratorQn, "DECORATES">>
CallsEdge(f) == <<DefQn(f), DefQn(now[f].calls), "CALLS">>
InfraEdge == <<TopicQn, InfraQn, "INFRA_MAPS">>
ResourceEdge(f) == <<FileQn(f), ResourceQn(f), "DEFINES">>

\* What the run saw of a file
Read(f) == f \in Changed => f \in cached
Defined(f) == Read(f) /\ now[f].def
Calls(f) == now[f].calls \in Files \ {f} /\ Defined(now[f].calls)

Called(f, r) ==
  \/ Defined(f) /\ r = DefinesEdge(f)
  \/ Defined(f) /\ now[f].handles /\ r = HandlesEdge(f)
  \/ Read(f) /\ now[f].emits /\ r = EmitsEdge(f)
  \/ Defined(f) /\ now[f].uses = "route" /\ r = RouteEdge(f)
  \/ Defined(f) /\ now[f].uses = "decorator" /\ r = DecoratorEdge(f)
  \/ Defined(f) /\ Calls(f) /\ r = CallsEdge(f)
  \/ Read(f) /\ now[f].late = "infra" /\ r = InfraEdge
  \/ now[f].late = "k8s" /\ (f \in Changed => f \in manifests) /\ r = ResourceEdge(f)

InputInv ==
  /\ mode \in {"full", "incr"}
  /\ now \in [Files -> Contents]
  /\ was \in [Files -> Contents \union {Absent}]
  /\ mode = "full" => \A f \in Files : was[f] = Absent

\* The contents of a run's files are contents, before and now.
LEMMA Inputs ==
  ASSUME InputInv
  PROVE  /\ \A f \in Files : now[f] \in ContentT /\ was[f] \in ContentT
         /\ \A f \in Files : (now[f].here \/ now[f] = Absent) /\ (was[f].here \/ was[f] = Absent)
<1>1. Absent \in ContentT
  BY SMTT(60) DEF Absent, ContentT
<1>2. \A c \in Contents : c \in ContentT /\ (c.here \/ c = Absent)
  BY ContentsAssumption DEF ContentT
<1> QED
  BY <1>1, <1>2 DEF InputInv

\* The edges of a file by cases
LEMMA EdgeCases ==
  ASSUME NEW f \in Files, NEW c \in ContentT, NEW tree, NEW r
  PROVE  r \in EdgesOf(f, c, tree) <=>
           \/ c.def /\ r = <<FileQn(f), DefQn(f), "DEFINES">>
           \/ c.def /\ c.handles /\ r = <<DefQn(f), RouteQn, "HANDLES">>
           \/ c.emits /\ r = <<IF c.def THEN DefQn(f) ELSE FileQn(f), ChannelQn, "EMITS">>
           \/ c.def /\ c.uses = "route" /\ r = <<DefQn(f), RouteQn, "CALLS">>
           \/ c.def /\ c.uses = "decorator" /\ r = <<DefQn(f), DecoratorQn, "DECORATES">>
           \/ c.def /\ c.calls \in Files \ {f} /\ tree[c.calls].def /\ r = <<DefQn(f), DefQn(c.calls), "CALLS">>
           \/ c.late = "infra" /\ r = <<TopicQn, InfraQn, "INFRA_MAPS">>
           \/ c.late = "k8s" /\ r = <<FileQn(f), ResourceQn(f), "DEFINES">>
<1> DEFINE S == {e \in {<<DefQn(f), DefQn(g), "CALLS">> : g \in Files} :
                   c.def /\ c.calls \notin {None, f} /\ e[2] = DefQn(c.calls) /\ tree[c.calls].def}
<1>1. r \in S <=> /\ c.def /\ c.calls \in Files \ {f} /\ tree[c.calls].def
                  /\ r = <<DefQn(f), DefQn(c.calls), "CALLS">>
  <2>1. c.calls \in Files \union {None}
    BY DEF ContentT
  <2>2. ASSUME r \in S
        PROVE  /\ c.def /\ c.calls \in Files \ {f} /\ tree[c.calls].def
               /\ r = <<DefQn(f), DefQn(c.calls), "CALLS">>
    <3>1. PICK g \in Files : r = <<DefQn(f), DefQn(g), "CALLS">>
      BY <2>2
    <3>2. r[2] = DefQn(g)
      BY <3>1
    <3> QED
      BY <2>1, <2>2, <3>1, <3>2
  <2>3. ASSUME c.def /\ c.calls \in Files \ {f} /\ tree[c.calls].def,
               r = <<DefQn(f), DefQn(c.calls), "CALLS">>
        PROVE  r \in S
    <3>1. r[2] = DefQn(c.calls)
      BY <2>3
    <3>2. c.calls # None
      BY <2>3, FilesAssumption
    <3> QED
      BY <2>3, <3>1, <3>2
  <2> QED
    BY <2>2, <2>3
<1>2. r \in EdgesOf(f, c, tree) <=>
        \/ r \in {e \in {<<FileQn(f), DefQn(f), "DEFINES">>} : c.def}
        \/ r \in {e \in {<<DefQn(f), RouteQn, "HANDLES">>} : c.def /\ c.handles}
        \/ r \in {e \in {<<IF c.def THEN DefQn(f) ELSE FileQn(f), ChannelQn, "EMITS">>} : c.emits}
        \/ r \in {e \in {<<DefQn(f), RouteQn, "CALLS">>} : c.def /\ c.uses = "route"}
        \/ r \in {e \in {<<DefQn(f), DecoratorQn, "DECORATES">>} : c.def /\ c.uses = "decorator"}
        \/ r \in S
        \/ r \in {e \in {<<TopicQn, InfraQn, "INFRA_MAPS">>} : c.late = "infra"}
        \/ r \in {e \in {<<FileQn(f), ResourceQn(f), "DEFINES">>} : c.late = "k8s"}
  BY DEF EdgesOf
<1> HIDE DEF S
<1> QED
  BY <1>1, <1>2

\* The tree as the run saw it
LEMMA SeenFields ==
  ASSUME InputInv, NEW f \in Files
  PROVE  /\ Seen[f] \in ContentT
         /\ Seen[f].def <=> Defined(f)
         /\ Defined(f) => Seen[f].handles = now[f].handles /\ Seen[f].uses = now[f].uses
                          /\ Seen[f].calls = now[f].calls
         /\ Seen[f].emits <=> Read(f) /\ now[f].emits
         /\ Seen[f].late = "infra" <=> Read(f) /\ now[f].late = "infra"
         /\ Seen[f].late = "k8s" <=> now[f].late = "k8s" /\ (f \in Changed => f \in manifests)
<1>1. now[f] \in ContentT
  BY Inputs
<1>2. CASE f \notin Changed
  <2>1. Seen[f] = now[f]
    BY <1>2 DEF Seen
  <2> QED
    BY <1>1, <1>2, <2>1, SMTT(60) DEF Read, Defined, ContentT
<1>3. CASE f \in Changed /\ f \in cached
  <2>1. Seen[f] = [now[f] EXCEPT !.late = IF now[f].late # "k8s" THEN now[f].late
                                          ELSE IF f \in manifests THEN "k8s" ELSE None]
    BY <1>3 DEF Seen
  <2> QED
    BY <1>1, <1>3, <2>1, SMTT(60) DEF Read, Defined, ContentT, None
<1>4. CASE f \in Changed /\ f \notin cached
  <2> DEFINE late == IF now[f].late # "k8s" THEN None ELSE IF f \in manifests THEN "k8s" ELSE None
             c == [Absent EXCEPT !.here = TRUE]
  <2>0. ~c.def /\ ~c.emits /\ c.late = None
    BY SMTT(60) DEF Absent
  <2>1. c \in ContentT
    <3>1. Absent \in ContentT
      BY SMTT(60) DEF Absent, ContentT
    <3>2. ASSUME NEW d \in ContentT PROVE [d EXCEPT !.here = TRUE] \in ContentT
      BY DEF ContentT
    <3> QED
      BY <3>1, <3>2
  <2> HIDE DEF c
  <2>2. Seen[f] = [c EXCEPT !.late = late]
    BY <1>4, <2>0 DEF Seen, c
  <2>3. late \in {None, "k8s"} /\ (late = "k8s" <=> now[f].late = "k8s" /\ f \in manifests)
    BY DEF None
  <2> HIDE DEF late
  <2>4. Seen[f] \in ContentT
    BY <2>1, <2>2, <2>3, SMTT(60) DEF ContentT
  <2>5. ~Read(f) /\ ~Defined(f)
    BY <1>4 DEF Read, Defined
  <2>6. ~Seen[f].def /\ ~Seen[f].emits /\ Seen[f].late = late
    BY <2>0, <2>1, <2>2, SMTT(60) DEF ContentT
  <2>7. None # "infra" /\ "k8s" # "infra"
    BY DEF None
  <2> QED
    BY <1>4, <2>3, <2>4, <2>5, <2>6, <2>7
<1> QED
  BY <1>2, <1>3, <1>4

\* The edges that a file accounts for in the tree as the run saw it
LEMMA CalledFor ==
  ASSUME InputInv, NEW f \in Files, NEW r
  PROVE  r \in EdgesOf(f, Seen[f], Seen) <=> Called(f, r)
<1>1. \A g \in Files : Seen[g].def <=> Defined(g)
  BY SeenFields
<1>2. Defined(f) => Read(f) /\ now[f].def
  BY DEF Defined
<1>3. Read(f) /\ ~Defined(f) => ~now[f].def
  BY DEF Defined
<1> QED
  <2> DEFINE c == Seen[f]
  <2>1. /\ c \in ContentT
        /\ c.def <=> Defined(f)
        /\ Defined(f) => c.handles = now[f].handles /\ c.uses = now[f].uses /\ c.calls = now[f].calls
        /\ c.emits <=> Read(f) /\ now[f].emits
        /\ c.late = "infra" <=> Read(f) /\ now[f].late = "infra"
        /\ c.late = "k8s" <=> now[f].late = "k8s" /\ (f \in Changed => f \in manifests)
    BY SeenFields
  <2> HIDE DEF c
  <2>2. r \in EdgesOf(f, c, Seen) <=>
          \/ c.def /\ r = <<FileQn(f), DefQn(f), "DEFINES">>
          \/ c.def /\ c.handles /\ r = <<DefQn(f), RouteQn, "HANDLES">>
          \/ c.emits /\ r = <<IF c.def THEN DefQn(f) ELSE FileQn(f), ChannelQn, "EMITS">>
          \/ c.def /\ c.uses = "route" /\ r = <<DefQn(f), RouteQn, "CALLS">>
          \/ c.def /\ c.uses = "decorator" /\ r = <<DefQn(f), DecoratorQn, "DECORATES">>
          \/ c.def /\ c.calls \in Files \ {f} /\ Seen[c.calls].def /\ r = <<DefQn(f), DefQn(c.calls), "CALLS">>
          \/ c.late = "infra" /\ r = <<TopicQn, InfraQn, "INFRA_MAPS">>
          \/ c.late = "k8s" /\ r = <<FileQn(f), ResourceQn(f), "DEFINES">>
    BY <2>1, EdgeCases, SMTT(60)
  <2>3. c.emits => (IF c.def THEN DefQn(f) ELSE FileQn(f)) = (IF now[f].def THEN DefQn(f) ELSE FileQn(f))
    BY <1>2, <1>3, <2>1
  <2>4. c.def /\ c.calls \in Files \ {f} /\ Seen[c.calls].def <=> Defined(f) /\ Calls(f)
    BY <1>1, <2>1 DEF Calls
  <2>5. c.def => DefQn(c.calls) = DefQn(now[f].calls)
    BY <2>1
  <2> QED
    BY <2>1, <2>2, <2>3, <2>4, <2>5
       DEF Called, DefinesEdge, HandlesEdge, EmitsEdge, RouteEdge, DecoratorEdge, CallsEdge, InfraEdge, ResourceEdge, c

\* The edges of that tree are those that some file calls for.
LEMMA CalledReference ==
  ASSUME InputInv, NEW r
  PROVE  r \in Reference(Seen) <=> \E f \in Files : Called(f, r)
BY CalledFor DEF Reference

\* The names are distinct.
LEMMA Names ==
  /\ \A f, g : DefQn(f) = DefQn(g) => f = g
  /\ \A f, g : DefQn(f) # FileQn(g) /\ DefQn(f) # ResourceQn(g)
  /\ \A f : DefQn(f) \notin {RouteQn, DecoratorQn, ChannelQn, InfraQn, TopicQn, NoQn}
  /\ \A f : FileQn(f) \notin {RouteQn, DecoratorQn, ChannelQn, InfraQn, TopicQn, NoQn}
  /\ \A f : ResourceQn(f) \notin {RouteQn, DecoratorQn, ChannelQn, InfraQn, TopicQn, NoQn}
  /\ ChannelQn \notin {RouteQn, DecoratorQn, InfraQn, TopicQn, NoQn}
<1>1. \A f, g : DefQn(f) = DefQn(g) => f = g
  BY DEF DefQn
<1>2. \A f, g : DefQn(f) # FileQn(g) /\ DefQn(f) # ResourceQn(g)
  BY DEF DefQn, FileQn, ResourceQn
<1>3. \A f : DefQn(f) \notin {RouteQn, DecoratorQn, ChannelQn, InfraQn, TopicQn, NoQn}
  BY DEF DefQn, RouteQn, DecoratorQn, ChannelQn, InfraQn, TopicQn, NoQn
<1>4. \A f : FileQn(f) \notin {RouteQn, DecoratorQn, ChannelQn, InfraQn, TopicQn, NoQn}
  BY DEF FileQn, RouteQn, DecoratorQn, ChannelQn, InfraQn, TopicQn, NoQn
<1>5. \A f : ResourceQn(f) \notin {RouteQn, DecoratorQn, ChannelQn, InfraQn, TopicQn, NoQn}
  BY DEF ResourceQn, RouteQn, DecoratorQn, ChannelQn, InfraQn, TopicQn, NoQn
<1>6. ChannelQn \notin {RouteQn, DecoratorQn, InfraQn, TopicQn, NoQn}
  BY DEF ChannelQn, RouteQn, DecoratorQn, InfraQn, TopicQn, NoQn
<1> QED
  BY <1>1, <1>2, <1>3, <1>4, <1>5, <1>6

\* What a run sees only grows.
LEMMA SeenGrows ==
  ASSUME InputInv, InputInv', was' = was, now' = now,
         cached \subseteq cached', manifests \subseteq manifests'
  PROVE  Reference(Seen) \subseteq Reference(Seen)'
<1>1. Changed' = Changed
  BY DEF Changed
<1>2. \A f : Read(f) => Read(f)'
  BY <1>1 DEF Read
<1>3. \A f : Defined(f) => Defined(f)'
  BY <1>2 DEF Defined
<1>4. \A f : Calls(f) => Calls(f)'
  BY <1>3 DEF Calls
<1>5. \A f : EmitsEdge(f)' = EmitsEdge(f) /\ CallsEdge(f)' = CallsEdge(f)
  BY DEF EmitsEdge, CallsEdge
<1>6. ASSUME NEW f \in Files, NEW r, Called(f, r) PROVE Called(f, r)'
  BY <1>1, <1>2, <1>3, <1>4, <1>5, <1>6 DEF Called
<1>7. \A r : r \in Reference(Seen) => \E f \in Files : Called(f, r)
  BY CalledReference
<1>8. \A r : (\E f \in Files : Called(f, r)') => r \in Reference(Seen)'
  <2>1. ASSUME NEW r PROVE (\E f \in Files : Called(f, r)') => r \in Reference(Seen)'
    <3>1. (r \in Reference(Seen) <=> \E f \in Files : Called(f, r))'
      BY CalledReference, PTL
    <3> QED
      BY <3>1
  <2> QED
    BY <2>1
<1> QED
  BY <1>6, <1>7, <1>8

\* The definition nodes of the previous graph
LEMMA WasDefs ==
  ASSUME InputInv
  PROVE  /\ \A f \in Files : was[f].def => DefQn(f) \in QnsOf(was)
         /\ \A f : DefQn(f) \in QnsOf(was) => f \in Files /\ was[f].def
<1>1. \A f \in Files : was[f] \in ContentT
  BY Inputs
<1>2. ASSUME NEW f \in Files, was[f].def PROVE DefQn(f) \in QnsOf(was)
  <2> DEFINE r == <<FileQn(f), DefQn(f), "DEFINES">>
  <2>1. r \in EdgesOf(f, was[f], was)
    BY <1>1, <1>2, EdgeCases
  <2>2. r \in Reference(was) /\ r[2] = DefQn(f)
    BY <2>1 DEF Reference
  <2> QED
    BY <2>2 DEF QnsOf
<1>3. ASSUME NEW f, NEW r \in Reference(was), DefQn(f) \in {r[1], r[2]}
      PROVE  f \in Files /\ was[f].def
  <2>1. PICK g \in Files : r \in EdgesOf(g, was[g], was)
    BY DEF Reference
  <2> DEFINE c == was[g]
  <2>2. c \in ContentT
    BY <1>1
  <2> HIDE DEF c
  <2>3. \/ c.def /\ r = <<FileQn(g), DefQn(g), "DEFINES">>
        \/ c.def /\ c.handles /\ r = <<DefQn(g), RouteQn, "HANDLES">>
        \/ c.emits /\ r = <<IF c.def THEN DefQn(g) ELSE FileQn(g), ChannelQn, "EMITS">>
        \/ c.def /\ c.uses = "route" /\ r = <<DefQn(g), RouteQn, "CALLS">>
        \/ c.def /\ c.uses = "decorator" /\ r = <<DefQn(g), DecoratorQn, "DECORATES">>
        \/ c.def /\ c.calls \in Files \ {g} /\ was[c.calls].def /\ r = <<DefQn(g), DefQn(c.calls), "CALLS">>
        \/ c.late = "infra" /\ r = <<TopicQn, InfraQn, "INFRA_MAPS">>
        \/ c.late = "k8s" /\ r = <<FileQn(g), ResourceQn(g), "DEFINES">>
    BY <2>1, <2>2, EdgeCases DEF c
  <2>4. \/ c.def /\ DefQn(f) = DefQn(g)
        \/ c.def /\ c.calls \in Files /\ was[c.calls].def /\ DefQn(f) = DefQn(c.calls)
    BY <1>3, <2>3, Names, SMTT(60)
  <2> QED
    BY <2>4, Names DEF c
<1>4. \A f : DefQn(f) \in QnsOf(was) => f \in Files /\ was[f].def
  BY <1>3, Names DEF QnsOf
<1> QED
  BY <1>2, <1>4

\* A file that is neither changed nor gone is as it was.
LEMMA Unchanged ==
  ASSUME InputInv, NEW f \in Files, f \notin Changed \union Gone
  PROVE  now[f] = was[f] /\ Read(f)
<1>1. f \notin Changed /\ f \notin Gone
  OBVIOUS
<1>2. now[f].here => now[f] = was[f]
  BY <1>1 DEF Changed
<1>3. was[f].here => now[f].here
  BY <1>1 DEF Gone
<1>4. (now[f].here \/ now[f] = Absent) /\ (was[f].here \/ was[f] = Absent)
  BY Inputs
<1> QED
  BY <1>1, <1>2, <1>3, <1>4 DEF Read

\* The files that nodes of the previous graph are filed under
LEMMA Owners ==
  /\ \A f \in Files : \A tree : /\ OwnerOf(FileQn(f), tree) = f
                                /\ OwnerOf(DefQn(f), tree) = f
  /\ \A tree : \A q \in {InfraQn, TopicQn} : (\E f \in Files : tree[f].late = "infra") =>
       OwnerOf(q, tree) \in Files /\ tree[OwnerOf(q, tree)].late = "infra"
<1>1. ASSUME NEW f \in Files, NEW tree, NEW q, q[2] = f PROVE OwnerOf(q, tree) = f
  <2>1. f # None
    BY FilesAssumption
  <2>2. (CHOOSE g \in {f} : TRUE) = f
    OBVIOUS
  <2> QED
    BY <1>1, <2>1, <2>2 DEF OwnerOf
<1>2. \A f : FileQn(f)[2] = f /\ DefQn(f)[2] = f
  BY DEF FileQn, DefQn
<1>3. ASSUME NEW tree, NEW q \in {InfraQn, TopicQn}, \E f \in Files : tree[f].late = "infra"
      PROVE  OwnerOf(q, tree) \in Files /\ tree[OwnerOf(q, tree)].late = "infra"
  <2> DEFINE S == {f \in Files : tree[f].late = "infra"}
  <2>1. q[2] = None
    BY SMTT(60) DEF InfraQn, TopicQn
  <2>2. S # {}
    BY <1>3
  <2>3. OwnerOf(q, tree) = CHOOSE f \in S : TRUE
    BY <2>1, <2>2 DEF OwnerOf
  <2>4. (CHOOSE f \in S : TRUE) \in S
    BY <2>2
  <2> QED
    BY <2>3, <2>4
<1> QED
  BY <1>1, <1>2, <1>3

\* An edge of the previous graph that keeps both its nodes is one that the
\* files that stay call for.
LEMMA Survives ==
  ASSUME InputInv, NEW r \in Reference(was),
         OwnerOf(r[1], was) \notin Changed \union Gone,
         OwnerOf(r[2], was) \notin Changed \union Gone
  PROVE  r \in Reference(Seen)
<1>1. PICK g \in Files : r \in EdgesOf(g, was[g], was)
  BY DEF Reference
<1> DEFINE c == was[g]
<1>2. \A f \in Files : was[f] \in ContentT
  BY Inputs
<1>3. \/ c.def /\ r = <<FileQn(g), DefQn(g), "DEFINES">>
      \/ c.def /\ c.handles /\ r = <<DefQn(g), RouteQn, "HANDLES">>
      \/ c.emits /\ r = <<IF c.def THEN DefQn(g) ELSE FileQn(g), ChannelQn, "EMITS">>
      \/ c.def /\ c.uses = "route" /\ r = <<DefQn(g), RouteQn, "CALLS">>
      \/ c.def /\ c.uses = "decorator" /\ r = <<DefQn(g), DecoratorQn, "DECORATES">>
      \/ c.def /\ c.calls \in Files \ {g} /\ was[c.calls].def /\ r = <<DefQn(g), DefQn(c.calls), "CALLS">>
      \/ c.late = "infra" /\ r = <<TopicQn, InfraQn, "INFRA_MAPS">>
      \/ c.late = "k8s" /\ r = <<FileQn(g), ResourceQn(g), "DEFINES">>
  BY <1>1, <1>2, EdgeCases
<1> HIDE DEF c
<1>4. ASSUME NEW f \in Files, NEW q, OwnerOf(q, was) \notin Changed \union Gone, q \in {FileQn(f), DefQn(f)}
      PROVE  now[f] = was[f] /\ Read(f) /\ f \notin Changed
  BY <1>4, Owners, Unchanged
<1>5. CASE c.late = "infra" /\ r = <<TopicQn, InfraQn, "INFRA_MAPS">>
  <2> DEFINE f == OwnerOf(r[1], was)
  <2>1. f \in Files /\ was[f].late = "infra"
    BY <1>5, Owners DEF c
  <2>2. now[f] = was[f] /\ Read(f)
    BY <2>1, Unchanged
  <2> HIDE DEF f
  <2>3. Called(f, r)
    BY <1>5, <2>1, <2>2 DEF Called, InfraEdge
  <2> QED
    BY <2>1, <2>3, CalledReference
<1>6. CASE ~(c.late = "infra" /\ r = <<TopicQn, InfraQn, "INFRA_MAPS">>)
  <2>1. r[1] \in {FileQn(g), DefQn(g)}
    BY <1>3, <1>6, SMTT(60)
  <2>2. now[g] = c /\ Read(g) /\ g \notin Changed
    BY <1>4, <2>1 DEF c
  <2>3. ASSUME c.calls \in Files, r[2] = DefQn(c.calls), was[c.calls].def
        PROVE  Defined(c.calls)
    BY <1>4, <2>3 DEF Defined
  <2>4. c.def => Defined(g)
    BY <2>2 DEF Defined
  <2>5. CASE c.def /\ c.calls \in Files \ {g} /\ was[c.calls].def /\ r = <<DefQn(g), DefQn(c.calls), "CALLS">>
    <3>1. r[2] = DefQn(c.calls)
      BY <2>5
    <3>2. Defined(g) /\ Calls(g) /\ r = CallsEdge(g)
      BY <2>2, <2>3, <2>4, <2>5, <3>1 DEF Calls, CallsEdge
    <3> QED
      BY <3>2 , CalledReference DEF Called
  <2>6. CASE ~(c.def /\ c.calls \in Files \ {g} /\ was[c.calls].def /\ r = <<DefQn(g), DefQn(c.calls), "CALLS">>)
    <3>1. Called(g, r)
      BY <1>3, <1>6, <2>2, <2>4, <2>6
         DEF Called, DefinesEdge, HandlesEdge, EmitsEdge, RouteEdge, DecoratorEdge, ResourceEdge
    <3> QED
      BY <3>1, CalledReference
  <2> QED
    BY <2>5, <2>6
<1> QED
  BY <1>5, <1>6

\* The first node list is a part of the second, but for the files.
Keeps(m, n) ==
  /\ DOMAIN m \subseteq DOMAIN n
  /\ \A i \in DOMAIN m : n[i].id = m[i].id /\ n[i].qn = m[i].qn

\* The node that an id stands for, in a node list and for a worker: a worker's
\* own nodes hide those of the main buffer, as they do for Remap.
Is(nodes, id, q) == \E i \in DOMAIN nodes : nodes[i].id = id /\ nodes[i].qn = q
Without(nodes, id) == \A i \in DOMAIN nodes : nodes[i].id # id

EdgeIs(nodes, e, r) == Is(nodes, e[1], r[1]) /\ Is(nodes, e[2], r[2]) /\ e[3] = r[3]

EndIs(w, id, q) ==
  /\ q # ChannelQn
  /\ Is(wbuf[w].nodes, id, q) \/ (Is(main.nodes, id, q) /\ Without(wbuf[w].nodes, id))

LocalIs(w, e, r) == EndIs(w, e[1], r[1]) /\ EndIs(w, e[2], r[2]) /\ e[3] = r[3]

\* The edges of worker w are still to be merged.
Ahead(w) ==
  \/ pc = "work"
  \/ pc = "merge" /\ mw <= w
  \/ pc = "mergeEdges" /\ mw < w

\* The reference edge r is on its way to the dump.
Carried(r) ==
  \/ \E e \in main.edges \union pend : EdgeIs(main.nodes, e, r)
  \/ \E w \in Workers : Ahead(w) /\ \E e \in wbuf[w].edges : LocalIs(w, e, r)

Loading == pc \in {"load", "loadEdges"}
Tree == IF Loading THEN was ELSE Seen
Busy(f, ls) == \E w \in Workers : wfile[w] = f /\ wpc[w] \in ls

\* What the phases leave behind
PhaseInv ==
  /\ pc \notin {"loadEdges", "mergeEdges"} => pend = {}
  /\ \A e \in pend : e = <<e[1], e[2], e[3]>>
  /\ cached \subseteq Changed /\ todo \subseteq Changed
  /\ manifests \subseteq {f \in Changed : now[f].late = "k8s"}
  /\ pc \in {"load", "loadEdges", "files", "registry"} => phase = "extract"
  /\ pc \in {"late", "done"} => phase = "resolve"
  /\ pc \in {"load", "loadEdges", "files"} => cached = {} /\ manifests = {}
  /\ \A w \in Workers :
       /\ wpc[w] \in {"def", "route", "handles"} => phase = "extract"
       /\ wpc[w] \in {"calls", "synth", "edge"} => phase = "resolve"
       /\ wpc[w] \notin {"take", "done"} => wfile[w] \in cached
       /\ pc # "work" => wpc[w] = "done"
       /\ pc = "work" /\ wpc[w] = "done" => todo = {}

\* The nodes of the previous run's graph, each filed under its owner
LoadInv ==
  /\ Loading => \A i \in DOMAIN main.nodes :
       /\ main.nodes[i].qn \in QnsOf(was)
       /\ main.nodes[i].file = OwnerOf(main.nodes[i].qn, was)
  /\ pc = "loadEdges" => \A q \in QnsOf(was) : Has(main.nodes, q)

\* The File nodes are there from the first parallel phase on.
FilesInv == pc \notin {"load", "loadEdges", "files"} => \A f \in Changed : Has(main.nodes, FileQn(f))

\* A definition node is there if there is a reason, and not otherwise.
DefsTrue ==
  /\ \A f \in FileT : Has(main.nodes, DefQn(f)) => f \in Files /\ (IF Loading THEN was[f].def ELSE Defined(f))
  /\ \A w \in Workers : \A f \in FileT : Has(wbuf[w].nodes, DefQn(f)) => f \in cached /\ now[f].def

DefsThere ==
  ~Loading => \A f \in Files : Defined(f) /\ ~Busy(f, {"def"}) =>
    \/ Has(main.nodes, DefQn(f))
    \/ phase = "extract" /\ \E w \in Workers : Ahead(w) /\ Has(wbuf[w].nodes, DefQn(f))

\* A worker on its way to an edge has a reason and its own nodes for it, and
\* none for a Channel.
ReadyInv ==
  \A w \in Workers :
    /\ wpc[w] \in {"route", "handles"} =>
         Src(w).def /\ Src(w).handles /\ Has(wbuf[w].nodes, DefQn(wfile[w]))
    /\ wpc[w] = "handles" => Has(wbuf[w].nodes, RouteQn)
    /\ wpc[w] \in {"synth", "edge"} => Src(w).uses # None
    /\ ~Has(wbuf[w].nodes, ChannelQn)

\* No edge is in a buffer that the sources do not call for.
SoundInv ==
  /\ \A e \in main.edges \union pend : \E r \in Reference(Tree) : EdgeIs(main.nodes, e, r)
  /\ \A w \in Workers : \A e \in wbuf[w].edges : \E r \in Reference(Seen) : LocalIs(w, e, r)

\* The passes that make an edge of file f have been over the file.
Extracted(f) == ~Busy(f, {"def", "route", "handles"})
Registered(f) == phase = "resolve" \/ (pc = "registry" /\ f \notin todo)
Resolved(f, ls) == phase = "resolve" /\ (pc = "work" => f \notin todo /\ ~Busy(f, ls))
Bound(f) == mode = "full" /\ (pc = "done" \/ (pc = "late" /\ f \notin todo))

\* Every edge is on its way that a file calls for and whose pass is over.
FileComplete(f) ==
  /\ now[f].def /\ now[f].handles /\ Extracted(f) => Carried(HandlesEdge(f))
  /\ now[f].def /\ Registered(f) => Carried(DefinesEdge(f))
  /\ now[f].emits /\ Registered(f) => Carried(EmitsEdge(f))
  /\ now[f].def /\ Calls(f) /\ Resolved(f, {"calls"}) => Carried(CallsEdge(f))
  /\ now[f].def /\ now[f].uses = "route" /\ Resolved(f, {"calls", "synth", "edge"}) => Carried(RouteEdge(f))
  /\ now[f].def /\ now[f].uses = "decorator" /\ Resolved(f, {"calls", "synth", "edge"}) => Carried(DecoratorEdge(f))
  /\ now[f].late = "infra" /\ Bound(f) => Carried(InfraEdge)

CompleteInv ==
  ~Loading => /\ \A f \in cached : FileComplete(f)
              /\ \A f \in manifests : Carried(ResourceEdge(f))

GInv ==
  /\ InputInv /\ PhaseInv /\ LoadInv /\ FilesInv /\ DefsTrue /\ DefsThere /\ ReadyInv
  /\ SoundInv /\ CompleteInv

\* Keeping nodes is reflexive, follows from growth, and keeps what ids stand for.
LEMMA KeepsSelf == ASSUME NEW m PROVE Keeps(m, m)
BY DEF Keeps

LEMMA GrowsKeeps ==
  ASSUME NEW g, NEW h, Grows(g, h)
  PROVE  Keeps(g.nodes, h.nodes)
BY DEF Grows, Keeps

LEMMA KeepsHas ==
  ASSUME NEW m, NEW n, Keeps(m, n)
  PROVE  /\ \A q : Has(m, q) => Has(n, q)
         /\ \A id, q : Is(m, id, q) => Is(n, id, q)
         /\ \A e, r : EdgeIs(m, e, r) => EdgeIs(n, e, r)
<1>1. \A q : Has(m, q) => Has(n, q)
  BY DEF Keeps, Has
<1>2. \A id, q : Is(m, id, q) => Is(n, id, q)
  BY DEF Keeps, Is
<1> QED
  BY <1>1, <1>2 DEF EdgeIs

\* The id of a node that is found by its name stands for the node.
LEMMA IdIs ==
  ASSUME NEW nodes, NEW q, Has(nodes, q)
  PROVE  Is(nodes, IdOf(nodes, q), q)
BY DEF Has, At, IdOf, Is

\* An edge between two nodes found by their names
LEMMA FoundEdge ==
  ASSUME NEW nodes, NEW q1, NEW q2, NEW t, Has(nodes, q1), Has(nodes, q2)
  PROVE  EdgeIs(nodes, <<IdOf(nodes, q1), IdOf(nodes, q2), t>>, <<q1, q2, t>>)
BY IdIs DEF EdgeIs

\* cbm_gbuf_insert_edge, and what linking two names adds
LEMMA InsertEdge ==
  ASSUME NEW gb, IsBuf(gb), NEW a, NEW b, NEW t
  PROVE  Insert(gb, a, b, t).edges = gb.edges \union {<<a, b, t>>}
BY DEF Insert, IsBuf

\* A pass that links two names adds at most the edge between them, and adds it
\* if both are there.
LEMMA LinkEdges ==
  ASSUME NEW gb, IsBuf(gb), NEW q1, NEW q2, NEW t
  PROVE  /\ gb.edges \subseteq Link(gb, q1, q2, t).edges
         /\ Link(gb, q1, q2, t).nodes = gb.nodes
         /\ \A e \in Link(gb, q1, q2, t).edges : e \in gb.edges \/
              (Has(gb.nodes, q1) /\ Has(gb.nodes, q2) /\ EdgeIs(gb.nodes, e, <<q1, q2, t>>))
         /\ Has(gb.nodes, q1) /\ Has(gb.nodes, q2) =>
              \E e \in Link(gb, q1, q2, t).edges : EdgeIs(gb.nodes, e, <<q1, q2, t>>)
<1> DEFINE l == Link(gb, q1, q2, t)
           e1 == <<IdOf(gb.nodes, q1), IdOf(gb.nodes, q2), t>>
<1>1. CASE Has(gb.nodes, q1) /\ Has(gb.nodes, q2)
  <2>1. l.edges = gb.edges \union {e1}
    BY <1>1, InsertEdge, SMTT(60) DEF Link
  <2>2. l.nodes = gb.nodes
    BY <1>1 DEF Link, Insert, IsBuf
  <2>3. EdgeIs(gb.nodes, e1, <<q1, q2, t>>)
    BY <1>1, FoundEdge
  <2> HIDE DEF l, e1
  <2> QED
    BY <1>1, <2>1, <2>2, <2>3 DEF l
<1>2. CASE ~(Has(gb.nodes, q1) /\ Has(gb.nodes, q2))
  <2>1. l = gb
    BY <1>2 DEF Link
  <2> HIDE DEF l
  <2> QED
    BY <1>2, <2>1 DEF l
<1> QED
  BY <1>1, <1>2

\* The dump writes an edge's end as the node the id stands for.
LEMMA DumpedIs ==
  ASSUME IInv, pc = "late", NEW id, NEW q, q # NoQn, minted => q # ChannelQn, Is(main.nodes, id, q)
  PROVE  DumpedAs(main, id) = q
<1>1. PICK i \in DOMAIN main.nodes : main.nodes[i].id = id /\ main.nodes[i].qn = q
  BY DEF Is
<1> DEFINE slots == {j \in DOMAIN main.nodes : /\ main.nodes[j].qn # NoQn
                                               /\ main.nodes[j].id = id
                                               /\ id < main.next}
<1>2. i \in Sure /\ id < main.next
  BY <1>1 DEF Sure, IInv, MainIds, Below
<1>3. i \in slots
  BY <1>1, <1>2
<1>4. \A j \in DOMAIN main.nodes : j \in Nat
  BY IdsNat DEF IInv, BufInv, IsBuf
<1>5. ASSUME NEW j \in slots PROVE j <= i
  <2>1. j \in DOMAIN main.nodes /\ main.nodes[j].id = main.nodes[i].id
    BY <1>1
  <2>2. j < i \/ j = i
    BY <1>2, <2>1 DEF IInv, MainIds, Apart, ChannelFirst
  <2> QED
    BY <1>4, <2>1, <2>2, SMTT(60)
<1>6. ASSUME NEW k \in slots, \A j \in slots : j <= k PROVE k = i
  <2>1. i <= k /\ k <= i
    BY <1>3, <1>5, <1>6
  <2> QED
    BY <1>4, <2>1, SMTT(60)
<1>7. (CHOOSE k \in slots : \A j \in slots : j <= k) = i
  BY <1>3, <1>5, <1>6
<1>8. DumpedAs(main, id) = main.nodes[CHOOSE k \in slots : \A j \in slots : j <= k].qn
  BY <1>3 DEF DumpedAs
<1> QED
  BY <1>1, <1>7, <1>8

\* What is on its way stays on its way while the workers' buffers stay.
LEMMA CarriedStays ==
  ASSUME Keeps(main.nodes, main'.nodes), wbuf' = wbuf,
         main.edges \union pend \subseteq main'.edges \union pend',
         \A w \in Workers : Ahead(w) => Ahead(w)'
  PROVE  \A r : Carried(r) => Carried(r)'
<1>1. /\ \A id, q : Is(main.nodes, id, q) => Is(main'.nodes, id, q)
      /\ \A e, r : EdgeIs(main.nodes, e, r) => EdgeIs(main'.nodes, e, r)
  BY KeepsHas
<1>2. \A w, id, q : EndIs(w, id, q) => EndIs(w, id, q)'
  BY <1>1 DEF EndIs
<1>3. \A w, e, r : LocalIs(w, e, r) => LocalIs(w, e, r)'
  BY <1>2 DEF LocalIs
<1> QED
  BY <1>1, <1>3 DEF Carried

\* The two edges whose ends depend on the file's content
LEMMA SameEdges ==
  ASSUME now' = now, NEW f
  PROVE  /\ \A r : r = EmitsEdge(f) /\ Carried(r)' => Carried(EmitsEdge(f))'
         /\ \A r : r = CallsEdge(f) /\ Carried(r)' => Carried(CallsEdge(f))'
         /\ \A r : r = EmitsEdge(f) /\ Carried(EmitsEdge(f)) => Carried(r)
         /\ \A r : r = CallsEdge(f) /\ Carried(CallsEdge(f)) => Carried(r)
<1>1. EmitsEdge(f)' = EmitsEdge(f) /\ CallsEdge(f)' = CallsEdge(f)
  BY DEF EmitsEdge, CallsEdge
<1>2. \A r : r = EmitsEdge(f) /\ Carried(r)' => Carried(EmitsEdge(f))'
  BY <1>1 DEF Carried, LocalIs, EndIs
<1>3. \A r : r = CallsEdge(f) /\ Carried(r)' => Carried(CallsEdge(f))'
  BY <1>1 DEF Carried, LocalIs, EndIs
<1> QED
  BY <1>2, <1>3

\* A step that ends a pass over a file leaves the edge of that pass on its way.
LEMMA FileStays ==
  ASSUME now' = now, NEW f, FileComplete(f), \A r : Carried(r) => Carried(r)',
         now[f].def /\ now[f].handles /\ Extracted(f)' => Extracted(f) \/ Carried(HandlesEdge(f))',
         now[f].def /\ Registered(f)' => Registered(f) \/ Carried(DefinesEdge(f))',
         now[f].emits /\ Registered(f)' => Registered(f) \/ \A r : r = EmitsEdge(f) => Carried(r)',
         now[f].def /\ Calls(f)' /\ Resolved(f, {"calls"})' =>
           (Calls(f) /\ Resolved(f, {"calls"})) \/ \A r : r = CallsEdge(f) => Carried(r)',
         now[f].def /\ Resolved(f, {"calls", "synth", "edge"})' =>
           \/ Resolved(f, {"calls", "synth", "edge"})
           \/ /\ now[f].uses = "route" => Carried(RouteEdge(f))'
              /\ now[f].uses = "decorator" => Carried(DecoratorEdge(f))',
         now[f].late = "infra" /\ Bound(f)' => Bound(f) \/ Carried(InfraEdge)'
  PROVE  FileComplete(f)'
<1>1. (now[f].def /\ now[f].handles /\ Extracted(f) => Carried(HandlesEdge(f)))'
  BY DEF FileComplete
<1>2. (now[f].def /\ Registered(f) => Carried(DefinesEdge(f)))'
  BY DEF FileComplete
<1>3. (now[f].emits /\ Registered(f) => Carried(EmitsEdge(f)))'
  <2>1. PICK r : r = EmitsEdge(f)
    OBVIOUS
  <2> QED
    BY <2>1, SameEdges DEF FileComplete
<1>4. (now[f].def /\ Calls(f) /\ Resolved(f, {"calls"}) => Carried(CallsEdge(f)))'
  <2>1. PICK r : r = CallsEdge(f)
    OBVIOUS
  <2> QED
    BY <2>1, SameEdges DEF FileComplete
<1>5. (now[f].def /\ now[f].uses = "route" /\ Resolved(f, {"calls", "synth", "edge"}) => Carried(RouteEdge(f)))'
  BY DEF FileComplete
<1>6. (now[f].def /\ now[f].uses = "decorator" /\ Resolved(f, {"calls", "synth", "edge"}) => Carried(DecoratorEdge(f)))'
  BY DEF FileComplete
<1>7. (now[f].late = "infra" /\ Bound(f) => Carried(InfraEdge))'
  BY DEF FileComplete
<1> QED
  BY <1>1, <1>2, <1>3, <1>4, <1>5, <1>6, <1>7 DEF FileComplete

\* A step that leaves the workers and their buffers alone keeps the nodes.
LEMMA NodesStay ==
  ASSUME DefsTrue, DefsThere, ReadyInv, now' = now, was' = was,
         wbuf' = wbuf, wpc' = wpc, wfile' = wfile, cached' = cached, phase' = phase,
         ~Loading, ~Loading', Keeps(main.nodes, main'.nodes),
         \A f \in FileT : Has(main'.nodes, DefQn(f)) => Has(main.nodes, DefQn(f)) \/ (f \in Files /\ Defined(f)),
         \A w \in Workers : Ahead(w) => Ahead(w)'
  PROVE  DefsTrue' /\ DefsThere' /\ ReadyInv'
<1>1. Changed' = Changed
  BY DEF Changed
<1>2. \A f : Defined(f)' <=> Defined(f)
  BY <1>1 DEF Defined, Read
<1>3. \A q : Has(main.nodes, q) => Has(main'.nodes, q)
  BY KeepsHas
<1>4. DefsTrue'
  BY <1>2 DEF DefsTrue
<1>5. \A f : Busy(f, {"def"})' <=> Busy(f, {"def"})
  BY DEF Busy
<1>6. DefsThere'
  BY <1>2, <1>3, <1>5 DEF DefsThere
<1>7. ReadyInv'
  BY DEF ReadyInv, Src
<1> QED
  BY <1>4, <1>6, <1>7

\* A step that leaves the workers' buffers alone adds true edges only.
LEMMA SoundStays ==
  ASSUME SoundInv, wbuf' = wbuf, Keeps(main.nodes, main'.nodes),
         Reference(Tree) \subseteq Reference(Tree)', Reference(Seen) \subseteq Reference(Seen)',
         \A e \in main'.edges \union pend' :
           e \in main.edges \union pend \/ \E r \in Reference(Tree)' : EdgeIs(main'.nodes, e, r)
  PROVE  SoundInv'
<1>1. /\ \A id, q : Is(main.nodes, id, q) => Is(main'.nodes, id, q)
      /\ \A e, r : EdgeIs(main.nodes, e, r) => EdgeIs(main'.nodes, e, r)
  BY KeepsHas
<1>2. \A w, id, q : EndIs(w, id, q) => EndIs(w, id, q)'
  BY <1>1 DEF EndIs
<1>3. \A w, e, r : LocalIs(w, e, r) => LocalIs(w, e, r)'
  BY <1>2 DEF LocalIs
<1>4. \A e \in main'.edges \union pend' : \E r \in Reference(Tree)' : EdgeIs(main'.nodes, e, r)
  BY <1>1 DEF SoundInv
<1>5. \A w \in Workers : \A e \in wbuf'[w].edges : \E r \in Reference(Seen)' : LocalIs(w, e, r)'
  BY <1>3 DEF SoundInv
<1> QED
  BY <1>4, <1>5 DEF SoundInv

\* What the run saw of the files is a matter of the caches.
LEMMA SeenSame ==
  ASSUME was' = was, now' = now, cached' = cached, manifests' = manifests
  PROVE  /\ Changed' = Changed /\ Seen' = Seen
         /\ \A f : (Read(f)' <=> Read(f)) /\ (Defined(f)' <=> Defined(f)) /\ (Calls(f)' <=> Calls(f))
<1>1. Changed' = Changed
  BY DEF Changed
<1>2. Seen' = Seen
  BY <1>1 DEF Seen
<1>3. \A f : (Read(f)' <=> Read(f)) /\ (Defined(f)' <=> Defined(f))
  BY <1>1 DEF Read, Defined
<1>4. \A f : Calls(f)' <=> Calls(f)
  BY <1>3 DEF Calls
<1> QED
  BY <1>1, <1>2, <1>3, <1>4

\* A node of a new name
LEMMA UpsertNew ==
  ASSUME NEW gb, IsBuf(gb), NEW qn, NEW file, ~Has(gb.nodes, qn)
  PROVE  /\ \A i \in DOMAIN gb.nodes : Upsert(gb, qn, file).nodes[i] = gb.nodes[i]
         /\ \A i \in DOMAIN Upsert(gb, qn, file).nodes \ DOMAIN gb.nodes :
              Upsert(gb, qn, file).nodes[i].qn = qn /\ Upsert(gb, qn, file).nodes[i].file = file
<1> DEFINE n == Node(gb.next, qn, file)
           r == Upsert(gb, qn, file)
<1>1. r.nodes = Append(gb.nodes, n)
  BY DEF Upsert, IsBuf
<1>2. n.qn = qn /\ n.file = file
  BY DEF Node
<1> HIDE DEF n, r
<1>3. /\ DOMAIN gb.nodes = 1 .. Len(gb.nodes) /\ DOMAIN r.nodes = 1 .. Len(gb.nodes) + 1
      /\ \A i \in 1 .. Len(gb.nodes) : r.nodes[i] = gb.nodes[i]
      /\ r.nodes[Len(gb.nodes) + 1] = n
  BY <1>1, SMTT(60) DEF IsBuf
<1>4. \A i \in DOMAIN r.nodes \ DOMAIN gb.nodes : r.nodes[i] = n
  BY <1>3, SMTT(60) DEF IsBuf
<1> QED
  BY <1>2, <1>3, <1>4 DEF r

\* The steps that load the previous graph
LEMMA LoadingStep ==
  ASSUME GInv, Loading, Loading', mode' = mode, was' = was, now' = now,
         wbuf' = wbuf, wpc' = wpc, wfile' = wfile,
         cached' = cached, manifests' = manifests, todo' = todo, phase' = phase,
         Keeps(main.nodes, main'.nodes), LoadInv',
         pc' = "load" => pend' = {},
         \A e \in pend' : e = <<e[1], e[2], e[3]>>,
         \A e \in main'.edges \union pend' :
           e \in main.edges \union pend \/ \E r \in Reference(was) : EdgeIs(main'.nodes, e, r)
  PROVE  GInv'
<1>1. InputInv'
  BY DEF GInv, InputInv
<1>2. Changed' = Changed /\ Seen' = Seen
  BY SeenSame
<1>3. pc \in {"load", "loadEdges"} /\ pc' \in {"load", "loadEdges"}
  BY DEF Loading
<1>4. PhaseInv'
  BY <1>2, <1>3 DEF GInv, PhaseInv
<1>5. FilesInv' /\ DefsThere' /\ CompleteInv'
  BY <1>3 DEF FilesInv, DefsThere, CompleteInv, Loading
<1>6. DefsTrue'
  <2>1. ASSUME NEW f \in FileT, Has(main'.nodes, DefQn(f)) PROVE f \in Files /\ was[f].def
    <3>1. DefQn(f) \in QnsOf(was)
      BY <2>1 DEF LoadInv, Has
    <3> QED
      BY <3>1, WasDefs DEF GInv
  <2> QED
    BY <2>1 DEF GInv, DefsTrue
<1>7. ReadyInv'
  BY DEF GInv, ReadyInv, Src
<1>8. SoundInv'
  <2>1. Reference(Tree)' = Reference(was) /\ Reference(Tree) = Reference(was)
    BY DEF Tree
  <2>2. Reference(Seen)' = Reference(Seen)
    BY <1>2
  <2> QED
    BY <2>1, <2>2, SoundStays DEF GInv
<1> QED
  BY <1>1, <1>4, <1>5, <1>6, <1>7, <1>8 DEF GInv

\* cbm_gbuf_load_from_db puts in a node under its name and its file.
LEMMA LoadNodeG ==
  ASSUME IInv, GInv, LoadNode
  PROVE  GInv'
<1>1. /\ pc = "load" /\ pc' = "load" /\ mode' = mode /\ was' = was /\ now' = now
      /\ wbuf' = wbuf /\ wpc' = wpc /\ wfile' = wfile
      /\ cached' = cached /\ manifests' = manifests /\ todo' = todo /\ phase' = phase /\ pend' = pend
  BY DEF LoadNode, inputs, workers, read, merge
<1>2. PICK qn \in ToLoad : main' = Upsert(main, qn, OwnerOf(qn, was))
  BY DEF LoadNode
<1>3. qn \in QN \ {NoQn} /\ OwnerOf(qn, was) \in FileT /\ qn \in QnsOf(was) /\ ~Has(main.nodes, qn)
  BY ReferenceLemma DEF ToLoad
<1>4. IsBuf(main)
  BY DEF IInv, BufInv
<1>5. Grows(main, main') /\ main'.edges = main.edges
  BY <1>2, <1>3, <1>4, UpsertLemma
<1>6. Keeps(main.nodes, main'.nodes)
  BY <1>5, GrowsKeeps
<1>7. LoadInv'
  <2>1. /\ \A i \in DOMAIN main.nodes : main'.nodes[i] = main.nodes[i]
        /\ \A i \in DOMAIN main'.nodes \ DOMAIN main.nodes :
             main'.nodes[i].qn = qn /\ main'.nodes[i].file = OwnerOf(qn, was)
    BY <1>2, <1>3, <1>4, UpsertNew, SMTT(60)
  <2>2. \A i \in DOMAIN main'.nodes :
          /\ main'.nodes[i].qn \in QnsOf(was)
          /\ main'.nodes[i].file = OwnerOf(main'.nodes[i].qn, was)
    BY <1>1, <1>3, <2>1 DEF GInv, LoadInv, Loading
  <2> QED
    BY <1>1, <2>2 DEF LoadInv
<1>8. pend = {}
  BY <1>1 DEF GInv, PhaseInv
<1> QED
  BY <1>1, <1>5, <1>6, <1>7, <1>8, LoadingStep DEF Loading

\* The loaded edges join the nodes that their rows name.
LEMMA LoadEdgesG ==
  ASSUME IInv, GInv, LoadEdges
  PROVE  GInv'
<1>1. /\ pc = "load" /\ pc' = "loadEdges" /\ mode' = mode /\ was' = was /\ now' = now /\ main' = main
      /\ wbuf' = wbuf /\ wpc' = wpc /\ wfile' = wfile
      /\ cached' = cached /\ manifests' = manifests /\ todo' = todo /\ phase' = phase
      /\ pend' = {<<IdOf(main.nodes, e[1]), IdOf(main.nodes, e[2]), e[3]>> : e \in Reference(was)}
      /\ ToLoad = {}
  BY DEF LoadEdges, inputs, workers, read
<1>2. \A q \in QnsOf(was) : Has(main.nodes, q)
  BY <1>1 DEF ToLoad
<1>3. LoadInv'
  BY <1>1, <1>2 DEF GInv, LoadInv, Loading
<1>4. ASSUME NEW e \in pend'
      PROVE  e = <<e[1], e[2], e[3]>> /\ \E r \in Reference(was) : EdgeIs(main.nodes, e, r)
  <2>1. PICK r \in Reference(was) : e = <<IdOf(main.nodes, r[1]), IdOf(main.nodes, r[2]), r[3]>>
    BY <1>1, <1>4
  <2>2. Has(main.nodes, r[1]) /\ Has(main.nodes, r[2])
    BY <1>2 DEF QnsOf
  <2>3. Is(main.nodes, IdOf(main.nodes, r[1]), r[1]) /\ Is(main.nodes, IdOf(main.nodes, r[2]), r[2])
    BY <2>2, IdIs
  <2> QED
    BY <2>1, <2>3 DEF EdgeIs
<1> QED
  BY <1>1, <1>3, <1>4, LoadingStep, KeepsSelf DEF Loading

\* Purging takes the edges that an unchanged file does not account for.
LEMMA PurgeG ==
  ASSUME IInv, GInv, Purge
  PROVE  GInv'
<1> DEFINE fs == Changed \union Gone
           dead == {main.nodes[i].id : i \in {j \in DOMAIN main.nodes :
                                                main.nodes[j].qn # NoQn /\ main.nodes[j].file \in fs}}
<1>1. /\ pc = "loadEdges" /\ pc' = "files" /\ mode' = mode /\ was' = was /\ now' = now
      /\ wbuf' = wbuf /\ wpc' = wpc /\ wfile' = wfile /\ pend = {} /\ pend' = {}
      /\ cached' = cached /\ manifests' = manifests /\ todo' = todo /\ phase' = phase
  BY DEF Purge, inputs, workers, read, merge
<1>2. IsBuf(main) /\ \A i \in DOMAIN main.nodes : main.nodes[i] \in NodeT
  BY IdsNat DEF IInv, BufInv, IsBuf
<1>3. /\ main'.nodes = [i \in DOMAIN main.nodes |-> IF main.nodes[i].file \in fs
                                                    THEN [main.nodes[i] EXCEPT !.qn = NoQn]
                                                    ELSE main.nodes[i]]
      /\ main'.edges = {e \in main.edges : e[1] \notin dead /\ e[2] \notin dead}
  BY <1>2 DEF Purge, DeleteByFiles, IsBuf
<1>4. InputInv /\ InputInv'
  BY <1>1 DEF GInv, InputInv
<1>5. Changed' = Changed /\ Seen' = Seen /\ \A f : Defined(f)' <=> Defined(f)
  BY <1>1, SeenSame
<1>6. \A i \in DOMAIN main.nodes :
        main.nodes[i].qn \in QnsOf(was) /\ main.nodes[i].qn # NoQn
        /\ main.nodes[i].file = OwnerOf(main.nodes[i].qn, was)
  BY <1>1, ReferenceLemma DEF GInv, LoadInv, Loading
<1> HIDE DEF fs
<1>7. /\ DOMAIN main'.nodes = DOMAIN main.nodes
      /\ \A i \in DOMAIN main.nodes : main.nodes[i].file \notin fs => main'.nodes[i] = main.nodes[i]
      /\ \A i \in DOMAIN main.nodes : main.nodes[i].file \in fs => main'.nodes[i].qn = NoQn
  <2>1. \A i \in DOMAIN main.nodes : [main.nodes[i] EXCEPT !.qn = NoQn].qn = NoQn
    BY <1>2 DEF NodeT
  <2> QED
    BY <1>3, <2>1
<1>8. PhaseInv'
  BY <1>1, <1>5 DEF GInv, PhaseInv
<1>9. LoadInv' /\ FilesInv'
  BY <1>1 DEF LoadInv, FilesInv, Loading
<1>10. ReadyInv'
  BY <1>1 DEF GInv, ReadyInv, Src
<1>11. ASSUME NEW f \in Files, was[f].def, f \notin fs PROVE Defined(f)
  BY <1>4, <1>11, Unchanged DEF Defined, fs
<1>12. DefsTrue'
  <2>1. ASSUME NEW f \in FileT, Has(main'.nodes, DefQn(f)) PROVE f \in Files /\ Defined(f)
    <3>1. PICK i \in DOMAIN main.nodes : main'.nodes[i].qn = DefQn(f)
      BY <1>7, <2>1 DEF Has
    <3>2. main.nodes[i].file \notin fs /\ main.nodes[i].qn = DefQn(f)
      BY <1>7, <3>1, Names
    <3>3. f \in Files /\ was[f].def
      BY <1>4, <1>6, <3>2, WasDefs
    <3>4. f \notin fs
      BY <1>6, <3>2, <3>3, Owners, SMTT(60)
    <3> QED
      BY <1>11, <3>3, <3>4
  <2>2. ~Loading'
    BY <1>1 DEF Loading
  <2> QED
    BY <1>1, <1>5, <2>1, <2>2 DEF GInv, DefsTrue
<1>13. DefsThere'
  <2>1. ASSUME NEW f \in Files, Defined(f) PROVE Has(main'.nodes, DefQn(f))
    <3>1. f \notin Changed
      BY <1>1, <2>1 DEF Defined, Read, GInv, PhaseInv
    <3>2. now[f].here
      BY <1>4, <2>1, Inputs, SMTT(60) DEF Defined, Absent
    <3>3. now[f] = was[f] /\ f \notin fs
      BY <3>1, <3>2 DEF Changed, Gone, fs
    <3>4. DefQn(f) \in QnsOf(was)
      BY <1>4, <2>1, <3>3, WasDefs DEF Defined
    <3>5. PICK i \in DOMAIN main.nodes : main.nodes[i].qn = DefQn(f)
      BY <1>1, <3>4 DEF GInv, LoadInv, Has
    <3>6. main.nodes[i].file = f
      BY <1>6, <3>5, Owners
    <3> QED
      BY <1>7, <3>3, <3>5, <3>6 DEF Has
  <2> QED
    BY <1>5, <2>1 DEF DefsThere
<1>14. SoundInv'
  <2>1. \A w \in Workers : wbuf'[w].edges = {}
    BY <1>1 DEF IInv, EmptyInv
  <2>2. ASSUME NEW e \in main'.edges PROVE \E r \in Reference(Seen) : EdgeIs(main'.nodes, e, r)
    <3>1. e \in main.edges /\ e[1] \notin dead /\ e[2] \notin dead
      BY <1>3, <2>2
    <3>2. PICK r \in Reference(was) : EdgeIs(main.nodes, e, r)
      BY <1>1, <3>1 DEF GInv, SoundInv, Tree, Loading
    <3>3. ASSUME NEW id, NEW q, Is(main.nodes, id, q), id \notin dead
          PROVE  Is(main'.nodes, id, q) /\ OwnerOf(q, was) \notin fs
      <4>1. PICK i \in DOMAIN main.nodes : main.nodes[i].id = id /\ main.nodes[i].qn = q
        BY <3>3 DEF Is
      <4>2. main.nodes[i].file \notin fs
        BY <1>6, <3>3, <4>1
      <4> QED
        BY <1>6, <1>7, <4>1, <4>2 DEF Is
    <3> HIDE DEF dead
    <3>4. EdgeIs(main'.nodes, e, r) /\ OwnerOf(r[1], was) \notin fs /\ OwnerOf(r[2], was) \notin fs
      BY <3>1, <3>2, <3>3 DEF EdgeIs
    <3>5. r \in Reference(Seen)
      BY <1>4, <3>4, Survives DEF fs
    <3> QED
      BY <3>4, <3>5
  <2>3. Tree' = Seen' /\ Reference(Tree)' = Reference(Seen)
    BY <1>1, <1>5 DEF Tree, Loading
  <2> QED
    BY <1>1, <2>1, <2>2, <2>3 DEF SoundInv
<1>15. CompleteInv'
  BY <1>1 DEF GInv, PhaseInv, CompleteInv
<1> QED
  BY <1>4, <1>8, <1>9, <1>10, <1>12, <1>13, <1>14, <1>15 DEF GInv

\* A step that ends no pass over a file without its edge
LEMMA CompleteStays ==
  ASSUME CompleteInv, ~Loading, now' = now, was' = was, cached' = cached,
         \A r : Carried(r) => Carried(r)',
         \A f \in cached : Extracted(f)' => Extracted(f),
         \A f \in cached : Registered(f)' => Registered(f) \/
           /\ now[f].def => Carried(DefinesEdge(f))'
           /\ now[f].emits => \A r : r = EmitsEdge(f) => Carried(r)',
         \A f \in cached : /\ Resolved(f, {"calls"})' => Resolved(f, {"calls"})
                           /\ Resolved(f, {"calls", "synth", "edge"})' => Resolved(f, {"calls", "synth", "edge"}),
         \A f \in cached : now[f].late = "infra" /\ Bound(f)' => Bound(f) \/ Carried(InfraEdge)',
         \A f \in manifests' : f \in manifests \/ Carried(ResourceEdge(f))'
  PROVE  CompleteInv'
<1>1. Changed' = Changed
  BY DEF Changed
<1>2. \A f : Defined(f)' <=> Defined(f)
  BY <1>1 DEF Defined, Read
<1>3. \A f : Calls(f)' <=> Calls(f)
  BY <1>2 DEF Calls
<1>4. ASSUME NEW f \in cached PROVE FileComplete(f)'
  <2>1. FileComplete(f)
    BY DEF CompleteInv
  <2>2. now[f].def /\ now[f].handles /\ Extracted(f)' => Extracted(f) \/ Carried(HandlesEdge(f))'
    OBVIOUS
  <2>3. /\ now[f].def /\ Registered(f)' => Registered(f) \/ Carried(DefinesEdge(f))'
        /\ now[f].emits /\ Registered(f)' => Registered(f) \/ \A r : r = EmitsEdge(f) => Carried(r)'
    OBVIOUS
  <2>4. now[f].def /\ Calls(f)' /\ Resolved(f, {"calls"})' =>
          (Calls(f) /\ Resolved(f, {"calls"})) \/ \A r : r = CallsEdge(f) => Carried(r)'
    BY <1>3
  <2>5. now[f].def /\ Resolved(f, {"calls", "synth", "edge"})' =>
          \/ Resolved(f, {"calls", "synth", "edge"})
          \/ /\ now[f].uses = "route" => Carried(RouteEdge(f))'
             /\ now[f].uses = "decorator" => Carried(DecoratorEdge(f))'
    OBVIOUS
  <2>6. now[f].late = "infra" /\ Bound(f)' => Bound(f) \/ Carried(InfraEdge)'
    OBVIOUS
  <2> QED
    BY <2>1, <2>2, <2>3, <2>4, <2>5, <2>6, FileStays
<1>5. \A f \in manifests' : Carried(ResourceEdge(f))'
  BY DEF CompleteInv
<1> QED
  BY <1>4, <1>5 DEF CompleteInv

\* A step of the main thread keeps the invariant if the edges it adds are true
\* and the passes it ends have left theirs.
LEMMA SerialG ==
  ASSUME GInv, ~Loading, ~Loading', now' = now, was' = was, mode' = mode,
         wbuf' = wbuf, wpc' = wpc, wfile' = wfile, cached' = cached, phase' = phase,
         manifests \subseteq manifests', PhaseInv', FilesInv',
         pc # "work" \/ (todo = {} /\ \A w \in Workers : wpc[w] = "done"),
         \A w \in Workers : Ahead(w) => Ahead(w)',
         Keeps(main.nodes, main'.nodes),
         \A f \in FileT : Has(main'.nodes, DefQn(f)) => Has(main.nodes, DefQn(f)) \/ (f \in Files /\ Defined(f)),
         main.edges \union pend \subseteq main'.edges \union pend',
         \A e \in main'.edges \union pend' :
           e \in main.edges \union pend \/ \E r \in Reference(Seen)' : EdgeIs(main'.nodes, e, r),
         \A f \in cached : Registered(f)' => Registered(f) \/
           /\ now[f].def => Carried(DefinesEdge(f))'
           /\ now[f].emits => \A r : r = EmitsEdge(f) => Carried(r)',
         \A f \in cached : now[f].late = "infra" /\ Bound(f)' => Bound(f) \/ Carried(InfraEdge)',
         \A f \in manifests' : f \in manifests \/ Carried(ResourceEdge(f))'
  PROVE  GInv'
<1>1. InputInv /\ InputInv'
  BY DEF GInv, InputInv
<1>2. LoadInv'
  BY DEF LoadInv, Loading
<1>3. DefsTrue' /\ DefsThere' /\ ReadyInv'
  BY NodesStay DEF GInv
<1>4. Reference(Seen) \subseteq Reference(Seen)'
  BY <1>1, SeenGrows
<1>5. Reference(Tree) = Reference(Seen) /\ Reference(Tree)' = Reference(Seen)'
  BY DEF Tree
<1>6. SoundInv'
  BY <1>4, <1>5, SoundStays DEF GInv
<1>7. \A r : Carried(r) => Carried(r)'
  BY CarriedStays
<1>8. \A f : Extracted(f)' <=> Extracted(f)
  BY DEF Extracted, Busy
<1>9. \A f : /\ Resolved(f, {"calls"})' => Resolved(f, {"calls"})
             /\ Resolved(f, {"calls", "synth", "edge"})' => Resolved(f, {"calls", "synth", "edge"})
  BY DEF Resolved, Busy
<1>10. CompleteInv'
  BY <1>7, <1>8, <1>9, CompleteStays DEF GInv
<1> QED
  BY <1>1, <1>2, <1>3, <1>6, <1>10 DEF GInv

\* A node is put in, by name.
LEMMA UpsertKeeps ==
  ASSUME NEW gb, IsBuf(gb), NEW qn \in QN \ {NoQn}, NEW file \in FileT
  PROVE  /\ IsBuf(Upsert(gb, qn, file))
         /\ Keeps(gb.nodes, Upsert(gb, qn, file).nodes)
         /\ Upsert(gb, qn, file).edges = gb.edges
         /\ Has(Upsert(gb, qn, file).nodes, qn)
         /\ \A q : Has(Upsert(gb, qn, file).nodes, q) => Has(gb.nodes, q) \/ q = qn
<1> DEFINE r == Upsert(gb, qn, file)
<1>1. /\ Grows(gb, r) /\ Has(r.nodes, qn) /\ r.edges = gb.edges
      /\ \A i \in DOMAIN r.nodes \ DOMAIN gb.nodes : r.nodes[i].qn = qn
  BY UpsertLemma
<1> HIDE DEF r
<1>2. IsBuf(r) /\ Keeps(gb.nodes, r.nodes)
  BY <1>1, GrowsKeeps DEF Grows
<1>3. \A q : Has(r.nodes, q) => Has(gb.nodes, q) \/ q = qn
  BY <1>1 DEF Has, Grows
<1> QED
  BY <1>1, <1>2, <1>3 DEF r

\* Nodes that two steps keep
LEMMA KeepsTrans ==
  ASSUME NEW l, NEW m, NEW n, Keeps(l, m), Keeps(m, n)
  PROVE  Keeps(l, n)
BY DEF Keeps

\* An edge of the main buffer is on its way.
LEMMA CarriedMain ==
  ASSUME NEW r, \E e \in main'.edges : EdgeIs(main'.nodes, e, r)
  PROVE  Carried(r)'
BY DEF Carried

\* The File nodes add no edge and no definition.
LEMMA AddFileG ==
  ASSUME IInv, GInv, AddFile
  PROVE  GInv'
<1>1. /\ pc = "files" /\ pc' = "files" /\ mode' = mode /\ was' = was /\ now' = now
      /\ wbuf' = wbuf /\ wpc' = wpc /\ wfile' = wfile /\ pend' = pend
      /\ cached' = cached /\ manifests' = manifests /\ todo' = todo /\ phase' = phase
  BY DEF AddFile, inputs, workers, read, merge
<1>2. PICK f \in NoFileNode : main' = Upsert(main, FileQn(f), f)
  BY DEF AddFile
<1>3. FileQn(f) \in QN \ {NoQn} /\ f \in FileT
  BY QnLemma DEF NoFileNode, Changed, FileT
<1>4. IsBuf(main)
  BY DEF IInv, BufInv
<1>5. /\ Keeps(main.nodes, main'.nodes) /\ main'.edges = main.edges
      /\ \A q : Has(main'.nodes, q) => Has(main.nodes, q) \/ q = FileQn(f)
  BY <1>2, <1>3, <1>4, UpsertKeeps
<1>6. \A g : Has(main'.nodes, DefQn(g)) => Has(main.nodes, DefQn(g))
  BY <1>5, Names
<1>7. Changed' = Changed
  BY <1>1, SeenSame
<1>8. PhaseInv' /\ FilesInv'
  BY <1>1, <1>7 DEF GInv, PhaseInv, FilesInv
<1>9. cached = {} /\ manifests = {}
  BY <1>1 DEF GInv, PhaseInv
<1>10. ~Loading /\ ~Loading' /\ \A w \in Workers : ~Ahead(w)
  BY <1>1 DEF Loading, Ahead
<1> QED
  BY <1>1, <1>5, <1>6, <1>8, <1>9, <1>10, SerialG

\* The infra pass links topic and endpoint for a file that binds them.
LEMMA InfraBindingG ==
  ASSUME IInv, GInv, NEW f \in Files, InfraBinding(f)
  PROVE  GInv'
<1>1. /\ pc = "late" /\ pc' = "late" /\ mode' = mode /\ was' = was /\ now' = now
      /\ wbuf' = wbuf /\ wpc' = wpc /\ wfile' = wfile /\ pend' = pend
      /\ cached' = cached /\ manifests' = manifests /\ todo' = todo \ {f} /\ phase' = phase
  BY DEF InfraBinding, inputs, workers, read, merge
<1> DEFINE b1 == Upsert(main, InfraQn, f)
           b2 == IF Has(b1.nodes, TopicQn) THEN b1 ELSE Upsert(b1, TopicQn, f)
           binds == now[f].late = "infra" /\ mode = "full" /\ f \in cached
<1>2. main' = IF binds THEN Link(b2, TopicQn, InfraQn, "INFRA_MAPS") ELSE main
  BY DEF InfraBinding
<1>3. IsBuf(main) /\ InputInv /\ InputInv'
  BY <1>1 DEF IInv, BufInv, GInv, InputInv
<1>4. InfraQn \in QN \ {NoQn} /\ TopicQn \in QN \ {NoQn} /\ f \in FileT
  BY QnLemma DEF FileT
<1>5. /\ Keeps(main.nodes, b1.nodes) /\ IsBuf(b1) /\ b1.edges = main.edges /\ Has(b1.nodes, InfraQn)
      /\ \A q : Has(b1.nodes, q) => Has(main.nodes, q) \/ q = InfraQn
  BY <1>3, <1>4, UpsertKeeps
<1> HIDE DEF b1
<1>6. /\ Keeps(b1.nodes, b2.nodes) /\ IsBuf(b2) /\ b2.edges = b1.edges /\ Has(b2.nodes, TopicQn)
      /\ \A q : Has(b2.nodes, q) => Has(b1.nodes, q) \/ q = TopicQn
  BY <1>4, <1>5, UpsertKeeps, KeepsSelf
<1> HIDE DEF b2
<1>7. /\ Keeps(main.nodes, b2.nodes) /\ b2.edges = main.edges
      /\ Has(b2.nodes, TopicQn) /\ Has(b2.nodes, InfraQn)
      /\ \A q : Has(b2.nodes, q) => Has(main.nodes, q) \/ q = InfraQn \/ q = TopicQn
  BY <1>5, <1>6, KeepsTrans, KeepsHas
<1>8. ASSUME binds
      PROVE  /\ main'.nodes = b2.nodes /\ main.edges \subseteq main'.edges
             /\ \A e \in main'.edges : e \in main.edges \/ EdgeIs(main'.nodes, e, InfraEdge)
             /\ \E e \in main'.edges : EdgeIs(main'.nodes, e, InfraEdge)
  <2>1. main' = Link(b2, TopicQn, InfraQn, "INFRA_MAPS")
    BY <1>2, <1>8
  <2>2. PICK r : r = <<TopicQn, InfraQn, "INFRA_MAPS">>
    OBVIOUS
  <2>3. /\ main'.nodes = b2.nodes /\ b2.edges \subseteq main'.edges
        /\ \A e \in main'.edges : e \in b2.edges \/ EdgeIs(b2.nodes, e, r)
        /\ \E e \in main'.edges : EdgeIs(b2.nodes, e, r)
    BY <1>6, <1>7, <2>1, <2>2, LinkEdges, SMTT(60)
  <2>4. r = InfraEdge
    BY <2>2 DEF InfraEdge
  <2> QED
    BY <1>7, <2>3, <2>4
<1>9. /\ Keeps(main.nodes, main'.nodes)
      /\ \A q : Has(main'.nodes, q) => Has(main.nodes, q) \/ q = InfraQn \/ q = TopicQn
      /\ main.edges \subseteq main'.edges
  BY <1>2, <1>7, <1>8, KeepsSelf
<1>10. \A g : Has(main'.nodes, DefQn(g)) => Has(main.nodes, DefQn(g))
  BY <1>9, Names
<1>11. Changed' = Changed /\ Seen' = Seen
  BY <1>1, SeenSame
<1>12. PhaseInv'
  BY <1>1, <1>11 DEF GInv, PhaseInv
<1>13. FilesInv'
  BY <1>1, <1>9, <1>11, KeepsHas DEF GInv, FilesInv
<1>14. ASSUME NEW e \in main'.edges \union pend'
       PROVE  e \in main.edges \union pend \/ \E r \in Reference(Seen)' : EdgeIs(main'.nodes, e, r)
  <2>1. CASE ~binds
    BY <1>1, <1>2, <1>14, <2>1
  <2>2. CASE binds
    <3>1. Called(f, InfraEdge)
      BY <2>2 DEF Called, Read
    <3>2. InfraEdge \in Reference(Seen)'
      BY <1>3, <1>11, <3>1, CalledReference
    <3> QED
      BY <1>1, <1>8, <1>14, <2>2, <3>2
  <2> QED
    BY <2>1, <2>2
<1>15. ASSUME NEW g \in cached, now[g].late = "infra", Bound(g)' PROVE Bound(g) \/ Carried(InfraEdge)'
  <2>1. CASE g = f
    <3>1. binds
      BY <1>1, <1>15, <2>1 DEF Bound
    <3> QED
      BY <1>8, <3>1, CarriedMain
  <2>2. CASE g # f
    BY <1>1, <1>15, <2>2 DEF Bound
  <2> QED
    BY <2>1, <2>2
<1>16. \A g : Registered(g)' => Registered(g)
  BY <1>1 DEF Registered
<1>17. ~Loading /\ ~Loading' /\ \A w \in Workers : ~Ahead(w)
  BY <1>1 DEF Loading, Ahead
<1> HIDE DEF binds
<1> QED
  BY <1>1, <1>9, <1>10, <1>12, <1>13, <1>14, <1>15, <1>16, <1>17, SerialG

\* A manifest that was read calls for its resource.
LEMMA ResourceCalled ==
  ASSUME NEW f \in Files
  PROVE  InputInv /\ Called(f, ResourceEdge(f)) => ResourceEdge(f) \in Reference(Seen)
BY CalledReference

\* The k8s pass makes a resource of each manifest that it can read.
LEMMA K8sManifestG ==
  ASSUME IInv, GInv, NEW f \in Files, K8sManifest(f)
  PROVE  GInv'
<1>1. /\ pc = "late" /\ pc' = "late" /\ mode' = mode /\ was' = was /\ now' = now
      /\ wbuf' = wbuf /\ wpc' = wpc /\ wfile' = wfile /\ pend' = pend
      /\ cached' = cached /\ todo' = todo \ {f} /\ phase' = phase /\ f \in todo /\ now[f].late = "k8s"
  BY DEF K8sManifest, inputs, workers, merge
<1> DEFINE b == Upsert(main, ResourceQn(f), f)
           l == Link(b, FileQn(f), ResourceQn(f), "DEFINES")
<1>2. (manifests' = manifests \union {f} /\ main' = l) \/ (main' = main /\ manifests' = manifests)
  BY DEF K8sManifest
<1>3. IsBuf(main) /\ InputInv /\ InputInv'
  BY <1>1 DEF IInv, BufInv, GInv, InputInv
<1>4. ResourceQn(f) \in QN \ {NoQn} /\ f \in FileT
  BY QnLemma DEF FileT
<1>5. f \in Changed /\ Has(main.nodes, FileQn(f))
  BY <1>1 DEF GInv, PhaseInv, FilesInv
<1>6. /\ Keeps(main.nodes, b.nodes) /\ IsBuf(b) /\ b.edges = main.edges /\ Has(b.nodes, ResourceQn(f))
      /\ \A q : Has(b.nodes, q) => Has(main.nodes, q) \/ q = ResourceQn(f)
  BY <1>3, <1>4, UpsertKeeps
<1> HIDE DEF b
<1>7. Has(b.nodes, FileQn(f))
  BY <1>5, <1>6, KeepsHas
<1>8. /\ l.nodes = b.nodes /\ main.edges \subseteq l.edges
      /\ \A e \in l.edges : e \in main.edges \/ EdgeIs(l.nodes, e, ResourceEdge(f))
      /\ \E e \in l.edges : EdgeIs(l.nodes, e, ResourceEdge(f))
  BY <1>6, <1>7, LinkEdges, SMTT(60) DEF ResourceEdge
<1> HIDE DEF l
<1>9. /\ Keeps(main.nodes, main'.nodes)
      /\ \A q : Has(main'.nodes, q) => Has(main.nodes, q) \/ q = ResourceQn(f)
      /\ main.edges \subseteq main'.edges /\ manifests \subseteq manifests'
  BY <1>2, <1>6, <1>8, KeepsSelf
<1>10. \A g : Has(main'.nodes, DefQn(g)) => Has(main.nodes, DefQn(g))
  BY <1>9, Names
<1>11. Changed' = Changed
  BY <1>1 DEF Changed
<1>12. PhaseInv'
  BY <1>1, <1>2, <1>5, <1>11 DEF GInv, PhaseInv
<1>13. FilesInv'
  BY <1>1, <1>9, <1>11, KeepsHas DEF GInv, FilesInv
<1>14. ASSUME NEW e \in main'.edges \union pend'
       PROVE  e \in main.edges \union pend \/ \E r \in Reference(Seen)' : EdgeIs(main'.nodes, e, r)
  <2>1. CASE main' = main
    BY <1>1, <1>14, <2>1
  <2>2. CASE main' = l /\ f \in manifests'
    <3>1. Called(f, ResourceEdge(f))'
      BY <1>1, <2>2 DEF Called
    <3>2. ResourceEdge(f) \in Reference(Seen)'
      <4>1. (InputInv /\ Called(f, ResourceEdge(f)) => ResourceEdge(f) \in Reference(Seen))'
        BY ResourceCalled, PTL
      <4> QED
        BY <1>3, <3>1, <4>1 DEF ResourceEdge, FileQn, ResourceQn
    <3> QED
      BY <1>1, <1>8, <1>14, <2>2, <3>2
  <2> QED
    BY <1>2, <2>1, <2>2
<1>15. \A g \in manifests' : g \in manifests \/ Carried(ResourceEdge(g))'
  BY <1>2, <1>8, CarriedMain
<1>16. ASSUME NEW g \in cached, now[g].late = "infra", Bound(g)' PROVE Bound(g) \/ Carried(InfraEdge)'
  <2>1. g # f
    BY <1>1, <1>16
  <2> QED
    BY <1>1, <1>16, <2>1 DEF Bound
<1>17. \A g : Registered(g)' => Registered(g)
  BY <1>1 DEF Registered
<1>18. ~Loading /\ ~Loading' /\ \A w \in Workers : ~Ahead(w)
  BY <1>1 DEF Loading, Ahead
<1> QED
  BY <1>1, <1>9, <1>10, <1>12, <1>13, <1>14, <1>15, <1>16, <1>17, <1>18, SerialG

\* Three steps that only move on
LEMMA MoveOn ==
  ASSUME IInv, GInv, Joined \/ MergeNext \/ Dump
  PROVE  GInv'
<1>1. /\ mode' = mode /\ was' = was /\ now' = now /\ main' = main
      /\ wbuf' = wbuf /\ wpc' = wpc /\ wfile' = wfile /\ pend' = pend
      /\ cached' = cached /\ manifests' = manifests /\ todo' = todo /\ phase' = phase
  BY DEF Joined, MergeNext, Dump, inputs, workers, read, merge
<1>2. \/ pc = "work" /\ pc' = "merge" /\ mw' = 1 /\ \A w \in Workers : wpc[w] = "done"
      \/ pc = "mergeEdges" /\ pc' = "merge" /\ mw' = mw + 1
      \/ pc = "mergeEdges" /\ pc' = "sync" /\ ~(mw < NumWorkers)
      \/ pc = "late" /\ pc' = "done" /\ todo = {}
  BY DEF Joined, MergeNext, Dump
<1>3. pc' = "merge" \/ pc' = "sync" => pend = {}
  BY <1>2 DEF GInv, PhaseInv, Joined, MergeNext, Dump
<1>4. pc = "work" => todo = {}
  <2>1. 1 \in Workers
    BY NumWorkersAssumption, SMTT(60) DEF Workers
  <2> QED
    BY <1>2, <2>1 DEF GInv, PhaseInv
<1>5. Changed' = Changed /\ Seen' = Seen
  BY <1>1, SeenSame
<1>6. PhaseInv'
  <2>1. pc' \in {"merge", "sync", "done"} /\ (pc' = "done" => phase = "resolve") /\ pend = {}
    BY <1>2, <1>3 DEF GInv, PhaseInv
  <2>2. \A w \in Workers : wpc[w] = "done"
    BY <1>2 DEF GInv, PhaseInv
  <2> QED
    BY <1>1, <1>5, <2>1, <2>2 DEF GInv, PhaseInv
<1>7. FilesInv'
  BY <1>1, <1>2, <1>5 DEF GInv, FilesInv
<1>8. \A w \in Workers : Ahead(w) => Ahead(w)'
  <2>1. \A w \in Workers : w \in Nat /\ 1 <= w /\ w <= NumWorkers
    BY NumWorkersAssumption, SMTT(60) DEF Workers
  <2>2. mw \in Nat
    BY NumWorkersAssumption, SMTT(60) DEF IInv, TypeOK, Workers
  <2> QED
    BY <1>2, <2>1, <2>2, NumWorkersAssumption, SMTT(60) DEF Ahead
<1>9. ~Loading /\ ~Loading'
  BY <1>2 DEF Loading
<1>10. \A f : Registered(f)' => Registered(f)
  BY <1>1, <1>2 DEF Registered
<1>11. \A f : Bound(f)' => Bound(f)
  BY <1>1, <1>2 DEF Bound
<1>12. Keeps(main.nodes, main'.nodes)
  BY <1>1, KeepsSelf
<1>13. pc # "work" \/ (todo = {} /\ \A w \in Workers : wpc[w] = "done")
  BY <1>2, <1>4
<1> QED
  BY <1>1, <1>6, <1>7, <1>8, <1>9, <1>10, <1>11, <1>12, <1>13, SerialG

\* One pending edge goes in as it is.
LEMMA InsertPendingG ==
  ASSUME IInv, GInv, InsertPending
  PROVE  GInv'
<1>1. /\ pc \in {"loadEdges", "mergeEdges"} /\ mode' = mode /\ was' = was /\ now' = now
      /\ wbuf' = wbuf /\ wpc' = wpc /\ wfile' = wfile /\ pc' = pc /\ mw' = mw
      /\ cached' = cached /\ manifests' = manifests /\ todo' = todo /\ phase' = phase
  BY DEF InsertPending, inputs, workers, read
<1>2. PICK e \in pend : main' = Insert(main, e[1], e[2], e[3]) /\ pend' = pend \ {e}
  BY DEF InsertPending
<1>3. e = <<e[1], e[2], e[3]>>
  BY DEF GInv, PhaseInv
<1>4. IsBuf(main)
  BY DEF IInv, BufInv
<1>5. main'.nodes = main.nodes /\ main'.edges = main.edges \union {e}
  BY <1>2, <1>3, <1>4, InsertLemma, InsertEdge, SMTT(60)
<1>6. main'.edges \union pend' = main.edges \union pend
  BY <1>2, <1>5
<1>7. Keeps(main.nodes, main'.nodes)
  BY <1>5, KeepsSelf
<1>8. Changed' = Changed
  BY <1>1, SeenSame
<1>9. \A d \in pend' : d \in pend
  BY <1>2
<1>10. CASE pc = "loadEdges"
  <2>1. LoadInv'
    BY <1>1, <1>5, <1>10 DEF GInv, LoadInv, Loading
  <2>2. \A d \in pend' : d = <<d[1], d[2], d[3]>>
    BY <1>9 DEF GInv, PhaseInv
  <2>3. Loading /\ Loading' /\ pc' # "load"
    BY <1>1, <1>10 DEF Loading
  <2> QED
    BY <1>1, <1>6, <1>7, <2>1, <2>2, <2>3, LoadingStep
<1>11. CASE pc = "mergeEdges"
  <2>1. PhaseInv'
    BY <1>1, <1>8, <1>9, <1>11 DEF GInv, PhaseInv
  <2>2. FilesInv'
    BY <1>1, <1>5, <1>8 DEF GInv, FilesInv
  <2>3. \A w \in Workers : Ahead(w) => Ahead(w)'
    BY <1>1 DEF Ahead
  <2>4. \A f : (Registered(f)' => Registered(f)) /\ (Bound(f)' => Bound(f))
    BY <1>1 DEF Registered, Bound
  <2>5. ~Loading /\ ~Loading'
    BY <1>1, <1>11 DEF Loading
  <2> QED
    BY <1>1, <1>5, <1>6, <1>7, <1>11, <2>1, <2>2, <2>3, <2>4, <2>5, SerialG
<1> QED
  BY <1>1, <1>10, <1>11

\* A node is merged under its name.
LEMMA MergeNodeG ==
  ASSUME IInv, GInv, MergeNode
  PROVE  GInv'
<1>1. /\ pc = "merge" /\ pc' = "merge" /\ mode' = mode /\ was' = was /\ now' = now /\ mw' = mw
      /\ wbuf' = wbuf /\ wpc' = wpc /\ wfile' = wfile /\ pend' = pend
      /\ cached' = cached /\ manifests' = manifests /\ todo' = todo /\ phase' = phase
  BY DEF MergeNode, inputs, workers, read
<1> DEFINE sn == wbuf[mw].nodes[mi]
<1>2. IsBuf(main) /\ mw \in Workers
  BY DEF IInv, BufInv, TypeOK
<1>3. mi \in DOMAIN wbuf[mw].nodes
  <2>1. mi \in Nat /\ mi # 0 /\ mi <= Len(wbuf[mw].nodes) /\ wbuf[mw].nodes \in Seq(NodeT)
    BY <1>1, <1>2 DEF MergeNode, IInv, TypeOK, MergedInv, BufInv
  <2> QED
    BY <2>1, SMTT(60)
<1>4. main' = IF Has(main.nodes, sn.qn)
              THEN [main EXCEPT !.nodes[At(main.nodes, sn.qn)].file = sn.file]
              ELSE [main EXCEPT !.nodes = Append(@, sn), !.next = Bump(@, sn.id)]
  BY DEF MergeNode
<1>5. Has(wbuf[mw].nodes, sn.qn)
  BY <1>3 DEF Has
<1> HIDE DEF sn
<1>6. /\ Keeps(main.nodes, main'.nodes) /\ main'.edges = main.edges
      /\ \A q : Has(main'.nodes, q) => Has(main.nodes, q) \/ q = sn.qn
  <2>1. CASE Has(main.nodes, sn.qn)
    <3> DEFINE k == At(main.nodes, sn.qn)
    <3>1. k \in DOMAIN main.nodes
      BY <1>2, <2>1, FoundLemma DEF IsBuf
    <3>2. main' = [main EXCEPT !.nodes[k].file = sn.file]
      BY <1>4, <2>1
    <3> HIDE DEF k
    <3>3. main'.nodes = [main.nodes EXCEPT ![k].file = sn.file] /\ main'.edges = main.edges
      BY <1>2, <3>2 DEF IsBuf
    <3>4. main.nodes[k] \in NodeT
      BY <1>2, <3>1, SMTT(60) DEF IsBuf
    <3>5. DOMAIN main'.nodes = DOMAIN main.nodes
      BY <1>2, <3>1, <3>3, SMTT(60) DEF IsBuf
    <3>6. \A i \in DOMAIN main.nodes : main'.nodes[i].id = main.nodes[i].id /\ main'.nodes[i].qn = main.nodes[i].qn
      BY <1>2, <3>1, <3>3, <3>4, SMTT(60) DEF NodeT, IsBuf
    <3> QED
      BY <3>3, <3>5, <3>6 DEF Keeps, Has
  <2>2. CASE ~Has(main.nodes, sn.qn)
    <3>1. main'.nodes = Append(main.nodes, sn) /\ main'.edges = main.edges
      BY <1>2, <1>4, <2>2 DEF IsBuf
    <3>2. /\ DOMAIN main.nodes = 1 .. Len(main.nodes) /\ DOMAIN main'.nodes = 1 .. Len(main.nodes) + 1
          /\ \A i \in 1 .. Len(main.nodes) : main'.nodes[i] = main.nodes[i]
          /\ main'.nodes[Len(main.nodes) + 1] = sn /\ Len(main.nodes) \in Nat
      BY <1>2, <3>1, SMTT(60) DEF IsBuf
    <3>3. /\ DOMAIN main.nodes \subseteq DOMAIN main'.nodes
          /\ \A i \in DOMAIN main.nodes : main'.nodes[i] = main.nodes[i]
          /\ \A i \in DOMAIN main'.nodes \ DOMAIN main.nodes : main'.nodes[i] = sn
      BY <3>2, SMTT(60)
    <3> QED
      BY <3>1, <3>3 DEF Keeps, Has
  <2> QED
    BY <2>1, <2>2
<1>7. ASSUME NEW f \in FileT, Has(main'.nodes, DefQn(f)) PROVE Has(main.nodes, DefQn(f)) \/ (f \in Files /\ Defined(f))
  <2>1. CASE DefQn(f) = sn.qn
    <3>1. f \in cached /\ now[f].def
      BY <1>2, <1>5, <1>7, <2>1 DEF GInv, DefsTrue
    <3> QED
      BY <3>1 DEF Defined, Read, IInv, TypeOK
  <2> QED
    BY <1>6, <1>7, <2>1
<1>8. Changed' = Changed
  BY <1>1, SeenSame
<1>9. PhaseInv'
  BY <1>1, <1>8 DEF GInv, PhaseInv
<1>10. FilesInv'
  BY <1>1, <1>6, <1>8, KeepsHas DEF GInv, FilesInv
<1>11. \A w \in Workers : Ahead(w) => Ahead(w)'
  BY <1>1 DEF Ahead
<1>12. \A f : (Registered(f)' => Registered(f)) /\ (Bound(f)' => Bound(f))
  BY <1>1 DEF Registered, Bound
<1>13. ~Loading /\ ~Loading'
  BY <1>1 DEF Loading
<1> QED
  BY <1>1, <1>6, <1>7, <1>9, <1>10, <1>11, <1>12, <1>13, SerialG

\* The registry pass links what extraction left, and a Channel for each file
\* that emits.
LEMMA RegistryG ==
  ASSUME IInv, GInv, NEW f \in Files, Registry(f)
  PROVE  GInv'
<1>1. /\ pc = "registry" /\ pc' = "registry" /\ mode' = mode /\ was' = was /\ now' = now
      /\ wbuf' = wbuf /\ wpc' = wpc /\ wfile' = wfile /\ pend' = pend /\ f \in todo
      /\ cached' = cached /\ manifests' = manifests /\ todo' = todo \ {f} /\ phase' = phase
  BY DEF Registry, inputs, workers, read, merge
<1> DEFINE emits == f \in cached /\ now[f].emits
           b1 == IF f \in cached THEN Link(main, FileQn(f), DefQn(f), "DEFINES") ELSE main
           b2 == IF emits THEN Upsert(b1, ChannelQn, None) ELSE b1
           from == IF Has(b2.nodes, DefQn(f)) THEN DefQn(f) ELSE FileQn(f)
           b3 == IF emits THEN Link(b2, from, ChannelQn, "EMITS") ELSE b2
<1>2. main' = b3
  BY DEF Registry
<1>3. IsBuf(main) /\ InputInv /\ InputInv'
  BY <1>1 DEF IInv, BufInv, GInv, InputInv
<1>4. f \in Changed /\ Has(main.nodes, FileQn(f))
  BY <1>1 DEF GInv, PhaseInv, FilesInv
<1>5. ~Loading /\ ~Loading' /\ \A w \in Workers : ~Ahead(w)
  BY <1>1 DEF Loading, Ahead
<1>6. f \in cached => (Has(main.nodes, DefQn(f)) <=> now[f].def)
  <2>1. ~Busy(f, {"def"})
    BY <1>1 DEF Busy, GInv, PhaseInv
  <2>2. f \in cached => (Defined(f) <=> now[f].def)
    BY DEF Defined, Read
  <2>3. f \in FileT
    BY DEF FileT
  <2>4. Has(main.nodes, DefQn(f)) => Defined(f)
    BY <1>5, <2>3 DEF GInv, DefsTrue
  <2>5. Defined(f) => Has(main.nodes, DefQn(f))
    BY <1>5, <2>1 DEF GInv, DefsThere
  <2>6. now[f].def \in BOOLEAN
    BY <1>3, Inputs DEF ContentT
  <2> QED
    BY <2>2, <2>4, <2>5, <2>6
<1>7. FileQn(f) \in QN \ {NoQn} /\ DefQn(f) \in QN \ {NoQn} /\ ChannelQn \in QN \ {NoQn} /\ None \in FileT
  BY QnLemma DEF FileT
<1>8. /\ IsBuf(b1) /\ b1.nodes = main.nodes /\ main.edges \subseteq b1.edges
      /\ \A e \in b1.edges : e \in main.edges \/
           (f \in cached /\ now[f].def /\ EdgeIs(main.nodes, e, DefinesEdge(f)))
      /\ f \in cached /\ now[f].def => \E e \in b1.edges : EdgeIs(main.nodes, e, DefinesEdge(f))
  <2>1. CASE f \in cached
    <3>1. b1 = Link(main, FileQn(f), DefQn(f), "DEFINES")
      BY <2>1
    <3>2. IsBuf(b1)
      BY <1>3, <1>7, <3>1, LinkLemma DEF Grows
    <3> QED
      BY <1>3, <1>4, <1>6, <2>1, <3>1, <3>2, LinkEdges DEF DefinesEdge
  <2>2. CASE f \notin cached
    BY <1>3, <2>2
  <2> QED
    BY <2>1, <2>2
<1> HIDE DEF b1
<1>9. /\ IsBuf(b2) /\ Keeps(b1.nodes, b2.nodes) /\ b2.edges = b1.edges
      /\ emits => Has(b2.nodes, ChannelQn)
      /\ \A q : Has(b2.nodes, q) => Has(b1.nodes, q) \/ q = ChannelQn
  BY <1>7, <1>8, UpsertKeeps, KeepsSelf
<1> HIDE DEF b2
<1>10. Has(b2.nodes, FileQn(f)) /\ (Has(b2.nodes, DefQn(f)) <=> Has(main.nodes, DefQn(f)))
  BY <1>4, <1>8, <1>9, KeepsHas, Names
<1>11. emits => <<from, ChannelQn, "EMITS">> = EmitsEdge(f) /\ Has(b2.nodes, from)
  BY <1>6, <1>10 DEF EmitsEdge
<1>12. /\ b3.nodes = b2.nodes /\ b2.edges \subseteq b3.edges
       /\ \A e \in b3.edges : e \in b2.edges \/ (emits /\ EdgeIs(b2.nodes, e, EmitsEdge(f)))
       /\ emits => \E e \in b3.edges : EdgeIs(b2.nodes, e, EmitsEdge(f))
  <2>1. CASE emits
    <3>1. b3 = Link(b2, from, ChannelQn, "EMITS")
      BY <2>1
    <3> HIDE DEF emits, from, b3
    <3> QED
      BY <1>9, <1>11, <2>1, <3>1, LinkEdges, SMTT(60)
  <2>2. CASE ~emits
    BY <2>2
  <2> QED
    BY <2>1, <2>2
<1> HIDE DEF b3, from
<1>13. /\ Keeps(main.nodes, main'.nodes) /\ main.edges \subseteq main'.edges
       /\ \A q : Has(main'.nodes, q) => Has(main.nodes, q) \/ q = ChannelQn
  BY <1>2, <1>8, <1>9, <1>12
<1>14. \A g : Has(main'.nodes, DefQn(g)) => Has(main.nodes, DefQn(g))
  BY <1>13, Names
<1>15. Changed' = Changed /\ Seen' = Seen
  BY <1>1, SeenSame
<1>16. PhaseInv'
  BY <1>1, <1>15 DEF GInv, PhaseInv
<1>17. FilesInv'
  BY <1>1, <1>13, <1>15, KeepsHas DEF GInv, FilesInv
<1>18. \A e \in main'.edges :
         \/ e \in main.edges
         \/ f \in cached /\ now[f].def /\ EdgeIs(main'.nodes, e, DefinesEdge(f))
         \/ emits /\ EdgeIs(main'.nodes, e, EmitsEdge(f))
  BY <1>2, <1>8, <1>9, <1>12, KeepsHas
<1>19. ASSUME NEW e \in main'.edges \union pend'
       PROVE  e \in main.edges \union pend \/ \E r \in Reference(Seen)' : EdgeIs(main'.nodes, e, r)
  <2>1. CASE f \in cached /\ now[f].def /\ EdgeIs(main'.nodes, e, DefinesEdge(f))
    <3>1. Called(f, DefinesEdge(f))
      BY <2>1 DEF Called, Defined, Read
    <3>2. DefinesEdge(f) \in Reference(Seen)
      BY <1>3, <3>1, CalledReference
    <3> QED
      BY <1>15, <2>1, <3>2
  <2>2. CASE emits /\ EdgeIs(main'.nodes, e, EmitsEdge(f))
    <3>1. Called(f, EmitsEdge(f))
      BY <2>2 DEF Called, Read
    <3>2. EmitsEdge(f) \in Reference(Seen)
      BY <1>3, <3>1, CalledReference
    <3> QED
      BY <1>15, <2>2, <3>2
  <2> QED
    BY <1>1, <1>18, <1>19, <2>1, <2>2
<1>20. ASSUME NEW g \in cached, Registered(g)'
       PROVE  Registered(g) \/ /\ now[g].def => Carried(DefinesEdge(g))'
                               /\ now[g].emits => \A r : r = EmitsEdge(g) => Carried(r)'
  <2>1. CASE g = f
    <3>1. now[f].def => \E e \in main'.edges : EdgeIs(main'.nodes, e, DefinesEdge(f))
      BY <1>2, <1>8, <1>9, <1>12, <1>20, <2>1, KeepsHas
    <3>2. now[f].emits => \A r : r = EmitsEdge(f) => \E e \in main'.edges : EdgeIs(main'.nodes, e, r)
      BY <1>2, <1>12, <1>20, <2>1
    <3> QED
      BY <2>1, <3>1, <3>2, CarriedMain
  <2>2. CASE g # f
    BY <1>1, <1>20, <2>2 DEF Registered
  <2> QED
    BY <2>1, <2>2
<1>21. \A g : Bound(g)' => Bound(g)
  BY <1>1 DEF Bound
<1> QED
  BY <1>1, <1>5, <1>13, <1>14, <1>16, <1>17, <1>19, <1>20, <1>21, SerialG

\* Remap takes the end of a worker's edge to the node that it stands for.
LEMMA RemapIs ==
  ASSUME IInv, pc = "merge", mi > Len(wbuf[mw].nodes), NEW id, NEW q, EndIs(mw, id, q)
  PROVE  Is(main.nodes, Remap(id), q)
<1> DEFINE nodes == wbuf[mw].nodes
           own == {i \in DOMAIN nodes : nodes[i].id = id}
<1>1. mw \in Workers
  BY DEF IInv, TypeOK
<1>2. CASE Is(nodes, id, q)
  <2>1. PICK i \in DOMAIN nodes : nodes[i].id = id /\ nodes[i].qn = q
    BY <1>2 DEF Is
  <2>2. \A j \in own : j = i
    BY <1>1, <2>1 DEF IInv, WorkerIds, IdsApart
  <2>3. own # {} /\ (CHOOSE k \in own : TRUE) = i
    BY <2>1, <2>2
  <2>4. Remap(id) = IdOf(main.nodes, q)
    BY <2>1, <2>3 DEF Remap
  <2>5. i < mi
    <3>1. nodes \in Seq(NodeT) /\ mi \in Nat
      BY <1>1 DEF IInv, BufInv, TypeOK
    <3> HIDE DEF nodes
    <3>2. i \in 1 .. Len(nodes) /\ Len(nodes) \in Nat
      BY <2>1, <3>1, SMTT(60)
    <3>3. mi > Len(nodes)
      BY DEF nodes
    <3> QED
      BY <3>1, <3>2, <3>3, SMTT(60)
  <2>6. Has(main.nodes, q)
    BY <2>1, <2>5 DEF IInv, MergedInv
  <2> QED
    BY <2>4, <2>6, IdIs
<1>3. CASE Is(main.nodes, id, q) /\ Without(nodes, id)
  <2>1. own = {}
    BY <1>3 DEF Without
  <2>2. Remap(id) = id
    BY <2>1 DEF Remap
  <2> QED
    BY <1>3, <2>2
<1> QED
  BY <1>2, <1>3 DEF EndIs

\* The edges of a worker's buffer become pending ones between the same nodes.
LEMMA MergeEdgesG ==
  ASSUME IInv, GInv, MergeEdges
  PROVE  GInv'
<1>1. /\ pc = "merge" /\ pc' = "mergeEdges" /\ mode' = mode /\ was' = was /\ now' = now
      /\ wbuf' = wbuf /\ wpc' = wpc /\ wfile' = wfile /\ main' = main /\ mw' = mw
      /\ cached' = cached /\ manifests' = manifests /\ todo' = todo /\ phase' = phase
      /\ mi > Len(wbuf[mw].nodes)
      /\ pend' = {<<Remap(e[1]), Remap(e[2]), e[3]>> : e \in wbuf[mw].edges}
  BY DEF MergeEdges, inputs, workers, read
<1>2. mw \in Workers /\ pend = {}
  BY <1>1 DEF IInv, TypeOK, GInv, PhaseInv
<1>3. \A e, r : LocalIs(mw, e, r) => EdgeIs(main.nodes, <<Remap(e[1]), Remap(e[2]), e[3]>>, r)
  <2>1. \A id, q : EndIs(mw, id, q) => Is(main.nodes, Remap(id), q)
    BY <1>1, RemapIs
  <2> QED
    BY <2>1 DEF LocalIs, EdgeIs
<1>4. Changed' = Changed /\ Seen' = Seen /\ \A f : Defined(f)' <=> Defined(f)
  BY <1>1, SeenSame
<1>5. ~Loading /\ ~Loading'
  BY <1>1 DEF Loading
<1>6. \A w \in Workers : Ahead(w) => w = mw \/ Ahead(w)'
  <2>1. \A w \in Workers : w \in Nat
    BY SMTT(60) DEF Workers
  <2> QED
    BY <1>1, <1>2, <2>1, SMTT(60) DEF Ahead
<1>7. InputInv'
  BY <1>1 DEF GInv, InputInv
<1>8. PhaseInv'
  <2>1. \A e \in pend' : e = <<e[1], e[2], e[3]>>
    BY <1>1, SMTT(60)
  <2> QED
    BY <1>1, <1>4, <2>1 DEF GInv, PhaseInv
<1>9. LoadInv' /\ FilesInv'
  BY <1>1, <1>4, <1>5 DEF GInv, LoadInv, FilesInv
<1>10. DefsTrue'
  BY <1>1, <1>4, <1>5 DEF GInv, DefsTrue
<1>11. DefsThere'
  <2>1. \A q : Has(wbuf[mw].nodes, q) => Has(main.nodes, q)
    <3>1. \A k \in DOMAIN wbuf[mw].nodes : k < mi
      <4>1. wbuf[mw].nodes \in Seq(NodeT) /\ mi \in Nat
        BY <1>2 DEF IInv, BufInv, TypeOK
      <4> QED
        BY <1>1, <4>1, SMTT(60)
    <3> QED
      BY <1>1, <3>1 DEF IInv, MergedInv, Has
  <2>2. \A f : Busy(f, {"def"})' <=> Busy(f, {"def"})
    BY <1>1 DEF Busy
  <2> QED
    BY <1>1, <1>4, <1>5, <1>6, <2>1, <2>2 DEF GInv, DefsThere
<1>12. ReadyInv'
  BY <1>1 DEF GInv, ReadyInv, Src
<1>13. SoundInv'
  <2>1. Reference(Tree) = Reference(Seen) /\ Reference(Tree)' = Reference(Seen)
    BY <1>4, <1>5 DEF Tree
  <2>2. ASSUME NEW d \in pend' PROVE \E r \in Reference(Seen) : EdgeIs(main.nodes, d, r)
    <3>1. PICK e \in wbuf[mw].edges : d = <<Remap(e[1]), Remap(e[2]), e[3]>>
      BY <1>1, <2>2
    <3>2. PICK r \in Reference(Seen) : LocalIs(mw, e, r)
      BY <1>2 DEF GInv, SoundInv
    <3> QED
      BY <1>3, <3>1, <3>2
  <2>3. Reference(Seen)' = Reference(Seen)
    BY <1>4
  <2> QED
    BY <1>1, <2>1, <2>2, <2>3, SoundStays, KeepsSelf DEF GInv
<1>14. \A r : Carried(r) => Carried(r)'
  <2>1. \A w, e, r : LocalIs(w, e, r) => LocalIs(w, e, r)'
    BY <1>1 DEF LocalIs, EndIs
  <2>2. ASSUME NEW r, NEW e \in wbuf[mw].edges, LocalIs(mw, e, r) PROVE Carried(r)'
    <3>1. <<Remap(e[1]), Remap(e[2]), e[3]>> \in pend'
      BY <1>1
    <3> QED
      BY <1>1, <1>3, <2>2, <3>1 DEF Carried
  <2> QED
    BY <1>1, <1>2, <1>6, <2>1, <2>2 DEF Carried
<1>15. \A f : /\ Extracted(f)' => Extracted(f)
              /\ Resolved(f, {"calls"})' => Resolved(f, {"calls"})
              /\ Resolved(f, {"calls", "synth", "edge"})' => Resolved(f, {"calls", "synth", "edge"})
              /\ Registered(f)' => Registered(f)
              /\ Bound(f)' => Bound(f)
  BY <1>1 DEF Extracted, Resolved, Registered, Bound, Busy
<1>16. CompleteInv'
  BY <1>1, <1>5, <1>14, <1>15, CompleteStays DEF GInv
<1> QED
  BY <1>7, <1>8, <1>9, <1>10, <1>11, <1>12, <1>13, <1>16 DEF GInv

\* The steps between the phases, on empty buffers or on merged ones
LEMMA BetweenG ==
  ASSUME IInv, GInv, Sync \/ StartExtract \/ RegistryDone
  PROVE  GInv'
<1>1. /\ mode' = mode /\ was' = was /\ now' = now /\ main'.nodes = main.nodes /\ main'.edges = main.edges
      /\ pend' = pend /\ cached' = cached /\ manifests' = manifests /\ todo' = Changed
  <2>1. IsBuf(main)
    BY DEF IInv, BufInv
  <2> QED
    BY <2>1 DEF Sync, StartExtract, RegistryDone, inputs, merge, read, IsBuf
<1>2. \/ pc = "sync" /\ phase' = phase /\ pc' = (IF phase = "extract" THEN "registry" ELSE "late") /\ wpc' = wpc
      \/ pc = "files" /\ phase' = phase /\ pc' = "work" /\ wpc' = [w \in Workers |-> "take"]
      \/ pc = "registry" /\ todo = {} /\ phase' = "resolve" /\ pc' = "work" /\ wpc' = [w \in Workers |-> "take"]
  BY DEF Sync, StartExtract, RegistryDone
<1>3. \A w \in Workers : wbuf'[w].nodes = <<>> /\ wbuf'[w].edges = {}
  BY SMTT(60) DEF IInv, EmptyInv, Sync, StartExtract, RegistryDone, NoBuf, EmptyNodes
<1>4. /\ \A w \in Workers : ~Ahead(w) /\ wpc[w] = "done" /\ wpc'[w] \in {"take", "done"}
      /\ pc' # "work" => \A w \in Workers : wpc'[w] = "done"
      /\ pc' = "work" => \A w \in Workers : wpc'[w] = "take"
  BY <1>2 DEF Ahead, GInv, PhaseInv
<1>5. ~Loading /\ ~Loading' /\ pend = {}
  BY <1>2 DEF Loading, GInv, PhaseInv
<1>6. Changed' = Changed /\ Seen' = Seen /\ \A f : Defined(f)' <=> Defined(f)
  BY <1>1, SeenSame
<1>7. InputInv'
  BY <1>1 DEF GInv, InputInv
<1>8. phase \in {"extract", "resolve"}
  BY DEF IInv, TypeOK
<1>9. PhaseInv'
  BY <1>1, <1>2, <1>4, <1>5, <1>6, <1>8 DEF GInv, PhaseInv
<1>10. LoadInv'
  BY <1>5 DEF LoadInv, Loading
<1>11. FilesInv'
  <2>1. pc = "files" => NoFileNode = {}
    BY DEF Sync, StartExtract, RegistryDone
  <2>2. \A f \in Changed : Has(main.nodes, FileQn(f))
    BY <1>2, <2>1 DEF GInv, FilesInv, NoFileNode
  <2> QED
    BY <1>1, <1>6, <2>2 DEF FilesInv
<1>12. \A w \in Workers : \A q : ~Has(wbuf'[w].nodes, q)
  <2>1. DOMAIN <<>> = {}
    BY SMTT(60)
  <2> QED
    BY <1>3, <2>1 DEF Has
<1>13. DefsTrue'
  BY <1>1, <1>5, <1>6, <1>12 DEF GInv, DefsTrue
<1>14. DefsThere'
  <2>1. \A f : ~Busy(f, {"def"})
    BY <1>4 DEF Busy
  <2> QED
    BY <1>1, <1>4, <1>5, <1>6, <2>1 DEF GInv, DefsThere
<1>15. ReadyInv'
  BY <1>4, <1>12 DEF ReadyInv
<1>16. SoundInv'
  <2>1. Reference(Tree) = Reference(Seen) /\ Reference(Tree)' = Reference(Seen)
    BY <1>5, <1>6 DEF Tree
  <2> QED
    BY <1>1, <1>3, <2>1 DEF GInv, SoundInv
<1>17. \A r : Carried(r) => Carried(r)'
  BY <1>1, <1>4 DEF Carried
<1>18. ASSUME NEW f \in cached
       PROVE  /\ Extracted(f)' => Extracted(f)
              /\ Resolved(f, {"calls"})' => Resolved(f, {"calls"})
              /\ Resolved(f, {"calls", "synth", "edge"})' => Resolved(f, {"calls", "synth", "edge"})
              /\ Registered(f)' => Registered(f)
              /\ Bound(f)' => Bound(f)
  <2>1. f \in todo'
    BY <1>1 DEF GInv, PhaseInv
  <2>2. Extracted(f)
    BY <1>4 DEF Extracted, Busy
  <2>3. \A ls : Resolved(f, ls)' => phase = "resolve" /\ pc # "work"
    BY <1>2, <2>1 DEF Resolved
  <2>4. Registered(f)' => Registered(f)
    BY <1>2, <2>1 DEF Registered
  <2>5. ~Bound(f)'
    BY <1>2, <2>1 DEF Bound
  <2> QED
    BY <2>2, <2>3, <2>4, <2>5 DEF Resolved
<1>19. CompleteInv'
  BY <1>1, <1>5, <1>17, <1>18, CompleteStays DEF GInv
<1> QED
  BY <1>7, <1>9, <1>10, <1>11, <1>13, <1>14, <1>15, <1>16, <1>19 DEF GInv

\* A worker takes a file, or there is none left.
LEMMA TakeG ==
  ASSUME IInv, GInv, NEW w \in Workers, Take(w)
  PROVE  GInv'
<1>1. /\ pc = "work" /\ pc' = "work" /\ mode' = mode /\ was' = was /\ now' = now /\ main' = main
      /\ wbuf' = wbuf /\ pend' = pend /\ manifests' = manifests /\ phase' = phase /\ wpc[w] = "take"
      /\ mw' = mw
  BY DEF Take, Worker, inputs, merge
<1> DEFINE Ends == todo = {} /\ todo' = todo /\ wfile' = wfile /\ cached' = cached
                     /\ wpc' = [wpc EXCEPT ![w] = "done"]
           Takes(f) == /\ phase = "extract" \/ f \in cached
                       /\ wfile' = [wfile EXCEPT ![w] = f]
                       /\ wpc' = [wpc EXCEPT ![w] = IF phase = "extract" THEN "def" ELSE "calls"]
                       /\ cached' = cached \union {f}
           Skips(f) == /\ phase = "extract" \/ f \notin cached
                       /\ wfile' = wfile /\ wpc' = wpc /\ cached' = cached
<1>2. Ends \/ \E f \in todo : todo' = todo \ {f} /\ (Takes(f) \/ Skips(f))
  BY DEF Take, Goto
<1>3. wpc \in [Workers -> Labels] /\ wfile \in [Workers -> FileT]
  BY DEF IInv, BufInv
<1>4. InputInv /\ InputInv' /\ Changed' = Changed
  BY <1>1 DEF GInv, InputInv, Changed
<1> DEFINE Shape ==
             /\ \A v \in Workers \ {w} : wpc'[v] = wpc[v] /\ wfile'[v] = wfile[v]
             /\ \/ wpc'[w] = "done" /\ todo = {} /\ cached' = cached
                \/ wpc'[w] = "take" /\ cached' = cached
                \/ /\ wfile'[w] \in todo /\ wpc'[w] = "def" /\ phase = "extract"
                   /\ cached' = cached \union {wfile'[w]}
                \/ /\ wfile'[w] \in cached /\ wpc'[w] = "calls" /\ phase = "resolve" /\ cached' = cached
             /\ todo' \subseteq todo
             /\ \A g \in cached : g \notin todo' => g \notin todo \/ phase = "extract"
                                                    \/ (wfile'[w] = g /\ wpc'[w] = "calls")
<1>5. Shape
  <2>1. CASE Ends
    BY <1>1, <1>3, <2>1
  <2>2. ASSUME NEW f \in todo, todo' = todo \ {f}, Takes(f) PROVE Shape
    <3>1. wfile'[w] = f /\ wpc'[w] = (IF phase = "extract" THEN "def" ELSE "calls")
      BY <1>3, <2>2
    <3>2. \A v \in Workers \ {w} : wpc'[v] = wpc[v] /\ wfile'[v] = wfile[v]
      BY <1>3, <2>2
    <3>3. phase \in {"extract", "resolve"}
      BY DEF IInv, TypeOK
    <3>4. phase = "resolve" => f \in cached /\ cached' = cached
      BY <2>2
    <3>5. \A g \in cached : g \notin todo' => g \notin todo \/ phase = "extract" \/ (wfile'[w] = g /\ wpc'[w] = "calls")
      BY <2>2, <3>1
    <3> QED
      BY <2>2, <3>1, <3>2, <3>3, <3>4, <3>5
  <2>3. ASSUME NEW f \in todo, todo' = todo \ {f}, Skips(f) PROVE Shape
    BY <1>1, <1>3, <2>3
  <2> QED
    BY <1>2, <2>1, <2>2, <2>3
<1> HIDE DEF Ends, Takes, Skips
<1>6. cached \subseteq cached' /\ \A g : g \in cached' => g \in cached \/ (g = wfile'[w] /\ g \in todo /\ wpc'[w] = "def")
  BY <1>5
<1>7. /\ todo \subseteq Changed /\ cached \subseteq Changed
      /\ \A v \in Workers : /\ wpc[v] \in {"def", "route", "handles"} => phase = "extract"
                            /\ wpc[v] \in {"calls", "synth", "edge"} => phase = "resolve"
                            /\ wpc[v] \notin {"take", "done"} => wfile[v] \in cached
                            /\ wpc[v] = "done" => todo = {}
  BY <1>1 DEF GInv, PhaseInv
<1>8. PhaseInv'
  <2>1. ASSUME NEW v \in Workers
        PROVE  /\ wpc'[v] \in {"def", "route", "handles"} => phase = "extract"
               /\ wpc'[v] \in {"calls", "synth", "edge"} => phase = "resolve"
               /\ wpc'[v] \notin {"take", "done"} => wfile'[v] \in cached'
               /\ wpc'[v] = "done" => todo' = {}
    <3>1. CASE v = w
      BY <1>5, <3>1
    <3>2. CASE v # w
      BY <1>5, <1>6, <1>7, <3>2
    <3> QED
      BY <3>1, <3>2
  <2>2. todo' \subseteq Changed /\ cached' \subseteq Changed
    BY <1>5, <1>6, <1>7
  <2> QED
    BY <1>1, <1>4, <2>1, <2>2 DEF GInv, PhaseInv
<1>9. LoadInv' /\ FilesInv' /\ ~Loading /\ ~Loading'
  BY <1>1, <1>4 DEF GInv, LoadInv, FilesInv, Loading
<1>10. \A g : /\ Busy(g, {"def"}) => Busy(g, {"def"})'
              /\ Busy(g, {"def", "route", "handles"}) => Busy(g, {"def", "route", "handles"})'
              /\ Busy(g, {"calls"}) => Busy(g, {"calls"})'
              /\ Busy(g, {"calls", "synth", "edge"}) => Busy(g, {"calls", "synth", "edge"})'
  BY <1>1, <1>5 DEF Busy
<1>11. \A g : Defined(g) => Defined(g)'
  BY <1>1, <1>4, <1>6 DEF Defined, Read
<1>12. \A g : Defined(g)' => Defined(g) \/ (g = wfile'[w] /\ wpc'[w] = "def")
  BY <1>1, <1>4, <1>6 DEF Defined, Read
<1>13. DefsTrue'
  BY <1>1, <1>6, <1>9, <1>11 DEF GInv, DefsTrue
<1>14. \A v \in Workers : Ahead(v) /\ Ahead(v)'
  BY <1>1 DEF Ahead
<1>15. DefsThere'
  <2>1. \A g : Defined(g)' /\ ~Busy(g, {"def"})' => Defined(g) /\ ~Busy(g, {"def"})
    BY <1>10, <1>12, SMTT(60) DEF Busy
  <2> QED
    BY <1>1, <1>9, <1>14, <2>1 DEF GInv, DefsThere
<1>16. ReadyInv'
  <2>1. ASSUME NEW v \in Workers \ {w} PROVE Src(v)' = Src(v) /\ wpc'[v] = wpc[v] /\ wfile'[v] = wfile[v]
    BY <1>1, <1>5 DEF Src
  <2>2. wpc'[w] \in {"done", "take", "def", "calls"}
    BY <1>5
  <2> QED
    BY <1>1, <2>1, <2>2 DEF GInv, ReadyInv
<1>17. SoundInv'
  <2>1. Reference(Seen) \subseteq Reference(Seen)'
    BY <1>1, <1>4, <1>6, SeenGrows
  <2>2. Reference(Tree) = Reference(Seen) /\ Reference(Tree)' = Reference(Seen)'
    BY <1>9 DEF Tree
  <2> QED
    BY <1>1, <2>1, <2>2, SoundStays, KeepsSelf DEF GInv
<1>18. \A r : Carried(r) => Carried(r)'
  BY <1>1, <1>14, CarriedStays, KeepsSelf
<1>19. \A g : ~Bound(g)' /\ (Registered(g)' <=> phase = "resolve") /\ (Registered(g) <=> phase = "resolve")
  BY <1>1 DEF Bound, Registered
<1>20. ASSUME NEW g \in cached PROVE FileComplete(g)'
  <2>1. FileComplete(g)
    BY <1>9 DEF GInv, CompleteInv
  <2>2. Extracted(g)' => Extracted(g)
    BY <1>10 DEF Extracted
  <2>3. phase = "resolve" => (Calls(g)' <=> Calls(g))
    BY <1>1, <1>4, <1>5 DEF Calls, Defined, Read
  <2>4. Resolved(g, {"calls"})' => phase = "resolve" /\ Resolved(g, {"calls"})
    <3>1. CASE wfile'[w] = g /\ wpc'[w] = "calls"
      BY <1>1, <3>1 DEF Resolved, Busy
    <3>2. CASE ~(wfile'[w] = g /\ wpc'[w] = "calls")
      BY <1>1, <1>5, <1>10, <3>2 DEF Resolved
    <3> QED
      BY <3>1, <3>2
  <2>5. Resolved(g, {"calls", "synth", "edge"})' => Resolved(g, {"calls", "synth", "edge"})
    <3>1. CASE wfile'[w] = g /\ wpc'[w] = "calls"
      BY <1>1, <3>1 DEF Resolved, Busy
    <3>2. CASE ~(wfile'[w] = g /\ wpc'[w] = "calls")
      BY <1>1, <1>5, <1>10, <3>2 DEF Resolved
    <3> QED
      BY <3>1, <3>2
  <2> HIDE DEF Shape
  <2> QED
    BY <1>1, <1>18, <1>19, <2>1, <2>2, <2>3, <2>4, <2>5, FileStays
<1>21. ASSUME NEW g \in cached', g \notin cached PROVE FileComplete(g)'
  <2>1. g = wfile'[w] /\ wpc'[w] = "def" /\ phase = "extract"
    BY <1>5, <1>21
  <2>2. ~Extracted(g)'
    BY <2>1 DEF Extracted, Busy
  <2>3. ~Registered(g)' /\ ~Bound(g)'
    BY <1>19, <2>1
  <2>4. ~Resolved(g, {"calls"})' /\ ~Resolved(g, {"calls", "synth", "edge"})'
    BY <1>1, <2>1 DEF Resolved
  <2> QED
    BY <2>2, <2>3, <2>4 DEF FileComplete
<1>22. CompleteInv'
  BY <1>1, <1>9, <1>18, <1>20, <1>21 DEF GInv, CompleteInv
<1> QED
  BY <1>4, <1>8, <1>9, <1>13, <1>15, <1>16, <1>17, <1>22 DEF GInv

\* What stands for a node in a worker's buffer while the main buffer rests
LEMMA MainEnd ==
  ASSUME IInv, pc = "work", NEW w \in Workers, NEW id, NEW q, q # ChannelQn, Is(main.nodes, id, q)
  PROVE  EndIs(w, id, q) /\ id < shared
<1>1. PICK i \in DOMAIN main.nodes : main.nodes[i].id = id /\ main.nodes[i].qn = q
  BY DEF Is
<1>2. i \in Sure
  BY <1>1 DEF Sure
<1>3. id < shared
  BY <1>1, <1>2 DEF IInv, MainIds, Below
<1>4. Without(wbuf[w].nodes, id)
  BY <1>1, <1>2 DEF IInv, MainIds, Unmerged, Free, Without
<1> QED
  BY <1>3, <1>4 DEF EndIs

\* One operation of a worker on its own buffer
LEMMA LocalEnds ==
  ASSUME IInv, pc = "work", pc' = pc, main' = main, pend' = pend, NEW w \in Workers, NEW gb,
         wbuf' = [wbuf EXCEPT ![w] = [nodes |-> gb.nodes, edges |-> gb.edges]],
         Grows(Buf(w), gb), wbuf[w].edges \subseteq gb.edges
  PROVE  /\ wbuf'[w].nodes = gb.nodes /\ wbuf'[w].edges = gb.edges
         /\ \A v \in Workers \ {w} : wbuf'[v] = wbuf[v]
         /\ \A q : Has(wbuf[w].nodes, q) => Has(gb.nodes, q)
         /\ \A v \in Workers : \A id, q : EndIs(v, id, q) => EndIs(v, id, q)'
         /\ \A v \in Workers : \A e, r : LocalIs(v, e, r) => LocalIs(v, e, r)'
         /\ \A r : Carried(r) => Carried(r)'
<1>1. wbuf = [v \in Workers |-> [nodes |-> wbuf[v].nodes, edges |-> wbuf[v].edges]]
  BY DEF IInv, BufInv
<1>2. /\ wbuf'[w].nodes = gb.nodes /\ wbuf'[w].edges = gb.edges
      /\ \A v \in Workers \ {w} : wbuf'[v] = wbuf[v]
  <2>1. DOMAIN wbuf = Workers
    BY <1>1
  <2>2. wbuf'[w] = [nodes |-> gb.nodes, edges |-> gb.edges]
    BY <2>1
  <2> QED
    BY <2>1, <2>2
<1>3. Buf(w).nodes = wbuf[w].nodes /\ Buf(w).next = shared
  BY DEF Buf
<1>4. Keeps(wbuf[w].nodes, gb.nodes)
  BY <1>3, GrowsKeeps
<1>5. \A q : Has(wbuf[w].nodes, q) => Has(gb.nodes, q)
  BY <1>4, KeepsHas
<1>6. ASSUME NEW id, NEW q, EndIs(w, id, q) PROVE EndIs(w, id, q)'
  <2>1. CASE Is(wbuf[w].nodes, id, q)
    BY <1>2, <1>4, <1>6, <2>1, KeepsHas DEF EndIs
  <2>2. CASE Is(main.nodes, id, q) /\ Without(wbuf[w].nodes, id)
    <3>1. id < shared
      BY <1>6, <2>2, MainEnd DEF EndIs
    <3>2. \A i \in DOMAIN gb.nodes : i \notin DOMAIN wbuf[w].nodes => shared <= gb.nodes[i].id
      BY <1>3 DEF Grows
    <3>3. \A i \in DOMAIN gb.nodes : gb.nodes[i].id \in Nat
      BY IdsNat DEF Grows, IsBuf
    <3>4. shared \in Nat
      BY DEF IInv, TypeOK
    <3>5. id \in Nat
      <4>1. \A i \in DOMAIN main.nodes : main.nodes[i].id \in Nat
        BY IdsNat DEF IInv, BufInv, IsBuf
      <4> QED
        BY <2>2, <4>1 DEF Is
    <3>6. \A i \in DOMAIN gb.nodes : i \notin DOMAIN wbuf[w].nodes => gb.nodes[i].id # id
      BY <3>1, <3>2, <3>3, <3>4, <3>5, SMTT(60)
    <3>7. Without(gb.nodes, id)
      BY <1>4, <2>2, <3>6 DEF Without, Keeps
    <3> QED
      BY <1>2, <1>6, <2>2, <3>7 DEF EndIs
  <2> QED
    BY <1>6, <2>1, <2>2 DEF EndIs
<1>7. \A v \in Workers : \A id, q : EndIs(v, id, q) => EndIs(v, id, q)'
  <2>1. \A v \in Workers \ {w} : \A id, q : EndIs(v, id, q) => EndIs(v, id, q)'
    BY <1>2 DEF EndIs
  <2> QED
    BY <1>6, <2>1
<1>8. \A v \in Workers : \A e, r : LocalIs(v, e, r) => LocalIs(v, e, r)'
  BY <1>7 DEF LocalIs
<1>9. \A v \in Workers : wbuf[v].edges \subseteq wbuf'[v].edges /\ Ahead(v)'
  BY <1>2 DEF Ahead
<1>10. \A r : Carried(r) => Carried(r)'
  BY <1>8, <1>9 DEF Carried
<1> QED
  BY <1>2, <1>5, <1>7, <1>8, <1>10

\* An operation of a worker on its own buffer, with file own in hand
Operates(w, own, l, gb) ==
  /\ Worker(w) /\ wfile[w] = own /\ wpc[w] \notin {"take", "done"}
  /\ Goto(w, l) /\ l \in (IF phase = "extract" THEN {"route", "handles", "take"} ELSE {"synth", "edge", "take"})
  /\ Local(w, gb) /\ Grows(Buf(w), gb) /\ wbuf[w].edges \subseteq gb.edges

\* The nodes that it may and must make
Makes(w, own, gb) ==
  /\ \A q : Has(gb.nodes, q) => \/ Has(wbuf[w].nodes, q) \/ q \in {RouteQn, DecoratorQn}
                                \/ q = DefQn(own) /\ now[own].def
  /\ wpc[w] = "def" /\ now[own].def => Has(gb.nodes, DefQn(own))

\* What it must have for the label it goes to
Heads(own, l, gb) ==
  /\ l \in {"route", "handles"} => now[own].def /\ now[own].handles /\ Has(gb.nodes, DefQn(own))
  /\ l = "handles" => Has(gb.nodes, RouteQn)
  /\ l \in {"synth", "edge"} => now[own].uses # None

\* The edges that it may make, and those it must have left behind
TrueEdges(w, gb) == \A e \in gb.edges : e \in wbuf[w].edges \/ \E r \in Reference(Seen) : LocalIs(w, e, r)'
Leaves(w, own, l) ==
  /\ phase = "extract" /\ l = "take" /\ now[own].def /\ now[own].handles => Carried(HandlesEdge(own))'
  /\ wpc[w] = "calls" /\ now[own].def /\ Calls(own) => \A r : r = CallsEdge(own) => Carried(r)'
  /\ phase = "resolve" /\ l = "take" /\ now[own].def =>
       /\ now[own].uses = "route" => Carried(RouteEdge(own))'
       /\ now[own].uses = "decorator" => Carried(DecoratorEdge(own))'

\* An operation adds nodes of the worker's own and edges that its file calls
\* for, and ends a pass over the file only with the edges of that pass.
LEMMA WorkerG ==
  ASSUME IInv, GInv, NEW w \in Workers, NEW own, NEW l, NEW gb, Operates(w, own, l, gb),
         Makes(w, own, gb), Heads(own, l, gb), TrueEdges(w, gb), Leaves(w, own, l)
  PROVE  GInv'
<1>1. /\ pc = "work" /\ pc' = pc /\ mode' = mode /\ was' = was /\ now' = now /\ main' = main
      /\ pend' = pend /\ manifests' = manifests /\ phase' = phase
      /\ cached' = cached /\ todo' = todo /\ wfile' = wfile /\ wpc' = [wpc EXCEPT ![w] = l]
      /\ wbuf' = [wbuf EXCEPT ![w] = [nodes |-> gb.nodes, edges |-> gb.edges]]
      /\ wfile[w] = own /\ wpc[w] \notin {"take", "done"}
      /\ l \in (IF phase = "extract" THEN {"route", "handles", "take"} ELSE {"synth", "edge", "take"})
  BY DEF Operates, Worker, Local, Goto, inputs, merge
<1>2. /\ wbuf'[w].nodes = gb.nodes /\ wbuf'[w].edges = gb.edges
      /\ \A v \in Workers \ {w} : wbuf'[v] = wbuf[v]
      /\ \A q : Has(wbuf[w].nodes, q) => Has(gb.nodes, q)
      /\ \A v \in Workers : \A e, r : LocalIs(v, e, r) => LocalIs(v, e, r)'
      /\ \A r : Carried(r) => Carried(r)'
  BY <1>1, LocalEnds DEF Operates
<1>3. wpc'[w] = l /\ \A v \in Workers \ {w} : wpc'[v] = wpc[v]
  BY <1>1 DEF IInv, BufInv
<1>4. Changed' = Changed /\ Seen' = Seen /\ \A f : (Defined(f)' <=> Defined(f)) /\ (Calls(f)' <=> Calls(f))
  BY <1>1, SeenSame
<1>5. /\ ~Loading /\ ~Loading' /\ phase \in {"extract", "resolve"} /\ own \in cached
      /\ \A v \in Workers : Ahead(v) /\ Ahead(v)'
      /\ \A v \in Workers : /\ wpc[v] \in {"def", "route", "handles"} => phase = "extract"
                            /\ wpc[v] \in {"calls", "synth", "edge"} => phase = "resolve"
  BY <1>1 DEF Loading, Ahead, IInv, TypeOK, GInv, PhaseInv
<1>6. InputInv' /\ LoadInv' /\ FilesInv'
  BY <1>1, <1>4, <1>5 DEF GInv, InputInv, LoadInv, FilesInv
<1>7. PhaseInv'
  <2>1. ASSUME NEW v \in Workers
        PROVE  /\ wpc'[v] \in {"def", "route", "handles"} => phase = "extract"
               /\ wpc'[v] \in {"calls", "synth", "edge"} => phase = "resolve"
               /\ wpc'[v] \notin {"take", "done"} => wfile[v] \in cached
               /\ wpc'[v] = "done" => todo = {}
    <3>1. CASE v = w
      BY <1>1, <1>3, <1>5, <3>1
    <3>2. CASE v # w
      BY <1>1, <1>3, <3>2 DEF GInv, PhaseInv
    <3> QED
      BY <3>1, <3>2
  <2> QED
    BY <1>1, <1>4, <2>1 DEF GInv, PhaseInv
<1>8. DefsTrue'
  <2>1. ASSUME NEW f \in FileT, Has(gb.nodes, DefQn(f)) PROVE f \in cached /\ now[f].def
    <3>1. CASE Has(wbuf[w].nodes, DefQn(f))
      BY <3>1 DEF GInv, DefsTrue
    <3>2. CASE DefQn(f) = DefQn(own) /\ now[own].def
      BY <1>5, <3>2, Names
    <3> QED
      BY <2>1, <3>1, <3>2, Names DEF Makes
  <2>2. \A v \in Workers \ {w} : \A f \in FileT : Has(wbuf'[v].nodes, DefQn(f)) => f \in cached /\ now[f].def
    BY <1>2 DEF GInv, DefsTrue
  <2>3. \A v \in Workers : \A f \in FileT : Has(wbuf'[v].nodes, DefQn(f)) => f \in cached /\ now[f].def
    BY <1>2, <2>1, <2>2
  <2> QED
    BY <1>1, <1>4, <1>5, <2>3 DEF GInv, DefsTrue
<1>9. DefsThere'
  <2>1. ASSUME NEW f \in Files, Defined(f), ~Busy(f, {"def"})'
        PROVE  \/ Has(main.nodes, DefQn(f))
               \/ phase = "extract" /\ \E v \in Workers : Has(wbuf'[v].nodes, DefQn(f))
    <3>1. CASE ~Busy(f, {"def"})
      <4>1. \A v \in Workers : \A q : Has(wbuf[v].nodes, q) => Has(wbuf'[v].nodes, q)
        BY <1>2
      <4> QED
        BY <1>5, <2>1, <3>1, <4>1 DEF GInv, DefsThere
    <3>2. CASE Busy(f, {"def"})
      <4>1. own = f /\ wpc[w] = "def"
        BY <1>1, <1>3, <2>1, <3>2 DEF Busy
      <4>2. Has(wbuf'[w].nodes, DefQn(f))
        BY <1>2, <2>1, <4>1 DEF Makes, Defined
      <4> QED
        BY <1>5, <4>1, <4>2
    <3> QED
      BY <3>1, <3>2
  <2> QED
    BY <1>1, <1>4, <1>5, <2>1 DEF DefsThere
<1>10. ReadyInv'
  <2> DEFINE Ready(v) ==
               /\ wpc[v] \in {"route", "handles"} =>
                    Src(v).def /\ Src(v).handles /\ Has(wbuf[v].nodes, DefQn(wfile[v]))
               /\ wpc[v] = "handles" => Has(wbuf[v].nodes, RouteQn)
               /\ wpc[v] \in {"synth", "edge"} => Src(v).uses # None
               /\ ~Has(wbuf[v].nodes, ChannelQn)
  <2>1. \A v \in Workers : Ready(v)
    BY DEF GInv, ReadyInv
  <2>2. \A v \in Workers : Src(v)' = Src(v)
    BY <1>1 DEF Src
  <2>3. ~Has(gb.nodes, ChannelQn)
    BY <2>1, Names DEF Makes
  <2>4. Ready(w)'
    <3>1. Src(w)' = now[own]
      BY <1>1 DEF Src
    <3> QED
      BY <1>1, <1>2, <1>3, <2>3, <3>1 DEF Heads
  <2>5. ASSUME NEW v \in Workers, v # w PROVE Ready(v)'
    <3>1. wpc'[v] = wpc[v] /\ wbuf'[v] = wbuf[v] /\ wfile' = wfile
      BY <1>1, <1>2, <1>3, <2>5
    <3> QED
      BY <2>1, <2>2, <3>1
  <2> HIDE DEF Ready
  <2>6. \A v \in Workers : Ready(v)'
    BY <2>4, <2>5
  <2> QED
    BY <2>6 DEF ReadyInv, Ready
<1>11. SoundInv'
  <2>1. Reference(Tree) = Reference(Seen) /\ Reference(Tree)' = Reference(Seen) /\ Reference(Seen)' = Reference(Seen)
    BY <1>4, <1>5 DEF Tree
  <2>2. \A e \in gb.edges : \E r \in Reference(Seen) : LocalIs(w, e, r)'
    BY <1>2 DEF GInv, SoundInv, TrueEdges
  <2>3. \A v \in Workers \ {w} : \A e \in wbuf'[v].edges : \E r \in Reference(Seen) : LocalIs(v, e, r)'
    BY <1>2 DEF GInv, SoundInv
  <2>4. \A v \in Workers : \A e \in wbuf'[v].edges : \E r \in Reference(Seen) : LocalIs(v, e, r)'
    BY <1>2, <2>2, <2>3
  <2> QED
    BY <1>1, <2>1, <2>4 DEF GInv, SoundInv
<1>12. \A f : ~Bound(f)' /\ (Registered(f)' <=> Registered(f))
  BY <1>1 DEF Bound, Registered
<1>13. ASSUME NEW f \in cached PROVE FileComplete(f)'
  <2> DEFINE mine == f = own
  <2>1. FileComplete(f)
    BY <1>5 DEF GInv, CompleteInv
  <2>2. ~mine => /\ Busy(f, {"def", "route", "handles"}) => Busy(f, {"def", "route", "handles"})'
                 /\ Busy(f, {"calls"}) => Busy(f, {"calls"})'
                 /\ Busy(f, {"calls", "synth", "edge"}) => Busy(f, {"calls", "synth", "edge"})'
    BY <1>1, <1>3 DEF Busy
  <2>3. now[f].def /\ now[f].handles /\ Extracted(f)' => Extracted(f) \/ Carried(HandlesEdge(f))'
    <3>1. CASE ~mine
      BY <2>2, <3>1 DEF Extracted
    <3>2. CASE phase = "resolve"
      BY <1>5, <3>2 DEF Extracted, Busy
    <3>3. CASE mine /\ phase = "extract"
      <4>1. Extracted(f)' => l \notin {"def", "route", "handles"}
        BY <1>1, <1>3, <3>3 DEF Extracted, Busy
      <4>2. Extracted(f)' => l = "take"
        BY <1>1, <3>3, <4>1
      <4> QED
        BY <3>3, <4>2 DEF Leaves
    <3> QED
      BY <1>5, <3>1, <3>2, <3>3
  <2>4. now[f].def /\ Calls(f)' /\ Resolved(f, {"calls"})' =>
          (Calls(f) /\ Resolved(f, {"calls"})) \/ \A r : r = CallsEdge(f) => Carried(r)'
    <3>1. CASE ~mine
      BY <1>1, <1>4, <2>2, <3>1 DEF Resolved
    <3>2. CASE mine /\ wpc[w] = "calls"
      BY <1>4, <3>2 DEF Leaves
    <3>3. CASE mine /\ wpc[w] # "calls"
      <4>1. Busy(f, {"calls"}) => Busy(f, {"calls"})'
        BY <1>1, <1>3, <3>3 DEF Busy
      <4> QED
        BY <1>1, <1>4, <4>1 DEF Resolved
    <3> QED
      BY <3>1, <3>2, <3>3
  <2>5. now[f].def /\ Resolved(f, {"calls", "synth", "edge"})' =>
          \/ Resolved(f, {"calls", "synth", "edge"})
          \/ /\ now[f].uses = "route" => Carried(RouteEdge(f))'
             /\ now[f].uses = "decorator" => Carried(DecoratorEdge(f))'
    <3>1. CASE ~mine
      BY <1>1, <2>2, <3>1 DEF Resolved
    <3>2. CASE mine
      <4>1. Resolved(f, {"calls", "synth", "edge"})' => phase = "resolve" /\ l \notin {"calls", "synth", "edge"}
        BY <1>1, <1>3, <3>2 DEF Resolved, Busy
      <4>2. Resolved(f, {"calls", "synth", "edge"})' => phase = "resolve" /\ l = "take"
        BY <1>1, <1>5, <4>1
      <4> QED
        BY <3>2, <4>2 DEF Leaves
    <3> QED
      BY <3>1, <3>2
  <2> HIDE DEF mine
  <2> QED
    BY <1>1, <1>2, <1>12, <2>1, <2>3, <2>4, <2>5, FileStays
<1>14. CompleteInv'
  BY <1>1, <1>2, <1>5, <1>13 DEF GInv, CompleteInv
<1> QED
  BY <1>6, <1>7, <1>8, <1>9, <1>10, <1>11, <1>14 DEF GInv

\* An edge of a worker's buffer is on its way.
LEMMA CarriedLocal ==
  ASSUME pc' = "work", NEW w \in Workers, NEW r, \E e \in wbuf'[w].edges : LocalIs(w, e, r)'
  PROVE  Carried(r)'
BY DEF Carried, Ahead

\* An edge between two of a worker's own nodes
LEMMA OwnEdge ==
  ASSUME NEW w \in Workers, NEW nodes, wbuf'[w].nodes = nodes, NEW e, NEW r, EdgeIs(nodes, e, r),
         r[1] # ChannelQn, r[2] # ChannelQn
  PROVE  LocalIs(w, e, r)'
BY DEF EdgeIs, LocalIs, EndIs

\* What a worker with a file in hand can rely on
LEMMA WorkerFacts ==
  ASSUME IInv, GInv, NEW w \in Workers, pc = "work", wpc[w] \notin {"take", "done"}
  PROVE  /\ IsBuf(Buf(w)) /\ Buf(w).nodes = wbuf[w].nodes /\ Buf(w).edges = wbuf[w].edges
         /\ wfile[w] \in cached /\ wfile[w] \in Files /\ wfile[w] \in FileT
         /\ DefQn(wfile[w]) \in QN \ {NoQn}
         /\ RouteQn \in QN \ {NoQn} /\ DecoratorQn \in QN \ {NoQn} /\ None \in FileT
         /\ now[wfile[w]] \in ContentT
         /\ Src(w) = now[wfile[w]]
         /\ Defined(wfile[w]) <=> Src(w).def
         /\ wpc[w] \in {"def", "route", "handles"} => phase = "extract"
         /\ wpc[w] \in {"calls", "synth", "edge"} => phase = "resolve"
<1>1. IsBuf(Buf(w)) /\ Buf(w).nodes = wbuf[w].nodes /\ Buf(w).edges = wbuf[w].edges
  BY DEF IInv, BufInv, TypeOK, IsBuf, Buf
<1>2. wfile[w] \in cached /\ wfile[w] \in Files /\ wfile[w] \in FileT /\ None \in FileT
  BY DEF GInv, PhaseInv, IInv, TypeOK, FileT
<1>3. now[wfile[w]] \in ContentT
  BY <1>2, Inputs DEF GInv
<1>4. Defined(wfile[w]) <=> Src(w).def
  BY <1>2, <1>3 DEF Defined, Read, Src, ContentT
<1>5. /\ DefQn(wfile[w]) \in QN \ {NoQn} /\ RouteQn \in QN \ {NoQn} /\ DecoratorQn \in QN \ {NoQn}
  BY <1>2, QnLemma
<1>6. /\ wpc[w] \in {"def", "route", "handles"} => phase = "extract"
      /\ wpc[w] \in {"calls", "synth", "edge"} => phase = "resolve"
  BY DEF GInv, PhaseInv
<1> QED
  BY <1>1, <1>2, <1>3, <1>4, <1>5, <1>6 DEF Src

\* The three steps of extraction
LEMMA ExtractDefG ==
  ASSUME IInv, GInv, NEW w \in Workers, ExtractDef(w)
  PROVE  GInv'
<1>1. Worker(w) /\ wpc[w] = "def" /\ pc = "work"
  BY DEF ExtractDef, Worker
<1>2. PICK own : own = wfile[w]
  OBVIOUS
<1>3. PICK g : g = Buf(w)
  OBVIOUS
<1>4. /\ IsBuf(g) /\ g.nodes = wbuf[w].nodes /\ g.edges = wbuf[w].edges
      /\ own \in FileT /\ DefQn(own) \in QN \ {NoQn} /\ phase = "extract" /\ Src(w) = now[own]
  BY <1>1, <1>2, <1>3, WorkerFacts
<1>5. PICK l \in {"route", "take"} : Goto(w, l) /\ (l = "route" <=> now[own].def /\ now[own].handles)
  BY <1>4 DEF ExtractDef
<1>6. PICK gb : Local(w, gb) /\ gb = IF now[own].def THEN Upsert(g, DefQn(own), own) ELSE g
  BY <1>2, <1>3, <1>4 DEF ExtractDef
<1>7. /\ Grows(g, gb) /\ gb.edges = g.edges
      /\ now[own].def => Has(gb.nodes, DefQn(own))
      /\ \A q : Has(gb.nodes, q) => Has(g.nodes, q) \/ (q = DefQn(own) /\ now[own].def)
  <2>1. CASE now[own].def
    <3>1. gb = Upsert(g, DefQn(own), own)
      BY <1>6, <2>1
    <3>2. Grows(g, gb) /\ Has(gb.nodes, DefQn(own))
      BY <1>4, <3>1, UpsertLemma
    <3>3. gb.edges = g.edges /\ \A q : Has(gb.nodes, q) => Has(g.nodes, q) \/ q = DefQn(own)
      BY <1>4, <3>1, UpsertKeeps
    <3> QED
      BY <2>1, <3>2, <3>3
  <2>2. CASE ~now[own].def
    BY <1>4, <1>6, <2>2, GrowsSelf
  <2> QED
    BY <2>1, <2>2
<1>8. Operates(w, own, l, gb)
  BY <1>1, <1>2, <1>3, <1>4, <1>5, <1>6, <1>7 DEF Operates
<1>9. Makes(w, own, gb)
  BY <1>4, <1>7 DEF Makes
<1>10. Heads(own, l, gb)
  BY <1>5, <1>7 DEF Heads
<1>11. TrueEdges(w, gb)
  BY <1>4, <1>7 DEF TrueEdges
<1>12. Leaves(w, own, l)
  BY <1>1, <1>4, <1>5 DEF Leaves
<1> QED
  BY <1>8, <1>9, <1>10, <1>11, <1>12, WorkerG

\* The route of a handler is a node of the worker's own.
LEMMA ExtractRouteG ==
  ASSUME IInv, GInv, NEW w \in Workers, ExtractRoute(w)
  PROVE  GInv'
<1>1. PICK l : l = "handles"
  OBVIOUS
<1>2. Worker(w) /\ wpc[w] = "route" /\ pc = "work" /\ Goto(w, l)
  BY <1>1 DEF ExtractRoute, Worker
<1>3. PICK own : own = wfile[w]
  OBVIOUS
<1>4. PICK g : g = Buf(w)
  OBVIOUS
<1>5. /\ IsBuf(g) /\ g.nodes = wbuf[w].nodes /\ g.edges = wbuf[w].edges
      /\ own \in FileT /\ RouteQn \in QN \ {NoQn} /\ phase = "extract" /\ Src(w) = now[own]
  BY <1>2, <1>3, <1>4, WorkerFacts
<1>6. PICK gb : Local(w, gb) /\ gb = Upsert(g, RouteQn, own)
  BY <1>3, <1>4 DEF ExtractRoute
<1>7. Grows(g, gb) /\ Has(gb.nodes, RouteQn)
  BY <1>5, <1>6, UpsertLemma
<1>8. gb.edges = g.edges /\ Keeps(g.nodes, gb.nodes) /\ \A q : Has(gb.nodes, q) => Has(g.nodes, q) \/ q = RouteQn
  BY <1>5, <1>6, UpsertKeeps
<1>9. \A q : Has(g.nodes, q) => Has(gb.nodes, q)
  BY <1>8, KeepsHas
<1>10. now[own].def /\ now[own].handles /\ Has(gb.nodes, DefQn(own))
  BY <1>2, <1>3, <1>5, <1>9 DEF GInv, ReadyInv
<1>11. Operates(w, own, l, gb)
  BY <1>1, <1>2, <1>3, <1>4, <1>5, <1>6, <1>7, <1>8 DEF Operates
<1>12. Makes(w, own, gb)
  BY <1>2, <1>5, <1>8 DEF Makes
<1>13. Heads(own, l, gb)
  BY <1>1, <1>7, <1>10 DEF Heads
<1>14. TrueEdges(w, gb)
  BY <1>5, <1>8 DEF TrueEdges
<1>15. Leaves(w, own, l)
  BY <1>1, <1>2, <1>5 DEF Leaves
<1> QED
  BY <1>11, <1>12, <1>13, <1>14, <1>15, WorkerG

\* The HANDLES edge joins two nodes of the worker's own buffer.
LEMMA ExtractHandlesG ==
  ASSUME IInv, GInv, NEW w \in Workers, ExtractHandles(w)
  PROVE  GInv'
<1>1. Worker(w) /\ wpc[w] = "handles" /\ pc = "work" /\ Goto(w, "take") /\ pc' = "work" /\ main' = main /\ pend' = pend
  BY DEF ExtractHandles, Worker, merge
<1> DEFINE g == Buf(w)
<1>2. PICK own : own = wfile[w]
  OBVIOUS
<1>3. /\ IsBuf(g) /\ g.nodes = wbuf[w].nodes /\ g.edges = wbuf[w].edges
      /\ own \in Files /\ DefQn(own) \in QN \ {NoQn} /\ RouteQn \in QN \ {NoQn} /\ phase = "extract"
      /\ Defined(own) <=> Src(w).def
      /\ Src(w) = now[own]
  BY <1>1, <1>2, WorkerFacts
<1>4. PICK gb : Local(w, gb) /\ gb = Link(g, DefQn(own), RouteQn, "HANDLES")
  BY <1>2 DEF ExtractHandles
<1>5. Src(w).def /\ Src(w).handles /\ Has(g.nodes, DefQn(own)) /\ Has(g.nodes, RouteQn)
  BY <1>1, <1>2, <1>3 DEF GInv, ReadyInv
<1>6. /\ g.edges \subseteq gb.edges /\ gb.nodes = g.nodes
      /\ \A e \in gb.edges : e \in g.edges \/ EdgeIs(g.nodes, e, HandlesEdge(own))
      /\ \E e \in gb.edges : EdgeIs(g.nodes, e, HandlesEdge(own))
  BY <1>3, <1>4, <1>5, LinkEdges DEF HandlesEdge
<1>7. Grows(Buf(w), gb)
  BY <1>3, <1>4, LinkLemma
<1>8. wbuf' = [wbuf EXCEPT ![w] = [nodes |-> gb.nodes, edges |-> gb.edges]]
  BY <1>4 DEF Local
<1>9. wbuf'[w].nodes = g.nodes /\ wbuf'[w].edges = gb.edges
  BY <1>1, <1>3, <1>6, <1>7, <1>8, LocalEnds
<1>10. HandlesEdge(own)[1] # ChannelQn /\ HandlesEdge(own)[2] # ChannelQn
  BY Names DEF HandlesEdge
<1> HIDE DEF g
<1>11. PICK r : r = HandlesEdge(own)
  OBVIOUS
<1>12. \A e : EdgeIs(g.nodes, e, r) => LocalIs(w, e, r)'
  BY <1>9, <1>10, <1>11, OwnEdge
<1>13. r \in Reference(Seen)
  <2>1. Called(own, r)
    BY <1>3, <1>5, <1>11 DEF Called
  <2> QED
    BY <1>3, <2>1, CalledReference DEF GInv
<1>14. \A e \in gb.edges : e \in wbuf[w].edges \/ \E d \in Reference(Seen) : LocalIs(w, e, d)'
  BY <1>3, <1>6, <1>11, <1>12, <1>13
<1>15. Carried(HandlesEdge(own))'
  <2>1. Carried(r)'
    BY <1>1, <1>6, <1>9, <1>11, <1>12, CarriedLocal
  <2> QED
    BY <1>11, <2>1 DEF HandlesEdge
<1>16. PICK l : l = "take"
  OBVIOUS
<1>17. wbuf[w].edges \subseteq gb.edges /\ gb.nodes = wbuf[w].nodes
  BY <1>3, <1>6
<1>18. Operates(w, own, l, gb)
  BY <1>1, <1>2, <1>3, <1>4, <1>7, <1>16, <1>17 DEF Operates
<1>19. Makes(w, own, gb)
  BY <1>1, <1>17 DEF Makes
<1>20. Heads(own, l, gb)
  BY <1>16 DEF Heads
<1>21. TrueEdges(w, gb)
  BY <1>14 DEF TrueEdges
<1>22. Leaves(w, own, l)
  BY <1>1, <1>3, <1>15 DEF Leaves
<1> QED
  BY <1>18, <1>19, <1>20, <1>21, <1>22, WorkerG

\* The three steps of resolution
LEMMA ResolveCallsG ==
  ASSUME IInv, GInv, NEW w \in Workers, ResolveCalls(w)
  PROVE  GInv'
<1>1. Worker(w) /\ wpc[w] = "calls" /\ pc = "work" /\ pc' = "work" /\ main' = main /\ pend' = pend
  BY DEF ResolveCalls, Worker, merge
<1> DEFINE g == Buf(w)
<1>2. PICK own : own = wfile[w]
  OBVIOUS
<1>3. /\ IsBuf(g) /\ g.nodes = wbuf[w].nodes /\ g.edges = wbuf[w].edges
      /\ own \in Files /\ own \in FileT /\ phase = "resolve" /\ now[own] \in ContentT
      /\ Defined(own) <=> Src(w).def
      /\ Src(w) = now[own]
  BY <1>1, <1>2, WorkerFacts
<1>4. PICK to : to = Src(w).calls
  OBVIOUS
<1>5. to \in FileT
  BY <1>3, <1>4 DEF ContentT, FileT
<1> DEFINE q1 == DefQn(own)
           q2 == DefQn(to)
           found == Has(main.nodes, q1) /\ Has(main.nodes, q2) /\ q1 # q2
           d == <<IdOf(main.nodes, q1), IdOf(main.nodes, q2), "CALLS">>
<1>6. PICK l \in {"synth", "take"} : Goto(w, l) /\ (l = "synth" <=> Has(main.nodes, q1) /\ Src(w).uses # None)
  BY <1>2 DEF ResolveCalls
<1>7. PICK gb : Local(w, gb) /\ gb = IF found THEN Insert(g, IdOf(main.nodes, q1), IdOf(main.nodes, q2), "CALLS") ELSE g
  BY <1>2, <1>4 DEF ResolveCalls
<1>8. ~Loading /\ \A f : ~Busy(f, {"def"})
  BY <1>1, <1>3 DEF Loading, Busy, GInv, PhaseInv
<1>9. /\ \A f \in FileT : Has(main.nodes, DefQn(f)) => f \in Files /\ Defined(f)
      /\ \A f \in Files : Defined(f) => Has(main.nodes, DefQn(f))
  BY <1>3, <1>8 DEF GInv, DefsTrue, DefsThere
<1>10. found => Defined(own) /\ Calls(own)
  BY <1>3, <1>4, <1>5, <1>9 DEF Calls
<1>11. Src(w).def /\ Calls(own) => found
  <2>1. ASSUME Src(w).def, Calls(own) PROVE found
    <3>1. to \in Files /\ to # own /\ Defined(to)
      BY <1>3, <1>4, <2>1 DEF Calls
    <3> QED
      BY <1>3, <1>9, <2>1, <3>1, Names
  <2> QED
    BY <2>1
<1> HIDE DEF g
<1>12. /\ Grows(g, gb) /\ gb.nodes = g.nodes /\ g.edges \subseteq gb.edges
       /\ \A e \in gb.edges : e \in g.edges \/ (found /\ e = d)
       /\ found => d \in gb.edges
  <2>1. CASE found
    <3>1. gb = Insert(g, IdOf(main.nodes, q1), IdOf(main.nodes, q2), "CALLS")
      BY <1>7, <2>1
    <3>2. gb.edges = g.edges \union {d}
      BY <1>3, <3>1, InsertEdge, SMTT(60)
    <3>3. Grows(g, gb) /\ gb.nodes = g.nodes
      BY <1>3, <3>1, InsertLemma
    <3> HIDE DEF d, found
    <3> QED
      BY <2>1, <3>2, <3>3
  <2>2. CASE ~found
    BY <1>3, <1>7, <2>2, GrowsSelf
  <2> QED
    BY <2>1, <2>2
<1>13. PICK r : r = CallsEdge(own)
  OBVIOUS
<1>14. found => LocalIs(w, d, r)
  <2>1. ASSUME found PROVE LocalIs(w, d, r)
    <3>1. Is(main.nodes, IdOf(main.nodes, q1), q1) /\ Is(main.nodes, IdOf(main.nodes, q2), q2)
      BY <2>1, IdIs
    <3>2. EndIs(w, IdOf(main.nodes, q1), q1) /\ EndIs(w, IdOf(main.nodes, q2), q2)
      BY <1>1, <3>1, MainEnd, Names
    <3>3. r = <<q1, q2, "CALLS">>
      BY <1>3, <1>4, <1>13 DEF CallsEdge
    <3> QED
      BY <3>2, <3>3 DEF LocalIs
  <2> QED
    BY <2>1
<1>15. Grows(Buf(w), gb) /\ wbuf[w].edges \subseteq gb.edges /\ gb.nodes = wbuf[w].nodes
  BY <1>3, <1>12 DEF g
<1>16. wbuf' = [wbuf EXCEPT ![w] = [nodes |-> gb.nodes, edges |-> gb.edges]]
  BY <1>7 DEF Local
<1>d. PICK d0 : d0 = d
  OBVIOUS
<1> HIDE DEF found, d
<1>17. wbuf'[w].edges = gb.edges /\ (found => LocalIs(w, d0, r)')
  BY <1>1, <1>d, <1>14, <1>15, <1>16, LocalEnds
<1>18. found => r \in Reference(Seen)
  <2>1. found => Called(own, r)
    BY <1>10, <1>13 DEF Called
  <2> QED
    BY <1>3, <2>1, CalledReference DEF GInv
<1>19. \A e \in gb.edges : e \in wbuf[w].edges \/ \E s \in Reference(Seen) : LocalIs(w, e, s)'
  BY <1>3, <1>d, <1>12, <1>17, <1>18
<1>20. found => Carried(r)'
  BY <1>1, <1>d, <1>12, <1>17, CarriedLocal
<1>21. Src(w).def /\ Calls(own) => \A s : s = CallsEdge(own) => Carried(s)'
  BY <1>11, <1>13, <1>20
<1>22. l = "take" /\ Src(w).def => Src(w).uses = None
  BY <1>3, <1>6, <1>9
<1>23. Src(w).uses = None => Src(w).uses # "route" /\ Src(w).uses # "decorator"
  BY DEF None
<1> HIDE DEF q1, q2
<1>24. Operates(w, own, l, gb)
  BY <1>1, <1>2, <1>3, <1>6, <1>7, <1>15 DEF Operates
<1>25. Makes(w, own, gb)
  BY <1>1, <1>15 DEF Makes
<1>26. Heads(own, l, gb)
  BY <1>3, <1>6 DEF Heads
<1>27. TrueEdges(w, gb)
  BY <1>19 DEF TrueEdges
<1>28. Leaves(w, own, l)
  BY <1>1, <1>3, <1>21, <1>22, <1>23 DEF Leaves
<1> QED
  BY <1>24, <1>25, <1>26, <1>27, <1>28, WorkerG

\* The made-up node goes into the worker's own buffer.
LEMMA ResolveSynthG ==
  ASSUME IInv, GInv, NEW w \in Workers, ResolveSynth(w)
  PROVE  GInv'
<1>1. PICK l : l = "edge"
  OBVIOUS
<1>2. Worker(w) /\ wpc[w] = "synth" /\ pc = "work" /\ Goto(w, l)
  BY <1>1 DEF ResolveSynth, Worker
<1>3. PICK own : own = wfile[w]
  OBVIOUS
<1>4. PICK g : g = Buf(w)
  OBVIOUS
<1>5. PICK q0 : q0 = SynthQn(w)
  OBVIOUS
<1>6. /\ IsBuf(g) /\ g.nodes = wbuf[w].nodes /\ g.edges = wbuf[w].edges
      /\ None \in FileT /\ phase = "resolve" /\ Src(w) = now[own]
  BY <1>2, <1>3, <1>4, WorkerFacts
<1>7. q0 \in {RouteQn, DecoratorQn} /\ q0 \in QN \ {NoQn}
  BY <1>2, <1>5, WorkerFacts DEF SynthQn
<1>8. PICK gb : Local(w, gb) /\ gb = Upsert(g, q0, None)
  BY <1>4, <1>5 DEF ResolveSynth
<1>9. Grows(g, gb)
  BY <1>6, <1>7, <1>8, UpsertLemma
<1>10. gb.edges = g.edges /\ \A q : Has(gb.nodes, q) => Has(g.nodes, q) \/ q = q0
  BY <1>6, <1>7, <1>8, UpsertKeeps
<1>11. now[own].uses # None
  BY <1>2, <1>6 DEF GInv, ReadyInv
<1>12. Operates(w, own, l, gb)
  BY <1>1, <1>2, <1>3, <1>4, <1>6, <1>8, <1>9, <1>10 DEF Operates
<1>13. Makes(w, own, gb)
  BY <1>2, <1>6, <1>7, <1>10 DEF Makes
<1>14. Heads(own, l, gb)
  BY <1>1, <1>11 DEF Heads
<1>15. TrueEdges(w, gb)
  BY <1>6, <1>10 DEF TrueEdges
<1>16. Leaves(w, own, l)
  BY <1>1, <1>2, <1>6 DEF Leaves
<1> QED
  BY <1>12, <1>13, <1>14, <1>15, <1>16, WorkerG

\* The edge to it starts at a node of the main buffer.
LEMMA ResolveEdgeG ==
  ASSUME IInv, GInv, NEW w \in Workers, ResolveEdge(w)
  PROVE  GInv'
<1>1. Worker(w) /\ wpc[w] = "edge" /\ pc = "work" /\ Goto(w, "take") /\ pc' = "work" /\ main' = main /\ pend' = pend
  BY DEF ResolveEdge, Worker, merge
<1> DEFINE g == Buf(w)
<1>2. PICK own : own = wfile[w]
  OBVIOUS
<1>3. /\ IsBuf(g) /\ g.nodes = wbuf[w].nodes /\ g.edges = wbuf[w].edges
      /\ own \in Files /\ own \in FileT /\ phase = "resolve" /\ now[own] \in ContentT
      /\ Defined(own) <=> Src(w).def
      /\ Src(w) = now[own]
  BY <1>1, <1>2, WorkerFacts
<1>4. Has(main.nodes, DefQn(own)) /\ Has(wbuf[w].nodes, SynthQn(w)) /\ Src(w).uses # None
  BY <1>1, <1>2 DEF IInv, EndsInv, GInv, ReadyInv
<1>5. Src(w).uses \in {"route", "decorator"}
  BY <1>3, <1>4 DEF ContentT
<1>6. Defined(own)
  <2>1. ~Loading
    BY <1>1 DEF Loading
  <2> QED
    BY <1>3, <1>4, <2>1 DEF GInv, DefsTrue
<1>7. PICK t : t = IF Src(w).uses = "route" THEN "CALLS" ELSE "DECORATES"
  OBVIOUS
<1>8. PICK r : r = IF Src(w).uses = "route" THEN RouteEdge(own) ELSE DecoratorEdge(own)
  OBVIOUS
<1> DEFINE d == <<IdOf(main.nodes, DefQn(own)), IdOf(wbuf[w].nodes, SynthQn(w)), t>>
<1>9. r = <<DefQn(own), SynthQn(w), t>>
  BY <1>7, <1>8 DEF RouteEdge, DecoratorEdge, SynthQn
<1>10. PICK gb : Local(w, gb) /\ gb = Insert(g, IdOf(main.nodes, DefQn(own)), IdOf(wbuf[w].nodes, SynthQn(w)), t)
  BY <1>2, <1>7 DEF ResolveEdge
<1>11. LocalIs(w, d, r)
  <2>1. Is(main.nodes, IdOf(main.nodes, DefQn(own)), DefQn(own))
    BY <1>4, IdIs
  <2>2. EndIs(w, IdOf(main.nodes, DefQn(own)), DefQn(own))
    BY <1>1, <2>1, MainEnd, Names
  <2>3. SynthQn(w) # ChannelQn
    BY Names DEF SynthQn
  <2>4. EndIs(w, IdOf(wbuf[w].nodes, SynthQn(w)), SynthQn(w))
    BY <1>4, <2>3, IdIs DEF EndIs
  <2> QED
    BY <1>9, <2>2, <2>4 DEF LocalIs
<1>12. Grows(g, gb) /\ gb.nodes = g.nodes /\ gb.edges = g.edges \union {d}
  <2>1. Grows(g, gb) /\ gb.nodes = g.nodes
    BY <1>3, <1>10, InsertLemma, SMTT(60)
  <2>2. gb.edges = g.edges \union {d}
    BY <1>3, <1>10, InsertEdge, SMTT(60)
  <2> QED
    BY <2>1, <2>2
<1>13. Grows(Buf(w), gb) /\ wbuf[w].edges \subseteq gb.edges /\ gb.nodes = wbuf[w].nodes
  BY <1>3, <1>12
<1>14. wbuf' = [wbuf EXCEPT ![w] = [nodes |-> gb.nodes, edges |-> gb.edges]]
  BY <1>10 DEF Local
<1>15. PICK d0 : d0 = d
  OBVIOUS
<1> HIDE DEF d, g
<1>16. wbuf'[w].edges = gb.edges /\ LocalIs(w, d0, r)'
  BY <1>1, <1>11, <1>13, <1>14, <1>15, LocalEnds
<1>17. r \in Reference(Seen)
  <2>1. Called(own, r)
    BY <1>3, <1>5, <1>6, <1>8 DEF Called
  <2> QED
    BY <1>3, <2>1, CalledReference DEF GInv
<1>18. \A e \in gb.edges : e \in wbuf[w].edges \/ \E s \in Reference(Seen) : LocalIs(w, e, s)'
  BY <1>3, <1>12, <1>15, <1>16, <1>17
<1>19. Carried(r)'
  BY <1>1, <1>12, <1>15, <1>16, CarriedLocal
<1>20. /\ Src(w).uses = "route" => Carried(RouteEdge(own))'
       /\ Src(w).uses = "decorator" => Carried(DecoratorEdge(own))'
  BY <1>8, <1>19 DEF RouteEdge, DecoratorEdge
<1>21. PICK l : l = "take"
  OBVIOUS
<1>22. Operates(w, own, l, gb)
  BY <1>1, <1>2, <1>3, <1>10, <1>13, <1>21 DEF Operates
<1>23. Makes(w, own, gb)
  BY <1>1, <1>13 DEF Makes
<1>24. Heads(own, l, gb)
  BY <1>21 DEF Heads
<1>25. TrueEdges(w, gb)
  BY <1>18 DEF TrueEdges
<1>26. Leaves(w, own, l)
  BY <1>1, <1>3, <1>20 DEF Leaves
<1> QED
  BY <1>22, <1>23, <1>24, <1>25, <1>26, WorkerG

\* A run starts with the invariant.
LEMMA InitGInv == Init => GInv
<1> SUFFICES ASSUME Init PROVE GInv
  OBVIOUS
<1>1. /\ pc \in {"load", "files"} /\ phase = "extract" /\ cached = {} /\ manifests = {} /\ todo = {} /\ pend = {}
      /\ main.nodes = <<>> /\ main.edges = {} /\ pc = (IF mode = "full" THEN "files" ELSE "load")
  BY DEF Init, EmptyNodes
<1>2. \A w \in Workers : /\ wbuf[w].nodes = <<>> /\ wbuf[w].edges = {}
                         /\ wpc[w] = "done"
  BY DEF Init, NoBuf, EmptyNodes
<1>3. InputInv
  BY DEF Init, InputInv
<1>4. \A q : ~Has(<<>>, q)
  <2>1. DOMAIN <<>> = {}
    BY SMTT(60)
  <2> QED
    BY <2>1 DEF Has
<1>5. PhaseInv
  BY <1>1, <1>2 DEF PhaseInv
<1>6. LoadInv
  <2>1. DOMAIN <<>> = {}
    BY SMTT(60)
  <2> QED
    BY <1>1, <2>1 DEF LoadInv
<1>7. FilesInv
  BY <1>1 DEF FilesInv
<1>8. DefsTrue
  BY <1>1, <1>2, <1>4 DEF DefsTrue
<1>9. DefsThere
  <2>1. ASSUME ~Loading, NEW f \in Files PROVE ~Defined(f)
    <3>1. mode = "full"
      BY <1>1, <2>1 DEF Loading
    <3>2. was[f] = Absent
      BY <1>3, <3>1 DEF InputInv
    <3>3. f \notin Changed => now[f] = Absent
      BY <1>3, <3>2, Inputs DEF Changed
    <3>4. ~Absent.def
      BY DEF Absent
    <3> QED
      BY <1>1, <3>3, <3>4 DEF Defined, Read
  <2> QED
    BY <2>1 DEF DefsThere
<1>10. ReadyInv
  BY <1>2, <1>4 DEF ReadyInv
<1>11. SoundInv
  BY <1>1, <1>2 DEF SoundInv
<1>12. CompleteInv
  BY <1>1 DEF CompleteInv
<1> QED
  BY <1>3, <1>5, <1>6, <1>7, <1>8, <1>9, <1>10, <1>11, <1>12 DEF GInv

\* A step that changes nothing
LEMMA StutterG ==
  ASSUME IInv, GInv, UNCHANGED vars
  PROVE  GInv'
<1>1. /\ main' = main /\ wbuf' = wbuf /\ wpc' = wpc /\ wfile' = wfile /\ mode' = mode /\ was' = was
      /\ pc' = pc /\ phase' = phase /\ mw' = mw /\ pend' = pend
      /\ todo' = todo /\ cached' = cached /\ manifests' = manifests /\ now' = now
  BY DEF vars, inputs, workers, read, merge
<1>2. Changed' = Changed /\ Seen' = Seen /\ (Loading' <=> Loading) /\ \A w : Ahead(w)' <=> Ahead(w)
  BY <1>1, SeenSame DEF Loading, Ahead
<1>3. CASE Loading
  <2>1. LoadInv'
    BY <1>1, <1>2 DEF GInv, LoadInv
  <2>2. (pc' = "load" => pend' = {}) /\ \A e \in pend' : e = <<e[1], e[2], e[3]>>
    BY <1>1 DEF GInv, PhaseInv
  <2> QED
    BY <1>1, <1>2, <1>3, <2>1, <2>2, LoadingStep, KeepsSelf
<1>4. CASE ~Loading
  <2>1. InputInv' /\ PhaseInv' /\ LoadInv' /\ FilesInv'
    BY <1>1, <1>2 DEF GInv, InputInv, PhaseInv, LoadInv, FilesInv
  <2>2. DefsTrue' /\ DefsThere' /\ ReadyInv'
    BY <1>1, <1>2, <1>4, NodesStay, KeepsSelf DEF GInv
  <2>3. SoundInv'
    <3>1. Reference(Tree)' = Reference(Tree) /\ Reference(Seen)' = Reference(Seen)
      BY <1>1, <1>2 DEF Tree
    <3> QED
      BY <1>1, <3>1, SoundStays, KeepsSelf DEF GInv
  <2>4. \A r : Carried(r) => Carried(r)'
    BY <1>1, <1>2, CarriedStays, KeepsSelf
  <2>5. \A f : /\ Extracted(f)' => Extracted(f)
               /\ Resolved(f, {"calls"})' => Resolved(f, {"calls"})
               /\ Resolved(f, {"calls", "synth", "edge"})' => Resolved(f, {"calls", "synth", "edge"})
               /\ Registered(f)' => Registered(f)
               /\ Bound(f)' => Bound(f)
    BY <1>1 DEF Extracted, Resolved, Registered, Bound, Busy
  <2>6. CompleteInv'
    BY <1>1, <1>4, <2>4, <2>5, CompleteStays DEF GInv
  <2> QED
    BY <2>1, <2>2, <2>3, <2>6 DEF GInv
<1> QED
  BY <1>3, <1>4

\* Every step keeps the invariant.
LEMMA NextGInv == IInv /\ GInv /\ [Next]_vars => GInv'
<1> SUFFICES ASSUME IInv, GInv, [Next]_vars PROVE GInv'
  OBVIOUS
<1>1. CASE LoadNode
  BY <1>1, LoadNodeG
<1>2. CASE LoadEdges
  BY <1>2, LoadEdgesG
<1>3. CASE Purge
  BY <1>3, PurgeG
<1>4. CASE AddFile
  BY <1>4, AddFileG
<1>5. CASE Sync \/ StartExtract \/ RegistryDone
  BY <1>5, BetweenG
<1>6. CASE Joined \/ MergeNext \/ Dump
  BY <1>6, MoveOn
<1>7. CASE MergeNode
  BY <1>7, MergeNodeG
<1>8. CASE MergeEdges
  BY <1>8, MergeEdgesG
<1>9. CASE InsertPending
  BY <1>9, InsertPendingG
<1>10. ASSUME NEW f \in Files, Registry(f) \/ InfraBinding(f) \/ K8sManifest(f) PROVE GInv'
  BY <1>10, RegistryG, InfraBindingG, K8sManifestG
<1>11. ASSUME NEW w \in Workers, Take(w) \/ ExtractDef(w) \/ ExtractRoute(w) \/ ExtractHandles(w) PROVE GInv'
  BY <1>11, TakeG, ExtractDefG, ExtractRouteG, ExtractHandlesG
<1>12. ASSUME NEW w \in Workers, ResolveCalls(w) \/ ResolveSynth(w) \/ ResolveEdge(w) PROVE GInv'
  BY <1>12, ResolveCallsG, ResolveSynthG, ResolveEdgeG
<1>13. CASE UNCHANGED vars
  BY <1>13, StutterG
<1> QED
  BY <1>1, <1>2, <1>3, <1>4, <1>5, <1>6, <1>7, <1>8, <1>9, <1>10, <1>11, <1>12, <1>13 DEF Next
-----------------------------------------------------------------------------
(* The end of a run *)

\* Every edge whose ends are not in doubt is dumped as the one it stands for.
DoneInv ==
  pc = "done" =>
    /\ Settled(graph) \subseteq Reference(Seen)
    /\ \A f \in Changed : \A e \in Settled(EdgesOf(f, Seen[f], Seen)) :
         e \in graph \/ (e[3] = "INFRA_MAPS" /\ mode = "incr")

\* An edge of the sources is a triple, and only EMITS edges end at a Channel.
LEMMA EdgeShape ==
  ASSUME InputInv, NEW r \in Reference(Seen)
  PROVE  /\ r = <<r[1], r[2], r[3]>> /\ r[1] # NoQn /\ r[2] # NoQn
         /\ r[3] # "EMITS" => r[1] # ChannelQn /\ r[2] # ChannelQn
<1>1. PICK f \in Files : Called(f, r)
  BY CalledReference
<1>2. r[1] # NoQn /\ r[2] # NoQn
  BY ReferenceLemma
<1>3. r = <<r[1], r[2], r[3]>>
  BY <1>1, SMTT(60) DEF Called, DefinesEdge, HandlesEdge, EmitsEdge, RouteEdge, DecoratorEdge, CallsEdge, InfraEdge, ResourceEdge
<1>4. r[3] # "EMITS" => r[1] # ChannelQn /\ r[2] # ChannelQn
  <2>1. ASSUME r[3] # "EMITS" PROVE r # EmitsEdge(f)
    BY <2>1, SMTT(60) DEF EmitsEdge
  <2>2. ASSUME NEW g, r = DefinesEdge(g) \/ r = HandlesEdge(g) \/ r = RouteEdge(g) \/ r = DecoratorEdge(g)
                      \/ r = CallsEdge(g) \/ r = InfraEdge \/ r = ResourceEdge(g)
        PROVE  r[1] # ChannelQn /\ r[2] # ChannelQn
    BY <2>2, Names, SMTT(60) DEF DefinesEdge, HandlesEdge, RouteEdge, DecoratorEdge, CallsEdge, InfraEdge, ResourceEdge
  <2> QED
    BY <1>1, <2>1, <2>2 DEF Called
<1> QED
  BY <1>2, <1>3, <1>4

\* cbm_gbuf_dump_to_sqlite writes an edge as the reference edge that it is.
LEMMA DumpedEdge ==
  ASSUME IInv, GInv, pc = "late", NEW d, NEW r \in Reference(Seen), EdgeIs(main.nodes, d, r),
         minted => r[3] # "EMITS"
  PROVE  <<DumpedAs(main, d[1]), DumpedAs(main, d[2]), d[3]>> = r /\ r[1] # NoQn /\ r[2] # NoQn
<1>1. /\ r = <<r[1], r[2], r[3]>> /\ r[1] # NoQn /\ r[2] # NoQn
      /\ minted => r[1] # ChannelQn /\ r[2] # ChannelQn
  BY EdgeShape DEF GInv
<1>2. DumpedAs(main, d[1]) = r[1] /\ DumpedAs(main, d[2]) = r[2]
  BY <1>1, DumpedIs DEF EdgeIs
<1> QED
  BY <1>1, <1>2 DEF EdgeIs

\* What is in the main buffer at the end is what the dump writes.
LEMMA DumpDone ==
  ASSUME IInv, GInv, Dump
  PROVE  DoneInv'
<1>1. /\ pc = "late" /\ todo = {} /\ graph' = DumpedEdges(main) /\ mode' = mode /\ was' = was /\ now' = now
      /\ cached' = cached /\ manifests' = manifests /\ minted' = minted
  BY DEF Dump, inputs, read
<1>2. Changed' = Changed /\ Seen' = Seen
  BY <1>1, SeenSame
<1>3. ~Loading /\ Tree = Seen /\ pend = {} /\ phase = "resolve" /\ \A w \in Workers : ~Ahead(w) /\ wpc[w] = "done"
  BY <1>1 DEF Loading, Tree, Ahead, GInv, PhaseInv
<1>4. ASSUME NEW e \in graph', minted => e[3] # "EMITS" PROVE e \in Reference(Seen)
  <2>1. PICK d \in main.edges : e = <<DumpedAs(main, d[1]), DumpedAs(main, d[2]), d[3]>>
    BY <1>1, <1>4 DEF DumpedEdges
  <2>2. PICK r \in Reference(Seen) : EdgeIs(main.nodes, d, r)
    BY <1>3 DEF GInv, SoundInv
  <2>3. minted => r[3] # "EMITS"
    BY <1>4, <2>1, <2>2 DEF EdgeIs
  <2> QED
    BY <1>1, <2>1, <2>2, <2>3, DumpedEdge
<1>5. ASSUME NEW r \in Reference(Seen), minted => r[3] # "EMITS", Carried(r) PROVE r \in graph'
  <2>1. PICK d \in main.edges : EdgeIs(main.nodes, d, r)
    BY <1>3, <1>5 DEF Carried
  <2>2. <<DumpedAs(main, d[1]), DumpedAs(main, d[2]), d[3]>> = r /\ r[1] # NoQn /\ r[2] # NoQn
    BY <1>1, <1>5, <2>1, DumpedEdge
  <2> QED
    BY <1>1, <2>1, <2>2 DEF DumpedEdges
<1>6. ASSUME NEW f \in Changed, NEW r, Called(f, r) PROVE Carried(r) \/ (r[3] = "INFRA_MAPS" /\ mode = "incr")
  <2>1. f \in cached => FileComplete(f)
    BY <1>3 DEF GInv, CompleteInv
  <2>2. f \in manifests => Carried(ResourceEdge(f))
    BY <1>3 DEF GInv, CompleteInv
  <2>3. /\ Extracted(f) /\ Registered(f) /\ Resolved(f, {"calls"}) /\ Resolved(f, {"calls", "synth", "edge"})
        /\ mode = "full" => Bound(f)
    BY <1>1, <1>3 DEF Extracted, Registered, Resolved, Bound, Busy
  <2>4. mode \in {"full", "incr"}
    BY DEF GInv, InputInv
  <2>5. InfraEdge[3] = "INFRA_MAPS"
    BY DEF InfraEdge
  <2> QED
    BY <1>6, <2>1, <2>2, <2>3, <2>4, <2>5 DEF Called, Defined, Read, FileComplete
<1>7. ASSUME NEW f \in Changed, NEW r \in EdgesOf(f, Seen[f], Seen), minted => r[3] # "EMITS"
      PROVE  r \in graph' \/ (r[3] = "INFRA_MAPS" /\ mode = "incr")
  <2>1. f \in Files
    BY DEF Changed
  <2>2. Called(f, r)
    BY <2>1, CalledFor DEF GInv
  <2>3. r \in Reference(Seen)
    BY <2>1, <2>2, CalledReference DEF GInv
  <2> QED
    BY <1>5, <1>6, <1>7, <2>2, <2>3
<1>8. Settled(graph)' \subseteq Reference(Seen)
  BY <1>1, <1>4 DEF Settled
<1>9. \A f \in Changed : \A e : e \in EdgesOf(f, Seen[f], Seen) /\ (minted => e[3] # "EMITS") =>
        e \in graph' \/ (e[3] = "INFRA_MAPS" /\ mode = "incr")
  BY <1>7
<1>10. Reference(Seen)' = Reference(Seen) /\ \A f : EdgesOf(f, Seen[f], Seen)' = EdgesOf(f, Seen[f], Seen)
  BY <1>2
<1> QED
  BY <1>1, <1>2, <1>8, <1>9, <1>10 DEF DoneInv, Settled

\* Nothing happens to a graph that is dumped.
LEMMA OnlyDump ==
  ASSUME Next, pc' = "done"
  PROVE  Dump
<1>1. ~(LoadNode \/ LoadEdges \/ Purge \/ AddFile \/ StartExtract)
  BY DEF LoadNode, LoadEdges, Purge, AddFile, StartExtract
<1>2. ~(Joined \/ MergeNode \/ MergeEdges \/ InsertPending \/ MergeNext \/ Sync \/ RegistryDone)
  BY DEF Joined, MergeNode, MergeEdges, InsertPending, MergeNext, Sync, RegistryDone
<1>3. \A f \in Files : ~(Registry(f) \/ InfraBinding(f) \/ K8sManifest(f))
  BY DEF Registry, InfraBinding, K8sManifest
<1>4. \A w \in Workers : ~Worker(w)
  BY DEF Worker
<1>5. \A w \in Workers : ~(Take(w) \/ ExtractDef(w) \/ ExtractRoute(w) \/ ExtractHandles(w)
                           \/ ResolveCalls(w) \/ ResolveSynth(w) \/ ResolveEdge(w))
  BY <1>4 DEF Take, ExtractDef, ExtractRoute, ExtractHandles, ResolveCalls, ResolveSynth, ResolveEdge
<1> QED
  BY <1>1, <1>2, <1>3, <1>5 DEF Next

\* The dump is the last step of a run.
LEMMA NextDone == IInv /\ GInv /\ DoneInv /\ [Next]_vars => DoneInv'
<1> SUFFICES ASSUME IInv, GInv, DoneInv, [Next]_vars PROVE DoneInv'
  OBVIOUS
<1>1. CASE Next /\ pc' = "done"
  BY <1>1, OnlyDump, DumpDone
<1>2. CASE pc' # "done"
  BY <1>2 DEF DoneInv
<1>3. CASE UNCHANGED vars
  <2>1. /\ pc' = pc /\ graph' = graph /\ mode' = mode /\ was' = was /\ now' = now
        /\ cached' = cached /\ manifests' = manifests /\ minted' = minted
    BY <1>3 DEF vars, inputs, read
  <2>2. Changed' = Changed /\ Seen' = Seen
    BY <2>1, SeenSame
  <2>3. Reference(Seen)' = Reference(Seen) /\ \A f : EdgesOf(f, Seen[f], Seen)' = EdgesOf(f, Seen[f], Seen)
    BY <2>2
  <2>4. \A es : Settled(es)' = Settled(es)
    BY <2>1 DEF Settled
  <2> QED
    BY <2>1, <2>2, <2>3, <2>4 DEF DoneInv, Settled
<1> QED
  BY <1>1, <1>2, <1>3

\* The three invariants hold throughout.
LEMMA BuildInv == Spec => [](IInv /\ GInv /\ DoneInv)
<1>1. Init => DoneInv
  BY DEF Init, DoneInv
<1> QED
  BY <1>1, InitIInv, InitGInv, NextIInv, NextGInv, NextDone, PTL DEF Spec

\* FullBuildExact: a full run dumps the edges the sources call for and no
\* other, whatever the files and the number of workers, however the workers
\* interleave and in whatever order cbm_gbuf_merge meets the same QN. Edges to
\* a Channel that cbm_build_registry_from_cache created are left out.
THEOREM FullBuild == Spec => []FullBuildExact
<1>1. ASSUME GInv, DoneInv, pc = "done", mode = "full" PROVE Settled(graph) = Settled(Reference(Seen))
  <2>1. InputInv
    BY <1>1 DEF GInv
  <2>2. ASSUME NEW f \in Files, f \notin Changed, NEW r PROVE r \notin EdgesOf(f, Seen[f], Seen)
    <3>1. was[f] = Absent
      BY <1>1, <2>1 DEF InputInv
    <3>2. now[f] = Absent
      BY <2>1, <2>2, <3>1, Inputs DEF Changed
    <3>3. ~Called(f, r)
      BY <3>2, SMTT(60) DEF Called, Defined, Absent, None
    <3> QED
      BY <2>1, <3>3, CalledFor
  <2>3. ASSUME NEW r \in Settled(Reference(Seen)) PROVE r \in Settled(graph)
    <3>1. PICK f \in Files : r \in EdgesOf(f, Seen[f], Seen)
      BY <2>3 DEF Settled, Reference
    <3>2. f \in Changed
      BY <2>2, <3>1
    <3>3. r \in Settled(EdgesOf(f, Seen[f], Seen))
      BY <2>3, <3>1 DEF Settled
    <3>4. r \in graph
      BY <1>1, <3>2, <3>3 DEF DoneInv
    <3> QED
      BY <2>3, <3>4 DEF Settled
  <2>4. ASSUME NEW r \in Settled(graph) PROVE r \in Settled(Reference(Seen))
    BY <1>1, <2>4 DEF DoneInv, Settled
  <2> QED
    BY <2>3, <2>4
<1>2. GInv /\ DoneInv => FullBuildExact
  BY <1>1 DEF FullBuildExact
<1> QED
  BY <1>2, BuildInv, PTL

\* IncrementalExact: after cbm_gbuf_load_from_db and cbm_gbuf_delete_by_file
\* an incremental run dumps no edge the sources do not call for, and every one
\* that a re-parsed file calls for but its infra bindings.
THEOREM IncrementalBuild == Spec => []IncrementalExact
<1>1. DoneInv => IncrementalExact
  BY DEF DoneInv, IncrementalExact
<1> QED
  BY <1>1, BuildInv, PTL
=============================================================================
