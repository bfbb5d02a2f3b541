------------------------------ MODULE StoreProofs ------------------------------
(***************************************************************************)
(* The two SQLite files that several threads and processes share, for any  *)
(* number of runs, requests, edits and faults: the database of a project   *)
(* (ProjectStore) and the agent-memory manifest (MemoryManifest).          *)
(*                                                                         *)
(* ProjectStore. A step is a change of the file system, made by one actor, *)
(* and a change of that actor's own state. What matters of the first is    *)
(* collected in Fit (what the new files are like) and After (what is left  *)
(* once files that nobody holds are forgotten); lemma Step says once what  *)
(* that does to the other runs, to the cached connection and to the ADR.   *)
(* The invariant behind the seven results is IInv: Claim is what a run     *)
(* that nobody surprised finds at the path at each of its steps, and Good  *)
(* what is true of every file, also of one whose name is gone.             *)
(*                                                                         *)
(* MemoryManifest. The three results become inductive with what a process  *)
(* between its INSERT and its UPDATE knows: the rows it will update are in *)
(* memories or were validated behind its back.                             *)
(***************************************************************************)
EXTENDS ProjectStore, MemoryManifest, TLAPS

\* A leaf that names no prover is tried with Zenon, then with SMT.
USE ZenonT(60), SMTT(60)
USE ProjectStoreAssumption

-----------------------------------------------------------------------------
(* Files *)

Srcs == {"none", "run", "raced", "failed", "ui", "import"}
Bys == Srcs \union Runners \union {"clean"}
FileT == [st : States, g : Nat, h : Nat, adr : Nat, src : Srcs, by : Bys, two : BOOLEAN]
FsT == [path : Slots \union {0}, files : [Slots -> FileT]]

\* Two files that differ at most in who took the name away.
Same(x, y) == /\ x.st = y.st /\ x.g = y.g /\ x.h = y.h
              /\ x.adr = y.adr /\ x.src = y.src /\ x.two = y.two

LEMMA FileTyped ==
  ASSUME NEW st \in States, NEW g \in Nat, NEW h \in Nat, NEW adr \in Nat, NEW src \in Srcs
  PROVE  LET x == File(st, g, h, adr, src)
         IN /\ x \in FileT /\ x.st = st /\ x.g = g /\ x.h = h /\ x.adr = adr
            /\ x.src = src /\ x.by = "none" /\ x.two = FALSE
BY DEF File, FileT, Bys, Srcs

LEMMA NoFileTyped ==
  NoFile \in FileT /\ NoFile.st = "part" /\ NoFile.g = 0 /\ NoFile.h = 0 /\ NoFile.adr = 0 /\ NoFile.src = "none"
BY DEF NoFile, File, FileT, States, Srcs, Bys

LEMMA AtTyped ==
  ASSUME NEW f \in FsT
  PROVE  At(f) \in FileT /\ (f.path # 0 => f.path \in Slots /\ At(f) = f.files[f.path])
BY NoFileTyped DEF At, FsT

LEMMA RewriteLemma ==
  ASSUME NEW f \in FsT, NEW i \in Slots, NEW x \in FileT
  PROVE  LET n == Rewrite(f, i, x)
         IN /\ n \in FsT /\ n.path = f.path /\ n.files[i] = x
            /\ \A j \in Slots \ {i} : n.files[j] = f.files[j]
            /\ f.path = i => At(n) = x
            /\ f.path # i => At(n) = At(f)
<1> DEFINE n == Rewrite(f, i, x)
<1>1. n \in FsT /\ n.path = f.path /\ n.files = [f.files EXCEPT ![i] = x]
  BY DEF Rewrite, FsT
<1> HIDE DEF n
<1>2. 0 \notin Slots
  BY SMTT(60) DEF Slots
<1> QED
  BY <1>1, <1>2 DEF FsT, At, n

\* The same of the file at the path
LEMMA RewriteAt ==
  ASSUME NEW f \in FsT, f.path \in Slots, NEW x \in FileT
  PROVE  Rewrite(f, f.path, x).path = f.path /\ At(Rewrite(f, f.path, x)) = x
<1>1. Rewrite(f, f.path, x).path = f.path /\ Rewrite(f, f.path, x).files[f.path] = x
  BY DEF Rewrite, FsT
<1>2. 0 \notin Slots
  BY SMTT(60) DEF Slots
<1> QED
  BY <1>1, <1>2 DEF At

LEMMA UnlinkLemma ==
  ASSUME NEW f \in FsT, NEW who \in Bys, conn \in Slots \union {0}
  PROVE  LET n == Unlink(f, who)
         IN /\ n \in FsT /\ n.path = 0
            /\ \A i \in Slots : Same(n.files[i], f.files[i])
            /\ \A i \in Slots : i # conn \/ i # f.path => n.files[i] = f.files[i]
            /\ conn # 0 /\ conn = f.path => n.files[conn].by = who
<1>1. CASE f.path = 0
  BY <1>1 DEF Unlink, Same, FsT, Slots
<1>2. CASE f.path # 0
  <2> DEFINE p == f.path
             x == [f.files[p] EXCEPT !.by = IF p = conn THEN who ELSE @]
             n == Unlink(f, who)
  <2>1. p \in Slots /\ f.files[p] \in FileT
    BY <1>2 DEF FsT
  <2>2. x \in FileT /\ Same(x, f.files[p]) /\ (p = conn => x.by = who) /\ (p # conn => x = f.files[p])
    BY <2>1 DEF FileT, Same
  <2>3. n = [path |-> 0, files |-> [f.files EXCEPT ![p] = x]]
    BY <1>2 DEF Unlink
  <2> HIDE DEF x, n
  <2>4. n \in FsT /\ n.path = 0 /\ n.files[p] = x /\ \A i \in Slots \ {p} : n.files[i] = f.files[i]
    BY <2>1, <2>2, <2>3 DEF FsT
  <2>5. \A i \in Slots : Same(f.files[i], f.files[i])
    BY DEF Same
  <2> HIDE DEF p
  <2>6. p = f.path
    BY DEF p
  <2> QED
    BY <2>1, <2>2, <2>4, <2>5, <2>6 DEF n
<1> QED
  BY <1>1, <1>2

\* There is a slot for one more file while no name leads to a file, or a run
\* has none open: four holders cannot take five slots.
LEMMA FreeSlot ==
  ASSUME NEW f \in FsT, conn \in Slots \union {0}, rfile \in [Runners -> Slots \union {0}],
         f.path = 0 \/ \E r \in Runners : rfile[r] = 0
  PROVE  \E i \in Slots : ~Held(f, i) /\ \A j \in Slots : j < i => Held(f, j)
<1> DEFINE H(i) == i = f.path \/ i = conn \/ i = rfile["srv"] \/ i = rfile["bg"] \/ i = rfile["child"]
<1>1. \A i \in Slots : Held(f, i) <=> H(i)
  BY DEF Held, Runners
<1>2. f.path = 0 \/ rfile["srv"] = 0 \/ rfile["bg"] = 0 \/ rfile["child"] = 0
  BY DEF Runners
<1>3. ~H(1) \/ ~H(2) \/ ~H(3) \/ ~H(4) \/ ~H(5)
  BY <1>2, SMTT(60)
<1>4. \E i \in 1..5 : ~H(i) /\ \A j \in 1..5 : j < i => H(j)
  <2> HIDE DEF H
  <2> QED
    BY <1>3, SMTT(60)
<1> QED
  BY <1>1, <1>4 DEF Slots

LEMMA PlaceLemma ==
  ASSUME NEW f \in FsT, NEW x \in FileT, NEW who \in Bys,
         conn \in Slots \union {0}, rfile \in [Runners -> Slots \union {0}],
         f.path = 0 \/ \E r \in Runners : rfile[r] = 0
  PROVE  LET n == Place(f, x, who)
         IN /\ n \in FsT /\ n.path \in Slots /\ ~Held(f, n.path) /\ At(n) = x /\ n.files[n.path] = x
            /\ \A i \in Slots \ {n.path} : n.files[i] = Unlink(f, who).files[i]
<1> DEFINE n == Place(f, x, who)
           k == CHOOSE i \in Slots : ~Held(f, i) /\ \A j \in Slots : j < i => Held(f, j)
           u == Unlink(f, who)
<1>1. k \in Slots /\ ~Held(f, k)
  BY FreeSlot
<1>2. n = [path |-> k, files |-> [u.files EXCEPT ![k] = x]]
  BY DEF Place
<1>3. u \in FsT
  BY UnlinkLemma
<1>4. 0 \notin Slots
  BY SMTT(60) DEF Slots
<1> HIDE DEF k, u, n
<1>5. n \in FsT /\ n.path = k /\ n.files[k] = x /\ \A i \in Slots \ {k} : n.files[i] = u.files[i]
  BY <1>1, <1>2, <1>3 DEF FsT
<1> QED
  BY <1>1, <1>4, <1>5 DEF At, n, u

-----------------------------------------------------------------------------
(* The inductive invariant *)

Labels == {"off", "import", "lock", "incr", "unlink", "open", "write", "finish",
           "persist", "export", "meta", "end"}
Excused == {"ui", "raced", "failed", "import"}

Bounded(f, v) == f \in FileT /\ f.g <= v /\ f.h <= v /\ f.adr <= MaxRequests

\* Of every file: RowsTruthful and ImportOpens.
Good(f, v) ==
  /\ Bounded(f, v)
  /\ f.st = "ok" /\ f.h # 0 /\ f.h # f.g => f.src = "import" \/ f.g = 0
  /\ f.src = "import" => f.st \in {"ok", "ghost"}

\* The graph at the path is of the present sources.
Fresh(f, v) == Here(f, {"ok"}) => At(f).g \in {0, v} \/ At(f).src = "import"

\* The run is between the removal of the old file and its hash rows.
Renews(r) == rpc[r] \in {"write", "finish", "persist"} \/ (rpc[r] = "open" /\ route[r] = "incr")

FsInv ==
  /\ fs \in FsT
  /\ \A i \in Slots : Good(fs.files[i], ver)
  /\ \A r \in Runners : rfile[r] # 0 => fs.files[rfile[r]].src # "import"
  /\ GhostOnlyBy

Types ==
  /\ conn \in Slots \union {0}
  /\ rpc \in [Runners -> Labels] /\ rfile \in [Runners -> Slots \union {0}]
  /\ rg \in [Runners -> Nat] /\ route \in [Runners -> {"full", "incr"}]
  /\ failed \subseteq Runners /\ hit \subseteq Runners
  /\ boot \in [Importers -> FileT]
  /\ spc \in {"ready", "clean", "run"} /\ lock \in {"srv", "bg", "none"}
  /\ edits \in Nat /\ ver = edits + 1 /\ requests \in 0..MaxRequests

\* What a run that nobody surprised finds at the path
Claim(l, p, f, own, g, v, bad) ==
  /\ l = "incr" => p # 0 /\ f.st = "ok" /\ f.h # 0
  /\ l = "open" => p = 0
  /\ l = "write" => p = own /\ f.st = "new" /\ ~f.two
  /\ l = "finish" => p = own /\ f.st = "part" /\ ~f.two
  /\ l = "persist" /\ ~bad => p # 0 /\ f.st = "ok" /\ f.g = g
  /\ l \in {"export", "meta", "end"} /\ ~bad =>
       p # 0 /\ f.st = "ok" /\ f.h = v /\ (f.g \in {v, 0} \/ f.src = "import")

RunOk(r) ==
  /\ r \notin hit => Claim(rpc[r], fs.path, At(fs), rfile[r], rg[r], ver, r \in failed)
  /\ rfile[r] # 0 <=> rpc[r] \in {"write", "finish"}
  /\ rg[r] <= ver /\ (InRun(r) => rg[r] \in {ver, 0})
  /\ rpc[r] = "import" => r \in Importers /\ boot[r].st \in {"ok", "ghost"}
  /\ r \in Locked => (InRun(r) <=> lock = r)
  /\ Renews(r) => Fresh(fs, ver)

\* The event loop has no connection while it runs the pipeline or cleans up.
LoopInv ==
  /\ spc = "run" <=> rpc["srv"] # "off"
  /\ spc = "clean" => conn = 0
  /\ rpc["srv"] \notin {"off", "import"} => conn = 0

ArtInv ==
  /\ art = [zst |-> art.zst, meta |-> art.meta, by |-> art.by, why |-> art.why]
  /\ Bounded(art.zst, ver) /\ art.meta \in {"none", "old", "fits"}
  /\ ArchiveWhole
  /\ \A r \in Importers : Bounded(boot[r], ver)

IInv ==
  /\ Types /\ FsInv /\ LoopInv /\ ArtInv
  /\ \A r \in Runners : RunOk(r)
  /\ StaleOnlyBy /\ AdrLostOnlyBy

\* What a step makes of the file system, before unheld slots are forgotten;
\* who is the one that takes the name away.
Fit(n, who) ==
  /\ n \in FsT
  /\ \A i \in Slots : Good(n.files[i], ver)
  /\ \A r \in Runners : rfile[r] # 0 => n.files[rfile[r]].src # "import"
  /\ conn \notin {0, n.path} => n.files[conn].by = IF conn = fs.path THEN who ELSE fs.files[conn].by
  /\ Fresh(fs, ver) => Fresh(n, ver)
  /\ Here(n, {"ghost"}) => At(n).src \in Excused

LEMMA Zero == 0 \notin Slots
BY SMTT(60) DEF Slots

LEMMA FitSelf ==
  ASSUME FsInv, NEW who PROVE Fit(fs, who)
BY DEF FsInv, Fit, GhostOnlyBy, Excused

LEMMA GoodSame ==
  ASSUME NEW v, NEW x \in FileT, NEW y, Good(y, v), Same(x, y) PROVE Good(x, v)
BY DEF Good, Bounded, Same

LEMMA FitUnlink ==
  ASSUME Types, FsInv, NEW who \in Bys PROVE Fit(Unlink(fs, who), who)
<1> DEFINE n == Unlink(fs, who)
<1>1. /\ n \in FsT /\ n.path = 0
      /\ \A i \in Slots : Same(n.files[i], fs.files[i])
      /\ \A i \in Slots : i # conn \/ i # fs.path => n.files[i] = fs.files[i]
      /\ conn # 0 /\ conn = fs.path => n.files[conn].by = who
  BY UnlinkLemma DEF Types, FsInv
<1> HIDE DEF n
<1>2. ~Here(n, {"ok"}) /\ ~Here(n, {"ghost"})
  BY <1>1 DEF Here
<1>3. \A i \in Slots : n.files[i] \in FileT
  BY <1>1 DEF FsT
<1>4. \A i \in Slots : Good(n.files[i], ver)
  BY <1>1, <1>3, GoodSame DEF FsInv
<1>5. \A r \in Runners : rfile[r] # 0 => n.files[rfile[r]].src # "import"
  BY <1>1 DEF FsInv, Same, Types
<1>6. conn \notin {0, n.path} => n.files[conn].by = IF conn = fs.path THEN who ELSE fs.files[conn].by
  BY <1>1 DEF Types
<1> QED
  BY <1>1, <1>2, <1>4, <1>5, <1>6 DEF Fit, Fresh, n

LEMMA FitPlace ==
  ASSUME Types, FsInv, NEW who \in Bys, NEW x, Good(x, ver),
         fs.path = 0 \/ \E r \in Runners : rfile[r] = 0,
         x.st = "ok" => x.g \in {0, ver} \/ x.src = "import",
         x.st = "ghost" => x.src \in Excused
  PROVE  LET n == Place(fs, x, who)
         IN Fit(n, who) /\ n.path \in Slots /\ At(n) = x /\ \A r \in Runners : rfile[r] # n.path
<1> DEFINE n == Place(fs, x, who)
           u == Unlink(fs, who)
<1>1. /\ n \in FsT /\ n.path \in Slots /\ ~Held(fs, n.path) /\ At(n) = x /\ n.files[n.path] = x
      /\ \A i \in Slots \ {n.path} : n.files[i] = u.files[i]
  <2>1. x \in FileT
    BY DEF Good, Bounded
  <2> QED
    BY <2>1, PlaceLemma, SMTT(60) DEF Types, FsInv
<1>2. Fit(u, who) /\ u.path = 0
  BY FitUnlink, UnlinkLemma DEF Types, FsInv
<1> HIDE DEF n, u
<1>3. n.path # conn /\ \A r \in Runners : rfile[r] # n.path
  BY <1>1 DEF Held
<1>4. \A i \in Slots : Good(n.files[i], ver)
  BY <1>1, <1>2 DEF Fit
<1>5. \A r \in Runners : rfile[r] # 0 => n.files[rfile[r]].src # "import"
  BY <1>1, <1>2, <1>3 DEF Fit, Types
<1>6. conn \notin {0, n.path} => n.files[conn].by = IF conn = fs.path THEN who ELSE fs.files[conn].by
  BY <1>1, <1>2, <1>3 DEF Types, Fit
<1>7. Fresh(n, ver) /\ (Here(n, {"ghost"}) => At(n).src \in Excused)
  BY <1>1 DEF Fresh, Here
<1> QED
  BY <1>1, <1>3, <1>4, <1>5, <1>6, <1>7 DEF Fit, n

LEMMA FitRewrite ==
  ASSUME Types, FsInv, NEW who, NEW m, Fit(m, who), NEW i \in Slots, NEW x, Good(x, ver),
         x.src = "import" => m.files[i].src = "import",
         i = m.path \/ x.by = m.files[i].by,
         i = m.path => /\ x.st = "ok" => \/ x.g \in {0, ver} \/ x.src = "import"
                                         \/ m.files[i].st = "ok" /\ x.g = m.files[i].g /\ x.src = m.files[i].src
                       /\ x.st = "ghost" => x.src \in Excused
  PROVE  Fit(Rewrite(m, i, x), who)
<1> DEFINE n == Rewrite(m, i, x)
<1>1. /\ n \in FsT /\ n.path = m.path /\ n.files[i] = x
      /\ \A j \in Slots \ {i} : n.files[j] = m.files[j]
      /\ m.path = i => At(n) = x
      /\ m.path # i => At(n) = At(m)
  <2>1. x \in FileT /\ m \in FsT
    BY DEF Good, Bounded, Fit
  <2> QED
    BY <2>1, RewriteLemma
<1> HIDE DEF n
<1>2. \A j \in Slots : Good(n.files[j], ver)
  BY <1>1 DEF Fit
<1>3. \A r \in Runners : rfile[r] # 0 => n.files[rfile[r]].src # "import"
  BY <1>1 DEF Fit, Types
<1>4. conn \notin {0, n.path} => n.files[conn].by = IF conn = fs.path THEN who ELSE fs.files[conn].by
  BY <1>1 DEF Fit, Types
<1>5. m.path = i => At(m) = m.files[i]
  BY Zero DEF At
<1>6. Fresh(m, ver) => Fresh(n, ver)
  BY <1>1, <1>5 DEF Fresh, Here
<1>7. Here(n, {"ghost"}) => At(n).src \in Excused
  BY <1>1, <1>5 DEF Fit, Here
<1> QED
  BY <1>1, <1>2, <1>3, <1>4, <1>6, <1>7 DEF Fit, n

LEMMA FitOpenCreate ==
  ASSUME Types, FsInv, NEW who, fs.path = 0 => who \in Excused
  PROVE  LET n == OpenCreate(fs, who)
         IN /\ Fit(n, "ui") /\ n.path # 0
            /\ fs.path # 0 => n.path = fs.path
            /\ fs.path # 0 /\ At(fs).st # "new" => n = fs
            /\ fs.path = 0 \/ At(fs).st = "new" => At(n).st = "ghost"
<1> DEFINE n == OpenCreate(fs, who)
<1>1. fs \in FsT /\ "ui" \in Bys /\ fs.path \in Slots \union {0}
  BY DEF FsInv, Bys, Srcs, FsT
<1>2. CASE fs.path = 0
  <2> DEFINE x == File("ghost", 0, 0, 0, who)
  <2>1. /\ x \in FileT /\ x.st = "ghost" /\ x.g = 0 /\ x.h = 0 /\ x.adr = 0 /\ x.src = who
    <3>1. "ghost" \in States /\ who \in Srcs
      BY <1>2 DEF States, Srcs, Excused
    <3> QED
      BY <3>1 DEF File, FileT, Bys, Srcs
  <2>2. who \in Bys
    BY <1>2 DEF Bys, Srcs, Excused
  <2>3. n = Place(fs, x, who)
    BY <1>2 DEF OpenCreate
  <2> HIDE DEF x
  <2>4. Good(x, ver)
    BY <2>1, SMTT(60) DEF Good, Bounded, Types
  <2>5. Fit(n, who) /\ n.path \in Slots /\ At(n) = x
    BY <1>2, <2>1, <2>2, <2>3, <2>4, FitPlace
  <2>6. Fit(n, "ui")
    <3> HIDE DEF n
    <3> QED
      BY <1>2, <2>5 DEF Fit
  <2> QED
    BY <1>2, <2>1, <2>5, <2>6, Zero
<1>3. CASE fs.path # 0 /\ At(fs).st = "new"
  <2> DEFINE f == At(fs)
             x == [f EXCEPT !.st = "ghost", !.src = "raced", !.two = TRUE]
  <2>1. fs.path \in Slots /\ f = fs.files[fs.path] /\ f \in FileT /\ Good(f, ver)
    BY <1>1, <1>3 DEF At, FsInv, FsT
  <2>2. /\ x \in FileT /\ x.st = "ghost" /\ x.src = "raced" /\ x.g = f.g /\ x.h = f.h /\ x.adr = f.adr
    BY <2>1 DEF FileT, States, Srcs
  <2>3. n = Rewrite(fs, fs.path, x)
    BY <1>3 DEF OpenCreate
  <2> HIDE DEF x, f
  <2>4. Good(x, ver) /\ "raced" \in Excused
    BY <2>1, <2>2 DEF Good, Bounded, Excused
  <2>5. Fit(fs, "ui")
    BY FitSelf
  <2>6. Fit(Rewrite(fs, fs.path, x), "ui")
    BY <2>1, <2>2, <2>4, <2>5, FitRewrite
  <2>7. n.path = fs.path /\ At(n) = x
    BY <1>1, <2>1, <2>2, <2>3, RewriteLemma, SMTT(60)
  <2> QED
    BY <1>3, <2>2, <2>3, <2>6, <2>7
<1>4. CASE fs.path # 0 /\ At(fs).st # "new"
  BY <1>4, FitSelf DEF OpenCreate
<1> QED
  BY <1>2, <1>3, <1>4

\* Files that a run cannot tell apart
Alike(x, y) == x.st = y.st /\ x.g = y.g /\ x.h = y.h /\ x.src = y.src /\ x.two = y.two

\* What a's change to n leaves.
After(a, n) ==
  /\ fs' \in FsT /\ fs'.path = n.path /\ At(fs') = At(n)
  /\ \A i \in Slots : fs'.files[i] \in {n.files[i], NoFile}
  /\ conn # 0 => fs'.files[conn] = n.files[conn]
  /\ \A r \in Runners : rfile[r] # 0 => fs'.files[rfile[r]] = n.files[rfile[r]]
  /\ hit' \subseteq Runners
  /\ \A o \in Runners : InRun(o) /\ o \notin hit' /\ o # a =>
       o \notin hit /\ n.path = fs.path /\ Alike(At(n), At(fs))

LEMMA TouchLemma ==
  ASSUME Types, NEW a, NEW n \in FsT, Touch(a, n)
  PROVE  After(a, n) /\ (a \in Runners /\ InRun(a) /\ a \notin hit' => a \notin hit)
<1> DEFINE g == [i \in Slots |-> IF Held(n, i) THEN n.files[i] ELSE NoFile]
<1>1. fs' = [n EXCEPT !.files = g]
  BY DEF Touch
<1>2. g \in [Slots -> FileT]
  BY NoFileTyped DEF FsT
<1>3. \A i \in Slots : g[i] \in {n.files[i], NoFile} /\ (Held(n, i) => g[i] = n.files[i])
  OBVIOUS
<1> HIDE DEF g
<1>4. fs' \in FsT /\ fs'.path = n.path /\ fs'.files = g
  BY <1>1, <1>2 DEF FsT
<1>5. At(fs') = At(n)
  BY <1>3, <1>4 DEF At, Held, FsT
<1>6. /\ conn # 0 => fs'.files[conn] = n.files[conn]
      /\ \A r \in Runners : rfile[r] # 0 => fs'.files[rfile[r]] = n.files[rfile[r]]
  BY <1>3, <1>4 DEF Held, Types
<1>7. hit' \subseteq Runners
  BY DEF Touch, Types
<1>8. ASSUME NEW o \in Runners, InRun(o), o \notin hit', o # a PROVE n = fs /\ o \notin hit
  BY <1>8 DEF Touch
<1>9. a \in Runners /\ InRun(a) /\ a \notin hit' => a \notin hit
  BY DEF Touch
<1> QED
  BY <1>3, <1>4, <1>5, <1>6, <1>7, <1>8, <1>9 DEF After, Alike

LEMMA AfterSame ==
  ASSUME Types, FsInv, fs' = fs, NEW a, hit' \in {hit, hit \ {a}} PROVE After(a, fs)
BY DEF After, Types, FsInv, Alike

\* The other runs do nothing.
OthersSame(a) ==
  \A o \in Runners \ {a} :
    /\ rpc'[o] = rpc[o] /\ rfile'[o] = rfile[o] /\ rg'[o] = rg[o] /\ route'[o] = route[o]
    /\ o \in failed' <=> o \in failed
    /\ lock' = o <=> lock = o
    /\ o \in Importers => boot'[o] = boot[o]

\* A run opens only the file it has put at the path.
OpensNew(a, n) ==
  a \in Runners /\ rfile'[a] \notin {0, rfile[a]} => rfile'[a] = n.path /\ At(n).src # "import"

\* The connection is dropped or opened on what is there, or stays where it is
\* while somebody else takes its name away.
ConnStep(n, who) ==
  \/ conn' \in {0, n.path}
  \/ conn' = conn /\ (spc = "run" => spc' = "run") /\ (spc' = "run" \/ who \in {"bg", "child", "ui"})

AdrStep(n) == acked' # 0 /\ ~at_risk' => Usable(n) /\ At(n).adr = acked'

LEMMA FsStep ==
  ASSUME Types, NEW a, NEW n, NEW who, Fit(n, who), After(a, n), Types', ver' = ver,
         OthersSame(a), OpensNew(a, n)
  PROVE  FsInv'
<1>1. \A i \in Slots : Good(fs'.files[i], ver)
  <2>1. Good(NoFile, ver)
    BY NoFileTyped, SMTT(60) DEF Good, Bounded, Types
  <2> QED
    BY <2>1 DEF Fit, After
<1>2. ASSUME NEW r \in Runners, rfile'[r] # 0 PROVE fs'.files[rfile'[r]].src # "import"
  <2>1. CASE rfile'[r] = rfile[r]
    BY <1>2, <2>1 DEF Fit, After
  <2>2. CASE rfile'[r] # rfile[r]
    <3>1. r = a
      BY <2>2 DEF OthersSame
    <3>2. rfile'[r] = fs'.path /\ At(fs').src # "import" /\ fs'.path # 0
      BY <1>2, <2>2, <3>1 DEF OpensNew, After
    <3> QED
      BY <3>2 DEF At
  <2> QED
    BY <2>1, <2>2
<1>3. GhostOnlyBy'
  BY DEF GhostOnlyBy, Fit, After, Here, Excused
<1> QED
  BY <1>1, <1>2, <1>3 DEF FsInv, After

LEMMA OtherRuns ==
  ASSUME Types, NEW a, NEW n, NEW who, Fit(n, who), After(a, n), ver' = ver, OthersSame(a),
         NEW o \in Runners, o # a, RunOk(o)
  PROVE  RunOk(o)'
<1>1. /\ rpc'[o] = rpc[o] /\ rfile'[o] = rfile[o] /\ rg'[o] = rg[o] /\ route'[o] = route[o]
      /\ o \in failed' <=> o \in failed
      /\ lock' = o <=> lock = o
      /\ o \in Importers => boot'[o] = boot[o]
      /\ InRun(o)' <=> InRun(o)
  BY DEF OthersSame, InRun
<1>2. Renews(o)' <=> Renews(o)
  BY <1>1 DEF Renews
<1>3. fs'.path = n.path /\ At(fs') = At(n) /\ (Fresh(fs, ver) => Fresh(fs', ver))
  BY DEF After, Fit, Fresh, Here
<1>4. o \notin hit' => Claim(rpc[o], fs'.path, At(fs'), rfile[o], rg[o], ver, o \in failed)
  <2>1. CASE InRun(o)
    <3>1. o \notin hit' => o \notin hit /\ n.path = fs.path /\ Alike(At(n), At(fs))
      BY <2>1 DEF After
    <3> QED
      BY <1>3, <3>1 DEF RunOk, Claim, Alike
  <2>2. CASE ~InRun(o)
    BY <2>2 DEF InRun, Claim
  <2> QED
    BY <2>1, <2>2
<1>5. o \notin hit' => Claim(rpc'[o], fs'.path, At(fs'), rfile'[o], rg'[o], ver', o \in failed')
  BY <1>1, <1>4 DEF Claim
<1> QED
  BY <1>1, <1>2, <1>3, <1>5 DEF RunOk

LEMMA ConnLemma ==
  ASSUME Types, StaleOnlyBy, NEW a, NEW n, NEW who, Fit(n, who), After(a, n), ConnStep(n, who), Types'
  PROVE  StaleOnlyBy'
BY DEF StaleOnlyBy, Fit, After, ConnStep, Types

LEMMA AdrLemma ==
  ASSUME NEW a, NEW n, After(a, n), AdrStep(n)
  PROVE  AdrLostOnlyBy'
BY DEF AdrLostOnlyBy, After, AdrStep, Usable, Here

LEMMA Step ==
  ASSUME IInv, NEW a, NEW n, NEW who, Fit(n, who), After(a, n), Types', ver' = ver,
         OthersSame(a), OpensNew(a, n), ConnStep(n, who), AdrStep(n),
         a \in Runners => RunOk(a)', LoopInv', ArtInv'
  PROVE  IInv'
<1>1. FsInv' /\ StaleOnlyBy' /\ AdrLostOnlyBy'
  BY FsStep, ConnLemma, AdrLemma DEF IInv
<1>2. \A r \in Runners : RunOk(r)'
  BY OtherRuns DEF IInv
<1> QED
  BY <1>1, <1>2 DEF IInv

LEMMA InitIInv == Init => IInv
<1> SUFFICES ASSUME Init PROVE IInv
  OBVIOUS
<1>1. /\ ver = 1 /\ conn = 0 /\ spc = "ready" /\ lock = "none" /\ acked = 0
      /\ edits = 0 /\ requests = 0 /\ failed = {} /\ hit = {}
      /\ \A r \in Runners : rpc[r] = "off" /\ rfile[r] = 0 /\ rg[r] = 0
  BY DEF Init
<1>2. Types
  <2>1. /\ rpc \in [Runners -> Labels] /\ rfile \in [Runners -> Slots \union {0}]
        /\ route \in [Runners -> {"full", "incr"}] /\ boot \in [Importers -> FileT]
    BY NoFileTyped DEF Init, Labels
  <2>2. rg \in [Runners -> Nat]
    BY SMTT(60) DEF Init
  <2>3. edits \in Nat /\ ver = edits + 1 /\ requests \in 0..MaxRequests
    BY <1>1, SMTT(60)
  <2> QED
    BY <1>1, <2>1, <2>2, <2>3 DEF Types
<1>3. Good(NoFile, 1) /\ Good(File("ok", 1, 1, 0, "run"), 1)
  <2> DEFINE x == File("ok", 1, 1, 0, "run")
  <2>1. x \in FileT /\ x.st = "ok" /\ x.g = 1 /\ x.h = 1 /\ x.adr = 0 /\ x.src = "run"
    BY DEF File, FileT, States, Srcs, Bys
  <2> HIDE DEF x
  <2>2. Good(x, 1)
    BY <2>1, SMTT(60) DEF Good, Bounded
  <2>3. Good(NoFile, 1)
    BY NoFileTyped, SMTT(60) DEF Good, Bounded
  <2> QED
    BY <2>2, <2>3 DEF x
<1>4. PICK has \in BOOLEAN, shared \in BOOLEAN :
        /\ fs = IF has THEN [path |-> 1, files |-> [i \in Slots |-> IF i = 1 THEN File("ok", 1, 1, 0, "run") ELSE NoFile]]
                       ELSE [path |-> 0, files |-> [i \in Slots |-> NoFile]]
        /\ art = IF shared THEN [zst |-> File("ok", 1, 1, 0, "run"), meta |-> "fits", by |-> "run", why |-> "run"]
                           ELSE [zst |-> NoFile, meta |-> "none", by |-> "none", why |-> "none"]
  BY DEF Init
<1>5. FsInv
  <2>1. fs.path \in {0, 1} /\ \A i \in Slots : fs.files[i] = NoFile \/ (i = 1 /\ fs.files[i] = File("ok", 1, 1, 0, "run"))
    BY <1>4
  <2>2. \A i \in Slots : Good(fs.files[i], ver)
    BY <1>1, <1>3, <2>1
  <2>3. 1 \in Slots
    BY SMTT(60) DEF Slots
  <2>4. fs \in FsT
    BY <1>3, <1>4, <2>3 DEF FsT, Good, Bounded
  <2>5. ~Here(fs, {"ghost"})
    BY <1>4, <2>3 DEF Here, At, File, NoFile
  <2> QED
    BY <1>1, <2>2, <2>4, <2>5 DEF FsInv, GhostOnlyBy
<1>6. ArtInv
  <2>1. \A r \in Importers : boot[r] = NoFile
    BY DEF Init
  <2>2. art.zst.src # "none" => art.zst.st = "ok"
    BY <1>4, NoFileTyped DEF File
  <2>3. art = [zst |-> art.zst, meta |-> art.meta, by |-> art.by, why |-> art.why]
    BY <1>4
  <2>4. Good(art.zst, 1) /\ art.meta \in {"none", "old", "fits"}
    BY <1>3, <1>4
  <2> QED
    BY <1>1, <1>3, <2>1, <2>2, <2>3, <2>4 DEF ArtInv, ArchiveWhole, Good
<1>7. ASSUME NEW r \in Runners PROVE RunOk(r)
  <2>1. 0 <= ver
    BY <1>1, SMTT(60)
  <2> QED
    BY <1>1, <2>1 DEF RunOk, Claim, InRun, Renews, Locked
<1> QED
  BY <1>1, <1>2, <1>5, <1>6, <1>7 DEF IInv, LoopInv, StaleOnlyBy, AdrLostOnlyBy, Runners

\* A run that is over, or not begun
LEMMA IdleOk ==
  ASSUME NEW r \in Runners, RunOk(r), ~InRun(r), UNCHANGED <<ver, lock, run>>
  PROVE  RunOk(r)'
<1>1. ~InRun(r)' /\ ~Renews(r)'
  BY DEF InRun, Renews, run
<1>2. Claim(rpc'[r], fs'.path, At(fs'), rfile'[r], rg'[r], ver', r \in failed')
  BY DEF Claim, InRun, run
<1>3. rpc' = rpc /\ rfile' = rfile /\ rg' = rg /\ boot' = boot /\ lock' = lock /\ ver' = ver
  BY DEF run
<1> QED
  BY <1>1, <1>2, <1>3 DEF RunOk

\* A step of the event loop or of the UI, with no run of its own.
LEMMA ServerStep ==
  ASSUME IInv, NEW a, NEW n, NEW who, Fit(n, who), After(a, n),
         UNCHANGED <<ver, lock, run, art, edits>>, requests' \in 0..MaxRequests,
         a \in Runners => ~InRun(a),
         conn' \in {conn, 0, n.path}, spc' \in {"ready", "clean", "run"},
         spc' = "run" <=> spc = "run", spc = "run" => conn' = conn, spc' = "clean" => conn' = 0,
         ConnStep(n, who), AdrStep(n)
  PROVE  IInv'
<1>1. /\ rpc' = rpc /\ rfile' = rfile /\ rg' = rg /\ route' = route /\ failed' = failed /\ boot' = boot
      /\ ver' = ver /\ lock' = lock /\ art' = art /\ edits' = edits
  BY DEF run
<1>2. Types'
  <2>1. n.path \in Slots \union {0} /\ hit' \subseteq Runners
    BY DEF Fit, FsT, After
  <2> QED
    BY <1>1, <2>1 DEF IInv, Types
<1>3. OthersSame(a)
  BY <1>1 DEF OthersSame
<1>4. OpensNew(a, n)
  BY <1>1 DEF OpensNew
<1>5. a \in Runners => RunOk(a)'
  BY IdleOk DEF IInv
<1>6. LoopInv'
  BY <1>1 DEF IInv, LoopInv
<1>7. ArtInv'
  BY <1>1 DEF IInv, ArtInv, ArchiveWhole
<1> QED
  BY <1>1, <1>2, <1>3, <1>4, <1>5, <1>6, <1>7, Step

\* The event loop takes requests only between its own runs.
LEMMA LoopIdle ==
  ASSUME IInv, spc # "run" PROVE ~InRun("srv")
BY DEF IInv, LoopInv, InRun

\* The resolution of the store drops no connection that it finds.
LEMMA ResolveLemma ==
  ASSUME Resolve PROVE conn' \in {conn, fs.path} /\ spc' \in {"ready", "clean"} /\ (spc' = "clean" => conn' = 0)
                       /\ (conn = 0 => conn' \in {0, fs.path}) /\ (conn # 0 => conn' = conn)
                       /\ (conn' # 0 /\ conn = 0 => conn' = fs.path /\ Here(fs, {"ok"}))
BY DEF Resolve

\* Mapped to nothing that a run or a reader of rows can see but the race itself.
LEMMA FitProbed ==
  ASSUME Types, FsInv, NEW who
  PROVE  /\ Fit(Probed, who) /\ Probed.path = fs.path
         /\ Probed = fs \/ (conn = 0 /\ Here(fs, {"new"}) /\ At(Probed).st = "new")
         /\ Usable(fs) => Probed = fs
<1>1. CASE conn = 0 /\ Here(fs, {"new"})
  <2> DEFINE f == At(fs)
             x == [f EXCEPT !.two = TRUE]
  <2>1. fs.path \in Slots /\ f = fs.files[fs.path] /\ f \in FileT /\ Good(f, ver) /\ f.st = "new" /\ fs \in FsT
    BY <1>1 DEF At, FsInv, FsT, Here
  <2>2. x \in FileT /\ x.st = "new" /\ x.src = f.src /\ x.g = f.g /\ x.h = f.h /\ x.adr = f.adr
    BY <2>1 DEF FileT
  <2>3. Probed = Rewrite(fs, fs.path, x)
    BY <1>1 DEF Probed
  <2>4. ~Usable(fs)
    BY <2>1 DEF Usable, Here
  <2> HIDE DEF x, f
  <2>5. Good(x, ver)
    BY <2>1, <2>2 DEF Good, Bounded
  <2>6. Fit(fs, who)
    BY FitSelf
  <2>7. Fit(Rewrite(fs, fs.path, x), who)
    BY <2>1, <2>2, <2>5, <2>6, FitRewrite
  <2>8. Probed.path = fs.path /\ At(Probed) = x
    BY <2>1, <2>2, <2>3, RewriteAt
  <2> QED
    BY <1>1, <2>2, <2>3, <2>4, <2>7, <2>8
<1>2. CASE ~(conn = 0 /\ Here(fs, {"new"}))
  BY <1>2, FitSelf DEF Probed
<1> QED
  BY <1>1, <1>2

\* The ADR is still where it was.
LEMMA AdrSame ==
  ASSUME AdrLostOnlyBy, UNCHANGED <<acked, at_risk>>, NEW n,
         Usable(fs) => n.path = fs.path /\ At(n) = At(fs)
  PROVE  AdrStep(n)
BY DEF AdrLostOnlyBy, AdrStep, Usable, Here

\* The file with the ADR is replaced.
LEMMA AdrReplaced ==
  ASSUME AdrLostOnlyBy, acked' = acked, NEW a, NEW n, Replace(a, n)
  PROVE  AdrStep(n)
BY DEF AdrLostOnlyBy, AdrStep, Replace, Usable, Here

LEMMA RequestMore ==
  ASSUME IInv, requests < MaxRequests, requests' = requests + 1
  PROVE  requests' \in 0..MaxRequests
BY SMTT(60) DEF IInv, Types

LEMMA QueryStep == ASSUME IInv, Query PROVE IInv'
<1>1. Fit(Probed, "ui") /\ Probed.path = fs.path /\ (Usable(fs) => Probed = fs)
  BY FitProbed DEF IInv
<1>2. After("srv", Probed)
  BY <1>1, TouchLemma DEF IInv, Fit, Query
<1>3. requests' \in 0..MaxRequests /\ ~InRun("srv") /\ spc = "ready"
  BY RequestMore, LoopIdle DEF Query
<1>4. conn' \in {conn, fs.path} /\ spc' \in {"ready", "clean"} /\ (spc' = "clean" => conn' = 0)
  BY ResolveLemma DEF Query
<1>5. AdrStep(Probed)
  BY <1>1, AdrSame DEF IInv, Query
<1>6. ConnStep(Probed, "ui")
  BY <1>1, <1>3, <1>4 DEF ConnStep
<1>7. UNCHANGED <<ver, lock, run, art, edits>>
  BY DEF Query
<1> QED
  BY <1>1, <1>2, <1>3, <1>4, <1>5, <1>6, <1>7, ServerStep

LEMMA AutoCleanStep == ASSUME IInv, AutoClean PROVE IInv'
<1> DEFINE n == Unlink(fs, "clean")
<1>1. Fit(n, "clean") /\ n.path = 0
  BY FitUnlink, UnlinkLemma DEF IInv, Types, FsInv, Bys
<1>2. Replace("srv", n)
  BY DEF AutoClean
<1> HIDE DEF n
<1>3. After("srv", n)
  BY <1>1, <1>2, TouchLemma DEF IInv, Fit, Replace
<1>4. spc = "clean" /\ conn = 0 /\ conn' = 0 /\ spc' = "ready" /\ ~InRun("srv")
  BY LoopIdle DEF AutoClean, IInv, LoopInv
<1>5. AdrStep(n)
  BY <1>2, AdrReplaced DEF IInv, AutoClean
<1>6. UNCHANGED <<ver, lock, run, art, edits>> /\ requests' \in 0..MaxRequests
  BY DEF AutoClean, count, IInv, Types
<1>7. ConnStep(n, "clean")
  BY <1>4 DEF ConnStep
<1> QED
  BY <1>1, <1>3, <1>4, <1>5, <1>6, <1>7, ServerStep

LEMMA DeleteProjectStep == ASSUME IInv, DeleteProject PROVE IInv'
<1> DEFINE n == Unlink(fs, "srv")
<1>1. Fit(n, "srv")
  BY FitUnlink DEF IInv, Bys, Runners
<1>2. Replace("srv", n)
  BY DEF DeleteProject
<1> HIDE DEF n
<1>3. After("srv", n)
  BY <1>1, <1>2, TouchLemma DEF IInv, Fit, Replace
<1>4. spc = "ready" /\ conn' = 0 /\ spc' = "ready" /\ ~InRun("srv") /\ requests' \in 0..MaxRequests
  BY LoopIdle, RequestMore DEF DeleteProject
<1>5. AdrStep(n)
  BY <1>2, AdrReplaced DEF IInv, DeleteProject
<1>6. UNCHANGED <<ver, lock, run, art, edits>>
  BY DEF DeleteProject
<1>7. ConnStep(n, "srv")
  BY <1>4 DEF ConnStep
<1> QED
  BY <1>1, <1>3, <1>4, <1>5, <1>6, <1>7, ServerStep

LEMMA EvictIdleStep == ASSUME IInv, EvictIdle PROVE IInv'
<1>1. Fit(fs, "ui") /\ After("ui", fs)
  BY FitSelf, AfterSame, SMTT(60) DEF IInv, EvictIdle
<1>2. /\ spc = "ready" /\ conn' = 0 /\ spc' = "ready" /\ UNCHANGED <<ver, lock, run, art, edits>>
      /\ requests' \in 0..MaxRequests
  BY DEF EvictIdle, count, IInv, Types
<1>3. AdrStep(fs) /\ ConnStep(fs, "ui")
  BY <1>2, AdrSame DEF IInv, EvictIdle, ConnStep
<1>4. "ui" \notin Runners
  BY DEF Runners
<1> QED
  BY <1>1, <1>2, <1>3, <1>4, ServerStep

\* An ADR written to a file
LEMMA AdrFile ==
  ASSUME NEW v, NEW f, Good(f, v), NEW k \in 0..MaxRequests
  PROVE  LET x == [f EXCEPT !.adr = k]
         IN Good(x, v) /\ Alike(x, f) /\ x.by = f.by /\ x.adr = k
<1> DEFINE x == [f EXCEPT !.adr = k]
<1>1. k \in Nat /\ k <= MaxRequests
  BY SMTT(60)
<1>2. /\ x \in FileT /\ x.st = f.st /\ x.g = f.g /\ x.h = f.h /\ x.src = f.src /\ x.two = f.two /\ x.by = f.by
      /\ x.adr = k
  BY <1>1 DEF Good, Bounded, FileT
<1> HIDE DEF x
<1>3. Good(x, v) /\ Alike(x, f)
  BY <1>1, <1>2 DEF Good, Bounded, Alike
<1> QED
  BY <1>2, <1>3 DEF x

LEMMA AdrUpdateStep == ASSUME IInv, AdrUpdate PROVE IInv'
<1>1. requests' \in 0..MaxRequests /\ ~InRun("srv") /\ spc = "ready"
  BY RequestMore, LoopIdle DEF AdrUpdate
<1>2. conn' \in {conn, fs.path} /\ spc' \in {"ready", "clean"} /\ (spc' = "clean" => conn' = 0)
  BY ResolveLemma DEF AdrUpdate
<1>3. UNCHANGED <<ver, lock, run, art, edits>>
  BY DEF AdrUpdate
<1>4. CASE conn' # 0 /\ fs.files[conn'].st \in {"ok", "ghost"}
  <2> DEFINE c == conn'
             f == fs.files[c]
             x == [f EXCEPT !.adr = requests']
             n == Rewrite(fs, c, x)
  <2>1. fs' = n /\ acked' = requests' /\ at_risk' = (c # fs.path) /\ hit' = hit
    BY <1>4 DEF AdrUpdate
  <2>2. c \in Slots /\ fs \in FsT /\ Good(f, ver) /\ f.st \in {"ok", "ghost"}
    BY <1>2, <1>4, SMTT(60) DEF IInv, FsInv, Types, FsT
  <2>3. Good(x, ver) /\ Alike(x, f) /\ x.by = f.by /\ x.adr = requests'
    BY <1>1, <2>2, AdrFile, SMTT(60)
  <2>4. c \in Slots /\ (fs.path = c => At(fs) = f)
    BY <2>2, Zero DEF At
  <2> HIDE DEF x, f, c
  <2>5. /\ n \in FsT /\ n.path = fs.path
        /\ fs.path = c => At(n) = x
        /\ fs.path # c => At(n) = At(fs)
    BY <2>2, <2>3, RewriteLemma, SMTT(60) DEF Good, Bounded
  <2>6. Fit(n, "ui")
    <3>1. Fit(fs, "ui")
      BY FitSelf DEF IInv
    <3>2. c = fs.path /\ x.st = "ghost" => x.src \in Excused
      BY <2>3, <2>4, Zero DEF IInv, FsInv, GhostOnlyBy, Excused, Here, Alike
    <3>3. fs.files[c].src = x.src /\ fs.files[c].by = x.by /\ fs.files[c].g = x.g /\ fs.files[c].st = x.st
      BY <2>3 DEF f, Alike
    <3> QED
      BY <2>2, <2>3, <3>1, <3>2, <3>3, FitRewrite DEF IInv
  <2> HIDE DEF n
  <2>7. After("srv", n)
    <3>1. Alike(At(n), At(fs))
      BY <2>3, <2>4, <2>5 DEF Alike
    <3> QED
      BY <2>1, <2>5, <3>1 DEF After, IInv, Types
  <2>8. AdrStep(n)
    BY <2>1, <2>2, <2>3, <2>5, Zero DEF AdrStep, Usable, Here, Alike
  <2>9. ConnStep(n, "ui") /\ conn' \in {conn, 0, n.path}
    BY <1>1, <1>2, <2>5 DEF ConnStep
  <2> QED
    BY <1>1, <1>2, <1>3, <2>6, <2>7, <2>8, <2>9, ServerStep
<1>5. CASE ~(conn' # 0 /\ fs.files[conn'].st \in {"ok", "ghost"})
  <2>1. Touch("srv", Probed) /\ UNCHANGED <<acked, at_risk>>
    BY <1>5 DEF AdrUpdate
  <2>2. Fit(Probed, "ui") /\ Probed.path = fs.path /\ (Usable(fs) => Probed = fs)
    BY FitProbed DEF IInv
  <2>3. After("srv", Probed)
    BY <2>1, <2>2, TouchLemma DEF IInv, Fit
  <2>4. AdrStep(Probed)
    BY <2>1, <2>2, AdrSame DEF IInv
  <2>5. ConnStep(Probed, "ui")
    BY <1>1, <1>2, <2>2 DEF ConnStep
  <2> QED
    BY <1>1, <1>2, <1>3, <2>2, <2>3, <2>4, <2>5, ServerStep
<1> QED
  BY <1>4, <1>5

\* What the HTTP thread does leaves the event loop alone.
LEMMA UiStep ==
  ASSUME IInv, NEW n, Fit(n, "ui"), Touch("ui", n), AdrStep(n),
         UNCHANGED <<ver, conn, spc, lock, run, art, edits>>, requests' \in 0..MaxRequests
  PROVE  IInv'
<1>1. After("ui", n) /\ "ui" \notin Runners
  BY TouchLemma DEF IInv, Fit, Runners
<1>2. ConnStep(n, "ui")
  BY DEF ConnStep
<1>3. spc \in {"ready", "clean", "run"} /\ (spc = "clean" => conn = 0)
  BY DEF IInv, Types, LoopInv
<1> QED
  BY <1>1, <1>2, <1>3, ServerStep

LEMMA UiAdrGetStep == ASSUME IInv, UiAdrGet PROVE IInv'
<1> DEFINE n == OpenCreate(fs, "ui")
<1>1. Fit(n, "ui") /\ (fs.path # 0 /\ At(fs).st # "new" => n = fs)
  BY FitOpenCreate DEF IInv, Excused
<1>2. Touch("ui", n) /\ requests' \in 0..MaxRequests /\ UNCHANGED <<ver, conn, spc, lock, run, art, edits>>
  BY RequestMore DEF UiAdrGet
<1> HIDE DEF n
<1>3. Usable(fs) => n = fs
  BY <1>1 DEF Usable, Here
<1>4. AdrStep(n)
  BY <1>3, AdrSame DEF IInv, UiAdrGet
<1> QED
  BY <1>1, <1>2, <1>4, UiStep

LEMMA UiAdrSaveStep == ASSUME IInv, UiAdrSave PROVE IInv'
<1> DEFINE m == OpenCreate(fs, "ui")
           x == [At(m) EXCEPT !.adr = requests']
           n == Rewrite(m, m.path, x)
<1>1. Fit(m, "ui") /\ m.path # 0 /\ (fs.path # 0 /\ At(fs).st # "new" => m = fs)
  BY FitOpenCreate DEF IInv, Excused
<1>2. /\ IF Usable(m) THEN Touch("ui", n) /\ acked' = requests' /\ at_risk' = FALSE
                      ELSE Touch("ui", m) /\ UNCHANGED <<acked, at_risk>>
      /\ requests' \in 0..MaxRequests /\ UNCHANGED <<ver, conn, spc, lock, run, art, edits>>
  BY RequestMore DEF UiAdrSave
<1> HIDE DEF m
<1>3. CASE Usable(m)
  <2>1. m.path \in Slots /\ m \in FsT /\ At(m) = m.files[m.path] /\ Good(At(m), ver) /\ At(m).st \in {"ok", "ghost"}
    BY <1>1, <1>3 DEF Fit, FsT, At, Usable, Here
  <2>2. Good(x, ver) /\ Alike(x, At(m)) /\ x.by = At(m).by /\ x.adr = requests'
    BY <1>2, <2>1, AdrFile
  <2> HIDE DEF x
  <2>3. n \in FsT /\ n.path = m.path /\ At(n) = x
    BY <2>1, <2>2, RewriteLemma, SMTT(60) DEF Good, Bounded
  <2>4. Fit(n, "ui")
    <3>1. x.st = "ghost" => x.src \in Excused
      BY <1>1, <2>1, <2>2 DEF Fit, Here, Alike
    <3>2. m.files[m.path].src = x.src /\ m.files[m.path].by = x.by /\ m.files[m.path].g = x.g /\ m.files[m.path].st = x.st
      BY <2>1, <2>2 DEF Alike
    <3> QED
      BY <1>1, <2>1, <2>2, <3>1, <3>2, FitRewrite DEF IInv
  <2> HIDE DEF n
  <2>5. AdrStep(n)
    BY <1>2, <1>3, <2>1, <2>2, <2>3, Zero DEF AdrStep, Usable, Here, Alike
  <2> QED
    BY <1>2, <1>3, <2>4, <2>5, UiStep
<1>4. CASE ~Usable(m)
  <2>1. ~Usable(fs)
    BY <1>1, <1>4 DEF Usable, Here
  <2>2. AdrStep(m)
    BY <1>2, <1>4, <2>1, AdrSame DEF IInv
  <2> QED
    BY <1>1, <1>2, <1>4, <2>2, UiStep
<1> QED
  BY <1>3, <1>4

LEMMA UiDeleteStep == ASSUME IInv, UiDelete PROVE IInv'
<1> DEFINE n == Unlink(fs, "ui")
<1>1. Fit(n, "ui")
  BY FitUnlink DEF IInv, Bys, Srcs
<1>2. Replace("ui", n) /\ requests' \in 0..MaxRequests /\ UNCHANGED <<ver, conn, spc, lock, run, art, edits>>
  BY RequestMore DEF UiDelete
<1> HIDE DEF n
<1>3. AdrStep(n)
  BY <1>2, AdrReplaced DEF IInv, UiDelete
<1> QED
  BY <1>1, <1>2, <1>3, UiStep DEF Replace

-----------------------------------------------------------------------------
(* The runs *)

Busy == Labels \ {"off", "import", "lock"}

\* What a run keeps of the others' locals
Apart(r) ==
  /\ OthersSame(r)
  /\ rfile' \in [Runners -> Slots \union {0}] /\ rg' \in [Runners -> Nat]
  /\ route' \in [Runners -> {"full", "incr"}] /\ failed' \subseteq Runners

LEMMA GotoLemma ==
  ASSUME Types, NEW r \in Runners, NEW l \in Labels, Goto(r, l)
  PROVE  rpc' \in [Runners -> Labels] /\ rpc'[r] = l /\ \A o \in Runners \ {r} : rpc'[o] = rpc[o]
BY DEF Types, Goto

\* A step of a run between the lock and the unlock.
LEMMA MidStep ==
  ASSUME IInv, NEW r \in Runners, NEW l \in Busy, InRun(r), Goto(r, l),
         UNCHANGED <<conn, spc, lock, boot, ver, edits, requests>>,
         NEW n, NEW who \in {r, "ui"}, Fit(n, who), After(r, n), Apart(r), OpensNew(r, n), AdrStep(n),
         rfile'[r] # 0 <=> l \in {"write", "finish"}, rg'[r] \in {ver, 0}, ArtInv',
         r \notin hit' => Claim(l, n.path, At(n), rfile'[r], rg'[r], ver, r \in failed'),
         l \in {"write", "finish", "persist"} \/ (l = "open" /\ route'[r] = "incr") => Fresh(n, ver)
  PROVE  IInv'
<1>1. rpc' \in [Runners -> Labels] /\ rpc'[r] = l /\ (\A o \in Runners \ {r} : rpc'[o] = rpc[o])
      /\ l \notin {"off", "import", "lock"}
  BY GotoLemma DEF IInv, Busy
<1>2. Types'
  BY <1>1 DEF IInv, Types, Apart, After
<1>3. LoopInv'
  <2>1. rpc["srv"] \notin {"off", "import", "lock"} => rpc'["srv"] \notin {"off", "import", "lock"}
    BY <1>1 DEF Runners
  <2>2. rpc'["srv"] = rpc["srv"] \/ rpc["srv"] \notin {"off", "import", "lock"}
    BY <1>1 DEF Runners, InRun
  <2> QED
    BY <2>1, <2>2 DEF IInv, LoopInv
<1>4. ConnStep(n, who)
  <2>1. r = "srv" => spc = "run"
    BY DEF IInv, LoopInv, InRun
  <2> QED
    BY <2>1 DEF ConnStep, Runners
<1>5. RunOk(r)'
  <2>1. InRun(r)'
    BY <1>1 DEF InRun
  <2>2. Renews(r)' => Fresh(fs', ver)
    BY <1>1 DEF Renews, After, Fresh, Here
  <2>3. rg'[r] <= ver
    BY SMTT(60) DEF IInv, Types
  <2>4. r \notin hit' => Claim(l, fs'.path, At(fs'), rfile'[r], rg'[r], ver, r \in failed')
    BY DEF After
  <2>5. r \in Locked => lock = r
    BY DEF IInv, RunOk
  <2> QED
    BY <1>1, <2>1, <2>2, <2>3, <2>4, <2>5 DEF RunOk
<1> QED
  BY <1>1, <1>2, <1>3, <1>4, <1>5, Step DEF Apart

\* The archive is left alone.
LEMMA ArtSame == ASSUME ArtInv, UNCHANGED <<art, boot, ver>> PROVE ArtInv'
BY DEF ArtInv, ArchiveWhole

\* A run keeps its file open only while it writes to it.
LEMMA NoFileOpen ==
  ASSUME IInv, NEW r \in Runners, rpc[r] \notin {"write", "finish"} PROVE rfile[r] = 0
BY DEF IInv, RunOk

LEMMA VerPos == ASSUME Types PROVE ver \in Nat /\ ver # 0 /\ 0 <= ver
BY SMTT(60) DEF Types

LEMMA RemoveOldStep == ASSUME IInv, NEW r \in Runners, RemoveOld(r) PROVE IInv'
<1> DEFINE n == Unlink(fs, r)
<1>1. Fit(n, r) /\ n.path = 0
  BY FitUnlink, UnlinkLemma DEF IInv, Types, FsInv, Bys
<1>2. /\ Replace(r, n) /\ rpc[r] = "unlink" /\ Goto(r, "open")
      /\ UNCHANGED <<rfile, rg, route, failed, boot, art, ver, acked, edits, requests, conn, spc, lock>>
  BY DEF RemoveOld, Others, Server
<1> HIDE DEF n
<1>3. InRun(r) /\ rfile[r] = 0 /\ rg[r] \in {ver, 0}
  BY <1>2, NoFileOpen DEF InRun, IInv, RunOk
<1>4. After(r, n)
  BY <1>1, <1>2, TouchLemma DEF IInv, Fit, Replace
<1>5. Apart(r) /\ OpensNew(r, n) /\ ArtInv'
  BY <1>2, GotoLemma, ArtSame DEF Apart, OthersSame, OpensNew, IInv, Types, Labels
<1>6. AdrStep(n)
  BY <1>2, AdrReplaced DEF IInv
<1>7. Fresh(n, ver) /\ Claim("open", n.path, At(n), rfile'[r], rg'[r], ver, r \in failed')
  BY <1>1 DEF Fresh, Here, Claim
<1>8. "open" \in Busy
  BY DEF Busy, Labels
<1> QED
  BY <1>1, <1>2, <1>3, <1>4, <1>5, <1>6, <1>7, <1>8, MidStep

LEMMA IncrStep == ASSUME IInv, NEW r \in Runners, Incr(r) PROVE IInv'
<1> DEFINE w == IF r \in hit THEN "raced" ELSE "run"
           n == OpenCreate(fs, w)
<1>1. /\ rpc[r] = "incr" /\ Touch(r, n)
      /\ UNCHANGED <<rfile, failed, boot, art, ver, acked, edits, requests, conn, spc, lock, at_risk>>
  BY DEF Incr, Others, Server
<1>2. InRun(r) /\ rfile[r] = 0 /\ rg[r] \in {ver, 0}
  BY <1>1, NoFileOpen DEF InRun, IInv, RunOk
<1>3. r \notin hit => fs.path # 0 /\ At(fs).st = "ok" /\ At(fs).h # 0
  BY <1>1 DEF IInv, RunOk, Claim
<1>4. Fit(n, "ui") /\ n.path # 0 /\ (fs.path # 0 /\ At(fs).st # "new" => n = fs)
  BY <1>3, FitOpenCreate, SMTT(60) DEF IInv, Excused
<1> HIDE DEF n, w
<1>5. After(r, n) /\ (r \notin hit' => r \notin hit /\ n = fs)
  BY <1>1, <1>2, <1>3, <1>4, TouchLemma DEF IInv, Fit
<1>6. AdrStep(n)
  BY <1>1, <1>4, AdrSame DEF IInv, Usable, Here
<1>7. ArtInv' /\ OpensNew(r, n)
  BY <1>1, ArtSame DEF IInv, OpensNew
<1>8. fs'.path = n.path /\ At(fs') = At(n)
  BY <1>5 DEF After
<1>9. CASE ~Usable(fs')
  <2>1. route' = [route EXCEPT ![r] = "full"] /\ Goto(r, "open") /\ UNCHANGED rg
    BY <1>9 DEF Incr
  <2>2. Apart(r) /\ "open" \in Busy
    BY <1>1, <2>1, GotoLemma DEF Apart, OthersSame, IInv, Types, Labels, Busy
  <2>3. r \in hit'
    BY <1>3, <1>5, <1>8, <1>9 DEF Usable, Here
  <2>4. route'[r] = "full"
    BY <2>1 DEF IInv, Types
  <2> QED
    BY <1>1, <1>2, <1>4, <1>5, <1>6, <1>7, <2>1, <2>2, <2>3, <2>4, MidStep
<1>10. CASE Usable(fs') /\ UpToDate(At(fs'))
  <2>1. Goto(r, "end") /\ UNCHANGED <<rg, route>>
    BY <1>10 DEF Incr
  <2>2. Apart(r) /\ "end" \in Busy
    BY <1>1, <2>1, GotoLemma DEF Apart, OthersSame, IInv, Types, Labels, Busy
  <2>3. ASSUME r \notin hit' PROVE Claim("end", n.path, At(n), rfile'[r], rg'[r], ver, r \in failed')
    <3>1. n = fs /\ At(fs).h = ver /\ At(fs).st = "ok" /\ fs.path # 0 /\ ver # 0
      BY <1>3, <1>5, <1>8, <1>10, <2>3, VerPos DEF UpToDate, IInv
    <3>2. Good(At(fs), ver)
      BY <3>1 DEF IInv, FsInv, FsT, At
    <3> QED
      BY <3>1, <3>2 DEF Good, Claim
  <2> QED
    BY <1>1, <1>2, <1>4, <1>5, <1>6, <1>7, <2>1, <2>2, <2>3, MidStep
<1>11. CASE Usable(fs') /\ ~UpToDate(At(fs'))
  <2> DEFINE g == Merged(At(fs'))
  <2>1. Goto(r, "unlink") /\ UNCHANGED route /\ rg' = [rg EXCEPT ![r] = g]
    BY <1>11 DEF Incr
  <2>2. g \in {ver, 0}
    BY DEF Merged
  <2>3. g \in Nat
    BY <2>2, VerPos, SMTT(60) DEF IInv
  <2> HIDE DEF g
  <2>4. rg'[r] = g /\ rg' \in [Runners -> Nat] /\ \A o \in Runners \ {r} : rg'[o] = rg[o]
    BY <2>1, <2>3 DEF IInv, Types
  <2>5. Apart(r) /\ "unlink" \in Busy
    BY <1>1, <2>1, <2>4, GotoLemma DEF Apart, OthersSame, IInv, Types, Labels, Busy
  <2>6. Claim("unlink", n.path, At(n), rfile'[r], rg'[r], ver, r \in failed')
    BY DEF Claim
  <2> QED
    BY <1>1, <1>2, <1>4, <1>5, <1>6, <1>7, <2>1, <2>2, <2>4, <2>5, <2>6, MidStep
<1> QED
  BY <1>9, <1>10, <1>11

\* A dump that fails leaves the files alone.
LEMMA FailedStep ==
  ASSUME IInv, NEW r \in Runners, rpc[r] \in {"open", "finish"}, Failed(r), fs' = fs, hit' = hit,
         UNCHANGED <<at_risk, conn, spc, lock, rg, route, boot, art, ver, acked, edits, requests>>,
         rfile' \in {rfile, [rfile EXCEPT ![r] = 0]}, rfile'[r] = 0
  PROVE  IInv'
<1> DEFINE l == IF route[r] = "full" THEN "end" ELSE "persist"
<1>1. failed' = failed \union {r} /\ Goto(r, l) /\ l \in Labels
  BY DEF Failed, Labels
<1>2. l \in Busy /\ l \in {"end", "persist"} /\ (l = "persist" => route[r] = "incr")
  BY DEF Busy, Labels, IInv, Types
<1> HIDE DEF l
<1>3. InRun(r) /\ rg[r] \in {ver, 0}
  BY DEF InRun, IInv, RunOk
<1>4. Fit(fs, "ui") /\ After(r, fs) /\ AdrStep(fs) /\ ArtInv'
  BY FitSelf, AfterSame, AdrSame, ArtSame, SMTT(60) DEF IInv
<1>5. rfile' \in [Runners -> Slots \union {0}] /\ \A o \in Runners \ {r} : rfile'[o] = rfile[o]
  BY DEF IInv, Types
<1>6. Apart(r) /\ OpensNew(r, fs)
  BY <1>1, <1>5, GotoLemma DEF Apart, OthersSame, OpensNew, IInv, Types
<1>7. Claim(l, fs.path, At(fs), rfile'[r], rg'[r], ver, r \in failed')
  BY <1>1, <1>2 DEF Claim
<1>8. l = "persist" => Fresh(fs, ver)
  BY <1>2 DEF IInv, RunOk, Renews
<1> QED
  BY <1>1, <1>2, <1>3, <1>4, <1>6, <1>7, <1>8, MidStep

\* The file made or emptied by fopen
LEMMA OpenMakes ==
  ASSUME IInv, NEW r \in Runners, rpc[r] = "open", NEW x, NEW n,
         x \in {File("new", 0, 0, 0, "run"), [File("new", 0, 0, 0, "run") EXCEPT !.two = TRUE]},
         IF fs.path = 0 THEN x = File("new", 0, 0, 0, "run") /\ n = Place(fs, x, r) ELSE n = Rewrite(fs, fs.path, x)
  PROVE  /\ Fit(n, r) /\ n.path \in Slots /\ At(n).st = "new" /\ At(n).src = "run" /\ Fresh(n, ver)
         /\ fs.path = 0 => ~At(n).two
<1>1. x \in FileT /\ x.st = "new" /\ x.g = 0 /\ x.h = 0 /\ x.adr = 0 /\ x.src = "run"
      /\ (fs.path = 0 => ~x.two)
  <2> DEFINE y == File("new", 0, 0, 0, "run")
  <2>1. /\ y \in FileT /\ y.st = "new" /\ y.g = 0 /\ y.h = 0 /\ y.adr = 0 /\ y.src = "run" /\ ~y.two
    BY DEF File, FileT, States, Srcs, Bys
  <2>2. x \in {y, [y EXCEPT !.two = TRUE]} /\ (fs.path = 0 => x = y)
    OBVIOUS
  <2> HIDE DEF y
  <2> QED
    BY <2>1, <2>2 DEF FileT
<1>2. Good(x, ver)
  BY <1>1, VerPos, SMTT(60) DEF Good, Bounded, IInv
<1>3. CASE fs.path = 0
  <2>1. Fit(n, r) /\ n.path \in Slots /\ At(n) = x
    BY <1>1, <1>2, <1>3, FitPlace, SMTT(60) DEF IInv, Bys
  <2> QED
    BY <1>1, <1>3, <2>1 DEF Fresh, Here
<1>4. CASE fs.path # 0
  <2>1. Fit(fs, r) /\ fs.path \in Slots /\ fs \in FsT
    BY <1>4, FitSelf DEF IInv, FsInv, FsT
  <2>2. Fit(Rewrite(fs, fs.path, x), r)
    BY <1>1, <1>2, <2>1, FitRewrite DEF IInv
  <2>3. n.path = fs.path /\ At(n) = x
    BY <1>1, <1>4, <2>1, RewriteLemma, SMTT(60)
  <2> QED
    BY <1>1, <1>4, <2>1, <2>2, <2>3 DEF Fresh, Here
<1> QED
  BY <1>3, <1>4

LEMMA OpenStep == ASSUME IInv, NEW r \in Runners, Open(r) PROVE IInv'
<1>1. rpc[r] = "open" /\ UNCHANGED <<conn, spc, lock, rg, route, boot, art, ver, acked, edits, requests>>
  BY DEF Open, Others, Server
<1>2. InRun(r) /\ rfile[r] = 0 /\ rg[r] \in {ver, 0}
  BY <1>1, NoFileOpen DEF InRun, IInv, RunOk
<1>3. CASE Failed(r) /\ UNCHANGED <<fs, hit, at_risk, rfile>>
  BY <1>1, <1>2, <1>3, FailedStep
<1>4. CASE /\ IF fs.path = 0
              THEN Replace(r, Place(fs, File("new", 0, 0, 0, "run"), r))
              ELSE Replace(r, Rewrite(fs, fs.path, [File("new", 0, 0, 0, "run") EXCEPT !.two = TRUE]))
           /\ rfile' = [rfile EXCEPT ![r] = fs'.path]
           /\ Goto(r, "write") /\ UNCHANGED failed
  <2> DEFINE x == IF fs.path = 0 THEN File("new", 0, 0, 0, "run") ELSE [File("new", 0, 0, 0, "run") EXCEPT !.two = TRUE]
             n == IF fs.path = 0 THEN Place(fs, x, r) ELSE Rewrite(fs, fs.path, x)
  <2>1. Replace(r, n)
    BY <1>4
  <2>2. /\ Fit(n, r) /\ n.path \in Slots /\ At(n).st = "new" /\ At(n).src = "run" /\ Fresh(n, ver)
        /\ fs.path = 0 => ~At(n).two
    BY <1>1, OpenMakes, SMTT(60)
  <2> HIDE DEF x, n
  <2>3. After(r, n) /\ (r \notin hit' => r \notin hit)
    BY <1>2, <2>1, <2>2, TouchLemma DEF IInv, Fit, Replace
  <2>4. AdrStep(n) /\ ArtInv'
    BY <1>1, <2>1, AdrReplaced, ArtSame DEF IInv
  <2>5. fs'.path = n.path /\ n.path # 0
    BY <2>2, <2>3, Zero DEF After
  <2>6. /\ rfile' \in [Runners -> Slots \union {0}] /\ rfile'[r] = n.path
        /\ \A o \in Runners \ {r} : rfile'[o] = rfile[o]
    BY <1>4, <2>2, <2>5 DEF IInv, Types
  <2>7. Apart(r) /\ OpensNew(r, n)
    BY <1>1, <1>4, <2>2, <2>6, GotoLemma DEF Apart, OthersSame, OpensNew, IInv, Types, Labels
  <2>8. r \notin hit' => fs.path = 0
    BY <1>1, <2>3 DEF IInv, RunOk, Claim
  <2>9. r \notin hit' => Claim("write", n.path, At(n), rfile'[r], rg'[r], ver, r \in failed')
    BY <2>2, <2>6, <2>8 DEF Claim
  <2>10. "write" \in Busy
    BY DEF Busy, Labels
  <2> QED
    BY <1>1, <1>2, <1>4, <2>2, <2>3, <2>4, <2>5, <2>6, <2>7, <2>9, <2>10, MidStep
<1> QED
  BY <1>3, <1>4 DEF Open

\* The file that a run has open
LEMMA OwnFile ==
  ASSUME IInv, NEW r \in Runners, rpc[r] \in {"write", "finish"}
  PROVE  /\ rfile[r] \in Slots /\ Good(fs.files[rfile[r]], ver) /\ fs.files[rfile[r]].src # "import"
         /\ (fs.path = rfile[r] => At(fs) = fs.files[rfile[r]]) /\ fs \in FsT /\ Fresh(fs, ver)
         /\ InRun(r) /\ rg[r] \in {ver, 0}
<1>1. rfile[r] # 0 /\ Renews(r) /\ RunOk(r) /\ InRun(r)
  BY DEF IInv, RunOk, Renews, InRun
<1> QED
  BY <1>1 DEF RunOk, IInv, Types, FsInv, At

LEMMA WriteStep == ASSUME IInv, NEW r \in Runners, Write(r) PROVE IInv'
<1> DEFINE i == rfile[r]
           f == fs.files[i]
           x == [f EXCEPT !.st = IF f.st = "new" THEN "part" ELSE "bad", !.g = 0, !.h = 0, !.adr = 0]
           n == Rewrite(fs, i, x)
<1>1. /\ rpc[r] = "write" /\ Touch(r, n) /\ at_risk' = (acked # 0) /\ Goto(r, "finish")
      /\ UNCHANGED <<conn, spc, lock, rfile, rg, route, failed, boot, art, ver, acked, edits, requests>>
  BY DEF Write, Others, Server
<1>2. /\ i \in Slots /\ Good(f, ver) /\ f.src # "import" /\ (fs.path = i => At(fs) = f) /\ fs \in FsT
      /\ Fresh(fs, ver) /\ InRun(r) /\ rg[r] \in {ver, 0}
  BY <1>1, OwnFile
<1>3. /\ x \in FileT /\ x.st = (IF f.st = "new" THEN "part" ELSE "bad") /\ x.g = 0 /\ x.h = 0 /\ x.adr = 0
      /\ x.src = f.src /\ x.by = f.by /\ x.two = f.two
  BY <1>2 DEF Good, Bounded, FileT, States
<1>4. f = fs.files[i] /\ i = rfile[r]
  OBVIOUS
<1> HIDE DEF x, f, i
<1>5. Good(x, ver) /\ x.st \notin {"ok", "ghost"}
  BY <1>2, <1>3, VerPos, SMTT(60) DEF Good, Bounded, IInv
<1>6. Fit(n, "ui") /\ n.path = fs.path /\ (fs.path = i => At(n) = x)
  <2>1. Fit(fs, "ui")
    BY FitSelf DEF IInv
  <2>2. n.path = fs.path /\ (fs.path = i => At(n) = x)
    BY <1>2, <1>3, RewriteLemma
  <2>3. Fit(n, "ui")
    BY <1>2, <1>3, <1>4, <1>5, <2>1, FitRewrite DEF IInv
  <2> QED
    BY <2>2, <2>3
<1> HIDE DEF n
<1>7. After(r, n) /\ (r \notin hit' => r \notin hit)
  BY <1>1, <1>2, <1>6, TouchLemma DEF IInv, Fit
<1>8. AdrStep(n) /\ ArtInv' /\ Fresh(n, ver)
  BY <1>1, <1>2, <1>6, ArtSame DEF IInv, AdrStep, Fit
<1>9. Apart(r) /\ OpensNew(r, n) /\ "finish" \in Busy
  BY <1>1, GotoLemma DEF Apart, OthersSame, OpensNew, IInv, Types, Labels, Busy
<1>10. r \notin hit' => Claim("finish", n.path, At(n), rfile'[r], rg'[r], ver, r \in failed')
  <2>1. r \notin hit => fs.path = i /\ At(fs).st = "new" /\ ~At(fs).two
    BY <1>1, <1>4 DEF IInv, RunOk, Claim
  <2> QED
    BY <1>1, <1>2, <1>3, <1>4, <1>6, <1>7, <2>1 DEF Claim
<1>11. rfile'[r] # 0
  BY <1>1, <1>2, <1>4, Zero
<1> QED
  BY <1>1, <1>2, <1>6, <1>7, <1>8, <1>9, <1>10, <1>11, MidStep

LEMMA FinishStep == ASSUME IInv, NEW r \in Runners, Finish(r) PROVE IInv'
<1>1. /\ rpc[r] = "finish" /\ rfile' = [rfile EXCEPT ![r] = 0]
      /\ UNCHANGED <<conn, spc, lock, rg, route, boot, art, ver, acked, edits, requests>>
  BY DEF Finish, Others, Server
<1>2. rfile' \in [Runners -> Slots \union {0}] /\ rfile'[r] = 0 /\ \A o \in Runners \ {r} : rfile'[o] = rfile[o]
  BY <1>1 DEF IInv, Types
<1>3. CASE Failed(r) /\ UNCHANGED <<fs, hit, at_risk>>
  BY <1>1, <1>2, <1>3, FailedStep
<1>4. CASE /\ LET f == fs.files[rfile[r]]
              IN \E st \in IF f.two THEN {"ok", "bad"} ELSE {"ok"} :
                   Touch(r, Rewrite(fs, rfile[r], [f EXCEPT !.st = st, !.g = rg[r], !.h = 0, !.adr = 0, !.two = Shared(r)]))
           /\ at_risk' = (acked # 0) /\ Goto(r, "persist") /\ UNCHANGED failed
  <2> DEFINE i == rfile[r]
             f == fs.files[i]
             y(st) == [f EXCEPT !.st = st, !.g = rg[r], !.h = 0, !.adr = 0, !.two = Shared(r)]
  <2>1. PICK st \in IF f.two THEN {"ok", "bad"} ELSE {"ok"} : Touch(r, Rewrite(fs, i, y(st)))
    BY <1>4
  <2> DEFINE x == y(st)
             n == Rewrite(fs, i, x)
  <2>2. /\ i \in Slots /\ Good(f, ver) /\ f.src # "import" /\ (fs.path = i => At(fs) = f) /\ fs \in FsT
        /\ Fresh(fs, ver) /\ InRun(r) /\ rg[r] \in {ver, 0} /\ rg[r] \in Nat
    BY <1>1, OwnFile DEF IInv, Types
  <2>3. st \in {"ok", "bad"} /\ (~f.two => st = "ok") /\ Shared(r) \in BOOLEAN
    BY DEF Shared
  <2>4. /\ x \in FileT /\ x.st = st /\ x.g = rg[r] /\ x.h = 0 /\ x.adr = 0 /\ x.src = f.src /\ x.by = f.by
    BY <2>2, <2>3 DEF Good, Bounded, FileT, States
  <2>5. f = fs.files[i] /\ i = rfile[r] /\ Touch(r, n)
    BY <2>1
  <2> HIDE DEF x, f, i, y
  <2>6. Good(x, ver)
    <3>1. ver \in Nat /\ 0 <= ver
      BY VerPos DEF IInv
    <3>2. Bounded(x, ver)
      BY <2>2, <2>4, <3>1, SMTT(60) DEF Good, Bounded
    <3> QED
      BY <2>2, <2>3, <2>4, <3>2 DEF Good
  <2>7. Fit(n, "ui") /\ n.path = fs.path /\ (fs.path = i => At(n) = x)
    <3>1. Fit(fs, "ui")
      BY FitSelf DEF IInv
    <3>2. n.path = fs.path /\ (fs.path = i => At(n) = x)
      <4>1. n.path = fs.path
        BY <2>2 DEF Rewrite, FsT
      <4> QED
        BY <2>2, <2>4, <4>1, RewriteAt
    <3>3. Fit(n, "ui")
      BY <2>2, <2>3, <2>4, <2>5, <2>6, <3>1, FitRewrite DEF IInv
    <3> QED
      BY <3>2, <3>3
  <2> HIDE DEF n
  <2>8. After(r, n) /\ (r \notin hit' => r \notin hit)
    BY <2>2, <2>5, <2>7, TouchLemma DEF IInv, Fit
  <2>9. AdrStep(n) /\ ArtInv' /\ Fresh(n, ver)
    BY <1>1, <1>4, <2>2, <2>7, ArtSame DEF IInv, AdrStep, Fit
  <2>10. Apart(r) /\ OpensNew(r, n) /\ "persist" \in Busy
    BY <1>1, <1>2, <1>4, GotoLemma DEF Apart, OthersSame, OpensNew, IInv, Types, Labels, Busy
  <2>11. r \notin hit' => Claim("persist", n.path, At(n), rfile'[r], rg'[r], ver, r \in failed')
    <3>1. r \notin hit => fs.path = i /\ ~At(fs).two
      BY <1>1, <2>5 DEF IInv, RunOk, Claim
    <3> QED
      BY <1>1, <2>2, <2>3, <2>4, <2>7, <2>8, <3>1, Zero DEF Claim
  <2> QED
    BY <1>1, <1>2, <1>4, <2>2, <2>7, <2>8, <2>9, <2>10, <2>11, MidStep
<1> QED
  BY <1>3, <1>4 DEF Finish

\* A run that opens its database by name after the dump makes no new one unless
\* it was surprised or its dump failed.
LEMMA Reopened ==
  ASSUME IInv, NEW r \in Runners, rpc[r] \in {"persist", "meta"}
  PROVE  LET n == OpenCreate(fs, Maker(r))
         IN /\ Fit(n, "ui") /\ n.path # 0 /\ (fs.path # 0 /\ At(fs).st # "new" => n = fs)
            /\ r \notin hit \union failed => fs.path # 0 /\ At(fs).st = "ok" /\ n = fs
            /\ InRun(r) /\ rfile[r] = 0 /\ rg[r] \in {ver, 0}
<1>1. InRun(r) /\ rfile[r] = 0 /\ rg[r] \in {ver, 0}
  BY NoFileOpen DEF InRun, IInv, RunOk
<1>2. r \notin hit \union failed => fs.path # 0 /\ At(fs).st = "ok"
  BY DEF IInv, RunOk, Claim
<1>3. fs.path = 0 => Maker(r) \in Excused
  BY <1>2 DEF Maker, Excused
<1> QED
  BY <1>1, <1>2, <1>3, FitOpenCreate DEF IInv

LEMMA PersistStep == ASSUME IInv, NEW r \in Runners, Persist(r) PROVE IInv'
<1> DEFINE m == OpenCreate(fs, Maker(r))
           x == [At(m) EXCEPT !.h = ver]
           n == IF Here(m, {"ok"}) THEN Rewrite(m, m.path, x) ELSE m
<1>1. /\ rpc[r] = "persist" /\ Touch(r, n) /\ Goto(r, "export")
      /\ UNCHANGED <<conn, spc, lock, rfile, rg, route, failed, boot, art, ver, acked, edits, requests, at_risk>>
  BY DEF Persist, Others, Server
<1>2. /\ Fit(m, "ui") /\ m.path # 0 /\ (fs.path # 0 /\ At(fs).st # "new" => m = fs)
      /\ r \notin hit \union failed => fs.path # 0 /\ At(fs).st = "ok" /\ m = fs
      /\ InRun(r) /\ rfile[r] = 0 /\ rg[r] \in {ver, 0}
  BY <1>1, Reopened
<1>3. Fresh(m, ver)
  BY <1>1, <1>2 DEF IInv, RunOk, Renews, Fit
<1> HIDE DEF m
<1>4. /\ Fit(n, "ui") /\ n.path = m.path /\ At(n).st = At(m).st /\ At(n).adr = At(m).adr
      /\ Here(m, {"ok"}) => At(n).h = ver /\ (At(n).g \in {ver, 0} \/ At(n).src = "import")
  <2>1. CASE ~Here(m, {"ok"})
    BY <1>2, <2>1
  <2>2. CASE Here(m, {"ok"})
    <3>1. m.path \in Slots /\ m \in FsT /\ At(m) = m.files[m.path] /\ Good(At(m), ver) /\ At(m).st = "ok"
      BY <1>2, <2>2 DEF Fit, FsT, At, Here
    <3>2. At(m).g \in {0, ver} \/ At(m).src = "import"
      BY <1>3, <2>2 DEF Fresh
    <3>3. /\ x \in FileT /\ x.st = "ok" /\ x.g = At(m).g /\ x.h = ver /\ x.adr = At(m).adr
          /\ x.src = At(m).src /\ x.by = At(m).by
      BY <3>1, VerPos DEF Good, Bounded, FileT, IInv
    <3> HIDE DEF x
    <3>4. Good(x, ver)
      <4>1. ver \in Nat
        BY VerPos DEF IInv
      <4>2. Bounded(x, ver)
        BY <3>1, <3>3, <4>1, SMTT(60) DEF Good, Bounded
      <4> QED
        BY <3>1, <3>2, <3>3, <4>1, <4>2 DEF Good
    <3>5. Rewrite(m, m.path, x).path = m.path /\ At(Rewrite(m, m.path, x)) = x
      BY <3>1, <3>3, RewriteAt
    <3>6. Fit(Rewrite(m, m.path, x), "ui")
      BY <1>2, <3>1, <3>2, <3>3, <3>4, FitRewrite DEF IInv
    <3> QED
      BY <2>2, <3>1, <3>2, <3>3, <3>5, <3>6
  <2> QED
    BY <2>1, <2>2
<1> HIDE DEF n
<1>5. After(r, n) /\ (r \notin hit' => r \notin hit)
  BY <1>1, <1>2, <1>4, TouchLemma DEF IInv, Fit
<1>6. AdrStep(n) /\ ArtInv'
  <2>1. Usable(fs) => m = fs
    BY <1>2 DEF Usable, Here
  <2> QED
    BY <1>1, <1>4, <2>1, ArtSame DEF IInv, AdrLostOnlyBy, AdrStep, Usable, Here
<1>7. Apart(r) /\ OpensNew(r, n) /\ "export" \in Busy
  BY <1>1, GotoLemma DEF Apart, OthersSame, OpensNew, IInv, Types, Labels, Busy
<1>8. r \notin hit' => Claim("export", n.path, At(n), rfile'[r], rg'[r], ver, r \in failed')
  BY <1>1, <1>2, <1>4, <1>5 DEF Claim, Here
<1> QED
  BY <1>1, <1>2, <1>4, <1>5, <1>6, <1>7, <1>8, MidStep

LEMMA ExportStep == ASSUME IInv, NEW r \in Runners, Export(r) PROVE IInv'
<1>1. /\ rpc[r] = "export" /\ fs' = fs /\ hit' = hit
      /\ UNCHANGED <<conn, spc, lock, rfile, rg, route, failed, boot, ver, acked, edits, requests, at_risk>>
  BY DEF Export, Others, Server
<1>2. InRun(r) /\ rfile[r] = 0 /\ rg[r] \in {ver, 0}
  BY <1>1, NoFileOpen DEF InRun, IInv, RunOk
<1>3. PICK l \in {"meta", "end"} : Goto(r, l)
  BY DEF Export
<1>4. Fit(fs, "ui") /\ After(r, fs) /\ AdrStep(fs)
  BY <1>1, FitSelf, AfterSame, AdrSame, SMTT(60) DEF IInv
<1>5. Apart(r) /\ OpensNew(r, fs) /\ l \in Busy
  BY <1>1, <1>3, GotoLemma DEF Apart, OthersSame, OpensNew, IInv, Types, Labels, Busy
<1>6. r \notin hit => Claim("export", fs.path, At(fs), rfile[r], rg[r], ver, r \in failed)
  BY <1>1 DEF IInv, RunOk
<1>7. r \notin hit' => Claim(l, fs.path, At(fs), rfile'[r], rg'[r], ver, r \in failed')
  BY <1>1, <1>3, <1>6 DEF Claim
<1>8. ArtInv'
  <2>1. CASE art' = art
    BY <1>1, <2>1, ArtSame DEF IInv
  <2>2. CASE \E st \in Archived(r) :
               art' = [zst |-> [At(fs) EXCEPT !.st = st, !.by = "none"], by |-> r,
                       meta |-> IF art.meta = "none" THEN "none" ELSE "old",
                       why |-> IF \E x \in Runners \ {r} : rpc[x] = "export" THEN "raced" ELSE Maker(r)]
    <3> DEFINE y(st) == [At(fs) EXCEPT !.st = st, !.by = "none"]
               mt == IF art.meta = "none" THEN "none" ELSE "old"
               why == IF \E x \in Runners \ {r} : rpc[x] = "export" THEN "raced" ELSE Maker(r)
    <3>1. PICK st \in Archived(r) : art' = [zst |-> y(st), by |-> r, meta |-> mt, why |-> why]
      BY <2>2
    <3> DEFINE z == y(st)
    <3>2. At(fs) \in FileT /\ Bounded(At(fs), ver)
      BY NoFileTyped, VerPos, AtTyped, SMTT(60) DEF IInv, FsInv, Good, Bounded, At
    <3>3. st \in {At(fs).st, "bad"}
      BY DEF Archived
    <3>4. z \in FileT /\ z.st = st /\ z.g = At(fs).g /\ z.h = At(fs).h /\ z.adr = At(fs).adr
      BY <3>2, <3>3 DEF FileT, Bys, Srcs, States
    <3>5. why \in {"raced", "failed"} \/ st = "ok"
      <4>1. SUFFICES ASSUME why \notin {"raced", "failed"} PROVE st = "ok"
        OBVIOUS
      <4>2. r \notin hit \union failed /\ {x \in Runners \ {r} : rpc[x] = "export"} = {}
        BY <4>1 DEF Maker
      <4>3. st = At(fs).st
        BY <4>2 DEF Archived
      <4> QED
        BY <1>6, <4>2, <4>3 DEF Claim
    <3>6. mt \in {"none", "old", "fits"}
      OBVIOUS
    <3>7. art' = [zst |-> z, by |-> r, meta |-> mt, why |-> why]
      BY <3>1
    <3> HIDE DEF z, mt, why, y
    <3>8. art'.zst = z /\ art'.meta = mt /\ art'.why = why /\ art'.by = r
      BY <3>7
    <3>9. art' = [zst |-> art'.zst, meta |-> art'.meta, by |-> art'.by, why |-> art'.why]
      BY <3>7, <3>8
    <3>10. Bounded(z, ver)
      BY <3>2, <3>4 DEF Bounded
    <3>11. ArchiveWhole'
      BY <3>4, <3>5, <3>8 DEF ArchiveWhole
    <3>12. \A o \in Importers : Bounded(boot'[o], ver)
      BY <1>1 DEF IInv, ArtInv
    <3> QED
      BY <1>1, <3>6, <3>8, <3>9, <3>10, <3>11, <3>12 DEF ArtInv
  <2> QED
    BY <2>1, <2>2 DEF Export
<1> QED
  BY <1>1, <1>2, <1>3, <1>4, <1>5, <1>7, <1>8, MidStep

LEMMA MetaStep == ASSUME IInv, NEW r \in Runners, Meta(r) PROVE IInv'
<1> DEFINE n == OpenCreate(fs, Maker(r))
<1>1. /\ rpc[r] = "meta" /\ Touch(r, n) /\ Goto(r, "end")
      /\ UNCHANGED <<conn, spc, lock, rfile, rg, route, failed, boot, ver, acked, edits, requests, at_risk>>
  BY DEF Meta, Others, Server
<1>2. /\ Fit(n, "ui") /\ n.path # 0 /\ (fs.path # 0 /\ At(fs).st # "new" => n = fs)
      /\ r \notin hit \union failed => fs.path # 0 /\ At(fs).st = "ok" /\ n = fs
      /\ InRun(r) /\ rfile[r] = 0 /\ rg[r] \in {ver, 0}
  BY <1>1, Reopened
<1> HIDE DEF n
<1>3. After(r, n) /\ (r \notin hit' => r \notin hit)
  BY <1>1, <1>2, TouchLemma DEF IInv, Fit
<1>4. AdrStep(n)
  <2>1. Usable(fs) => n = fs
    BY <1>2 DEF Usable, Here
  <2> QED
    BY <1>1, <2>1, AdrSame DEF IInv
<1>5. Apart(r) /\ OpensNew(r, n) /\ "end" \in Busy
  BY <1>1, GotoLemma DEF Apart, OthersSame, OpensNew, IInv, Types, Labels, Busy
<1>6. r \notin hit' => Claim("end", n.path, At(n), rfile'[r], rg'[r], ver, r \in failed')
  <2>1. r \notin hit => Claim("meta", fs.path, At(fs), rfile[r], rg[r], ver, r \in failed)
    BY <1>1 DEF IInv, RunOk
  <2> QED
    BY <1>1, <1>2, <1>3, <2>1 DEF Claim
<1>7. ArtInv'
  <2>1. art = [zst |-> art.zst, meta |-> art.meta, by |-> art.by, why |-> art.why]
    BY DEF IInv, ArtInv
  <2>2. PICK mt \in {"none", "old", "fits"} : art' = [zst |-> art.zst, meta |-> mt, by |-> "none", why |-> art.why]
    BY <2>1 DEF Meta, IInv, ArtInv
  <2>3. art'.zst = art.zst /\ art'.meta = mt /\ art'.why = art.why /\ art'.by = "none"
    BY <2>2
  <2>4. art' = [zst |-> art'.zst, meta |-> art'.meta, by |-> art'.by, why |-> art'.why]
    BY <2>2, <2>3
  <2> QED
    BY <1>1, <2>3, <2>4 DEF IInv, ArtInv, ArchiveWhole
<1> QED
  BY <1>1, <1>2, <1>3, <1>4, <1>5, <1>6, <1>7, MidStep

\* A run outside the lock claims nothing.
LEMMA OutsideOk ==
  ASSUME NEW r \in Runners, rpc'[r] \in {"off", "import", "lock"}, rfile'[r] = 0, rg'[r] <= ver',
         rpc'[r] = "import" => r \in Importers /\ boot'[r].st \in {"ok", "ghost"},
         r \in Locked => lock' # r
  PROVE  RunOk(r)'
BY DEF RunOk, Claim, InRun, Renews

LEMMA StartStep == ASSUME IInv, NEW r \in Runners, Start(r) PROVE IInv'
<1>1. /\ rpc[r] = "off" /\ fs' = fs /\ hit' = hit \ {r} /\ (r = "srv" => spc = "ready")
      /\ spc' = (IF r = "srv" THEN "run" ELSE spc)
      /\ UNCHANGED <<ver, lock, rfile, rg, route, failed, art, acked, edits, requests, at_risk>>
  BY DEF Start
<1>2. rfile[r] = 0 /\ ~InRun(r) /\ RunOk(r)
  BY <1>1, NoFileOpen DEF InRun, IInv
<1>3. PICK l \in {"import", "lock"} :
        /\ Goto(r, l)
        /\ l = "import" => r \in Importers /\ boot' = [boot EXCEPT ![r] = art.zst] /\ Opens(art.zst) /\ conn' = conn
        /\ l = "lock" => boot' = boot /\ conn' = IF r = "srv" THEN 0 ELSE conn
  BY DEF Start, AfterBoot
<1>4. rpc' \in [Runners -> Labels] /\ rpc'[r] = l /\ \A o \in Runners \ {r} : rpc'[o] = rpc[o]
  BY <1>3, GotoLemma DEF IInv, Labels
<1>5. /\ boot' \in [Importers -> FileT]
      /\ \A o \in Importers : boot'[o] = boot[o] \/ (o = r /\ l = "import" /\ boot'[o] = art.zst)
      /\ l = "import" => r \in Importers /\ boot'[r].st \in {"ok", "ghost"}
  <2>1. art.zst \in FileT /\ (l = "import" => art.zst.st \in {"ok", "ghost"})
    BY <1>3 DEF IInv, ArtInv, Bounded, Opens
  <2> QED
    BY <1>3, <2>1 DEF IInv, Types
<1>6. Types'
  BY <1>1, <1>3, <1>4, <1>5 DEF IInv, Types
<1>7. OthersSame(r) /\ OpensNew(r, fs)
  BY <1>1, <1>4, <1>5 DEF OthersSame, OpensNew
<1>8. Fit(fs, "ui") /\ After(r, fs) /\ AdrStep(fs) /\ ConnStep(fs, "ui")
  BY <1>1, <1>3, FitSelf, AfterSame, AdrSame, SMTT(60) DEF IInv, ConnStep
<1>9. RunOk(r)'
  BY <1>1, <1>2, <1>4, <1>5, OutsideOk DEF RunOk
<1>10. LoopInv'
  BY <1>1, <1>3, <1>4 DEF IInv, LoopInv, Runners
<1>11. ArtInv'
  BY <1>1, <1>5 DEF IInv, ArtInv, ArchiveWhole
<1> QED
  BY <1>1, <1>6, <1>7, <1>8, <1>9, <1>10, <1>11, Step

LEMMA ImportStep == ASSUME IInv, NEW r \in Importers, Import(r) PROVE IInv'
<1> DEFINE x == [boot[r] EXCEPT !.src = "import"]
           n == Place(fs, x, r)
<1>1. /\ rpc[r] = "import" /\ Replace(r, n) /\ boot' = [boot EXCEPT ![r] = NoFile]
      /\ conn' = (IF r = "srv" THEN 0 ELSE conn) /\ Goto(r, "lock")
      /\ UNCHANGED <<spc, lock, rfile, rg, route, failed, art, ver, acked, edits, requests>>
  BY DEF Import, AfterBoot, Others
<1>2. r \in Runners /\ r \in Bys /\ "lock" \in Labels
  BY DEF Importers, Runners, Bys, Labels
<1>3. rfile[r] = 0 /\ ~InRun(r) /\ RunOk(r)
  BY <1>1, <1>2, NoFileOpen DEF InRun, IInv
<1>4. boot[r] \in FileT /\ boot[r].st \in {"ok", "ghost"} /\ Bounded(boot[r], ver)
  BY <1>1, <1>3 DEF IInv, Types, ArtInv, RunOk
<1>5. /\ x \in FileT /\ x.st = boot[r].st /\ x.g = boot[r].g /\ x.h = boot[r].h /\ x.adr = boot[r].adr
      /\ x.src = "import"
  BY <1>4 DEF FileT, Srcs
<1> HIDE DEF x
<1>6. Good(x, ver) /\ "import" \in Excused
  BY <1>4, <1>5 DEF Good, Bounded, Excused
<1>7. Fit(n, r)
  BY <1>2, <1>3, <1>5, <1>6, FitPlace DEF IInv
<1> HIDE DEF n
<1>8. After(r, n)
  BY <1>1, <1>7, TouchLemma DEF IInv, Fit, Replace
<1>9. AdrStep(n)
  BY <1>1, AdrReplaced DEF IInv
<1>10. rpc' \in [Runners -> Labels] /\ rpc'[r] = "lock" /\ \A o \in Runners \ {r} : rpc'[o] = rpc[o]
  BY <1>1, <1>2, GotoLemma DEF IInv
<1>11. /\ boot' \in [Importers -> FileT] /\ boot'[r] = NoFile
       /\ \A o \in Importers \ {r} : boot'[o] = boot[o]
  BY <1>1, NoFileTyped DEF IInv, Types
<1>12. Types'
  BY <1>1, <1>8, <1>10, <1>11 DEF IInv, Types, After
<1>13. OthersSame(r) /\ OpensNew(r, n)
  BY <1>1, <1>10, <1>11 DEF OthersSame, OpensNew
<1>14. ConnStep(n, r)
  BY <1>1 DEF ConnStep, Importers
<1>15. RunOk(r)'
  BY <1>1, <1>2, <1>3, <1>10, OutsideOk DEF RunOk
<1>16. LoopInv'
  BY <1>1, <1>2, <1>10 DEF IInv, LoopInv, Runners
<1>17. ArtInv'
  <2>1. Bounded(NoFile, ver)
    BY NoFileTyped, VerPos, SMTT(60) DEF Bounded, IInv
  <2>2. \A o \in Importers : Bounded(boot'[o], ver)
    BY <1>11, <2>1 DEF IInv, ArtInv
  <2> QED
    BY <1>1, <2>2 DEF IInv, ArtInv, ArchiveWhole
<1> QED
  BY <1>1, <1>2, <1>7, <1>8, <1>9, <1>12, <1>13, <1>14, <1>15, <1>16, <1>17, Step

\* What the choice of the route leaves: the files n and the place l.
Routed(r, n, l) ==
  /\ l \in {"open", "incr", "unlink"}
  /\ Fit(n, "ui") /\ After(r, n) /\ (Usable(fs) => n = fs)
  /\ Goto(r, l) /\ route' = [route EXCEPT ![r] = IF l = "incr" THEN "incr" ELSE "full"]
  /\ l = "open" => n.path = 0
  /\ l = "incr" => n.path # 0 /\ At(n).st = "ok" /\ At(n).h > 0

LEMMA RouteStep == ASSUME IInv, NEW r \in Runners, Route(r) PROVE IInv'
<1>1. /\ rpc[r] = "lock" /\ (r \in Locked => lock = "none") /\ lock' = (IF r \in Locked THEN r ELSE lock)
      /\ rg' = [rg EXCEPT ![r] = ver]
      /\ UNCHANGED <<conn, spc, rfile, failed, boot, art, ver, acked, edits, requests, at_risk>>
  BY DEF Route, Others
<1>2. rfile[r] = 0
  BY <1>1, NoFileOpen
<1>3. PICK n, l : Routed(r, n, l)
  <2>1. CASE fs.path = 0 /\ route' = [route EXCEPT ![r] = "full"] /\ Goto(r, "open") /\ UNCHANGED <<fs, hit>>
    <3>1. Fit(fs, "ui") /\ After(r, fs)
      BY <2>1, FitSelf, AfterSame, SMTT(60) DEF IInv
    <3>2. Routed(r, fs, "open")
      BY <2>1, <3>1 DEF Routed
    <3> QED
      BY <3>2
  <2>2. CASE /\ fs.path # 0
             /\ Touch(r, OpenCreate(fs, r))
             /\ \/ /\ Here(fs', {"ok"}) /\ At(fs').h > 0
                   /\ route' = [route EXCEPT ![r] = "incr"] /\ Goto(r, "incr")
                \/ route' = [route EXCEPT ![r] = "full"] /\ Goto(r, "unlink")
    <3> DEFINE n == OpenCreate(fs, r)
    <3>1. Fit(n, "ui") /\ (fs.path # 0 /\ At(fs).st # "new" => n = fs)
      BY <2>2, FitOpenCreate DEF IInv
    <3> HIDE DEF n
    <3>2. After(r, n)
      BY <2>2, <3>1, TouchLemma DEF IInv, Fit, n
    <3>3. Usable(fs) => n = fs
      BY <3>1 DEF Usable, Here
    <3>4. Here(fs', {"ok"}) /\ At(fs').h > 0 => n.path # 0 /\ At(n).st = "ok" /\ At(n).h > 0
      BY <3>2 DEF After, Here
    <3>5. Routed(r, n, "incr") \/ Routed(r, n, "unlink")
      BY <2>2, <3>1, <3>2, <3>3, <3>4 DEF Routed
    <3> QED
      BY <3>5
  <2> QED
    BY <2>1, <2>2 DEF Route
<1>4. rpc' \in [Runners -> Labels] /\ rpc'[r] = l /\ \A o \in Runners \ {r} : rpc'[o] = rpc[o]
  BY <1>3, GotoLemma DEF IInv, Labels, Routed
<1>5. /\ route' \in [Runners -> {"full", "incr"}] /\ (l = "open" => route'[r] = "full")
      /\ \A o \in Runners \ {r} : route'[o] = route[o]
  BY <1>3 DEF IInv, Types, Routed
<1>6. /\ rg' \in [Runners -> Nat] /\ rg'[r] = ver /\ \A o \in Runners \ {r} : rg'[o] = rg[o]
  BY <1>1, VerPos DEF IInv, Types
<1>7. lock' \in {"srv", "bg", "none"}
  BY <1>1 DEF IInv, Types, Locked
<1>8. Types'
  BY <1>1, <1>3, <1>4, <1>5, <1>6, <1>7 DEF IInv, Types, After, Routed
<1>9. OthersSame(r) /\ OpensNew(r, n)
  BY <1>1, <1>4, <1>5, <1>6 DEF OthersSame, OpensNew, Runners
<1>10. AdrStep(n) /\ ConnStep(n, "ui") /\ ArtInv'
  BY <1>1, <1>3, AdrSame, ArtSame DEF IInv, ConnStep, Routed
<1>11. LoopInv'
  BY <1>1, <1>3, <1>4 DEF IInv, LoopInv, Runners, Routed
<1>12. RunOk(r)'
  <2>1. fs'.path = n.path /\ At(fs') = At(n)
    BY <1>3 DEF After, Routed
  <2>2. l = "incr" => At(n).h # 0
    BY <1>3, SMTT(60) DEF Routed
  <2>3. Claim(l, fs'.path, At(fs'), rfile'[r], rg'[r], ver, r \in failed')
    BY <1>3, <2>1, <2>2 DEF Claim, Routed
  <2>4. InRun(r)' /\ ~Renews(r)'
    BY <1>3, <1>4, <1>5 DEF InRun, Renews, Routed
  <2>5. rg'[r] <= ver
    BY <1>6, VerPos, SMTT(60) DEF IInv
  <2> QED
    BY <1>1, <1>2, <1>3, <1>4, <1>6, <2>3, <2>4, <2>5 DEF RunOk, Routed
<1> QED
  BY <1>1, <1>3, <1>8, <1>9, <1>10, <1>11, <1>12, Step DEF Routed

LEMMA ForgetLemma ==
  ASSUME Types, ArtInv, NEW r \in Runners, Forget(r), UNCHANGED <<ver, art>>
  PROVE  /\ failed' \subseteq Runners /\ \A o \in Runners \ {r} : o \in failed' <=> o \in failed
         /\ rfile' \in [Runners -> Slots \union {0}] /\ rfile'[r] = 0 /\ \A o \in Runners \ {r} : rfile'[o] = rfile[o]
         /\ rg' \in [Runners -> Nat] /\ rg'[r] <= ver /\ \A o \in Runners \ {r} : rg'[o] = rg[o]
         /\ route' \in [Runners -> {"full", "incr"}] /\ \A o \in Runners \ {r} : route'[o] = route[o]
         /\ boot' \in [Importers -> FileT] /\ \A o \in Importers \ {r} : boot'[o] = boot[o]
         /\ ArtInv'
<1>1. rg' \in [Runners -> Nat] /\ rg'[r] = 0 /\ \A o \in Runners \ {r} : rg'[o] = rg[o]
  <2>1. 0 \in Nat
    BY SMTT(60)
  <2> QED
    BY <2>1 DEF Forget, Types
<1>2. /\ boot' \in [Importers -> FileT]
      /\ \A o \in Importers : boot'[o] = boot[o] \/ (o = r /\ boot'[o] = NoFile)
  BY NoFileTyped DEF Forget, Types
<1>3. ArtInv'
  <2>1. Bounded(NoFile, ver)
    BY NoFileTyped, VerPos, SMTT(60) DEF Bounded
  <2>2. \A o \in Importers : Bounded(boot'[o], ver)
    BY <1>2, <2>1 DEF ArtInv
  <2> QED
    BY <2>2 DEF ArtInv, ArchiveWhole
<1>4. 0 <= ver
  BY VerPos
<1>5. /\ rfile' \in [Runners -> Slots \union {0}] /\ rfile'[r] = 0
      /\ \A o \in Runners \ {r} : rfile'[o] = rfile[o]
  BY DEF Forget, Types
<1>6. route' \in [Runners -> {"full", "incr"}] /\ \A o \in Runners \ {r} : route'[o] = route[o]
  BY DEF Forget, Types
<1>7. failed' \subseteq Runners /\ \A o \in Runners \ {r} : o \in failed' <=> o \in failed
  BY DEF Forget, Types
<1> QED
  BY <1>1, <1>2, <1>3, <1>4, <1>5, <1>6, <1>7

\* The end of a run, by its return or with its process.
LEMMA Over ==
  ASSUME IInv, NEW r \in Runners, NEW n, Fit(n, "ui"), After(r, n), AdrStep(n), ConnStep(n, "ui"),
         Goto(r, "off"), Forget(r), lock' = (IF r \in Locked THEN "none" ELSE lock),
         r \in Locked => InRun(r),
         UNCHANGED <<ver, art, edits, requests>>,
         conn' \in Slots \union {0}, spc' \in {"ready", "clean", "run"},
         IF r = "srv" THEN spc' # "run" /\ (spc' = "clean" => conn' = 0) ELSE conn' = conn /\ spc' = spc
  PROVE  IInv'
<1>1. rpc' \in [Runners -> Labels] /\ rpc'[r] = "off" /\ \A o \in Runners \ {r} : rpc'[o] = rpc[o]
  BY GotoLemma DEF IInv, Labels
<1>2. /\ failed' \subseteq Runners /\ \A o \in Runners \ {r} : o \in failed' <=> o \in failed
      /\ rfile' \in [Runners -> Slots \union {0}] /\ rfile'[r] = 0 /\ \A o \in Runners \ {r} : rfile'[o] = rfile[o]
      /\ rg' \in [Runners -> Nat] /\ rg'[r] <= ver /\ \A o \in Runners \ {r} : rg'[o] = rg[o]
      /\ route' \in [Runners -> {"full", "incr"}] /\ \A o \in Runners \ {r} : route'[o] = route[o]
      /\ boot' \in [Importers -> FileT] /\ \A o \in Importers \ {r} : boot'[o] = boot[o]
      /\ ArtInv'
  BY ForgetLemma DEF IInv
<1>3. \A o \in Runners \ {r} : lock' = o <=> lock = o
  <2>1. r \in Locked => lock = r
    BY DEF IInv, RunOk
  <2>2. "none" \notin Runners
    BY DEF Runners
  <2> QED
    BY <2>1, <2>2
<1>4. Types'
  <2>1. lock' \in {"srv", "bg", "none"} /\ hit' \subseteq Runners
    BY DEF IInv, Types, After
  <2> QED
    BY <1>1, <1>2, <2>1 DEF IInv, Types
<1>5. OthersSame(r) /\ OpensNew(r, n)
  BY <1>1, <1>2, <1>3 DEF OthersSame, OpensNew
<1>6. RunOk(r)'
  <2>1. r \in Locked => lock' # r
    BY DEF Locked
  <2> QED
    BY <1>1, <1>2, <2>1, OutsideOk
<1>7. LoopInv'
  BY <1>1 DEF IInv, LoopInv, Runners
<1> QED
  BY <1>2, <1>4, <1>5, <1>6, <1>7, Step

LEMMA EndStep == ASSUME IInv, NEW r \in Runners, End(r) PROVE IInv'
<1>1. /\ rpc[r] = "end" /\ lock' = (IF r \in Locked THEN "none" ELSE lock) /\ Goto(r, "off") /\ Forget(r)
      /\ UNCHANGED <<art, ver, acked, edits, requests, at_risk>>
  BY DEF End, Released, Others
<1>2. InRun(r) /\ (r = "srv" => conn = 0) /\ conn \in Slots \union {0} /\ spc \in {"ready", "clean", "run"}
  BY <1>1 DEF InRun, IInv, LoopInv, Types
<1>3. CASE r = "srv" /\ Resolve /\ Touch("srv", Probed)
  <2>1. Fit(Probed, "ui") /\ Probed.path = fs.path /\ (Usable(fs) => Probed = fs)
    BY FitProbed DEF IInv
  <2>2. After(r, Probed) /\ AdrStep(Probed)
    BY <1>1, <1>3, <2>1, TouchLemma, AdrSame DEF IInv, Fit
  <2>3. conn' \in {0, fs.path} /\ spc' \in {"ready", "clean"} /\ (spc' = "clean" => conn' = 0)
    BY <1>2, <1>3, ResolveLemma
  <2>4. conn' \in Slots \union {0}
    BY <2>3 DEF IInv, FsInv, FsT
  <2>5. ConnStep(Probed, "ui")
    BY <2>1, <2>3 DEF ConnStep
  <2> QED
    BY <1>1, <1>2, <1>3, <2>1, <2>2, <2>3, <2>4, <2>5, Over
<1>4. CASE /\ spc' = (IF r = "srv" THEN "ready" ELSE spc)
           /\ hit' = hit \ {r}
           /\ UNCHANGED <<fs, conn>>
  <2>1. Fit(fs, "ui") /\ After(r, fs) /\ AdrStep(fs)
    BY <1>1, <1>4, FitSelf, AfterSame, AdrSame, SMTT(60) DEF IInv
  <2>2. ConnStep(fs, "ui")
    BY <1>2, <1>4 DEF ConnStep
  <2> QED
    BY <1>1, <1>2, <1>4, <2>1, <2>2, Over
<1> QED
  BY <1>3, <1>4 DEF End

LEMMA ChildDiesStep == ASSUME IInv, ChildDies PROVE IInv'
<1>1. /\ Goto("child", "off") /\ Forget("child") /\ hit' = hit \ {"child"} /\ fs' = fs
      /\ UNCHANGED <<conn, spc, lock, art, ver, acked, edits, requests, at_risk>>
  BY DEF ChildDies, Server, Others
<1>2. "child" \in Runners /\ "child" \notin Locked /\ conn \in Slots \union {0} /\ spc \in {"ready", "clean", "run"}
  BY DEF Runners, Locked, IInv, Types
<1>3. Fit(fs, "ui") /\ After("child", fs) /\ AdrStep(fs) /\ ConnStep(fs, "ui")
  BY <1>1, FitSelf, AfterSame, AdrSame, SMTT(60) DEF IInv, ConnStep
<1> QED
  BY <1>1, <1>2, <1>3, Over

LEMMA EditStep == ASSUME IInv, Edit PROVE IInv'
<1>1. /\ ver' = ver + 1 /\ edits' = edits + 1 /\ \A r \in Runners : ~InRun(r)
      /\ UNCHANGED <<fs, conn, spc, lock, rpc, rfile, rg, route, failed, boot, art, acked, requests, hit, at_risk>>
  BY DEF Edit, run
<1>2. Types'
  <2>1. edits' \in Nat /\ ver' = edits' + 1
    BY <1>1, SMTT(60) DEF IInv, Types
  <2> QED
    BY <1>1, <2>1 DEF IInv, Types
<1>3. \A k \in Nat : k <= ver => k <= ver'
  BY <1>1, SMTT(60) DEF IInv, Types
<1>4. \A f : Bounded(f, ver) => Bounded(f, ver')
  BY <1>3 DEF Bounded, FileT
<1>5. \A f : Good(f, ver) => Good(f, ver')
  BY <1>4 DEF Good
<1>6. FsInv'
  BY <1>1, <1>5 DEF IInv, FsInv, GhostOnlyBy
<1>7. ArtInv'
  BY <1>1, <1>4 DEF IInv, ArtInv, ArchiveWhole
<1>8. ASSUME NEW r \in Runners PROVE RunOk(r)'
  <2>1. RunOk(r) /\ ~InRun(r) /\ rpc[r] \in {"off", "import", "lock"} /\ rg[r] \in Nat
    BY <1>1 DEF IInv, InRun, Types
  <2>2. rfile'[r] = 0 /\ rg'[r] <= ver' /\ (r \in Locked => lock' # r)
    BY <1>1, <1>3, <2>1 DEF RunOk
  <2>3. rpc'[r] = "import" => r \in Importers /\ boot'[r].st \in {"ok", "ghost"}
    BY <1>1, <2>1 DEF RunOk
  <2> QED
    BY <1>1, <2>1, <2>2, <2>3, OutsideOk
<1> QED
  BY <1>1, <1>2, <1>6, <1>7, <1>8 DEF IInv, LoopInv, StaleOnlyBy, AdrLostOnlyBy, Usable, Here

LEMMA NextIInv == IInv /\ [Next]_vars => IInv'
<1> SUFFICES ASSUME IInv, [Next]_vars PROVE IInv'
  OBVIOUS
<1>1. ASSUME NEW r \in Runners, RunStep(r) PROVE IInv'
  BY <1>1, StartStep, RouteStep, IncrStep, RemoveOldStep, OpenStep, WriteStep, FinishStep, PersistStep,
     ExportStep, MetaStep, EndStep, ImportStep DEF RunStep
<1>2. CASE UNCHANGED vars
  <2>1. UNCHANGED <<fs, ver, conn, spc, lock, rpc, rfile, rg, route, failed, boot, art, acked, edits, requests, hit, at_risk>>
    BY <1>2 DEF vars, run, count
  <2>2. Types' /\ FsInv' /\ LoopInv' /\ ArtInv' /\ StaleOnlyBy' /\ AdrLostOnlyBy'
    <3>1. Types'
      BY <2>1 DEF IInv, Types
    <3>2. FsInv'
      BY <2>1 DEF IInv, FsInv, GhostOnlyBy, Here
    <3>3. LoopInv'
      BY <2>1 DEF IInv, LoopInv, Usable, Here
    <3>4. ArtInv'
      BY <2>1 DEF IInv, ArtInv, ArchiveWhole
    <3>5. StaleOnlyBy' /\ AdrLostOnlyBy'
      BY <2>1 DEF IInv, StaleOnlyBy, AdrLostOnlyBy, Usable, Here
    <3> QED
      BY <3>1, <3>2, <3>3, <3>4, <3>5
  <2>3. ASSUME NEW r \in Runners PROVE RunOk(r)'
    <3>1. RunOk(r)
      BY DEF IInv
    <3> QED
      BY <2>1, <3>1 DEF RunOk, InRun, Renews
  <2> QED
    BY <2>2, <2>3 DEF IInv
<1> QED
  BY <1>1, <1>2, EditStep, QueryStep, AutoCleanStep, AdrUpdateStep, DeleteProjectStep, EvictIdleStep,
     UiAdrGetStep, UiAdrSaveStep, UiDeleteStep, ChildDiesStep DEF Next

LEMMA Inductive == Spec => []IInv
BY InitIInv, NextIInv, PTL DEF Spec

-----------------------------------------------------------------------------
(* What the store promises *)

LEMMA Consequences == IInv => /\ TypeOK /\ SuccessLeavesDb /\ RowsTruthful /\ StaleOnlyBy /\ GhostOnlyBy
                              /\ ArchiveSound /\ AdrLostOnlyBy
<1> SUFFICES ASSUME IInv PROVE /\ TypeOK /\ SuccessLeavesDb /\ RowsTruthful /\ StaleOnlyBy /\ GhostOnlyBy
                               /\ ArchiveSound /\ AdrLostOnlyBy
  OBVIOUS
<1>1. \A i \in Slots : Good(fs.files[i], ver) /\ Bounded(fs.files[i], ver) /\ fs.files[i] \in FileT
  BY DEF IInv, FsInv, Good, Bounded
<1>2. TypeOK
  <2>1. ver \in Nat /\ ver = edits + 1
    BY VerPos DEF IInv, Types
  <2>2. \A k \in Nat : k <= ver => k \in 0..ver
    BY <2>1, SMTT(60)
  <2>3. \A k \in Nat : k <= MaxRequests => k \in 0..MaxRequests
    BY SMTT(60)
  <2>4. ASSUME NEW i \in Slots
        PROVE  LET f == fs.files[i]
               IN f.st \in States /\ f.g \in 0..ver /\ f.h \in 0..ver /\ f.adr \in 0..MaxRequests
    BY <1>1, <2>2, <2>3 DEF Bounded, FileT
  <2>5. fs.path \in Slots \union {0} /\ art.zst.st \in States /\ art.meta \in {"none", "old", "fits"}
    BY DEF IInv, FsInv, FsT, ArtInv, Bounded, FileT
  <2>6. \A r \in Locked : InRun(r) <=> lock = r
    BY DEF IInv, RunOk, Locked, Runners
  <2>7. ASSUME NEW r \in Runners
        PROVE  rfile[r] \in Slots \union {0} /\ rg[r] \in 0..ver /\ route[r] \in {"full", "incr"}
    BY <2>2 DEF IInv, Types, RunOk
  <2>8. /\ conn \in Slots \union {0} /\ spc \in {"ready", "clean", "run"} /\ lock \in Locked \union {"none"}
        /\ failed \subseteq Runners /\ hit \subseteq Runners
    BY DEF IInv, Types, Locked
  <2> QED
    BY <2>1, <2>4, <2>5, <2>6, <2>7, <2>8 DEF TypeOK
<1>3. SuccessLeavesDb
  BY DEF SuccessLeavesDb, IInv, RunOk, Claim, Here
<1>4. RowsTruthful
  BY <1>1 DEF RowsTruthful, Good
<1>5. ArchiveSound
  BY <1>1 DEF ArchiveSound, ImportOpens, Good, IInv, ArtInv
<1> QED
  BY <1>2, <1>3, <1>4, <1>5 DEF IInv, FsInv

\* However the event loop, the watcher, the UI thread and its child interleave,
\* a thread of the server is between cbm_pipeline_lock and unlock exactly while
\* the lock is its own, and every file, row and counter stays in its range.
THEOREM StoreTypes == Spec => []TypeOK
BY Inductive, Consequences, PTL

\* A run that reports the index as stored, and whose file nobody touched, has
\* left a database with the hash rows of its sources beside their graph.
THEOREM StoreSuccess == Spec => []SuccessLeavesDb
BY Inductive, Consequences, PTL

\* Rows that make a stale graph look up to date come only from an import that
\* does not take the lock.
THEOREM StoreRows == Spec => []RowsTruthful
BY Inductive, Consequences, PTL

\* The event loop's cached connection is left on a removed file only by another
\* thread or process.
THEOREM StoreConnection == Spec => []StaleOnlyBy
BY Inductive, Consequences, PTL

\* No query tool makes an empty database: one is found at the path only where
\* the UI, a surprised or failed run, or an import put it.
THEOREM StoreGhosts == Spec => []GhostOnlyBy
BY Inductive, Consequences, PTL

\* The archive that cbm_artifact_export renames into place is whole unless its
\* run failed or was surprised, and what cbm_artifact_import installs opens.
THEOREM StoreArchive == Spec => []ArchiveSound
BY Inductive, Consequences, PTL

\* An acknowledged ADR is lost only with the file that holds it, or through a
\* connection that was stale already.
THEOREM StoreAdr == Spec => []AdrLostOnlyBy
BY Inductive, Consequences, PTL

-----------------------------------------------------------------------------
(* The manifest *)

\* What the UPDATE of memory_commit will mark committed is recallable, or raced.
UpdateInv ==
  \A c \in Clients : pc[c] = "update" => Selected(c) \subseteq memories \union raced

ManifestIInv == ManifestTypeOK /\ OnlyValidated /\ LostOnlyByRace /\ UpdateInv /\ RecalledIsCommitted

USE ManifestAssumption

LEMMA ManifestInitIInv == ManifestInit => ManifestIInv
  BY SMTT(60) DEF ManifestInit, ManifestIInv, ManifestTypeOK, OnlyValidated, LostOnlyByRace, UpdateInv,
     RecalledIsCommitted, With, Selected

LEMMA ManifestStepIInv == ASSUME ManifestIInv, [ManifestNext]_manifest PROVE ManifestIInv'
<1> USE DEF ManifestIInv, ManifestTypeOK, OnlyValidated, LostOnlyByRace, UpdateInv,
    RecalledIsCommitted, Proceed, With, Selected
<1>1. ASSUME NEW c \in Clients, NEW i \in Ids, Candidate(c, i) PROVE ManifestIInv'
  BY <1>1 DEF Candidate
<1>2. ASSUME NEW c \in Clients, ValidateCount(c) PROVE ManifestIInv'
  BY <1>2, SMTT(60) DEF ValidateCount
<1>3. ASSUME NEW c \in Clients, ValidateUpdate(c) PROVE ManifestIInv'
  BY <1>3, SMTT(60) DEF ValidateUpdate
<1>4. ASSUME NEW c \in Clients, CommitCount(c) PROVE ManifestIInv'
  BY <1>4, SMTT(60) DEF CommitCount
<1>5. ASSUME NEW c \in Clients, CommitInsert(c) PROVE ManifestIInv'
  BY <1>5, SMTT(60) DEF CommitInsert
<1>6. ASSUME NEW c \in Clients, CommitUpdate(c) PROVE ManifestIInv'
  BY <1>6, SMTT(60) DEF CommitUpdate
<1>7. ASSUME NEW c \in Clients, Mishap(c) PROVE ManifestIInv'
  BY <1>7, SMTT(60) DEF Mishap
<1>8. CASE UNCHANGED manifest
  BY <1>8 DEF manifest
<1> HIDE DEF ManifestIInv
<1> QED
  BY <1>1, <1>2, <1>3, <1>4, <1>5, <1>6, <1>7, <1>8 DEF ManifestNext, Quiet

LEMMA ManifestInductive == ManifestSpec => []ManifestIInv
  BY ManifestInitIInv, ManifestStepIInv, PTL DEF ManifestSpec

\* However the statements of any number of processes interleave and fail, a
\* row of memories comes from a validated candidate and stays so.
THEOREM MemoriesValidated == ManifestSpec => []OnlyValidated
<1>1. ManifestIInv => OnlyValidated
  BY DEF ManifestIInv
<1> QED
  BY ManifestInductive, <1>1, PTL

\* A candidate that memory_commit marked committed is in memories, unless it
\* was validated between the two statements of some process's commit.
THEOREM CommittedAreRecallable == ManifestSpec => []LostOnlyByRace
<1>1. ManifestIInv => LostOnlyByRace
  BY DEF ManifestIInv
<1> QED
  BY ManifestInductive, <1>1, PTL

\* Without refused statements and dead processes, a recallable memory's
\* candidate is committed or about to be.
THEOREM RecallableAreCommitted == ManifestSpec => []RecalledIsCommitted
<1>1. ManifestIInv => RecalledIsCommitted
  BY DEF ManifestIInv
<1> QED
  BY ManifestInductive, <1>1, PTL

=============================================================================
