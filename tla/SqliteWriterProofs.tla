------------------------- MODULE SqliteWriterProofs -------------------------
(***************************************************************************)
(* What holds of the page writer for every page geometry, every sequence   *)
(* of trees and every row: no page is written twice, no page is overfull,  *)
(* only an overflow page can land on the pending byte, and in the finished *)
(* file every page is named once.                                          *)
(***************************************************************************)
EXTENDS SqliteWriter, FiniteSetTheorems, TLAPS

\* A leaf that names no prover is tried with Zenon, then with SMT.
USE ZenonT(60), SMTT(60)

\* A remainder is below its divisor and not above what was divided; a
\* quotient of naturals is a natural.
LEMMA Division ==
    ASSUME NEW a \in Nat, NEW b \in Nat, b > 0
    PROVE  /\ a % b \in Nat
           /\ a % b <= a
           /\ a \div b \in Nat
  BY SMTT(60)

\* The part of a payload kept in its cell is within the limit and not longer
\* than the payload.
LEMMA LocalBounds ==
    ASSUME NEW p \in Nat, NEW max \in Nat, MinLocal <= max
    PROVE  /\ Local(p, max) \in Nat
           /\ Local(p, max) <= max
           /\ Spilled(p, max) \in Nat
  <1>1. PerPage \in Nat /\ PerPage > 0 /\ MinLocal \in Nat
    BY Geometry, SMTT(60) DEF PerPage
  <1>2. CASE p <= max
    BY <1>1, <1>2, SMTT(60) DEF Local, Spilled
  <1>3. CASE p > max
    <2>1. p - MinLocal \in Nat
      BY <1>1, <1>3, SMTT(60)
    <2>2. /\ (p - MinLocal) % PerPage \in Nat
          /\ (p - MinLocal) % PerPage <= p - MinLocal
      BY <1>1, <2>1, Division
    <2> QED
      BY <1>1, <1>3, <2>1, <2>2, SMTT(60) DEF Local, Spilled
  <1> QED
    BY <1>2, <1>3, SMTT(60)

LEMMA ChainNat ==
    ASSUME NEW bytes \in Nat
    PROVE  Chain(bytes) \in Nat
  <1>1. PerPage \in Nat /\ PerPage > 0
    BY Geometry, SMTT(60) DEF PerPage
  <1>2. bytes + PerPage - 1 \in Nat
    BY <1>1, SMTT(60)
  <1> QED
    BY <1>1, <1>2, Division DEF Chain
----------------------------------------------------------------------------
(***************************************************************************)
(* The invariant.  Below(file, n): everything written so far is under page *)
(* n, and page 1 is still to come.  Which counter bounds the file depends  *)
(* on the phase: an index spills through next before its builder starts,   *)
(* everything else goes through pb.                                        *)
(***************************************************************************)
Below(file, n) == \A q \in DOMAIN file : q \in Nat /\ q > 1 /\ q < n

Good(file) ==
    \A q \in DOMAIN file :
        /\ file[q].kind \in {"leaf", "interior"} => file[q].room \in Int /\ file[q].room >= 0
        /\ q = PendingPage => file[q].kind = "overflow"

Extends(file, more) == \A q \in DOMAIN file : q \in DOMAIN more /\ more[q] = file[q]

CellSet == [key : Nat, len : Nat, ovfl : Nat]

InteriorCellSet == [left : Nat, key : Nat, ovfl : Nat, len : Nat]

RefSet == [page : Nat, key : Nat, len : Nat, ovfl : Nat]

\* The longest index cell.
MaxCell == Varint + IndexMax + PagePtr

Bounded(s) == \A j \in 1 .. Len(s) : s[j].len <= MaxCell

InTree == pc \in {"rows", "index", "interior"}

TInv ==
    /\ pc \in {"rows", "index", "interior", "master", "closed"}
    /\ InTree => tree \in 1 .. Len(Kinds)
    /\ next \in Nat /\ next > 1 /\ pb \in Nat /\ pb > 1 /\ room \in Int
    /\ rows \in [1 .. Len(Kinds) -> Nat]
    /\ todo \in Seq(CellSet)
    /\ pc \in {"rows", "index"} => page \in Seq(CellSet)
    /\ pc = "interior" => page \in Seq(InteriorCellSet)
    /\ children \in Seq(RefSet) /\ parents \in Seq(RefSet)
    /\ i \in Nat /\ i > 0 /\ (pc = "interior" /\ Len(children) > 1 => i <= Len(children))
    /\ pc \in {"rows", "index"} => i = 1

RInv ==
    /\ room >= 0
    /\ pc \in {"rows", "index"} /\ page = <<>> => room = EmptyLeafRoom
    /\ pc = "interior" /\ page = <<>> => room = EmptyInteriorRoom
    /\ InTree /\ IsIndex => Bounded(todo) /\ Bounded(children) /\ Bounded(parents)
    /\ pc \in {"rows", "index"} /\ IsIndex => Bounded(page)

FInv ==
    /\ Good(pages)
    /\ pc = "rows" /\ (IsIndex \/ rows[tree] = 0) => Below(pages, next)
    /\ pc = "rows" /\ ~IsIndex => Below(pages, pb)
    /\ pc \in {"index", "interior"} => Below(pages, pb)
    /\ pc = "master" => Below(pages, next)

IInv == TInv /\ RInv /\ FInv
----------------------------------------------------------------------------
\* A written page sits beside what was there, when its number is new.
LEMMA WrittenAt ==
    ASSUME NEW file, NEW more
    PROVE  LET g == Written(file, more)
           IN  /\ DOMAIN g = DOMAIN file \cup DOMAIN more
               /\ \A q \in DOMAIN more : g[q] = more[q]
               /\ \A q \in DOMAIN file : q \notin DOMAIN more => g[q] = file[q]
  BY DEF Written

LEMMA SkipFacts ==
    ASSUME NEW n \in Nat, n > 1
    PROVE  Skip(n) \in Nat /\ Skip(n) >= n /\ Skip(n) # PendingPage
  BY Geometry, SMTT(60) DEF Skip

\* Overflow pages at a fresh counter overwrite nothing.
LEMMA OverflowWritten ==
    ASSUME NEW file, NEW n \in Nat, n > 1, NEW bytes \in Nat, Below(file, n), Good(file)
    PROVE  LET g == Written(file, Overflow(n, bytes))
           IN  /\ Below(g, n + Chain(bytes))
               /\ Good(g)
               /\ Extends(file, g)
  <1> DEFINE ov == Overflow(n, bytes)
  <1> DEFINE g == Written(file, ov)
  <1>1. Chain(bytes) \in Nat
    BY ChainNat
  <1>2. /\ DOMAIN ov = n .. (n + Chain(bytes) - 1)
        /\ \A q \in DOMAIN ov : ov[q].kind = "overflow"
    BY DEF Overflow
  <1>3. /\ DOMAIN g = DOMAIN file \cup DOMAIN ov
        /\ \A q \in DOMAIN ov : g[q] = ov[q]
        /\ \A q \in DOMAIN file : q \notin DOMAIN ov => g[q] = file[q]
    BY WrittenAt
  <1> HIDE DEF ov, g
  <1>4. \A q \in DOMAIN file : q \notin DOMAIN ov
    BY <1>1, <1>2, SMTT(60) DEF Below
  <1>5. Below(g, n + Chain(bytes))
    BY <1>1, <1>2, <1>3, SMTT(60) DEF Below
  <1>6. Good(g)
    BY <1>2, <1>3, <1>4 DEF Good
  <1>7. Extends(file, g)
    BY <1>3, <1>4 DEF Extends
  <1> QED
    BY <1>5, <1>6, <1>7 DEF ov, g

\* So does one tree page, after the skip of the pending page.
LEMMA TreePageWritten ==
    ASSUME NEW file, NEW n \in Nat, n > 1, Below(file, n), Good(file), NEW more,
           DOMAIN more = {Skip(n)}, more[Skip(n)].room \in Int, more[Skip(n)].room >= 0
    PROVE  LET g == Written(file, more)
           IN  /\ Below(g, Skip(n) + 1)
               /\ Good(g)
               /\ Extends(file, g)
  <1> DEFINE g == Written(file, more)
  <1>1. Skip(n) \in Nat /\ Skip(n) >= n /\ Skip(n) # PendingPage
    BY SkipFacts
  <1>2. /\ DOMAIN g = DOMAIN file \cup DOMAIN more
        /\ \A q \in DOMAIN more : g[q] = more[q]
        /\ \A q \in DOMAIN file : q \notin DOMAIN more => g[q] = file[q]
    BY WrittenAt
  <1> HIDE DEF g
  <1>3. \A q \in DOMAIN file : q \notin DOMAIN more
    BY <1>1, SMTT(60) DEF Below
  <1>4. Below(g, Skip(n) + 1)
    BY <1>1, <1>2, SMTT(60) DEF Below
  <1>5. Good(g)
    BY <1>1, <1>2, <1>3 DEF Good
  <1>6. Extends(file, g)
    BY <1>2, <1>3 DEF Extends
  <1> QED
    BY <1>4, <1>5, <1>6 DEF g

LEMMA LeafWritten ==
    ASSUME NEW file, NEW n \in Nat, n > 1, Below(file, n), Good(file),
           NEW cells, NEW left \in Int, left >= 0
    PROVE  LET g == Written(file, Leaf(Skip(n), cells, left))
           IN  /\ Below(g, Skip(n) + 1)
               /\ Good(g)
               /\ Extends(file, g)
  <1>1. /\ DOMAIN Leaf(Skip(n), cells, left) = {Skip(n)}
        /\ Leaf(Skip(n), cells, left)[Skip(n)].room = left
    BY DEF Leaf
  <1> QED
    BY <1>1, TreePageWritten

LEMMA InteriorWritten ==
    ASSUME NEW file, NEW n \in Nat, n > 1, Below(file, n), Good(file),
           NEW cells, NEW left \in Int, left >= 0, NEW right
    PROVE  LET g == Written(file, Interior(Skip(n), cells, left, right))
           IN  /\ Below(g, Skip(n) + 1)
               /\ Good(g)
               /\ Extends(file, g)
  <1>1. /\ DOMAIN Interior(Skip(n), cells, left, right) = {Skip(n)}
        /\ Interior(Skip(n), cells, left, right)[Skip(n)].room = left
    BY DEF Interior
  <1> QED
    BY <1>1, TreePageWritten
----------------------------------------------------------------------------
LEMMA Rooms ==
    /\ EmptyLeafRoom \in Nat /\ EmptyInteriorRoom \in Nat
    /\ MaxCell \in Nat
    /\ 2 * (MaxCell + CellPtr) <= EmptyLeafRoom
    /\ PagePtr + MaxCell + CellPtr <= EmptyInteriorRoom
  BY Geometry, SMTT(60) DEF EmptyLeafRoom, EmptyInteriorRoom, MaxCell

\* A table cell fits an empty leaf.
LEMMA TableCell ==
    ASSUME NEW k \in Nat, NEW p \in Payloads, NEW n \in Nat
    PROVE  LET c == Cell(k, p, TableMax, 2, n)
           IN  c \in CellSet /\ c.len + CellPtr <= EmptyLeafRoom
  <1> DEFINE c == Cell(k, p, TableMax, 2, n)
  <1>1. p \in Nat /\ TableMax \in Nat /\ MinLocal <= TableMax /\ Varint \in Nat /\ PagePtr \in Nat
    BY Geometry
  <1>2. Local(p, TableMax) \in Nat /\ Local(p, TableMax) <= TableMax
    BY <1>1, LocalBounds
  <1>3. /\ c.key = k
        /\ c.len = 2 * Varint + Local(p, TableMax) + (IF p > TableMax THEN PagePtr ELSE 0)
        /\ c.ovfl = IF p > TableMax THEN n ELSE NoPage
        /\ c = [key |-> c.key, len |-> c.len, ovfl |-> c.ovfl]
    BY DEF Cell
  <1>4. c.len \in Nat /\ c.len <= 2 * Varint + TableMax + PagePtr
    BY <1>1, <1>2, <1>3, SMTT(60)
  <1>5. c.ovfl \in Nat
    BY <1>1, <1>3, SMTT(60) DEF NoPage
  <1> HIDE DEF c
  <1>6. c \in CellSet
    BY <1>3, <1>4, <1>5 DEF CellSet
  <1>7. c.len + CellPtr <= EmptyLeafRoom
    BY <1>1, <1>4, Geometry, SMTT(60) DEF EmptyLeafRoom
  <1> QED
    BY <1>6, <1>7 DEF c

\* An index cell, spilled or not, is within the longest.
LEMMA SpilledCell ==
    ASSUME NEW k \in Nat, NEW p \in Payloads, NEW n \in Nat
    PROVE  LET c == Cell(k, p, IndexMax, 1, n)
           IN  c \in CellSet /\ c.len <= MaxCell
  <1> DEFINE c == Cell(k, p, IndexMax, 1, n)
  <1>1. p \in Nat /\ IndexMax \in Nat /\ MinLocal <= IndexMax /\ Varint \in Nat /\ PagePtr \in Nat
    BY Geometry
  <1>2. Local(p, IndexMax) \in Nat /\ Local(p, IndexMax) <= IndexMax
    BY <1>1, LocalBounds
  <1>3. /\ c.key = k
        /\ c.len = 1 * Varint + Local(p, IndexMax) + (IF p > IndexMax THEN PagePtr ELSE 0)
        /\ c.ovfl = IF p > IndexMax THEN n ELSE NoPage
        /\ c = [key |-> c.key, len |-> c.len, ovfl |-> c.ovfl]
    BY DEF Cell
  <1>4. c.len \in Nat /\ c.len <= MaxCell
    BY <1>1, <1>2, <1>3, SMTT(60) DEF MaxCell
  <1>5. c.ovfl \in Nat
    BY <1>1, <1>3, SMTT(60) DEF NoPage
  <1> HIDE DEF c
  <1>6. c \in CellSet
    BY <1>3, <1>4, <1>5 DEF CellSet
  <1> QED
    BY <1>4, <1>6 DEF c

LEMMA RefTyped ==
    ASSUME NEW n \in Nat, NEW c \in CellSet
    PROVE  Ref(n, c) \in RefSet /\ Ref(n, c).len = c.len
  BY DEF Ref, CellSet, RefSet

LEMMA KeyedTyped ==
    ASSUME NEW c \in CellSet, NEW k \in Nat
    PROVE  [c EXCEPT !.key = k] \in CellSet /\ [c EXCEPT !.key = k].len = c.len
  BY DEF CellSet

\* Appending to a sequence keeps its elements and adds one.
LEMMA Appended ==
    ASSUME NEW S, NEW s \in Seq(S), NEW e \in S
    PROVE  /\ Append(s, e) \in Seq(S)
           /\ Len(Append(s, e)) = Len(s) + 1
           /\ Append(s, e) # <<>>
           /\ Append(s, e)[Len(s) + 1] = e
           /\ \A j \in 1 .. Len(s) : Append(s, e)[j] = s[j]
  BY SMTT(60)

LEMMA BoundedAppend ==
    ASSUME NEW S, NEW s \in Seq(S), NEW e \in S, Bounded(s), e.len <= MaxCell
    PROVE  Bounded(Append(s, e))
  <1>1. Len(s) \in Nat
    BY SMTT(60)
  <1> QED
    BY <1>1, Appended, SMTT(60) DEF Bounded

LEMMA PrevTyped ==
    ASSUME page \in Seq(CellSet), page # <<>>
    PROVE  Prev \in CellSet /\ (Bounded(page) => Prev.len <= MaxCell)
  <1>1. Len(page) \in Nat /\ Len(page) > 0
    BY SMTT(60)
  <1>2. Len(page) \in 1 .. Len(page)
    BY <1>1, SMTT(60)
  <1> QED
    BY <1>2, SMTT(60) DEF Prev, Bounded
----------------------------------------------------------------------------
LEMMA ExtendsTransitive ==
    ASSUME NEW f, NEW g, NEW h, Extends(f, g), Extends(g, h)
    PROVE  Extends(f, h)
  BY DEF Extends

LEMMA ExtendsSame ==
    ASSUME NEW f
    PROVE  Extends(f, f)
  BY DEF Extends

\* What a flush keeps, whether or not there is anything to write.
LEMMA FlushStep ==
    ASSUME children \in Seq(RefSet), NEW file, NEW n \in Nat, n > 1, Below(file, n), Good(file),
           NEW cells, NEW left \in Int, left >= 0, NEW sep, cells # <<>> => sep \in CellSet,
           Flush(file, n, cells, left, sep)
    PROVE  /\ Below(pages', pb') /\ Good(pages') /\ Extends(file, pages')
           /\ pb' \in Nat /\ pb' > 1
           /\ children' \in Seq(RefSet)
           /\ Bounded(children) /\ (cells # <<>> => sep.len <= MaxCell) => Bounded(children')
  <1>1. CASE cells = <<>>
    <2>1. pages' = file /\ pb' = n /\ children' = children
      BY <1>1 DEF Flush
    <2>2. Bounded(children) => Bounded(children')
      BY <2>1
    <2> QED
      BY <2>1, <2>2, ExtendsSame
  <1>2. CASE cells # <<>>
    <2> DEFINE r == Ref(Skip(n), sep)
    <2>1. /\ pages' = Written(file, Leaf(Skip(n), cells, left))
          /\ pb' = Skip(n) + 1
          /\ children' = Append(children, r)
      BY <1>2 DEF Flush
    <2>2. Skip(n) \in Nat /\ Skip(n) >= n
      BY SkipFacts
    <2>3. r \in RefSet /\ r.len = sep.len
      BY <1>2, <2>2, RefTyped
    <2> HIDE DEF r
    <2>4. Below(pages', pb') /\ Good(pages') /\ Extends(file, pages')
      BY <2>1, LeafWritten
    <2>5. children' \in Seq(RefSet)
      BY <2>1, <2>3, Appended
    <2>6. Bounded(children) /\ sep.len <= MaxCell => Bounded(children')
      BY <2>1, <2>3, BoundedAppend
    <2> QED
      BY <1>2, <2>1, <2>2, <2>4, <2>5, <2>6, SMTT(60)
  <1> QED
    BY <1>1, <1>2

LEMMA InitInv == Init => IInv
  <1> SUFFICES ASSUME Init PROVE IInv
    OBVIOUS
  <1>1. Len(Kinds) \in Nat /\ Len(Kinds) > 0 /\ DOMAIN Kinds = 1 .. Len(Kinds)
    BY Geometry, SMTT(60)
  <1>2. rows \in [1 .. Len(Kinds) -> Nat]
    BY <1>1 DEF Init
  <1>3. DOMAIN pages = {}
    BY SMTT(60) DEF Init
  <1>4. TInv
    BY <1>1, <1>2, Rooms, SMTT(60) DEF Init, TInv, InTree
  <1>5. RInv
    BY Rooms, SMTT(60) DEF Init, RInv, Bounded
  <1>6. FInv
    BY <1>3 DEF Init, FInv, Good, Below
  <1> QED
    BY <1>4, <1>5, <1>6 DEF IInv

\* A row added to a table.
LEMMA TableRowStep ==
    ASSUME IInv, NEW p \in Payloads, TableRow(p)
    PROVE  IInv' /\ Extends(pages, pages')
  <1> DEFINE c == Cell(Key, p, TableMax, 2, pb)
  <1> DEFINE bytes == Spilled(p, TableMax)
  <1> DEFINE file == Written(pages, Overflow(pb, bytes))
  <1> DEFINE n == pb + Chain(bytes)
  <1>a. /\ pc = "rows" /\ pc' = "rows" /\ tree' = tree /\ tree \in 1 .. Len(Kinds)
        /\ rows \in [1 .. Len(Kinds) -> Nat] /\ rows[tree] \in Nat
        /\ pb \in Nat /\ pb > 1 /\ room \in Int /\ room >= 0
        /\ page \in Seq(CellSet) /\ children \in Seq(RefSet)
        /\ page = <<>> => room = EmptyLeafRoom
        /\ ~IsIndex /\ IsIndex' = IsIndex
        /\ Below(pages, pb) /\ Good(pages)
    BY DEF TableRow, IInv, TInv, RInv, FInv, InTree, IsIndex
  <1>b. Key \in Nat
    BY <1>a, SMTT(60) DEF Key
  <1>c. c \in CellSet /\ c.len + CellPtr <= EmptyLeafRoom /\ c.len \in Nat
    <2>1. c \in CellSet /\ c.len + CellPtr <= EmptyLeafRoom
      BY <1>a, <1>b, TableCell
    <2> QED
      BY <2>1 DEF CellSet
  <1>d. bytes \in Nat /\ Chain(bytes) \in Nat
    <2>1. p \in Nat /\ TableMax \in Nat /\ MinLocal <= TableMax
      BY Geometry
    <2> QED
      BY <2>1, LocalBounds, ChainNat
  <1>e. Below(file, n) /\ Good(file) /\ Extends(pages, file)
    BY <1>a, <1>d, OverflowWritten
  <1>f. n \in Nat /\ n > 1
    BY <1>a, <1>d, SMTT(60)
  <1>g. /\ rows' = [rows EXCEPT ![tree] = @ + 1]
        /\ UNCHANGED <<next, todo, parents, i>>
        /\ \/ /\ page # <<>>
              /\ Flush(file, n, page, room, [Prev EXCEPT !.key = PrevRowid])
              /\ page' = <<c>>
              /\ room' = EmptyLeafRoom - c.len - CellPtr
           \/ /\ Fits(c.len, room) \/ page = <<>>
              /\ pages' = file /\ pb' = n /\ children' = children
              /\ page' = Append(page, c)
              /\ room' = room - c.len - CellPtr
    BY DEF TableRow
  <1>h. CellPtr \in Nat /\ EmptyLeafRoom \in Nat
    BY Geometry, Rooms
  <1> HIDE DEF c, bytes, file, n
  <1>1. /\ Below(pages', pb') /\ Good(pages') /\ Extends(pages, pages')
        /\ pb' \in Nat /\ pb' > 1 /\ children' \in Seq(RefSet)
        /\ page' \in Seq(CellSet) /\ page' # <<>>
        /\ room' \in Int /\ room' >= 0
    <2>1. CASE /\ page # <<>>
               /\ Flush(file, n, page, room, [Prev EXCEPT !.key = PrevRowid])
               /\ page' = <<c>>
               /\ room' = EmptyLeafRoom - c.len - CellPtr
      <3>1. [Prev EXCEPT !.key = PrevRowid] \in CellSet
        BY <1>a, <2>1, PrevTyped, KeyedTyped DEF PrevRowid
      <3>2. /\ Below(pages', pb') /\ Good(pages') /\ Extends(file, pages')
            /\ pb' \in Nat /\ pb' > 1 /\ children' \in Seq(RefSet)
        BY <1>a, <1>e, <1>f, <2>1, <3>1, FlushStep
      <3>3. page' \in Seq(CellSet) /\ page' # <<>>
        BY <1>c, <2>1, SMTT(60)
      <3>4. room' \in Int /\ room' >= 0
        BY <1>c, <1>h, <2>1, SMTT(60)
      <3> QED
        BY <1>e, <3>2, <3>3, <3>4, ExtendsTransitive
    <2>2. CASE /\ Fits(c.len, room) \/ page = <<>>
               /\ pages' = file /\ pb' = n /\ children' = children
               /\ page' = Append(page, c)
               /\ room' = room - c.len - CellPtr
      <3>1. page' \in Seq(CellSet) /\ page' # <<>>
        BY <1>a, <1>c, <2>2, Appended, SMTT(60)
      <3>2. c.len + CellPtr <= room
        <4>1. CASE Fits(c.len, room)
          BY <1>a, <1>c, <1>h, <4>1, SMTT(60) DEF Fits
        <4>2. CASE page = <<>>
          BY <1>a, <1>c, <4>2
        <4> QED
          BY <2>2, <4>1, <4>2
      <3>3. room' \in Int /\ room' >= 0
        <4>1. room' = room - c.len - CellPtr
          BY <2>2
        <4>2. room \in Int /\ c.len \in Nat /\ CellPtr \in Nat
          BY <1>a, <1>c, <1>h
        <4> QED
          BY <3>2, <4>1, <4>2, SMTT(60)
      <3> QED
        BY <1>a, <1>e, <1>f, <2>2, <3>1, <3>3
    <2> QED
      BY <1>g, <2>1, <2>2
  <1>2. rows' \in [1 .. Len(Kinds) -> Nat] /\ rows'[tree] # 0
    BY <1>a, <1>g, SMTT(60)
  <1>3. TInv'
    BY <1>a, <1>g, <1>1, <1>2 DEF IInv, TInv, InTree
  <1>4. RInv'
    BY <1>a, <1>1 DEF RInv, InTree
  <1>5. FInv'
    BY <1>a, <1>1, <1>2 DEF FInv
  <1> QED
    BY <1>1, <1>3, <1>4, <1>5 DEF IInv

\* An index cell made and spilled, before the builder starts.
LEMMA SpillStep ==
    ASSUME IInv, NEW p \in Payloads, SpillIndexCell(p)
    PROVE  IInv' /\ Extends(pages, pages')
  <1> DEFINE c == Cell(Key, p, IndexMax, 1, next)
  <1> DEFINE bytes == Spilled(p, IndexMax)
  <1>a. /\ pc = "rows" /\ pc' = "rows" /\ tree' = tree /\ tree \in 1 .. Len(Kinds)
        /\ rows \in [1 .. Len(Kinds) -> Nat] /\ rows[tree] \in Nat
        /\ next \in Nat /\ next > 1 /\ todo \in Seq(CellSet)
        /\ IsIndex /\ IsIndex' = IsIndex /\ Bounded(todo)
        /\ Below(pages, next) /\ Good(pages)
    BY DEF SpillIndexCell, IInv, TInv, RInv, FInv, InTree, IsIndex
  <1>b. Key \in Nat
    BY <1>a, SMTT(60) DEF Key
  <1>c. c \in CellSet /\ c.len <= MaxCell
    BY <1>a, <1>b, SpilledCell
  <1>d. bytes \in Nat /\ Chain(bytes) \in Nat
    <2>1. p \in Nat /\ IndexMax \in Nat /\ MinLocal <= IndexMax
      BY Geometry
    <2> QED
      BY <2>1, LocalBounds, ChainNat
  <1>e. /\ rows' = [rows EXCEPT ![tree] = @ + 1]
        /\ todo' = Append(todo, c)
        /\ pages' = Written(pages, Overflow(next, bytes))
        /\ next' = next + Chain(bytes)
        /\ UNCHANGED <<pb, page, room, children, parents, i>>
    BY DEF SpillIndexCell
  <1> HIDE DEF c, bytes
  <1>1. Below(pages', next') /\ Good(pages') /\ Extends(pages, pages')
    BY <1>a, <1>d, <1>e, OverflowWritten
  <1>2. todo' \in Seq(CellSet) /\ Bounded(todo')
    BY <1>a, <1>c, <1>e, Appended, BoundedAppend
  <1>3. rows' \in [1 .. Len(Kinds) -> Nat] /\ next' \in Nat /\ next' > 1
    BY <1>a, <1>d, <1>e, SMTT(60)
  <1>4. TInv'
    BY <1>a, <1>e, <1>2, <1>3 DEF IInv, TInv, InTree
  <1>5. RInv'
    BY <1>a, <1>e, <1>2 DEF IInv, RInv, InTree, Bounded
  <1>6. FInv'
    BY <1>a, <1>1 DEF FInv
  <1> QED
    BY <1>1, <1>4, <1>5, <1>6 DEF IInv

LEMMA StartIndexStep ==
    ASSUME IInv, StartIndex
    PROVE  IInv' /\ Extends(pages, pages')
  <1>1. TInv'
    BY DEF StartIndex, IInv, TInv, InTree
  <1>2. RInv'
    BY DEF StartIndex, IInv, RInv, InTree, IsIndex, Bounded
  <1>3. FInv'
    BY DEF StartIndex, IInv, FInv, Good, Below
  <1>4. Extends(pages, pages')
    BY ExtendsSame DEF StartIndex
  <1> QED
    BY <1>1, <1>2, <1>3, <1>4 DEF IInv

\* An index cell put on a leaf, the leaf before it flushed if it was full.
LEMMA IndexCellStep ==
    ASSUME IInv, IndexCell
    PROVE  IInv' /\ Extends(pages, pages')
  <1> DEFINE c == Head(todo)
  <1> DEFINE full == ~Fits(c.len, room) /\ page # <<>>
  <1> DEFINE left == IF full THEN EmptyLeafRoom ELSE room
  <1>a. /\ pc = "index" /\ pc' = "index" /\ tree' = tree /\ tree \in 1 .. Len(Kinds)
        /\ pb \in Nat /\ pb > 1 /\ room \in Int /\ room >= 0
        /\ page \in Seq(CellSet) /\ children \in Seq(RefSet)
        /\ todo \in Seq(CellSet) /\ todo # <<>>
        /\ page = <<>> => room = EmptyLeafRoom
        /\ IsIndex' = IsIndex
        /\ Below(pages, pb) /\ Good(pages)
        /\ IsIndex => Bounded(todo) /\ Bounded(children) /\ Bounded(page)
    BY DEF IndexCell, IInv, TInv, RInv, FInv, InTree, IsIndex
  <1>b. /\ todo' = Tail(todo)
        /\ full => Flush(pages, pb, Kept(page), room + Prev.len + CellPtr, Prev)
        /\ ~full => UNCHANGED <<pages, pb, children>>
        /\ Fits(c.len, left) => /\ page' = IF full THEN <<c>> ELSE Append(page, c)
                                /\ room' = left - c.len - CellPtr
        /\ ~Fits(c.len, left) => page' = <<>> /\ room' = left
        /\ UNCHANGED <<next, rows, parents, i>>
    BY DEF IndexCell
  <1>c. c \in CellSet /\ c.len \in Nat /\ (Bounded(todo) => c.len <= MaxCell)
    <2>1. Len(todo) \in Nat /\ Len(todo) > 0 /\ c = todo[1]
      BY <1>a, SMTT(60)
    <2>2. 1 \in 1 .. Len(todo)
      BY <2>1, SMTT(60)
    <2>3. c \in CellSet
      BY <1>a, <2>1, <2>2, SMTT(60)
    <2>4. c.len \in Nat
      BY <2>3 DEF CellSet
    <2>5. Bounded(todo) => c.len <= MaxCell
      BY <2>1, <2>2 DEF Bounded
    <2> QED
      BY <2>3, <2>4, <2>5
  <1>d. todo' \in Seq(CellSet) /\ (Bounded(todo) => Bounded(todo'))
    <2>1. /\ Tail(todo) \in Seq(CellSet)
          /\ Len(todo) \in Nat
          /\ Len(Tail(todo)) = Len(todo) - 1
          /\ \A j \in 1 .. Len(todo) - 1 : Tail(todo)[j] = todo[j + 1]
      BY <1>a, SMTT(60)
    <2>2. \A j \in 1 .. Len(todo) - 1 : j + 1 \in 1 .. Len(todo)
      BY <2>1, SMTT(60)
    <2> QED
      BY <1>b, <2>1, <2>2 DEF Bounded
  <1>e. CellPtr \in Nat /\ EmptyLeafRoom \in Nat
    BY Geometry, Rooms
  <1>f. left \in Int /\ left >= 0
    BY <1>a, <1>e, SMTT(60)
  <1>g. ~Fits(c.len, left) => left = EmptyLeafRoom
    BY <1>a
  <1> HIDE DEF c
  <1>1. /\ Below(pages', pb') /\ Good(pages') /\ Extends(pages, pages')
        /\ pb' \in Nat /\ pb' > 1 /\ children' \in Seq(RefSet)
        /\ IsIndex => Bounded(children')
    <2>1. CASE full
      <3>1. Prev \in CellSet /\ (Bounded(page) => Prev.len <= MaxCell)
        BY <1>a, <2>1, PrevTyped
      <3>2. Prev.len \in Nat
        BY <3>1 DEF CellSet
      <3>3. room + Prev.len + CellPtr \in Int /\ room + Prev.len + CellPtr >= 0
        BY <1>a, <1>e, <3>2, SMTT(60)
      <3>4. Flush(pages, pb, Kept(page), room + Prev.len + CellPtr, Prev)
        BY <1>b, <2>1
      <3> QED
        BY <1>a, <3>1, <3>3, <3>4, FlushStep
    <2>2. CASE ~full
      <3>1. pages' = pages /\ pb' = pb /\ children' = children
        BY <1>b, <2>2
      <3>2. Bounded(children) => Bounded(children')
        BY <3>1
      <3> QED
        BY <1>a, <3>1, <3>2, ExtendsSame
    <2> QED
      BY <2>1, <2>2
  <1>2. /\ page' \in Seq(CellSet) /\ room' \in Int /\ room' >= 0
        /\ page' = <<>> => room' = EmptyLeafRoom
        /\ IsIndex => Bounded(page')
    <2>1. CASE Fits(c.len, left)
      <3>1. room' = left - c.len - CellPtr /\ c.len <= left - CellPtr
        BY <1>b, <2>1 DEF Fits
      <3>2. room' \in Int /\ room' >= 0
        BY <1>c, <1>e, <1>f, <3>1, SMTT(60)
      <3>3. CASE full
        <4>1. page' = <<c>>
          BY <1>b, <2>1, <3>3
        <4>2. page' \in Seq(CellSet) /\ page' # <<>>
          BY <1>c, <4>1, SMTT(60)
        <4>3. Bounded(todo) => Bounded(page')
          BY <1>c, <4>1, SMTT(60) DEF Bounded
        <4> QED
          BY <1>a, <3>2, <4>2, <4>3
      <3>4. CASE ~full
        <4>1. page' = Append(page, c)
          BY <1>b, <2>1, <3>4
        <4>2. page' \in Seq(CellSet) /\ page' # <<>>
          BY <1>a, <1>c, <4>1, Appended, SMTT(60)
        <4>3. Bounded(todo) /\ Bounded(page) => Bounded(page')
          BY <1>a, <1>c, <4>1, BoundedAppend
        <4> QED
          BY <1>a, <3>2, <4>2, <4>3
      <3> QED
        BY <3>3, <3>4
    <2>2. CASE ~Fits(c.len, left)
      <3>1. page' = <<>> /\ room' = EmptyLeafRoom
        BY <1>b, <1>g, <2>2
      <3>2. Bounded(page')
        BY <3>1, SMTT(60) DEF Bounded
      <3> QED
        BY <1>e, <3>1, <3>2, SMTT(60)
    <2> QED
      BY <2>1, <2>2
  <1> HIDE DEF full, left
  <1>3. TInv'
    BY <1>a, <1>b, <1>d, <1>1, <1>2 DEF IInv, TInv, InTree
  <1>4. RInv'
    BY <1>a, <1>b, <1>d, <1>1, <1>2 DEF IInv, RInv, InTree, Bounded
  <1>5. FInv'
    BY <1>a, <1>1 DEF FInv
  <1> QED
    BY <1>1, <1>3, <1>4, <1>5 DEF IInv

LEMMA LastLeafStep ==
    ASSUME IInv, LastLeaf
    PROVE  IInv' /\ Extends(pages, pages')
  <1>a. /\ pc \in {"rows", "index"} /\ pc' = "interior" /\ tree' = tree /\ tree \in 1 .. Len(Kinds)
        /\ rows \in [1 .. Len(Kinds) -> Nat] /\ rows[tree] \in Nat
        /\ pb \in Nat /\ pb > 1 /\ room \in Int /\ room >= 0
        /\ page \in Seq(CellSet) /\ children \in Seq(RefSet)
        /\ IsIndex' = IsIndex
        /\ Below(pages, pb) /\ Good(pages)
        /\ IsIndex => Bounded(children) /\ Bounded(page)
        /\ i = 1
    BY DEF LastLeaf, IInv, TInv, RInv, FInv, InTree, IsIndex
  <1>b. /\ Flush(pages, pb, page, room, [Prev EXCEPT !.key = rows[tree]])
        /\ page' = <<>> /\ room' = EmptyInteriorRoom
        /\ UNCHANGED <<next, rows, todo, parents, i>>
    BY DEF LastLeaf
  <1>c. page # <<>> => /\ [Prev EXCEPT !.key = rows[tree]] \in CellSet
                       /\ Bounded(page) => [Prev EXCEPT !.key = rows[tree]].len <= MaxCell
    BY <1>a, PrevTyped, KeyedTyped
  <1>1. /\ Below(pages', pb') /\ Good(pages') /\ Extends(pages, pages')
        /\ pb' \in Nat /\ pb' > 1 /\ children' \in Seq(RefSet)
        /\ IsIndex => Bounded(children')
    BY <1>a, <1>b, <1>c, FlushStep
  <1>2. EmptyInteriorRoom \in Nat
    BY Rooms
  <1>3. TInv'
    BY <1>a, <1>b, <1>1, <1>2, SMTT(60) DEF IInv, TInv, InTree
  <1>4. RInv'
    BY <1>a, <1>b, <1>1, <1>2, SMTT(60) DEF IInv, RInv, InTree, Bounded
  <1>5. FInv'
    BY <1>a, <1>1 DEF FInv
  <1> QED
    BY <1>1, <1>3, <1>4, <1>5 DEF IInv

\* Whatever ends a tree leaves the counters in step and the builder empty.
LEMMA NextTreeInv ==
    ASSUME TInv, InTree, NEW root, NEW n \in Nat, n > 1, NextTree(root, n), rows' = rows,
           Good(pages'), Below(pages', n)
    PROVE  IInv'
  <1>a. /\ next' = n /\ pb' = n /\ tree' = tree + 1
        /\ pc' = IF tree = Len(Kinds) THEN "master" ELSE "rows"
        /\ todo' = <<>> /\ page' = <<>> /\ room' = EmptyLeafRoom
        /\ children' = <<>> /\ parents' = <<>> /\ i' = 1
    BY DEF NextTree
  <1>b. Len(Kinds) \in Nat /\ tree \in 1 .. Len(Kinds) /\ EmptyLeafRoom \in Nat
    BY Geometry, Rooms, SMTT(60) DEF TInv
  <1>c. pc' \in {"rows", "master"} /\ (pc' = "rows" => tree' \in 1 .. Len(Kinds))
    BY <1>a, <1>b, SMTT(60)
  <1>1. TInv'
    BY <1>a, <1>b, <1>c, SMTT(60) DEF TInv, InTree
  <1>2. RInv'
    BY <1>a, <1>b, <1>c, SMTT(60) DEF RInv, InTree, Bounded
  <1>3. FInv'
    BY <1>a, <1>c DEF FInv
  <1> QED
    BY <1>1, <1>2, <1>3 DEF IInv

LEMMA EmptyTreeStep ==
    ASSUME IInv, EmptyTree
    PROVE  IInv' /\ Extends(pages, pages')
  <1>a. /\ TInv /\ InTree /\ next \in Nat /\ next > 1
        /\ Below(pages, next) /\ Good(pages)
    BY DEF EmptyTree, IInv, TInv, FInv, InTree
  <1>b. Skip(next) \in Nat /\ Skip(next) >= next
    BY <1>a, SkipFacts
  <1>c. EmptyLeafRoom \in Int /\ EmptyLeafRoom >= 0
    BY Rooms, SMTT(60)
  <1>d. /\ pages' = Written(pages, Leaf(Skip(next), <<>>, EmptyLeafRoom))
        /\ NextTree(Skip(next), Skip(next) + 1) /\ rows' = rows
    BY DEF EmptyTree, EmptyLeaf
  <1>1. Below(pages', Skip(next) + 1) /\ Good(pages') /\ Extends(pages, pages')
    BY <1>a, <1>c, <1>d, LeafWritten
  <1>2. Skip(next) + 1 \in Nat /\ Skip(next) + 1 > 1
    BY <1>a, <1>b, SMTT(60)
  <1> QED
    BY <1>a, <1>d, <1>1, <1>2, NextTreeInv

LEMMA TreeDoneStep ==
    ASSUME IInv, TreeDone
    PROVE  IInv' /\ Extends(pages, pages')
  <1>1. /\ TInv /\ InTree /\ pb \in Nat /\ pb > 1
        /\ Below(pages, pb) /\ Good(pages)
    BY DEF TreeDone, IInv, TInv, FInv, InTree
  <1>2. pages' = pages /\ rows' = rows /\ NextTree(children[1].page, pb)
    BY DEF TreeDone
  <1>3. Below(pages', pb) /\ Good(pages')
    BY <1>1, <1>2
  <1>4. IInv'
    BY <1>1, <1>2, <1>3, NextTreeInv
  <1> QED
    BY <1>2, <1>4, ExtendsSame

\* A separator put on an interior page: it fits, or the page is empty and
\* takes any cell there is.
LEMMA FillCellStep ==
    ASSUME IInv, FillCell
    PROVE  IInv' /\ Extends(pages, pages')
  <1> DEFINE c == InteriorCell(children[i])
  <1>a. /\ pc = "interior" /\ pc' = "interior" /\ tree' = tree /\ tree \in 1 .. Len(Kinds)
        /\ room \in Int /\ room >= 0
        /\ page \in Seq(InteriorCellSet) /\ children \in Seq(RefSet)
        /\ page = <<>> => room = EmptyInteriorRoom
        /\ IsIndex' = IsIndex
        /\ Below(pages, pb) /\ Good(pages)
        /\ IsIndex => Bounded(children)
        /\ i \in Nat /\ i > 0 /\ i < Len(children)
        /\ Fits(c.len, room) \/ page = <<>>
    BY DEF FillCell, Filling, IInv, TInv, RInv, FInv, InTree, IsIndex
  <1>b. /\ page' = Append(page, c)
        /\ room' = room - c.len - CellPtr
        /\ i' = i + 1
        /\ UNCHANGED <<pages, next, pb, rows, todo, children, parents>>
    BY DEF FillCell
  <1>c. Len(children) \in Nat /\ i \in 1 .. Len(children)
    BY <1>a, SMTT(60)
  <1>d. children[i] \in RefSet /\ (IsIndex => children[i].len <= MaxCell)
    BY <1>a, <1>c, SMTT(60) DEF Bounded
  <1>e. c \in InteriorCellSet /\ c.len \in Nat /\ c.len + CellPtr <= EmptyInteriorRoom
    <2>1. /\ children[i].page \in Nat /\ children[i].key \in Nat
          /\ children[i].ovfl \in Nat /\ children[i].len \in Nat
      BY <1>d DEF RefSet
    <2>2. PagePtr \in Nat /\ Varint \in Nat /\ CellPtr \in Nat /\ MaxCell \in Nat /\ EmptyInteriorRoom \in Nat
      BY Geometry, Rooms
    <2>3. Varint + PagePtr + CellPtr <= EmptyInteriorRoom
      BY Geometry DEF EmptyInteriorRoom
    <2>4. /\ c.left = children[i].page /\ c.key = children[i].key
          /\ c.ovfl = IF IsIndex THEN children[i].ovfl ELSE NoPage
          /\ c.len = PagePtr + (IF IsIndex THEN children[i].len ELSE Varint)
          /\ c = [left |-> c.left, key |-> c.key, ovfl |-> c.ovfl, len |-> c.len]
      BY DEF InteriorCell
    <2>5. c.len \in Nat /\ c.len + CellPtr <= EmptyInteriorRoom
      BY <1>d, <2>1, <2>2, <2>3, <2>4, Rooms, SMTT(60)
    <2>6. c.ovfl \in Nat
      BY <2>1, <2>4, SMTT(60) DEF NoPage
    <2> HIDE DEF c
    <2>7. c \in InteriorCellSet
      BY <2>1, <2>4, <2>5, <2>6 DEF InteriorCellSet
    <2> QED
      BY <2>5, <2>7
  <1>f. CellPtr \in Nat /\ EmptyInteriorRoom \in Nat
    BY Geometry, Rooms
  <1> HIDE DEF c
  <1>1. page' \in Seq(InteriorCellSet) /\ page' # <<>>
    BY <1>a, <1>b, <1>e, Appended, SMTT(60)
  <1>2. c.len + CellPtr <= room
    <2>1. CASE Fits(c.len, room)
      BY <1>a, <1>e, <1>f, <2>1, SMTT(60) DEF Fits
    <2>2. CASE page = <<>>
      BY <1>a, <1>e, <2>2
    <2> QED
      BY <1>a, <2>1, <2>2
  <1>3. room' \in Int /\ room' >= 0
    <2>1. room' = room - c.len - CellPtr /\ room \in Int /\ c.len \in Nat /\ CellPtr \in Nat
      BY <1>a, <1>b, <1>e, <1>f
    <2> QED
      BY <1>2, <2>1, SMTT(60)
  <1>4. TInv'
    BY <1>a, <1>b, <1>1, <1>3, SMTT(60) DEF IInv, TInv, InTree
  <1>5. RInv'
    BY <1>a, <1>b, <1>1, <1>3 DEF IInv, RInv, InTree, Bounded
  <1>6. FInv'
    BY <1>a, <1>b DEF FInv, Good, Below
  <1> QED
    BY <1>b, <1>4, <1>5, <1>6, ExtendsSame DEF IInv

\* An interior page written, with child i as its right child.
LEMMA ClosePageStep ==
    ASSUME IInv, ClosePage
    PROVE  IInv' /\ Extends(pages, pages')
  <1> DEFINE n == Skip(pb)
  <1> DEFINE r == Parent(n)
  <1>a. /\ pc = "interior" /\ pc' = "interior" /\ tree' = tree /\ tree \in 1 .. Len(Kinds)
        /\ pb \in Nat /\ pb > 1 /\ room \in Int /\ room >= 0
        /\ children \in Seq(RefSet) /\ parents \in Seq(RefSet)
        /\ IsIndex' = IsIndex
        /\ Below(pages, pb) /\ Good(pages)
        /\ IsIndex => Bounded(children) /\ Bounded(parents)
        /\ i \in Nat /\ i > 0 /\ i <= Len(children) /\ Len(children) > 1
    BY DEF ClosePage, IInv, TInv, RInv, FInv, InTree, IsIndex
  <1>b. /\ pages' = Written(pages, Interior(n, page, room, children[i].page))
        /\ pb' = n + 1
        /\ page' = <<>> /\ room' = EmptyInteriorRoom
        /\ \/ i = Len(children) /\ children' = Append(parents, r) /\ parents' = <<>> /\ i' = 1
           \/ i # Len(children) /\ parents' = Append(parents, r) /\ i' = i + 1 /\ children' = children
        /\ UNCHANGED <<next, rows, todo>>
    BY DEF ClosePage, AtLast, NextChild
  <1>c. n \in Nat /\ n >= pb
    BY <1>a, SkipFacts
  <1>d. Len(children) \in Nat /\ i \in 1 .. Len(children)
    BY <1>a, SMTT(60)
  <1>e. r \in RefSet /\ (IsIndex => r.len <= MaxCell)
    <2>1. children[i] \in RefSet /\ (IsIndex => children[i].len <= MaxCell)
      BY <1>a, <1>d, SMTT(60) DEF Bounded
    <2>2. r = [children[i] EXCEPT !.page = n]
      BY DEF Parent
    <2> HIDE DEF n, r
    <2>3. r \in RefSet /\ r.len = children[i].len
      BY <1>c, <2>1, <2>2 DEF RefSet
    <2> QED
      BY <2>1, <2>3
  <1>f. Append(parents, r) \in Seq(RefSet) /\ (IsIndex => Bounded(Append(parents, r)))
    BY <1>a, <1>e, Appended, BoundedAppend
  <1>g. EmptyInteriorRoom \in Nat
    BY Rooms
  <1>1. Below(pages', pb') /\ Good(pages') /\ Extends(pages, pages')
    BY <1>a, <1>b, InteriorWritten
  <1> HIDE DEF n, r
  <1>2. /\ children' \in Seq(RefSet) /\ parents' \in Seq(RefSet)
        /\ IsIndex => Bounded(children') /\ Bounded(parents')
        /\ i' \in Nat /\ i' > 0 /\ (Len(children') > 1 => i' <= Len(children'))
    <2>1. CASE i = Len(children) /\ children' = Append(parents, r) /\ parents' = <<>> /\ i' = 1
      <3>1. IsIndex => Bounded(children') /\ Bounded(parents')
        BY <1>f, <2>1, SMTT(60) DEF Bounded
      <3> QED
        BY <1>f, <2>1, <3>1, SMTT(60)
    <2>2. CASE i # Len(children) /\ parents' = Append(parents, r) /\ i' = i + 1 /\ children' = children
      <3>1. IsIndex => Bounded(children') /\ Bounded(parents')
        BY <1>a, <1>f, <2>2 DEF Bounded
      <3> QED
        BY <1>a, <1>d, <1>f, <2>2, <3>1, SMTT(60)
    <2> QED
      BY <1>b, <2>1, <2>2
  <1>3. pb' \in Nat /\ pb' > 1
    BY <1>a, <1>b, <1>c, SMTT(60)
  <1>4. TInv'
    BY <1>a, <1>b, <1>g, <1>2, <1>3, SMTT(60) DEF IInv, TInv, InTree
  <1>5. RInv'
    BY <1>a, <1>b, <1>g, <1>2, SMTT(60) DEF IInv, RInv, InTree, Bounded
  <1>6. FInv'
    BY <1>a, <1>1 DEF FInv
  <1> QED
    BY <1>1, <1>4, <1>5, <1>6 DEF IInv

\* Page 1 is the one number Below keeps free.
LEMMA MasterStep ==
    ASSUME IInv, Master
    PROVE  IInv' /\ Extends(pages, pages')
  <1> DEFINE m == [q \in {1} |-> [kind |-> "master", roots |-> roots]]
  <1>a. pc = "master" /\ pc' = "closed" /\ Below(pages, next) /\ Good(pages)
    BY DEF Master, IInv, FInv
  <1>b. /\ pages' = Written(pages, m)
        /\ UNCHANGED <<next, pb, tree, rows, todo, page, room, children, parents, i>>
    BY DEF Master
  <1>c. DOMAIN m = {1} /\ m[1].kind = "master"
    OBVIOUS
  <1> HIDE DEF m
  <1>d. /\ DOMAIN pages' = DOMAIN pages \cup {1}
        /\ pages'[1] = m[1]
        /\ \A q \in DOMAIN pages : q # 1 => pages'[q] = pages[q]
    <2> DEFINE g == Written(pages, m)
    <2>1. /\ DOMAIN g = DOMAIN pages \cup DOMAIN m
          /\ \A q \in DOMAIN m : g[q] = m[q]
          /\ \A q \in DOMAIN pages : q \notin DOMAIN m => g[q] = pages[q]
      BY WrittenAt
    <2> HIDE DEF g
    <2>2. pages' = g
      BY <1>b DEF g
    <2> QED
      BY <1>c, <2>1, <2>2
  <1>e. \A q \in DOMAIN pages : q # 1
    BY <1>a, SMTT(60) DEF Below
  <1>1. Extends(pages, pages')
    BY <1>d, <1>e DEF Extends
  <1>2. Good(pages')
    BY <1>a, <1>c, <1>d, <1>e, Geometry, SMTT(60) DEF Good
  <1>3. TInv'
    BY <1>a, <1>b DEF IInv, TInv, InTree
  <1>4. RInv'
    BY <1>a, <1>b DEF IInv, RInv, InTree
  <1>5. FInv'
    BY <1>a, <1>2 DEF FInv
  <1> QED
    BY <1>1, <1>3, <1>4, <1>5 DEF IInv

LEMMA StutterStep ==
    ASSUME IInv, UNCHANGED vars
    PROVE  IInv' /\ Extends(pages, pages')
  <1>1. TInv'
    BY DEF vars, IInv, TInv, InTree
  <1>2. RInv'
    BY DEF vars, IInv, RInv, InTree, IsIndex, Bounded
  <1>3. FInv'
    BY DEF vars, IInv, FInv, Good, Below, IsIndex
  <1>4. Extends(pages, pages')
    BY ExtendsSame DEF vars
  <1> QED
    BY <1>1, <1>2, <1>3, <1>4 DEF IInv

\* Every step keeps the invariant and every page already written.
LEMMA Step ==
    ASSUME IInv, [Next]_vars
    PROVE  IInv' /\ Extends(pages, pages')
  <1>1. CASE \E p \in Payloads : TableRow(p) \/ SpillIndexCell(p)
    BY <1>1, TableRowStep, SpillStep
  <1>2. CASE StartIndex
    BY <1>2, StartIndexStep
  <1>3. CASE IndexCell
    BY <1>3, IndexCellStep
  <1>4. CASE LastLeaf
    BY <1>4, LastLeafStep
  <1>5. CASE EmptyTree
    BY <1>5, EmptyTreeStep
  <1>6. CASE FillCell
    BY <1>6, FillCellStep
  <1>7. CASE ClosePage
    BY <1>7, ClosePageStep
  <1>8. CASE TreeDone
    BY <1>8, TreeDoneStep
  <1>9. CASE Master
    BY <1>9, MasterStep
  <1>10. CASE UNCHANGED vars
    BY <1>10, StutterStep
  <1> QED
    BY <1>1, <1>2, <1>3, <1>4, <1>5, <1>6, <1>7, <1>8, <1>9, <1>10 DEF Next, Closed

\* The invariant says what is promised of the pages.
LEMMA InvImplies == IInv => PagesFit /\ PendingOnlyOverflow
  BY DEF IInv, RInv, FInv, Good, PagesFit, PendingOnlyOverflow, TreePages

LEMMA Invariance == Spec => []IInv
  <1>1. IInv /\ [Next]_vars => IInv'
    BY Step
  <1> QED
    BY <1>1, InitInv, PTL DEF Spec

\* pb_cell_fits, fill_interior_page and pb_promote_and_flush never overfill a
\* page, whatever the rows and for any geometry that meets Geometry.
THEOREM PagesNeverOverfull == Spec => []PagesFit
  BY Invariance, InvImplies, PTL

\* The builders skip the page of the pending byte; only write_overflow_pages,
\* which does not, can put a page there.
THEOREM PendingSkipped == Spec => []PendingOnlyOverflow
  BY Invariance, InvImplies, PTL

\* The builder's page counter and the file's never hand out a page twice.
THEOREM PagesWrittenOnce == Spec => WriteOnce
  <1>1. IInv /\ [Next]_vars =>
            [\A q \in DOMAIN pages : q \in DOMAIN pages' /\ pages'[q] = pages[q]]_vars
    BY Step DEF Extends
  <1> QED
    BY <1>1, Invariance, PTL DEF Spec, WriteOnce
----------------------------------------------------------------------------
(***************************************************************************)
(* Every page has one place that names it.  On its way into the file a     *)
(* page number passes through the cells of the page being built, an        *)
(* index's spilled cells, the PageRefs of two levels and the roots: those  *)
(* are places as well.  In each of the six a number occurs at most once,   *)
(* and it occurs in one of them exactly if its page has been written.      *)
(***************************************************************************)

\* Cell j names q, as its overflow page or as its left child.
CellAt(cells, inner, tag, j, q) ==
    /\ j \in DOMAIN cells
    /\ \/ tag = "ovfl" /\ cells[j].ovfl = q
       \/ tag = "left" /\ inner /\ cells[j].left = q

PageAt(pg, tag, j, q) ==
    \/ pg.kind = "overflow" /\ tag = "next" /\ j = 0 /\ pg.next = q
    \/ pg.kind = "interior" /\ tag = "right" /\ j = 0 /\ pg.right = q
    \/ pg.kind \in {"leaf", "interior"} /\ CellAt(pg.cells, pg.kind = "interior", tag, j, q)

\* The separators up to seps are cells still to be written.
RefAt(refs, from, seps, tag, j, q) ==
    /\ j \in from .. Len(refs)
    /\ \/ tag = "page" /\ refs[j].page = q
       \/ tag = "sep" /\ j <= seps /\ refs[j].ovfl = q

InFile(f, q) == \E p \in DOMAIN f : \E t, j : PageAt(f[p], t, j, q)
InCells(cells, inner, q) == \E t, j : CellAt(cells, inner, t, j, q)
InRefs(refs, from, seps, q) == \E t, j : RefAt(refs, from, seps, t, j, q)
InRoots(s, q) == \E t \in DOMAIN s : s[t] = q

FileOnce(f, q) ==
    \A p1, p2 \in DOMAIN f : \A t1, j1, t2, j2 :
        PageAt(f[p1], t1, j1, q) /\ PageAt(f[p2], t2, j2, q) => p1 = p2 /\ t1 = t2 /\ j1 = j2
CellsOnce(cells, inner, q) ==
    \A t1, j1, t2, j2 :
        CellAt(cells, inner, t1, j1, q) /\ CellAt(cells, inner, t2, j2, q) => t1 = t2 /\ j1 = j2
RefsOnce(refs, from, seps, q) ==
    \A t1, j1, t2, j2 :
        RefAt(refs, from, seps, t1, j1, q) /\ RefAt(refs, from, seps, t2, j2, q) => t1 = t2 /\ j1 = j2
RootsOnce(s, q) == \A t1, t2 \in DOMAIN s : s[t1] = q /\ s[t2] = q => t1 = t2

\* Nothing is in an empty sequence.
LEMMA NoCells ==
    ASSUME NEW inner, NEW q
    PROVE  ~InCells(<<>>, inner, q) /\ CellsOnce(<<>>, inner, q)
  <1>1. DOMAIN <<>> = {}
    BY SMTT(60)
  <1> QED
    BY <1>1 DEF InCells, CellsOnce, CellAt

LEMMA NoRefs ==
    ASSUME NEW from \in Nat, from > 0, NEW seps, NEW q
    PROVE  ~InRefs(<<>>, from, seps, q) /\ RefsOnce(<<>>, from, seps, q)
  <1>1. Len(<<>>) = 0 /\ \A j : j \notin from .. 0
    BY SMTT(60)
  <1> QED
    BY <1>1 DEF InRefs, RefsOnce, RefAt

\* A cell added to a page, and the last one taken from it.
LEMMA CellAdded ==
    ASSUME NEW S, NEW s \in Seq(S), NEW c \in S, NEW inner, NEW q,
           inner => c.left # c.ovfl \/ c.left # q
    PROVE  LET g == Append(s, c)
               new == c.ovfl = q \/ (inner /\ c.left = q)
           IN  /\ InCells(g, inner, q) <=> InCells(s, inner, q) \/ new
               /\ CellsOnce(s, inner, q) /\ ~(InCells(s, inner, q) /\ new) => CellsOnce(g, inner, q)
               /\ CellsOnce(g, inner, q) => CellsOnce(s, inner, q) /\ ~(InCells(s, inner, q) /\ new)
  <1> DEFINE g == Append(s, c)
             m == Len(s) + 1
             new == c.ovfl = q \/ (inner /\ c.left = q)
  <1>1. /\ DOMAIN s = 1 .. Len(s) /\ DOMAIN g = 1 .. m /\ g[m] = c
        /\ \A j \in 1 .. Len(s) : g[j] = s[j]
    BY SMTT(60)
  <1>2. /\ \A j \in 1 .. m : j \in 1 .. Len(s) \/ j = m
        /\ \A j \in 1 .. Len(s) : j \in 1 .. m /\ j # m
        /\ m \in 1 .. m
    <2>1. Len(s) \in Nat
      BY SMTT(60)
    <2> HIDE DEF g
    <2> QED
      BY <2>1, SMTT(60)
  <1> HIDE DEF g, m
  <1>3. \A t, j : CellAt(g, inner, t, j, q) <=>
                    \/ CellAt(s, inner, t, j, q)
                    \/ j = m /\ t = "ovfl" /\ c.ovfl = q
                    \/ j = m /\ t = "left" /\ inner /\ c.left = q
    BY <1>1, <1>2 DEF CellAt
  <1>4. \A t, j : CellAt(s, inner, t, j, q) => j # m
    BY <1>1, <1>2 DEF CellAt
  <1>5. InCells(g, inner, q) <=> InCells(s, inner, q) \/ new
    BY <1>3 DEF InCells
  <1>6. CellsOnce(s, inner, q) /\ ~(InCells(s, inner, q) /\ new) => CellsOnce(g, inner, q)
    BY <1>3, SMTT(60) DEF InCells, CellsOnce
  <1>7. CellsOnce(g, inner, q) => CellsOnce(s, inner, q) /\ ~(InCells(s, inner, q) /\ new)
    <2> SUFFICES ASSUME CellsOnce(g, inner, q)
                 PROVE  CellsOnce(s, inner, q) /\ ~(InCells(s, inner, q) /\ new)
      OBVIOUS
    <2>1. CellsOnce(s, inner, q)
      BY <1>3 DEF CellsOnce
    <2>2. ASSUME InCells(s, inner, q), new PROVE FALSE
      <3>1. PICK t, j : CellAt(s, inner, t, j, q)
        BY <2>2 DEF InCells
      <3>2. CASE c.ovfl = q
        BY <1>3, <1>4, <3>1, <3>2 DEF CellsOnce
      <3>3. CASE inner /\ c.left = q
        BY <1>3, <1>4, <3>1, <3>3 DEF CellsOnce
      <3> QED
        BY <2>2, <3>2, <3>3
    <2> QED
      BY <2>1, <2>2
  <1> QED
    BY <1>5, <1>6, <1>7 DEF g

LEMMA LeafCellAdded ==
    ASSUME NEW S, NEW s \in Seq(S), NEW c \in S, NEW q
    PROVE  LET g == Append(s, c)
           IN  /\ InCells(g, FALSE, q) <=> InCells(s, FALSE, q) \/ c.ovfl = q
               /\ CellsOnce(s, FALSE, q) /\ ~(InCells(s, FALSE, q) /\ c.ovfl = q) => CellsOnce(g, FALSE, q)
               /\ CellsOnce(g, FALSE, q) => CellsOnce(s, FALSE, q) /\ ~(InCells(s, FALSE, q) /\ c.ovfl = q)
  <1> DEFINE inner == FALSE
  <1>1. inner => c.left # c.ovfl \/ c.left # q
    OBVIOUS
  <1>2. (c.ovfl = q \/ (inner /\ c.left = q)) <=> c.ovfl = q
    OBVIOUS
  <1> HIDE DEF inner
  <1>3. LET g == Append(s, c)
        IN  /\ InCells(g, inner, q) <=> InCells(s, inner, q) \/ c.ovfl = q
            /\ CellsOnce(s, inner, q) /\ ~(InCells(s, inner, q) /\ c.ovfl = q) => CellsOnce(g, inner, q)
            /\ CellsOnce(g, inner, q) => CellsOnce(s, inner, q) /\ ~(InCells(s, inner, q) /\ c.ovfl = q)
    BY <1>1, <1>2, CellAdded
  <1> QED
    BY <1>3 DEF inner

\* The first cell taken from a sequence of cells
LEMMA CellTaken ==
    ASSUME NEW S, NEW s \in Seq(S), s # <<>>, NEW q
    PROVE  /\ InCells(s, FALSE, q) <=> InCells(Tail(s), FALSE, q) \/ Head(s).ovfl = q
           /\ CellsOnce(s, FALSE, q) => /\ CellsOnce(Tail(s), FALSE, q)
                                        /\ ~(InCells(Tail(s), FALSE, q) /\ Head(s).ovfl = q)
  <1> DEFINE r == Tail(s)
             m == Len(s)
  <1>1. /\ m \in Nat /\ m > 0 /\ DOMAIN s = 1 .. m /\ DOMAIN r = 1 .. (m - 1) /\ Head(s) = s[1]
        /\ \A j \in 1 .. (m - 1) : r[j] = s[j + 1]
    BY SMTT(60)
  <1> HIDE DEF r, m
  <1>2. /\ \A j \in 1 .. (m - 1) : j + 1 \in 1 .. m /\ j + 1 # 1
        /\ \A j \in 1 .. m : j = 1 \/ (j - 1 \in 1 .. (m - 1) /\ (j - 1) + 1 = j)
        /\ 1 \in 1 .. m
        /\ \A j, k \in 1 .. (m - 1) : j + 1 = k + 1 => j = k
    BY <1>1, SMTT(60)
  <1>3. \A t, j : CellAt(r, FALSE, t, j, q) => CellAt(s, FALSE, t, j + 1, q) /\ j + 1 # 1 /\ j \in 1 .. (m - 1)
    BY <1>1, <1>2 DEF CellAt
  <1>4. \A t, j : CellAt(s, FALSE, t, j, q) =>
                    \/ t = "ovfl" /\ j = 1 /\ Head(s).ovfl = q
                    \/ CellAt(r, FALSE, t, j - 1, q)
    BY <1>1, <1>2 DEF CellAt
  <1>5. Head(s).ovfl = q => CellAt(s, FALSE, "ovfl", 1, q)
    BY <1>1, <1>2 DEF CellAt
  <1>6. InCells(s, FALSE, q) <=> InCells(r, FALSE, q) \/ Head(s).ovfl = q
    BY <1>3, <1>4, <1>5 DEF InCells
  <1>7. ASSUME CellsOnce(s, FALSE, q) PROVE CellsOnce(r, FALSE, q) /\ ~(InCells(r, FALSE, q) /\ Head(s).ovfl = q)
    <2>1. CellsOnce(r, FALSE, q)
      <3> SUFFICES ASSUME NEW t1, NEW j1, NEW t2, NEW j2,
                          CellAt(r, FALSE, t1, j1, q), CellAt(r, FALSE, t2, j2, q)
                   PROVE  t1 = t2 /\ j1 = j2
        BY DEF CellsOnce
      <3>1. /\ CellAt(s, FALSE, t1, j1 + 1, q) /\ CellAt(s, FALSE, t2, j2 + 1, q)
            /\ j1 \in 1 .. (m - 1) /\ j2 \in 1 .. (m - 1)
        BY <1>3
      <3>2. t1 = t2 /\ j1 + 1 = j2 + 1
        BY <1>7, <3>1 DEF CellsOnce
      <3> QED
        BY <1>2, <3>1, <3>2
    <2>2. ~(InCells(r, FALSE, q) /\ Head(s).ovfl = q)
      BY <1>3, <1>5, <1>7 DEF CellsOnce, InCells
    <2> QED
      BY <2>1, <2>2
  <1> QED
    BY <1>6, <1>7 DEF r

\* A PageRef added, with or without a separator that counts
LEMMA RefAdded ==
    ASSUME NEW s \in Seq(RefSet), NEW r \in RefSet, NEW from \in Nat, from > 0, from <= Len(s) + 1,
           NEW seps \in Nat, seps <= Len(s), NEW more, NEW q,
           \/ more = seps
           \/ more = Len(s) + 1 /\ seps = Len(s) /\ (r.page # r.ovfl \/ r.page # q)
    PROVE  LET g == Append(s, r)
               new == r.page = q \/ (more # seps /\ r.ovfl = q)
           IN  /\ InRefs(g, from, more, q) <=> InRefs(s, from, seps, q) \/ new
               /\ RefsOnce(s, from, seps, q) /\ ~(InRefs(s, from, seps, q) /\ new) => RefsOnce(g, from, more, q)
  <1> DEFINE g == Append(s, r)
             m == Len(s) + 1
             new == r.page = q \/ (more # seps /\ r.ovfl = q)
  <1>1. /\ Len(s) \in Nat /\ Len(g) = m /\ g[m] = r
        /\ \A j \in 1 .. Len(s) : g[j] = s[j]
    BY SMTT(60)
  <1>2. /\ Len(s) = m - 1 /\ m \in Nat /\ from <= m /\ seps <= m - 1
        /\ more = seps \/ (more = m /\ seps = m - 1)
    BY <1>1, SMTT(60)
  <1> HIDE DEF g, m
  <1>3. /\ \A j \in from .. m : (j \in from .. (m - 1) /\ (j <= more <=> j <= seps)) \/ j = m
        /\ \A j \in from .. (m - 1) : j \in from .. m /\ j \in 1 .. (m - 1) /\ (j <= more <=> j <= seps)
        /\ m \in from .. m
        /\ m <= more <=> more # seps
    BY <1>2, SMTT(60)
  <1>4. \A t, j : RefAt(g, from, more, t, j, q) <=>
                    \/ RefAt(s, from, seps, t, j, q)
                    \/ j = m /\ t = "page" /\ r.page = q
                    \/ j = m /\ t = "sep" /\ more # seps /\ r.ovfl = q
    BY <1>1, <1>2, <1>3 DEF RefAt
  <1>5. InRefs(g, from, more, q) <=> InRefs(s, from, seps, q) \/ new
    BY <1>4 DEF InRefs
  <1>6. RefsOnce(s, from, seps, q) /\ ~(InRefs(s, from, seps, q) /\ new) => RefsOnce(g, from, more, q)
    BY <1>4, SMTT(60) DEF InRefs, RefsOnce
  <1> QED
    BY <1>5, <1>6 DEF g

\* The loop of write_interior_page goes past a PageRef.
LEMMA RefPassed ==
    ASSUME NEW s \in Seq(RefSet), NEW from \in 1 .. Len(s), NEW seps \in Nat, NEW q
    PROVE  LET r == s[from]
               old == r.page = q \/ (from <= seps /\ r.ovfl = q)
           IN  /\ InRefs(s, from, seps, q) <=> InRefs(s, from + 1, seps, q) \/ old
               /\ RefsOnce(s, from, seps, q) =>
                    /\ RefsOnce(s, from + 1, seps, q)
                    /\ ~(InRefs(s, from + 1, seps, q) /\ old)
                    /\ ~(r.page = q /\ from <= seps /\ r.ovfl = q)
  <1> DEFINE r == s[from]
             old == r.page = q \/ (from <= seps /\ r.ovfl = q)
  <1>1. /\ \A j \in from .. Len(s) : j \in (from + 1) .. Len(s) \/ j = from
        /\ \A j \in (from + 1) .. Len(s) : j \in from .. Len(s) /\ j # from
        /\ from \in from .. Len(s)
    BY SMTT(60)
  <1>2. \A t, j : RefAt(s, from, seps, t, j, q) <=>
                    \/ RefAt(s, from + 1, seps, t, j, q)
                    \/ j = from /\ t = "page" /\ r.page = q
                    \/ j = from /\ t = "sep" /\ from <= seps /\ r.ovfl = q
    BY <1>1 DEF RefAt
  <1>3. \A t, j : RefAt(s, from + 1, seps, t, j, q) => j # from
    BY <1>1 DEF RefAt
  <1>4. InRefs(s, from, seps, q) <=> InRefs(s, from + 1, seps, q) \/ old
    BY <1>2 DEF InRefs
  <1>5. ASSUME RefsOnce(s, from, seps, q)
        PROVE  /\ RefsOnce(s, from + 1, seps, q)
               /\ ~(InRefs(s, from + 1, seps, q) /\ old)
               /\ ~(r.page = q /\ from <= seps /\ r.ovfl = q)
    <2>1. RefsOnce(s, from + 1, seps, q)
      BY <1>2, <1>5 DEF RefsOnce
    <2>2. ASSUME InRefs(s, from + 1, seps, q), old PROVE FALSE
      <3>1. PICK t, j : RefAt(s, from + 1, seps, t, j, q)
        BY <2>2 DEF InRefs
      <3>2. CASE r.page = q
        BY <1>2, <1>3, <1>5, <3>1, <3>2 DEF RefsOnce
      <3>3. CASE from <= seps /\ r.ovfl = q
        BY <1>2, <1>3, <1>5, <3>1, <3>3 DEF RefsOnce
      <3> QED
        BY <2>2, <3>2, <3>3
    <2>3. ASSUME r.page = q, from <= seps, r.ovfl = q PROVE FALSE
      <3>1. RefAt(s, from, seps, "page", from, q) /\ RefAt(s, from, seps, "sep", from, q)
        BY <1>2, <2>3
      <3>2. "page" = "sep"
        BY <1>5, <3>1 DEF RefsOnce
      <3> QED
        BY <3>2
    <2> QED
      BY <2>1, <2>2, <2>3
  <1> QED
    BY <1>4, <1>5

\* Nothing more is to be had of a level whose last PageRef was passed.
LEMMA RefsOver ==
    ASSUME NEW s \in Seq(RefSet), NEW seps, NEW q
    PROVE  ~InRefs(s, Len(s) + 1, seps, q)
  <1>1. \A j : j \notin (Len(s) + 1) .. Len(s)
    <2>1. Len(s) \in Nat
      BY SMTT(60)
    <2> QED
      BY <2>1, SMTT(60)
  <1> QED
    BY <1>1 DEF InRefs, RefAt
\* A page written beside those that are there
LEMMA PageAdded ==
    ASSUME NEW f, NEW n, n \notin DOMAIN f, NEW more, DOMAIN more = {n}, NEW q
    PROVE  LET g == Written(f, more)
               new == \E t, j : PageAt(more[n], t, j, q)
           IN  /\ InFile(g, q) <=> InFile(f, q) \/ new
               /\ /\ FileOnce(f, q) /\ ~(InFile(f, q) /\ new)
                  /\ \A t1, j1, t2, j2 : PageAt(more[n], t1, j1, q) /\ PageAt(more[n], t2, j2, q) => t1 = t2 /\ j1 = j2
                  => FileOnce(g, q)
  <1> DEFINE g == Written(f, more)
             pg == more[n]
             new == \E t, j : PageAt(pg, t, j, q)
  <1>1. /\ DOMAIN g = DOMAIN f \cup {n} /\ g[n] = pg
        /\ \A p \in DOMAIN f : g[p] = f[p]
    BY DEF Written
  <1> HIDE DEF g, pg
  <1>2. InFile(g, q) <=> InFile(f, q) \/ new
    BY <1>1 DEF InFile
  <1>3. ASSUME FileOnce(f, q), ~(InFile(f, q) /\ new),
               \A t1, j1, t2, j2 : PageAt(pg, t1, j1, q) /\ PageAt(pg, t2, j2, q) => t1 = t2 /\ j1 = j2
        PROVE  FileOnce(g, q)
    <2> SUFFICES ASSUME NEW p1 \in DOMAIN g, NEW p2 \in DOMAIN g, NEW t1, NEW j1, NEW t2, NEW j2,
                        PageAt(g[p1], t1, j1, q), PageAt(g[p2], t2, j2, q)
                 PROVE  p1 = p2 /\ t1 = t2 /\ j1 = j2
      BY DEF FileOnce
    <2>1. CASE p1 = n /\ p2 = n
      BY <1>1, <1>3, <2>1
    <2>2. CASE p1 # n /\ p2 # n
      BY <1>1, <1>3, <2>2, SMTT(60) DEF FileOnce
    <2>3. CASE (p1 = n /\ p2 # n) \/ (p1 # n /\ p2 = n)
      BY <1>1, <1>3, <2>3 DEF InFile
    <2> QED
      BY <2>1, <2>2, <2>3
  <1> QED
    BY <1>2, <1>3 DEF g, pg

LEMMA LeafAdded ==
    ASSUME NEW f, NEW n, n \notin DOMAIN f, NEW cells, NEW left, NEW q
    PROVE  LET g == Written(f, Leaf(n, cells, left))
           IN  /\ InFile(g, q) <=> InFile(f, q) \/ InCells(cells, FALSE, q)
               /\ /\ FileOnce(f, q) /\ CellsOnce(cells, FALSE, q)
                  /\ ~(InFile(f, q) /\ InCells(cells, FALSE, q))
                  => FileOnce(g, q)
  <1> DEFINE more == Leaf(n, cells, left)
  <1>1. DOMAIN more = {n} /\ more[n].kind = "leaf" /\ more[n].cells = cells
    BY DEF Leaf
  <1> HIDE DEF more
  <1>2. \A t, j : PageAt(more[n], t, j, q) <=> CellAt(cells, FALSE, t, j, q)
    BY <1>1 DEF PageAt, CellAt
  <1>3. InCells(cells, FALSE, q) <=> \E t, j : PageAt(more[n], t, j, q)
    BY <1>2 DEF InCells
  <1>4. CellsOnce(cells, FALSE, q) <=>
          \A t1, j1, t2, j2 : PageAt(more[n], t1, j1, q) /\ PageAt(more[n], t2, j2, q) => t1 = t2 /\ j1 = j2
    BY <1>2 DEF CellsOnce
  <1> QED
    BY <1>1, <1>3, <1>4, PageAdded DEF more

LEMMA InteriorAdded ==
    ASSUME NEW f, NEW n, n \notin DOMAIN f, NEW cells, NEW left, NEW right, NEW q
    PROVE  LET g == Written(f, Interior(n, cells, left, right))
           IN  /\ InFile(g, q) <=> InFile(f, q) \/ InCells(cells, TRUE, q) \/ right = q
               /\ /\ FileOnce(f, q) /\ CellsOnce(cells, TRUE, q)
                  /\ ~(InFile(f, q) /\ (InCells(cells, TRUE, q) \/ right = q))
                  /\ ~(InCells(cells, TRUE, q) /\ right = q)
                  => FileOnce(g, q)
  <1> DEFINE more == Interior(n, cells, left, right)
  <1>1. DOMAIN more = {n} /\ more[n].kind = "interior" /\ more[n].cells = cells /\ more[n].right = right
    BY DEF Interior
  <1> HIDE DEF more
  <1>2. \A t, j : PageAt(more[n], t, j, q) <=>
                    CellAt(cells, TRUE, t, j, q) \/ (t = "right" /\ j = 0 /\ right = q)
    BY <1>1 DEF PageAt, CellAt
  <1>3. InCells(cells, TRUE, q) \/ right = q <=> \E t, j : PageAt(more[n], t, j, q)
    BY <1>2 DEF InCells
  <1>4. CellsOnce(cells, TRUE, q) /\ ~(InCells(cells, TRUE, q) /\ right = q) =>
          \A t1, j1, t2, j2 : PageAt(more[n], t1, j1, q) /\ PageAt(more[n], t2, j2, q) => t1 = t2 /\ j1 = j2
    <2> SUFFICES ASSUME CellsOnce(cells, TRUE, q), ~(InCells(cells, TRUE, q) /\ right = q),
                        NEW t1, NEW j1, NEW t2, NEW j2,
                        PageAt(more[n], t1, j1, q), PageAt(more[n], t2, j2, q)
                 PROVE  t1 = t2 /\ j1 = j2
      OBVIOUS
    <2>1. CASE CellAt(cells, TRUE, t1, j1, q) /\ CellAt(cells, TRUE, t2, j2, q)
      BY <2>1 DEF CellsOnce
    <2>2. CASE (t1 = "right" /\ j1 = 0 /\ right = q) /\ (t2 = "right" /\ j2 = 0 /\ right = q)
      BY <2>2
    <2>3. \A t, j : CellAt(cells, TRUE, t, j, q) => InCells(cells, TRUE, q)
      BY DEF InCells
    <2>4. CellAt(cells, TRUE, t1, j1, q) \/ (t1 = "right" /\ j1 = 0 /\ right = q)
      BY <1>2
    <2>5. CellAt(cells, TRUE, t2, j2, q) \/ (t2 = "right" /\ j2 = 0 /\ right = q)
      BY <1>2
    <2>6. CellAt(cells, TRUE, t1, j1, q) \/ CellAt(cells, TRUE, t2, j2, q) => right # q
      BY <2>3
    <2> QED
      BY <2>1, <2>2, <2>4, <2>5, <2>6
  <1> QED
    BY <1>1, <1>3, <1>4, PageAdded DEF more

\* A chain is written beside the pages that are there.
LEMMA ChainPlaced ==
    ASSUME NEW f, NEW n, NEW bytes, \A p \in n .. (n + Chain(bytes) - 1) : p \notin DOMAIN f
    PROVE  LET g == Written(f, Overflow(n, bytes))
               last == n + Chain(bytes) - 1
           IN  /\ DOMAIN g = DOMAIN f \cup (n .. last)
               /\ \A p \in n .. last : /\ g[p].kind = "overflow"
                                       /\ g[p].next = IF p = last THEN NoPage ELSE p + 1
               /\ \A p \in DOMAIN f : g[p] = f[p]
  <1> DEFINE last == n + Chain(bytes) - 1
             ov == Overflow(n, bytes)
  <1>1. /\ DOMAIN ov = n .. last
        /\ \A p \in n .. last : ov[p].kind = "overflow" /\ ov[p].next = IF p = last THEN NoPage ELSE p + 1
    BY DEF Overflow
  <1> HIDE DEF ov, last
  <1> DEFINE g == Written(f, ov)
  <1>2. /\ DOMAIN g = DOMAIN f \cup (n .. last)
        /\ \A p \in n .. last : g[p] = ov[p]
        /\ \A p \in DOMAIN f : g[p] = f[p]
    BY <1>1 DEF Written, last
  <1> QED
    BY <1>1, <1>2 DEF ov, last

\* The chain of a spilled payload names all its pages but the first.
LEMMA ChainAdded ==
    ASSUME NEW f, NEW n \in Nat, n > 0, NEW bytes \in Nat,
           \A p \in n .. (n + Chain(bytes) - 1) : p \notin DOMAIN f,
           NEW q \in Nat, q > 0
    PROVE  LET g == Written(f, Overflow(n, bytes))
               new == q \in (n + 1) .. (n + Chain(bytes) - 1)
           IN  /\ InFile(g, q) <=> InFile(f, q) \/ new
               /\ FileOnce(f, q) /\ ~(InFile(f, q) /\ new) => FileOnce(g, q)
  <1> DEFINE g == Written(f, Overflow(n, bytes))
             last == n + Chain(bytes) - 1
             new == q \in (n + 1) .. last
  <1>0. last \in Int
    BY ChainNat, SMTT(60)
  <1>1. /\ DOMAIN g = DOMAIN f \cup (n .. last)
        /\ \A p \in n .. last : g[p].kind = "overflow" /\ g[p].next = IF p = last THEN NoPage ELSE p + 1
        /\ \A p \in DOMAIN f : g[p] = f[p]
    BY ChainPlaced
  <1> HIDE DEF last, g
  <1>3. \A p \in n .. last : \A t, j : PageAt(g[p], t, j, q) <=> t = "next" /\ j = 0 /\ p # last /\ q = p + 1
    BY <1>1, SMTT(60) DEF PageAt, NoPage
  <1>4. /\ new => q - 1 \in n .. last /\ q - 1 # last /\ q = (q - 1) + 1
        /\ \A p \in n .. last : p # last /\ q = p + 1 => new /\ p = q - 1
    BY <1>0, SMTT(60)
  <1>5. \A p \in n .. last : p \notin DOMAIN f
    BY DEF last
  <1>6. InFile(g, q) <=> InFile(f, q) \/ new
    <2>1. ASSUME new PROVE InFile(g, q)
      <3>1. PageAt(g[q - 1], "next", 0, q) /\ q - 1 \in DOMAIN g
        BY <1>1, <1>3, <1>4, <2>1
      <3> QED
        BY <3>1 DEF InFile
    <2>2. InFile(f, q) => InFile(g, q)
      BY <1>1 DEF InFile
    <2>3. InFile(g, q) => InFile(f, q) \/ new
      <3> SUFFICES ASSUME NEW p \in DOMAIN g, NEW t, NEW j, PageAt(g[p], t, j, q), p \notin DOMAIN f
                   PROVE  new
        BY <1>1 DEF InFile
      <3> QED
        BY <1>1, <1>3, <1>4
    <2> QED
      BY <2>1, <2>2, <2>3
  <1>7. ASSUME FileOnce(f, q), ~(InFile(f, q) /\ new) PROVE FileOnce(g, q)
    <2> SUFFICES ASSUME NEW p1 \in DOMAIN g, NEW p2 \in DOMAIN g, NEW t1, NEW j1, NEW t2, NEW j2,
                        PageAt(g[p1], t1, j1, q), PageAt(g[p2], t2, j2, q)
                 PROVE  p1 = p2 /\ t1 = t2 /\ j1 = j2
      BY DEF FileOnce
    <2>1. CASE p1 \in DOMAIN f /\ p2 \in DOMAIN f
      BY <1>1, <1>7, <2>1, SMTT(60) DEF FileOnce
    <2>2. \A p \in DOMAIN g : \A t, j : PageAt(g[p], t, j, q) /\ p \notin DOMAIN f =>
                new /\ p = q - 1 /\ t = "next" /\ j = 0
      BY <1>1, <1>3, <1>4
    <2>3. \A p \in DOMAIN g : \A t, j : PageAt(g[p], t, j, q) /\ p \in DOMAIN f => InFile(f, q)
      BY <1>1 DEF InFile
    <2>4. CASE p1 \notin DOMAIN f /\ p2 \notin DOMAIN f
      BY <2>2, <2>4, SMTT(60)
    <2> QED
      BY <1>7, <2>1, <2>2, <2>3, <2>4
  <1> QED
    BY <1>6, <1>7 DEF g, last

LEMMA Quotient ==
    ASSUME NEW a \in Nat, NEW b \in Nat, b > 0
    PROVE  (a < b => a \div b = 0) /\ (a >= b => a \div b > 0)
  BY SMTT(60)

\* A cell names the first page of its chain, and has no chain otherwise.
LEMMA ChainOfCell ==
    ASSUME NEW p \in Nat, NEW max \in Nat, MinLocal <= max, NEW k, NEW varints, NEW n
    PROVE  LET c == Cell(k, p, max, varints, n)
               pages_ == Chain(Spilled(p, max))
           IN  /\ pages_ \in Nat
               /\ c.ovfl = IF pages_ = 0 THEN NoPage ELSE n
  <1> DEFINE bytes == Spilled(p, max)
  <1>1. Local(p, max) \in Nat /\ Local(p, max) <= max /\ bytes \in Nat
    BY LocalBounds
  <1>2. PerPage \in Nat /\ PerPage > 0
    BY Geometry, SMTT(60) DEF PerPage
  <1>3. (p <= max => bytes = 0) /\ (p > max => bytes > 0)
    <2>1. p <= max => Local(p, max) = p
      BY DEF Local
    <2>2. bytes = p - Local(p, max)
      BY DEF Spilled
    <2> QED
      BY <1>1, <2>1, <2>2, SMTT(60)
  <1> HIDE DEF bytes
  <1> DEFINE a == bytes + PerPage - 1
  <1>4. a \in Nat /\ (bytes = 0 <=> a < PerPage) /\ (bytes > 0 <=> a >= PerPage)
    BY <1>1, <1>2, SMTT(60)
  <1> HIDE DEF a
  <1>5. (a < PerPage => a \div PerPage = 0) /\ (a >= PerPage => a \div PerPage > 0)
    BY <1>2, <1>4, Quotient
  <1>6. Chain(bytes) = a \div PerPage /\ Chain(bytes) \in Nat
    BY <1>1, ChainNat DEF Chain, a
  <1>7. p > max <=> Chain(bytes) # 0
    <2> DEFINE d == a \div PerPage
    <2>1. (a < PerPage => d = 0) /\ (a >= PerPage => d > 0) /\ Chain(bytes) = d
      BY <1>5, <1>6
    <2> HIDE DEF d
    <2> QED
      BY <1>1, <1>3, <1>4, <1>6, <2>1, SMTT(60)
  <1>8. Cell(k, p, max, varints, n).ovfl = IF p > max THEN n ELSE NoPage
    BY DEF Cell
  <1> QED
    BY <1>6, <1>7, <1>8 DEF bytes
----------------------------------------------------------------------------
\* Separators that are still to be written: the last one of a level is not,
\* and a table's are keys only.
Seps ==
    IF ~InTree \/ ~IsIndex THEN 0 ELSE IF pc = "interior" THEN Len(children) - 1 ELSE Len(children)

ParentSeps == IF ~InTree \/ ~IsIndex THEN 0 ELSE Len(parents)

\* d holds exactly if one of the other six does, and then only one.
Alone(d, a, b, c, e, g, h) ==
    /\ d <=> a \/ b \/ c \/ e \/ g \/ h
    /\ a => ~b /\ ~c /\ ~e /\ ~g /\ ~h
    /\ b => ~c /\ ~e /\ ~g /\ ~h
    /\ c => ~e /\ ~g /\ ~h
    /\ e => ~g /\ ~h
    /\ g => ~h

Named(q) ==
    /\ Alone(q \in DOMAIN pages, InFile(pages, q), InCells(page, pc = "interior", q),
             InCells(todo, FALSE, q), InRefs(children, i, Seps, q),
             InRefs(parents, 1, ParentSeps, q), InRoots(roots, q))
    /\ FileOnce(pages, q)
    /\ CellsOnce(page, pc = "interior", q) /\ CellsOnce(todo, FALSE, q)
    /\ RefsOnce(children, i, Seps, q) /\ RefsOnce(parents, 1, ParentSeps, q)
    /\ RootsOnce(roots, q)

UInv == \A q \in Nat : q > 1 => Named(q)

(***************************************************************************)
(* What is empty in which phase, and that no number below the counter is   *)
(* passed over but the pending one.                                        *)
(***************************************************************************)
Kinded(file) ==
    \A q \in DOMAIN file :
        IF q = 1 THEN file[q].kind = "master" ELSE file[q].kind \in {"leaf", "interior", "overflow"}

Filled(file, n) == \A q \in 2 .. n - 1 : q \in DOMAIN file \/ q = PendingPage

RowsInv ==
    /\ parents = <<>>
    /\ rows[tree] = 0 => todo = <<>> /\ page = <<>> /\ children = <<>> /\ pb = next
    /\ IsIndex => page = <<>> /\ children = <<>> /\ Filled(pages, next) /\ (rows[tree] > 0 => todo # <<>>)
    /\ ~IsIndex => todo = <<>> /\ Filled(pages, pb) /\ (rows[tree] > 0 => page # <<>>)

\* One cell leaves room for a second: a full leaf has at least two.
IndexInv ==
    /\ IsIndex /\ parents = <<>> /\ Filled(pages, pb)
    /\ page # <<>> \/ todo # <<>>
    /\ Len(page) = 1 => room = EmptyLeafRoom - page[1].len - CellPtr

InteriorInv ==
    /\ todo = <<>> /\ Filled(pages, pb)
    /\ Len(children) >= 1
    /\ Len(children) = 1 => page = <<>> /\ parents = <<>> /\ i = 1

DoneInv ==
    /\ page = <<>> /\ todo = <<>> /\ children = <<>> /\ parents = <<>>
    /\ Len(roots) = Len(Kinds) /\ Filled(pages, next)

SInv ==
    /\ roots \in Seq(Nat)
    /\ Kinded(pages)
    /\ InTree => Len(roots) = tree - 1 /\ \A t \in (tree + 1) .. Len(Kinds) : rows[t] = 0
    /\ pc = "rows" => RowsInv
    /\ pc = "index" => IndexInv
    /\ pc = "interior" => InteriorInv
    /\ ~InTree => DoneInv

\* A chain and a tree page leave no gap.
LEMMA FilledChain ==
    ASSUME NEW f, NEW n \in Nat, NEW k \in Nat, Filled(f, n), NEW g,
           DOMAIN g = DOMAIN f \cup (n .. (n + k - 1))
    PROVE  Filled(g, n + k)
  BY SMTT(60) DEF Filled

LEMMA FilledPage ==
    ASSUME NEW f, NEW n \in Nat, Filled(f, n), NEW more, DOMAIN more = {Skip(n)}
    PROVE  Filled(Written(f, more), Skip(n) + 1)
  <1>1. DOMAIN Written(f, more) = DOMAIN f \cup {Skip(n)}
    BY DEF Written
  <1>2. Skip(n) \in Nat /\ (Skip(n) = n \/ (n = PendingPage /\ Skip(n) = n + 1))
    BY SMTT(60) DEF Skip
  <1> QED
    BY <1>1, <1>2, SMTT(60) DEF Filled

\* A root added
LEMMA RootAdded ==
    ASSUME NEW s \in Seq(Nat), NEW r \in Nat, NEW q
    PROVE  /\ InRoots(Append(s, r), q) <=> InRoots(s, q) \/ r = q
           /\ RootsOnce(s, q) /\ ~(InRoots(s, q) /\ r = q) => RootsOnce(Append(s, r), q)
  <1> DEFINE g == Append(s, r)
             m == Len(s) + 1
  <1>1. /\ DOMAIN s = 1 .. Len(s) /\ DOMAIN g = 1 .. m /\ g[m] = r
        /\ \A j \in 1 .. Len(s) : g[j] = s[j]
    BY SMTT(60)
  <1>2. /\ \A j \in 1 .. m : j \in 1 .. Len(s) \/ j = m
        /\ \A j \in 1 .. Len(s) : j \in 1 .. m /\ j # m
        /\ m \in 1 .. m
    <2>1. Len(s) \in Nat
      BY SMTT(60)
    <2> HIDE DEF g
    <2> QED
      BY <2>1, SMTT(60)
  <1> HIDE DEF g, m
  <1>3. InRoots(g, q) <=> InRoots(s, q) \/ r = q
    BY <1>1, <1>2 DEF InRoots
  <1>4. ASSUME RootsOnce(s, q), ~(InRoots(s, q) /\ r = q) PROVE RootsOnce(g, q)
    BY <1>1, <1>2, <1>4 DEF InRoots, RootsOnce
  <1> QED
    BY <1>3, <1>4 DEF g
----------------------------------------------------------------------------
LEMMA InitUsed == Init => SInv /\ UInv
  <1> SUFFICES ASSUME Init PROVE SInv /\ UInv
    OBVIOUS
  <1>1. DOMAIN pages = {}
    BY SMTT(60) DEF Init
  <1>2. /\ pc = "rows" /\ rows = [t \in DOMAIN Kinds |-> 0] /\ tree = 1 /\ pb = 2 /\ next = 2
        /\ todo = <<>> /\ page = <<>> /\ children = <<>> /\ parents = <<>> /\ i = 1 /\ roots = <<>>
    BY DEF Init
  <1>3. Len(Kinds) \in Nat /\ Len(Kinds) > 0 /\ DOMAIN Kinds = 1 .. Len(Kinds)
    BY Geometry, SMTT(60)
  <1>4. rows[tree] = 0 /\ \A t \in 2 .. Len(Kinds) : rows[t] = 0
    BY <1>2, <1>3, SMTT(60)
  <1>5. \A q : ~(q \in 2 .. 2 - 1)
    BY SMTT(60)
  <1>6. RowsInv
    BY <1>2, <1>4, <1>5, SMTT(60) DEF RowsInv, Filled
  <1>7. roots \in Seq(Nat) /\ Len(roots) = tree - 1 /\ tree + 1 = 2
    BY <1>2, SMTT(60)
  <1>8. SInv
    BY <1>1, <1>2, <1>4, <1>6, <1>7 DEF SInv, InTree, Kinded
  <1>9. ASSUME NEW q \in Nat, q > 1 PROVE Named(q)
    <2>1. ~InFile(pages, q) /\ FileOnce(pages, q)
      BY <1>1 DEF InFile, FileOnce
    <2>2. DOMAIN roots = {}
      BY <1>2, SMTT(60)
    <2>3. ~InRoots(roots, q) /\ RootsOnce(roots, q)
      BY <2>2 DEF InRoots, RootsOnce
    <2>4. /\ ~InCells(page, pc = "interior", q) /\ CellsOnce(page, pc = "interior", q)
          /\ ~InCells(todo, FALSE, q) /\ CellsOnce(todo, FALSE, q)
      BY <1>2, NoCells
    <2>5. 1 \in Nat /\ 1 > 0
      BY SMTT(60)
    <2>6. /\ ~InRefs(children, i, Seps, q) /\ RefsOnce(children, i, Seps, q)
          /\ ~InRefs(parents, 1, ParentSeps, q) /\ RefsOnce(parents, 1, ParentSeps, q)
      BY <1>2, <2>5, NoRefs
    <2> QED
      BY <1>1, <2>1, <2>3, <2>4, <2>6 DEF Named, Alone
  <1> QED
    BY <1>8, <1>9 DEF UInv

LEMMA StutterUsed ==
    ASSUME SInv, UInv, UNCHANGED vars
    PROVE  SInv' /\ UInv'
  <1>1. /\ UNCHANGED <<pages, next, pb, tree, pc, rows, todo, page, room, children, parents, i, roots>>
        /\ InTree' = InTree /\ IsIndex' = IsIndex
    BY DEF vars, InTree, IsIndex
  <1>2. Seps' = Seps /\ ParentSeps' = ParentSeps
    BY <1>1 DEF Seps, ParentSeps
  <1>3. UInv'
    BY <1>1, <1>2 DEF UInv, Named
  <1>4. SInv'
    BY <1>1 DEF SInv, RowsInv, IndexInv, InteriorInv, DoneInv
  <1> QED
    BY <1>3, <1>4

LEMMA StartIndexUsed ==
    ASSUME IInv, SInv, UInv, StartIndex
    PROVE  SInv' /\ UInv'
  <1>1. /\ UNCHANGED <<pages, next, tree, rows, todo, page, room, children, parents, i, roots>>
        /\ pc = "rows" /\ pc' = "index" /\ pb' = next /\ IsIndex /\ IsIndex' = IsIndex
        /\ InTree /\ InTree' /\ rows[tree] > 0
    BY DEF StartIndex, InTree, IsIndex
  <1>2. Seps' = Seps /\ ParentSeps' = ParentSeps
    BY <1>1 DEF Seps, ParentSeps
  <1>3. (pc = "interior") = FALSE /\ (pc' = "interior") = FALSE
    BY <1>1
  <1>4. UInv'
    BY <1>1, <1>2, <1>3 DEF UInv, Named
  <1>5. RowsInv
    BY <1>1 DEF SInv
  <1>6. Len(page) # 1
    BY <1>1, <1>5, SMTT(60) DEF RowsInv
  <1>7. IndexInv'
    BY <1>1, <1>5, <1>6 DEF RowsInv, IndexInv
  <1>8. SInv'
    BY <1>1, <1>7 DEF SInv
  <1> QED
    BY <1>4, <1>8

\* Page 1 names the roots, which name the trees: it is not a place itself.
LEMMA MasterUsed ==
    ASSUME IInv, SInv, UInv, Master
    PROVE  SInv' /\ UInv'
  <1> DEFINE m == [q \in {1} |-> [kind |-> "master", roots |-> roots]]
  <1>1. /\ UNCHANGED <<next, pb, tree, rows, todo, page, room, children, parents, i, roots>>
        /\ pc = "master" /\ pc' = "closed" /\ ~InTree /\ ~InTree'
        /\ pages' = Written(pages, m) /\ Below(pages, next) /\ DoneInv
    BY DEF Master, InTree, IInv, FInv, SInv
  <1>2. DOMAIN m = {1} /\ m[1].kind = "master"
    OBVIOUS
  <1> HIDE DEF m
  <1>3. DOMAIN pages' = DOMAIN pages \cup {1} /\ \A q \in DOMAIN pages : q # 1 => pages'[q] = pages[q]
    BY <1>1, <1>2 DEF Written
  <1>4. 1 \notin DOMAIN pages
    BY <1>1, SMTT(60) DEF Below
  <1>5. Seps' = Seps /\ ParentSeps' = ParentSeps
    BY <1>1 DEF Seps, ParentSeps
  <1>6. (pc = "interior") = FALSE /\ (pc' = "interior") = FALSE
    BY <1>1
  <1>7. ASSUME NEW q \in Nat, q > 1 PROVE Named(q)'
    <2>1. \A t, j : ~PageAt(m[1], t, j, q)
      BY <1>2 DEF PageAt
    <2>2. Named(q) /\ q # 1
      BY <1>7, SMTT(60) DEF UInv
    <2>3. /\ InFile(pages', q) <=> InFile(pages, q)
          /\ FileOnce(pages, q) => FileOnce(pages', q)
      BY <1>1, <1>2, <1>4, <2>1, PageAdded
    <2>4. q \in DOMAIN pages' <=> q \in DOMAIN pages
      BY <1>3, <2>2
    <2> QED
      BY <1>1, <1>5, <1>6, <2>2, <2>3, <2>4 DEF Named, Alone
  <1>8. UInv'
    BY <1>7 DEF UInv
  <1>9. DoneInv'
    BY <1>1, <1>3 DEF DoneInv, Filled
  <1>10. Kinded(pages')
    BY <1>1, <1>2, <1>3, <1>4 DEF SInv, Kinded, Written
  <1>11. SInv'
    BY <1>1, <1>9, <1>10 DEF SInv
  <1> QED
    BY <1>8, <1>11

\* Between two trees only the file and the roots hold page numbers.
LEMMA NextTreeUsed ==
    ASSUME TInv, SInv, InTree, NEW root \in Nat, NEW n, NextTree(root, n), rows' = rows,
           Filled(pages', n),
           Kinded(pages'),
           \A q \in Nat : q > 1 =>
                /\ q \in DOMAIN pages' <=> InFile(pages', q) \/ InRoots(roots', q)
                /\ ~(InFile(pages', q) /\ InRoots(roots', q))
                /\ FileOnce(pages', q) /\ RootsOnce(roots', q)
    PROVE  SInv' /\ UInv'
  <1>a. /\ next' = n /\ pb' = n /\ tree' = tree + 1
        /\ pc' = IF tree = Len(Kinds) THEN "master" ELSE "rows"
        /\ todo' = <<>> /\ page' = <<>>
        /\ children' = <<>> /\ parents' = <<>> /\ i' = 1
        /\ roots' = Append(roots, root)
    BY DEF NextTree
  <1>b. Len(Kinds) \in Nat /\ tree \in 1 .. Len(Kinds) /\ roots \in Seq(Nat) /\ Len(roots) = tree - 1
    BY Geometry, SMTT(60) DEF TInv, SInv
  <1>c. roots' \in Seq(Nat) /\ Len(roots') = tree
    <2>1. roots' \in Seq(Nat) /\ Len(roots') = Len(roots) + 1
      BY <1>a, <1>b, Appended
    <2> QED
      BY <1>b, <2>1, SMTT(60)
  <1>d. tree' - 1 = tree /\ \A t \in (tree' + 1) .. Len(Kinds) : t \in (tree + 1) .. Len(Kinds)
    BY <1>a, <1>b, SMTT(60)
  <1>e. (pc' = "interior") = FALSE
    BY <1>a
  <1>1. ASSUME NEW q \in Nat, q > 1 PROVE Named(q)'
    <2>1. 1 \in Nat /\ 1 > 0
      BY SMTT(60)
    <2>2. /\ ~InCells(page', (pc = "interior")', q) /\ CellsOnce(page', (pc = "interior")', q)
          /\ ~InCells(todo', FALSE, q) /\ CellsOnce(todo', FALSE, q)
      BY <1>a, NoCells
    <2>3. /\ ~InRefs(children', i', Seps', q) /\ RefsOnce(children', i', Seps', q)
          /\ ~InRefs(parents', 1, ParentSeps', q) /\ RefsOnce(parents', 1, ParentSeps', q)
      BY <1>a, <2>1, NoRefs
    <2> QED
      BY <1>1, <2>2, <2>3 DEF Named, Alone
  <1>2. UInv'
    BY <1>1 DEF UInv
  <1>3. CASE tree = Len(Kinds)
    <2>1. pc' = "master" /\ ~InTree'
      BY <1>a, <1>3 DEF InTree
    <2>2. DoneInv'
      BY <1>a, <1>c, <1>3 DEF DoneInv
    <2> QED
      BY <1>2, <1>c, <2>1, <2>2 DEF SInv
  <1>4. CASE tree # Len(Kinds)
    <2>1. pc' = "rows" /\ InTree'
      BY <1>a, <1>4 DEF InTree
    <2>2. tree' \in (tree + 1) .. Len(Kinds)
      BY <1>a, <1>b, <1>4, SMTT(60)
    <2>3. rows'[tree'] = 0 /\ \A t \in (tree' + 1) .. Len(Kinds) : rows'[t] = 0
      BY <1>d, <2>2 DEF SInv
    <2>4. ~(rows'[tree'] > 0)
      BY <2>3, SMTT(60)
    <2>5. RowsInv'
      BY <1>a, <2>3, <2>4 DEF RowsInv
    <2> QED
      BY <1>2, <1>c, <1>d, <2>1, <2>3, <2>5 DEF SInv
  <1> QED
    BY <1>3, <1>4

LEMMA EmptyTreeUsed ==
    ASSUME IInv, SInv, UInv, EmptyTree
    PROVE  SInv' /\ UInv'
  <1> DEFINE n == Skip(next)
  <1>a. /\ TInv /\ InTree /\ next \in Nat /\ next > 1 /\ Below(pages, next)
        /\ pc = "rows" /\ rows[tree] = 0 /\ RowsInv
        /\ pages' = Written(pages, Leaf(n, <<>>, EmptyLeafRoom))
        /\ NextTree(n, n + 1) /\ rows' = rows
    BY DEF EmptyTree, EmptyLeaf, IInv, TInv, FInv, InTree, SInv
  <1>b. n \in Nat /\ n >= next /\ n > 1
    <2>1. n \in Nat /\ n >= next
      BY <1>a, SkipFacts
    <2> QED
      BY <1>a, <2>1, SMTT(60)
  <1>c. /\ todo = <<>> /\ page = <<>> /\ children = <<>> /\ parents = <<>> /\ i = 1
        /\ Filled(pages, next)
    BY <1>a DEF RowsInv, TInv
  <1>d. n \notin DOMAIN pages
    BY <1>a, <1>b, SMTT(60) DEF Below
  <1>e. /\ DOMAIN pages' = DOMAIN pages \cup {n}
        /\ pages'[n].kind = "leaf" /\ \A p \in DOMAIN pages : p # n => pages'[p] = pages[p]
    BY <1>a DEF Written, Leaf
  <1>f. Filled(pages', n + 1)
    <2>1. DOMAIN Leaf(n, <<>>, EmptyLeafRoom) = {n}
      BY DEF Leaf
    <2> QED
      BY <1>a, <1>c, <2>1, FilledPage
  <1>g. roots \in Seq(Nat) /\ roots' = Append(roots, n)
    BY <1>a DEF SInv, NextTree
  <1> HIDE DEF n
  <1>1. ASSUME NEW q \in Nat, q > 1
        PROVE  /\ q \in DOMAIN pages' <=> InFile(pages', q) \/ InRoots(roots', q)
               /\ ~(InFile(pages', q) /\ InRoots(roots', q))
               /\ FileOnce(pages', q) /\ RootsOnce(roots', q)
    <2>1. 1 \in Nat /\ 1 > 0
      BY SMTT(60)
    <2>2. /\ ~InCells(page, pc = "interior", q) /\ ~InCells(todo, FALSE, q)
          /\ ~InRefs(children, i, Seps, q) /\ ~InRefs(parents, 1, ParentSeps, q)
      BY <1>c, <2>1, NoCells, NoRefs
    <2>3. /\ q \in DOMAIN pages <=> InFile(pages, q) \/ InRoots(roots, q)
          /\ ~(InFile(pages, q) /\ InRoots(roots, q))
          /\ FileOnce(pages, q) /\ RootsOnce(roots, q)
      BY <1>1, <2>2 DEF UInv, Named, Alone
    <2>4. ~InCells(<<>>, FALSE, q) /\ CellsOnce(<<>>, FALSE, q)
      BY NoCells
    <2>5. /\ InFile(pages', q) <=> InFile(pages, q)
          /\ FileOnce(pages, q) => FileOnce(pages', q)
      BY <1>a, <1>d, <2>4, LeafAdded
    <2>6. /\ InRoots(roots', q) <=> InRoots(roots, q) \/ n = q
          /\ RootsOnce(roots, q) /\ ~(InRoots(roots, q) /\ n = q) => RootsOnce(roots', q)
      BY <1>b, <1>g, RootAdded
    <2>7. q \in DOMAIN pages' <=> q \in DOMAIN pages \/ q = n
      BY <1>e
    <2>8. n = q => q \notin DOMAIN pages
      BY <1>d
    <2> QED
      BY <2>3, <2>5, <2>6, <2>7, <2>8
  <1>2. Kinded(pages')
    <2>1. n # 1
      BY <1>b, SMTT(60)
    <2> QED
      BY <1>e, <2>1 DEF SInv, Kinded
  <1> QED
    BY <1>a, <1>b, <1>f, <1>1, <1>2, NextTreeUsed DEF n

LEMMA TreeDoneUsed ==
    ASSUME IInv, SInv, UInv, TreeDone
    PROVE  SInv' /\ UInv'
  <1> DEFINE root == children[1].page
  <1>a. /\ TInv /\ InTree /\ pages' = pages /\ rows' = rows /\ NextTree(root, pb)
        /\ children \in Seq(RefSet) /\ Len(children) = 1 /\ pc = "interior" /\ InteriorInv
    BY DEF TreeDone, IInv, TInv, InTree, SInv
  <1>b. children[1] \in RefSet /\ 1 \in 1 .. Len(children) /\ 0 \in Nat
    BY <1>a, SMTT(60)
  <1>c. root \in Nat
    BY <1>b DEF RefSet
  <1>d. todo = <<>> /\ page = <<>> /\ parents = <<>> /\ i = 1 /\ Filled(pages, pb)
    BY <1>a DEF InteriorInv
  <1>e. Seps = 0
    BY <1>a, SMTT(60) DEF Seps
  <1>f. roots \in Seq(Nat) /\ roots' = Append(roots, root)
    BY <1>a DEF SInv, NextTree
  <1> HIDE DEF root
  <1>1. ASSUME NEW q \in Nat, q > 1
        PROVE  /\ q \in DOMAIN pages' <=> InFile(pages', q) \/ InRoots(roots', q)
               /\ ~(InFile(pages', q) /\ InRoots(roots', q))
               /\ FileOnce(pages', q) /\ RootsOnce(roots', q)
    <2>1. 1 \in Nat /\ 1 > 0 /\ ~(1 <= 0) /\ 1 + 1 = Len(children) + 1
      BY <1>a, SMTT(60)
    <2>2. ~InCells(page, pc = "interior", q) /\ ~InCells(todo, FALSE, q) /\ ~InRefs(parents, 1, ParentSeps, q)
      BY <1>d, <2>1, NoCells, NoRefs
    <2>3. InRefs(children, 1, 0, q) <=> InRefs(children, 1 + 1, 0, q) \/ root = q
      BY <1>a, <1>b, <2>1, RefPassed DEF root
    <2>4. ~InRefs(children, 1 + 1, 0, q)
      BY <1>a, <2>1, RefsOver
    <2>5. InRefs(children, i, Seps, q) <=> root = q
      BY <1>d, <1>e, <2>3, <2>4
    <2>6. /\ InRoots(roots', q) <=> InRoots(roots, q) \/ root = q
          /\ RootsOnce(roots, q) /\ ~(InRoots(roots, q) /\ root = q) => RootsOnce(roots', q)
      BY <1>c, <1>f, RootAdded
    <2>7. Named(q)
      BY <1>1 DEF UInv
    <2> QED
      BY <1>a, <2>2, <2>5, <2>6, <2>7 DEF Named, Alone
  <1>2. Kinded(pages')
    BY <1>a DEF SInv
  <1>3. Filled(pages', pb)
    BY <1>a, <1>d
  <1> QED
    BY <1>a, <1>c, <1>1, <1>2, <1>3, NextTreeUsed DEF root

\* The chain of a cell: the cell names its first page, the chain the others,
\* and all of them are new.
LEMMA CellChained ==
    ASSUME NEW f, NEW n \in Nat, n > 1, Below(f, n), NEW p \in Nat, NEW max \in Nat, MinLocal <= max,
           NEW key, NEW varints, NEW q \in Nat, q > 1
    PROVE  LET c == Cell(key, p, max, varints, n)
               bytes == Spilled(p, max)
               g == Written(f, Overflow(n, bytes))
               new == q \in (n + 1) .. (n + Chain(bytes) - 1)
           IN  /\ InFile(g, q) <=> InFile(f, q) \/ new
               /\ FileOnce(f, q) /\ ~(InFile(f, q) /\ new) => FileOnce(g, q)
               /\ q \in DOMAIN g <=> q \in DOMAIN f \/ new \/ c.ovfl = q
               /\ new \/ c.ovfl = q => q \notin DOMAIN f
               /\ ~(new /\ c.ovfl = q)
  <1> DEFINE c == Cell(key, p, max, varints, n)
             bytes == Spilled(p, max)
             k == Chain(bytes)
             g == Written(f, Overflow(n, bytes))
             new == q \in (n + 1) .. (n + k - 1)
  <1>1. k \in Nat /\ c.ovfl = IF k = 0 THEN NoPage ELSE n
    BY ChainOfCell, SMTT(60)
  <1>2. bytes \in Nat
    BY LocalBounds
  <1> HIDE DEF c, bytes
  <1>3. \A r \in n .. (n + k - 1) : r \notin DOMAIN f
    BY <1>1, SMTT(60) DEF Below
  <1>4. n > 0 /\ q > 0
    BY SMTT(60)
  <1>5. /\ InFile(g, q) <=> InFile(f, q) \/ new
        /\ FileOnce(f, q) /\ ~(InFile(f, q) /\ new) => FileOnce(g, q)
    BY <1>2, <1>3, <1>4, ChainAdded
  <1>5a. DOMAIN g = DOMAIN f \cup (n .. (n + k - 1))
    BY DEF Written, Overflow
  <1> HIDE DEF k, g
  <1> DEFINE o == c.ovfl
  <1>6. o = IF k = 0 THEN NoPage ELSE n
    BY <1>1
  <1> HIDE DEF o
  <1>7. /\ q \in n .. (n + k - 1) <=> new \/ o = q
        /\ ~(new /\ o = q)
    BY <1>1, <1>6, SMTT(60) DEF NoPage
  <1> QED
    BY <1>3, <1>5, <1>5a, <1>7 DEF o, c, bytes, k, g

\* What a chain does to the file as a whole.
LEMMA ChainShape ==
    ASSUME NEW f, NEW n \in Nat, n > 1, Below(f, n), NEW bytes \in Nat, Filled(f, n),
           Kinded(f)
    PROVE  LET g == Written(f, Overflow(n, bytes))
           IN  /\ Filled(g, n + Chain(bytes))
               /\ Kinded(g)
  <1> DEFINE g == Written(f, Overflow(n, bytes))
             k == Chain(bytes)
  <1>1. k \in Nat
    BY ChainNat
  <1>2. \A r \in n .. (n + k - 1) : r \notin DOMAIN f
    BY <1>1, SMTT(60) DEF Below
  <1>4. /\ DOMAIN g = DOMAIN f \cup (n .. (n + k - 1))
        /\ \A r \in n .. (n + k - 1) : /\ g[r].kind = "overflow"
                                       /\ g[r].next = IF r = n + k - 1 THEN NoPage ELSE r + 1
        /\ \A r \in DOMAIN f : g[r] = f[r]
    BY <1>2, ChainPlaced
  <1> HIDE DEF g, k
  <1>5. Filled(g, n + k)
    BY <1>1, <1>4, FilledChain
  <1>6. Kinded(g)
    <2>1. \A r \in n .. (n + k - 1) : r # 1
      BY <1>1, SMTT(60)
    <2> QED
      BY <1>4, <2>1 DEF Kinded
  <1> QED
    BY <1>5, <1>6 DEF g, k

\* What a tree page does to it.
LEMMA PageShape ==
    ASSUME NEW f, NEW n \in Nat, n > 1, Below(f, n), Filled(f, n), NEW more, DOMAIN more = {Skip(n)},
           more[Skip(n)].kind \in {"leaf", "interior"},
           Kinded(f)
    PROVE  LET g == Written(f, more)
           IN  /\ Skip(n) \in Nat /\ Skip(n) > 1 /\ Skip(n) \notin DOMAIN f
               /\ DOMAIN g = DOMAIN f \cup {Skip(n)}
               /\ Filled(g, Skip(n) + 1)
               /\ Kinded(g)
  <1> DEFINE g == Written(f, more)
  <1>1. Skip(n) \in Nat /\ Skip(n) >= n
    BY SkipFacts
  <1>2. Skip(n) > 1 /\ Skip(n) \notin DOMAIN f
    BY <1>1, SMTT(60) DEF Below
  <1>3. Filled(g, Skip(n) + 1)
    BY FilledPage
  <1>4. /\ DOMAIN g = DOMAIN f \cup {Skip(n)}
        /\ g[Skip(n)] = more[Skip(n)] /\ \A r \in DOMAIN f : r # Skip(n) => g[r] = f[r]
    BY DEF Written
  <1> HIDE DEF g
  <1>5. Kinded(g)
    <2>1. Skip(n) # 1
      BY <1>1, <1>2, SMTT(60)
    <2> QED
      BY <1>4, <2>1 DEF Kinded
  <1> QED
    BY <1>1, <1>2, <1>3, <1>4, <1>5 DEF g

LEMMA SpillUsed ==
    ASSUME IInv, SInv, UInv, NEW p \in Payloads, SpillIndexCell(p)
    PROVE  SInv' /\ UInv'
  <1> DEFINE c == Cell(Key, p, IndexMax, 1, next)
             bytes == Spilled(p, IndexMax)
  <1>a. /\ pc = "rows" /\ pc' = "rows" /\ tree' = tree /\ tree \in 1 .. Len(Kinds)
        /\ rows \in [1 .. Len(Kinds) -> Nat] /\ rows[tree] \in Nat
        /\ next \in Nat /\ next > 1 /\ todo \in Seq(CellSet)
        /\ IsIndex /\ IsIndex' = IsIndex /\ InTree /\ InTree'
        /\ Below(pages, next) /\ RowsInv
    BY DEF SpillIndexCell, IInv, TInv, FInv, InTree, IsIndex, SInv
  <1>b. /\ rows' = [rows EXCEPT ![tree] = @ + 1]
        /\ todo' = Append(todo, c)
        /\ pages' = Written(pages, Overflow(next, bytes))
        /\ next' = next + Chain(bytes)
        /\ UNCHANGED <<pb, page, room, children, parents, i, roots>>
    BY DEF SpillIndexCell
  <1>c. p \in Nat /\ IndexMax \in Nat /\ MinLocal <= IndexMax
    BY Geometry
  <1>d. bytes \in Nat /\ Chain(bytes) \in Nat
    BY <1>c, LocalBounds, ChainNat
  <1>e. Key \in Nat
    BY <1>a, SMTT(60) DEF Key
  <1>f. c \in CellSet
    BY <1>a, <1>e, SpilledCell
  <1>g. Seps' = Seps /\ ParentSeps' = ParentSeps
    BY <1>a, <1>b DEF Seps, ParentSeps
  <1>h. /\ rows'[tree] > 0 /\ rows'[tree] # 0
        /\ \A t \in (tree + 1) .. Len(Kinds) : rows'[t] = rows[t]
    BY <1>a, <1>b, SMTT(60)
  <1>i. /\ Filled(pages', next')
        /\ Kinded(pages')
    <2>1. Kinded(pages) /\ Filled(pages, next)
      BY <1>a DEF SInv, RowsInv
    <2>2. next \in Nat /\ next > 1 /\ Below(pages, next)
      BY <1>a
    <2>3. pages' = Written(pages, Overflow(next, bytes)) /\ next' = next + Chain(bytes)
      BY <1>b
    <2> HIDE DEF bytes
    <2> QED
      BY <1>d, <2>1, <2>2, <2>3, ChainShape
  <1>j. todo' # <<>>
    BY <1>a, <1>b, <1>f, Appended
  <1>1. ASSUME NEW q \in Nat, q > 1 PROVE Named(q)'
    <2> DEFINE new == q \in (next + 1) .. (next + Chain(bytes) - 1)
    <2>1. Named(q)
      BY <1>1 DEF UInv
    <2>2. /\ InFile(pages', q) <=> InFile(pages, q) \/ new
          /\ FileOnce(pages, q) /\ ~(InFile(pages, q) /\ new) => FileOnce(pages', q)
          /\ q \in DOMAIN pages' <=> q \in DOMAIN pages \/ new \/ c.ovfl = q
          /\ new \/ c.ovfl = q => q \notin DOMAIN pages
          /\ ~(new /\ c.ovfl = q)
      BY <1>a, <1>b, <1>c, <1>1, CellChained, SMTT(60)
    <2> HIDE DEF new, c, bytes
    <2>3. /\ InCells(todo', FALSE, q) <=> InCells(todo, FALSE, q) \/ c.ovfl = q
          /\ CellsOnce(todo, FALSE, q) /\ ~(InCells(todo, FALSE, q) /\ c.ovfl = q) => CellsOnce(todo', FALSE, q)
      <3>1. todo \in Seq(CellSet) /\ todo' = Append(todo, c)
        BY <1>a, <1>b
      <3> QED
        BY <1>f, <3>1, LeafCellAdded
    <2> QED
      BY <1>a, <1>b, <1>g, <2>1, <2>2, <2>3 DEF Named, Alone
  <1>2. UInv'
    BY <1>1 DEF UInv
  <1> HIDE DEF c, bytes
  <1>3. RowsInv'
    BY <1>a, <1>b, <1>h, <1>i, <1>j DEF RowsInv
  <1>4. SInv'
    BY <1>a, <1>b, <1>h, <1>i, <1>3 DEF SInv
  <1> QED
    BY <1>2, <1>4

\* A leaf flushed takes its cells into the file, and its own number becomes
\* the page of the newest child.
LEMMA TableRowUsed ==
    ASSUME IInv, SInv, UInv, NEW p \in Payloads, TableRow(p)
    PROVE  SInv' /\ UInv'
  <1> DEFINE c == Cell(Key, p, TableMax, 2, pb)
             bytes == Spilled(p, TableMax)
             file == Written(pages, Overflow(pb, bytes))
             n == pb + Chain(bytes)
             sep == [Prev EXCEPT !.key = PrevRowid]
  <1>a. /\ pc = "rows" /\ pc' = "rows" /\ tree' = tree /\ tree \in 1 .. Len(Kinds)
        /\ rows \in [1 .. Len(Kinds) -> Nat] /\ rows[tree] \in Nat
        /\ pb \in Nat /\ pb > 1 /\ page \in Seq(CellSet) /\ children \in Seq(RefSet)
        /\ ~IsIndex /\ IsIndex' = IsIndex /\ InTree /\ InTree' /\ i = 1
        /\ Below(pages, pb) /\ Good(pages) /\ RowsInv /\ Filled(pages, pb)
    BY DEF TableRow, IInv, TInv, FInv, InTree, IsIndex, SInv, RowsInv
  <1>b. /\ rows' = [rows EXCEPT ![tree] = @ + 1]
        /\ UNCHANGED <<next, todo, parents, i, roots>>
        /\ \/ /\ page # <<>>
              /\ Flush(file, n, page, room, sep)
              /\ page' = <<c>>
           \/ /\ pages' = file /\ pb' = n /\ children' = children
              /\ page' = Append(page, c)
    BY DEF TableRow
  <1>c. p \in Nat /\ TableMax \in Nat /\ MinLocal <= TableMax
    BY Geometry
  <1>d. bytes \in Nat /\ Chain(bytes) \in Nat
    BY <1>c, LocalBounds, ChainNat
  <1>e. Key \in Nat
    BY <1>a, SMTT(60) DEF Key
  <1>f. c \in CellSet
    BY <1>a, <1>e, TableCell
  <1>g. Seps' = 0 /\ Seps = 0 /\ ParentSeps' = ParentSeps
    BY <1>a, <1>b DEF Seps, ParentSeps
  <1>h. /\ rows'[tree] > 0 /\ rows'[tree] # 0
        /\ \A t \in (tree + 1) .. Len(Kinds) : rows'[t] = rows[t]
    BY <1>a, <1>b, SMTT(60)
  <1>i. /\ Filled(file, n)
        /\ Kinded(file)
    BY <1>a, <1>d, ChainShape DEF SInv
  <1>j. Below(file, n) /\ n \in Nat /\ n > 1
    <2>1. Below(file, n)
      BY <1>a, <1>d, OverflowWritten
    <2> QED
      BY <1>a, <1>d, <2>1, SMTT(60)
  <1>k. ASSUME NEW q \in Nat, q > 1
        PROVE  \E new \in BOOLEAN :
                 /\ InFile(file, q) <=> InFile(pages, q) \/ new
                 /\ FileOnce(pages, q) /\ ~(InFile(pages, q) /\ new) => FileOnce(file, q)
                 /\ q \in DOMAIN file <=> q \in DOMAIN pages \/ new \/ c.ovfl = q
                 /\ new \/ c.ovfl = q => q \notin DOMAIN pages
                 /\ ~(new /\ c.ovfl = q)
    <2> DEFINE new == q \in (pb + 1) .. (pb + Chain(bytes) - 1)
    <2>1. /\ InFile(file, q) <=> InFile(pages, q) \/ new
          /\ FileOnce(pages, q) /\ ~(InFile(pages, q) /\ new) => FileOnce(file, q)
          /\ q \in DOMAIN file <=> q \in DOMAIN pages \/ new \/ c.ovfl = q
          /\ new \/ c.ovfl = q => q \notin DOMAIN pages
          /\ ~(new /\ c.ovfl = q)
      BY <1>a, <1>c, <1>k, CellChained
    <2>2. new \in BOOLEAN
      BY SMTT(60)
    <2> HIDE DEF new, c, file
    <2> QED
      BY <2>1, <2>2
  <1> HIDE DEF c, bytes, file, n
  <1>1. CASE page # <<>> /\ Flush(file, n, page, room, sep) /\ page' = <<c>>
    <2> DEFINE m == Skip(n)
               r == Ref(m, sep)
               more == Leaf(m, page, room)
    <2>1. pages' = Written(file, more) /\ pb' = m + 1 /\ children' = Append(children, r)
      BY <1>1 DEF Flush
    <2>2. DOMAIN more = {m} /\ more[m].kind = "leaf"
      BY DEF Leaf
    <2>3. /\ m \in Nat /\ m > 1 /\ m \notin DOMAIN file
          /\ DOMAIN pages' = DOMAIN file \cup {m} /\ Filled(pages', pb')
          /\ Kinded(pages')
      BY <1>i, <1>j, <2>1, <2>2, PageShape
    <2>4. r \in RefSet /\ r.page = m
      <3>1. sep \in CellSet
        BY <1>1, <1>a, PrevTyped, KeyedTyped DEF PrevRowid
      <3> HIDE DEF sep, m
      <3> QED
        BY <2>3, <3>1, RefTyped DEF Ref
    <2> HIDE DEF m, r, more, sep
    <2>5. ASSUME NEW q \in Nat, q > 1 PROVE Named(q)'
      <3>1. Named(q)
        BY <2>5 DEF UInv
      <3>2. PICK new \in BOOLEAN :
                 /\ InFile(file, q) <=> InFile(pages, q) \/ new
                 /\ FileOnce(pages, q) /\ ~(InFile(pages, q) /\ new) => FileOnce(file, q)
                 /\ q \in DOMAIN file <=> q \in DOMAIN pages \/ new \/ c.ovfl = q
                 /\ new \/ c.ovfl = q => q \notin DOMAIN pages
                 /\ ~(new /\ c.ovfl = q)
        BY <1>k, <2>5
      <3>3. /\ InFile(pages', q) <=> InFile(file, q) \/ InCells(page, FALSE, q)
            /\ /\ FileOnce(file, q) /\ CellsOnce(page, FALSE, q)
               /\ ~(InFile(file, q) /\ InCells(page, FALSE, q))
               => FileOnce(pages', q)
        BY <2>1, <2>3, LeafAdded DEF more
      <3>4. InCells(page', FALSE, q) <=> c.ovfl = q
        <4>1. page' = Append(<<>>, c) /\ <<>> \in Seq(CellSet)
          BY <1>1, SMTT(60)
        <4>2. InCells(page', FALSE, q) <=> InCells(<<>>, FALSE, q) \/ c.ovfl = q
          BY <1>f, <4>1, LeafCellAdded
        <4> QED
          BY <4>2, NoCells
      <3>5. CellsOnce(page', FALSE, q)
        <4>1. page' = Append(<<>>, c) /\ <<>> \in Seq(CellSet)
          BY <1>1, SMTT(60)
        <4>2. CellsOnce(<<>>, FALSE, q) /\ ~(InCells(<<>>, FALSE, q) /\ c.ovfl = q) => CellsOnce(page', FALSE, q)
          BY <1>f, <4>1, LeafCellAdded
        <4> QED
          BY <4>2, NoCells
      <3>6. /\ InRefs(children', 1, 0, q) <=> InRefs(children, 1, 0, q) \/ m = q
            /\ RefsOnce(children, 1, 0, q) /\ ~(InRefs(children, 1, 0, q) /\ m = q) => RefsOnce(children', 1, 0, q)
        <4>1. 1 \in Nat /\ 1 > 0 /\ 1 <= Len(children) + 1 /\ 0 \in Nat /\ 0 <= Len(children)
          BY <1>a, SMTT(60)
        <4> QED
          BY <1>a, <2>1, <2>4, <4>1, RefAdded
      <3>7. q \in DOMAIN pages' <=> q \in DOMAIN file \/ m = q
        BY <2>3
      <3>8. m = q => q \notin DOMAIN file
        BY <2>3
      <3>9. (pc = "interior") = FALSE /\ (pc' = "interior") = FALSE /\ i' = 1 /\ i = 1
        BY <1>a, <1>b
      <3> QED
        BY <1>b, <1>g, <3>1, <3>2, <3>3, <3>4, <3>5, <3>6, <3>7, <3>8, <3>9 DEF Named, Alone
    <2>6. UInv'
      BY <2>5 DEF UInv
    <2>7. page' # <<>>
      BY <1>1, SMTT(60)
    <2>8. RowsInv'
      BY <1>a, <1>b, <1>h, <2>3, <2>7 DEF RowsInv
    <2>9. SInv'
      BY <1>a, <1>b, <1>h, <2>3, <2>8 DEF SInv
    <2> QED
      BY <2>6, <2>9
  <1>2. CASE pages' = file /\ pb' = n /\ children' = children /\ page' = Append(page, c)
    <2>5. ASSUME NEW q \in Nat, q > 1 PROVE Named(q)'
      <3>1. Named(q)
        BY <2>5 DEF UInv
      <3>2. PICK new \in BOOLEAN :
                 /\ InFile(file, q) <=> InFile(pages, q) \/ new
                 /\ FileOnce(pages, q) /\ ~(InFile(pages, q) /\ new) => FileOnce(file, q)
                 /\ q \in DOMAIN file <=> q \in DOMAIN pages \/ new \/ c.ovfl = q
                 /\ new \/ c.ovfl = q => q \notin DOMAIN pages
                 /\ ~(new /\ c.ovfl = q)
        BY <1>k, <2>5
      <3>3. /\ InCells(page', FALSE, q) <=> InCells(page, FALSE, q) \/ c.ovfl = q
            /\ CellsOnce(page, FALSE, q) /\ ~(InCells(page, FALSE, q) /\ c.ovfl = q) => CellsOnce(page', FALSE, q)
        BY <1>a, <1>f, <1>2, LeafCellAdded
      <3>4. (pc = "interior") = FALSE /\ (pc' = "interior") = FALSE /\ i' = i
        BY <1>a, <1>b
      <3> QED
        BY <1>b, <1>g, <1>2, <3>1, <3>2, <3>3, <3>4 DEF Named, Alone
    <2>6. UInv'
      BY <2>5 DEF UInv
    <2>7. page' # <<>>
      BY <1>2, <1>a, <1>f, Appended
    <2>8. RowsInv'
      BY <1>2, <1>a, <1>b, <1>h, <1>i, <2>7 DEF RowsInv
    <2>9. SInv'
      BY <1>2, <1>a, <1>b, <1>h, <1>i, <2>8 DEF SInv
    <2> QED
      BY <2>6, <2>9
  <1> QED
    BY <1>b, <1>1, <1>2

\* What pb_promote_and_flush takes apart.
LEMMA KeptAndLast ==
    ASSUME NEW S, NEW s \in Seq(S), s # <<>>
    PROVE  /\ Kept(s) \in Seq(S) /\ Len(Kept(s)) = Len(s) - 1
           /\ s[Len(s)] \in S
           /\ s = Append(Kept(s), s[Len(s)])
  <1> DEFINE k == Kept(s)
             m == Len(s)
             g == Append(k, s[m])
  <1>1. m \in Nat /\ m > 0 /\ DOMAIN s = 1 .. m /\ s[m] \in S
    BY SMTT(60)
  <1>2. /\ k \in Seq(S) /\ Len(k) = m - 1
        /\ \A j \in 1 .. (m - 1) : k[j] = s[j]
    BY <1>1, SMTT(60) DEF Kept
  <1> HIDE DEF k, m
  <1>3. DOMAIN g = 1 .. m /\ g[m] = s[m] /\ \A j \in 1 .. (m - 1) : g[j] = s[j]
    BY <1>1, <1>2, SMTT(60)
  <1>4. \A j \in 1 .. m : j = m \/ j \in 1 .. (m - 1)
    BY <1>1, SMTT(60)
  <1>5. g \in Seq(S)
    BY <1>1, <1>2, Appended
  <1>6. s = g
    BY <1>1, <1>3, <1>4, <1>5, SMTT(60)
  <1> QED
    BY <1>1, <1>2, <1>6 DEF k, m

\* A leaf that is full has two cells at least, and a new one takes any cell.
LEMMA IndexCellCases ==
    ASSUME IInv, SInv, IndexCell
    PROVE  LET c == Head(todo)
           IN  \/ /\ Len(page) > 1 /\ page' = <<c>>
                  /\ room' = EmptyLeafRoom - c.len - CellPtr
                  /\ Flush(pages, pb, Kept(page), room + Prev.len + CellPtr, Prev)
               \/ /\ page' = Append(page, c)
                  /\ room' = room - c.len - CellPtr
                  /\ UNCHANGED <<pages, pb, children>>
  <1> DEFINE c == Head(todo)
             full == ~Fits(c.len, room) /\ page # <<>>
             left == IF full THEN EmptyLeafRoom ELSE room
  <1>a. /\ pc = "index" /\ IndexInv
        /\ room \in Int /\ page \in Seq(CellSet) /\ todo \in Seq(CellSet) /\ todo # <<>>
        /\ page = <<>> => room = EmptyLeafRoom
        /\ Bounded(todo) /\ Bounded(page)
    BY DEF IndexCell, IInv, TInv, RInv, InTree, SInv, IndexInv
  <1>b. /\ full => Flush(pages, pb, Kept(page), room + Prev.len + CellPtr, Prev)
        /\ ~full => UNCHANGED <<pages, pb, children>>
        /\ Fits(c.len, left) => /\ page' = IF full THEN <<c>> ELSE Append(page, c)
                                /\ room' = left - c.len - CellPtr
    BY DEF IndexCell
  <1>c. c \in CellSet /\ c.len \in Nat /\ c.len <= MaxCell
    <2>1. Len(todo) \in Nat /\ Len(todo) > 0 /\ c = todo[1]
      BY <1>a, SMTT(60)
    <2>2. 1 \in 1 .. Len(todo)
      BY <2>1, SMTT(60)
    <2>3. c \in CellSet
      BY <1>a, <2>1, <2>2, SMTT(60)
    <2>4. c.len \in Nat
      BY <2>3 DEF CellSet
    <2>5. c.len <= MaxCell
      BY <1>a, <2>1, <2>2 DEF Bounded
    <2> QED
      BY <2>3, <2>4, <2>5
  <1>d. CellPtr \in Nat /\ EmptyLeafRoom \in Nat /\ MaxCell \in Nat /\ 2 * (MaxCell + CellPtr) <= EmptyLeafRoom
    BY Geometry, Rooms
  <1>e. Fits(c.len, EmptyLeafRoom)
    BY <1>c, <1>d, SMTT(60) DEF Fits
  <1> HIDE DEF c
  <1>1. Fits(c.len, left)
    BY <1>a, <1>e
  <1>2. ASSUME full PROVE Len(page) > 1
    <2>1. Len(page) \in Nat /\ Len(page) # 0
      BY <1>2, <1>a, SMTT(60)
    <2>2. ASSUME Len(page) = 1 PROVE FALSE
      <3>1. room = EmptyLeafRoom - page[1].len - CellPtr
        BY <1>a, <2>2 DEF IndexInv
      <3>2. page[1] \in CellSet /\ 1 \in 1 .. Len(page)
        <4>1. page \in Seq(CellSet)
          BY <1>a
        <4> QED
          BY <2>2, <4>1, SMTT(60)
      <3>3. page[1].len \in Nat /\ page[1].len <= MaxCell
        BY <1>a, <3>2 DEF CellSet, Bounded
      <3> DEFINE l == page[1].len
                 d == c.len
      <3>4. /\ l \in Nat /\ l <= MaxCell /\ d \in Nat /\ d <= MaxCell
            /\ room = EmptyLeafRoom - l - CellPtr
        BY <1>c, <3>1, <3>3
      <3> HIDE DEF l, d
      <3>5. d <= room - CellPtr
        BY <1>d, <3>4, SMTT(60)
      <3> QED
        BY <1>2, <3>5 DEF Fits, d
    <2> QED
      BY <2>1, <2>2, SMTT(60)
  <1>3. CASE full
    BY <1>b, <1>1, <1>2, <1>3 DEF c
  <1>4. CASE ~full
    BY <1>b, <1>1, <1>4 DEF c
  <1> QED
    BY <1>3, <1>4

\* The first spilled cell goes to the leaf; of a full leaf the last cell goes
\* up as a separator, the others into the file.
LEMMA IndexCellUsed ==
    ASSUME IInv, SInv, UInv, IndexCell
    PROVE  SInv' /\ UInv'
  <1> DEFINE c == Head(todo)
  <1>a. /\ pc = "index" /\ pc' = "index" /\ tree' = tree /\ InTree /\ InTree'
        /\ pb \in Nat /\ pb > 1 /\ page \in Seq(CellSet) /\ children \in Seq(RefSet)
        /\ todo \in Seq(CellSet) /\ todo # <<>>
        /\ IsIndex /\ IsIndex' = IsIndex /\ i = 1
        /\ Below(pages, pb) /\ IndexInv /\ Filled(pages, pb)
    BY DEF IndexCell, IInv, TInv, FInv, InTree, IsIndex, SInv, IndexInv
  <1>b. todo' = Tail(todo) /\ UNCHANGED <<next, rows, parents, i, roots>>
    BY DEF IndexCell
  <1>c. c \in CellSet
    BY <1>a, SMTT(60)
  <1>d. \/ /\ Len(page) > 1 /\ page' = <<c>>
           /\ room' = EmptyLeafRoom - c.len - CellPtr
           /\ Flush(pages, pb, Kept(page), room + Prev.len + CellPtr, Prev)
        \/ /\ page' = Append(page, c)
           /\ room' = room - c.len - CellPtr
           /\ UNCHANGED <<pages, pb, children>>
    BY IndexCellCases
  <1> HIDE DEF c
  <1>e. Seps = Len(children) /\ Seps' = Len(children') /\ ParentSeps' = ParentSeps
    BY <1>a, <1>b DEF Seps, ParentSeps
  <1>f. (pc = "interior") = FALSE /\ (pc' = "interior") = FALSE
    BY <1>a
  <1>g. ASSUME NEW q
        PROVE  /\ InCells(todo, FALSE, q) <=> InCells(todo', FALSE, q) \/ c.ovfl = q
               /\ CellsOnce(todo, FALSE, q) => CellsOnce(todo', FALSE, q) /\ ~(InCells(todo', FALSE, q) /\ c.ovfl = q)
    BY <1>a, <1>b, CellTaken DEF c
  <1>1. CASE /\ Len(page) > 1 /\ page' = <<c>>
             /\ room' = EmptyLeafRoom - c.len - CellPtr
             /\ Flush(pages, pb, Kept(page), room + Prev.len + CellPtr, Prev)
    <2> DEFINE m == Skip(pb)
               r == Ref(m, Prev)
               more == Leaf(m, Kept(page), room + Prev.len + CellPtr)
    <2>1. page # <<>> /\ Len(page) \in Nat /\ Len(page) - 1 > 0
      <3>1. page \in Seq(CellSet) /\ Len(page) > 1
        BY <1>a, <1>1
      <3> QED
        BY <3>1, SMTT(60)
    <2>2. /\ Kept(page) \in Seq(CellSet) /\ Len(Kept(page)) = Len(page) - 1
          /\ Prev \in CellSet /\ page = Append(Kept(page), Prev)
      BY <1>a, <2>1, KeptAndLast DEF Prev
    <2>3. Kept(page) # <<>>
      BY <2>1, <2>2, SMTT(60)
    <2>4. pages' = Written(pages, more) /\ pb' = m + 1 /\ children' = Append(children, r)
      BY <1>1, <2>3 DEF Flush
    <2>5. DOMAIN more = {m} /\ more[m].kind = "leaf"
      BY DEF Leaf
    <2>6. /\ m \in Nat /\ m > 1 /\ m \notin DOMAIN pages
          /\ DOMAIN pages' = DOMAIN pages \cup {m} /\ Filled(pages', pb')
          /\ Kinded(pages')
      <3>1. Kinded(pages)
        BY DEF SInv
      <3> HIDE DEF more
      <3> QED
        BY <1>a, <2>4, <2>5, <3>1, PageShape
    <2>7. r \in RefSet /\ r.page = m /\ r.ovfl = Prev.ovfl
      <3> HIDE DEF m
      <3> QED
        BY <2>2, <2>6, RefTyped DEF Ref
    <2> HIDE DEF m, r, more
    <2>8. ASSUME NEW q \in Nat, q > 1 PROVE Named(q)'
      <3>1. Named(q)
        BY <2>8 DEF UInv
      <3>2. /\ InFile(pages', q) <=> InFile(pages, q) \/ InCells(Kept(page), FALSE, q)
            /\ /\ FileOnce(pages, q) /\ CellsOnce(Kept(page), FALSE, q)
               /\ ~(InFile(pages, q) /\ InCells(Kept(page), FALSE, q))
               => FileOnce(pages', q)
        BY <2>4, <2>6, LeafAdded DEF more
      <3>3. /\ InCells(page, FALSE, q) <=> InCells(Kept(page), FALSE, q) \/ Prev.ovfl = q
            /\ CellsOnce(page, FALSE, q) => /\ CellsOnce(Kept(page), FALSE, q)
                                            /\ ~(InCells(Kept(page), FALSE, q) /\ Prev.ovfl = q)
        <4> DEFINE g == Append(Kept(page), Prev)
        <4>1. /\ InCells(g, FALSE, q) <=> InCells(Kept(page), FALSE, q) \/ Prev.ovfl = q
              /\ CellsOnce(g, FALSE, q) => /\ CellsOnce(Kept(page), FALSE, q)
                                           /\ ~(InCells(Kept(page), FALSE, q) /\ Prev.ovfl = q)
          BY <2>2, LeafCellAdded
        <4> HIDE DEF g
        <4>2. page = g
          BY <2>2 DEF g
        <4> QED
          BY <4>1, <4>2
      <3>4. /\ InCells(page', FALSE, q) <=> c.ovfl = q
            /\ CellsOnce(page', FALSE, q)
        <4>1. page' = Append(<<>>, c) /\ <<>> \in Seq(CellSet)
          BY <1>1, SMTT(60)
        <4>2. /\ InCells(page', FALSE, q) <=> InCells(<<>>, FALSE, q) \/ c.ovfl = q
              /\ CellsOnce(<<>>, FALSE, q) /\ ~(InCells(<<>>, FALSE, q) /\ c.ovfl = q) => CellsOnce(page', FALSE, q)
          BY <1>c, <4>1, LeafCellAdded
        <4> QED
          BY <4>2, NoCells
      <3>5. /\ InCells(todo, FALSE, q) <=> InCells(todo', FALSE, q) \/ c.ovfl = q
            /\ CellsOnce(todo, FALSE, q) => CellsOnce(todo', FALSE, q) /\ ~(InCells(todo', FALSE, q) /\ c.ovfl = q)
        BY <1>g
      <3>6. m = q => q \notin DOMAIN pages
        BY <2>6
      <3>7. q \in DOMAIN pages' <=> q \in DOMAIN pages \/ m = q
        BY <2>6
      <3>8. Prev.ovfl = q => q \in DOMAIN pages
        BY <1>f, <3>1, <3>3 DEF Named, Alone
      <3>9. /\ InRefs(children', 1, Seps', q) <=> InRefs(children, 1, Seps, q) \/ m = q \/ Prev.ovfl = q
            /\ RefsOnce(children, 1, Seps, q) /\ ~(InRefs(children, 1, Seps, q) /\ (m = q \/ Prev.ovfl = q)) =>
                  RefsOnce(children', 1, Seps', q)
        <4> DEFINE l == Len(children)
        <4>1. 1 \in Nat /\ 1 > 0 /\ 1 <= l + 1 /\ l \in Nat /\ l <= l /\ l + 1 # l
          BY <1>a, SMTT(60)
        <4>2. Seps = l /\ Seps' = l + 1
          BY <1>a, <1>e, <2>4, <2>7, Appended
        <4>3. r.page # r.ovfl \/ r.page # q
          BY <2>7, <3>6, <3>8
        <4>4. /\ InRefs(children', 1, l + 1, q) <=> InRefs(children, 1, l, q) \/ (r.page = q \/ (l + 1 # l /\ r.ovfl = q))
              /\ RefsOnce(children, 1, l, q) /\ ~(InRefs(children, 1, l, q) /\ (r.page = q \/ (l + 1 # l /\ r.ovfl = q))) =>
                    RefsOnce(children', 1, l + 1, q)
          BY <1>a, <2>4, <2>7, <4>1, <4>3, RefAdded
        <4> HIDE DEF l
        <4> QED
          BY <2>7, <4>1, <4>2, <4>4
      <3>10. i' = 1 /\ i = 1
        BY <1>a, <1>b
      <3> QED
        BY <1>b, <1>e, <1>f, <3>1, <3>2, <3>3, <3>4, <3>5, <3>6, <3>7, <3>8, <3>9, <3>10 DEF Named, Alone
    <2>9. UInv'
      BY <2>8 DEF UInv
    <2>10. page' # <<>> /\ page'[1] = c
      BY <1>1, SMTT(60)
    <2>11. IndexInv'
      BY <1>1, <1>a, <1>b, <2>6, <2>10 DEF IndexInv
    <2>12. SInv'
      BY <1>a, <1>b, <2>6, <2>11 DEF SInv
    <2> QED
      BY <2>9, <2>12
  <1>2. CASE /\ page' = Append(page, c)
             /\ room' = room - c.len - CellPtr
             /\ UNCHANGED <<pages, pb, children>>
    <2>1. ASSUME NEW q \in Nat, q > 1 PROVE Named(q)'
      <3>1. Named(q)
        BY <2>1 DEF UInv
      <3>2. /\ InCells(page', FALSE, q) <=> InCells(page, FALSE, q) \/ c.ovfl = q
            /\ CellsOnce(page, FALSE, q) /\ ~(InCells(page, FALSE, q) /\ c.ovfl = q) => CellsOnce(page', FALSE, q)
        BY <1>a, <1>c, <1>2, LeafCellAdded
      <3>3. /\ InCells(todo, FALSE, q) <=> InCells(todo', FALSE, q) \/ c.ovfl = q
            /\ CellsOnce(todo, FALSE, q) => CellsOnce(todo', FALSE, q) /\ ~(InCells(todo', FALSE, q) /\ c.ovfl = q)
        BY <1>g
      <3>4. Seps' = Seps
        BY <1>e, <1>2
      <3> QED
        BY <1>b, <1>e, <1>f, <1>2, <3>1, <3>2, <3>3, <3>4 DEF Named, Alone
    <2>2. UInv'
      BY <2>1 DEF UInv
    <2>3. page' # <<>> /\ (Len(page') = 1 => page = <<>> /\ page'[1] = c)
      <3>1. page \in Seq(CellSet) /\ page' = Append(page, c)
        BY <1>a, <1>2
      <3> QED
        BY <1>c, <3>1, SMTT(60)
    <2>4. page = <<>> => room = EmptyLeafRoom
      BY <1>a DEF IInv, RInv
    <2>5. IndexInv'
      BY <1>2, <1>a, <1>b, <2>3, <2>4 DEF IndexInv
    <2>6. SInv'
      BY <1>2, <1>a, <1>b, <2>5 DEF SInv
    <2> QED
      BY <2>2, <2>6
  <1> QED
    BY <1>d, <1>1, <1>2

\* The separator of the last leaf has no place to go: only its page counts.
LEMMA LastLeafUsed ==
    ASSUME IInv, SInv, UInv, LastLeaf
    PROVE  SInv' /\ UInv'
  <1> DEFINE sep == [Prev EXCEPT !.key = rows[tree]]
             m == Skip(pb)
             r == Ref(m, sep)
             more == Leaf(m, page, room)
  <1>a. /\ pc \in {"rows", "index"} /\ pc' = "interior" /\ tree' = tree /\ InTree /\ InTree'
        /\ rows[tree] \in Nat
        /\ pb \in Nat /\ pb > 1 /\ page \in Seq(CellSet) /\ children \in Seq(RefSet)
        /\ IsIndex' = IsIndex /\ i = 1
        /\ Below(pages, pb)
    BY DEF LastLeaf, IInv, TInv, FInv, InTree, IsIndex
  <1>b. /\ Flush(pages, pb, page, room, sep)
        /\ page' = <<>> /\ UNCHANGED <<next, rows, todo, parents, i, roots>>
    BY DEF LastLeaf
  <1>c. /\ page # <<>> /\ todo = <<>> /\ parents = <<>> /\ Filled(pages, pb)
        /\ pc = "index" => IsIndex
    <2>1. CASE pc = "rows" /\ ~IsIndex /\ rows[tree] > 0
      BY <2>1 DEF SInv, RowsInv
    <2>2. CASE pc = "index" /\ todo = <<>>
      BY <2>2 DEF SInv, IndexInv
    <2> QED
      BY <2>1, <2>2 DEF LastLeaf
  <1>d. pc = "rows" => ~IsIndex
    BY DEF LastLeaf
  <1>e. pages' = Written(pages, more) /\ pb' = m + 1 /\ children' = Append(children, r)
    BY <1>b, <1>c DEF Flush
  <1>f. DOMAIN more = {m} /\ more[m].kind = "leaf"
    BY DEF Leaf
  <1>g. sep \in CellSet
    BY <1>a, <1>c, PrevTyped, KeyedTyped
  <1> HIDE DEF sep, more
  <1>h. /\ m \in Nat /\ m > 1 /\ m \notin DOMAIN pages
        /\ DOMAIN pages' = DOMAIN pages \cup {m} /\ Filled(pages', pb')
        /\ Kinded(pages')
    <2>1. Kinded(pages)
      BY DEF SInv
    <2>2. pb \in Nat /\ pb > 1 /\ Below(pages, pb) /\ Filled(pages, pb)
      BY <1>a, <1>c
    <2>3. DOMAIN more = {Skip(pb)} /\ more[Skip(pb)].kind \in {"leaf", "interior"}
      BY <1>f
    <2> QED
      BY <1>e, <2>1, <2>2, <2>3, PageShape
  <1> HIDE DEF m
  <1>i. r \in RefSet /\ r.page = m
    BY <1>g, <1>h, RefTyped DEF Ref
  <1> HIDE DEF r
  <1>j. Len(children') = Len(children) + 1 /\ Len(children) \in Nat
    BY <1>a, <1>e, <1>i, SMTT(60)
  <1>k. Seps' = Seps /\ Seps \in Nat /\ Seps <= Len(children)
    <2>1. IsIndex => Seps = Len(children) /\ Seps' = Len(children') - 1
      BY <1>a, <1>d DEF Seps
    <2>2. ~IsIndex => Seps = 0 /\ Seps' = 0
      BY <1>a DEF Seps
    <2> QED
      BY <1>j, <2>1, <2>2, SMTT(60)
  <1>l. ParentSeps' = ParentSeps
    BY <1>a, <1>b DEF ParentSeps
  <1>1. ASSUME NEW q \in Nat, q > 1 PROVE Named(q)'
    <2>1. Named(q)
      BY <1>1 DEF UInv
    <2>2. /\ InFile(pages', q) <=> InFile(pages, q) \/ InCells(page, FALSE, q)
          /\ /\ FileOnce(pages, q) /\ CellsOnce(page, FALSE, q)
             /\ ~(InFile(pages, q) /\ InCells(page, FALSE, q))
             => FileOnce(pages', q)
      BY <1>e, <1>h, LeafAdded DEF more
    <2>3. ~InCells(page', TRUE, q) /\ CellsOnce(page', TRUE, q)
      BY <1>b, NoCells
    <2>4. /\ InRefs(children', 1, Seps, q) <=> InRefs(children, 1, Seps, q) \/ m = q
          /\ RefsOnce(children, 1, Seps, q) /\ ~(InRefs(children, 1, Seps, q) /\ m = q) =>
                RefsOnce(children', 1, Seps, q)
      <3>1. 1 \in Nat /\ 1 > 0 /\ 1 <= Len(children) + 1
        BY <1>j, SMTT(60)
      <3> QED
        BY <1>a, <1>e, <1>i, <1>k, <3>1, RefAdded
    <2>5. (q \in DOMAIN pages' <=> q \in DOMAIN pages \/ m = q) /\ (m = q => q \notin DOMAIN pages)
      BY <1>h
    <2>6. (pc = "interior") = FALSE /\ (pc' = "interior") = TRUE /\ i = 1 /\ i' = 1
      BY <1>a, <1>b
    <2> QED
      BY <1>b, <1>k, <1>l, <2>1, <2>2, <2>3, <2>4, <2>5, <2>6 DEF Named, Alone
  <1>2. UInv'
    BY <1>1 DEF UInv
  <1>3. Len(children') >= 1
    BY <1>j, SMTT(60)
  <1>4. InteriorInv'
    BY <1>a, <1>b, <1>c, <1>h, <1>3 DEF InteriorInv
  <1>5. SInv'
    BY <1>a, <1>b, <1>h, <1>4 DEF SInv
  <1> QED
    BY <1>2, <1>5

\* A child and its separator go from the level below to the page being built.
LEMMA FillCellUsed ==
    ASSUME IInv, SInv, UInv, FillCell
    PROVE  SInv' /\ UInv'
  <1> DEFINE r == children[i]
             c == InteriorCell(r)
             l == Len(children)
  <1>a. /\ pc = "interior" /\ pc' = "interior" /\ tree' = tree /\ InTree /\ InTree'
        /\ page \in Seq(InteriorCellSet) /\ children \in Seq(RefSet)
        /\ IsIndex' = IsIndex /\ InteriorInv
        /\ i \in Nat /\ i > 0 /\ i < Len(children)
    BY DEF FillCell, Filling, IInv, TInv, InTree, IsIndex, SInv
  <1>b. /\ page' = Append(page, c) /\ i' = i + 1
        /\ UNCHANGED <<pages, next, pb, rows, todo, children, parents, roots>>
    BY DEF FillCell
  <1>c. l \in Nat /\ i \in 1 .. l /\ l # 1 /\ r \in RefSet
    <2>1. children \in Seq(RefSet) /\ i \in Nat /\ i > 0 /\ i < Len(children)
      BY <1>a
    <2> QED
      BY <2>1, SMTT(60)
  <1>d. c \in InteriorCellSet /\ c.left = r.page /\ c.ovfl = IF IsIndex THEN r.ovfl ELSE NoPage
    <2>1. r.page \in Nat /\ r.key \in Nat /\ r.ovfl \in Nat /\ r.len \in Nat
      BY <1>c DEF RefSet
    <2>2. PagePtr \in Nat /\ Varint \in Nat /\ NoPage \in Nat
      BY Geometry, SMTT(60) DEF NoPage
    <2> HIDE DEF r
    <2>3. /\ c.left = r.page /\ c.key = r.key
          /\ c.ovfl = IF IsIndex THEN r.ovfl ELSE NoPage
          /\ c.len = PagePtr + (IF IsIndex THEN r.len ELSE Varint)
          /\ c = [left |-> c.left, key |-> c.key, ovfl |-> c.ovfl, len |-> c.len]
      BY DEF InteriorCell
    <2>4. c.len \in Nat
      BY <2>1, <2>2, <2>3, SMTT(60)
    <2>5. c.ovfl \in Nat
      BY <2>1, <2>2, <2>3
    <2> HIDE DEF c
    <2>6. c \in InteriorCellSet
      BY <2>1, <2>3, <2>4, <2>5 DEF InteriorCellSet
    <2> QED
      BY <2>3, <2>6
  <1>e. Seps' = Seps /\ ParentSeps' = ParentSeps /\ Seps \in Nat /\ (i <= Seps <=> IsIndex)
    <2>1. Seps' = Seps /\ ParentSeps' = ParentSeps
      BY <1>a, <1>b DEF Seps, ParentSeps
    <2>2. (IsIndex => Seps = l - 1) /\ (~IsIndex => Seps = 0)
      BY <1>a DEF Seps
    <2>3. l \in Nat /\ i \in Nat /\ i > 0 /\ i < l
      BY <1>a, <1>c
    <2> HIDE DEF l
    <2>4. CASE IsIndex
      BY <2>1, <2>2, <2>3, <2>4, SMTT(60)
    <2>5. CASE ~IsIndex
      BY <2>1, <2>2, <2>3, <2>5, SMTT(60)
    <2> QED
      BY <2>4, <2>5
  <1> HIDE DEF c
  <1>1. ASSUME NEW q \in Nat, q > 1 PROVE Named(q)'
    <2> DEFINE old == r.page = q \/ (i <= Seps /\ r.ovfl = q)
    <2>1. Named(q)
      BY <1>1 DEF UInv
    <2>2. /\ InRefs(children, i, Seps, q) <=> InRefs(children, i + 1, Seps, q) \/ old
          /\ RefsOnce(children, i, Seps, q) =>
                    /\ RefsOnce(children, i + 1, Seps, q)
                    /\ ~(InRefs(children, i + 1, Seps, q) /\ old)
                    /\ ~(r.page = q /\ i <= Seps /\ r.ovfl = q)
      BY <1>a, <1>c, <1>e, RefPassed
    <2>3. RefsOnce(children, i, Seps, q)
      BY <2>1 DEF Named
    <2>4. c.ovfl = q <=> i <= Seps /\ r.ovfl = q
      <3>1. q # NoPage
        BY <1>1, SMTT(60) DEF NoPage
      <3> QED
        BY <1>d, <1>e, <3>1
    <2> HIDE DEF r
    <2>5. ~(c.left = q /\ c.ovfl = q)
      BY <1>d, <2>2, <2>3, <2>4
    <2>6. /\ InCells(page', TRUE, q) <=> InCells(page, TRUE, q) \/ old
          /\ CellsOnce(page, TRUE, q) /\ ~(InCells(page, TRUE, q) /\ old) => CellsOnce(page', TRUE, q)
      <3>1. c.left # c.ovfl \/ c.left # q
        BY <2>5
      <3> DEFINE new == c.ovfl = q \/ (TRUE /\ c.left = q)
      <3>2. new <=> old
        BY <1>d, <2>4
      <3>3. /\ InCells(page', TRUE, q) <=> InCells(page, TRUE, q) \/ new
            /\ CellsOnce(page, TRUE, q) /\ ~(InCells(page, TRUE, q) /\ new) => CellsOnce(page', TRUE, q)
        BY <1>a, <1>b, <1>d, <3>1, CellAdded
      <3> HIDE DEF new, old
      <3> QED
        BY <3>2, <3>3
    <2> HIDE DEF old
    <2>7. (pc = "interior") = TRUE /\ (pc' = "interior") = TRUE
      BY <1>a
    <2> QED
      BY <1>b, <1>e, <2>1, <2>2, <2>6, <2>7 DEF Named, Alone
  <1>2. UInv'
    BY <1>1 DEF UInv
  <1>3. InteriorInv'
    BY <1>a, <1>b, <1>c DEF InteriorInv
  <1>4. SInv'
    BY <1>a, <1>b, <1>3 DEF SInv
  <1> QED
    BY <1>2, <1>4

\* The cells of the page and its right child go into the file, the child's
\* separator and the page's own number one level up.
LEMMA ClosePageUsed ==
    ASSUME IInv, SInv, UInv, ClosePage
    PROVE  SInv' /\ UInv'
  <1> DEFINE n == Skip(pb)
             r == children[i]
             up == Parent(n)
             l == Len(children)
             more == Interior(n, page, room, r.page)
  <1>a. /\ pc = "interior" /\ pc' = "interior" /\ tree' = tree /\ InTree /\ InTree'
        /\ pb \in Nat /\ pb > 1
        /\ children \in Seq(RefSet) /\ parents \in Seq(RefSet)
        /\ IsIndex' = IsIndex /\ InteriorInv
        /\ Below(pages, pb) /\ Filled(pages, pb)
        /\ i \in Nat /\ i > 0 /\ i <= Len(children) /\ Len(children) > 1
    BY DEF ClosePage, IInv, TInv, FInv, InTree, IsIndex, SInv, InteriorInv
  <1>b. /\ pages' = Written(pages, more)
        /\ pb' = n + 1 /\ page' = <<>>
        /\ \/ i = l /\ children' = Append(parents, up) /\ parents' = <<>> /\ i' = 1
           \/ i # l /\ parents' = Append(parents, up) /\ i' = i + 1 /\ children' = children
        /\ UNCHANGED <<next, rows, todo, roots>>
    BY DEF ClosePage, AtLast, NextChild
  <1>c. l \in Nat /\ i \in 1 .. l /\ r \in RefSet /\ Len(parents) \in Nat
    <2>1. children \in Seq(RefSet) /\ parents \in Seq(RefSet) /\ i \in Nat /\ i > 0 /\ i <= Len(children)
      BY <1>a
    <2> QED
      BY <2>1, SMTT(60)
  <1>d. DOMAIN more = {n} /\ more[n].kind = "interior"
    BY DEF Interior
  <1> HIDE DEF more
  <1>e. /\ n \in Nat /\ n > 1 /\ n \notin DOMAIN pages
        /\ DOMAIN pages' = DOMAIN pages \cup {n} /\ Filled(pages', pb')
        /\ Kinded(pages')
    <2>1. Kinded(pages)
      BY DEF SInv
    <2>2. pb \in Nat /\ pb > 1 /\ Below(pages, pb) /\ Filled(pages, pb)
      BY <1>a
    <2>3. DOMAIN more = {Skip(pb)} /\ more[Skip(pb)].kind \in {"leaf", "interior"}
      BY <1>d
    <2>4. pages' = Written(pages, more) /\ pb' = Skip(pb) + 1
      BY <1>b
    <2> QED
      BY <2>1, <2>2, <2>3, <2>4, PageShape
  <1>f. up \in RefSet /\ up.page = n /\ up.ovfl = r.ovfl
    <2>1. up = [r EXCEPT !.page = n]
      BY DEF Parent
    <2> HIDE DEF n, r, up
    <2> QED
      BY <1>c, <1>e, <2>1 DEF RefSet
  <1>g. /\ IsIndex => Seps = l - 1 /\ ParentSeps = Len(parents)
        /\ ~IsIndex => Seps = 0 /\ ParentSeps = 0
        /\ IsIndex => Seps' = Len(children') - 1 /\ ParentSeps' = Len(parents')
        /\ ~IsIndex => Seps' = 0 /\ ParentSeps' = 0
    BY <1>a DEF Seps, ParentSeps
  <1>h. Seps \in Nat /\ ParentSeps \in Nat /\ ParentSeps <= Len(parents)
    <2>1. l \in Nat /\ l > 1
      BY <1>a, <1>c
    <2> HIDE DEF l
    <2>2. CASE IsIndex
      BY <1>c, <1>g, <2>1, <2>2, SMTT(60)
    <2>3. CASE ~IsIndex
      BY <1>c, <1>g, <2>3, SMTT(60)
    <2> QED
      BY <2>2, <2>3
  <1> HIDE DEF n, up
  \* What holds of either kind of page
  <1>i. ASSUME NEW q \in Nat, q > 1
        PROVE  LET old == r.page = q \/ (i <= Seps /\ r.ovfl = q)
               IN  /\ Named(q)
                   /\ InFile(pages', q) <=> InFile(pages, q) \/ InCells(page, TRUE, q) \/ r.page = q
                   /\ /\ FileOnce(pages, q) /\ CellsOnce(page, TRUE, q)
                      /\ ~(InFile(pages, q) /\ (InCells(page, TRUE, q) \/ r.page = q))
                      /\ ~(InCells(page, TRUE, q) /\ r.page = q)
                      => FileOnce(pages', q)
                   /\ InRefs(children, i, Seps, q) <=> InRefs(children, i + 1, Seps, q) \/ old
                   /\ RefsOnce(children, i + 1, Seps, q)
                   /\ ~(InRefs(children, i + 1, Seps, q) /\ old)
                   /\ ~(r.page = q /\ i <= Seps /\ r.ovfl = q)
                   /\ q \in DOMAIN pages' <=> q \in DOMAIN pages \/ n = q
                   /\ n = q => q \notin DOMAIN pages
                   /\ ~InCells(page', TRUE, q) /\ CellsOnce(page', TRUE, q)
    <2>1. Named(q)
      BY <1>i DEF UInv
    <2>2. /\ InFile(pages', q) <=> InFile(pages, q) \/ InCells(page, TRUE, q) \/ r.page = q
          /\ /\ FileOnce(pages, q) /\ CellsOnce(page, TRUE, q)
             /\ ~(InFile(pages, q) /\ (InCells(page, TRUE, q) \/ r.page = q))
             /\ ~(InCells(page, TRUE, q) /\ r.page = q)
             => FileOnce(pages', q)
      <3>1. pages' = Written(pages, Interior(n, page, room, r.page)) /\ n \notin DOMAIN pages
        BY <1>b, <1>e DEF more
      <3> DEFINE right == r.page
      <3>2. pages' = Written(pages, Interior(n, page, room, right))
        BY <3>1
      <3> HIDE DEF right
      <3> DEFINE g == Written(pages, Interior(n, page, room, right))
      <3>3. n \notin DOMAIN pages
        BY <3>1
      <3>4. /\ InFile(g, q) <=> InFile(pages, q) \/ InCells(page, TRUE, q) \/ right = q
            /\ /\ FileOnce(pages, q) /\ CellsOnce(page, TRUE, q)
               /\ ~(InFile(pages, q) /\ (InCells(page, TRUE, q) \/ right = q))
               /\ ~(InCells(page, TRUE, q) /\ right = q)
               => FileOnce(g, q)
        BY <3>3, InteriorAdded
      <3>5. pages' = g
        BY <3>2
      <3> HIDE DEF g
      <3> QED
        BY <3>4, <3>5 DEF right
    <2>3. RefsOnce(children, i, Seps, q)
      BY <2>1 DEF Named
    <2> DEFINE old == r.page = q \/ (i <= Seps /\ r.ovfl = q)
    <2>4. /\ InRefs(children, i, Seps, q) <=> InRefs(children, i + 1, Seps, q) \/ old
          /\ RefsOnce(children, i, Seps, q) =>
                    /\ RefsOnce(children, i + 1, Seps, q)
                    /\ ~(InRefs(children, i + 1, Seps, q) /\ old)
                    /\ ~(r.page = q /\ i <= Seps /\ r.ovfl = q)
      BY <1>a, <1>c, <1>h, RefPassed
    <2>5. (q \in DOMAIN pages' <=> q \in DOMAIN pages \/ n = q) /\ (n = q => q \notin DOMAIN pages)
      BY <1>e
    <2>6. ~InCells(page', TRUE, q) /\ CellsOnce(page', TRUE, q)
      BY <1>b, NoCells
    <2> QED
      BY <2>1, <2>2, <2>3, <2>4, <2>5, <2>6
  <1>j. (pc = "interior") = TRUE /\ (pc' = "interior") = TRUE
    BY <1>a
  <1>k. 1 \in Nat /\ 1 > 0 /\ 1 <= Len(parents) + 1
    BY <1>c, SMTT(60)
  <1>1. CASE i = l /\ children' = Append(parents, up) /\ parents' = <<>> /\ i' = 1
    <2>1. Seps' = ParentSeps /\ ~(i <= Seps) /\ i + 1 = Len(children) + 1
      <3>1. Len(children') = Len(parents) + 1
        BY <1>1, <1>a, <1>f, Appended
      <3>2. l \in Nat /\ i = l /\ l > 0 /\ Len(parents) \in Nat
        BY <1>1, <1>a, <1>c
      <3>3. i + 1 = Len(children) + 1
        BY <1>1
      <3> HIDE DEF l
      <3>4. CASE IsIndex
        BY <1>g, <3>1, <3>2, <3>3, <3>4, SMTT(60)
      <3>5. CASE ~IsIndex
        BY <1>g, <3>2, <3>3, <3>5, SMTT(60)
      <3> QED
        BY <3>4, <3>5
    <2>2. ASSUME NEW q \in Nat, q > 1 PROVE Named(q)'
      <3>1. ~InRefs(children, i + 1, Seps, q)
        BY <1>a, <2>1, RefsOver
      <3>2. /\ InRefs(children', 1, ParentSeps, q) <=> InRefs(parents, 1, ParentSeps, q) \/ n = q
            /\ RefsOnce(parents, 1, ParentSeps, q) /\ ~(InRefs(parents, 1, ParentSeps, q) /\ n = q) =>
                  RefsOnce(children', 1, ParentSeps, q)
        BY <1>1, <1>a, <1>f, <1>h, <1>k, RefAdded
      <3>3. ~InRefs(parents', 1, ParentSeps', q) /\ RefsOnce(parents', 1, ParentSeps', q)
        BY <1>1, <1>k, NoRefs
      <3> HIDE DEF r, l
      <3> QED
        BY <1>1, <1>b, <1>i, <1>j, <2>1, <2>2, <3>1, <3>2, <3>3 DEF Named, Alone
    <2>3. UInv'
      BY <2>2 DEF UInv
    <2>4. Len(children') >= 1
      <3>1. Len(children') = Len(parents) + 1
        BY <1>1, <1>a, <1>f, Appended
      <3> QED
        BY <1>c, <3>1, SMTT(60)
    <2>5. InteriorInv'
      BY <1>1, <1>a, <1>b, <1>e, <2>4 DEF InteriorInv
    <2>6. SInv'
      BY <1>a, <1>b, <1>e, <2>5 DEF SInv
    <2> QED
      BY <2>3, <2>6
  <1>2. CASE i # l /\ parents' = Append(parents, up) /\ i' = i + 1 /\ children' = children
    <2>1. Seps' = Seps /\ (i <= Seps <=> IsIndex)
      <3>1. l \in Nat /\ i \in Nat /\ i > 0 /\ i <= l /\ i # l
        BY <1>2, <1>a, <1>c
      <3>2. Seps' = Seps
        BY <1>2, <1>g
      <3> HIDE DEF l
      <3>4. CASE IsIndex
        BY <1>g, <3>1, <3>2, <3>4, SMTT(60)
      <3>5. CASE ~IsIndex
        BY <1>g, <3>1, <3>2, <3>5, SMTT(60)
      <3> QED
        BY <3>4, <3>5
    <2>2. \/ IsIndex /\ ParentSeps = Len(parents) /\ ParentSeps' = Len(parents) + 1 /\ ParentSeps' # ParentSeps
          \/ ~IsIndex /\ ParentSeps' = ParentSeps
      <3>1. Len(parents') = Len(parents) + 1
        BY <1>2, <1>a, <1>f, Appended
      <3>2. Len(parents) + 1 # Len(parents)
        BY <1>c, SMTT(60)
      <3> QED
        BY <1>g, <3>1, <3>2
    <2>3. ASSUME NEW q \in Nat, q > 1 PROVE Named(q)'
      <3> DEFINE old == r.page = q \/ (i <= Seps /\ r.ovfl = q)
                 more_ == i <= Seps /\ r.ovfl = q
      <3>1. /\ Named(q) /\ (n = q => q \notin DOMAIN pages)
            /\ InRefs(children, i, Seps, q) <=> InRefs(children, i + 1, Seps, q) \/ old
        BY <1>i, <2>3
      <3>2. more_ => n # q
        BY <3>1 DEF Named, Alone
      <3>3. /\ InRefs(parents', 1, ParentSeps', q) <=> InRefs(parents, 1, ParentSeps, q) \/ n = q \/ more_
            /\ RefsOnce(parents, 1, ParentSeps, q) /\ ~(InRefs(parents, 1, ParentSeps, q) /\ (n = q \/ more_)) =>
                  RefsOnce(parents', 1, ParentSeps', q)
        <4> DEFINE new == up.page = q \/ (ParentSeps' # ParentSeps /\ up.ovfl = q)
        <4>1. new <=> n = q \/ more_
          BY <1>f, <2>1, <2>2
        <4>2. \/ ParentSeps' = ParentSeps
              \/ ParentSeps' = Len(parents) + 1 /\ ParentSeps = Len(parents) /\ (up.page # up.ovfl \/ up.page # q)
          BY <1>f, <2>1, <2>2, <3>2
        <4>3. /\ InRefs(parents', 1, ParentSeps', q) <=> InRefs(parents, 1, ParentSeps, q) \/ new
              /\ RefsOnce(parents, 1, ParentSeps, q) /\ ~(InRefs(parents, 1, ParentSeps, q) /\ new) =>
                    RefsOnce(parents', 1, ParentSeps', q)
          BY <1>2, <1>a, <1>f, <1>h, <1>k, <4>2, RefAdded
        <4> HIDE DEF new, more_
        <4> QED
          BY <4>1, <4>3
      <3> HIDE DEF r, l
      <3> QED
        BY <1>2, <1>b, <1>i, <1>j, <2>1, <2>3, <3>2, <3>3 DEF Named, Alone
    <2>4. UInv'
      BY <2>3 DEF UInv
    <2>5. l # 1
      <3>1. l \in Nat /\ l > 1
        BY <1>a, <1>c
      <3> QED
        BY <3>1, SMTT(60)
    <2>6. InteriorInv'
      BY <1>2, <1>a, <1>b, <1>e, <2>5 DEF InteriorInv
    <2>7. SInv'
      BY <1>a, <1>b, <1>e, <2>6 DEF SInv
    <2> QED
      BY <2>4, <2>7
  <1> QED
    BY <1>b, <1>1, <1>2

LEMMA StepUsed ==
    ASSUME IInv, SInv, UInv, [Next]_vars
    PROVE  SInv' /\ UInv'
  <1>1. CASE \E p \in Payloads : TableRow(p) \/ SpillIndexCell(p)
    BY <1>1, TableRowUsed, SpillUsed
  <1>2. CASE StartIndex
    BY <1>2, StartIndexUsed
  <1>3. CASE IndexCell
    BY <1>3, IndexCellUsed
  <1>4. CASE LastLeaf
    BY <1>4, LastLeafUsed
  <1>5. CASE EmptyTree
    BY <1>5, EmptyTreeUsed
  <1>6. CASE FillCell
    BY <1>6, FillCellUsed
  <1>7. CASE ClosePage
    BY <1>7, ClosePageUsed
  <1>8. CASE TreeDone
    BY <1>8, TreeDoneUsed
  <1>9. CASE Master
    BY <1>9, MasterUsed
  <1>10. CASE UNCHANGED vars
    BY <1>10, StutterUsed
  <1> QED
    BY <1>1, <1>2, <1>3, <1>4, <1>5, <1>6, <1>7, <1>8, <1>9, <1>10 DEF Next, Closed

\* The references to q are the places of the file and the roots that name it.
LEMMA ReferencesAt ==
    ASSUME SInv, ~InTree, NEW q
    PROVE  /\ \A x \in References(q) :
                 \/ \E t \in DOMAIN roots : roots[t] = q /\ x = <<"root", t, 0>>
                 \/ \E p \in DOMAIN pages : \E t, j : PageAt(pages[p], t, j, q) /\ x = <<t, p, j>>
           /\ \A t \in DOMAIN roots : roots[t] = q => <<"root", t, 0>> \in References(q)
           /\ \A p \in DOMAIN pages : \A t, j : PageAt(pages[p], t, j, q) => <<t, p, j>> \in References(q)
  <1>1. DOMAIN roots = Trees
    <2>1. roots \in Seq(Nat) /\ Len(roots) = Len(Kinds) /\ Kinds \in Seq(BOOLEAN)
      BY Geometry DEF SInv, DoneInv
    <2> QED
      BY <2>1, SMTT(60) DEF Trees
  <1>2. Kinded(pages)
    BY DEF SInv
  <1> DEFINE Root == {<<"root", t, 0>> : t \in {t \in Trees : roots[t] = q}}
             Right == {<<"right", p, 0>> : p \in {p \in InteriorPages : pages[p].right = q}}
             After == {<<"next", p, 0>> : p \in {p \in DOMAIN pages \ ({1} \cup TreePages) : pages[p].next = q}}
             Left(p) == {<<"left", p, j>> : j \in {j \in DOMAIN pages[p].cells : pages[p].cells[j].left = q}}
             Ovfl(p) == {<<"ovfl", p, j>> : j \in {j \in DOMAIN pages[p].cells : pages[p].cells[j].ovfl = q}}
             Lefts == UNION {Left(p) : p \in InteriorPages}
             Ovfls == UNION {Ovfl(p) : p \in TreePages}
  <1>a. References(q) = Root \cup Right \cup After \cup Lefts \cup Ovfls
    BY DEF References
  <1>b. \A p, j : j \in DOMAIN pages[p].cells /\ pages[p].cells[j].left = q => <<"left", p, j>> \in Left(p)
    OBVIOUS
  <1>c. \A p, j : j \in DOMAIN pages[p].cells /\ pages[p].cells[j].ovfl = q => <<"ovfl", p, j>> \in Ovfl(p)
    OBVIOUS
  <1>d. \A p : \A x \in Left(p) : \E j \in DOMAIN pages[p].cells :
                    pages[p].cells[j].left = q /\ x = <<"left", p, j>>
    OBVIOUS
  <1>e. \A p : \A x \in Ovfl(p) : \E j \in DOMAIN pages[p].cells :
                    pages[p].cells[j].ovfl = q /\ x = <<"ovfl", p, j>>
    OBVIOUS
  <1> HIDE DEF Left, Ovfl
  <1>3. ASSUME NEW x \in References(q)
        PROVE  \/ \E t \in DOMAIN roots : roots[t] = q /\ x = <<"root", t, 0>>
               \/ \E p \in DOMAIN pages : \E t, j : PageAt(pages[p], t, j, q) /\ x = <<t, p, j>>
    <2>1. CASE \E t \in Trees : roots[t] = q /\ x = <<"root", t, 0>>
      BY <1>1, <2>1
    <2>2. CASE \E p \in InteriorPages : pages[p].right = q /\ x = <<"right", p, 0>>
      BY <2>2 DEF InteriorPages, PageAt
    <2>3. CASE \E p \in DOMAIN pages \ ({1} \cup TreePages) : pages[p].next = q /\ x = <<"next", p, 0>>
      BY <1>2, <2>3 DEF TreePages, PageAt, Kinded
    <2>4. CASE \E p \in InteriorPages : \E j \in DOMAIN pages[p].cells :
                    pages[p].cells[j].left = q /\ x = <<"left", p, j>>
      BY <2>4 DEF InteriorPages, PageAt, CellAt
    <2>5. CASE \E p \in TreePages : \E j \in DOMAIN pages[p].cells :
                    pages[p].cells[j].ovfl = q /\ x = <<"ovfl", p, j>>
      BY <2>5 DEF TreePages, PageAt, CellAt
    <2>6. CASE x \in Lefts
      BY <1>d, <2>4, <2>6, SMTT(60)
    <2>7. CASE x \in Ovfls
      BY <1>e, <2>5, <2>7, SMTT(60)
    <2>8. CASE x \in Root
      BY <2>1, <2>8
    <2>9. CASE x \in Right
      BY <2>2, <2>9
    <2>10. CASE x \in After
      BY <2>3, <2>10
    <2> HIDE DEF Root, Right, After, Lefts, Ovfls
    <2> QED
      BY <1>a, <2>6, <2>7, <2>8, <2>9, <2>10
  <1>4. \A t \in DOMAIN roots : roots[t] = q => <<"root", t, 0>> \in References(q)
    BY <1>1 DEF References
  <1>5. ASSUME NEW p \in DOMAIN pages, NEW t, NEW j, PageAt(pages[p], t, j, q)
        PROVE  <<t, p, j>> \in References(q)
    <2>1. CASE pages[p].kind = "overflow" /\ t = "next" /\ j = 0 /\ pages[p].next = q
      <3>1. p \in DOMAIN pages \ ({1} \cup TreePages)
        BY <1>2, <2>1 DEF TreePages, Kinded
      <3> QED
        BY <2>1, <3>1 DEF References
    <2>2. CASE pages[p].kind = "interior" /\ t = "right" /\ j = 0 /\ pages[p].right = q
      <3>1. p \in InteriorPages
        BY <2>2 DEF InteriorPages
      <3> QED
        BY <2>2, <3>1 DEF References
    <2>3. CASE pages[p].kind = "interior" /\ t = "left" /\ j \in DOMAIN pages[p].cells /\ pages[p].cells[j].left = q
      <3>1. p \in InteriorPages
        BY <2>3 DEF InteriorPages
      <3> QED
        <4>1. <<t, p, j>> \in Left(p)
          BY <1>b, <2>3
        <4>2. <<t, p, j>> \in Lefts
          BY <3>1, <4>1
        <4> HIDE DEF Root, Right, After, Lefts, Ovfls
        <4> QED
          BY <1>a, <4>2
    <2>4. CASE pages[p].kind \in {"leaf", "interior"} /\ t = "ovfl" /\ j \in DOMAIN pages[p].cells /\ pages[p].cells[j].ovfl = q
      <3>1. p \in TreePages
        BY <2>4 DEF TreePages
      <3> QED
        <4>1. <<t, p, j>> \in Ovfl(p)
          BY <1>c, <2>4
        <4>2. <<t, p, j>> \in Ovfls
          BY <3>1, <4>1
        <4> HIDE DEF Root, Right, After, Lefts, Ovfls
        <4> QED
          BY <1>a, <4>2
    <2> QED
      BY <1>5, <2>1, <2>2, <2>3, <2>4 DEF PageAt, CellAt
  <1> QED
    BY <1>3, <1>4, <1>5

\* At the end only the file and the roots are left.
LEMMA UsedImplies == IInv /\ SInv /\ UInv => UsedOnce
  <1> SUFFICES ASSUME SInv, UInv, pc = "closed", i \in Nat, i > 0, next \in Nat, NEW q \in 2 .. next - 1, q \in DOMAIN pages
               PROVE  Cardinality(References(q)) = 1
    BY DEF UsedOnce, SInv, DoneInv, InTree, Filled, IInv, TInv
  <1>1. q \in Nat /\ q > 1
    BY SMTT(60)
  <1>2. ~InTree /\ DoneInv
    BY DEF SInv, InTree
  <1>3. /\ \A x \in References(q) :
                 \/ \E t \in DOMAIN roots : roots[t] = q /\ x = <<"root", t, 0>>
                 \/ \E p \in DOMAIN pages : \E t, j : PageAt(pages[p], t, j, q) /\ x = <<t, p, j>>
        /\ \A t \in DOMAIN roots : roots[t] = q => <<"root", t, 0>> \in References(q)
        /\ \A p \in DOMAIN pages : \A t, j : PageAt(pages[p], t, j, q) => <<t, p, j>> \in References(q)
    BY <1>2, ReferencesAt
  <1>4. /\ InFile(pages, q) \/ InRoots(roots, q)
        /\ ~(InFile(pages, q) /\ InRoots(roots, q))
        /\ FileOnce(pages, q) /\ RootsOnce(roots, q)
    <2>1. 1 \in Nat /\ 1 > 0
      BY SMTT(60)
    <2>2. /\ ~InCells(page, pc = "interior", q) /\ ~InCells(todo, FALSE, q)
          /\ ~InRefs(children, i, Seps, q) /\ ~InRefs(parents, 1, ParentSeps, q)
      BY <1>2, <2>1, NoCells, NoRefs DEF DoneInv
    <2> QED
      BY <1>1, <2>2 DEF UInv, Named, Alone
  <1>5. References(q) # {}
    BY <1>3, <1>4 DEF InFile, InRoots
  <1>6. ASSUME NEW x \in References(q), NEW y \in References(q) PROVE x = y
    <2>1. CASE InRoots(roots, q)
      <3>1. \A z \in References(q) : \E t \in DOMAIN roots : roots[t] = q /\ z = <<"root", t, 0>>
        BY <1>3, <1>4, <2>1 DEF InFile
      <3> QED
        BY <1>4, <3>1 DEF RootsOnce
    <2>2. CASE InFile(pages, q)
      <3>1. \A z \in References(q) :
                \E p \in DOMAIN pages : \E t, j : PageAt(pages[p], t, j, q) /\ z = <<t, p, j>>
        BY <1>3, <1>4, <2>2 DEF InRoots
      <3> QED
        BY <1>4, <3>1, SMTT(60) DEF FileOnce
    <2> QED
      BY <1>4, <2>1, <2>2
  <1>7. PICK x : References(q) = {x}
    BY <1>5, <1>6
  <1> QED
    BY <1>7, FS_Singleton

LEMMA UsedInvariance == Spec => [](IInv /\ SInv /\ UInv)
  <1>1. IInv /\ SInv /\ UInv /\ [Next]_vars => (IInv /\ SInv /\ UInv)'
    BY Step, StepUsed
  <1>2. Init => IInv /\ SInv /\ UInv
    BY InitInv, InitUsed
  <1> QED
    BY <1>1, <1>2, PTL DEF Spec

\* The finished file: every page number the header counts, but page 1 and an
\* unused pending page, was written, and exactly one root, child pointer or
\* overflow pointer names it.  The page counter handed from write_overflow_pages
\* to the builders and back loses no page, and promoting a cell, moving a right
\* child up or ending a level neither drops nor duplicates a page number.
THEOREM PagesUsedOnce == Spec => []UsedOnce
  BY UsedInvariance, UsedImplies, PTL
=============================================================================
