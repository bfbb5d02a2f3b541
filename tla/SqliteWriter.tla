---------------------------- MODULE SqliteWriter ----------------------------
(***************************************************************************)
(* The direct SQLite page writer (internal/cbm/sqlite_writer.c), which     *)
(* dumps a graph without going through SQL: rows arrive in key order, leaf *)
(* pages are flushed as they fill, and interior pages are built level by   *)
(* level above them.  A file is a sequence of trees, tables and indexes,   *)
(* and page 1, which is written last and names their roots.                *)
(*                                                                         *)
(* A row is its key (its place in the order) and the length of its         *)
(* payload.  A page is the cells on it, in order, and the bytes left       *)
(* between its pointer array and its cell content.                         *)
(***************************************************************************)
EXTENDS Integers, Sequences, FiniteSets

CONSTANTS
    PageSize,       \* CBM_PAGE_SIZE
    LeafHeader,     \* BTREE_HEADER_SIZE
    InteriorHeader, \* BTREE_INTERIOR_HDR
    CellPtr,        \* CELL_PTR_SIZE
    PagePtr,        \* BTREE_PTR_SIZE
    Varint,         \* bytes of a varint (a length or a rowid)
    TableMax,       \* TABLE_OVERFLOW_MAX_LOCAL
    IndexMax,       \* INDEX_OVERFLOW_MAX_LOCAL
    MinLocal,       \* TABLE_/INDEX_OVERFLOW_MIN_LOCAL, the same number
    PendingPage,    \* CBM_PENDING_BYTE_PAGE
    Kinds,          \* for each tree of the file: is it an index?
    Payloads,       \* payload lengths rows may have
    MaxRows         \* rows of all trees together

(***************************************************************************)
(* What the page geometry gives: a table cell fits an empty leaf, two      *)
(* index cells fit a leaf, an index cell fits an empty interior page.  The *)
(* file's own numbers (65536, 8, 12, 2, 4, up to 9, 65501, 16422, 8199)    *)
(* leave more room than this asks for.                                     *)
(***************************************************************************)
ASSUME Geometry ==
    /\ PageSize \in Nat /\ LeafHeader \in Nat /\ InteriorHeader \in Nat
    /\ CellPtr \in Nat /\ PagePtr \in Nat /\ Varint \in Nat
    /\ TableMax \in Nat /\ IndexMax \in Nat /\ MinLocal \in Nat
    /\ PendingPage \in Nat /\ MaxRows \in Nat
    /\ PagePtr < PageSize /\ LeafHeader < PageSize /\ InteriorHeader < PageSize
    /\ MinLocal <= IndexMax /\ MinLocal <= TableMax
    /\ 2 * Varint + TableMax + PagePtr + CellPtr <= PageSize - LeafHeader
    /\ 2 * (Varint + IndexMax + PagePtr + CellPtr) <= PageSize - LeafHeader
    /\ Varint + IndexMax + 2 * PagePtr + CellPtr <= PageSize - InteriorHeader
    /\ Varint + PagePtr + CellPtr <= PageSize - InteriorHeader
    /\ PendingPage > 1
    /\ Kinds \in Seq(BOOLEAN) /\ Kinds # <<>>
    /\ Payloads \subseteq Nat

VARIABLES
    pages,    \* the file: page number -> what was written there
    next,     \* write_db_ctx_t.next_page
    pb,       \* PageBuilder.next_page
    tree,     \* the tree being written, an index of Kinds
    pc,
    rows,     \* per tree, the rows it was given
    todo,     \* an index's cells, spilled, not yet on a leaf
    page,     \* cells of the page being built
    room,     \* content_offset - ptr_offset of that page
    children, \* PageRefs of the level below (the leaves, to begin with)
    parents,  \* PageRefs of the level being built
    i,        \* the child the interior loop is at
    roots

vars == <<pages, next, pb, tree, pc, rows, todo, page, room, children, parents, i, roots>>
----------------------------------------------------------------------------
IsIndex == Kinds[tree]

\* Payload bytes past the first page's worth that an overflow page takes.
PerPage == PageSize - PagePtr

\* Mutant: the pending page is used like any other.
SkipNot(n) == n

\* cbm_skip_pending_byte
Skip(n) ==
    IF n = PendingPage THEN n + 1 ELSE n

\* How much of a payload stays in its cell.
Local(p, max) ==
    LET k == MinLocal + ((p - MinLocal) % PerPage)
    IN  IF p <= max THEN p ELSE IF k <= max THEN k ELSE MinLocal

Spilled(p, max) == p - Local(p, max)

\* write_overflow_pages: how many pages it takes from the counter.
Chain(bytes) == (bytes + PerPage - 1) \div PerPage

NoPage == 0

Overflow(n, bytes) ==
    [q \in n .. (n + Chain(bytes) - 1) |->
        [kind |-> "overflow",
         next |-> IF q = n + Chain(bytes) - 1 THEN NoPage ELSE q + 1]]

\* build_table_cell, build_table_cell_overflow, overflowize_index_cell: n is
\* the first overflow page, if the payload needs one.
Cell(key, p, max, varints, n) ==
    [key  |-> key,
     len  |-> varints * Varint + Local(p, max) + (IF p > max THEN PagePtr ELSE 0),
     ovfl |-> IF p > max THEN n ELSE NoPage]

Written(file, more) ==
    [q \in DOMAIN file \cup DOMAIN more |-> IF q \in DOMAIN more THEN more[q] ELSE file[q]]

Leaf(n, cells, left) == [q \in {n} |-> [kind |-> "leaf", cells |-> cells, room |-> left]]

Interior(n, cells, left, right) ==
    [q \in {n} |-> [kind |-> "interior", cells |-> cells, room |-> left, right |-> right]]

\* A PageRef: key and ovfl are those of max_key or of sep_cell.
Ref(n, cell) == [page |-> n, key |-> cell.key, len |-> cell.len, ovfl |-> cell.ovfl]

\* Mutant: the cell pointer is forgotten.
FitsNoPtr(len, left) == len <= left

\* pb_cell_fits, and the same test in fill_interior_page.
Fits(len, left) ==
    len <= left - CellPtr

EmptyLeafRoom == PageSize - LeafHeader

EmptyInteriorRoom == PageSize - InteriorHeader

EmptyLeaf(n) == Leaf(n, <<>>, EmptyLeafRoom)
----------------------------------------------------------------------------
\* cbm_writer_open
Init ==
    /\ pages = << >>
    /\ next = 2 /\ pb = 2
    /\ tree = 1
    /\ pc = "rows"
    /\ rows = [t \in DOMAIN Kinds |-> 0]
    /\ todo = <<>>
    /\ page = <<>> /\ room = EmptyLeafRoom
    /\ children = <<>> /\ parents = <<>> /\ i = 1
    /\ roots = <<>>

RowsLeft ==
    LET sum[t \in 0 .. Len(Kinds)] == IF t = 0 THEN 0 ELSE sum[t - 1] + rows[t]
    IN  sum[Len(Kinds)] < MaxRows

Key == rows[tree] + 1

\* The cell added last, cells[prev_idx].
Prev == page[Len(page)]

\* pb_flush_leaf: the page under construction goes to the next page number,
\* with the separator that will stand for it one level up.  A page without
\* cells is not written.
Flush(file, n, cells, left, sep) ==
    IF cells = <<>>
    THEN pages' = file /\ pb' = n /\ UNCHANGED children
    ELSE /\ pages' = Written(file, Leaf(Skip(n), cells, left))
         /\ pb' = Skip(n) + 1
         /\ children' = Append(children, Ref(Skip(n), sep))

\* Mutant: the row's own key.
PrevRowidOff == rows[tree] + 1

\* The prev_rowid a row is added with: the key of the row before it.
PrevRowid ==
    rows[tree]

\* pb_add_table_cell_with_flush: overflow pages first, then the full leaf.
TableRow(p) ==
    LET c    == Cell(Key, p, TableMax, 2, pb)
        file == Written(pages, Overflow(pb, Spilled(p, TableMax)))
        n    == pb + Chain(Spilled(p, TableMax))
        full == ~Fits(c.len, room) /\ page # <<>>
    IN  /\ pc = "rows" /\ ~IsIndex /\ RowsLeft
        /\ rows' = [rows EXCEPT ![tree] = @ + 1]
        /\ IF full
           THEN /\ Flush(file, n, page, room, [Prev EXCEPT !.key = PrevRowid])
                /\ page' = <<c>>
                /\ room' = EmptyLeafRoom - c.len - CellPtr
           ELSE /\ pages' = file /\ pb' = n /\ UNCHANGED children
                /\ page' = Append(page, c)
                /\ room' = room - c.len - CellPtr
        /\ UNCHANGED <<next, tree, pc, todo, parents, i, roots>>

\* build_*_index_sorted makes the cell, and overflowize_index_cell spills it
\* before any leaf of the index is built.
SpillIndexCell(p) ==
    /\ pc = "rows" /\ IsIndex /\ RowsLeft
    /\ rows' = [rows EXCEPT ![tree] = @ + 1]
    /\ todo' = Append(todo, Cell(Key, p, IndexMax, 1, next))
    /\ pages' = Written(pages, Overflow(next, Spilled(p, IndexMax)))
    /\ next' = next + Chain(Spilled(p, IndexMax))
    /\ UNCHANGED <<pb, tree, pc, page, room, children, parents, i, roots>>

\* pb_init of write_index_btree
StartIndex ==
    /\ pc = "rows" /\ IsIndex /\ rows[tree] > 0
    /\ pc' = "index" /\ pb' = next
    /\ UNCHANGED <<pages, next, tree, rows, todo, page, room, children, parents, i, roots>>

\* What pb_promote_and_flush leaves on the page it flushes: the last cell
\* moves up and becomes the separator.
Kept(cells) ==
    SubSeq(cells, 1, Len(cells) - 1)

\* One turn of the loop of write_index_btree.
IndexCell ==
    LET c     == Head(todo)
        full  == ~Fits(c.len, room) /\ page # <<>>
        left  == IF full THEN EmptyLeafRoom ELSE room
    IN  /\ pc = "index" /\ todo # <<>>
        /\ todo' = Tail(todo)
        /\ IF full
           THEN Flush(pages, pb, Kept(page), room + Prev.len + CellPtr, Prev)
           ELSE UNCHANGED <<pages, pb, children>>
        /\ IF Fits(c.len, left)
           THEN /\ page' = IF full THEN <<c>> ELSE Append(page, c)
                /\ room' = left - c.len - CellPtr
           ELSE page' = <<>> /\ room' = left
        /\ UNCHANGED <<next, tree, pc, rows, parents, i, roots>>

\* The last leaf: pb_finalize_table, and the end of write_index_btree.
LastLeaf ==
    /\ \/ pc = "rows" /\ ~IsIndex /\ rows[tree] > 0
       \/ pc = "index" /\ todo = <<>>
    /\ Flush(pages, pb, page, room, [Prev EXCEPT !.key = rows[tree]])
    /\ page' = <<>> /\ room' = EmptyInteriorRoom
    /\ pc' = "interior"
    /\ UNCHANGED <<next, tree, rows, todo, parents, i, roots>>
----------------------------------------------------------------------------
\* Mutant: next_page is not brought up to date.
NextTreeStale(root, n) ==
    /\ roots' = Append(roots, root)
    /\ UNCHANGED next /\ pb' = next
    /\ tree' = tree + 1
    /\ pc' = IF tree = Len(Kinds) THEN "master" ELSE "rows"
    /\ todo' = <<>> /\ page' = <<>> /\ room' = EmptyLeafRoom
    /\ children' = <<>> /\ parents' = <<>> /\ i' = 1

\* The next tree, or page 1 after the last one.  n is what the tree's writer
\* leaves in next_page.
NextTree(root, n) ==
    /\ roots' = Append(roots, root)
    /\ next' = n /\ pb' = n
    /\ tree' = tree + 1
    /\ pc' = IF tree = Len(Kinds) THEN "master" ELSE "rows"
    /\ todo' = <<>> /\ page' = <<>> /\ room' = EmptyLeafRoom
    /\ children' = <<>> /\ parents' = <<>> /\ i' = 1

\* write_table_btree with no rows, write_empty_index_leaf
EmptyTree ==
    /\ pc = "rows" /\ rows[tree] = 0
    /\ pages' = Written(pages, EmptyLeaf(Skip(next)))
    /\ NextTree(Skip(next), Skip(next) + 1)
    /\ UNCHANGED rows

\* build_interior_cell
InteriorCell(ref) ==
    [left |-> ref.page, key |-> ref.key, ovfl |-> IF IsIndex THEN ref.ovfl ELSE NoPage,
     len |-> PagePtr + (IF IsIndex THEN ref.len ELSE Varint)]

\* fill_interior_page goes on while a child other than the last has a cell
\* that fits; the first cell of a page is not asked.
Filling ==
    /\ i < Len(children)
    /\ Fits(InteriorCell(children[i]).len, room) \/ page = <<>>

FillCell ==
    /\ pc = "interior" /\ Len(children) > 1 /\ Filling
    /\ page' = Append(page, InteriorCell(children[i]))
    /\ room' = room - InteriorCell(children[i]).len - CellPtr
    /\ i' = i + 1
    /\ UNCHANGED <<pages, next, pb, tree, pc, rows, todo, children, parents, roots>>

\* The interior loop has come to the last child of its level.
AtLast ==
    i = Len(children)

\* Mutant: the right child heads the next page as well.
NextChildAgain == i

\* Where the loop goes on after a right child.
NextChild ==
    i + 1

\* The PageRef write_interior_page records for page n: its right child's key.
Parent(n) ==
    [children[i] EXCEPT !.page = n]

\* write_interior_page: child i is the page's right child.  After the last
\* child of a level the parents are the children of the next one, until one
\* is left.
ClosePage ==
    LET n  == Skip(pb)
        up == Append(parents, Parent(n))
    IN  /\ pc = "interior" /\ Len(children) > 1 /\ ~Filling
        /\ pages' = Written(pages, Interior(n, page, room, children[i].page))
        /\ pb' = n + 1
        /\ page' = <<>> /\ room' = EmptyInteriorRoom
        /\ IF AtLast
           THEN children' = up /\ parents' = <<>> /\ i' = 1
           ELSE parents' = up /\ i' = NextChild /\ UNCHANGED children
        /\ UNCHANGED <<next, tree, pc, rows, todo, roots>>

TreeDone ==
    /\ pc = "interior" /\ Len(children) = 1
    /\ NextTree(children[1].page, pb)
    /\ UNCHANGED <<pages, rows>>

\* write_master_page1, pad_file_to_page_boundary: page 1 names the roots.
Master ==
    /\ pc = "master"
    /\ pages' = Written(pages, [q \in {1} |-> [kind |-> "master", roots |-> roots]])
    /\ pc' = "closed"
    /\ UNCHANGED <<next, pb, tree, rows, todo, page, room, children, parents, i, roots>>

Closed == pc = "closed" /\ UNCHANGED vars

Next ==
    \/ \E p \in Payloads : TableRow(p) \/ SpillIndexCell(p)
    \/ StartIndex \/ IndexCell \/ LastLeaf
    \/ EmptyTree \/ FillCell \/ ClosePage \/ TreeDone
    \/ Master \/ Closed

Spec == Init /\ [][Next]_vars
----------------------------------------------------------------------------
(***************************************************************************)
(* Properties.  SQLite itself is the reader: what it asks of a file is     *)
(* stated on the finished one.                                             *)
(***************************************************************************)
Trees == DOMAIN Kinds

InteriorPages == {q \in DOMAIN pages : pages[q].kind = "interior"}

TreePages == {q \in DOMAIN pages : pages[q].kind \in {"leaf", "interior"}}

\* No cell is laid over the pointer array or over another cell, on the page
\* being built or on any page written (pb_cell_fits, fill_interior_page, the
\* un-adding in pb_promote_and_flush).
PagesFit ==
    /\ room >= 0
    /\ \A q \in TreePages : pages[q].room >= 0

\* The page of the pending byte is never a tree's page.  (It can be an
\* overflow page: write_overflow_pages does not call cbm_skip_pending_byte.)
PendingOnlyOverflow ==
    PendingPage \in DOMAIN pages => pages[PendingPage].kind = "overflow"

\* A page that has been written is not written again: the builder's own page
\* counter and the file's are never out of step.
WriteOnce ==
    [][\A q \in DOMAIN pages : q \in DOMAIN pages' /\ pages'[q] = pages[q]]_vars

\* How SQLite looks key k up: the first cell whose key is not below k, else
\* the right child; an index's interior cells are entries themselves.
Found(t, k) ==
    LET find[q \in DOMAIN pages] ==
            LET cells == pages[q].cells
                at    == {j \in DOMAIN cells : k <= cells[j].key}
                first == CHOOSE j \in at : \A l \in at : j <= l
            IN  IF pages[q].kind = "leaf" THEN \E j \in at : cells[j].key = k
                ELSE IF at = {} THEN find[pages[q].right]
                ELSE \/ Kinds[t] /\ cells[first].key = k
                     \/ find[cells[first].left]
    IN  find[roots[t]]

\* Every row given to the writer is found again by its key.
RowsFound ==
    pc = "closed" => \A t \in Trees : \A k \in 1 .. rows[t] : Found(t, k)

ChildrenOf(q) ==
    IF pages[q].kind # "interior" THEN {}
    ELSE {pages[q].right} \cup {pages[q].cells[j].left : j \in DOMAIN pages[q].cells}

\* The pages of a tree by level, the root's first.
Levels(t) ==
    LET level[d \in Nat] == IF d = 0 THEN {roots[t]} ELSE UNION {ChildrenOf(q) : q \in level[d - 1]}
    IN  {level[d] : d \in 0 .. Cardinality(InteriorPages)} \ {{}}

Entries(t) ==
    UNION {{q} \X DOMAIN pages[q].cells :
              q \in {q \in UNION Levels(t) : pages[q].kind = "leaf" \/ Kinds[t]}}

\* No row is in the file twice: a promoted index cell has left its leaf.
RowsOnce ==
    pc = "closed" => \A t \in Trees : Cardinality(Entries(t)) = rows[t]

\* Leaves are all at one depth.
Balanced ==
    pc = "closed" =>
        \A t \in Trees : \A l \in Levels(t) :
            \A q, r \in l : pages[q].kind = pages[r].kind

\* The finished file holds the rows it was given, each once and where a lookup
\* finds it, in trees of even depth.
TreesSound == RowsFound /\ RowsOnce /\ Balanced

\* The places of the finished file that name page q.
References(q) ==
    {<<"root", t, 0>> : t \in {t \in Trees : roots[t] = q}}
        \cup {<<"right", p, 0>> : p \in {p \in InteriorPages : pages[p].right = q}}
        \cup {<<"next", p, 0>> : p \in {p \in DOMAIN pages \ ({1} \cup TreePages) : pages[p].next = q}}
        \cup (UNION {{<<"left", p, j>> : j \in {j \in DOMAIN pages[p].cells : pages[p].cells[j].left = q}}
                         : p \in InteriorPages})
        \cup (UNION {{<<"ovfl", p, j>> : j \in {j \in DOMAIN pages[p].cells : pages[p].cells[j].ovfl = q}}
                         : p \in TreePages})

\* Every page the header counts, but page 1 and an unused pending page, is
\* written and named exactly once: no page is lost, none is shared.
UsedOnce ==
    pc = "closed" =>
        \A q \in 2 .. next - 1 :
            \/ q = PendingPage /\ q \notin DOMAIN pages
            \/ q \in DOMAIN pages /\ Cardinality(References(q)) = 1

\* SQLite refuses to descend to a page without cells, so a tree other than an
\* empty one has none.  The file header promises "a valid .db file".
NoEmptyChild ==
    pc = "closed" => \A q \in InteriorPages : \A r \in ChildrenOf(q) : pages[r].cells # <<>>
=============================================================================
