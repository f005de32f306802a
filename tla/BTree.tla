-------------------------------- MODULE BTree --------------------------------
(***************************************************************************)
(* A b-tree: sqlite3BtreeInsert and sqlite3BtreeDelete with balance,       *)
(* balance_deeper, balance_quick and balance_nonroot.  One step is one     *)
(* insert or delete, with all the balancing it does.                       *)
(*                                                                         *)
(* A page is its cells in order and its children; a cell is a key and the  *)
(* room it takes, pointer included (BTreePage has where it lies).  With    *)
(* LeafData (a table) the entries are in the leaves and interior cells     *)
(* are copies of keys; without (an index) interior cells are entries.  A   *)
(* page that does not hold all its cells has the rest, `ov`, in buffers.   *)
(*                                                                         *)
(* A b-tree has one of Forms: LeafData, and the sizes, scaled down: Space  *)
(* is the room of a leaf (usableSize - 8), Sep that of an interior cell of *)
(* a table, Hdr what the file header takes of page 1, NMin usableSize *    *)
(* 2 / 3; child and cell pointers take 1 each.  The form also bounds the   *)
(* behaviour: it begins with one of the sequences of insertions `initial`, *)
(* then has MaxOps operations on the keys Key, of the sizes Size.          *)
(*                                                                         *)
(* A definition headed "Fault of X" is not part of the specification: it   *)
(* is what X would be with a bug, and shows that a property notices.       *)
(***************************************************************************)
EXTENDS Integers, Sequences, FiniteSets
LOCAL INSTANCE TLC
LOCAL INSTANCE SequencesExt
LOCAL INSTANCE FiniteSetsExt

CONSTANT Forms

ASSUME FormAssumption ==
    \A f \in Forms :
        /\ f.leafData \in BOOLEAN /\ {f.space, f.sep, f.hdr, f.nMin, f.maxOps} \subseteq Nat
        /\ f.keys \subseteq Nat /\ f.sizes \subseteq 1 .. f.space /\ f.initial \subseteq Seq(f.keys \X f.sizes)

VARIABLES
    form,   \* of the b-tree
    tree,   \* its pages; the cursor's pages and indexes; bad: an assertion failed or SQLITE_CORRUPT
    todo,   \* the insertions a behaviour begins with, those left
    ops,    \* the operations after them
    asked   \* what the last call was to do: its arguments

vars == <<form, tree, todo, ops, asked>>

LeafData == form.leafData
Space == form.space
Sep == form.sep
Hdr == form.hdr
NMin == form.nMin
Key == form.keys
Size == form.sizes
Ptr == 1
Slot == 1

NB == 3
Root == 1
Cell(k, n) == [key |-> k, size |-> n]
Lost == Cell(-1, 1)
IsLeaf(page) == page.kids = <<>>
Total(cells) == FoldLeft(LAMBDA n, c : n + c.size, 0, cells)
Room(page) == Space - (IF IsLeaf(page) THEN 0 ELSE Ptr)
HdrOf(p) == IF p = Root THEN Hdr ELSE 0
InPage(page) == [i \in DOMAIN page.cells |-> IF i \in page.ov THEN Cell(0, 0) ELSE page.cells[i]]
nFree(T, p) == Room(T.pages[p]) - HdrOf(p) - Total(InPage(T.pages[p]))
Bad(T) == [T EXCEPT !.bad = TRUE]
BadIf(c, T) == IF c THEN Bad(T) ELSE T
Write(T, p, page) == [T EXCEPT !.pages = (p :> page) @@ @]
Free(T, P) == [T EXCEPT !.pages = [q \in DOMAIN @ \ P |-> @[q]]]
Fresh(T, n) == CHOOSE P \in SUBSET (1 .. Cardinality(DOMAIN T.pages) + n) :
                   P \cap DOMAIN T.pages = {} /\ Cardinality(P) = n
NewPage(T) == Max(Fresh(T, 1))

(***************************************************************************)
(* insertCell and dropCell, of a cell and the child left of it.            *)
(***************************************************************************)
InsertCell(T, p, i, cell, kid) ==
    LET page == T.pages[p]
        full == page.ov # {} \/ cell.size > nFree(T, p)
        new == [cells |-> InsertAt(page.cells, i, cell),
                kids |-> IF kid = 0 THEN page.kids ELSE InsertAt(page.kids, i, kid),
                ov |-> IF full THEN page.ov \cup {i} ELSE page.ov]
    IN  IF full /\ page.ov # {} /\ (i # Max(page.ov) + 1 \/ Cardinality(page.ov) = 3) THEN Bad(T)
        ELSE Write(T, p, new)
DropCell(T, p, i) == [T EXCEPT !.pages[p].cells = RemoveAt(@, i)]

(***************************************************************************)
(* balance_deeper, and balance_quick: the one overflowing cell of the last *)
(* leaf goes to a new leaf.                                                *)
(***************************************************************************)
Leaf(cells) == [cells |-> cells, kids |-> <<>>, ov |-> {}]
Deeper(T) ==
    LET child == NewPage(T)
    IN  [Write(Write(T, child, T.pages[Root]), Root, [Leaf(<<>>) EXCEPT !.kids = <<child>>])
           EXCEPT !.path = <<Root, child>>, !.idx = <<0>>]

IsQuick(T, p, parent, idx) ==
    LET page == T.pages[p]
    IN  /\ LeafData /\ IsLeaf(page)
        /\ page.ov = {Len(page.cells)}
        /\ Hdr = 0 \/ parent # Root
        /\ idx = Len(T.pages[parent].cells)
Split(T, p, parent, sep) ==
    LET page == T.pages[p]
        new == NewPage(T)
        m == Len(page.cells)
        n == Len(T.pages[parent].cells)
        U == Write(Write(T, new, Leaf(<<page.cells[m]>>)), p, Leaf(Front(page.cells)))
    IN  [InsertCell(U, parent, n + 1, Cell(page.cells[m - sep].key, Sep), p) EXCEPT !.pages[parent].kids[n + 2] = new]
Quick(T, p, parent) == Split(T, p, parent, 1)

(***************************************************************************)
(* balance_nonroot: how many of the cells b each new page gets.  D: k      *)
(* pages, szNew and cntNew, which count pages and cells from 0, and        *)
(* leafData, whether dividers are copies.                                  *)
(***************************************************************************)
SizeAt(b, j) == b[j + 1].size
Gain(b, D, j) == IF D.leafData THEN SizeAt(b, j - 1) ELSE IF j < Len(b) THEN SizeAt(b, j) ELSE 0

\* From the left: page i gives away what it cannot hold ...
RECURSIVE Give(_, _, _, _)
Give(b, D, i, space) ==
    LET E == IF i + 1 < D.k THEN D ELSE [D EXCEPT !.k = i + 2, !.sz[i + 1] = 0, !.cnt[i + 1] = Len(b)]
    IN  IF D.bad \/ D.sz[i] <= space THEN D
        ELSE IF i + 2 > NB + 2 THEN Bad(D)
        ELSE Give(b, [E EXCEPT !.sz[i] = @ - SizeAt(b, E.cnt[i] - 1), !.sz[i + 1] = @ + Gain(b, E, E.cnt[i]),
                               !.cnt[i] = @ - 1], i, space)
\* ... and takes what it can.
RECURSIVE Take(_, _, _, _)
Take(b, D, i, space) ==
    LET c == SizeAt(b, D.cnt[i])
    IN  IF D.bad \/ D.cnt[i] >= Len(b) \/ D.sz[i] + c > space THEN D
        ELSE Take(b, [D EXCEPT !.sz[i] = @ + c, !.sz[i + 1] = @ - Gain(b, D, D.cnt[i] + 1), !.cnt[i] = @ + 1], i, space)
Packed(b, E, i) ==
    IF E.cnt[i] >= Len(b) THEN [E EXCEPT !.k = i + 1]
    ELSE BadIf(E.cnt[i] <= (IF i > 0 THEN E.cnt[i - 1] ELSE 0), E)
Pack(b, D, space) ==
    LET Step(E, i) == IF E.bad \/ i >= E.k THEN E ELSE Packed(b, Take(b, Give(b, E, i, space), i, space), i)
    IN  FoldLeft(Step, D, [n \in 1 .. NB + 2 |-> n - 1])

\* From the right: page i takes cells from the left while it stays the smaller.
Divider(D, r) == IF D.leafData THEN r ELSE r + 1
RECURSIVE Even(_, _, _, _)
Even(b, D, i, r) ==
    LET d == Divider(D, r)
        slot == IF i = D.k - 1 THEN Slot ELSE 0
    IN  IF \/ r < 0
           \/ D.sz[i] # 0 /\ D.sz[i] + SizeAt(b, d) > D.sz[i - 1] - (SizeAt(b, r) - slot)
        THEN BadIf(D.cnt[i - 1] <= (IF i > 1 THEN D.cnt[i - 2] ELSE 0), D)
        ELSE Even(b, [D EXCEPT !.sz[i] = @ + SizeAt(b, d), !.sz[i - 1] = @ - SizeAt(b, r), !.cnt[i - 1] = r], i, r - 1)
Evened(b, P) ==
    LET Step(E, i) == IF E.bad THEN E ELSE Even(b, E, i, E.cnt[i - 1] - 1)
    IN  FoldLeft(Step, P, [n \in 1 .. P.k - 1 |-> P.k - n])
Distribute(b, D, space) == Evened(b, Pack(b, D, space))

(***************************************************************************)
(* balance_nonroot: the order in which the new pages are filled.  A page   *)
(* that gives cells to a neighbour waits for it: what is taken from a page *)
(* filled before is Lost.                                                  *)
(***************************************************************************)
\* Fault of MayEdit: the pages are filled from the right.
MayEditAny(i, p, cntOld, cnt) == TRUE
MayEdit(i, p, cntOld, cnt) == i >= 0 \/ cntOld[p - 1] >= cnt[p - 1]
\* Fault of First: the cell that went up to the parent stays.
FirstKept(D, p) == IF p = 0 THEN 0 ELSE D.cnt[p - 1]
First(D, p) == IF p = 0 THEN 0 ELSE D.cnt[p - 1] + (IF D.leafData THEN 0 ELSE 1)
\* The cells of each page, of those filled in the order i = 1 - k, ..., k - 1.
Filled(b, D) ==
    LET Take1(done, c) == IF c.from \in done THEN Lost ELSE Cell(c.key, c.size)
        Step(F, i) ==
            LET p == IF i < 0 THEN -i ELSE i
            IN  IF p \in DOMAIN F \/ ~MayEdit(i, p, D.cntOld, D.cnt) THEN F
                ELSE (p :> [j \in 1 .. D.cnt[p] - First(D, p) |-> Take1(DOMAIN F, b[First(D, p) + j])]) @@ F
    IN  FoldLeft(Step, <<>>, [n \in 1 .. 2 * D.k - 1 |-> n - D.k])

\* Whether the only child of the root can be copied into it.
Fits(T, p) == HdrOf(Root) <= nFree(T, p)

(***************************************************************************)
(* balance_nonroot: up to three siblings S around child idx of the parent, *)
(* from child `first` (nxDiv) on, and their cells b, the dividers between. *)
(***************************************************************************)
FirstSibling(n, idx) == IF n < 2 \/ idx = 0 THEN 0 ELSE IF idx = n THEN n - 2 ELSE idx - 1
Siblings(T, parent, par, first, nOld) ==
    LET pgno == [i \in 0 .. nOld - 1 |-> par.kids[first + i + 1]]
        leaf == IsLeaf(T.pages[pgno[0]])
    IN  [parent |-> parent, par |-> par, first |-> first, nOld |-> nOld, pgno |-> pgno,
         old |-> [i \in 0 .. nOld - 1 |-> T.pages[pgno[i]]],
         leaf |-> leaf, leafData |-> LeafData /\ leaf, correction |-> IF leaf THEN Ptr ELSE 0]

Item(c, size, kid, from) == [key |-> c.key, size |-> size, kid |-> kid, from |-> from]
CellsOf(S, page, i) ==
    [j \in DOMAIN page.cells |->
        Item(page.cells[j], page.cells[j].size, IF S.leaf THEN 0 ELSE page.kids[j], IF j \in page.ov THEN -1 ELSE i)]
DividerOf(S, c, page) == Item(c, c.size - S.correction, IF S.leaf THEN 0 ELSE Last(page.kids), -1)
Gathered(S) ==
    FlattenSeq([m \in 1 .. S.nOld |->
        CellsOf(S, S.old[m - 1], m - 1)
            \o (IF m = S.nOld \/ S.leafData THEN <<>> ELSE <<DividerOf(S, S.par.cells[S.first + m], S.old[m - 1])>>)])
CellsUpTo(S, i) ==
    FoldLeft(LAMBDA n, m : n + Len(S.old[m - 1].cells) + (IF m - 1 = i \/ S.leafData THEN 0 ELSE 1),
             0, [m \in 1 .. i + 1 |-> m])
Sizes(S, b, cntOld) ==
    Distribute(b, [k |-> S.nOld, bad |-> FALSE, leafData |-> S.leafData, cnt |-> cntOld, cntOld |-> cntOld,
                   sz |-> [i \in 0 .. NB + 1 |-> IF i < S.nOld THEN Total(S.old[i].cells) ELSE 0]], Room(S.old[0]))
Planned(S, b) == Sizes(S, b, [i \in 0 .. NB + 1 |-> IF i < S.nOld THEN CellsUpTo(S, i) ELSE Len(b)])

\* The pages: the old ones, new ones, in ascending order of their numbers.
PagesOf(T, S, k) ==
    SetToSortSeq({S.pgno[i] : i \in 0 .. (IF k < S.nOld THEN k ELSE S.nOld) - 1}
                     \cup Fresh(T, IF k > S.nOld THEN k - S.nOld ELSE 0), <)
KidsOf(S, b, D, i) ==
    IF S.leaf THEN <<>>
    ELSE [j \in 1 .. D.cnt[i] - First(D, i) |-> b[First(D, i) + j].kid]
             \o <<IF i < D.k - 1 THEN b[D.cnt[i] + 1].kid ELSE Last(S.old[S.nOld - 1].kids)>>
UpOf(S, b, D, i) ==
    IF S.leafData THEN Cell(b[D.cnt[i]].key, Sep)
    ELSE Cell(b[D.cnt[i] + 1].key, b[D.cnt[i] + 1].size + S.correction)
\* The parent without the old dividers.
Without(S, last) ==
    LET n == Len(S.par.cells)
        from == S.first + S.nOld
    IN  [cells |-> SubSeq(S.par.cells, 1, S.first) \o SubSeq(S.par.cells, from, n),
         kids |-> SubSeq(S.par.kids, 1, S.first) \o <<last>> \o SubSeq(S.par.kids, from + 1, n + 1), ov |-> {}]
\* The new pages, with the cells `fill`, under the parent with the new dividers.
Linked(T, S, b, D, pages, fill) ==
    LET NewOf(i) == [cells |-> fill[i], kids |-> KidsOf(S, b, D, i), ov |-> {}]
        filled == [Write(T, S.parent, Without(S, Last(pages))) EXCEPT !.pages =
                     [p \in Range(pages) |-> NewOf((CHOOSE m \in 1 .. D.k : pages[m] = p) - 1)] @@ @]
    IN  Free(FoldLeft(LAMBDA V, i : InsertCell(V, S.parent, S.first + i, UpOf(S, b, D, i - 1), pages[i]),
                      filled, [i \in 1 .. D.k - 1 |-> i]),
             {S.pgno[i] : i \in D.k .. S.nOld - 1})
\* A root left without cells takes those of its only child.
Collapsed(U, parent, only) ==
    IF parent # Root \/ Cardinality(U.pages[Root].ov) # Len(U.pages[Root].cells) THEN U
    ELSE BadIf(Len(U.pages[Root].kids) # 1,
               IF Fits(U, only) THEN Free(Write(U, Root, U.pages[only]), {only}) ELSE U)
Shared(T, S, b, D, pages, fill) ==
    IF DOMAIN fill # 0 .. D.k - 1 THEN Bad(T)
    ELSE BadIf(\E i \in 0 .. D.k - 1 : D.sz[i] # Total(SubSeq(b, First(D, i) + 1, D.cnt[i])),
               Collapsed(Linked(T, S, b, D, pages, fill), S.parent, pages[1]))
Replaced(T, S, b, D) ==
    IF D.bad \/ (D.cnt[0] = 0 /\ ~(S.parent = Root /\ Hdr > 0 /\ S.par.cells = <<>>)) THEN Bad(T)
    ELSE Shared(T, S, b, D, PagesOf(T, S, D.k), Filled(b, D))
Gather(T, S, b) == Replaced(T, S, b, Planned(S, b))
Around(T, S) == Gather(T, S, Gathered(S))
NonRoot(T, parent, idx) ==
    LET par == T.pages[parent]
        n == Len(par.cells)
    IN  IF par.ov \notin {{}, {idx + 1}} THEN Bad(T)
        ELSE Around(T, Siblings(T, parent, par, FirstSibling(n, idx), (IF n < 2 THEN n ELSE 2) + 1))

(***************************************************************************)
(* balance, from the page the cursor is on.                                *)
(***************************************************************************)
Pop(T) == [T EXCEPT !.path = Front(@), !.idx = Front(@)]
SpreadOut(T, p, parent) == IF IsQuick(T, p, parent, Last(T.idx)) THEN Quick(T, p, parent) ELSE NonRoot(T, parent, Last(T.idx))
RECURSIVE Balance(_)
Balance(T) ==
    LET p == Last(T.path)
    IN  IF T.bad THEN T
        ELSE IF Len(T.path) = 1 THEN IF T.pages[p].ov = {} THEN T ELSE Balance(Deeper(T))
        ELSE IF T.pages[p].ov = {} /\ nFree(T, p) <= NMin THEN T
        ELSE Balance(Pop(SpreadOut(T, p, T.path[Len(T.path) - 1])))

(***************************************************************************)
(* sqlite3BtreeMovetoUnpacked: the cursor goes to the entry k, or to the   *)
(* leaf and the place where it would be.                                   *)
(***************************************************************************)
Place(page, k) == Min({i \in DOMAIN page.cells : page.cells[i].key >= k} \cup {Len(page.cells) + 1})
Has(page, k) == \E i \in DOMAIN page.cells : page.cells[i].key = k
RECURSIVE MoveTo(_, _)
MoveTo(T, k) ==
    LET page == T.pages[Last(T.path)]
        i == Place(page, k)
    IN  IF IsLeaf(page) \/ (~LeafData /\ Has(page, k)) THEN T
        ELSE MoveTo([T EXCEPT !.path = Append(@, page.kids[i]), !.idx = Append(@, i - 1)], k)
\* sqlite3BtreePrevious on an interior cell: to the last cell of the subtree left of it.
RECURSIVE MoveToRightmost(_)
MoveToRightmost(T) ==
    LET page == T.pages[Last(T.path)]
    IN  IF IsLeaf(page) THEN T
        ELSE MoveToRightmost([T EXCEPT !.path = Append(@, Last(page.kids)), !.idx = Append(@, Len(page.cells))])
Open(T, k) == MoveTo([T EXCEPT !.path = <<Root>>, !.idx = <<>>], k)
Close(T) == [T EXCEPT !.path = <<>>, !.idx = <<>>]

(***************************************************************************)
(* sqlite3BtreeInsert: the size is the room the entry takes in a leaf.     *)
(***************************************************************************)
Overflow(U) == Close(IF U.pages[Last(U.path)].ov # {} THEN Balance(U) ELSE U)
InsertAtCursor(T, page, k, new) ==
    IF ~Has(page, k) THEN Overflow(InsertCell(T, Last(T.path), Place(page, k), new, 0))
    ELSE IF page.cells[Place(page, k)] = new THEN Close(T)
    ELSE Overflow(InsertCell(DropCell(T, Last(T.path), Place(page, k)), Last(T.path), Place(page, k), new, 0))
InsertInto(T, page, k, size) == InsertAtCursor(T, page, k, Cell(k, size + (IF IsLeaf(page) THEN 0 ELSE Ptr)))
InsertHere(T, k, size) == InsertInto(T, T.pages[Last(T.path)], k, size)
Insert(T, k, size) == InsertHere(Open(T, k), k, size)

(***************************************************************************)
(* sqlite3BtreeDelete of an entry the cursor is on.                        *)
(***************************************************************************)
Again(T, depth) ==
    IF Len(T.path) > depth
    THEN Balance([T EXCEPT !.path = SubSeq(@, 1, depth), !.idx = SubSeq(@, 1, depth - 1)]) ELSE T
\* An interior cell: the last cell of the subtree left of it takes its place.
Taken(L, p, i, leaf, last) ==
    DropCell(InsertCell(DropCell(L, p, i), p, i, Cell(last.key, last.size + Ptr), 0), leaf, Len(L.pages[leaf].cells))
FromLeft(L, p, i) == Taken(L, p, i, Last(L.path), Last(L.pages[Last(L.path)].cells))
Dropped(T, p, i) ==
    IF IsLeaf(T.pages[p]) THEN DropCell(T, p, i)
    ELSE FromLeft(MoveToRightmost([T EXCEPT !.path = Append(@, T.pages[p].kids[i]), !.idx = Append(@, i - 1)]), p, i)
DeleteFrom(T, p, k) == Close(Again(Balance(Dropped(T, p, Place(T.pages[p], k))), Len(T.path)))
DeleteAtCursor(T, k) == DeleteFrom(T, Last(T.path), k)
Delete(T, k) == DeleteAtCursor(Open(T, k), k)

(***************************************************************************)
Entries(T, p) == {[T.pages[p].cells[i] EXCEPT !.size = @ - (IF IsLeaf(T.pages[p]) THEN 0 ELSE Ptr)] :
                     i \in DOMAIN T.pages[p].cells}
content ==
    LET all == UNION {Entries(tree, p) : p \in {q \in DOMAIN tree.pages : ~LeafData \/ IsLeaf(tree.pages[q])}}
    IN  [k \in {c.key : c \in all} |-> {c.size : c \in {d \in all : d.key = k}}]

Nothing == [op |-> "none"]
Init ==
    /\ form \in Forms
    /\ tree = [pages |-> Root :> Leaf(<<>>), path |-> <<>>, idx |-> <<>>, bad |-> FALSE]
    /\ todo \in form.initial
    /\ ops = 0 /\ asked = Nothing
\* The calls: sqlite3BtreeInsert and sqlite3BtreeDelete.
PutEntry(k, size) ==
    /\ asked' = [op |-> "put", key |-> k, entry |-> {size}]
    /\ tree' = Insert(tree, k, size)
RemoveEntry(k) ==
    /\ asked' = [op |-> "remove", key |-> k]
    /\ tree' = Delete(tree, k)
\* An insertion of the sequence a behaviour begins with, then any operations.
Load ==
    /\ todo # <<>> /\ todo' = Tail(todo)
    /\ PutEntry(Head(todo)[1], Head(todo)[2])
    /\ UNCHANGED <<form, ops>>
Count == todo = <<>> /\ ops < form.maxOps /\ ops' = ops + 1 /\ UNCHANGED <<form, todo>>
DoInsert == \E k \in Key, size \in Size : Count /\ PutEntry(k, size)
DoDelete == \E k \in DOMAIN content : Count /\ RemoveEntry(k)
Next == Load \/ DoInsert \/ DoDelete
Spec == Init /\ [][Next]_vars

(***************************************************************************)
(* Properties.                                                             *)
(***************************************************************************)
\* Every page is the child of one page, and no page has more than it holds.
Kid == UNION {Range(tree.pages[p].kids) : p \in DOMAIN tree.pages}
TypeOK ==
    /\ ops \in 0 .. form.maxOps
    /\ tree.path = <<>> /\ Kid \cup {Root} = DOMAIN tree.pages
    /\ \A p \in DOMAIN tree.pages : \A c \in Range(tree.pages[p].cells) : c.key \in Key /\ c.size \in 1 .. Space

\* What balance leaves is a balanced tree: each page has one parent, the leaves are equally
\* deep, no cell is left in a buffer, no page but page 1 is empty.
RECURSIVE Depths(_)
Depths(p) == IF IsLeaf(tree.pages[p]) THEN {1} ELSE {d + 1 : d \in UNION {Depths(q) : q \in Range(tree.pages[p].kids)}}
Shape ==
    /\ Cardinality(Depths(Root)) = 1
    /\ Cardinality(Kid) = FoldSet(LAMBDA p, n : n + Len(tree.pages[p].kids), 0, DOMAIN tree.pages)
    /\ \A p \in DOMAIN tree.pages :
         LET page == tree.pages[p]
         IN  /\ page.ov = {} /\ nFree(tree, p) >= 0
             /\ IsLeaf(page) \/ Len(page.kids) = Len(page.cells) + 1
             /\ page.cells # <<>> \/ (p = Root /\ (Hdr > 0 \/ IsLeaf(page)))

\* A search goes where the entry is: the keys under each child lie between its dividers.
RECURSIVE Between(_, _, _)
Between(p, lo, hi) ==
    LET page == tree.pages[p]
        n == Len(page.cells)
        key(i) == IF i = 0 THEN lo ELSE IF i > n THEN hi ELSE page.cells[i].key
        upTo(i) == IF LeafData \/ i > n THEN key(i) ELSE key(i) - 1
    IN  /\ \A i \in 1 .. n : key(i - 1) < key(i) /\ key(i) <= hi
        /\ \A i \in DOMAIN page.kids : Between(page.kids[i], key(i - 1), upTo(i))
Ordered ==
    /\ Between(Root, -1, Max(Key))

\* balance never trips over its own arithmetic: no page is given no cell, three siblings never
\* need more than five pages, the free space recorded is what the cells leave.
NeverFails == ~tree.bad

\* The tree is one between any two calls: balanced, in order, its pages' space right.
TreeSound == TypeOK /\ Shape /\ Ordered /\ NeverFails

\* Whatever it does to the pages, an insert puts the entry it was given under the key it was
\* given, a delete removes the entry of its key, and no other entry is lost, duplicated or
\* changed; a scan changes none.
Map == INSTANCE OrderedMap WITH
    Key <- UNION {f.keys : f \in Forms}, Entry <- {{n} : n \in UNION {f.sizes : f \in Forms}}, map <- content
MapSpec == Map!Spec
=============================================================================
