------------------------------ MODULE BTreePage ------------------------------
(***************************************************************************)
(* The space of one b-tree page: allocateSpace, pageFindSlot, freeSpace,   *)
(* defragmentPage, insertCell, dropCell, and editPage with pageFreeArray,  *)
(* pageInsertArray and rebuildPage, which balancing uses.                  *)
(*                                                                         *)
(*   0        cellOffset        cellOffset+2n      top          Usable     *)
(*   | header | cell pointers ... | gap           | cells, free blocks |   *)
(*                                                                         *)
(* A byte of a cell holds the cell's number, another byte 0; the size of a *)
(* cell is read from its bytes.  The list of free blocks is a sequence.    *)
(* Cells of an edited page that come from elsewhere are not on this page   *)
(* (BTree has the order in which the siblings are edited).  A page that is *)
(* found corrupt is `bad`.  Usable is small: a size_t never wraps, and     *)
(* MaxFrag stands for the 57 of pageFindSlot.                              *)
(*                                                                         *)
(* A definition headed "Fault of X" is not part of the specification: it   *)
(* is what X would be with a bug, and shows that a property notices.       *)
(***************************************************************************)
EXTENDS Integers, Sequences, FiniteSets
LOCAL INSTANCE SequencesExt
LOCAL INSTANCE FiniteSetsExt

CONSTANTS
    Usable,     \* BtShared.usableSize
    Size,       \* the size of each cell there is: a sequence
    MaxFrag     \* 57 in the code

SpaceOK ==
    Usable \in Nat /\ MaxFrag \in Nat /\ Size \in Seq(Nat) /\ \A c \in DOMAIN Size : Size[c] >= 4

VARIABLE page

vars == <<page>>

cellOffset == 8
Cell == DOMAIN Size
CellsOf(P) == [i \in DOMAIN P.ptr |-> P.data[P.ptr[i]]]
Absent(P) == {c \in Cell : \A a \in DOMAIN P.data : P.data[a] # c}
iCellFirst(P) == cellOffset + 2 * Len(P.ptr)
SizeAt(P, a) == IF P.data[a] = 0 THEN 4 ELSE Size[P.data[a]]
Bytes(c) == [k \in 0 .. Size[c] - 1 |-> c]
BytesAt(P, a, c) == [k \in 0 .. Size[c] - 1 |-> P.data[a + k]]
SizeOf(cells) == FoldLeft(LAMBDA n, c : n + Size[c] + 2, 0, cells)

\* zeroPage.
Empty == [ptr |-> <<>>, data |-> [a \in 0 .. Usable - 1 |-> 0], free |-> <<>>, top |-> Usable,
          frag |-> 0, nFree |-> Usable - cellOffset, bad |-> FALSE]

Init == page = Empty

Bad(P) == [P EXCEPT !.bad = TRUE]
Filled(data, at, n, c) == [a \in DOMAIN data |-> IF a \in at .. at + n - 1 THEN c ELSE data[a]]
Block(a, n) == [at |-> a, size |-> n]

(***************************************************************************)
(* pageFindSlot: the page without the slot, and its place (0: none).       *)
(***************************************************************************)
FindSlot(P, n) ==
    LET fits == {k \in DOMAIN P.free : P.free[k].size >= n}
        k == Min(fits)
        x == P.free[k].size - n
    IN  IF fits = {} \/ (x < 4 /\ P.frag > MaxFrag) THEN [page |-> P, at |-> 0]
        ELSE [page |-> IF x < 4 THEN [P EXCEPT !.free = RemoveAt(@, k), !.frag = @ + x]
                                ELSE [P EXCEPT !.free[k].size = x],
              at |-> P.free[k].at + x]

(***************************************************************************)
(* freeSpace(P, start, n): joined with the next block and the one before.  *)
(***************************************************************************)
\* Fault of JoinNext: the fragment bytes between the two are forgotten.
JoinNextNoFrag(P, start, end, i) ==
    IF i < Len(P.free) /\ end + 3 >= P.free[i + 1].at
    THEN [end |-> P.free[i + 1].at + P.free[i + 1].size, frag |-> 0, gone |-> {i + 1}]
    ELSE [end |-> end, frag |-> 0, gone |-> {}]
JoinNext(P, start, end, i) ==
    IF i < Len(P.free) /\ end + 3 >= P.free[i + 1].at
    THEN [end |-> P.free[i + 1].at + P.free[i + 1].size, frag |-> P.free[i + 1].at - end, gone |-> {i + 1}]
    ELSE [end |-> end, frag |-> 0, gone |-> {}]

JoinBefore(P, start, i) ==
    IF i > 0 /\ P.free[i].at + P.free[i].size + 3 >= start
    THEN [start |-> P.free[i].at, frag |-> start - P.free[i].at - P.free[i].size, gone |-> {i}]
    ELSE [start |-> start, frag |-> 0, gone |-> {}]

FreeSpace(P, start, n) ==
    LET i == Cardinality({k \in DOMAIN P.free : P.free[k].at < start})
        next == JoinNext(P, start, start + n, i)
        before == JoinBefore(P, start, i)
        frag == next.frag + before.frag
        kept == [k \in 1 .. i - Cardinality(before.gone) |-> P.free[k]]
        rest == SubSeq(P.free, i + 1 + Cardinality(next.gone), Len(P.free))
        new == Block(before.start, next.end - before.start)
    IN  IF \/ next.frag < 0 \/ before.frag < 0 \/ next.end > Usable \/ frag > P.frag
           \/ before.start < P.top \/ (before.start = P.top /\ i > 0)
        THEN Bad(P)
        ELSE [P EXCEPT !.frag = @ - frag,
                       !.nFree = @ + n,
                       !.top = IF before.start = @ THEN next.end ELSE @,
                       !.free = IF before.start = P.top THEN rest ELSE kept \o <<new>> \o rest,
                       !.data = Filled(@, new.at, new.size, 0)]

(***************************************************************************)
(* defragmentPage: with at most two free blocks and few fragments the      *)
(* cells before them are moved up, else all cells are packed in order.     *)
(***************************************************************************)
Shift(P, at, sz, sz2) ==    \* how far the cells at `at` move
    IF at < P.free[1].at THEN sz + sz2 ELSE IF Len(P.free) = 2 /\ at < P.free[2].at THEN sz2 ELSE 0

Slid(P) ==
    LET sz == P.free[1].size
        sz2 == IF Len(P.free) = 2 THEN P.free[2].size ELSE 0
        from(a) == {b \in P.top .. Usable - 1 : b + Shift(P, b, sz, sz2) = a
                        /\ \A k \in DOMAIN P.free : b \notin P.free[k].at .. P.free[k].at + P.free[k].size - 1}
    IN  [P EXCEPT !.ptr = [i \in DOMAIN @ |-> @[i] + Shift(P, @[i], sz, sz2)],
                  !.data = [a \in DOMAIN @ |-> IF from(a) = {} THEN 0 ELSE @[Max(from(a))]],
                  !.free = <<>>, !.top = @ + sz + sz2]

\* Cells at the end of the page, in order; their bytes, cell by cell.
Packed(P, cells, bytes) ==
    LET end == FoldLeft(LAMBDA s, c : Append(s, s[Len(s)] - Size[c]), <<Usable>>, cells)
    IN  [P EXCEPT !.ptr = [i \in DOMAIN cells |-> end[i + 1]],
                  !.data = [a \in DOMAIN @ |-> IF a < end[Len(end)] THEN 0
                                                ELSE LET i == Max({j \in DOMAIN cells : a < end[j]})
                                                     IN  bytes[i][a - end[i + 1]]],
                  !.free = <<>>, !.frag = 0, !.top = end[Len(end)]]

Defragment(P, nMaxFrag) ==
    LET bytes == [i \in DOMAIN P.ptr |-> BytesAt(P, P.ptr[i], CellsOf(P)[i])]
        Q == IF P.frag <= nMaxFrag /\ Len(P.free) \in {1, 2} THEN Slid(P) ELSE Packed(P, CellsOf(P), bytes)
    IN  IF Q.frag + Q.top - iCellFirst(P) # P.nFree THEN Bad(P) ELSE Q

(***************************************************************************)
(* allocateSpace: the page, and the place.                                 *)
(***************************************************************************)
Least(a, b) == IF a < b THEN a ELSE b

Unslotted(P, n) ==
    LET Q == IF iCellFirst(P) + 2 + n > P.top THEN Defragment(P, Least(4, P.nFree - (2 + n))) ELSE P
    IN  [page |-> [Q EXCEPT !.top = @ - n], at |-> Q.top - n]

AllocateSpace(P, n) ==
    LET slot == IF P.free # <<>> /\ iCellFirst(P) + 2 <= P.top THEN FindSlot(P, n) ELSE [page |-> P, at |-> 0]
    IN  IF iCellFirst(P) > P.top THEN [page |-> Bad(P), at |-> 0]
        ELSE IF slot.at # 0 THEN slot
        ELSE Unslotted(P, n)

(***************************************************************************)
(* insertCell of a cell that fits, and dropCell.                           *)
(***************************************************************************)
Inserted(P, i, c) ==
    LET space == AllocateSpace(P, Size[c])
        Q == space.page
    IN  IF Q.bad THEN Q
        ELSE [Q EXCEPT !.nFree = @ - (2 + Size[c]),
                       !.data = Filled(@, space.at, Size[c], c),
                       !.ptr = InsertAt(@, i, space.at)]
insertCell ==
    \E c \in Absent(page), i \in 1 .. Len(page.ptr) + 1 :
        /\ Size[c] + 2 <= page.nFree
        /\ page' = Inserted(page, i, c)

Dropped(P, i) ==
    LET Q == FreeSpace(P, P.ptr[i], SizeAt(P, P.ptr[i]))
    IN  IF Q.bad THEN Q
        ELSE IF Len(P.ptr) = 1 THEN Empty
        ELSE [Q EXCEPT !.ptr = RemoveAt(@, i), !.nFree = @ + 2]
dropCell == \E i \in DOMAIN page.ptr : page' = Dropped(page, i)

(***************************************************************************)
(* editPage: from the cells `old` of the page to the window `new` of the   *)
(* array that balancing laid out; at[c] is where a cell of the page is.    *)
(***************************************************************************)
\* pageFreeArray: cells that lie one before the other are freed together.
PageFreeArray(P, cells, at) ==
    LET Take(r, c) ==
            IF r.at = at[c] + Size[c] THEN [r EXCEPT !.at = at[c], !.n = @ + Size[c]]
            ELSE [page |-> IF r.n = 0 THEN r.page ELSE FreeSpace(r.page, r.at, r.n), at |-> at[c], n |-> Size[c]]
        run == FoldLeft(Take, [page |-> P, at |-> -1, n |-> 0], cells)
    IN  IF run.n = 0 THEN P ELSE FreeSpace(run.page, run.at, run.n)

\* pageInsertArray: r.top is its pData, r.begin the end of the cell pointers, r.full that a cell did not fit.
PageInsert(r, c) ==
    LET slot == IF r.page.free = <<>> THEN [page |-> r.page, at |-> 0] ELSE FindSlot(r.page, Size[c])
        place == IF slot.at # 0 THEN slot.at ELSE r.top - Size[c]
    IN  IF r.full THEN r
        ELSE IF slot.at = 0 /\ r.top - r.begin < Size[c] THEN [r EXCEPT !.full = TRUE]
        ELSE [r EXCEPT !.page = [slot.page EXCEPT !.data = Filled(@, place, Size[c], c)],
                       !.top = IF slot.at # 0 THEN @ ELSE place,
                       !.at = [@ EXCEPT ![c] = place]]

Edited(P, new) ==
    LET old == CellsOf(P)
        at == [c \in Cell |-> IF \E i \in DOMAIN old : old[i] = c THEN P.ptr[CHOOSE i \in DOMAIN old : old[i] = c] ELSE 0]
        Kept(c) == \E i \in DOMAIN new : new[i] = c
        first == Min({i \in DOMAIN old : Kept(old[i])} \cup {Len(old) + 1})
        Q == PageFreeArray(PageFreeArray(P, SubSeq(old, 1, first - 1), at),
                           SelectSeq(SubSeq(old, first, Len(old)), LAMBDA c : ~Kept(c)), at)
        come == SelectSeq(new, LAMBDA c : at[c] = 0)
        begin == cellOffset + 2 * Len(new)
        r == FoldLeft(PageInsert, [page |-> Q, begin |-> begin, top |-> Q.top, full |-> Q.top < begin, at |-> at], come)
        done == IF r.full   \* rebuildPage: the cells are where the array says
                THEN Packed(Q, new, [i \in DOMAIN new |-> IF at[new[i]] = 0 THEN Bytes(new[i]) ELSE BytesAt(r.page, at[new[i]], new[i])])
                ELSE [r.page EXCEPT !.ptr = [i \in DOMAIN new |-> r.at[new[i]]], !.top = r.top]
    IN  IF Q.bad THEN Q ELSE [done EXCEPT !.nFree = Usable - cellOffset - SizeOf(new)]

\* The window: some cells leave or join at each end, one overflow cell joins anywhere.
editPage ==
    \E from, to \in 0 .. Len(page.ptr), k \in 0 .. Len(page.ptr), extra \in [1 .. 3 -> {0} \cup Absent(page)] :
        LET kept == SubSeq(CellsOf(page), from + 1, to)
            some(c) == IF c = 0 THEN <<>> ELSE <<c>>
            new == some(extra[1]) \o SubSeq(kept, 1, k) \o some(extra[2]) \o SubSeq(kept, k + 1, Len(kept)) \o some(extra[3])
        IN  /\ from <= to /\ k <= Len(kept)
            /\ extra[1] # 0 => from = 0
            /\ extra[2] # 0 => Size[extra[2]] + 2 > page.nFree
            /\ extra[3] # 0 => to = Len(page.ptr)
            /\ IsInjective(new) /\ new # <<>>
            /\ SizeOf(new) <= Usable - cellOffset
            /\ page' = Edited(page, new)

Next == insertCell \/ dropCell \/ editPage

Spec == Init /\ [][Next]_vars

(***************************************************************************)
(* Properties.                                                             *)
(***************************************************************************)
TypeOK ==
    /\ page.ptr \in Seq(0 .. Usable - 1) /\ page.data \in [0 .. Usable - 1 -> {0} \cup Cell]
    /\ page.free \in Seq([at : 0 .. Usable, size : 4 .. Usable])
    /\ page.top \in 0 .. Usable /\ page.frag \in 0 .. MaxFrag + 3 /\ page.nFree \in 0 .. Usable /\ page.bad \in BOOLEAN

\* No operation on a page that only these operations made finds it corrupt: the
\* SQLITE_CORRUPT returns of freeSpace, allocateSpace and defragmentPage are for files that
\* are, and sqlite3_step never answers SQLITE_CORRUPT because of a balance.
NeverCorrupt == ~page.bad

\* The bytes of each cell are its own and whole, wherever it was moved to: no allocation
\* overlaps a cell, and no move loses part of one.
Intact ==
    /\ \A i \in DOMAIN page.ptr :
        LET c == page.data[page.ptr[i]]
        IN  c # 0 /\ {a \in DOMAIN page.data : page.data[a] = c} = page.ptr[i] .. page.ptr[i] + Size[c] - 1
    /\ \A i, j \in DOMAIN page.ptr : page.ptr[i] = page.ptr[j] => i = j

\* What checkTreePage asks of a page: the content area is made of the cells, of free blocks
\* in ascending order that neither touch nor leave fewer than 4 bytes between them, and of
\* `frag` bytes more; the cell pointers end before it; nFree is what btreeInitPage computes
\* when the page is read again.
Accounted ==
    LET covered == {a \in page.top .. Usable - 1 : page.data[a] # 0
                        \/ \E k \in DOMAIN page.free : a \in page.free[k].at .. page.free[k].at + page.free[k].size - 1}
        blocks == FoldLeft(LAMBDA n, b : n + b.size, 0, page.free)
    IN  /\ iCellFirst(page) <= page.top
        /\ \A k \in DOMAIN page.free :
            /\ page.free[k].at >= page.top /\ page.free[k].at + page.free[k].size <= Usable
            /\ k > 1 => page.free[k].at > page.free[k - 1].at + page.free[k - 1].size + 3
            /\ \A a \in page.free[k].at .. page.free[k].at + page.free[k].size - 1 : page.data[a] = 0
        /\ page.frag = Usable - page.top - Cardinality(covered)
        /\ page.nFree = page.frag + page.top + blocks - iCellFirst(page)

\* The three together: a page stays usable, its cells whole and its bytes accounted for.
PageSound == TypeOK /\ NeverCorrupt /\ Intact /\ Accounted
=============================================================================
