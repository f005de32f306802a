------------------------------ MODULE FreePages ------------------------------
(***************************************************************************)
(* The free list and auto_vacuum: allocateBtreePage, freePage2,            *)
(* btreeCreateTable, btreeDropTable, relocatePage, incrVacuumStep,         *)
(* autoVacuumCommit, and what they ask of the pager: pages that are not    *)
(* read (NOCONTENT), not journalled or not written, because a free leaf    *)
(* has no content.                                                         *)
(*                                                                         *)
(* A table is a root page and a sequence of child pages (b-tree or         *)
(* overflow pages); a child's data is a fresh number.  Page 1 and the      *)
(* pointer-map pages are always journalled: they are the fields first ..   *)
(* map, saved in `orig`.  Nothing fails and no power is lost (Pager has    *)
(* that), no savepoints.  What newDatabase fixes for a file is one of      *)
(* Forms: its auto_vacuum mode ("NONE", "FULL", "INCREMENTAL"), and what   *)
(* follows from the page size, Entries for usableSize/5 and MaxLeaf for    *)
(* usableSize/4 - 8.  MaxPage and a form's MaxTables and MaxData bound a   *)
(* behaviour.                                                              *)
(*                                                                         *)
(* A definition headed "Fault of X" is not part of the specification: it   *)
(* is what X would be with a bug, and shows that a property notices.       *)
(***************************************************************************)
EXTENDS Integers, Sequences, FiniteSets
LOCAL INSTANCE SequencesExt
LOCAL INSTANCE FiniteSetsExt

CONSTANTS Forms, MaxPage

ASSUME FormAssumption ==
    /\ \A f \in Forms : f.autoVacuum \in {"NONE", "FULL", "INCREMENTAL"}
    /\ \A f \in Forms : {f.entries, f.maxLeaf, f.maxTables, f.maxData} \subseteq Nat \ {0}
    /\ MaxPage \in Nat \ {0}

VARIABLES
    s,          \* BtShared, page 1, the pointer map, and the pager: see Init
    fresh,      \* the next new data
    form        \* of the file

vars == <<s, fresh, form>>

AutoVacuum == form.autoVacuum
Entries == form.entries
MaxLeaf == form.maxLeaf
MaxTables == form.maxTables
MaxData == form.maxData

PageNo == 1 .. MaxPage
Junk == [kind |-> "junk"]
Root(kids) == [kind |-> "root", kids |-> kids]
Child(d) == [kind |-> "child", data |-> d]
Trunk(next, leaves) == [kind |-> "trunk", next |-> next, leaves |-> leaves]

PTRMAP_PAGENO(p) == ((p - 2) \div (Entries + 1)) * (Entries + 1) + 2
PTRMAP_ISPAGE(p) == AutoVacuum # "NONE" /\ p > 1 /\ PTRMAP_PAGENO(p) = p
Entry(type, parent) == [type |-> type, parent |-> parent]

\* newDatabase.
Init ==
    /\ form \in Forms
    /\ s = [first |-> 0, nFree |-> 0, nPage |-> 1, maxRoot |-> 1, roots |-> {},
            map |-> [p \in PageNo |-> Entry("none", 0)],
            \* BtShared: pHasContent and its size (0: not created), bDoTruncate
            has |-> {}, hasSize |-> 0, doTruncate |-> FALSE,
            \* the pager: pages as read, pages in the file, records and pInJournal
            img |-> [p \in PageNo |-> Junk], disk |-> [p \in PageNo |-> Junk],
            rec |-> <<>>, inJournal |-> {}, dirty |-> {}, dontWrite |-> {}, dbSize |-> 1,
            orig |-> <<>>,          \* first .. map when the transaction began
            bad |-> FALSE]          \* SQLITE_CORRUPT was returned, or an assertion failed
    /\ fresh = 1

Bad(t) == [t EXCEPT !.bad = TRUE]
InTrans == s.orig # <<>>
Meta(t) == [first |-> t.first, nFree |-> t.nFree, nPage |-> t.nPage, maxRoot |-> t.maxRoot, roots |-> t.roots, map |-> t.map]

(***************************************************************************)
(* The pager.                                                              *)
(***************************************************************************)
\* sqlite3PagerWrite of page p, and the new content.
Write(t, p, c) ==
    LET known == p \in t.inJournal \/ p > t.orig[1].nPage
    IN  [t EXCEPT !.rec = IF known THEN @ ELSE [q \in DOMAIN @ \cup {p} |-> IF q = p THEN t.img[p] ELSE @[q]],
                  !.inJournal = IF known THEN @ ELSE @ \cup {p},
                  !.img[p] = c, !.dirty = @ \cup {p}, !.dontWrite = @ \ {p},
                  !.dbSize = Max({@, p})]

\* btreeGetUnusedPage: with NOCONTENT the page counts as journalled.
GetUnused(t, p, noContent) ==
    IF noContent THEN [t EXCEPT !.img[p] = Junk, !.inJournal = IF p <= t.orig[1].nPage THEN @ \cup {p} ELSE @]
    ELSE IF p > t.dbSize THEN [t EXCEPT !.img[p] = Junk]
    ELSE t

\* sqlite3PagerMovepage: the page `from` is read from the file when it is next wanted.
Movepage(t, from, to) ==
    [t EXCEPT !.img = [@ EXCEPT ![to] = t.img[from], ![from] = t.disk[from]],
              !.dirty = (@ \ {from}) \cup {to}, !.dontWrite = @ \ {from, to}]

\* sqlite3PagerDontWrite.
DontWrite(t, p) == IF p \in t.dirty THEN [t EXCEPT !.dontWrite = @ \cup {p}] ELSE t

\* A page is written to the file before the commit (pagerStress).
Spill ==
    \E p \in s.dirty :
        /\ s' = [s EXCEPT !.dirty = @ \ {p}, !.disk[p] = IF p \in s.dontWrite THEN @ ELSE s.img[p]]
        /\ UNCHANGED <<fresh, form>>

(***************************************************************************)
(* The free list.                                                          *)
(***************************************************************************)
Trunks(t) ==
    LET Chain[n \in 0 .. t.nFree] ==
            IF n = 0 THEN <<>>
            ELSE LET c == Chain[n - 1]
                     p == IF c = <<>> THEN t.first ELSE t.img[c[Len(c)]].next
                 IN  IF p = 0 \/ (c # <<>> /\ Len(c) < n - 1) THEN c ELSE Append(c, p)
    IN  Chain[t.nFree]

Put(t, p, type, parent) == IF AutoVacuum = "NONE" THEN t ELSE [t EXCEPT !.map[p] = Entry(type, parent)]

\* Fault of HasContent: the bit vector is not consulted.
HasContentNever(t, p) == FALSE
\* btreeGetHasContent.
HasContent(t, p) == t.hasSize # 0 /\ (p > t.hasSize \/ p \in t.has)
\* btreeSetHasContent.
SetHasContent(t, p) ==
    LET size == IF t.hasSize = 0 THEN t.nPage ELSE t.hasSize
    IN  [t EXCEPT !.hasSize = size, !.has = IF p <= size THEN @ \cup {p} ELSE @]

\* freePage2: a leaf of the first trunk, or a new first trunk.
FreePage(t, p) ==
    LET u == Put([t EXCEPT !.nFree = @ + 1], p, "free", 0)
        trunk == t.img[t.first]
    IN  IF t.nFree # 0 /\ Len(trunk.leaves) < MaxLeaf
        THEN SetHasContent(DontWrite(Write(u, t.first, Trunk(trunk.next, Append(trunk.leaves, p))), p), p)
        ELSE [Write(u, p, Trunk(IF t.nFree = 0 THEN 0 ELSE t.first, <<>>)) EXCEPT !.first = p]

\* The trunk after pages[i - 1] (the list's head for i = 1) becomes `next`.
Link(t, chain, i, next) ==
    IF i = 1 THEN [t EXCEPT !.first = next]
    ELSE Write(t, chain[i - 1], Trunk(next, t.img[chain[i - 1]].leaves))

Taken(t, p) == [st |-> [t EXCEPT !.nFree = @ - 1], page |-> p]

\* Trunk i itself: its first leaf, if any, takes its place.
TakeTrunk(t, chain, i) ==
    LET p == chain[i]
        trunk == t.img[p]
        u == Write(t, p, trunk)
    IN  IF trunk.leaves = <<>> THEN Taken(Link(u, chain, i, trunk.next), p)
        ELSE Taken(Link(Write(u, trunk.leaves[1], Trunk(trunk.next, Tail(trunk.leaves))), chain, i, trunk.leaves[1]), p)

\* Leaf k of trunk i: the last leaf takes its place.
TakeLeaf(t, chain, i, k) ==
    LET trunk == t.img[chain[i]]
        p == trunk.leaves[k]
        n == Len(trunk.leaves)
        left == SubSeq(IF k < n THEN [trunk.leaves EXCEPT ![k] = trunk.leaves[n]] ELSE trunk.leaves, 1, n - 1)
        u == Write(t, chain[i], Trunk(trunk.next, left))
    IN  Taken(Write(GetUnused(u, p, ~HasContent(u, p)), p, Junk), p)

\* The end of the file.
Extend(t) ==
    LET n == IF PTRMAP_ISPAGE(t.nPage + 1) THEN t.nPage + 2 ELSE t.nPage + 1
    IN  [st |-> Write(GetUnused([t EXCEPT !.nPage = n], n, ~t.doTruncate), n, Junk), page |-> n]

\* allocateBtreePage: the outcomes, for the pages `nearby` that a caller may name.
AllocateAny(t) ==
    IF t.nFree = 0 THEN {Extend(t)}
    ELSE LET leaves == t.img[t.first].leaves
         IN  IF leaves = <<>> THEN {TakeTrunk(t, <<t.first>>, 1)}
             ELSE {TakeLeaf(t, <<t.first>>, 1, k) : k \in DOMAIN leaves}
AllocateFirst(t) ==     \* nearby = 0
    IF t.nFree = 0 THEN Extend(t)
    ELSE IF t.img[t.first].leaves = <<>> THEN TakeTrunk(t, <<t.first>>, 1)
    ELSE TakeLeaf(t, <<t.first>>, 1, 1)

\* The search of the whole list, for a page that is wanted.
WantedLeaves(t, trunk, wanted) == {k \in DOMAIN t.img[trunk].leaves : t.img[trunk].leaves[k] \in wanted}
TakeWanted(t, chain, i, wanted) ==
    IF chain[i] \in wanted THEN TakeTrunk(t, chain, i)
    ELSE TakeLeaf(t, chain, i, Min(WantedLeaves(t, chain[i], wanted)))
AllocateFrom(t, chain, wanted) ==
    LET good == {i \in DOMAIN chain : chain[i] \in wanted \/ WantedLeaves(t, chain[i], wanted) # {}}
    IN  IF good = {} THEN [st |-> Bad(t), page |-> 0] ELSE TakeWanted(t, chain, Min(good), wanted)
AllocateWanted(t, wanted) == AllocateFrom(t, Trunks(t), wanted)

AllocateExact(t, p) ==
    IF t.nFree > 0 /\ p <= t.nPage /\ t.map[p].type = "free" THEN {AllocateWanted(t, {p})}
    ELSE AllocateAny(t)

AllocateLE(t, p) ==
    IF t.nFree > 0 THEN AllocateWanted(t, 1 .. p) ELSE Extend(t)

(***************************************************************************)
(* relocatePage.                                                           *)
(***************************************************************************)
Replaced(kids, a, b) == [i \in DOMAIN kids |-> IF kids[i] = a THEN b ELSE kids[i]]
\* setChildPtrmaps.
ChildPtrmaps(t, p) ==
    IF t.img[p].kind # "root" THEN t
    ELSE FoldLeft(LAMBDA u, c : Put(u, c, "btree", p), t, t.img[p].kids)

Relocate(t, from, to) ==
    LET e == t.map[from]
        u == ChildPtrmaps(Movepage(t, from, to), to)
    IN  IF from < 3 \/ e.type \notin {"root", "btree"} THEN Bad(t)
        ELSE IF e.type = "root" THEN u
        ELSE Put(Write(u, e.parent, Root(Replaced(u.img[e.parent].kids, from, to))), to, "btree", e.parent)

(***************************************************************************)
(* Tables and their pages, in a write transaction.                         *)
(***************************************************************************)
Begin ==
    /\ ~InTrans
    /\ s' = [s EXCEPT !.orig = <<Meta(s)>>]
    /\ UNCHANGED <<fresh, form>>

NextRoot(p) == IF PTRMAP_ISPAGE(p + 1) THEN p + 2 ELSE p + 1
LastRoot(p) == IF PTRMAP_ISPAGE(p - 1) THEN p - 2 ELSE p - 1

Room == s.nFree > 0 \/ s.nPage + 2 <= MaxPage     \* a bound

\* With auto_vacuum the root is the page after the last one's, moved out of the way if it is in use.
NewTable(t, p) == [Put(Write(t, p, Root(<<>>)), p, "root", 0) EXCEPT !.roots = @ \cup {p}]
CreateTable ==
    /\ InTrans /\ Room /\ Cardinality(s.roots) < MaxTables
    /\ IF AutoVacuum = "NONE" THEN \E a \in AllocateAny(s) : s' = NewTable(a.st, a.page)
       ELSE LET root == NextRoot(s.maxRoot)
            IN  \E a \in AllocateExact(s, root) :
                    s' = [NewTable(IF a.page = root THEN a.st ELSE Relocate(a.st, root, a.page), root) EXCEPT !.maxRoot = root]
    /\ UNCHANGED <<fresh, form>>

\* A page joins a table: a split, a deeper tree, an overflow page.
AddPage ==
    /\ InTrans /\ Room /\ fresh <= MaxData
    /\ \E r \in s.roots, a \in AllocateAny(s) :
        s' = Put(Write(Write(a.st, a.page, Child(fresh)), r, Root(Append(a.st.img[r].kids, a.page))), a.page, "btree", r)
    /\ fresh' = fresh + 1 /\ UNCHANGED form

ChangePage ==
    /\ InTrans /\ fresh <= MaxData
    /\ \E r \in s.roots : \E i \in DOMAIN s.img[r].kids : s' = Write(s, s.img[r].kids[i], Child(fresh))
    /\ fresh' = fresh + 1 /\ UNCHANGED form

RemovePage ==
    /\ InTrans
    /\ \E r \in s.roots : \E i \in DOMAIN s.img[r].kids :
        s' = FreePage(Write(s, r, Root(RemoveAt(s.img[r].kids, i))), s.img[r].kids[i])
    /\ UNCHANGED <<fresh, form>>

\* btreeDropTable: the last root takes the place of the dropped one.
DropTable ==
    /\ InTrans
    /\ \E r \in s.roots :
        LET cleared == Write(FoldLeft(FreePage, s, s.img[r].kids), r, Root(<<>>))
            last == IF AutoVacuum = "NONE" THEN r ELSE s.maxRoot
            moved == IF r = last THEN cleared ELSE Relocate(cleared, last, r)
        IN  s' = [FreePage(moved, last) EXCEPT !.roots = @ \ {last},
                      !.maxRoot = IF AutoVacuum = "NONE" THEN @ ELSE LastRoot(@)]
    /\ UNCHANGED <<fresh, form>>

(***************************************************************************)
(* Vacuum.                                                                 *)
(***************************************************************************)
\* Fault of FinalDbSize: their number is rounded up.
FinalDbSizeRoundedUp(nOrig, nFree) ==
    LET nPtrmap == (nFree - nOrig + PTRMAP_PAGENO(nOrig) + 2 * Entries) \div Entries
        nFin == nOrig - nFree - nPtrmap
    IN  IF PTRMAP_ISPAGE(nFin) THEN nFin - 1 ELSE nFin
FinalDbSize(nOrig, nFree) ==
    LET nPtrmap == (nFree - nOrig + PTRMAP_PAGENO(nOrig) + Entries) \div Entries
        nFin == nOrig - nFree - nPtrmap
    IN  IF PTRMAP_ISPAGE(nFin) THEN nFin - 1 ELSE nFin

\* The free page, at most nFin, to move the last page to: at commit whatever the list has is taken.
FreeAtMost(t, nFin, commit) ==
    LET Try[n \in 0 .. t.nFree] ==
            IF n = 0 THEN AllocateFirst(t)
            ELSE LET a == Try[n - 1] IN IF a.page > nFin /\ a.st.nFree > 0 THEN AllocateFirst(a.st) ELSE a
    IN  IF commit THEN Try[t.nFree] ELSE AllocateLE(t, nFin)

\* incrVacuumStep for the page `last`, for which the list gave a; nPage changes only before the commit.
Moved(t, last, a) == IF a.st.bad \/ a.page >= last THEN Bad(t) ELSE Relocate(a.st, last, a.page)
Vacated(t, nFin, last, commit) ==
    IF PTRMAP_ISPAGE(last) \/ t.nFree = 0 THEN t
    ELSE CASE t.map[last].type = "root" -> Bad(t)
           [] t.map[last].type = "free" -> IF commit THEN t ELSE (CHOOSE b \in AllocateExact(t, last) : TRUE).st
           [] OTHER -> Moved(t, last, FreeAtMost(t, nFin, commit))
Shrunk(t, last) == [t EXCEPT !.doTruncate = TRUE, !.nPage = LastRoot(last)]
VacuumStep(t, nFin, last, commit) ==
    IF commit THEN Vacated(t, nFin, last, TRUE) ELSE Shrunk(Vacated(t, nFin, last, FALSE), last)

\* sqlite3BtreeIncrVacuum.
IncrVacuum ==
    /\ InTrans /\ AutoVacuum # "NONE" /\ s.nFree > 0
    /\ s' = VacuumStep(s, FinalDbSize(s.nPage, s.nFree), s.nPage, FALSE)
    /\ UNCHANGED <<fresh, form>>

\* autoVacuumCommit.
VacuumTo(t, nFin) ==
    LET pages == [i \in 1 .. t.nPage - nFin |-> t.nPage + 1 - i]
    IN  [FoldLeft(LAMBDA v, p : VacuumStep(v, nFin, p, TRUE), t, pages)
            EXCEPT !.first = 0, !.nFree = 0, !.nPage = nFin, !.doTruncate = TRUE]
Vacuumed(t) ==
    LET nFin == FinalDbSize(t.nPage, t.nFree)
    IN  CASE AutoVacuum # "FULL" -> t
          [] AutoVacuum = "FULL" /\ (PTRMAP_ISPAGE(t.nPage) \/ nFin > t.nPage) -> Bad(t)
          [] OTHER -> IF t.nFree > 0 THEN VacuumTo(t, nFin) ELSE t

Ended(t) ==
    [t EXCEPT !.has = {}, !.hasSize = 0, !.doTruncate = FALSE, !.rec = <<>>, !.inJournal = {},
              !.dirty = {}, !.dontWrite = {}, !.orig = <<>>]

\* The file after the commit: pager_write_pagelist, and the file cut to the image.
Stored(t, size) ==
    [p \in PageNo |-> IF p > size THEN Junk
                      ELSE IF p \in t.dirty \ t.dontWrite THEN t.img[p] ELSE t.disk[p]]

Committed(t, size) ==
    [Ended(t) EXCEPT !.disk = Stored(t, size), !.dbSize = size,
                     !.img = [p \in PageNo |-> IF p > size THEN Junk ELSE t.img[p]]]
Closed(t) == Committed(t, IF t.doTruncate THEN t.nPage ELSE t.dbSize)
Commit ==
    /\ InTrans
    /\ s' = Closed(Vacuumed(s))
    /\ UNCHANGED <<fresh, form>>

\* The file after a roll back (pager_playback).
Restored(t) ==
    [p \in PageNo |-> IF p > t.orig[1].nPage THEN Junk ELSE IF p \in DOMAIN t.rec THEN t.rec[p] ELSE t.disk[p]]

Rollback ==
    /\ InTrans
    /\ LET m == s.orig[1]
       IN  s' = [Ended(s) EXCEPT !.disk = Restored(s), !.img = Restored(s), !.dbSize = m.nPage,
                     !.first = m.first, !.nFree = m.nFree, !.nPage = m.nPage,
                     !.maxRoot = m.maxRoot, !.roots = m.roots, !.map = m.map]
    /\ UNCHANGED <<fresh, form>>

Next ==
    \/ Begin \/ CreateTable \/ AddPage \/ ChangePage \/ RemovePage \/ DropTable
    \/ IncrVacuum \/ Spill \/ Commit \/ Rollback

Spec == Init /\ [][Next]_vars

(***************************************************************************)
(* Properties.                                                             *)
(***************************************************************************)
Uses(t) == [r \in t.roots |-> {r} \cup Range(t.img[r].kids)]
Free(t) == LET chain == Trunks(t) IN UNION {{chain[i]} \cup Range(t.img[chain[i]].leaves) : i \in DOMAIN chain}

TypeOK ==
    /\ s.nPage \in PageNo /\ s.nFree \in 0 .. MaxPage /\ s.first \in 0 .. MaxPage
    /\ s.roots \subseteq PageNo /\ s.inJournal \subseteq PageNo /\ DOMAIN s.rec \subseteq s.inJournal
    /\ s.dontWrite \subseteq PageNo /\ s.has \subseteq 1 .. s.hasSize
    /\ fresh \in 1 .. MaxData + 1

\* No operation meets SQLITE_CORRUPT or fails an assertion in a file that only these operations
\* made: a vacuum step finds a free page below the one it moves, and never moves a root.
NeverCorrupt == ~s.bad

\* What PRAGMA integrity_check verifies: every page is used once, by one table, by the free
\* list or as a pointer map; the count of free pages is right.
EveryPageOnce ==
    LET chain == Trunks(s)
        leaves == FoldLeft(LAMBDA n, p : n + Len(s.img[p].leaves), 0, chain)
        kids == FoldFunction(LAMBDA f, n : n + Cardinality(f), 0, Uses(s))
    IN  /\ s.nFree = Len(chain) + leaves /\ s.nFree = Cardinality(Free(s))
        /\ UNION Range(Uses(s)) \cap Free(s) = {}
        /\ UNION Range(Uses(s)) \cup Free(s) = {p \in 2 .. s.nPage : ~PTRMAP_ISPAGE(p)}
        /\ kids = Cardinality(UNION Range(Uses(s)))

\* The pointer map says who uses each page, so that any page can be moved; the roots come
\* first, so that a vacuum never has to move one.
MapRight ==
    AutoVacuum # "NONE" =>
        /\ \A r \in s.roots : s.map[r] = Entry("root", 0) /\ \A p \in Range(s.img[r].kids) : s.map[p] = Entry("btree", r)
        /\ \A p \in Free(s) : s.map[p] = Entry("free", 0)
        /\ s.roots = {p \in 3 .. s.maxRoot : ~PTRMAP_ISPAGE(p)}

\* The three together: what a check of the file finds after any of these operations.
FileSound == TypeOK /\ NeverCorrupt /\ EveryPageOnce /\ MapRight

\* The tables a file holds, and what a roll back would make of them: a free leaf is neither
\* journalled nor written, and no page with content is ever taken for one; vacuum moves
\* pages and changes no table.  The whole implements TableStore.
Tables(roots, img) ==
    LET data(r) == IF img[r].kind = "root" THEN [i \in DOMAIN img[r].kids |-> img[img[r].kids[i]]] ELSE <<Junk>>
        all == {data(r) : r \in roots}
    IN  [q \in all |-> Cardinality({r \in roots : data(r) = q})]

Store == INSTANCE TableStore WITH
    Datum <- {Child(d) : d \in 1 .. Max({f.maxData : f \in Forms})},
    open <- InTrans,
    tables <- Tables(s.roots, s.img),
    saved <- IF InTrans THEN Tables(s.orig[1].roots, Restored(s)) ELSE Tables(s.roots, s.disk)
StoreSpec == Store!Spec
=============================================================================
