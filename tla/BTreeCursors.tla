---------------------------- MODULE BTreeCursors ----------------------------
(***************************************************************************)
(* Cursors that scan a b-tree while it changes.  A change through one      *)
(* cursor first saves the keys of the others (saveAllCursors); each finds  *)
(* its place again, or a neighbour of it, at its next step                 *)
(* (btreeRestoreCursorPosition), and skipNext says on which side the       *)
(* neighbour is.  A scan deletes the row it is on with BTREE_SAVEPOSITION, *)
(* and rewrites it likewise (OP_Delete, OP_Insert of a one-pass loop).     *)
(*                                                                         *)
(* A cursor moves in the direction it was opened in, as OP_Next and OP_Prev*)
(* assert.  Other is what other cursors on the tree do: they seek, so that *)
(* nothing is kept of them.  Own is what a scan does to its row; the form  *)
(* of the b-tree has both, and the cursors that scan it.  The              *)
(* history variable `owed` has the rows a scan has yet to visit, `fresh`   *)
(* those inserted since it began: it may visit these or not.               *)
(***************************************************************************)
EXTENDS BTree
LOCAL INSTANCE SequencesExt
LOCAL INSTANCE FiniteSetsExt

CONSTANT Cursor

ASSUME CursorAssumption ==
    \A f \in Forms :
        f.cursors \subseteq Cursor /\ f.own \subseteq {"delete", "update"} /\ f.other \subseteq {"delete", "insert"}

VARIABLES
    cur,            \* cursor -> st (eState), pages and indexes from the root, skip (skipNext), key (nKey)
    dir,            \* cursor -> 1 or -1
    owed, fresh     \* cursor -> rows

Own == form.own
Other == form.other
cursorVars == <<cur, dir, owed, fresh>>
allVars == <<vars, cursorVars>>

PageOf(T, C) == T.pages[Last(C.path)]
Ix(C) == Last(C.idx)
To(C, i) == [C EXCEPT !.idx = Append(Front(@), i)]
KeyAt(T, C) == PageOf(T, C).cells[Ix(C) + 1].key
Up(C) == [C EXCEPT !.path = Front(@), !.idx = Front(@)]
Down(T, C) == [C EXCEPT !.path = Append(@, PageOf(T, C).kids[Ix(C) + 1]), !.idx = Append(@, 0)]
Invalid(C) == [C EXCEPT !.st = "invalid", !.path = <<>>, !.idx = <<>>]

RECURSIVE MoveToLeftmost(_, _)
MoveToLeftmost(T, C) == IF IsLeaf(PageOf(T, C)) THEN C ELSE MoveToLeftmost(T, Down(T, C))
RECURSIVE ToRightmost(_, _)
ToRightmost(T, C) ==
    LET n == Len(PageOf(T, C).cells)
    IN  IF IsLeaf(PageOf(T, C)) THEN To(C, n - 1) ELSE ToRightmost(T, Down(T, To(C, n)))
Opened(T, C) ==
    IF T.pages[Root] = Leaf(<<>>) THEN Invalid(C) ELSE [C EXCEPT !.st = "valid", !.path = <<Root>>, !.idx = <<0>>]

\* sqlite3BtreeMovetoUnpacked: on a leaf without the key, the last cell the binary search looked at.
RECURSIVE Probe(_, _, _, _)
Probe(cells, k, lwr, upr) ==
    LET i == (lwr + upr) \div 2
        c == cells[i + 1].key
    IN  IF c < k THEN IF i + 1 > upr THEN i ELSE Probe(cells, k, i + 1, upr)
        ELSE IF c > k THEN IF lwr > i - 1 THEN i ELSE Probe(cells, k, lwr, i - 1)
        ELSE i
MoveToKey(T, C, k) ==
    LET at == MoveTo([T EXCEPT !.path = <<Root>>, !.idx = <<>>], k)
        cells == T.pages[Last(at.path)].cells
    IN  IF T.pages[Root] = Leaf(<<>>) THEN Invalid(C)
        ELSE [C EXCEPT !.st = "valid", !.path = at.path, !.idx = Append(at.idx, Probe(cells, k, 0, Len(cells) - 1))]
Compared(T, C, k) ==
    IF C.st = "invalid" \/ KeyAt(T, C) < k THEN -1 ELSE IF KeyAt(T, C) > k THEN 1 ELSE 0

(***************************************************************************)
(* saveCursorPosition and btreeRestoreCursorPosition.                      *)
(***************************************************************************)
Save(T, C) ==
    IF C.st \notin {"valid", "skipnext"} THEN C
    ELSE [Invalid(C) EXCEPT !.st = "seek", !.key = KeyAt(T, C), !.skip = IF C.st = "skipnext" THEN @ ELSE 0]
\* -1 has all bits set.
Or(a, b) == IF -1 \in {a, b} THEN -1 ELSE IF 1 \in {a, b} THEN 1 ELSE 0
\* Fault of Restore: the neighbour found is taken for the row itself.
RestoreExact(T, C) == IF C.st = "seek" THEN MoveToKey(T, C, C.key) ELSE C
Found(M, skip) == [M EXCEPT !.skip = skip, !.st = IF skip # 0 /\ M.st = "valid" THEN "skipnext" ELSE M.st]
Near(T, C, M) == Found(M, Or(C.skip, Compared(T, M, C.key)))
Restore(T, C) == IF C.st = "seek" THEN Near(T, C, MoveToKey(T, C, C.key)) ELSE C

(***************************************************************************)
(* sqlite3BtreeNext and sqlite3BtreePrevious.                              *)
(***************************************************************************)
RECURSIVE Ascend(_, _)
Ascend(T, C) ==
    LET P == Up(C)
    IN  IF Len(C.path) = 1 THEN Invalid(C)
        ELSE IF Ix(P) >= Len(PageOf(T, P).cells) THEN Ascend(T, P)
        ELSE IF LeafData THEN MoveToLeftmost(T, To(P, Ix(P) + 1)) ELSE P
Forward(T, C) ==
    LET D == To(C, Ix(C) + 1)
    IN  IF ~IsLeaf(PageOf(T, C)) THEN MoveToLeftmost(T, D)
        ELSE IF Ix(D) < Len(PageOf(T, D).cells) THEN D ELSE Ascend(T, C)
RECURSIVE Retreat(_, _)
Retreat(T, C) ==
    LET P == Up(C)
        D == To(P, Ix(P) - 1)
    IN  IF Len(C.path) = 1 THEN Invalid(C)
        ELSE IF Ix(P) = 0 THEN Retreat(T, P)
        ELSE IF LeafData THEN ToRightmost(T, Down(T, D)) ELSE D
Backward(T, C) ==
    IF ~IsLeaf(PageOf(T, C)) THEN ToRightmost(T, Down(T, C))
    ELSE IF Ix(C) > 0 THEN To(C, Ix(C) - 1) ELSE Retreat(T, C)
Leave(T, C, d) == IF d = 1 THEN Forward(T, C) ELSE Backward(T, C)
Onward(T, R, d) ==
    CASE R.st = "invalid" -> R
      [] R.st = "valid" -> Leave(T, R, d)
      [] R.st = "skipnext" -> LET C == [R EXCEPT !.st = "valid", !.skip = 0] IN IF R.skip = d THEN C ELSE Leave(T, C, d)
Step(T, C, d) == Onward(T, Restore(T, C), d)

(***************************************************************************)
(* sqlite3BtreeDelete with BTREE_SAVEPOSITION, and sqlite3BtreeInsert with *)
(* it on the row the cursor is on: where they leave the cursor.            *)
(***************************************************************************)
\* Fault of AfterDelete: the cursor stays where an interior cell was.
AfterDeleteAnywhere(T, C) ==
    IF Ix(C) >= Len(PageOf(T, C).cells) - 1 THEN [To(C, Ix(C) - 1) EXCEPT !.st = "skipnext", !.skip = -1]
    ELSE [C EXCEPT !.st = "skipnext", !.skip = 1]
AfterDelete(T, C) ==
    LET page == PageOf(T, C)
        n == Len(page.cells) - 1
    IN  IF ~IsLeaf(page) \/ nFree(T, Last(C.path)) + page.cells[Ix(C) + 1].size > NMin
        THEN [Invalid(C) EXCEPT !.st = "seek", !.key = KeyAt(T, C)]
        ELSE IF Ix(C) >= n THEN [To(C, n - 1) EXCEPT !.st = "skipnext", !.skip = -1]
        ELSE [C EXCEPT !.st = "skipnext", !.skip = 1]
AfterUpdate(T, C, size) ==
    IF size > nFree(T, Last(C.path)) + PageOf(T, C).cells[Ix(C) + 1].size
    THEN [Invalid(C) EXCEPT !.st = "seek", !.key = KeyAt(T, C)] ELSE C

(***************************************************************************)
Scanning(c) == cur[c].st # "invalid"
Rows == DOMAIN content
\* saveAllCursors, but for c.
Saved(c) == [d \in Cursor |-> IF d = c THEN cur[d] ELSE Save(tree, cur[d])]
Deleted(k) == owed' = [c \in Cursor |-> owed[c] \ {k}] /\ fresh' = [c \in Cursor |-> fresh[c] \ {k}]

CursorInit ==
    /\ Init
    /\ cur = [c \in Cursor |-> [st |-> "invalid", path |-> <<>>, idx |-> <<>>, skip |-> 0, key |-> 0]]
    /\ dir = [c \in Cursor |-> 1] /\ owed = [c \in Cursor |-> {}] /\ fresh = [c \in Cursor |-> {}]

\* A cursor that moves changes no entry.
Looks == asked' = Nothing /\ UNCHANGED <<form, tree, todo, ops>>
\* sqlite3BtreeFirst, sqlite3BtreeLast (of a cursor that was used before: saved pages and keys are dropped).
Begin(c, d) ==
    LET C == Opened(tree, cur[c])
        at == IF C.st = "invalid" THEN C ELSE IF d = 1 THEN MoveToLeftmost(tree, C) ELSE ToRightmost(tree, C)
    IN  /\ todo = <<>> /\ c \in form.cursors /\ ~Scanning(c)
        /\ cur' = [cur EXCEPT ![c] = at]
        /\ dir' = [dir EXCEPT ![c] = d]
        /\ owed' = [owed EXCEPT ![c] = IF at.st = "invalid" THEN {} ELSE Rows \ {KeyAt(tree, at)}]
        /\ Looks /\ UNCHANGED fresh
\* OP_Next, OP_Prev.
Passed(C) == IF C.st = "invalid" THEN Key ELSE {KeyAt(tree, C)}
MoveOn(c, C) ==
    /\ cur' = [cur EXCEPT ![c] = C]
    /\ owed' = [owed EXCEPT ![c] = @ \ Passed(C)]
    /\ fresh' = [fresh EXCEPT ![c] = @ \ Passed(C)]
    /\ Looks /\ UNCHANGED dir
Move(c) == Scanning(c) /\ MoveOn(c, Step(tree, cur[c], dir[c]))
DeleteOwn(c) ==
    /\ "delete" \in Own /\ cur[c].st = "valid" /\ Count
    /\ RemoveEntry(KeyAt(tree, cur[c]))
    /\ cur' = [Saved(c) EXCEPT ![c] = AfterDelete(tree, @)]
    /\ Deleted(KeyAt(tree, cur[c])) /\ UNCHANGED dir
UpdateOwn(c, size) ==
    /\ "update" \in Own /\ LeafData /\ cur[c].st = "valid" /\ Count
    /\ PutEntry(KeyAt(tree, cur[c]), size)
    /\ cur' = [Saved(c) EXCEPT ![c] = AfterUpdate(tree, @, size)]
    /\ UNCHANGED <<dir, owed, fresh>>
OtherDelete(k) ==
    /\ "delete" \in Other /\ Count
    /\ RemoveEntry(k)
    /\ cur' = [c \in Cursor |-> Save(tree, cur[c])]
    /\ Deleted(k) /\ UNCHANGED dir
OtherInsert(k, size) ==
    /\ "insert" \in Other /\ Count
    /\ PutEntry(k, size)
    /\ cur' = [c \in Cursor |-> Save(tree, cur[c])]
    /\ fresh' = [c \in Cursor |-> IF Scanning(c) /\ k \notin Rows THEN fresh[c] \cup {k} ELSE fresh[c]]
    /\ UNCHANGED <<dir, owed>>

CursorNext ==
    \/ Load /\ UNCHANGED cursorVars
    \/ \E c \in Cursor, d \in {-1, 1} : Begin(c, d)
    \/ \E c \in Cursor : Move(c)
    \/ \E c \in Cursor : DeleteOwn(c)
    \/ \E c \in Cursor, size \in Size : UpdateOwn(c, size)
    \/ \E k \in Rows : OtherDelete(k)
    \/ \E k \in Key, size \in Size : OtherInsert(k, size)
CursorSpec == CursorInit /\ [][CursorNext]_allVars

(***************************************************************************)
(* Properties.                                                             *)
(***************************************************************************)
\* A cursor that is not saved is on a cell, along pages each a child of the one before: no
\* change of the tree leaves a cursor in a page that was split, merged or freed.
InPlace ==
    \A c \in Cursor : cur[c].st \in {"valid", "skipnext"} =>
        LET C == cur[c]
        IN  /\ C.path[1] = Root /\ Range(C.path) \subseteq DOMAIN tree.pages
            /\ \A i \in 1 .. Len(C.path) - 1 : tree.pages[C.path[i]].kids[C.idx[i] + 1] = C.path[i + 1]
            /\ Ix(C) \in 0 .. Len(PageOf(tree, C).cells) - 1

\* Every row that is there from the beginning of a scan to its end is visited, once and in
\* order, whatever rows were inserted, rewritten or deleted around it, and no row twice.
ScanIsComplete ==
    [][\A c \in Cursor : Move(c) =>
          IF cur'[c].st = "invalid" THEN owed[c] = {}
          ELSE \E k \in {KeyAt(tree, cur'[c])} :
                   k \in owed[c] \cup fresh[c] /\ \A j \in owed[c] : dir[c] * (j - k) >= 0]_allVars

\* sqlite3.c:68530, 68602: a valid cursor has no step to skip.
NoStaleSkip == \A c \in Cursor : cur[c].st = "valid" => cur[c].skip = 0
=============================================================================
