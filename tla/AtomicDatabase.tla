--------------------------- MODULE AtomicDatabase ---------------------------
(***************************************************************************)
(* What the pager promises to the b-tree above it: the contract stated at  *)
(* the head of pager.c ("atomic commit and rollback") and above            *)
(* sqlite3PagerSavepoint, without files, journals and syncs.  An image is  *)
(* the sequence of the database's pages.                                   *)
(*                                                                         *)
(* A commit whose journal was removed without a sync of the directory may  *)
(* be undone by a power failure, as a whole: `prev` is the image it may    *)
(* come back to.                                                           *)
(***************************************************************************)
EXTENDS Naturals, Sequences, FiniteSets

VARIABLES
    base,       \* the committed image
    prev,       \* the image a power failure may go back to: base, or the one before it
    view,       \* the image the connection sees
    saves       \* the image at each open savepoint

avars == <<base, prev, view, saves>>

Init == prev = base /\ view = base /\ saves = <<>>

\* A statement changes one page, or adds one; page 1 holds the size.
OnePage(old, new) ==
    /\ Len(new) \in {Len(old), Len(old) + 1}
    /\ Cardinality({q \in 2 .. Len(old) : new[q] # old[q]}) <= 1

Write == OnePage(view, view') /\ UNCHANGED <<base, prev, saves>>

OpenSavepoint == saves' = Append(saves, view) /\ UNCHANGED <<base, prev, view>>

Release == \E n \in 0 .. Len(saves) - 1 : saves' = SubSeq(saves, 1, n) /\ UNCHANGED <<base, prev, view>>

RollbackTo ==
    \E i \in 1 .. Len(saves) :
        view' = saves[i] /\ saves' = SubSeq(saves, 1, i) /\ UNCHANGED <<base, prev>>

\* Back to the start, still in the transaction; an empty database keeps a first page.
Restart ==
    /\ IF base = <<>> THEN Len(view') = 1 ELSE view' = base
    /\ saves' = <<>> /\ UNCHANGED <<base, prev>>

Commit == base' = view /\ prev' \in {base, view} /\ view' = view /\ saves' = <<>>

Rollback == view' = base /\ saves' = <<>> /\ UNCHANGED <<base, prev>>

\* The commit can no longer be undone.
Settle == prev' = base /\ UNCHANGED <<base, view, saves>>

PowerFailure == base' \in {base, prev} /\ prev' = base' /\ view' = base' /\ saves' = <<>>

Next ==
    \/ Write \/ OpenSavepoint \/ Release \/ RollbackTo \/ Restart
    \/ Commit \/ Rollback \/ Settle \/ PowerFailure

Spec == Init /\ [][Next]_avars
=============================================================================
