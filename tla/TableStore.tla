------------------------------ MODULE TableStore ------------------------------
(***************************************************************************)
(* What FreePages promises, without pages: a bag of tables, each the       *)
(* sequence of its data, changed in a transaction that is committed or     *)
(* rolled back as a whole.  Vacuum steps, spills and the free list change  *)
(* nothing here.                                                           *)
(***************************************************************************)
EXTENDS Integers, Sequences, Bags

CONSTANT Datum

VARIABLES
    open,       \* a write transaction is open
    tables,     \* as the transaction sees them
    saved       \* as a roll back would leave them

vars == <<open, tables, saved>>

Without(q, i) == SubSeq(q, 1, i - 1) \o SubSeq(q, i + 1, Len(q))
Changed(q, r) == tables' = (tables (-) SetToBag({q})) (+) SetToBag({r})

Init == open = FALSE /\ tables = EmptyBag /\ saved = EmptyBag

Begin == ~open /\ open' = TRUE /\ UNCHANGED <<tables, saved>>

CreateTable == tables' = tables (+) SetToBag({<<>>})
DropTable == \E q \in BagToSet(tables) : tables' = tables (-) SetToBag({q})
AddPage == \E q \in BagToSet(tables), d \in Datum : Changed(q, Append(q, d))
ChangePage == \E q \in BagToSet(tables), d \in Datum : \E i \in DOMAIN q : Changed(q, [q EXCEPT ![i] = d])
RemovePage == \E q \in BagToSet(tables) : \E i \in DOMAIN q : Changed(q, Without(q, i))

Change ==
    /\ open
    /\ CreateTable \/ DropTable \/ AddPage \/ ChangePage \/ RemovePage
    /\ UNCHANGED <<open, saved>>

Commit == open /\ open' = FALSE /\ saved' = tables /\ UNCHANGED tables
Rollback == open /\ open' = FALSE /\ tables' = saved /\ UNCHANGED saved

Next == Begin \/ Change \/ Commit \/ Rollback

Spec == Init /\ [][Next]_vars
=============================================================================
