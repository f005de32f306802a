------------------------------- MODULE MCPages -------------------------------
(***************************************************************************)
(* The pages of a file in one run: which pages are used, in a small file   *)
(* (FreePages), and the bytes of one small b-tree page with cells of four  *)
(* to seven bytes (BTreePage).  A behaviour is one of the two, the other   *)
(* stays where it starts.                                                  *)
(***************************************************************************)
EXTENDS FreePages

VARIABLES part, page

MCForms == {
    [autoVacuum |-> "NONE", entries |-> 3, maxLeaf |-> 2, maxTables |-> 1, maxData |-> 3],
    [autoVacuum |-> "INCREMENTAL", entries |-> 3, maxLeaf |-> 1, maxTables |-> 1, maxData |-> 3],
    [autoVacuum |-> "FULL", entries |-> 2, maxLeaf |-> 1, maxTables |-> 2, maxData |-> 1]}

Page == INSTANCE BTreePage WITH Usable <- 34, Size <- <<4, 5, 7, 6>>, MaxFrag <- 2

ASSUME PageSpace == Page!SpaceOK

MCInit ==
    /\ part \in {"file", "page"}
    /\ Init
    /\ IF part = "page" THEN Page!Init /\ form.autoVacuum = "NONE" ELSE page = <<>>

InFile == part = "file" /\ UNCHANGED <<part, page>>
InPage == part = "page" /\ UNCHANGED <<part, vars>>

MCNext ==
    \/ InFile /\ Begin
    \/ InFile /\ CreateTable
    \/ InFile /\ AddPage
    \/ InFile /\ ChangePage
    \/ InFile /\ RemovePage
    \/ InFile /\ DropTable
    \/ InFile /\ IncrVacuum
    \/ InFile /\ Spill
    \/ InFile /\ Commit
    \/ InFile /\ Rollback
    \/ InPage /\ Page!insertCell
    \/ InPage /\ Page!dropCell
    \/ InPage /\ Page!editPage

MCSpec == MCInit /\ [][MCNext]_<<part, vars, page>>


(* BTreePage!PageSound: whatever cells come and go, a page is never found  *)
(* corrupt, its cells stay whole and its free space is accounted for.      *)
PageSound == part = "page" => Page!PageSound
=============================================================================
