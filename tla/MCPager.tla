------------------------------ MODULE MCPager ------------------------------
(* The pager on small databases: a power failure, with each way to end the  *)
(* journal; savepoints; a failing system call.                              *)
EXTENDS Pager

Setting(mode, full, aligned, versions, saves, faulty, failures) ==
    [journalMode |-> mode, fullSync |-> full, aligned |-> aligned, maxVersion |-> versions,
     maxSaves |-> saves, maxFaults |-> faulty, maxCrashes |-> failures]
MCSettings == {
    Setting("DELETE", FALSE, TRUE, 5, 0, 0, 1),
    Setting("DELETE", TRUE, TRUE, 4, 1, 0, 1),
    Setting("PERSIST", TRUE, TRUE, 6, 0, 0, 1),
    Setting("DELETE", TRUE, TRUE, 4, 2, 0, 0),
    Setting("TRUNCATE", TRUE, FALSE, 4, 1, 1, 0),
    Setting("PERSIST", FALSE, FALSE, 5, 0, 1, 0)}

(* A header of an earlier transaction where the records of a later one end. *)
StaleSettings == {Setting("PERSIST", FALSE, TRUE, 5, 0, 1, 0)}
=============================================================================
