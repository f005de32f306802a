----------------------------- MODULE MCHandles -----------------------------
(* Handles on a small instance: enough addresses for one leak beside the    *)
(* objects in use, so that freed addresses really are handed out again.     *)
EXTENDS Handles, TLC

\* Objects and addresses are interchangeable names.
Symmetry == Permutations(Db) \cup Permutations(Stmt)
                \cup Permutations(Ptr) \cup Permutations(Conn)
=============================================================================
