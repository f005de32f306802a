--------------------------- MODULE MCTransactions ---------------------------
(* Transactions on a small instance: one file, enough connections for two   *)
(* generations of zombies, enough addresses for two leaks and a statement.  *)
EXTENDS Transactions, TLC

\* Interchangeable names.
Symmetry == Permutations(Stmt) \cup Permutations(Ptr) \cup Permutations(Conn)
                \cup Permutations(Content)
=============================================================================
