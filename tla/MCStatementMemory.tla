------------------------- MODULE MCStatementMemory -------------------------
(* StatementMemory on one Database, two statements and a leaked one.        *)
EXTENDS StatementMemory, TLC

\* Interchangeable names.
Symmetry == Permutations(Stmt) \cup Permutations(Ptr) \cup Permutations(Conn)
                \cup Permutations(Block)
=============================================================================
