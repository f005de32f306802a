----------------------------- MODULE MCFileLock -----------------------------
(* The lock protocol with two handles in one process and one in another.    *)
EXTENDS FileLock, TLC

CONSTANTS a1, a2, b, P, Q

TwoProcesses == (a1 :> P) @@ (a2 :> P) @@ (b :> Q)
=============================================================================
