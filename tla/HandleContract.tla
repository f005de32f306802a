--------------------------- MODULE HandleContract ---------------------------
(***************************************************************************)
(* What a program that uses sql.js is told about the life of its objects,  *)
(* without connections, addresses or registries: a Statement is open on    *)
(* one Database from the call that makes it to the call that frees it or   *)
(* that closes or exports that Database.                                   *)
(***************************************************************************)
CONSTANTS Db, Stmt, Null

VARIABLES
    isOpen,     \* is the Database open?
    of          \* the Database the Statement is open on, Null when closed

vars == <<isOpen, of>>

Init ==
    /\ isOpen = [d \in Db |-> FALSE]
    /\ of = [s \in Stmt |-> Null]

\* No statement is open on d any more, the others are as they were.
CloseAll(d) == of' = [s \in Stmt |-> IF of[s] = d THEN Null ELSE of[s]]

OpenDatabase(d) ==
    /\ ~isOpen[d]
    /\ isOpen' = [isOpen EXCEPT ![d] = TRUE]
    /\ UNCHANGED of

OpenStatement(d) ==
    /\ isOpen[d]
    /\ \E s \in Stmt : of[s] = Null /\ of' = [of EXCEPT ![s] = d]
    /\ UNCHANGED isOpen

CloseStatement(s) ==
    /\ of[s] # Null
    /\ of' = [of EXCEPT ![s] = Null]
    /\ UNCHANGED isOpen

Export(d) ==
    /\ isOpen[d]
    /\ CloseAll(d)
    /\ UNCHANGED isOpen

CloseDatabase(d) ==
    /\ isOpen[d]
    /\ isOpen' = [isOpen EXCEPT ![d] = FALSE]
    /\ CloseAll(d)

Next ==
    \/ \E d \in Db : \/ OpenDatabase(d)
                     \/ OpenStatement(d)
                     \/ Export(d)
                     \/ CloseDatabase(d)
    \/ \E s \in Stmt : CloseStatement(s)

Spec == Init /\ [][Next]_vars
=============================================================================
