-------------------------- MODULE StatementMemory --------------------------
(***************************************************************************)
(* The memory behind bound values: Statement.allocatedmem of index.js, the *)
(* blocks of the heap it lists, and the pointers to them that SQLite keeps *)
(* as the values of parameters (bound with the destructor 0, SQLITE_STATIC:*)
(* SQLite makes no copy).                                                  *)
(*                                                                         *)
(* Every action is an action of Handles with what it does to this memory.  *)
(* Only text and blob values have blocks.  allocate() answers 0 when the   *)
(* heap cannot grow; the value is then bound as NULL.  What a call         *)
(* allocates and frees again is left out.                                  *)
(***************************************************************************)
EXTENDS Handles, FiniteSets

CONSTANTS
    Block,      \* addresses that allocate() hands out
    MaxParams,  \* bound: text and blob values of one bind
    MaxMem      \* bound: entries of one allocatedmem

ASSUME BlockAssumption == Null \notin Block
ASSUME BoundsAssumption == MaxParams \in Nat /\ MaxMem \in Nat

VARIABLES
    mem,        \* Statement.allocatedmem
    bound,      \* blocks the parameters of the compiled statement point at
    live,       \* blocks that are allocated
    loose,      \* history: statements whose freemem() was called since their bind
    starved     \* history: allocate() has answered 0

memVars == <<mem, bound, live, loose, starved>>
allVars == <<vars, memVars>>

Lists == UNION {[1..n -> Block \cup {Null}] : n \in 0..MaxMem}

MemTypeOK ==
    /\ mem \in [Stmt -> Lists]
    /\ bound \in [Ptr -> SUBSET Block]
    /\ live \subseteq Block
    /\ loose \subseteq Stmt
    /\ starved \in BOOLEAN

MemInit ==
    /\ Init
    /\ mem = [s \in Stmt |-> <<>>]
    /\ bound = [p \in Ptr |-> {}]
    /\ live = {}
    /\ loose = {}
    /\ starved = FALSE

(***************************************************************************)
(* freemem and bind.                                                       *)
(***************************************************************************)

Listed(q) == {q[i] : i \in DOMAIN q} \ {Null}

\* while ((mem = pop())) _free(mem): a 0 ends the loop and is popped, too.
Stop(q) == CHOOSE i \in 0..Len(q) :
              /\ i > 0 => q[i] = Null
              /\ \A j \in (i + 1)..Len(q) : q[j] # Null
\* Fault of Kept: the blocks are freed but not popped.
KeptAll(q) == q

Kept(q) == SubSeq(q, 1, Stop(q) - 1)

Freed(q) == {q[i] : i \in (Stop(q) + 1)..Len(q)}

\* What the bind functions push, block by block, with `used' allocated before.
Pushes(used) ==
    {q \in UNION {[1..n -> (Block \ used) \cup {Null}] : n \in 0..MaxParams} :
        \A i, j \in DOMAIN q : q[i] = q[j] /\ q[i] # Null => i = j}

\* The parameters that point at pushed blocks: all, or all but that of the last
\* sqlite3_bind_*, which has been refused (SQLITE_RANGE) and made bind() throw.
Bindings(q) == {Listed(q), Listed(SubSeq(q, 1, Len(q) - 1))}

\* Fault of BindAll: the old bindings are not cleared.
BindAllOnTop(s, p, base, used) ==
    \E q \in Pushes(used) :
        /\ Len(base) + Len(q) <= MaxMem
        /\ mem' = [mem EXCEPT ![s] = base \o q]
        /\ \E B \in Bindings(q) : bound' = [bound EXCEPT ![p] = @ \cup B]
        /\ live' = used \cup Listed(q)
        /\ starved' = (starved \/ \E i \in DOMAIN q : q[i] = Null)
        /\ loose' = loose \ {s}

\* bind(values) on s, compiled at p, whose list is base after its freemem();
\* sqlite3_clear_bindings has been called, or p is new.
BindAll(s, p, base, used) ==
    \E q \in Pushes(used) :
        /\ Len(base) + Len(q) <= MaxMem
        /\ mem' = [mem EXCEPT ![s] = base \o q]
        /\ \E B \in Bindings(q) : bound' = [bound EXCEPT ![p] = B]
        /\ live' = used \cup Listed(q)
        /\ starved' = (starved \/ \E i \in DOMAIN q : q[i] = Null)
        /\ loose' = loose \ {s}

\* The statement this call has made is bound; every one of its values, for the
\* call goes on.
BindNew ==
    \E s \in Stmt, p \in Ptr :
        /\ stmt[s] = Null
        /\ stmt'[s] = p
        /\ BindAll(s, p, <<>>, live)
        /\ bound'[p] = Listed(mem'[s])

\* Fault of FreedMem: only sqlite3_finalize, no freemem().
FinalizedMem ==
    LET S == {s \in Stmt : stmt[s] # Null /\ stmt'[s] = Null}
    IN /\ mem' = [s \in Stmt |-> IF s \in S THEN <<>> ELSE mem[s]]
       /\ bound' = [p \in Ptr |-> IF vdbe'[p] = Null THEN {} ELSE bound[p]]
       /\ loose' = loose \ S
       /\ UNCHANGED <<live, starved>>

\* Statement.free on what this call closes: freemem(), and finalize, which
\* releases the parameters.  The object and what its list still holds are gone.
FreedMem ==
    LET S == {s \in Stmt : stmt[s] # Null /\ stmt'[s] = Null}
    IN /\ live' = live \ UNION {Freed(mem[s]) : s \in S}
       /\ mem' = [s \in Stmt |-> IF s \in S THEN <<>> ELSE mem[s]]
       /\ bound' = [p \in Ptr |-> IF vdbe'[p] = Null THEN {} ELSE bound[p]]
       /\ loose' = loose \ S
       /\ UNCHANGED starved

(***************************************************************************)
(* The calls.                                                              *)
(***************************************************************************)
MemOpenDatabase(d)  == OpenDatabase(d) /\ UNCHANGED memVars
MemExecStepFails(d) == ExecStepFails(d) /\ UNCHANGED memVars
MemPrepare(d)       == Prepare(d) /\ BindNew
MemRunStepFails(d)  == RunStepFails(d) /\ BindNew
MemEachFirstRow(d)  == EachFirstRow(d) /\ BindNew
MemExport(d)        == Export(d) /\ FreedMem
MemClose(d)         == Close(d) /\ FreedMem

\* bind() throws in prepare(): the Statement is dropped with its list, and the
\* compiled statement keeps what it was given.
MemPrepareBindFails(d) ==
    /\ PrepareBindFails(d)
    /\ \E p \in Ptr, q \in Pushes(live) :
        /\ vdbe[p] = Null
        /\ vdbe'[p] # Null
        /\ \E B \in Bindings(q) : bound' = [bound EXCEPT ![p] = B]
        /\ live' = live \cup Listed(q)
        /\ starved' = (starved \/ \E i \in DOMAIN q : q[i] = Null)
    /\ UNCHANGED <<mem, loose>>

\* db.run(sql, params) that goes well, each() that sees no row: bind and free.
RunParams(d) ==
    /\ handle[d] # Null
    /\ \E q \in Pushes(live) :
        /\ live' = live \cup (Listed(q) \ Freed(q))
        /\ starved' = (starved \/ \E i \in DOMAIN q : q[i] = Null)
    /\ UNCHANGED <<vars, mem, bound, loose>>

MemStep(s) == Step(s) /\ UNCHANGED memVars
MemFree(s) == Free(s) /\ FreedMem

\* stmt.bind(values) that returns or throws, and with no values stmt.reset().
\* stmt.run(values) leaves what bind, step and reset in a row leave.
MemBind(s) ==
    /\ Reset(s)
    /\ BindAll(s, stmt[s], Kept(mem[s]), live \ Freed(mem[s]))

\* stmt.freemem(), a method of the declared interface (typings.ts:18).
FreeMem(s) ==
    /\ s \in held
    /\ stmt[s] # Null
    /\ live' = live \ Freed(mem[s])
    /\ mem' = [mem EXCEPT ![s] = Kept(@)]
    /\ loose' = loose \cup {s}
    /\ UNCHANGED <<vars, bound, starved>>

MemEachDone      == EachDone /\ FreedMem
MemEachStepFails == EachStepFails /\ UNCHANGED memVars
MemEachThrows    == EachThrows /\ UNCHANGED memVars

MemNext ==
    \/ \E d \in Db :
        \/ MemOpenDatabase(d)
        \/ MemPrepare(d)
        \/ MemPrepareBindFails(d)
        \/ MemExecStepFails(d)
        \/ MemRunStepFails(d)
        \/ MemEachFirstRow(d)
        \/ MemExport(d)
        \/ MemClose(d)
        \/ RunParams(d)
    \/ \E s \in Stmt : MemStep(s) \/ MemBind(s) \/ MemFree(s) \/ FreeMem(s)
    \/ MemEachDone
    \/ MemEachStepFails
    \/ MemEachThrows

MemSpec == MemInit /\ [][MemNext]_allVars
-----------------------------------------------------------------------------
(***************************************************************************)
(* Properties.                                                             *)
(***************************************************************************)
\* No block is freed twice, and none is freed while somebody else lists it:
\* what a list holds is allocated, and stands there once.
BlocksApart ==
    /\ \A s \in Stmt : Listed(mem[s]) \subseteq live
    /\ \A s, t \in Stmt : \A i \in DOMAIN mem[s], j \in DOMAIN mem[t] :
          mem[s][i] = mem[t][j] /\ mem[s][i] # Null => s = t /\ i = j
    /\ \A s \in Stmt : stmt[s] = Null => mem[s] = <<>>

\* Whatever a step can read is allocated and belongs to the very statement: a
\* parameter points at blocks of its own Statement's list, even after binds that
\* threw half-way and allocations that failed, unless freemem() was called.
BindingsAlive ==
    \A s \in Stmt : stmt[s] # Null /\ s \notin loose =>
        bound[stmt[s]] \subseteq live \cap Listed(mem[s])

\* A block gets out of every list while it is allocated only when prepare()'s
\* bind throws (a new orphan) or an allocation has failed: no other sequence of
\* calls leaks the memory of a bound value.
Lost == live \ UNION {Listed(mem[s]) : s \in Stmt}
LostByFailureOnly ==
    [][Lost' \subseteq Lost \/ starved' \/ \E p \in Ptr : ~Orphan(p) /\ Orphan(p)']_allVars

\* sqlite3.c:6237-6238 says of SQLITE_STATIC, the destructor bindString and
\* bindBlob pass: "it means that the content pointer is constant and will never
\* change."  So what an open statement's parameter points at stays allocated.
StaticContentKept ==
    \A s \in Stmt : stmt[s] # Null => bound[stmt[s]] \subseteq live

\* index.js:136 says that allocatedmem has "Pointers to allocated memory, that
\* need to be freed when the statemend is destroyed".
FreeReturnsMemory ==
    [][\A s \in Stmt : stmt[s] # Null /\ stmt'[s] = Null
                          => Listed(mem[s]) \cap live' = {}]_allVars
=============================================================================
