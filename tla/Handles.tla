------------------------------ MODULE Handles ------------------------------
(***************************************************************************)
(* The handles of sql.js: Database and Statement objects of                *)
(* src/sql.js/index.js on one side, the sqlite3 connections and compiled   *)
(* statements they point at on the other.                                  *)
(*                                                                         *)
(* JavaScript runs one call at a time, so a method is one action.  The     *)
(* exception is Database.each, which calls the program back on every row   *)
(* with its statement half-way through the result: `frames' is the stack   *)
(* of the each() calls whose callback is running, and any action may       *)
(* happen between two steps of such a call.                                *)
(*                                                                         *)
(* Named abstractions.  Addresses that have been freed may be handed out   *)
(* again, in any order.  A Statement or Database object that is closed may *)
(* have been dropped, so its name is used again for a new object.  A call  *)
(* that fails before it changes anything (a syntax error in prepare,       *)
(* "Statement closed", "Database closed") changes nothing here.  Running   *)
(* out of memory is not modelled, except as the bound |Ptr|, |Conn|.       *)
(***************************************************************************)
EXTENDS Naturals, Sequences

CONSTANTS
    Db,         \* Database objects
    Stmt,       \* Statement objects
    Ptr,        \* addresses of compiled statements (sqlite3_stmt *)
    Conn,       \* addresses of connections (sqlite3 *)
    Null,       \* the NULL of index.js: no address, no object
    MaxFrames   \* bound: nested each() calls

ASSUME NullAssumption == Null \notin Db \cup Stmt \cup Ptr \cup Conn
ASSUME FramesAssumption == MaxFrames \in Nat

VARIABLES
    handle,     \* Database.db
    registry,   \* Database.statements, keyed by address
    stmt,       \* Statement.stmt
    owner,      \* Statement.db while the statement is open (never read after)
    held,       \* open Statement objects that prepare() returned to the program
    frames,     \* Statement objects of the running each() calls, innermost last
    conn,       \* what lives at each connection address
    vdbe,       \* connection of the compiled statement at each address
    mode        \* where the compiled statement is in its run

jsVars     == <<handle, registry, stmt, owner, held, frames>>
engineVars == <<conn, vdbe, mode>>
vars       == <<handle, registry, stmt, owner, held, frames, conn, vdbe, mode>>

\* Where a compiled statement can be between two calls: not started (or reset),
\* on a row, refused as busy by sqlite3_step with the rest of its run ahead of
\* it, or at the end of its run (SQLITE_DONE or an error).
Modes == {"ready", "row", "busy", "halted"}

TypeOK ==
    /\ handle \in [Db -> Conn \cup {Null}]
    /\ registry \in [Db -> [Ptr -> Stmt \cup {Null}]]
    /\ stmt \in [Stmt -> Ptr \cup {Null}]
    /\ owner \in [Stmt -> Db \cup {Null}]
    /\ held \subseteq Stmt
    /\ frames \in Seq(Stmt)
    /\ conn \in [Conn -> {"free", "open", "zombie"}]
    /\ vdbe \in [Ptr -> Conn \cup {Null}]
    /\ mode \in [Ptr -> Modes]

Init ==
    /\ handle = [d \in Db |-> Null]
    /\ registry = [d \in Db |-> [p \in Ptr |-> Null]]
    /\ stmt = [s \in Stmt |-> Null]
    /\ owner = [s \in Stmt |-> Null]
    /\ held = {}
    /\ frames = <<>>
    /\ conn = [c \in Conn |-> "free"]
    /\ vdbe = [p \in Ptr |-> Null]
    /\ mode = [p \in Ptr |-> "ready"]

(***************************************************************************)
(* Engine and registry primitives.                                         *)
(***************************************************************************)

\* A statement object no call is using any more.
Running  == {frames[i] : i \in 1..Len(frames)}
Fresh(s) == stmt[s] = Null /\ s \notin Running

\* The innermost each() call, and its end.
Top == frames[Len(frames)]
Pop == frames' = SubSeq(frames, 1, Len(frames) - 1)

\* sqlite3LeaveMutexAndCloseZombie: a zombie goes when its last statement has.
Reap(cs, vs) ==
    [c \in Conn |->
        IF cs[c] = "zombie" /\ \A p \in Ptr : vs[p] # c THEN "free" ELSE cs[c]]

\* sqlite3_close_v2(c), with the statements vs still compiled.
CloseV2(c, vs) == Reap([conn EXCEPT ![c] = "zombie"], vs)

\* sqlite3_prepare_v2 puts a new statement at a free address; m is where the
\* caller's own first sqlite3_step leaves it.
Compile(d, p, m) ==
    /\ handle[d] # Null
    /\ vdbe[p] = Null
    /\ vdbe' = [vdbe EXCEPT ![p] = handle[d]]
    /\ mode' = [mode EXCEPT ![p] = m]
    /\ UNCHANGED conn

\* new Statement(pStmt, this), then this.statements[pStmt] = stmt.
Enrol(d, p, s) ==
    /\ Fresh(s)
    /\ stmt' = [stmt EXCEPT ![s] = p]
    /\ owner' = [owner EXCEPT ![s] = d]
    /\ registry' = [registry EXCEPT ![d][p] = s]
    /\ UNCHANGED handle

\* sqlite3_finalize of the statement of every object of S.
FinalizeAll(S) ==
    /\ vdbe' = [p \in Ptr |-> IF \E s \in S : stmt[s] = p THEN Null ELSE vdbe[p]]
    /\ mode' = [p \in Ptr |-> IF \E s \in S : stmt[s] = p THEN "ready" ELSE mode[p]]

\* Fault of FreeEach: the registry entry is not deleted.
FreeEachKeepsEntry(S) ==
    /\ FinalizeAll(S)
    /\ UNCHANGED registry
    /\ stmt' = [s \in Stmt |-> IF s \in S THEN Null ELSE stmt[s]]
    /\ owner' = [s \in Stmt |-> IF s \in S THEN Null ELSE owner[s]]
    /\ held' = held \ S

\* Statement.free on every object of S: finalize its compiled statement, take
\* it out of the registry, forget its address.
FreeEach(S) ==
    /\ FinalizeAll(S)
    /\ registry' = [d \in Db |-> [p \in Ptr |->
           IF \E s \in S : owner[s] = d /\ stmt[s] = p THEN Null ELSE registry[d][p]]]
    /\ stmt' = [s \in Stmt |-> IF s \in S THEN Null ELSE stmt[s]]
    /\ owner' = [s \in Stmt |-> IF s \in S THEN Null ELSE owner[s]]
    /\ held' = held \ S

\* Faults of Registered: only what the program still holds; every Database's registry.
RegisteredHeld(d) == {s \in held : \E p \in Ptr : registry[d][p] = s}
RegisteredAnywhere(d) == {s \in Stmt : \E e \in Db, p \in Ptr : registry[e][p] = s}

\* for (let _ in this.statements): what the registry of d holds.
Registered(d) == {s \in Stmt : \E p \in Ptr : registry[d][p] = s}

(***************************************************************************)
(* Faults: what a definition of this module would be with a bug.  They are *)
(* not part of the specification; each shows that a property notices.      *)
(***************************************************************************)

\* Of Export: the old connection is not closed.
ExportWithoutClose(d) ==
    /\ handle[d] # Null
    /\ FreeEach(Registered(d))
    /\ \E c \in Conn :
        /\ conn[c] = "free"
        /\ conn' = [conn EXCEPT ![c] = "open"]
        /\ handle' = [handle EXCEPT ![d] = c]
    /\ UNCHANGED frames

\* Of Close: the statements are left open; the registry is thrown away.
CloseConnectionOnly(d) ==
    /\ handle[d] # Null
    /\ UNCHANGED <<registry, stmt, owner, held, vdbe, mode>>
    /\ conn' = CloseV2(handle[d], vdbe)
    /\ handle' = [handle EXCEPT ![d] = Null]
    /\ UNCHANGED frames

\* Of EachStepFails: the loop goes on after the failed step.
EachIgnoresFailure ==
    /\ frames # <<>>
    /\ stmt[Top] # Null
    /\ mode' = [mode EXCEPT ![stmt[Top]] = "halted"]
    /\ UNCHANGED <<handle, registry, stmt, owner, held, frames, conn, vdbe>>

(***************************************************************************)
(* Database.                                                               *)
(***************************************************************************)

\* new Database(data): open a connection, start with an empty registry.
OpenDatabase(d) ==
    /\ handle[d] = Null
    /\ \E c \in Conn :
        /\ conn[c] = "free"
        /\ handle' = [handle EXCEPT ![d] = c]
        /\ conn' = [conn EXCEPT ![c] = "open"]
    /\ registry' = [registry EXCEPT ![d] = [p \in Ptr |-> Null]]
    /\ UNCHANGED <<stmt, owner, held, frames, vdbe, mode>>

\* db.prepare(sql, params) that returns a statement.
Prepare(d) ==
    /\ \E p \in Ptr, s \in Stmt :
        /\ Compile(d, p, "ready")
        /\ Enrol(d, p, s)
        /\ held' = held \cup {s}
    /\ UNCHANGED frames

\* db.prepare(sql, params) whose bind throws: the statement is compiled, and
\* nothing refers to it.
PrepareBindFails(d) ==
    /\ \E p \in Ptr : Compile(d, p, "ready")
    /\ UNCHANGED jsVars

\* db.exec(sql) whose step throws: the Statement of that step is in no registry.
ExecStepFails(d) ==
    /\ \E p \in Ptr, m \in {"busy", "halted"} : Compile(d, p, m)
    /\ UNCHANGED jsVars

\* db.run(sql, params) or db.each(...) whose first step throws: the statement
\* stays in the registry, out of the program's reach.
RunStepFails(d) ==
    /\ \E p \in Ptr, s \in Stmt, m \in {"busy", "halted"} :
        Compile(d, p, m) /\ Enrol(d, p, s)
    /\ UNCHANGED <<held, frames>>

\* db.each(sql, params, callback): the first row, and the callback starts.
EachFirstRow(d) ==
    /\ Len(frames) < MaxFrames
    /\ \E p \in Ptr, s \in Stmt :
        /\ Compile(d, p, "row")
        /\ Enrol(d, p, s)
        /\ frames' = Append(frames, s)
    /\ UNCHANGED held

\* db.export(): free what is registered, close, read the file, open again.
Export(d) ==
    /\ handle[d] # Null
    /\ FreeEach(Registered(d))
    /\ LET closed == CloseV2(handle[d], vdbe')
       IN \E c \in Conn :
            /\ closed[c] = "free"
            /\ conn' = [closed EXCEPT ![c] = "open"]
            /\ handle' = [handle EXCEPT ![d] = c]
    /\ UNCHANGED frames

\* db.close(): free what is registered, close, unlink.
Close(d) ==
    /\ handle[d] # Null
    /\ FreeEach(Registered(d))
    /\ conn' = CloseV2(handle[d], vdbe')
    /\ handle' = [handle EXCEPT ![d] = Null]
    /\ UNCHANGED frames

(***************************************************************************)
(* Statement, on an object the program holds.                              *)
(***************************************************************************)

\* stmt.step(), and the step of stmt.get(params) or of a stmt.run(...) that
\* throws: a row, a refusal, or the end of the run.
Step(s) ==
    /\ s \in held
    /\ stmt[s] # Null
    /\ \E m \in Modes \ {"ready"} : mode' = [mode EXCEPT ![stmt[s]] = m]
    /\ UNCHANGED <<handle, registry, stmt, owner, held, frames, conn, vdbe>>

\* stmt.reset(), stmt.bind(values) whether or not it throws, stmt.run(...).
Reset(s) ==
    /\ s \in held
    /\ stmt[s] # Null
    /\ mode' = [mode EXCEPT ![stmt[s]] = "ready"]
    /\ UNCHANGED <<handle, registry, stmt, owner, held, frames, conn, vdbe>>

\* stmt.free(): sqlite3_finalize also closes a zombie it was the last of.
Free(s) ==
    /\ s \in held
    /\ stmt[s] # Null
    /\ FreeEach({s})
    /\ conn' = Reap(conn, vdbe')
    /\ UNCHANGED <<handle, frames>>

(***************************************************************************)
(* The callback of the innermost each() ends.  (It returns and the next    *)
(* step yields another row: nothing changes.)                              *)
(***************************************************************************)
\* It returns and the step finds no more rows: each() frees its statement.
EachDone ==
    /\ frames # <<>>
    /\ stmt[Top] # Null
    /\ FreeEach({Top})
    /\ conn' = Reap(conn, vdbe')
    /\ Pop
    /\ UNCHANGED handle

\* It returns and the step throws: the statement stays in the registry.
EachStepFails ==
    /\ frames # <<>>
    /\ stmt[Top] # Null
    /\ mode' = [mode EXCEPT ![stmt[Top]] = "halted"]
    /\ Pop
    /\ UNCHANGED <<handle, registry, stmt, owner, held, conn, vdbe>>

\* It throws, or it returns after it closed or exported the database and the
\* step throws "Statement closed": the call is over, the statement untouched.
EachThrows ==
    /\ frames # <<>>
    /\ Pop
    /\ UNCHANGED <<handle, registry, stmt, owner, held, engineVars>>

Next ==
    \/ \E d \in Db :
        \/ OpenDatabase(d)
        \/ Prepare(d)
        \/ PrepareBindFails(d)
        \/ ExecStepFails(d)
        \/ RunStepFails(d)
        \/ EachFirstRow(d)
        \/ Export(d)
        \/ Close(d)
    \/ \E s \in Stmt : Step(s) \/ Reset(s) \/ Free(s)
    \/ EachDone
    \/ EachStepFails
    \/ EachThrows

Spec == Init /\ [][Next]_vars
-----------------------------------------------------------------------------
(***************************************************************************)
(* Properties.                                                             *)
(***************************************************************************)

\* A compiled statement no Statement object points at: nothing can finalize it.
Orphan(p) == vdbe[p] # Null /\ \A s \in Stmt : stmt[s] # p

\* No Statement object dangles: as long as it is not closed, its address holds
\* a statement compiled for the connection its Database has NOW, and the
\* Database's registry knows it at that address.  This is what close() and
\* export() rely on when they replace the connection (index.js:551, 571), and
\* what makes a freed address safe to hand out again.
NoDanglingStatement ==
    \A s \in Stmt : stmt[s] # Null =>
        /\ owner[s] # Null
        /\ handle[owner[s]] # Null
        /\ vdbe[stmt[s]] = handle[owner[s]]
        /\ registry[owner[s]][stmt[s]] = s

\* Conversely a registry entry is never stale: it names an open Statement of
\* this Database that lives at that key.  A stale one would make the next
\* close() finalize an address that belongs to someone else.
RegistryExact ==
    \A d \in Db, p \in Ptr : registry[d][p] # Null =>
        /\ stmt[registry[d][p]] = p
        /\ owner[registry[d][p]] = d

\* Connections are accounted for: an open one is the handle of exactly one
\* Database, compiled statements sit on connections that exist, and a closed
\* connection that lingers as a zombie (sqlite3_close_v2) is kept by orphans
\* alone: no object of the program can reach it.
ConnectionsAccounted ==
    /\ \A d \in Db : handle[d] # Null => conn[handle[d]] = "open"
    /\ \A d, e \in Db : handle[d] # Null /\ handle[d] = handle[e] => d = e
    /\ \A c \in Conn : conn[c] = "open" => \E d \in Db : handle[d] = c
    /\ \A p \in Ptr : vdbe[p] # Null => conn[vdbe[p]] # "free"
    /\ \A c \in Conn : conn[c] = "zombie" => \E p \in Ptr : vdbe[p] = c /\ Orphan(p)

\* What leaks is idle: a compiled statement nothing points at never sits in the
\* middle of its rows, so it never keeps a snapshot of the file that nobody can
\* let go.  (prepare() leaks one that has not started, exec() one whose step
\* threw: finished, or refused before it read anything.)
OrphansIdle == \A p \in Ptr : Orphan(p) => mode[p] # "row"

\* While a callback of each() runs, whatever it does to the database, the
\* statement of that call is closed or still on the row it was called for;
\* so the step that follows (index.js:525) continues or throws "Statement
\* closed", and never restarts the query.
CallbackMidRow ==
    \A s \in Running : stmt[s] # Null => mode[stmt[s]] = "row" /\ s \notin held

\* A call on one Database leaves the statements and the connection of every
\* other one alone, though addresses are reused across them.
NoCrossTalk ==
    [][\A d, e \in Db :
        d # e /\ (handle'[d] # handle[d] \/ registry'[d] # registry[d]) =>
            /\ handle'[e] = handle[e]
            /\ registry'[e] = registry[e]
            /\ \A s \in Stmt : owner[s] = e /\ stmt[s] # Null =>
                  /\ stmt'[s] = stmt[s]
                  /\ vdbe'[stmt[s]] = vdbe[stmt[s]]
                  /\ mode'[stmt[s]] = mode[stmt[s]]
      ]_vars

\* What the program is promised, whatever connections and addresses the wrapper
\* goes through: closing a Database or exporting it closes each of its
\* statements in the same call, and nothing else closes one behind its back
\* (index.js:122-123, 565: "all its statements are closed too").
Contract == INSTANCE HandleContract WITH
    isOpen <- [d \in Db |-> handle[d] # Null],
    of     <- [s \in Stmt |-> IF stmt[s] = Null THEN Null ELSE owner[s]]
ContractHolds == Contract!Spec

\* index.js:562-563 says of close(): "The memory associated to the database and
\* all associated statements will be freed."
CloseReleasesConnection ==
    [][\A d \in Db : handle[d] # Null /\ handle'[d] = Null
                       => conn'[handle[d]] = "free"]_vars
=============================================================================
