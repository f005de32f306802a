---------------------------- MODULE Transactions ----------------------------
(***************************************************************************)
(* What the calls of Handles do to transactions, file locks and the        *)
(* database file.  A Database has one file in the in-memory file system;   *)
(* usually one connection has it open, but a connection that export()      *)
(* leaves behind as a zombie keeps its transaction and its lock.           *)
(*                                                                         *)
(* Every action is an action of Handles together with what the engine does *)
(* in it, or a call that leaves the handles as they were.                  *)
(*                                                                         *)
(* Named abstractions.  The file's content is one value.  A statement of a *)
(* string of several is a call of its own.  BEGIN is BEGIN DEFERRED; there *)
(* are no savepoints and no attached files.  Errors are those that undo    *)
(* the statement alone (OE_Abort): not out of memory, not an I/O error,    *)
(* not a full disk.  A transaction's changes stay in the page cache until  *)
(* it commits (no cache spill).                                            *)
(*                                                                         *)
(* A definition headed "Fault of X" is not part of the specification: it   *)
(* is what X would be with a bug, and shows that a property notices.       *)
(***************************************************************************)
EXTENDS Handles

CONSTANT Content    \* what a database file can hold

ASSUME ContentAssumption == Null \notin Content /\ Content # {}

VARIABLES
    kind,       \* what each compiled statement is
    tx,         \* transaction state of each connection
    file,       \* the Database whose file the connection has open
    disk,       \* what is in the file of each Database
    exported,   \* what export() returned, when the last call was one
    extended    \* Databases whose connection has the extension functions

txVars == <<kind, tx, file, disk, exported, extended>>
allVars == <<vars, txVars>>

Kinds == {"read", "write", "begin", "commit", "rollback"}
Locks == {"none", "shared", "reserved", "pending"}

\* auto: sqlite3.autoCommit; lock: unixFile.eFileLock between calls (EXCLUSIVE is
\* held only inside one); cache: the file as changed by the open transaction.
NoTx == [auto |-> TRUE, lock |-> "none", cache |-> Null]

TxTypeOK ==
    /\ kind \in [Ptr -> Kinds \cup {Null}]
    /\ tx \in [Conn -> [auto : BOOLEAN, lock : Locks, cache : Content \cup {Null}]]
    /\ file \in [Conn -> Db \cup {Null}]
    /\ disk \in [Db -> Content]
    /\ exported \in [Db -> Content \cup {Null}]
    /\ extended \subseteq Db

NothingExported == [d \in Db |-> Null]

TxInit ==
    /\ Init
    /\ kind = [p \in Ptr |-> Null]
    /\ tx = [c \in Conn |-> NoTx]
    /\ file = [c \in Conn |-> Null]
    /\ disk \in [Db -> Content]
    /\ exported = NothingExported
    /\ extended = {}

(***************************************************************************)
(* Locks: unixLock, through the in-process unixInodeInfo of the file.      *)
(***************************************************************************)
Writing(c) == tx[c].lock \in {"reserved", "pending"}
Others(c)  == {e \in Conn \ {c} : file[e] # Null /\ file[e] = file[c]}

\* Faults of MayReserve and MayCommit: a weaker lock of another connection is
\* overlooked.
MayReserveUnlessPending(c) == \A e \in Others(c) : tx[e].lock # "pending"
MayCommitUnlessWriting(c)  == \A e \in Others(c) : ~Writing(e)

MayRead(c)    == tx[c].lock # "none" \/ \A e \in Others(c) : tx[e].lock # "pending"
MayReserve(c) == \A e \in Others(c) : ~Writing(e)
MayCommit(c)  == \A e \in Others(c) : tx[e].lock = "none"

\* What the connection reads: its own changes, else the file.
View(c) == IF tx[c].cache # Null THEN tx[c].cache ELSE disk[file[c]]

(***************************************************************************)
(* One sqlite3_step of a statement on connection c: the transaction and    *)
(* the file after it, and what it returned.  The locks it can give up are  *)
(* given up by Settle below.                                               *)
(***************************************************************************)
Outcome(c, t, v, e) == [tx |-> t, disk |-> v, end |-> e]
Unchanged(c, e) == Outcome(c, tx[c], disk[file[c]], e)

\* SHARED, or the lock already held.
AtLeastShared(c) == IF tx[c].lock = "none" THEN "shared" ELSE tx[c].lock

\* OP_Transaction for reading, then rows.
ReadOutcomes(c) ==
    IF MayRead(c)
    THEN {Outcome(c, [tx[c] EXCEPT !.lock = AtLeastShared(c)], disk[file[c]], e) :
              e \in {"row", "done", "error"}}
    ELSE {Unchanged(c, "busy")}

\* OP_Transaction for writing, the changes, and in autocommit mode the commit of
\* sqlite3VdbeHalt, which rolls back when it cannot have the file to itself.
WriteOutcomes(c) ==
    LET begun  == [tx[c] EXCEPT !.lock = IF @ = "pending" THEN @ ELSE "reserved"]
        fails  == Outcome(c, begun, disk[file[c]], "error")
        allows == IF ~tx[c].auto \/ MayCommit(c) THEN Content ELSE {}
    IN  IF ~MayRead(c) \/ ~MayReserve(c)
        THEN {Unchanged(c, "busy")}
        ELSE {fails} \cup
             {IF tx[c].auto
              THEN Outcome(c, begun, v, "done")
              ELSE Outcome(c, [begun EXCEPT !.cache = v], disk[file[c]], "done") : v \in allows}

\* A write that was refused and not reset counts as a running writer (nVdbeWrite).
RefusedWrite(p) == vdbe[p] # Null /\ mode[p] = "busy" /\ kind[p] = "write"

\* OP_AutoCommit: BEGIN, COMMIT, ROLLBACK.  A COMMIT that cannot have the file to
\* itself is refused; it leaves the PENDING lock behind and may be tried again.
BeginOutcomes(c) ==
    IF tx[c].auto
    THEN {Outcome(c, [tx[c] EXCEPT !.auto = FALSE], disk[file[c]], "done")}
    ELSE {Unchanged(c, "error")}

CommitOutcomes(c) ==
    IF tx[c].auto \/ \E p \in Ptr : vdbe[p] = c /\ RefusedWrite(p)
    THEN {Unchanged(c, "error")}
    ELSE IF Writing(c) /\ ~MayCommit(c)
    THEN {Outcome(c, [tx[c] EXCEPT !.lock = "pending"], disk[file[c]], "busy")}
    ELSE {Outcome(c, [tx[c] EXCEPT !.auto = TRUE, !.cache = Null], View(c), "done")}

RollbackOutcomes(c) ==
    IF tx[c].auto
    THEN {Unchanged(c, "error")}
    ELSE {Outcome(c, [tx[c] EXCEPT !.auto = TRUE, !.cache = Null], disk[file[c]], "done")}

Outcomes(c, k) ==
    CASE k = "read"     -> ReadOutcomes(c)
      [] k = "write"    -> WriteOutcomes(c)
      [] k = "begin"    -> BeginOutcomes(c)
      [] k = "commit"   -> CommitOutcomes(c)
      [] k = "rollback" -> RollbackOutcomes(c)

ModeAfter(o) == IF o.end \in {"row", "busy"} THEN o.end ELSE "halted"

\* Compiling a statement that names a table reads the schema first.
Compilable(c, k) == k \in {"read", "write"} => MayRead(c)

(***************************************************************************)
(* The rest of a call.                                                     *)
(***************************************************************************)

\* btreeEndTransaction, when the last statement halts outside a transaction:
\* SHARED stays while another statement of the connection is running.
Settle(c, t) ==
    IF ~t.auto \/ t.lock = "none" THEN t
    ELSE [t EXCEPT !.cache = Null,
                   !.lock = IF \E p \in Ptr : vdbe'[p] = c /\ mode'[p] \in {"row", "busy"}
                            THEN "shared" ELSE "none"]

\* Fault of Transact: the next call rolls back the zombies it finds.
TransactEndsZombies(t) ==
    tx' = [c \in Conn |-> IF conn'[c] = "free" \/ conn[c] = "zombie"
                          THEN NoTx ELSE Settle(c, t[c])]

\* A connection that is gone has been rolled back (sqlite3RollbackAll).
Transact(t) ==
    tx' = [c \in Conn |-> IF conn'[c] = "free" THEN NoTx ELSE Settle(c, t[c])]

\* The statement compiled in this call is a k; a finalized one is nothing.
Label(k) ==
    kind' = [p \in Ptr |-> CASE vdbe'[p] = Null -> Null
                             [] vdbe'[p] # Null /\ vdbe[p] = Null -> k
                             [] OTHER -> kind[p]]

Released ==
    /\ file' = [c \in Conn |-> IF conn'[c] = "free" THEN Null ELSE file[c]]
    /\ UNCHANGED extended
    /\ exported' = NothingExported

\* The call ran a statement on c with outcome o.
Ran(c, o) ==
    /\ Transact([tx EXCEPT ![c] = o.tx])
    /\ disk' = [disk EXCEPT ![file[c]] = o.disk]
    /\ Released

\* The call ran no statement.
RanNothing ==
    /\ Transact(tx)
    /\ Released
    /\ UNCHANGED disk

\* The call compiled a statement and stepped it once; it is still there.
RanNew(d, k, o) ==
    /\ Compilable(handle[d], k)
    /\ \A p \in Ptr : vdbe[p] = Null /\ vdbe'[p] # Null => mode'[p] = ModeAfter(o)
    /\ Ran(handle[d], o)

(***************************************************************************)
(* Database.                                                               *)
(***************************************************************************)

\* The file is written, and RegisterExtensionFunctions is called.
TxOpenDatabase(d) ==
    /\ OpenDatabase(d)
    /\ file' = [file EXCEPT ![handle'[d]] = d]
    /\ \E v \in Content : disk' = [disk EXCEPT ![d] = v]
    /\ extended' = extended \cup {d}
    /\ exported' = NothingExported
    /\ UNCHANGED <<kind, tx>>

\* db.run(sql), and db.exec(sql) or db.run(sql, params) that succeeds: the
\* statement is finalized in the call, in run(sql) after an error as well.
RunSql(d) ==
    /\ handle[d] # Null
    /\ UNCHANGED vars
    /\ \E k \in Kinds : \E o \in Outcomes(handle[d], k) :
        /\ o.end # "row"
        /\ Compilable(handle[d], k)
        /\ Ran(handle[d], o)
    /\ UNCHANGED kind

TxPrepare(d) ==
    /\ Prepare(d)
    /\ \E k \in Kinds : Compilable(handle[d], k) /\ Label(k)
    /\ RanNothing

\* Nobody will step it: what it is does not matter.
TxPrepareBindFails(d) ==
    /\ PrepareBindFails(d)
    /\ Label(Null)
    /\ RanNothing

\* Nobody will step it again: what it is matters only to RefusedWrite.
TxExecStepFails(d) ==
    /\ ExecStepFails(d)
    /\ \E k \in Kinds : \E o \in Outcomes(handle[d], k) :
        /\ o.end \in {"error", "busy"}
        /\ RanNew(d, k, o)
        /\ Label(IF o.end = "busy" THEN k ELSE Null)

TxRunStepFails(d) ==
    /\ RunStepFails(d)
    /\ \E k \in Kinds : \E o \in Outcomes(handle[d], k) :
        o.end \in {"error", "busy"} /\ RanNew(d, k, o) /\ Label(k)

TxEachFirstRow(d) ==
    /\ EachFirstRow(d)
    /\ Label("read")
    /\ \E o \in ReadOutcomes(handle[d]) : o.end = "row" /\ RanNew(d, "read", o)

\* The old connection is rolled back if it is gone; a zombie keeps what it has.
\* The new one has the file open again, without the extension functions.
TxExport(d) ==
    /\ Export(d)
    /\ Label(Null)
    /\ Transact([tx EXCEPT ![handle'[d]] = NoTx])
    /\ file' = [c \in Conn |-> IF c = handle'[d] THEN d
                               ELSE IF conn'[c] = "free" THEN Null ELSE file[c]]
    /\ extended' = extended \ {d}
    /\ exported' = [NothingExported EXCEPT ![d] = disk[d]]
    /\ UNCHANGED disk

\* The file is unlinked: a zombie is left with a file of its own.
TxClose(d) ==
    /\ Close(d)
    /\ Label(Null)
    /\ Transact(tx)
    /\ file' = [c \in Conn |-> IF file[c] = d \/ conn'[c] = "free" THEN Null ELSE file[c]]
    /\ extended' = extended \ {d}
    /\ exported' = NothingExported
    /\ UNCHANGED disk

(***************************************************************************)
(* Statement, and the end of a callback.                                   *)
(***************************************************************************)
TxStep(s) ==
    /\ Step(s)
    /\ LET c == vdbe[stmt[s]] IN
        \E o \in Outcomes(c, kind[stmt[s]]) :
            mode'[stmt[s]] = ModeAfter(o) /\ Ran(c, o)
    /\ UNCHANGED kind

TxReset(s) == Reset(s) /\ RanNothing /\ UNCHANGED kind
TxFree(s)  == Free(s) /\ RanNothing /\ Label(Null)

\* The step after the last row is a step, too, but one that only reads.
TxEachDone      == EachDone /\ RanNothing /\ Label(Null)
TxEachStepFails == EachStepFails /\ RanNothing /\ UNCHANGED kind
TxEachThrows    == EachThrows /\ RanNothing /\ UNCHANGED kind

TxNext ==
    \/ \E d \in Db :
        \/ TxOpenDatabase(d)
        \/ RunSql(d)
        \/ TxPrepare(d)
        \/ TxPrepareBindFails(d)
        \/ TxExecStepFails(d)
        \/ TxRunStepFails(d)
        \/ TxEachFirstRow(d)
        \/ TxExport(d)
        \/ TxClose(d)
    \/ \E s \in Stmt : TxStep(s) \/ TxReset(s) \/ TxFree(s)
    \/ TxEachDone
    \/ TxEachStepFails
    \/ TxEachThrows

TxSpec == TxInit /\ [][TxNext]_allVars
-----------------------------------------------------------------------------
(***************************************************************************)
(* Properties.                                                             *)
(***************************************************************************)

\* At most one connection writes a file, it is in an explicit transaction, and
\* only a writer has changes of its own: between two calls no autocommitted
\* statement has left a lock or a change behind.
OneWriter ==
    /\ \A c, e \in Conn : Writing(c) /\ Writing(e) /\ file[c] # Null /\ file[c] = file[e] => c = e
    /\ \A c \in Conn : Writing(c) => ~tx[c].auto
    /\ \A c \in Conn : tx[c].cache # Null => Writing(c)

\* The file of a Database changes only when no other connection on it holds any
\* lock: whoever is in the middle of rows, or in a transaction that has read,
\* keeps the file it has read (snapshot isolation through the lock protocol).
CommitAlone ==
    [][\A d \in Db : handle[d] # Null /\ disk'[d] # disk[d] =>
         \A c \in Conn : file[c] = d /\ c # handle[d] => tx[c].lock = "none"
      ]_allVars

\* A Database has its file to itself unless one of its calls has leaked a
\* statement: every SQLITE_BUSY a program can meet goes back to a prepare() whose
\* bind threw or an exec() whose step threw (index.js:481, 543).
NoLeakNoBusy ==
    (\A p \in Ptr : ~Orphan(p)) =>
        \A d \in Db : handle[d] # Null => MayCommit(handle[d])

\* A write that was refused as busy could not start now either.  A refused write
\* still counts in nVdbeWrite, so if another write of its connection could run
\* meanwhile, sqlite3VdbeHalt would leave that one uncommitted in autocommit mode.
RefusedWritesStay ==
    \A p \in Ptr : RefusedWrite(p) /\ file[vdbe[p]] # Null =>
        ~MayRead(vdbe[p]) \/ ~MayReserve(vdbe[p])

\* Both: no statement leaves a lock or a change that nobody answers for (sqlite3VdbeHalt).
WritersSound == TxTypeOK /\ OneWriter /\ RefusedWritesStay

\* A lock a Database has leaked to a connection it has left is there for good:
\* whatever the program calls, also export() again, the Database cannot write
\* until it is closed.
BlockedForGood ==
    [][\A d \in Db : /\ handle[d] # Null /\ ~MayReserve(handle[d])
                     /\ handle'[d] # Null
                     => ~MayReserve(handle[d])']_allVars

\* "Exports the contents of the database to a binary array" (index.js:548), and
\* re-importing it leads to the same database (test/database.spec.ts): export()
\* returns what the program read through the Database just before.
ExportsWhatIsRead ==
    [][\A d \in Db : exported'[d] # Null => exported'[d] = View(handle[d])]_allVars

\* An open Database has the functions that its constructor registers
\* (RegisterExtensionFunctions, index.js:390; test/test-extension-functions.spec.ts).
ExtensionFunctionsKept ==
    \A d \in Db : handle[d] # Null => d \in extended
=============================================================================
