------------------------- MODULE TransactionsProofs -------------------------
(***************************************************************************)
(* Proofs about Transactions: it adds transactions to Handles without      *)
(* changing what the handles do, so what is proved of Handles holds here;  *)
(* a Database shares its file with leaked connections only; and whatever   *)
(* they hold, a file has one writer, a change of it disturbs no reader,    *)
(* and a leaked write lock is there until the Database is closed.          *)
(***************************************************************************)
EXTENDS Transactions, HandlesProofs

\* The file of an open Database is open in its connection, and in no other that
\* is not a zombie.
FilesOwned ==
    /\ \A d \in Db : handle[d] # Null => file[handle[d]] = d
    /\ \A c \in Conn : file[c] # Null =>
           file[c] \in Db /\ (conn[c] = "zombie" \/ handle[file[c]] = c)

TxIInv ==
    /\ IInv
    /\ file \in [Conn -> Db \cup {Null}]
    /\ FilesOwned

-----------------------------------------------------------------------------
(***************************************************************************)
(* Every step of Transactions is a step of Handles or leaves it alone.     *)
(***************************************************************************)
LEMMA TxStepIsStep == [TxNext]_allVars => [Next]_vars
<1> SUFFICES ASSUME [TxNext]_allVars PROVE [Next]_vars
  OBVIOUS
<1>1. ASSUME NEW d \in Db,
             \/ TxOpenDatabase(d) \/ RunSql(d) \/ TxPrepare(d) \/ TxPrepareBindFails(d)
             \/ TxExecStepFails(d) \/ TxRunStepFails(d) \/ TxEachFirstRow(d)
             \/ TxExport(d) \/ TxClose(d)
      PROVE  [Next]_vars
  BY <1>1 DEF TxOpenDatabase, RunSql, TxPrepare, TxPrepareBindFails, TxExecStepFails,
     TxRunStepFails, TxEachFirstRow, TxExport, TxClose, Next
<1>2. ASSUME NEW s \in Stmt, TxStep(s) \/ TxReset(s) \/ TxFree(s) PROVE [Next]_vars
  BY <1>2 DEF TxStep, TxReset, TxFree, Next
<1>3. CASE TxEachDone \/ TxEachStepFails \/ TxEachThrows
  BY <1>3 DEF TxEachDone, TxEachStepFails, TxEachThrows, Next
<1>4. CASE UNCHANGED allVars
  BY <1>4 DEF allVars, vars
<1>5. QED
  BY <1>1, <1>2, <1>3, <1>4 DEF TxNext

\* Transactions implements Handles: each theorem of HandlesProofs is a
\* theorem of TxSpec.
THEOREM TransactionsRefineHandles == TxSpec => Spec
<1>1. TxInit => Init
  BY DEF TxInit
<1>2. QED
  BY <1>1, TxStepIsStep, PTL DEF TxSpec, Spec

-----------------------------------------------------------------------------
(***************************************************************************)
(* The files.                                                              *)
(***************************************************************************)

\* A call that opens and closes no Database.
LEMMA FilesKept ==
    ASSUME TxIInv, IInv', handle' = handle, Released,
           \A c \in Conn : conn[c] = "zombie" => conn'[c] # "open"
    PROVE  file' \in [Conn -> Db \cup {Null}] /\ FilesOwned'
<1> USE DEF TxIInv, IInv, TypeOK
<1>1. file' = [c \in Conn |-> IF conn'[c] = "free" THEN Null ELSE file[c]]
  BY DEF Released
<1>2. ASSUME NEW d \in Db, handle[d] # Null PROVE file'[handle[d]] = d
  <2>1. handle[d] \in Conn /\ conn'[handle[d]] # "free"
    BY <1>2 DEF ConnectionsAccounted
  <2>2. QED
    BY <1>1, <1>2, <2>1 DEF FilesOwned
<1>3. ASSUME NEW c \in Conn, file'[c] # Null
      PROVE  file'[c] \in Db /\ (conn'[c] = "zombie" \/ handle[file'[c]] = c)
  <2>1. file'[c] = file[c] /\ conn'[c] # "free" /\ conn'[c] \in {"free", "open", "zombie"}
    BY <1>1, <1>3
  <2>2. QED
    BY <1>3, <2>1 DEF FilesOwned
<1>4. QED
  BY <1>1, <1>2, <1>3 DEF FilesOwned

LEMMA OpenKeepsFiles ==
    ASSUME TxIInv, NEW d \in Db, TxOpenDatabase(d)
    PROVE  file' \in [Conn -> Db \cup {Null}] /\ FilesOwned'
<1> USE DEF TxIInv, IInv, TypeOK
<1>1. PICK c \in Conn : /\ conn[c] = "free"
                        /\ handle' = [handle EXCEPT ![d] = c]
                        /\ conn' = [conn EXCEPT ![c] = "open"]
  BY DEF TxOpenDatabase, OpenDatabase
<1>2. file' = [file EXCEPT ![c] = d] /\ handle[d] = Null
  BY <1>1 DEF TxOpenDatabase, OpenDatabase
<1>3. \A e \in Db : handle[e] # Null => handle[e] \in Conn \ {c}
  BY <1>1 DEF ConnectionsAccounted
<1>4. QED
  BY <1>1, <1>2, <1>3, NullAssumption DEF FilesOwned

LEMMA ExportKeepsFiles ==
    ASSUME TxIInv, IInv', NEW d \in Db, TxExport(d)
    PROVE  file' \in [Conn -> Db \cup {Null}] /\ FilesOwned'
<1> USE DEF TxIInv, IInv, TypeOK
<1> DEFINE closed == CloseV2(handle[d], vdbe')
<1>1. PICK n \in Conn : /\ closed[n] = "free"
                        /\ conn' = [closed EXCEPT ![n] = "open"]
                        /\ handle' = [handle EXCEPT ![d] = n]
  BY DEF TxExport, Export
<1>2. /\ handle[d] \in Conn /\ handle'[d] = n
      /\ \A e \in Db \ {d} : handle'[e] = handle[e]
      /\ file' = [c \in Conn |-> IF c = n THEN d
                                 ELSE IF conn'[c] = "free" THEN Null ELSE file[c]]
  BY <1>1 DEF TxExport, Export
<1>3. \A c \in Conn : closed[c] \in {"free", "zombie"}
                        \/ (closed[c] = conn[c] /\ c # handle[d])
  BY <1>2 DEF CloseV2, Reap
<1>4. \A c \in Conn : conn[c] = "zombie" => closed[c] \in {"free", "zombie"}
  BY <1>3
<1>5. closed \in [Conn -> {"free", "open", "zombie"}]
  BY <1>2, CloseType
<1> HIDE DEF closed
<1>6. \A c \in Conn \ {n} : conn'[c] = closed[c]
  BY <1>1, <1>5
<1>7. ASSUME NEW e \in Db, handle'[e] # Null PROVE file'[handle'[e]] = e
  <2>1. CASE e = d
    BY <1>2, <2>1
  <2>2. CASE e # d
    <3>1. handle'[e] = handle[e] /\ handle[e] \in Conn
      BY <1>2, <1>7, <2>2
    <3>2. handle[e] # n /\ conn'[handle[e]] # "free"
      BY <1>2, <1>7, <2>2, <3>1 DEF ConnectionsAccounted
    <3>3. QED
      BY <1>2, <1>7, <3>1, <3>2 DEF FilesOwned
  <2>3. QED
    BY <2>1, <2>2
<1>8. ASSUME NEW c \in Conn, file'[c] # Null
      PROVE  file'[c] \in Db /\ (conn'[c] = "zombie" \/ handle'[file'[c]] = c)
  <2>1. CASE c = n
    BY <1>2, <2>1
  <2>2. CASE c # n
    <3>1. file'[c] = file[c] /\ conn'[c] = closed[c] /\ closed[c] # "free"
      BY <1>2, <1>6, <1>8, <2>2
    <3>2. file[c] \in Db /\ (conn[c] = "zombie" \/ handle[file[c]] = c)
      BY <1>8, <3>1 DEF FilesOwned
    <3>3. closed[c] = "zombie" \/ handle'[file[c]] = c
      BY <1>2, <1>3, <1>4, <3>1, <3>2
    <3>4. QED
      BY <3>1, <3>2, <3>3
  <2>3. QED
    BY <2>1, <2>2
<1>9. file' \in [Conn -> Db \cup {Null}]
  BY <1>2
<1>10. QED
  BY <1>7, <1>8, <1>9 DEF FilesOwned

LEMMA CloseKeepsFiles ==
    ASSUME TxIInv, IInv', NEW d \in Db, TxClose(d)
    PROVE  file' \in [Conn -> Db \cup {Null}] /\ FilesOwned'
<1> USE DEF TxIInv, IInv, TypeOK
<1>1. /\ handle[d] # Null
      /\ handle' = [handle EXCEPT ![d] = Null]
      /\ conn' = CloseV2(handle[d], vdbe')
      /\ file' = [c \in Conn |-> IF file[c] = d \/ conn'[c] = "free" THEN Null ELSE file[c]]
  BY DEF TxClose, Close
<1>2. \A c \in Conn : conn[c] = "zombie" => conn'[c] \in {"free", "zombie"}
  BY <1>1 DEF CloseV2, Reap
<1>3. ASSUME NEW e \in Db, handle'[e] # Null PROVE file'[handle'[e]] = e
  <2>1. e # d /\ handle'[e] = handle[e] /\ handle[e] \in Conn
    BY <1>1, <1>3
  <2>2. file[handle[e]] = e /\ conn'[handle[e]] # "free"
    BY <1>3, <2>1 DEF FilesOwned, ConnectionsAccounted
  <2>3. QED
    BY <1>1, <2>1, <2>2
<1>4. ASSUME NEW c \in Conn, file'[c] # Null
      PROVE  file'[c] \in Db /\ (conn'[c] = "zombie" \/ handle'[file'[c]] = c)
  <2>1. file'[c] = file[c] /\ file[c] # d /\ conn'[c] # "free"
    BY <1>1, <1>4
  <2>2. file[c] \in Db /\ (conn[c] = "zombie" \/ handle[file[c]] = c)
    BY <1>4, <2>1 DEF FilesOwned
  <2>3. QED
    BY <1>1, <1>2, <2>1, <2>2
<1>5. QED
  BY <1>1, <1>3, <1>4 DEF FilesOwned

LEMMA TxInvariantInit == TxInit => TxIInv
  BY InvariantInit DEF TxInit, Init, TxIInv, FilesOwned

LEMMA TxInvariantStep == TxIInv /\ [TxNext]_allVars => TxIInv'
<1> SUFFICES ASSUME TxIInv, [TxNext]_allVars PROVE TxIInv'
  OBVIOUS
<1>1. IInv'
  BY TxStepIsStep, InvariantStep DEF TxIInv
<1>2. ASSUME handle' = handle, Released, conn' = conn \/ conn' = Reap(conn, vdbe')
      PROVE  TxIInv'
  <2>1. \A c \in Conn : conn[c] = "zombie" => conn'[c] # "open"
    BY <1>2 DEF Reap
  <2>2. QED
    BY <1>1, <1>2, <2>1, FilesKept DEF TxIInv
<1>3. ASSUME NEW d \in Db, TxOpenDatabase(d) \/ TxExport(d) \/ TxClose(d) PROVE TxIInv'
  BY <1>1, <1>3, OpenKeepsFiles, ExportKeepsFiles, CloseKeepsFiles DEF TxIInv
<1>4. ASSUME NEW d \in Db, RunSql(d) PROVE TxIInv'
  BY <1>2, <1>4 DEF RunSql, Ran, vars
<1>5. ASSUME NEW d \in Db, TxPrepare(d) \/ TxPrepareBindFails(d) PROVE TxIInv'
  BY <1>2, <1>5 DEF TxPrepare, TxPrepareBindFails, RanNothing, Prepare, PrepareBindFails,
     Compile, Enrol, jsVars
<1>6. ASSUME NEW d \in Db, TxExecStepFails(d) \/ TxRunStepFails(d) \/ TxEachFirstRow(d)
      PROVE  TxIInv'
  BY <1>2, <1>6 DEF TxExecStepFails, TxRunStepFails, TxEachFirstRow, RanNew, Ran,
     ExecStepFails, RunStepFails, EachFirstRow, Compile, Enrol, jsVars
<1>7. ASSUME NEW s \in Stmt, TxStep(s) \/ TxReset(s) \/ TxFree(s) PROVE TxIInv'
  BY <1>2, <1>7 DEF TxStep, TxReset, TxFree, Step, Reset, Free, Ran, RanNothing
<1>8. CASE TxEachDone \/ TxEachStepFails \/ TxEachThrows
  BY <1>2, <1>8 DEF TxEachDone, TxEachStepFails, TxEachThrows, EachDone, EachStepFails,
     EachThrows, RanNothing, engineVars
<1>9. CASE UNCHANGED allVars
  BY <1>1, <1>9 DEF allVars, vars, txVars, TxIInv, FilesOwned
<1>10. QED
  BY <1>3, <1>4, <1>5, <1>6, <1>7, <1>8, <1>9 DEF TxNext

LEMMA TxInvariance == TxSpec => []TxIInv
  BY TxInvariantInit, TxInvariantStep, PTL DEF TxSpec

-----------------------------------------------------------------------------
(***************************************************************************)
(* Who shares a file.                                                      *)
(***************************************************************************)

\* A Database that has leaked no statement never finds its own file locked: all
\* other connections on the file are zombies, and a zombie is kept by a leak.
THEOREM BusyMeansLeak == TxSpec => []NoLeakNoBusy
<1>1. TxIInv => NoLeakNoBusy
  <2> SUFFICES ASSUME TxIInv, \A p \in Ptr : ~Orphan(p),
                      NEW d \in Db, handle[d] # Null
               PROVE  Others(handle[d]) = {}
    BY DEF NoLeakNoBusy, MayCommit
  <2>1. handle[d] \in Conn /\ file[handle[d]] = d
    BY DEF TxIInv, IInv, TypeOK, FilesOwned
  <2>2. \A c \in Conn : conn[c] # "zombie"
    BY DEF TxIInv, IInv, ConnectionsAccounted
  <2>3. \A c \in Conn : file[c] = d => c = handle[d]
    BY <2>1, <2>2, NullAssumption DEF TxIInv, FilesOwned
  <2>4. QED
    BY <2>1, <2>3 DEF Others
<1>2. QED
  BY <1>1, TxInvariance, PTL

-----------------------------------------------------------------------------
(***************************************************************************)
(* Locks and transactions.                                                 *)
(***************************************************************************)
Txs == [auto : BOOLEAN, lock : Locks, cache : Content \cup {Null}]
WriteLocks == {"reserved", "pending"}

\* What lets a statement run, so that no CASE of Outcomes is missing.
KindsKnown == \A s \in Stmt : stmt[s] # Null => kind[stmt[s]] \in Kinds

\* A connection that is gone has left nothing.
FreeIsClean == \A c \in Conn : conn[c] = "free" => tx[c] = NoTx

\* A refused write is kept out by a zombie, which nobody can reach any more: this is
\* why RefusedWritesStay lasts.
RefusedByZombie ==
    \A p \in Ptr : RefusedWrite(p) /\ file[vdbe[p]] # Null =>
        \E e \in Others(vdbe[p]) : conn[e] = "zombie" /\ Writing(e)

LockInv == TxTypeOK /\ OneWriter /\ KindsKnown /\ FreeIsClean /\ RefusedByZombie

TxInv == TxIInv /\ LockInv

\* btreeEndTransaction keeps a writer in a transaction as it is.
LEMMA SettleFacts ==
    ASSUME NEW c, NEW t \in Txs
    PROVE  /\ Settle(c, t) \in Txs
           /\ ~t.auto => Settle(c, t) = t
           /\ Settle(c, t).lock \in WriteLocks => ~t.auto /\ Settle(c, t) = t
           /\ Settle(c, t).cache # Null => t.cache # Null /\ (~t.auto \/ t.lock = "none")
           /\ t = NoTx => Settle(c, t) = NoTx
<1>1. CASE ~t.auto \/ t.lock = "none"
  BY <1>1 DEF Settle, WriteLocks, Txs, NoTx
<1>2. CASE t.auto /\ t.lock # "none"
  <2> DEFINE l == IF \E p \in Ptr : vdbe'[p] = c /\ mode'[p] \in {"row", "busy"}
                  THEN "shared" ELSE "none"
  <2>1. Settle(c, t) = [t EXCEPT !.cache = Null, !.lock = l]
    BY <1>2 DEF Settle
  <2>2. l \in {"shared", "none"}
    OBVIOUS
  <2> HIDE DEF l
  <2>3. /\ Settle(c, t).lock = l /\ Settle(c, t).cache = Null /\ Settle(c, t).auto = t.auto
        /\ Settle(c, t) \in Txs
    BY <2>1, <2>2 DEF Txs, Locks
  <2>4. t # NoTx
    BY <1>2 DEF NoTx
  <2>5. QED
    BY <1>2, <2>2, <2>3, <2>4 DEF WriteLocks
<1>3. QED
  BY <1>1, <1>2 DEF Txs

\* What one step of a statement can do to its connection's transaction and to the file.
LEMMA OutcomeFacts ==
    ASSUME TxInv, NEW c \in Conn, file[c] \in Db, NEW k \in Kinds, NEW o \in Outcomes(c, k)
    PROVE  /\ o.tx \in Txs /\ o.disk \in Content
           /\ o.tx.lock \in WriteLocks => Writing(c) \/ MayReserve(c)
           /\ o.tx.cache # Null => o.tx.lock \in WriteLocks
           /\ o.disk # disk[file[c]] => MayCommit(c)
           /\ k = "write" /\ o.end = "busy" => ~MayRead(c) \/ ~MayReserve(c)
<1> USE DEF Outcome
<1>1. /\ tx[c] \in Txs /\ disk[file[c]] \in Content /\ View(c) \in Content
      /\ tx[c].lock \in WriteLocks <=> Writing(c)
      /\ tx[c].cache # Null => tx[c].lock \in WriteLocks /\ ~tx[c].auto
      /\ ~Writing(c) => View(c) = disk[file[c]]
  <2>1. tx[c] \in Txs /\ disk[file[c]] \in Content /\ OneWriter
    BY DEF TxInv, LockInv, TxTypeOK, Txs
  <2>2. tx[c].cache # Null => Writing(c)
    BY <2>1 DEF OneWriter
  <2>3. QED
    BY <2>1, <2>2 DEF OneWriter, Writing, WriteLocks, View, Txs
<1>2. Unchanged(c, o.end) = [tx |-> tx[c], disk |-> disk[file[c]], end |-> o.end]
  BY DEF Unchanged
<1>3. CASE k = "read"
  <2>1. \/ o = [tx |-> [tx[c] EXCEPT !.lock = AtLeastShared(c)], disk |-> disk[file[c]], end |-> o.end]
        \/ o = [tx |-> tx[c], disk |-> disk[file[c]], end |-> o.end]
    BY <1>3 DEF Outcomes, ReadOutcomes, Unchanged
  <2>2. AtLeastShared(c) \in Locks /\ (AtLeastShared(c) \in WriteLocks <=> tx[c].lock \in WriteLocks)
    BY <1>1 DEF AtLeastShared, Locks, WriteLocks, Txs
  <2>3. QED
    BY <1>1, <1>3, <2>1, <2>2 DEF Txs
<1>4. CASE k = "write"
  <2> DEFINE begun == [tx[c] EXCEPT !.lock = IF @ = "pending" THEN @ ELSE "reserved"]
  <2>1. /\ begun \in Txs /\ begun.lock \in WriteLocks
        /\ \A v \in Content : [begun EXCEPT !.cache = v] \in Txs
                              /\ [begun EXCEPT !.cache = v].lock \in WriteLocks
    BY <1>1 DEF Txs, Locks, WriteLocks
  <2>2. CASE ~MayRead(c) \/ ~MayReserve(c)
    <3>1. o = [tx |-> tx[c], disk |-> disk[file[c]], end |-> "busy"]
      BY <1>4, <2>2 DEF Outcomes, WriteOutcomes, Unchanged
    <3>2. QED
      BY <1>1, <2>2, <3>1
  <2>3. CASE MayRead(c) /\ MayReserve(c)
    <3>1. \/ o = [tx |-> begun, disk |-> disk[file[c]], end |-> "error"]
          \/ \E v \in Content : (~tx[c].auto \/ MayCommit(c)) /\
                 o = IF tx[c].auto
                     THEN [tx |-> begun, disk |-> v, end |-> "done"]
                     ELSE [tx |-> [begun EXCEPT !.cache = v], disk |-> disk[file[c]], end |-> "done"]
      BY <1>4, <2>3 DEF Outcomes, WriteOutcomes
    <3>2. QED
      <4> HIDE DEF begun
      <4>1. CASE o = [tx |-> begun, disk |-> disk[file[c]], end |-> "error"]
        BY <1>1, <2>1, <2>3, <4>1
      <4>2. ASSUME NEW v \in Content, tx[c].auto, MayCommit(c),
                   o = [tx |-> begun, disk |-> v, end |-> "done"]
            PROVE  o.tx = begun /\ o.disk = v /\ o.end = "done"
        BY <4>2
      <4>3. ASSUME NEW v \in Content, ~tx[c].auto,
                   o = [tx |-> [begun EXCEPT !.cache = v], disk |-> disk[file[c]], end |-> "done"]
            PROVE  o.tx = [begun EXCEPT !.cache = v] /\ o.disk = disk[file[c]] /\ o.end = "done"
        BY <4>3
      <4>4. QED
        BY <1>1, <2>1, <2>3, <3>1, <4>1, <4>2, <4>3
  <2>4. QED
    BY <2>2, <2>3
<1>5. CASE k = "begin"
  <2>1. \/ tx[c].auto /\ o = [tx |-> [tx[c] EXCEPT !.auto = FALSE], disk |-> disk[file[c]], end |-> "done"]
        \/ o = [tx |-> tx[c], disk |-> disk[file[c]], end |-> "error"]
    BY <1>5 DEF Outcomes, BeginOutcomes, Unchanged
  <2>2. CASE tx[c].auto /\ o = [tx |-> [tx[c] EXCEPT !.auto = FALSE], disk |-> disk[file[c]], end |-> "done"]
    BY <1>1, <1>5, <2>2 DEF Txs
  <2>3. CASE o = [tx |-> tx[c], disk |-> disk[file[c]], end |-> "error"]
    BY <1>1, <1>5, <2>3
  <2>4. QED
    BY <2>1, <2>2, <2>3
<1>6. CASE k = "commit"
  <2>1. \/ o = [tx |-> tx[c], disk |-> disk[file[c]], end |-> "error"]
        \/ Writing(c) /\ o = [tx |-> [tx[c] EXCEPT !.lock = "pending"], disk |-> disk[file[c]], end |-> "busy"]
        \/ /\ ~Writing(c) \/ MayCommit(c)
           /\ o = [tx |-> [tx[c] EXCEPT !.auto = TRUE, !.cache = Null], disk |-> View(c), end |-> "done"]
    BY <1>6 DEF Outcomes, CommitOutcomes, Unchanged
  <2>2. CASE o = [tx |-> tx[c], disk |-> disk[file[c]], end |-> "error"]
    BY <1>1, <1>6, <2>2
  <2>3. CASE Writing(c) /\ o = [tx |-> [tx[c] EXCEPT !.lock = "pending"], disk |-> disk[file[c]], end |-> "busy"]
    BY <1>1, <1>6, <2>3 DEF Txs, Locks, WriteLocks
  <2>4. CASE /\ ~Writing(c) \/ MayCommit(c)
             /\ o = [tx |-> [tx[c] EXCEPT !.auto = TRUE, !.cache = Null], disk |-> View(c), end |-> "done"]
    BY <1>1, <1>6, <2>4 DEF Txs
  <2>5. QED
    BY <2>1, <2>2, <2>3, <2>4
<1>7. CASE k = "rollback"
  <2>1. \/ o = [tx |-> tx[c], disk |-> disk[file[c]], end |-> "error"]
        \/ o = [tx |-> [tx[c] EXCEPT !.auto = TRUE, !.cache = Null], disk |-> disk[file[c]], end |-> "done"]
    BY <1>7 DEF Outcomes, RollbackOutcomes, Unchanged
  <2>2. CASE o = [tx |-> [tx[c] EXCEPT !.auto = TRUE, !.cache = Null], disk |-> disk[file[c]], end |-> "done"]
    BY <1>1, <1>7, <2>2 DEF Txs
  <2>3. CASE o = [tx |-> tx[c], disk |-> disk[file[c]], end |-> "error"]
    BY <1>1, <1>7, <2>3
  <2>4. QED
    BY <2>1, <2>2, <2>3
<1>8. QED
  BY <1>3, <1>4, <1>5, <1>6, <1>7 DEF Kinds

\* A zombie is kept by a statement that nothing can finalize, and stays.
LEMMA ZombiesStay ==
    ASSUME IInv, [Next]_vars, NEW e \in Conn, conn[e] = "zombie"
    PROVE  conn'[e] = "zombie"
<1> USE DEF IInv, TypeOK
<1>1. PICK p \in Ptr : vdbe[p] = e /\ Orphan(p)
  BY DEF ConnectionsAccounted
<1>2. ASSUME NEW S \in SUBSET Stmt, FreeEach(S) PROVE vdbe'[p] = e
  BY <1>1, <1>2 DEF FreeEach, FinalizeAll, Orphan
<1>3. ASSUME NEW d \in Db, OpenDatabase(d) PROVE conn'[e] = "zombie"
  BY <1>3 DEF OpenDatabase
<1>4. ASSUME NEW d \in Db, Export(d) \/ Close(d) PROVE conn'[e] = "zombie"
  <2>1. Registered(d) \in SUBSET Stmt
    BY DEF Registered
  <2>2. vdbe'[p] = e
    BY <1>2, <1>4, <2>1 DEF Export, Close
  <2>3. CloseV2(handle[d], vdbe')[e] = "zombie"
    BY <2>2 DEF CloseV2, Reap
  <2>4. CASE Close(d)
    BY <2>3, <2>4 DEF Close
  <2>5. CASE Export(d)
    <3> DEFINE closed == CloseV2(handle[d], vdbe')
    <3>1. PICK n \in Conn : closed[n] = "free" /\ conn' = [closed EXCEPT ![n] = "open"]
      BY <2>5 DEF Export
    <3>2. e \in DOMAIN closed /\ e # n
      BY <2>3, <3>1 DEF CloseV2, Reap
    <3> HIDE DEF closed
    <3>3. conn'[e] = closed[e]
      BY <3>1, <3>2
    <3>4. QED
      BY <2>3, <3>3 DEF closed
  <2>6. QED
    BY <1>4, <2>4, <2>5
<1>5. ASSUME NEW S \in SUBSET Stmt, FreeEach(S), conn' = Reap(conn, vdbe')
      PROVE  conn'[e] = "zombie"
  BY <1>2, <1>5 DEF Reap
<1>6. ASSUME NEW s \in Stmt, Free(s) PROVE conn'[e] = "zombie"
  <2>1. {s} \in SUBSET Stmt
    OBVIOUS
  <2>2. QED
    BY <1>5, <1>6, <2>1 DEF Free
<1>7. CASE EachDone
  <2>1. PICK s \in Stmt : s = Top
    BY <1>7, PopFrames DEF EachDone
  <2>2. {s} \in SUBSET Stmt
    OBVIOUS
  <2>3. QED
    BY <1>5, <1>7, <2>1, <2>2 DEF EachDone
<1>8. ASSUME UNCHANGED conn PROVE conn'[e] = "zombie"
  BY <1>8
<1>9. ASSUME NEW d \in Db, Prepare(d) \/ PrepareBindFails(d) \/ ExecStepFails(d)
                             \/ RunStepFails(d) \/ EachFirstRow(d)
      PROVE  UNCHANGED conn
  BY <1>9 DEF Prepare, PrepareBindFails, ExecStepFails, RunStepFails, EachFirstRow, Compile
<1>10. ASSUME NEW s \in Stmt, Step(s) \/ Reset(s) PROVE UNCHANGED conn
  BY <1>10 DEF Step, Reset
<1>11. CASE EachStepFails \/ EachThrows \/ UNCHANGED vars
  BY <1>8, <1>11 DEF EachStepFails, EachThrows, engineVars, vars
<1>12. QED
  BY <1>3, <1>4, <1>6, <1>7, <1>8, <1>9, <1>10, <1>11 DEF Next

\* The transactions after a call that ran something on c alone, or nothing.
LEMMA Transacted ==
    ASSUME TxInv, [Next]_vars, NEW c, NEW t, Transact(t), t \in [Conn -> Txs],
           \A x \in Conn :
               \/ t[x] = tx[x]
               \/ /\ x = c /\ conn[x] # "zombie"
                  /\ t[x].lock \in WriteLocks => Writing(x) \/ MayReserve(x)
                  /\ t[x].cache # Null => t[x].lock \in WriteLocks
    PROVE  /\ tx' \in [Conn -> Txs]
           /\ \A x \in Conn : conn'[x] = "free" => tx'[x] = NoTx
           /\ \A x \in Conn : Writing(x)' =>
                  ~tx'[x].auto /\ (Writing(x) \/ (x = c /\ MayReserve(c)))
           /\ \A x \in Conn : tx'[x].cache # Null => Writing(x)'
           /\ \A x \in Conn : conn[x] = "zombie" /\ Writing(x) =>
                  conn'[x] = "zombie" /\ Writing(x)'
<1>1. /\ tx' = [x \in Conn |-> IF conn'[x] = "free" THEN NoTx ELSE Settle(x, t[x])]
      /\ NoTx \in Txs /\ NoTx.lock \notin WriteLocks /\ NoTx.cache = Null
  BY DEF Transact, NoTx, Txs, Locks, WriteLocks
<1>2. ASSUME NEW x \in Conn
      PROVE  /\ Settle(x, t[x]) \in Txs
             /\ Settle(x, t[x]).lock \in WriteLocks => ~t[x].auto /\ Settle(x, t[x]) = t[x]
             /\ Settle(x, t[x]).cache # Null => t[x].cache # Null /\ (~t[x].auto \/ t[x].lock = "none")
             /\ ~t[x].auto => Settle(x, t[x]) = t[x]
  BY SettleFacts
<1>3. ASSUME NEW x \in Conn
      PROVE  /\ t[x].lock \in WriteLocks => Writing(x) \/ (x = c /\ MayReserve(c))
             /\ t[x].cache # Null => t[x].lock \in WriteLocks
             /\ Writing(x) => ~tx[x].auto
             /\ Writing(x) <=> tx[x].lock \in WriteLocks
  <2>1. OneWriter /\ (Writing(x) <=> tx[x].lock \in WriteLocks)
    BY DEF TxInv, LockInv, Writing, WriteLocks
  <2>2. CASE t[x] = tx[x]
    BY <2>1, <2>2 DEF OneWriter
  <2>3. CASE t[x] # tx[x]
    BY <2>1, <2>3 DEF OneWriter
  <2>4. QED
    BY <2>2, <2>3
<1>4. ASSUME NEW x \in Conn
      PROVE  /\ Writing(x)' <=> tx'[x].lock \in WriteLocks
             /\ tx'[x] = NoTx \/ (conn'[x] # "free" /\ tx'[x] = Settle(x, t[x]))
             /\ conn'[x] = "free" => tx'[x] = NoTx
  BY <1>1 DEF Writing, WriteLocks
<1>5. ASSUME NEW x \in Conn, Writing(x)'
      PROVE  ~tx'[x].auto /\ (Writing(x) \/ (x = c /\ MayReserve(c)))
  BY <1>1, <1>2, <1>3, <1>4, <1>5
<1>6. ASSUME NEW x \in Conn, tx'[x].cache # Null PROVE Writing(x)'
  <2>1. tx'[x] = Settle(x, t[x]) /\ t[x].cache # Null /\ t[x].lock \in WriteLocks
    BY <1>1, <1>2, <1>3, <1>4, <1>6
  <2>2. ~t[x].auto
    BY <1>2, <1>6, <2>1 DEF WriteLocks
  <2>3. QED
    BY <1>2, <1>4, <2>1, <2>2
<1>7. ASSUME NEW x \in Conn, conn[x] = "zombie", Writing(x)
      PROVE  conn'[x] = "zombie" /\ Writing(x)'
  <2>1. conn'[x] = "zombie" /\ t[x] = tx[x] /\ ~t[x].auto
    BY <1>3, <1>7, ZombiesStay DEF TxInv, TxIInv
  <2>2. tx'[x] = tx[x]
    BY <1>1, <1>2, <2>1
  <2>3. QED
    BY <1>7, <2>1, <2>2 DEF Writing
<1>8. QED
  BY <1>1, <1>2, <1>4, <1>5, <1>6, <1>7

\* The writers after it: files are only let go of, or opened by a connection that has
\* no transaction and no statement yet; and a write is refused because of a zombie.
LEMMA LocksKept ==
    ASSUME TxInv, NEW c,
           \A x \in Conn : conn'[x] = "free" => tx'[x] = NoTx,
           \A x \in Conn : Writing(x)' =>
               ~tx'[x].auto /\ (Writing(x) \/ (x = c /\ MayReserve(c))),
           \A x \in Conn : tx'[x].cache # Null => Writing(x)',
           \A x \in Conn : conn[x] = "zombie" /\ Writing(x) =>
               conn'[x] = "zombie" /\ Writing(x)',
           \A x \in Conn : file'[x] # Null =>
               file'[x] = file[x] \/ (tx'[x] = NoTx /\ \A p \in Ptr : vdbe'[p] # x),
           \A x, e \in Conn : conn[e] = "zombie" /\ file[e] = file[x] /\ file'[x] = file[x]
               => file'[e] = file[e],
           \A p \in Ptr : RefusedWrite(p)' =>
               /\ vdbe'[p] \in Conn
               /\ \/ vdbe'[p] = vdbe[p] /\ RefusedWrite(p)
                  \/ /\ conn[vdbe'[p]] = "open"
                     /\ ~MayRead(vdbe'[p]) \/ ~MayReserve(vdbe'[p])
    PROVE  OneWriter' /\ FreeIsClean' /\ RefusedByZombie'
<1>1. OneWriter /\ RefusedByZombie /\ FilesOwned /\ ConnectionsAccounted
  BY DEF TxInv, LockInv, TxIInv, IInv
<1>2. ASSUME NEW x \in Conn, NEW y \in Conn, Writing(x)', Writing(y)',
             file'[x] # Null, file'[x] = file'[y]
      PROVE  x = y
  <2>1. ASSUME NEW z \in {x, y} PROVE file'[z] = file[z]
    <3>1. tx'[z] # NoTx
      BY <1>2, <2>1 DEF Writing, NoTx
    <3>2. QED
      BY <1>2, <2>1, <3>1
  <2>2. CASE Writing(x) /\ Writing(y)
    BY <1>1, <1>2, <2>1, <2>2 DEF OneWriter
  <2>3. CASE MayReserve(c) /\ c \in {x, y}
    BY <1>2, <2>1, <2>3 DEF MayReserve, Others
  <2>4. QED
    BY <1>2, <2>2, <2>3
<1>3. OneWriter' /\ FreeIsClean'
  BY <1>2 DEF OneWriter, FreeIsClean
<1>4. ASSUME NEW p \in Ptr, RefusedWrite(p)', file'[vdbe'[p]] # Null
      PROVE  \E e \in Conn : /\ e # vdbe'[p] /\ file'[e] = file'[vdbe'[p]]
                             /\ conn'[e] = "zombie" /\ Writing(e)'
  <2> DEFINE v == vdbe'[p]
  <2>1. v \in Conn /\ file'[v] = file[v] /\ file[v] # Null
    BY <1>4
  <2>2. \E e \in Others(v) : conn[e] = "zombie" /\ Writing(e)
    <3>1. CASE vdbe'[p] = vdbe[p] /\ RefusedWrite(p)
      BY <1>1, <2>1, <3>1 DEF RefusedByZombie
    <3>2. CASE conn[v] = "open" /\ (~MayRead(v) \/ ~MayReserve(v))
      <4>1. PICK e \in Others(v) : Writing(e)
        BY <3>2 DEF MayRead, MayReserve, Writing
      <4>2. e \in Conn /\ e # v /\ file[e] = file[v]
        BY DEF Others
      <4>3. handle[file[v]] = v
        BY <1>1, <2>1, <3>2 DEF FilesOwned
      <4>4. conn[e] = "zombie"
        BY <1>1, <2>1, <4>2, <4>3 DEF FilesOwned
      <4>5. QED
        BY <4>1, <4>4
    <3>3. QED
      BY <1>4, <3>1, <3>2
  <2>3. PICK e \in Others(v) : conn[e] = "zombie" /\ Writing(e)
    BY <2>2
  <2>4. e \in Conn /\ e # v /\ file[e] = file[v]
    BY DEF Others
  <2>5. file'[e] = file[e] /\ conn'[e] = "zombie" /\ Writing(e)'
    BY <2>1, <2>3, <2>4
  <2>6. QED
    BY <2>1, <2>4, <2>5
<1>5. RefusedByZombie'
  BY <1>4 DEF RefusedByZombie, Others
<1>6. QED
  BY <1>3, <1>5

\* Files, exported content and functions after a call that opens and closes nothing.
LEMMA ReleasedFacts ==
    ASSUME TxInv, [Next]_vars, Released
    PROVE  /\ file' \in [Conn -> Db \cup {Null}]
           /\ exported' \in [Db -> Content \cup {Null}] /\ extended' \subseteq Db
           /\ \A x \in Conn : file'[x] # Null => file'[x] = file[x]
           /\ \A e \in Conn : conn[e] = "zombie" => file'[e] = file[e]
<1>1. /\ file' = [c \in Conn |-> IF conn'[c] = "free" THEN Null ELSE file[c]]
      /\ extended' = extended /\ exported' = NothingExported
  BY DEF Released
<1>2. file \in [Conn -> Db \cup {Null}] /\ extended \subseteq Db
  BY DEF TxInv, LockInv, TxTypeOK
<1>3. \A e \in Conn : conn[e] = "zombie" => conn'[e] = "zombie"
  BY ZombiesStay DEF TxInv, TxIInv
<1>4. QED
  BY <1>1, <1>2, <1>3 DEF NothingExported

LEMMA RanNothingKeeps ==
    ASSUME TxInv, [Next]_vars, RanNothing,
           \A p \in Ptr : RefusedWrite(p)' => vdbe'[p] = vdbe[p] /\ RefusedWrite(p),
           kind' \in [Ptr -> Kinds \cup {Null}], KindsKnown'
    PROVE  LockInv'
<1>1. /\ Transact(tx) /\ Released /\ disk' = disk
      /\ tx \in [Conn -> Txs] /\ disk \in [Db -> Content] /\ vdbe \in [Ptr -> Conn \cup {Null}]
  BY DEF RanNothing, TxInv, LockInv, TxTypeOK, Txs, TxIInv, IInv, TypeOK
<1>2. \A p \in Ptr : RefusedWrite(p) => vdbe[p] \in Conn
  BY <1>1 DEF RefusedWrite
<1>3. /\ tx' \in [Conn -> Txs]
      /\ \A x \in Conn : conn'[x] = "free" => tx'[x] = NoTx
      /\ \A x \in Conn : Writing(x)' =>
             ~tx'[x].auto /\ (Writing(x) \/ (x = Null /\ MayReserve(Null)))
      /\ \A x \in Conn : tx'[x].cache # Null => Writing(x)'
      /\ \A x \in Conn : conn[x] = "zombie" /\ Writing(x) =>
             conn'[x] = "zombie" /\ Writing(x)'
  BY <1>1, Transacted
<1>4. OneWriter' /\ FreeIsClean' /\ RefusedByZombie'
  BY <1>1, <1>2, <1>3, ReleasedFacts, LocksKept
<1>5. TxTypeOK'
  BY <1>1, <1>3, ReleasedFacts DEF TxTypeOK, Txs
<1>6. QED
  BY <1>4, <1>5 DEF LockInv

LEMMA RanKeeps ==
    ASSUME TxInv, [Next]_vars, NEW c \in Conn, conn[c] = "open",
           NEW k \in Kinds, NEW o \in Outcomes(c, k), Ran(c, o),
           \A p \in Ptr : RefusedWrite(p)' =>
               \/ vdbe'[p] = vdbe[p] /\ RefusedWrite(p)
               \/ vdbe'[p] = c /\ k = "write" /\ o.end = "busy",
           kind' \in [Ptr -> Kinds \cup {Null}], KindsKnown'
    PROVE  LockInv'
<1>1. /\ Transact([tx EXCEPT ![c] = o.tx]) /\ Released
      /\ disk' = [disk EXCEPT ![file[c]] = o.disk]
      /\ tx \in [Conn -> Txs] /\ disk \in [Db -> Content] /\ vdbe \in [Ptr -> Conn \cup {Null}]
  BY DEF Ran, TxInv, LockInv, TxTypeOK, Txs, TxIInv, IInv, TypeOK
<1>2. file[c] \in Db
  <2>1. PICK d \in Db : handle[d] = c
    BY DEF TxInv, TxIInv, IInv, ConnectionsAccounted
  <2>2. QED
    BY <2>1, NullAssumption DEF TxInv, TxIInv, FilesOwned
<1>3. /\ o.tx \in Txs /\ o.disk \in Content
      /\ o.tx.lock \in WriteLocks => Writing(c) \/ MayReserve(c)
      /\ o.tx.cache # Null => o.tx.lock \in WriteLocks
      /\ k = "write" /\ o.end = "busy" => ~MayRead(c) \/ ~MayReserve(c)
  BY <1>2, OutcomeFacts
<1>4. /\ tx' \in [Conn -> Txs]
      /\ \A x \in Conn : conn'[x] = "free" => tx'[x] = NoTx
      /\ \A x \in Conn : Writing(x)' =>
             ~tx'[x].auto /\ (Writing(x) \/ (x = c /\ MayReserve(c)))
      /\ \A x \in Conn : tx'[x].cache # Null => Writing(x)'
      /\ \A x \in Conn : conn[x] = "zombie" /\ Writing(x) =>
             conn'[x] = "zombie" /\ Writing(x)'
  <2> DEFINE t == [tx EXCEPT ![c] = o.tx]
  <2>1. t \in [Conn -> Txs] /\ t[c] = o.tx /\ \A x \in Conn \ {c} : t[x] = tx[x]
    BY <1>1, <1>3
  <2>2. Transact(t)
    BY <1>1
  <2> HIDE DEF t
  <2>3. \A x \in Conn :
            \/ t[x] = tx[x]
            \/ /\ x = c /\ conn[x] # "zombie"
               /\ t[x].lock \in WriteLocks => Writing(x) \/ MayReserve(x)
               /\ t[x].cache # Null => t[x].lock \in WriteLocks
    BY <1>3, <2>1
  <2>4. QED
    BY <2>1, <2>2, <2>3, Transacted
<1>5. ASSUME NEW p \in Ptr, RefusedWrite(p)'
      PROVE  /\ vdbe'[p] \in Conn
             /\ \/ vdbe'[p] = vdbe[p] /\ RefusedWrite(p)
                \/ /\ conn[vdbe'[p]] = "open"
                   /\ ~MayRead(vdbe'[p]) \/ ~MayReserve(vdbe'[p])
  <2>1. CASE vdbe'[p] = vdbe[p] /\ RefusedWrite(p)
    BY <1>1, <2>1 DEF RefusedWrite
  <2>2. CASE vdbe'[p] = c /\ k = "write" /\ o.end = "busy"
    BY <1>3, <2>2
  <2>3. QED
    BY <1>5, <2>1, <2>2
<1>6. OneWriter' /\ FreeIsClean' /\ RefusedByZombie'
  BY <1>4, <1>5, ReleasedFacts, <1>1, LocksKept
<1>7. TxTypeOK'
  BY <1>1, <1>2, <1>3, <1>4, ReleasedFacts DEF TxTypeOK, Txs
<1>8. QED
  BY <1>6, <1>7 DEF LockInv

\* What is known of the statements after a call that compiled or finalized some.
LEMMA Labelled ==
    ASSUME TxInv, NEW k \in Kinds \cup {Null}, Label(k), TypeOK',
           \A s \in Stmt : stmt'[s] # Null =>
               \/ stmt'[s] = stmt[s] /\ vdbe'[stmt[s]] # Null
               \/ vdbe[stmt'[s]] = Null /\ vdbe'[stmt'[s]] # Null /\ k \in Kinds
    PROVE  /\ kind' \in [Ptr -> Kinds \cup {Null}] /\ KindsKnown'
           /\ \A p \in Ptr : vdbe'[p] # Null => kind'[p] = IF vdbe[p] = Null THEN k ELSE kind[p]
<1>1. kind' = [p \in Ptr |-> CASE vdbe'[p] = Null -> Null
                               [] vdbe'[p] # Null /\ vdbe[p] = Null -> k
                               [] OTHER -> kind[p]]
  BY DEF Label
<1>2. \A p \in Ptr : /\ vdbe'[p] = Null => kind'[p] = Null
                     /\ vdbe'[p] # Null => kind'[p] = IF vdbe[p] = Null THEN k ELSE kind[p]
  BY <1>1
<1>3. kind \in [Ptr -> Kinds \cup {Null}] /\ KindsKnown
  BY DEF TxInv, LockInv, TxTypeOK
<1>4. ASSUME NEW s \in Stmt, stmt'[s] # Null PROVE kind'[stmt'[s]] \in Kinds
  <2>1. stmt'[s] \in Ptr
    BY <1>4 DEF TypeOK
  <2>2. CASE stmt'[s] = stmt[s] /\ vdbe'[stmt[s]] # Null
    <3>1. vdbe[stmt[s]] # Null
      BY <1>4, <2>2, NullAssumption DEF TxInv, TxIInv, IInv, NoDanglingStatement
    <3>2. QED
      BY <1>2, <1>3, <1>4, <2>1, <2>2, <3>1 DEF KindsKnown
  <2>3. CASE vdbe[stmt'[s]] = Null /\ vdbe'[stmt'[s]] # Null /\ k \in Kinds
    BY <1>2, <2>1, <2>3
  <2>4. QED
    BY <1>4, <2>2, <2>3
<1>5. kind' \in [Ptr -> Kinds \cup {Null}]
  <2>1. \A p \in Ptr : kind'[p] \in Kinds \cup {Null}
    BY <1>2, <1>3
  <2>2. QED
    BY <1>1, <2>1
<1>6. QED
  BY <1>2, <1>4, <1>5 DEF KindsKnown

\* A call that finalizes statements leaves the others' refusals as they were.
LEMMA FreedRefusals ==
    ASSUME TxInv, IInv', NEW S \in SUBSET Stmt, FreeEach(S), Label(Null)
    PROVE  /\ kind' \in [Ptr -> Kinds \cup {Null}] /\ KindsKnown'
           /\ \A p \in Ptr : RefusedWrite(p)' => vdbe'[p] = vdbe[p] /\ RefusedWrite(p)
<1>1. \A p \in Ptr : vdbe'[p] # Null => vdbe'[p] = vdbe[p] /\ mode'[p] = mode[p]
  BY DEF FreeEach, FinalizeAll
<1>2. \A s \in Stmt : stmt'[s] # Null => stmt'[s] = stmt[s]
  BY DEF FreeEach
<1>3. \A s \in Stmt : stmt'[s] # Null => vdbe'[stmt'[s]] # Null
  BY DEF IInv, NoDanglingStatement
<1>4. /\ kind' \in [Ptr -> Kinds \cup {Null}] /\ KindsKnown'
      /\ \A p \in Ptr : vdbe'[p] # Null => kind'[p] = IF vdbe[p] = Null THEN Null ELSE kind[p]
  BY <1>2, <1>3, Labelled DEF IInv
<1>5. QED
  BY <1>1, <1>4 DEF RefusedWrite

\* A call that compiles one statement can add that one.
LEMMA CompiledRefusals ==
    ASSUME TxInv, IInv', NEW d \in Db, NEW p \in Ptr, NEW m \in Modes, Compile(d, p, m),
           NEW k \in Kinds \cup {Null}, Label(k),
           UNCHANGED stmt \/ (k \in Kinds /\ \E s \in Stmt : Enrol(d, p, s))
    PROVE  /\ kind' \in [Ptr -> Kinds \cup {Null}] /\ KindsKnown'
           /\ \A q \in Ptr : RefusedWrite(q)' =>
                  \/ vdbe'[q] = vdbe[q] /\ RefusedWrite(q)
                  \/ /\ q = p /\ vdbe[p] = Null /\ vdbe'[p] = handle[d]
                     /\ mode'[p] = "busy" /\ k = "write"
<1>1. /\ handle[d] # Null /\ vdbe[p] = Null /\ vdbe'[p] = handle[d]
      /\ \A q \in Ptr \ {p} : vdbe'[q] = vdbe[q] /\ mode'[q] = mode[q]
  BY DEF Compile, TxInv, TxIInv, IInv, TypeOK
<1>2. \A s \in Stmt : stmt'[s] # Null => vdbe'[stmt'[s]] # Null
  BY DEF IInv, NoDanglingStatement
<1>3. \A s \in Stmt : stmt'[s] # Null =>
          \/ stmt'[s] = stmt[s] /\ vdbe'[stmt[s]] # Null
          \/ vdbe[stmt'[s]] = Null /\ vdbe'[stmt'[s]] # Null /\ k \in Kinds
  <2>1. CASE UNCHANGED stmt
    BY <1>2, <2>1
  <2>2. CASE k \in Kinds /\ \E s \in Stmt : Enrol(d, p, s)
    <3>1. \A s \in Stmt : stmt'[s] = stmt[s] \/ stmt'[s] = p
      BY <2>2 DEF Enrol, TxInv, TxIInv, IInv, TypeOK
    <3>2. QED
      BY <1>1, <1>2, <2>2, <3>1
  <2>3. QED
    BY <2>1, <2>2
<1>4. /\ kind' \in [Ptr -> Kinds \cup {Null}] /\ KindsKnown'
      /\ \A q \in Ptr : vdbe'[q] # Null => kind'[q] = IF vdbe[q] = Null THEN k ELSE kind[q]
  BY <1>3, Labelled DEF IInv
<1>5. QED
  BY <1>1, <1>4 DEF RefusedWrite

\* The calls that run no statement, and neither open nor close a connection.
LEMMA QuietKeeps ==
    ASSUME TxInv, [Next]_vars, IInv', RanNothing, UNCHANGED <<vdbe, stmt, kind>>,
           \A p \in Ptr : mode'[p] = "busy" => mode[p] = "busy"
    PROVE  LockInv'
<1>1. kind' \in [Ptr -> Kinds \cup {Null}] /\ KindsKnown'
  BY DEF TxInv, LockInv, TxTypeOK, KindsKnown
<1>2. \A p \in Ptr : RefusedWrite(p)' => vdbe'[p] = vdbe[p] /\ RefusedWrite(p)
  BY DEF RefusedWrite
<1>3. QED
  BY <1>1, <1>2, RanNothingKeeps

LEMMA FreeingKeeps ==
    ASSUME TxInv, [Next]_vars, IInv', RanNothing, Label(Null),
           NEW S \in SUBSET Stmt, FreeEach(S)
    PROVE  LockInv'
BY FreedRefusals, RanNothingKeeps

\* prepare(), also when its bind throws.
LEMMA PreparingKeeps ==
    ASSUME TxInv, [Next]_vars, IInv', NEW d \in Db, TxPrepare(d) \/ TxPrepareBindFails(d)
    PROVE  LockInv'
<1>1. PICK p \in Ptr, k \in Kinds \cup {Null} :
          /\ Compile(d, p, "ready") /\ Label(k)
          /\ UNCHANGED stmt \/ (k \in Kinds /\ \E s \in Stmt : Enrol(d, p, s))
  BY DEF TxPrepare, TxPrepareBindFails, Prepare, PrepareBindFails, jsVars
<1>2. /\ kind' \in [Ptr -> Kinds \cup {Null}] /\ KindsKnown'
      /\ \A q \in Ptr : RefusedWrite(q)' =>
             \/ vdbe'[q] = vdbe[q] /\ RefusedWrite(q)
             \/ q = p /\ mode'[p] = "busy"
  <2>1. "ready" \in Modes
    BY DEF Modes
  <2>2. QED
    BY <1>1, <2>1, CompiledRefusals
<1>3. mode'[p] = "ready"
  BY <1>1 DEF Compile, TxInv, TxIInv, IInv, TypeOK
<1>4. QED
  BY <1>2, <1>3, RanNothingKeeps DEF TxPrepare, TxPrepareBindFails

\* The handle of an open Database is an open connection.
LEMMA HandleOpen ==
    ASSUME TxInv, NEW d \in Db, handle[d] # Null
    PROVE  handle[d] \in Conn /\ conn[handle[d]] = "open" /\ file[handle[d]] = d
BY DEF TxInv, TxIInv, IInv, TypeOK, ConnectionsAccounted, FilesOwned

\* run() of a string: what it compiles is gone when it returns.
LEMMA RunSqlKeeps ==
    ASSUME TxInv, [Next]_vars, IInv', NEW d \in Db, RunSql(d)
    PROVE  LockInv'
<1>1. PICK k \in Kinds : \E o \in Outcomes(handle[d], k) : Ran(handle[d], o)
  BY DEF RunSql
<1>2. PICK o \in Outcomes(handle[d], k) : Ran(handle[d], o)
  BY <1>1
<1>3. handle[d] \in Conn /\ conn[handle[d]] = "open"
  BY HandleOpen DEF RunSql
<1>4. UNCHANGED <<vdbe, mode, stmt, kind>>
  BY DEF RunSql, vars
<1>5. kind' \in [Ptr -> Kinds \cup {Null}] /\ KindsKnown'
  BY <1>4 DEF TxInv, LockInv, TxTypeOK, KindsKnown
<1>6. \A p \in Ptr : RefusedWrite(p)' => vdbe'[p] = vdbe[p] /\ RefusedWrite(p)
  BY <1>4 DEF RefusedWrite
<1>7. QED
  BY <1>2, <1>3, <1>5, <1>6, RanKeeps

\* A statement compiled, stepped once and left behind.
LEMMA RanNewKeeps ==
    ASSUME TxInv, [Next]_vars, IInv', NEW d \in Db, NEW p \in Ptr, NEW m \in Modes,
           Compile(d, p, m), NEW k \in Kinds, NEW o \in Outcomes(handle[d], k),
           RanNew(d, k, o), NEW l \in Kinds \cup {Null}, Label(l),
           o.end = "busy" => l = k,
           UNCHANGED stmt \/ (l \in Kinds /\ \E s \in Stmt : Enrol(d, p, s))
    PROVE  LockInv'
<1>1. handle[d] \in Conn /\ conn[handle[d]] = "open"
  BY HandleOpen DEF Compile
<1>2. /\ kind' \in [Ptr -> Kinds \cup {Null}] /\ KindsKnown'
      /\ \A q \in Ptr : RefusedWrite(q)' =>
             \/ vdbe'[q] = vdbe[q] /\ RefusedWrite(q)
             \/ /\ q = p /\ vdbe[p] = Null /\ vdbe'[p] = handle[d]
                /\ mode'[p] = "busy" /\ l = "write"
  BY CompiledRefusals
<1>3. vdbe[p] = Null /\ vdbe'[p] = handle[d] /\ vdbe'[p] # Null
  BY <1>1, NullAssumption DEF Compile, TxInv, TxIInv, IInv, TypeOK
<1>4. mode'[p] = ModeAfter(o)
  BY <1>3 DEF RanNew
<1>5. mode'[p] = "busy" => o.end = "busy"
  BY <1>4 DEF ModeAfter
<1>6. \A q \in Ptr : RefusedWrite(q)' =>
          \/ vdbe'[q] = vdbe[q] /\ RefusedWrite(q)
          \/ vdbe'[q] = handle[d] /\ k = "write" /\ o.end = "busy"
  BY <1>2, <1>5
<1>7. Ran(handle[d], o)
  BY DEF RanNew
<1>8. QED
  BY <1>1, <1>2, <1>6, <1>7, RanKeeps

LEMMA FailedStepKeeps ==
    ASSUME TxInv, [Next]_vars, IInv', NEW d \in Db,
           TxExecStepFails(d) \/ TxRunStepFails(d) \/ TxEachFirstRow(d)
    PROVE  LockInv'
<1>1. CASE TxExecStepFails(d)
  <2>1. PICK p \in Ptr, m \in {"busy", "halted"} : Compile(d, p, m)
    BY <1>1 DEF TxExecStepFails, ExecStepFails
  <2>2. PICK k \in Kinds : \E o \in Outcomes(handle[d], k) :
            RanNew(d, k, o) /\ Label(IF o.end = "busy" THEN k ELSE Null)
    BY <1>1 DEF TxExecStepFails
  <2>3. PICK o \in Outcomes(handle[d], k) :
            RanNew(d, k, o) /\ Label(IF o.end = "busy" THEN k ELSE Null)
    BY <2>2
  <2>4. PICK l \in Kinds \cup {Null} : Label(l) /\ (o.end = "busy" => l = k)
    BY <2>3
  <2>5. UNCHANGED stmt /\ m \in Modes
    BY <1>1, <2>1 DEF TxExecStepFails, ExecStepFails, jsVars, Modes
  <2>6. QED
    BY <2>1, <2>3, <2>4, <2>5, RanNewKeeps
<1>2. CASE TxRunStepFails(d)
  <2>1. PICK p \in Ptr, s \in Stmt, m \in {"busy", "halted"} : Compile(d, p, m) /\ Enrol(d, p, s)
    BY <1>2 DEF TxRunStepFails, RunStepFails
  <2>2. PICK k \in Kinds : \E o \in Outcomes(handle[d], k) : RanNew(d, k, o) /\ Label(k)
    BY <1>2 DEF TxRunStepFails
  <2>3. PICK o \in Outcomes(handle[d], k) : RanNew(d, k, o) /\ Label(k)
    BY <2>2
  <2>4. m \in Modes /\ k \in Kinds \cup {Null}
    BY <2>1, <2>2 DEF Modes
  <2>5. QED
    BY <2>1, <2>3, <2>4, RanNewKeeps
<1>3. CASE TxEachFirstRow(d)
  <2>1. PICK p \in Ptr, s \in Stmt : Compile(d, p, "row") /\ Enrol(d, p, s)
    BY <1>3 DEF TxEachFirstRow, EachFirstRow
  <2>2. PICK o \in ReadOutcomes(handle[d]) : RanNew(d, "read", o)
    BY <1>3 DEF TxEachFirstRow
  <2>3. /\ o \in Outcomes(handle[d], "read") /\ Label("read")
        /\ "read" \in Kinds /\ "read" \in Kinds \cup {Null} /\ "row" \in Modes
    BY <1>3, <2>2 DEF Outcomes, Kinds, Modes, TxEachFirstRow
  <2>4. QED
    BY <2>1, <2>2, <2>3, RanNewKeeps
<1>4. QED
  BY <1>1, <1>2, <1>3

LEMMA TxStepKeeps ==
    ASSUME TxInv, [Next]_vars, IInv', NEW s \in Stmt, TxStep(s)
    PROVE  LockInv'
<1> DEFINE q == stmt[s]
           c == vdbe[q]
<1>1. q # Null /\ q \in Ptr /\ UNCHANGED <<vdbe, stmt, kind>>
  BY DEF TxStep, Step, TxInv, TxIInv, IInv, TypeOK
<1>2. c \in Conn /\ conn[c] = "open"
  BY <1>1 DEF TxInv, TxIInv, IInv, TypeOK, NoDanglingStatement, ConnectionsAccounted
<1>3. kind[q] \in Kinds /\ kind' \in [Ptr -> Kinds \cup {Null}] /\ KindsKnown'
  BY <1>1 DEF TxInv, LockInv, TxTypeOK, KindsKnown
<1>4. PICK o \in Outcomes(c, kind[q]) : mode'[q] = ModeAfter(o) /\ Ran(c, o)
  BY DEF TxStep
<1>5. \A p \in Ptr \ {q} : mode'[p] = mode[p]
  BY DEF TxStep, Step, TxInv, TxIInv, IInv, TypeOK
<1>6. mode'[q] = "busy" => o.end = "busy"
  BY <1>4 DEF ModeAfter
<1>7. \A p \in Ptr : RefusedWrite(p)' =>
          \/ vdbe'[p] = vdbe[p] /\ RefusedWrite(p)
          \/ vdbe'[p] = c /\ kind[q] = "write" /\ o.end = "busy"
  BY <1>1, <1>5, <1>6 DEF RefusedWrite
<1> HIDE DEF q, c
<1>8. QED
  BY <1>2, <1>3, <1>4, <1>7, RanKeeps

LEMMA TxOpenKeeps ==
    ASSUME TxInv, [Next]_vars, IInv', NEW d \in Db, TxOpenDatabase(d)
    PROVE  LockInv'
<1> USE DEF TxInv, TxIInv, IInv, LockInv
<1>1. PICK n \in Conn : /\ conn[n] = "free"
                        /\ handle' = [handle EXCEPT ![d] = n]
                        /\ conn' = [conn EXCEPT ![n] = "open"]
  BY DEF TxOpenDatabase, OpenDatabase
<1>2. /\ handle'[d] = n /\ file' = [file EXCEPT ![n] = d]
      /\ extended' = extended \cup {d} /\ exported' = NothingExported
      /\ UNCHANGED <<kind, tx, stmt, vdbe, mode>>
      /\ \E v \in Content : disk' = [disk EXCEPT ![d] = v]
  BY <1>1 DEF TxOpenDatabase, OpenDatabase, TypeOK
<1>3. /\ file'[n] = d /\ \A x \in Conn \ {n} : file'[x] = file[x]
      /\ \A x \in Conn \ {n} : conn'[x] = conn[x]
      /\ conn'[n] = "open"
  BY <1>1, <1>2 DEF TxTypeOK, TypeOK
<1>4. tx[n] = NoTx /\ \A p \in Ptr : vdbe[p] # n
  BY <1>1, NullAssumption DEF FreeIsClean, ConnectionsAccounted
<1>5. \A x \in Conn : Writing(x)' <=> Writing(x)
  BY <1>2 DEF Writing
<1>6. \A p \in Ptr : RefusedWrite(p)' =>
          vdbe'[p] \in Conn /\ vdbe'[p] = vdbe[p] /\ RefusedWrite(p)
  BY <1>2 DEF RefusedWrite, TypeOK
<1>7. \A x \in Conn : conn'[x] = "free" => tx'[x] = NoTx
  BY <1>2, <1>3 DEF FreeIsClean
<1>8. \A x \in Conn : conn[x] = "zombie" /\ Writing(x) => conn'[x] = "zombie" /\ Writing(x)'
  BY <1>5, ZombiesStay
<1>9. OneWriter' /\ FreeIsClean' /\ RefusedByZombie'
  <2>1. \A x \in Conn : Writing(x)' =>
            ~tx'[x].auto /\ (Writing(x) \/ (x = Null /\ MayReserve(Null)))
    BY <1>2, <1>5 DEF OneWriter
  <2>2. \A x \in Conn : tx'[x].cache # Null => Writing(x)'
    BY <1>2, <1>5 DEF OneWriter
  <2>3. \A x \in Conn : file'[x] # Null =>
            file'[x] = file[x] \/ (tx'[x] = NoTx /\ \A p \in Ptr : vdbe'[p] # x)
    BY <1>2, <1>3, <1>4
  <2>4. \A x, e \in Conn : conn[e] = "zombie" /\ file[e] = file[x] /\ file'[x] = file[x]
            => file'[e] = file[e]
    BY <1>1, <1>3
  <2>5. QED
    BY <1>6, <1>7, <1>8, <2>1, <2>2, <2>3, <2>4, LocksKept
<1>10. TxTypeOK' /\ KindsKnown'
  BY <1>2 DEF TxTypeOK, NothingExported, KindsKnown
<1>11. QED
  BY <1>9, <1>10

LEMMA TxExportKeeps ==
    ASSUME TxInv, [Next]_vars, IInv', NEW d \in Db, TxExport(d)
    PROVE  LockInv'
<1> USE DEF TxInv, TxIInv, IInv, LockInv
<1> DEFINE closed == CloseV2(handle[d], vdbe')
<1>1. PICK n \in Conn : /\ closed[n] = "free"
                        /\ conn' = [closed EXCEPT ![n] = "open"]
                        /\ handle' = [handle EXCEPT ![d] = n]
  BY DEF TxExport, Export
<1>2. /\ handle[d] \in Conn /\ handle'[d] = n /\ FreeEach(Registered(d)) /\ Label(Null)
      /\ Transact([tx EXCEPT ![n] = NoTx])
      /\ file' = [c \in Conn |-> IF c = n THEN d ELSE IF conn'[c] = "free" THEN Null ELSE file[c]]
      /\ extended' = extended \ {d}
      /\ exported' = [NothingExported EXCEPT ![d] = disk[d]]
      /\ disk' = disk
  BY <1>1 DEF TxExport, Export, TypeOK
<1>3. \A p \in Ptr : vdbe'[p] # n
  <2>1. \/ \A p \in Ptr : vdbe'[p] # n
        \/ conn[n] = "free"
    BY <1>1 DEF CloseV2, Reap, TypeOK
  <2>2. \A p \in Ptr : vdbe'[p] = vdbe[p] \/ vdbe'[p] = Null
    BY <1>2 DEF FreeEach, FinalizeAll
  <2>3. QED
    BY <2>1, <2>2, NullAssumption DEF ConnectionsAccounted
<1>4. closed \in [Conn -> {"free", "open", "zombie"}]
  BY <1>2, CloseType
<1> HIDE DEF closed
<1>5. conn'[n] = "open"
  BY <1>1, <1>4
<1>6. \A e \in Conn : conn[e] = "zombie" => conn'[e] = "zombie" /\ e # n
  BY <1>5, ZombiesStay
<1> DEFINE t == [tx EXCEPT ![n] = NoTx]
<1>7. t \in [Conn -> Txs] /\ t[n] = NoTx /\ (\A x \in Conn \ {n} : t[x] = tx[x]) /\ Transact(t)
  BY <1>2 DEF TxTypeOK, Txs, NoTx, Locks
<1> HIDE DEF t
<1>8. tx'[n] = NoTx
  <2>1. tx'[n] = Settle(n, t[n])
    BY <1>5, <1>7 DEF Transact
  <2>2. QED
    BY <1>7, <2>1, SettleFacts
<1>9. /\ tx' \in [Conn -> Txs]
      /\ \A x \in Conn : conn'[x] = "free" => tx'[x] = NoTx
      /\ \A x \in Conn : Writing(x)' =>
             ~tx'[x].auto /\ (Writing(x) \/ (x = n /\ MayReserve(n)))
      /\ \A x \in Conn : tx'[x].cache # Null => Writing(x)'
      /\ \A x \in Conn : conn[x] = "zombie" /\ Writing(x) =>
             conn'[x] = "zombie" /\ Writing(x)'
  <2>1. \A x \in Conn :
            \/ t[x] = tx[x]
            \/ /\ x = n /\ conn[x] # "zombie"
               /\ t[x].lock \in WriteLocks => Writing(x) \/ MayReserve(x)
               /\ t[x].cache # Null => t[x].lock \in WriteLocks
    BY <1>6, <1>7 DEF NoTx, WriteLocks
  <2>2. QED
    BY <1>7, <2>1, Transacted
<1>10. /\ kind' \in [Ptr -> Kinds \cup {Null}] /\ KindsKnown'
       /\ \A p \in Ptr : RefusedWrite(p)' => vdbe'[p] = vdbe[p] /\ RefusedWrite(p)
  <2>1. Registered(d) \in SUBSET Stmt
    BY DEF Registered
  <2>2. QED
    BY <1>2, <2>1, FreedRefusals
<1>11. \A p \in Ptr : RefusedWrite(p)' =>
           vdbe'[p] \in Conn /\ vdbe'[p] = vdbe[p] /\ RefusedWrite(p)
  BY <1>10 DEF RefusedWrite, TypeOK
<1>12. /\ file' \in [Conn -> Db \cup {Null}]
       /\ \A x \in Conn : file'[x] # Null =>
              file'[x] = file[x] \/ (tx'[x] = NoTx /\ \A p \in Ptr : vdbe'[p] # x)
       /\ \A e \in Conn : conn[e] = "zombie" => file'[e] = file[e]
  BY <1>2, <1>3, <1>6, <1>8 DEF TxTypeOK
<1>13. OneWriter' /\ FreeIsClean' /\ RefusedByZombie'
  BY <1>9, <1>11, <1>12, LocksKept
<1>14. TxTypeOK'
  BY <1>2, <1>9, <1>10, <1>12 DEF TxTypeOK, NothingExported, Txs
<1>15. QED
  BY <1>10, <1>13, <1>14

LEMMA TxCloseKeeps ==
    ASSUME TxInv, [Next]_vars, IInv', NEW d \in Db, TxClose(d)
    PROVE  LockInv'
<1> USE DEF TxInv, TxIInv, IInv, LockInv
<1>1. /\ FreeEach(Registered(d)) /\ Label(Null) /\ Transact(tx)
      /\ file' = [c \in Conn |-> IF file[c] = d \/ conn'[c] = "free" THEN Null ELSE file[c]]
      /\ extended' = extended \ {d} /\ exported' = NothingExported /\ disk' = disk
      /\ tx \in [Conn -> Txs]
  BY DEF TxClose, Close, TxTypeOK, Txs
<1>2. \A e \in Conn : conn[e] = "zombie" => conn'[e] = "zombie"
  BY ZombiesStay
<1>3. /\ tx' \in [Conn -> Txs]
      /\ \A x \in Conn : conn'[x] = "free" => tx'[x] = NoTx
      /\ \A x \in Conn : Writing(x)' =>
             ~tx'[x].auto /\ (Writing(x) \/ (x = Null /\ MayReserve(Null)))
      /\ \A x \in Conn : tx'[x].cache # Null => Writing(x)'
      /\ \A x \in Conn : conn[x] = "zombie" /\ Writing(x) =>
             conn'[x] = "zombie" /\ Writing(x)'
  BY <1>1, Transacted
<1>4. /\ kind' \in [Ptr -> Kinds \cup {Null}] /\ KindsKnown'
      /\ \A p \in Ptr : RefusedWrite(p)' => vdbe'[p] = vdbe[p] /\ RefusedWrite(p)
  <2>1. Registered(d) \in SUBSET Stmt
    BY DEF Registered
  <2>2. QED
    BY <1>1, <2>1, FreedRefusals
<1>5. \A p \in Ptr : RefusedWrite(p)' =>
          vdbe'[p] \in Conn /\ vdbe'[p] = vdbe[p] /\ RefusedWrite(p)
  BY <1>4 DEF RefusedWrite, TypeOK
<1>6. /\ file' \in [Conn -> Db \cup {Null}]
      /\ \A x \in Conn : file'[x] # Null => file'[x] = file[x]
      /\ \A x, e \in Conn : conn[e] = "zombie" /\ file[e] = file[x] /\ file'[x] = file[x]
             => file'[e] = file[e]
  BY <1>1, <1>2, NullAssumption DEF TxTypeOK
<1>7. OneWriter' /\ FreeIsClean' /\ RefusedByZombie'
  BY <1>3, <1>5, <1>6, LocksKept
<1>8. TxTypeOK'
  BY <1>1, <1>3, <1>4, <1>6 DEF TxTypeOK, NothingExported, Txs
<1>9. QED
  BY <1>4, <1>7, <1>8

LEMMA LockInvInit == TxInit => LockInv
<1> SUFFICES ASSUME TxInit PROVE LockInv
  OBVIOUS
<1>1. TxTypeOK
  BY ContentAssumption DEF TxInit, TxTypeOK, NoTx, Locks, NothingExported
<1>2. OneWriter /\ FreeIsClean
  BY DEF TxInit, OneWriter, FreeIsClean, Writing, NoTx
<1>3. KindsKnown /\ RefusedByZombie
  BY DEF TxInit, Init, KindsKnown, RefusedByZombie, RefusedWrite
<1>4. QED
  BY <1>1, <1>2, <1>3 DEF LockInv

LEMMA LockInvStep == TxInv /\ [TxNext]_allVars => TxInv'
<1> SUFFICES ASSUME TxInv, [TxNext]_allVars PROVE TxInv'
  OBVIOUS
<1>1. TxIInv' /\ IInv' /\ [Next]_vars
  BY TxInvariantStep, TxStepIsStep DEF TxInv, TxIInv
<1> SUFFICES LockInv'
  BY <1>1 DEF TxInv
<1>2. ASSUME NEW d \in Db, TxOpenDatabase(d) \/ TxExport(d) \/ TxClose(d) PROVE LockInv'
  BY <1>1, <1>2, TxOpenKeeps, TxExportKeeps, TxCloseKeeps
<1>3. ASSUME NEW d \in Db, RunSql(d) \/ TxPrepare(d) \/ TxPrepareBindFails(d) PROVE LockInv'
  BY <1>1, <1>3, RunSqlKeeps, PreparingKeeps
<1>4. ASSUME NEW d \in Db, TxExecStepFails(d) \/ TxRunStepFails(d) \/ TxEachFirstRow(d)
      PROVE  LockInv'
  BY <1>1, <1>4, FailedStepKeeps
<1>5. ASSUME NEW s \in Stmt, TxStep(s) PROVE LockInv'
  BY <1>1, <1>5, TxStepKeeps
<1>6. ASSUME NEW s \in Stmt, TxReset(s) PROVE LockInv'
  <2>1. RanNothing /\ UNCHANGED <<vdbe, stmt, kind>> /\ mode' = [mode EXCEPT ![stmt[s]] = "ready"]
    BY <1>6 DEF TxReset, Reset
  <2>2. \A p \in Ptr : mode'[p] = "busy" => mode[p] = "busy"
    BY <2>1 DEF TxInv, TxIInv, IInv, TypeOK
  <2>3. QED
    BY <1>1, <2>1, <2>2, QuietKeeps
<1>7. ASSUME NEW s \in Stmt, TxFree(s) PROVE LockInv'
  <2>1. RanNothing /\ Label(Null) /\ FreeEach({s}) /\ {s} \in SUBSET Stmt
    BY <1>7 DEF TxFree, Free
  <2>2. QED
    BY <1>1, <2>1, FreeingKeeps
<1>8. CASE TxEachDone
  <2>1. PICK s \in Stmt : s = Top
    BY <1>8, PopFrames DEF TxEachDone, EachDone, TxInv, TxIInv, IInv
  <2>2. RanNothing /\ Label(Null) /\ FreeEach({s}) /\ {s} \in SUBSET Stmt
    BY <1>8, <2>1 DEF TxEachDone, EachDone
  <2>3. QED
    BY <1>1, <2>2, FreeingKeeps
<1>9. CASE TxEachStepFails
  <2>1. RanNothing /\ UNCHANGED <<vdbe, stmt, kind>> /\ mode' = [mode EXCEPT ![stmt[Top]] = "halted"]
    BY <1>9 DEF TxEachStepFails, EachStepFails
  <2>2. \A p \in Ptr : mode'[p] = "busy" => mode[p] = "busy"
    BY <2>1 DEF TxInv, TxIInv, IInv, TypeOK
  <2>3. QED
    BY <1>1, <2>1, <2>2, QuietKeeps
<1>10. CASE TxEachThrows
  <2>1. RanNothing /\ UNCHANGED <<vdbe, stmt, kind, mode>>
    BY <1>10 DEF TxEachThrows, EachThrows, engineVars
  <2>2. QED
    BY <1>1, <2>1, QuietKeeps
<1>11. CASE UNCHANGED allVars
  <2>1. UNCHANGED <<vdbe, mode, kind, stmt, conn, file, tx, disk, exported, extended>>
    BY <1>11 DEF allVars, vars, txVars
  <2>2. TxTypeOK' /\ KindsKnown' /\ FreeIsClean'
    BY <2>1 DEF TxInv, LockInv, TxTypeOK, KindsKnown, FreeIsClean
  <2>3. OneWriter'
    BY <2>1 DEF TxInv, LockInv, OneWriter, Writing
  <2>4. RefusedByZombie'
    BY <2>1 DEF TxInv, LockInv, RefusedByZombie, RefusedWrite, Others, Writing
  <2>5. QED
    BY <2>2, <2>3, <2>4 DEF LockInv
<1>12. QED
  BY <1>2, <1>3, <1>4, <1>5, <1>6, <1>7, <1>8, <1>9, <1>10, <1>11 DEF TxNext

LEMMA LockInvariance == TxSpec => []TxInv
<1>1. TxInit => TxInv
  BY TxInvariantInit, LockInvInit DEF TxInv
<1>2. QED
  BY <1>1, LockInvStep, PTL DEF TxSpec

-----------------------------------------------------------------------------
(***************************************************************************)
(* What a program sees of locks and transactions.                          *)
(***************************************************************************)

\* The types, at most one writer of a file, in a transaction, and no refused write
\* that could start: between two calls no lock and no change is left that nobody
\* answers for (sqlite3VdbeHalt), for any number of databases and connections.
THEOREM WritersAreSound == TxSpec => []WritersSound
<1>1. TxInv => WritersSound
  <2> SUFFICES ASSUME TxInv PROVE RefusedWritesStay
    BY DEF TxInv, LockInv, WritersSound
  <2>1. ASSUME NEW p \in Ptr, RefusedWrite(p), file[vdbe[p]] # Null
        PROVE  ~MayReserve(vdbe[p])
    BY <2>1 DEF TxInv, LockInv, RefusedByZombie, MayReserve
  <2>2. QED
    BY <2>1 DEF RefusedWritesStay
<1>2. QED
  BY <1>1, LockInvariance, PTL

LEMMA RanCommitsAlone ==
    ASSUME TxInv, NEW e \in Db, handle[e] # Null, NEW k \in Kinds,
           NEW o \in Outcomes(handle[e], k), Ran(handle[e], o),
           NEW d \in Db, disk'[d] # disk[d], NEW c \in Conn, file[c] = d, c # handle[d]
    PROVE  tx[c].lock = "none"
<1>1. handle[e] \in Conn /\ file[handle[e]] = e
  BY HandleOpen
<1>2. disk' = [disk EXCEPT ![e] = o.disk]
  BY <1>1 DEF Ran
<1>3. d = e /\ o.disk # disk[e]
  BY <1>2 DEF TxInv, LockInv, TxTypeOK
<1>4. MayCommit(handle[e])
  BY <1>1, <1>3, OutcomeFacts
<1>5. c \in Others(handle[e])
  BY <1>1, <1>3, NullAssumption DEF Others
<1>6. QED
  BY <1>4, <1>5 DEF MayCommit

\* A call changes the file of a Database only when no other connection on the file
\* holds any lock: whoever has read keeps what it has read.
THEOREM CommitsAlone == TxSpec => CommitAlone
<1> DEFINE A == \A d \in Db : handle[d] # Null /\ disk'[d] # disk[d] =>
                   \A c \in Conn : file[c] = d /\ c # handle[d] => tx[c].lock = "none"
<1>1. TxInv /\ [TxNext]_allVars => [A]_allVars
  <2> SUFFICES ASSUME TxInv, [TxNext]_allVars,
                      NEW d \in Db, handle[d] # Null, disk'[d] # disk[d],
                      NEW c \in Conn, file[c] = d, c # handle[d]
               PROVE  tx[c].lock = "none"
    OBVIOUS
  <2>1. disk' # disk
    OBVIOUS
  <2>2. ASSUME NEW e \in Db, NEW k \in Kinds, NEW o \in Outcomes(handle[e], k),
               handle[e] # Null, Ran(handle[e], o)
        PROVE  tx[c].lock = "none"
    BY <2>2, RanCommitsAlone
  <2>3. ASSUME NEW e \in Db, TxOpenDatabase(e) PROVE FALSE
    <3>1. handle[e] = Null /\ \E v \in Content : disk' = [disk EXCEPT ![e] = v]
      BY <2>3 DEF TxOpenDatabase, OpenDatabase
    <3>2. disk'[d] = disk[d]
      BY <3>1 DEF TxInv, LockInv, TxTypeOK
    <3>3. QED
      BY <3>2
  <2>4. ASSUME NEW e \in Db, TxPrepare(e) \/ TxPrepareBindFails(e) \/ TxExport(e) \/ TxClose(e)
        PROVE  FALSE
    BY <2>1, <2>4 DEF TxPrepare, TxPrepareBindFails, TxExport, TxClose, RanNothing
  <2>5. ASSUME NEW e \in Db, RunSql(e) PROVE tx[c].lock = "none"
    BY <2>2, <2>5 DEF RunSql
  <2>6. ASSUME NEW e \in Db, TxExecStepFails(e) \/ TxRunStepFails(e)
        PROVE tx[c].lock = "none"
    <3>1. handle[e] # Null
      BY <2>6 DEF TxExecStepFails, TxRunStepFails, ExecStepFails, RunStepFails, Compile
    <3>2. PICK k \in Kinds : \E o \in Outcomes(handle[e], k) : Ran(handle[e], o)
      BY <2>6 DEF TxExecStepFails, TxRunStepFails, RanNew
    <3>3. QED
      BY <2>2, <3>1, <3>2
  <2>7. ASSUME NEW e \in Db, TxEachFirstRow(e) PROVE tx[c].lock = "none"
    <3>1. handle[e] # Null
      BY <2>7 DEF TxEachFirstRow, EachFirstRow, Compile
    <3>2. "read" \in Kinds /\ \E o \in Outcomes(handle[e], "read") : Ran(handle[e], o)
      BY <2>7 DEF TxEachFirstRow, RanNew, Kinds, Outcomes
    <3>3. QED
      BY <2>2, <3>1, <3>2
  <2>8. ASSUME NEW s \in Stmt, TxStep(s) PROVE tx[c].lock = "none"
    <3>1. stmt[s] # Null
      BY <2>8 DEF TxStep, Step
    <3>2. /\ owner[s] \in Db /\ handle[owner[s]] # Null /\ vdbe[stmt[s]] = handle[owner[s]]
          /\ kind[stmt[s]] \in Kinds
      BY <3>1 DEF TxInv, TxIInv, IInv, TypeOK, NoDanglingStatement, LockInv, KindsKnown
    <3>3. PICK o \in Outcomes(handle[owner[s]], kind[stmt[s]]) : Ran(handle[owner[s]], o)
      BY <2>8, <3>2 DEF TxStep
    <3>4. QED
      BY <2>2, <3>2, <3>3
  <2>9. ASSUME NEW s \in Stmt, TxReset(s) \/ TxFree(s) PROVE FALSE
    BY <2>1, <2>9 DEF TxReset, TxFree, RanNothing
  <2>10. TxEachDone \/ TxEachStepFails \/ TxEachThrows \/ UNCHANGED allVars => FALSE
    BY <2>1 DEF TxEachDone, TxEachStepFails, TxEachThrows, RanNothing, allVars, txVars
  <2>11. QED
    BY <2>3, <2>4, <2>5, <2>6, <2>7, <2>8, <2>9, <2>10 DEF TxNext
<1>2. QED
  BY <1>1, LockInvariance, PTL DEF TxSpec, CommitAlone

LEMMA WriterUntouched ==
    ASSUME TxInv, [Next]_vars, NEW x \in Conn, conn[x] = "zombie", Writing(x),
           NEW t, Transact(t), t[x] = tx[x]
    PROVE  tx'[x] = tx[x]
<1>1. tx[x] \in Txs /\ ~tx[x].auto
  BY DEF TxInv, LockInv, TxTypeOK, Txs, OneWriter
<1>2. conn'[x] = "zombie"
  BY ZombiesStay DEF TxInv, TxIInv
<1>3. tx'[x] = Settle(x, tx[x])
  BY <1>2 DEF Transact
<1>4. QED
  BY <1>1, <1>3, SettleFacts

\* A zombie that writes keeps its transaction and, until its Database is closed, its file.
LEMMA ZombieWrites ==
    ASSUME TxInv, [TxNext]_allVars, NEW x \in Conn, conn[x] = "zombie", Writing(x)
    PROVE  /\ tx'[x] = tx[x]
           /\ file'[x] = file[x] \/ (file[x] \in Db /\ handle'[file[x]] = Null)
<1>1. [Next]_vars /\ conn'[x] = "zombie"
  BY TxStepIsStep, ZombiesStay DEF TxInv, TxIInv
<1> DEFINE Kept == /\ tx'[x] = tx[x]
                   /\ file'[x] = file[x] \/ (file[x] \in Db /\ handle'[file[x]] = Null)
<1> SUFFICES Kept
  OBVIOUS
<1>2. Released => file'[x] = file[x]
  BY <1>1 DEF Released
<1>3. RanNothing => Kept
  BY <1>1, <1>2, WriterUntouched DEF RanNothing
<1>4. ASSUME NEW d \in Db, handle[d] # Null, NEW o, Ran(handle[d], o) PROVE Kept
  <2>1. x # handle[d]
    BY <1>4, HandleOpen
  <2>2. PICK t : t = [tx EXCEPT ![handle[d]] = o.tx]
    OBVIOUS
  <2>3. Transact(t) /\ t[x] = tx[x] /\ Released
    BY <1>4, <2>1, <2>2 DEF Ran, TxInv, LockInv, TxTypeOK
  <2>4. QED
    BY <1>1, <1>2, <2>3, WriterUntouched
<1>5. ASSUME NEW d \in Db, TxOpenDatabase(d) PROVE Kept
  <2>1. PICK n \in Conn : conn[n] = "free" /\ file' = [file EXCEPT ![n] = d]
    BY <1>5 DEF TxOpenDatabase, OpenDatabase, TxInv, TxIInv, IInv, TypeOK
  <2>2. QED
    BY <1>5, <2>1 DEF TxOpenDatabase, TxInv, LockInv, TxTypeOK
<1>6. ASSUME NEW d \in Db, TxExport(d) PROVE Kept
  <2>1. conn'[handle'[d]] = "open"
    <3>1. handle'[d] # Null /\ IInv'
      BY <1>1, <1>6, InvariantStep, NullAssumption
         DEF TxExport, Export, TxInv, TxIInv, IInv, TypeOK
    <3>2. QED
      BY <3>1 DEF IInv, ConnectionsAccounted
  <2>2. x # handle'[d]
    BY <1>1, <2>1
  <2>3. PICK t : t = [tx EXCEPT ![handle'[d]] = NoTx]
    OBVIOUS
  <2>4. Transact(t) /\ t[x] = tx[x] /\ file'[x] = file[x]
    BY <1>1, <1>6, <2>2, <2>3 DEF TxExport, TxInv, LockInv, TxTypeOK
  <2>5. QED
    BY <1>1, <2>4, WriterUntouched
<1>7. ASSUME NEW d \in Db, TxClose(d) PROVE Kept
  <2>1. Transact(tx) /\ handle'[d] = Null
    BY <1>7 DEF TxClose, Close, TxInv, TxIInv, IInv, TypeOK
  <2>2. file'[x] = file[x] \/ file[x] = d
    BY <1>1, <1>7 DEF TxClose
  <2>3. QED
    BY <1>1, <2>1, <2>2, WriterUntouched
<1>8. ASSUME NEW d \in Db, RunSql(d) \/ TxExecStepFails(d) \/ TxRunStepFails(d)
                             \/ TxEachFirstRow(d)
      PROVE  Kept
  <2>1. handle[d] # Null /\ \E o : Ran(handle[d], o)
    BY <1>8 DEF RunSql, TxExecStepFails, TxRunStepFails, TxEachFirstRow, RanNew, ExecStepFails,
       RunStepFails, EachFirstRow, Compile
  <2>2. QED
    BY <1>4, <2>1
<1>9. ASSUME NEW d \in Db, TxPrepare(d) \/ TxPrepareBindFails(d) PROVE Kept
  BY <1>3, <1>9 DEF TxPrepare, TxPrepareBindFails
<1>10. ASSUME NEW s \in Stmt, TxStep(s) PROVE Kept
  <2>1. stmt[s] # Null /\ \E o : Ran(vdbe[stmt[s]], o)
    BY <1>10 DEF TxStep, Step
  <2>2. owner[s] \in Db /\ handle[owner[s]] # Null /\ vdbe[stmt[s]] = handle[owner[s]]
    BY <2>1 DEF TxInv, TxIInv, IInv, TypeOK, NoDanglingStatement
  <2>3. QED
    BY <1>4, <2>1, <2>2
<1>11. ASSUME NEW s \in Stmt, TxReset(s) \/ TxFree(s) PROVE Kept
  BY <1>3, <1>11 DEF TxReset, TxFree
<1>12. TxEachDone \/ TxEachStepFails \/ TxEachThrows => Kept
  BY <1>3 DEF TxEachDone, TxEachStepFails, TxEachThrows
<1>13. UNCHANGED allVars => Kept
  BY DEF allVars, txVars
<1>14. QED
  BY <1>5, <1>6, <1>7, <1>8, <1>9, <1>10, <1>11, <1>12, <1>13 DEF TxNext

\* A write lock that a Database has leaked to a connection it has left behind is never
\* given up: whatever the program calls, the Database cannot write until it is closed.
THEOREM LeakedLockBlocks == TxSpec => BlockedForGood
<1> DEFINE A == \A d \in Db : /\ handle[d] # Null /\ ~MayReserve(handle[d])
                              /\ handle'[d] # Null
                              => ~MayReserve(handle[d])'
<1>1. TxInv /\ TxInv' /\ [TxNext]_allVars => [A]_allVars
  <2> SUFFICES ASSUME TxInv, TxInv', [TxNext]_allVars,
                      NEW d \in Db, handle[d] # Null, ~MayReserve(handle[d]), handle'[d] # Null
               PROVE  ~MayReserve(handle[d])'
    OBVIOUS
  <2>1. PICK e \in Conn : e # handle[d] /\ file[e] = d /\ Writing(e)
    BY HandleOpen DEF MayReserve, Others
  <2>2. conn[e] = "zombie"
    BY <2>1, NullAssumption DEF TxInv, TxIInv, FilesOwned
  <2>3. tx'[e] = tx[e] /\ file'[e] = d
    BY <2>1, <2>2, ZombieWrites
  <2>4. Writing(e)'
    BY <2>1, <2>3 DEF Writing
  <2>5. conn'[e] = "zombie"
    BY <2>2, TxStepIsStep, ZombiesStay DEF TxInv, TxIInv
  <2>6. conn'[handle'[d]] = "open" /\ file'[handle'[d]] = d
    BY DEF TxInv, TxIInv, IInv, ConnectionsAccounted, FilesOwned
  <2>7. e \in Others(handle[d])'
    BY <2>3, <2>5, <2>6, NullAssumption DEF Others
  <2>8. QED
    BY <2>4, <2>7 DEF MayReserve
<1>2. QED
  BY <1>1, LockInvariance, PTL DEF TxSpec, BlockedForGood
=============================================================================
