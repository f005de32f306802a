------------------------------ MODULE FileLock ------------------------------
(***************************************************************************)
(* The lock protocol of the unix VFS on one database file: unixLock,       *)
(* posixUnlock, unixCheckReservedLock and unixClose of os_unix.c, with the *)
(* pager's copy of the lock level (Pager.eLock) that drives them.          *)
(*                                                                         *)
(* The handles of one process share a unixInodeInfo and the process's      *)
(* POSIX locks, which the system drops when the process closes ANY of its  *)
(* descriptors of the file.  A call makes up to three fcntl calls; those   *)
(* of two processes interleave.  A step is one fcntl together with the     *)
(* memory it leads to: pLockMutex is held for the whole call.              *)
(*                                                                         *)
(* Named abstractions.  The 510 bytes of the shared range are one.  The    *)
(* VFS is "unix", not "unix-excl": bProcessLock is never set.  All handles *)
(* open the file with the same flags, so findReusableFd finds any unused   *)
(* descriptor.  At most MaxFaults fcntl calls fail for another reason than *)
(* a conflict.                                                             *)
(*                                                                         *)
(* A definition headed "Fault of X" is not part of the specification: it   *)
(* is what X would be with a bug, and shows that a property notices.       *)
(***************************************************************************)
EXTENDS Naturals, FiniteSets

CONSTANTS
    Handle,     \* unixFile objects of the file, each with its Pager
    Proc,       \* operating system processes
    ProcOf,     \* the process of a handle
    MaxFaults   \* how many fcntl calls may fail without a conflict

ASSUME ProcAssumption == ProcOf \in [Handle -> Proc]
ASSUME HandleAssumption == IsFiniteSet(Handle)
ASSUME FaultAssumption == MaxFaults \in Nat

NO_LOCK == 0
SHARED_LOCK == 1
RESERVED_LOCK == 2
PENDING_LOCK == 3
EXCLUSIVE_LOCK == 4
UNKNOWN_LOCK == 5       \* Pager.eLock only
Levels == NO_LOCK .. EXCLUSIVE_LOCK

Bytes == {"pending", "reserved", "shared"}
PosixLocks == {"none", "read", "write"}

VARIABLES
    opened,     \* handles that are open
    eFileLock,  \* unixFile.eFileLock
    eLock,      \* Pager.eLock
    inode,      \* the process's unixInodeInfo: eFileLock, nShared, nLock, length of pUnused
    posix,      \* POSIX locks of each process on each byte
    at,         \* the call a process is in: the handle, the level it asks for, the next fcntl
    faults      \* fcntl calls that failed so far

vars == <<opened, eFileLock, eLock, inode, posix, at, faults>>

Steps == {"idle", "sharedRange", "dropPending", "exclusiveRange",
          "readLock", "dropWrite", "leave", "close"}

NoInode == [eFileLock |-> NO_LOCK, nShared |-> 0, nLock |-> 0, nUnused |-> 0]
Unlocked == [b \in Bytes |-> "none"]
Idle == [pc |-> "idle"]

TypeOK ==
    /\ opened \subseteq Handle
    /\ eFileLock \in [Handle -> Levels]
    /\ eLock \in [Handle -> Levels \cup {UNKNOWN_LOCK}]
    /\ inode \in [Proc -> [eFileLock : Levels, nShared : Nat, nLock : Nat, nUnused : Nat]]
    /\ posix \in [Proc -> [Bytes -> PosixLocks]]
    /\ at \in [Proc -> {Idle} \cup
                  [pc : Steps \ {"idle"}, h : Handle, want : Levels, ok : BOOLEAN, closing : BOOLEAN]]
    /\ faults \in 0 .. MaxFaults

Init ==
    /\ opened = {}
    /\ eFileLock = [h \in Handle |-> NO_LOCK]
    /\ eLock = [h \in Handle |-> NO_LOCK]
    /\ inode = [p \in Proc |-> NoInode]
    /\ posix = [p \in Proc |-> Unlocked]
    /\ at = [p \in Proc |-> Idle]
    /\ faults = 0

(***************************************************************************)
(* fcntl and close, as the system does them.                               *)
(***************************************************************************)
Conflict(p, b, type) ==
    \E q \in Proc \ {p} : posix[q][b] \in IF type = "write" THEN {"read", "write"} ELSE {"write"}

Locked(p, bytes, type) == [posix EXCEPT ![p] = [b \in Bytes |-> IF b \in bytes THEN type ELSE @[b]]]

\* fcntl(F_SETLK) answered ok or not, and why not.
Granted(p, bytes, type) ==
    /\ \A b \in bytes : type = "none" \/ ~Conflict(p, b, type)
    /\ posix' = Locked(p, bytes, type)
    /\ UNCHANGED faults

Refused(p, bytes, type) ==
    /\ UNCHANGED posix
    /\ \/ (\E b \in bytes : type # "none" /\ Conflict(p, b, type)) /\ UNCHANGED faults
       \/ faults < MaxFaults /\ faults' = faults + 1

(***************************************************************************)
(* unixLock, called by pagerLockDb.                                        *)
(***************************************************************************)
Node(h) == inode[ProcOf[h]]
Free(p) == at[p] = Idle
Ready(h) == h \in opened /\ Free(ProcOf[h])

\* The pager asks for a level above the one it believes to hold: SHARED first, then
\* RESERVED, or EXCLUSIVE at once to roll a hot journal back.
Asks(h, want) ==
    /\ Ready(h)
    /\ eLock[h] < want \/ eLock[h] = UNKNOWN_LOCK
    /\ \/ want = SHARED_LOCK
       \/ want = RESERVED_LOCK /\ eLock[h] = SHARED_LOCK
       \/ want = EXCLUSIVE_LOCK /\ eLock[h] # NO_LOCK
          /\ (eLock[h] = UNKNOWN_LOCK => eFileLock[h] >= SHARED_LOCK)

\* Fault of Precluded: only a PENDING or EXCLUSIVE lock of another handle counts.
PrecludedByPending(h, want) ==
    eFileLock[h] # Node(h).eFileLock /\ Node(h).eFileLock >= PENDING_LOCK

\* Another handle of the process holds a lock that precludes the one asked for.
Precluded(h, want) ==
    /\ eFileLock[h] # Node(h).eFileLock
    /\ Node(h).eFileLock >= PENDING_LOCK \/ want > SHARED_LOCK

\* unixLock goes past its early returns.
Proceeds(h, want) ==
    Asks(h, want) /\ eFileLock[h] < want /\ ~Precluded(h, want)

\* What the pager believes after a call that worked.
Believed(h, want) ==
    eLock' = [eLock EXCEPT ![h] = IF @ = UNKNOWN_LOCK /\ want # EXCLUSIVE_LOCK THEN @ ELSE want]

\* The handle has the level already; only the pager's copy may change.
LockHeld(h, want) ==
    /\ Asks(h, want)
    /\ eFileLock[h] >= want
    /\ Believed(h, want)
    /\ UNCHANGED <<opened, eFileLock, inode, posix, at, faults>>

\* SHARED while another handle of the process has SHARED or RESERVED: counted only.
LockJoin(h) ==
    /\ Proceeds(h, SHARED_LOCK)
    /\ Node(h).eFileLock \in {SHARED_LOCK, RESERVED_LOCK}
    /\ eFileLock' = [eFileLock EXCEPT ![h] = SHARED_LOCK]
    /\ inode' = [inode EXCEPT ![ProcOf[h]].nShared = @ + 1, ![ProcOf[h]].nLock = @ + 1]
    /\ Believed(h, SHARED_LOCK)
    /\ UNCHANGED <<opened, posix, at, faults>>

InCall(h, want, pc) ==
    at' = [at EXCEPT ![ProcOf[h]] =
               [pc |-> pc, h |-> h, want |-> want, ok |-> TRUE, closing |-> FALSE]]

\* EXCLUSIVE was refused: a pager that wanted to roll a hot journal back goes on to
\* pager_unlock (from the level it has now), one that wanted to commit keeps its level.
GivesUp(h, pc) ==
    IF eLock[h] \in {SHARED_LOCK, UNKNOWN_LOCK}
    THEN InCall(h, NO_LOCK, pc)
    ELSE at' = [at EXCEPT ![ProcOf[h]] = Idle]

\* The fcntl of posixUnlock that comes first; below RESERVED only the last is needed.
FirstStep(h, want) ==
    IF eFileLock[h] = SHARED_LOCK THEN "leave"
    ELSE IF want = SHARED_LOCK THEN "readLock" ELSE "dropWrite"

\* Fault of LockPendingByte: a reader does not ask for the PENDING byte.
LockPendingByteWriterOnly(h, want) ==
    /\ Proceeds(h, want)
    /\ \/ /\ want = SHARED_LOCK /\ Node(h).eFileLock \notin {SHARED_LOCK, RESERVED_LOCK}
          /\ InCall(h, want, "sharedRange")
          /\ UNCHANGED <<posix, faults>>
       \/ /\ want = EXCLUSIVE_LOCK /\ eFileLock[h] < PENDING_LOCK
          /\ \/ Granted(ProcOf[h], {"pending"}, "write") /\ InCall(h, want, "exclusiveRange")
             \/ Refused(ProcOf[h], {"pending"}, "write") /\ GivesUp(h, FirstStep(h, NO_LOCK))
    /\ UNCHANGED <<opened, eFileLock, eLock, inode>>

\* The PENDING byte comes first, read-locked for SHARED, write-locked for EXCLUSIVE.
LockPendingByte(h, want) ==
    /\ Proceeds(h, want)
    /\ \/ want = SHARED_LOCK /\ Node(h).eFileLock \notin {SHARED_LOCK, RESERVED_LOCK}
       \/ want = EXCLUSIVE_LOCK /\ eFileLock[h] < PENDING_LOCK
    /\ LET type == IF want = SHARED_LOCK THEN "read" ELSE "write"
           next == IF want = SHARED_LOCK THEN "sharedRange" ELSE "exclusiveRange"
       IN  \/ Granted(ProcOf[h], {"pending"}, type) /\ InCall(h, want, next)
           \/ /\ Refused(ProcOf[h], {"pending"}, type)
              /\ IF want = EXCLUSIVE_LOCK THEN GivesUp(h, FirstStep(h, NO_LOCK)) ELSE UNCHANGED at
    /\ UNCHANGED <<opened, eFileLock, eLock, inode>>

\* A handle at PENDING has the byte already.
LockFromPending(h) ==
    /\ Proceeds(h, EXCLUSIVE_LOCK)
    /\ eFileLock[h] = PENDING_LOCK
    /\ InCall(h, EXCLUSIVE_LOCK, "exclusiveRange")
    /\ UNCHANGED <<opened, eFileLock, eLock, inode, posix, faults>>

LockSharedRange(p) ==
    /\ at[p].pc = "sharedRange"
    /\ \E ok \in BOOLEAN :
        /\ IF ok THEN Granted(p, {"shared"}, "read") ELSE Refused(p, {"shared"}, "read")
        /\ at' = [at EXCEPT ![p].pc = "dropPending", ![p].ok = ok]
    /\ UNCHANGED <<opened, eFileLock, eLock, inode>>

\* The PENDING byte is given back whether or not the shared range was had.
LockDropPending(p) ==
    /\ at[p].pc = "dropPending"
    /\ LET h == at[p].h
       IN  \/ /\ Granted(p, {"pending"}, "none")
              /\ IF at[p].ok
                 THEN /\ eFileLock' = [eFileLock EXCEPT ![h] = SHARED_LOCK]
                      /\ inode' = [inode EXCEPT ![p].eFileLock = SHARED_LOCK,
                                                ![p].nShared = 1, ![p].nLock = @ + 1]
                      /\ Believed(h, SHARED_LOCK)
                 ELSE UNCHANGED <<eFileLock, inode, eLock>>
           \/ Refused(p, {"pending"}, "none") /\ UNCHANGED <<eFileLock, inode, eLock>>
    /\ at' = [at EXCEPT ![p] = Idle]
    /\ UNCHANGED opened

\* The outcome of RESERVED or EXCLUSIVE: EXCLUSIVE not granted leaves PENDING behind.
Raised(h, want, ok) ==
    LET level == IF ok THEN want ELSE PENDING_LOCK
    IN  IF ok \/ want = EXCLUSIVE_LOCK
        THEN /\ eFileLock' = [eFileLock EXCEPT ![h] = level]
             /\ inode' = [inode EXCEPT ![ProcOf[h]].eFileLock = level]
             /\ IF ok THEN Believed(h, want) ELSE UNCHANGED eLock
        ELSE UNCHANGED <<eFileLock, inode, eLock>>

LockReserved(h) ==
    /\ Proceeds(h, RESERVED_LOCK)
    /\ \E ok \in BOOLEAN :
        /\ IF ok THEN Granted(ProcOf[h], {"reserved"}, "write")
                 ELSE Refused(ProcOf[h], {"reserved"}, "write")
        /\ Raised(h, RESERVED_LOCK, ok)
    /\ UNCHANGED <<opened, at>>

\* Fault of LockExclusiveRange: readers of the same process are not counted.
LockExclusiveRangeOfOthers(p) ==
    /\ at[p].pc = "exclusiveRange"
    /\ \E ok \in BOOLEAN :
        /\ IF ok THEN Granted(p, {"shared"}, "write") ELSE Refused(p, {"shared"}, "write")
        /\ Raised(at[p].h, EXCLUSIVE_LOCK, ok)
        /\ IF ok THEN at' = [at EXCEPT ![p] = Idle] ELSE GivesUp(at[p].h, "dropWrite")
    /\ UNCHANGED opened

LockExclusiveRange(p) ==
    /\ at[p].pc = "exclusiveRange"
    /\ \E ok \in BOOLEAN :
        /\ IF ok THEN inode[p].nShared = 1 /\ Granted(p, {"shared"}, "write")
                 ELSE \/ inode[p].nShared > 1 /\ UNCHANGED <<posix, faults>>
                      \/ inode[p].nShared = 1 /\ Refused(p, {"shared"}, "write")
        /\ Raised(at[p].h, EXCLUSIVE_LOCK, ok)
        /\ IF ok THEN at' = [at EXCEPT ![p] = Idle] ELSE GivesUp(at[p].h, "dropWrite")
    /\ UNCHANGED opened

(***************************************************************************)
(* posixUnlock, called by pagerUnlockDb and by unixClose.                  *)
(***************************************************************************)
Disbelieved(h, want) == eLock' = [eLock EXCEPT ![h] = IF @ = UNKNOWN_LOCK THEN @ ELSE want]

\* pagerUnlockDb when the handle is at the level or below.
UnlockHeld(h, want) ==
    /\ Ready(h) /\ eLock[h] >= want
    /\ eFileLock[h] <= want
    /\ Disbelieved(h, want)
    /\ UNCHANGED <<opened, eFileLock, inode, posix, at, faults>>

Unlock(h, want) ==
    /\ Ready(h) /\ eLock[h] >= want
    /\ eFileLock[h] > want
    /\ InCall(h, want, FirstStep(h, want))
    /\ UNCHANGED <<opened, eFileLock, eLock, inode, posix, faults>>

\* The pager believes to hold what it asked for whether or not the call worked, but
\* in its error state a failure makes the level unknown.
Return(p, ok) ==
    LET h == at[p].h  want == at[p].want
    IN  /\ \/ Disbelieved(h, want)
           \/ ~ok /\ want = NO_LOCK /\ eLock' = [eLock EXCEPT ![h] = UNKNOWN_LOCK]
        /\ at' = [at EXCEPT ![p] = IF @.closing THEN [@ EXCEPT !.pc = "close"] ELSE Idle]

UnlockReadLock(p) ==
    /\ at[p].pc = "readLock"
    /\ \/ Granted(p, {"shared"}, "read") /\ at' = [at EXCEPT ![p].pc = "dropWrite"] /\ UNCHANGED eLock
       \/ Refused(p, {"shared"}, "read") /\ Return(p, FALSE)
    /\ UNCHANGED <<opened, eFileLock, inode>>

UnlockDropWrite(p) ==
    /\ at[p].pc = "dropWrite"
    /\ LET h == at[p].h
       IN  \/ /\ Granted(p, {"pending", "reserved"}, "none")
              /\ inode' = [inode EXCEPT ![p].eFileLock = SHARED_LOCK]
              /\ IF at[p].want = SHARED_LOCK
                 THEN eFileLock' = [eFileLock EXCEPT ![h] = SHARED_LOCK] /\ Return(p, TRUE)
                 ELSE at' = [at EXCEPT ![p].pc = "leave"] /\ UNCHANGED <<eFileLock, eLock>>
           \/ Refused(p, {"pending", "reserved"}, "none") /\ Return(p, FALSE)
              /\ UNCHANGED <<eFileLock, inode>>
    /\ UNCHANGED opened

\* One reader fewer; the last one of the process releases its locks on the whole file,
\* and then closes the descriptors whose close was deferred.
UnlockLeave(p) ==
    /\ at[p].pc = "leave"
    /\ \E ok \in BOOLEAN :
        LET last == inode[p].nShared = 1
            node == [inode[p] EXCEPT !.nShared = @ - 1, !.nLock = @ - 1,
                                     !.eFileLock = IF last THEN NO_LOCK ELSE @]
            drop == node.nLock = 0 /\ node.nUnused > 0
        IN  /\ IF last /\ ~ok THEN faults < MaxFaults /\ faults' = faults + 1 ELSE ok /\ UNCHANGED faults
            /\ posix' = IF (last /\ ok) \/ drop THEN [posix EXCEPT ![p] = Unlocked] ELSE posix
            /\ inode' = [inode EXCEPT ![p] = IF node.nLock = 0 THEN [node EXCEPT !.nUnused = 0] ELSE node]
            /\ eFileLock' = [eFileLock EXCEPT ![at[p].h] = NO_LOCK]
            /\ Return(p, ok)
    /\ UNCHANGED opened

(***************************************************************************)
(* unixCheckReservedLock: F_GETLK does not report the process's own locks. *)
(***************************************************************************)

CheckReservedLock(h) ==
    Node(h).eFileLock > SHARED_LOCK \/ Conflict(ProcOf[h], "reserved", "write")

(***************************************************************************)
(* Opening and closing.                                                    *)
(***************************************************************************)
\* unixOpen takes over an unused descriptor (findReusableFd), findInodeInfo counts it.
Open(h) ==
    /\ h \notin opened /\ Free(ProcOf[h])
    /\ opened' = opened \cup {h}
    /\ inode' = [inode EXCEPT ![ProcOf[h]].nUnused = IF @ > 0 THEN @ - 1 ELSE 0]
    /\ UNCHANGED <<eFileLock, eLock, posix, at, faults>>

\* unixClose first unlocks.
Close(h) ==
    /\ Ready(h)
    /\ at' = [at EXCEPT ![ProcOf[h]] =
                  [pc |-> IF eFileLock[h] = NO_LOCK THEN "close" ELSE FirstStep(h, NO_LOCK),
                   h |-> h, want |-> NO_LOCK, ok |-> TRUE, closing |-> TRUE]]
    /\ UNCHANGED <<opened, eFileLock, eLock, inode, posix, faults>>

\* The last handle of the process takes the unixInodeInfo and all descriptors with it.
Last(p) == \A h \in opened : ProcOf[h] = p => h = at[p].h

\* Fault of CloseFd: the descriptor is closed at once.
CloseFdAtOnce(p) ==
    /\ at[p].pc = "close"
    /\ opened' = opened \ {at[p].h}
    /\ eFileLock' = [eFileLock EXCEPT ![at[p].h] = NO_LOCK]
    /\ eLock' = [eLock EXCEPT ![at[p].h] = NO_LOCK]
    /\ inode' = [inode EXCEPT ![p] = IF Last(p) THEN NoInode ELSE @]
    /\ posix' = [posix EXCEPT ![p] = Unlocked]
    /\ at' = [at EXCEPT ![p] = Idle]
    /\ UNCHANGED faults

\* While the process has locks the descriptor is kept (setPendingFd): closing it would
\* drop them.
CloseFd(p) ==
    /\ at[p].pc = "close"
    /\ LET h == at[p].h  node == inode[p]  keep == node.nLock > 0
       IN  /\ opened' = opened \ {h}
           /\ eFileLock' = [eFileLock EXCEPT ![h] = NO_LOCK]
           /\ eLock' = [eLock EXCEPT ![h] = NO_LOCK]
           /\ inode' = [inode EXCEPT ![p] =
                            IF Last(p) THEN NoInode
                            ELSE IF keep THEN [node EXCEPT !.nUnused = @ + 1] ELSE node]
           /\ posix' = IF Last(p) \/ ~keep THEN [posix EXCEPT ![p] = Unlocked] ELSE posix
    /\ at' = [at EXCEPT ![p] = Idle]
    /\ UNCHANGED faults

-----------------------------------------------------------------------------
\* The call a process is in makes its next fcntl.
Continue(p) ==
    /\ ~Free(p)
    /\ \/ LockSharedRange(p)
       \/ LockDropPending(p)
       \/ LockExclusiveRange(p)
       \/ UnlockReadLock(p)
       \/ UnlockDropWrite(p)
       \/ UnlockLeave(p)
       \/ CloseFd(p)

Lock(h, want) ==
    \/ LockHeld(h, want)
    \/ LockPendingByte(h, want)
    \/ want = SHARED_LOCK /\ LockJoin(h)
    \/ want = RESERVED_LOCK /\ LockReserved(h)
    \/ want = EXCLUSIVE_LOCK /\ LockFromPending(h)

Next ==
    \/ \E p \in Proc : Continue(p)
    \/ \E h \in Handle :
        \/ Open(h)
        \/ Close(h)
        \/ \E want \in {SHARED_LOCK, RESERVED_LOCK, EXCLUSIVE_LOCK} : Lock(h, want)
        \/ \E want \in {NO_LOCK, SHARED_LOCK} : Unlock(h, want) \/ UnlockHeld(h, want)

Spec == Init /\ [][Next]_vars

(***************************************************************************)
(* Properties.                                                             *)
(***************************************************************************)
\* Every level of a handle rests on the POSIX locks of its process: they survive the
\* close of another descriptor of the file, a reader that leaves, and failed calls.
Backed ==
    \A h \in opened :
        /\ eFileLock[h] >= SHARED_LOCK => posix[ProcOf[h]]["shared"] # "none"
        /\ eFileLock[h] = RESERVED_LOCK /\ Free(ProcOf[h]) => posix[ProcOf[h]]["reserved"] = "write"
        /\ eFileLock[h] >= PENDING_LOCK /\ Free(ProcOf[h]) => posix[ProcOf[h]]["pending"] = "write"

\* Two pagers never both believe that they may change the file or its journal; what a
\* pager believes (Pager.eLock) is never more than the handle has (unixFile.eFileLock).
\* A failed unlock may leave a level the pager no longer knows: the belief that other
\* handles rely on is then gone, and the property speaks of runs without failed calls.
MayWrite(h) == Free(ProcOf[h]) /\ eLock[h] \in RESERVED_LOCK .. EXCLUSIVE_LOCK
OneBelievesToWrite ==
    faults = 0 =>
        /\ \A h \in Handle : eLock[h] # UNKNOWN_LOCK => eLock[h] <= eFileLock[h]
        /\ \A g, h \in Handle : MayWrite(g) /\ MayWrite(h) => g = h

\* The asserts of unixLock (the first SHARED of a process finds an idle unixInodeInfo,
\* no request above SHARED comes from an unlocked handle), of posixUnlock, and its
\* remark that the downgrade to SHARED cannot meet an incompatible lock.
AssertsHold ==
    /\ \A h \in Handle, want \in {SHARED_LOCK, RESERVED_LOCK, EXCLUSIVE_LOCK} : Proceeds(h, want) =>
           /\ eFileLock[h] = NO_LOCK => want = SHARED_LOCK
           /\ want = SHARED_LOCK =>
                  IF Node(h).eFileLock \in {SHARED_LOCK, RESERVED_LOCK}
                  THEN Node(h).nShared > 0
                  ELSE Node(h).nShared = 0 /\ Node(h).eFileLock = NO_LOCK
           /\ want = RESERVED_LOCK => eFileLock[h] = SHARED_LOCK
    /\ \A h \in opened : eFileLock[h] > NO_LOCK /\ Free(ProcOf[h]) =>
           /\ Node(h).nShared > 0 /\ Node(h).nLock > 0
           /\ eFileLock[h] > SHARED_LOCK => Node(h).eFileLock = eFileLock[h]
    /\ \A p \in Proc : at[p].pc = "readLock" => ~Conflict(p, "shared", "read")

\* While every call has worked, the counters of unixInodeInfo say how many handles hold
\* a lock, and a process whose handles hold none holds no POSIX lock between calls.
CountsRight ==
    faults = 0 =>
        \A p \in Proc : Free(p) =>
            LET holders == {h \in opened : ProcOf[h] = p /\ eFileLock[h] # NO_LOCK}
            IN  /\ inode[p].nShared = Cardinality(holders)
                /\ inode[p].nLock = Cardinality(holders)
                /\ holders = {} => posix[p] = Unlocked /\ inode[p].nUnused = 0

\* A pager that holds SHARED and looks for a hot journal is told of every other handle
\* that may be writing one: a RESERVED lock of any process is seen.
ReservedIsSeen ==
    \A g, h \in opened :
        g # h /\ eFileLock[h] = RESERVED_LOCK /\ Free(ProcOf[h]) /\ eFileLock[g] <= SHARED_LOCK
            => CheckReservedLock(g)

\* A handle that has given the PENDING and RESERVED bytes back on its way out is a reader
\* already; one that has the shared range write-locked keeps it to itself until the end.
Leaving(h) == ~Free(ProcOf[h]) /\ at[ProcOf[h]].h = h /\ at[ProcOf[h]].pc = "leave"
Level == [h \in Handle |-> IF Leaving(h) /\ posix[ProcOf[h]]["shared"] # "write"
                           THEN SHARED_LOCK ELSE eFileLock[h]]

\* EXCLUSIVE is exclusive, over the handles of all processes and while calls that failed
\* half way have left the levels and the POSIX locks apart.
Exclusion ==
    \A g, h \in Handle : g # h /\ Level[h] = EXCLUSIVE_LOCK => Level[g] = NO_LOCK

\* What a process and its handles know of their locks is right, all the time.
LocksRight == TypeOK /\ Backed /\ CountsRight /\ AssertsHold

\* One handle writes, the others know it, and nobody reads what it changes in the file.
OneWrites == OneBelievesToWrite /\ ReservedIsSeen /\ Exclusion

\* What the levels promise, whatever the interleaving of the calls that make them.
LevelsOf == INSTANCE LockLevels WITH level <- Level
LevelsSpec == LevelsOf!Spec

\* The comment in unixLock on the PENDING byte: "This ensures that no new SHARED locks
\* can be obtained, but existing SHARED locks are allowed to persist."
NoNewReaders ==
    [][\A g, h \in Handle :
          g # h /\ eFileLock[h] = PENDING_LOCK /\ eFileLock'[h] = PENDING_LOCK /\ eFileLock[g] = NO_LOCK
              => eFileLock'[g] = NO_LOCK]_vars

\* The holder of PENDING is not starved: it comes to EXCLUSIVE or gives up, if readers
\* leave in the end and it asks again, and no call fails.  Only a process with two handles on the file can
\* keep another process waiting, its readers relieving each other (see NoNewReaders).
Unrivalled(h) ==
    \A f, g \in Handle : ProcOf[f] = ProcOf[g] /\ ProcOf[f] # ProcOf[h] => f = g
PendingIsGranted ==
    \A h \in Handle : Unrivalled(h) =>
        (faults = 0 /\ eFileLock[h] = PENDING_LOCK ~> faults > 0 \/ eFileLock[h] # PENDING_LOCK)

\* A call that began goes on; a reader is done some time (its statement is reset); a
\* refused COMMIT is tried again.  Both may find the process inside another call.
Fairness ==
    /\ \A p \in Proc : WF_vars(Continue(p))
    /\ \A h \in Handle :
        /\ SF_vars(eFileLock[h] \in {SHARED_LOCK, RESERVED_LOCK} /\ Unlock(h, NO_LOCK))
        /\ SF_vars(LockFromPending(h))

FairSpec == Spec /\ Fairness
=============================================================================
