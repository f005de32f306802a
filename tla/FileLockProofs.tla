--------------------------- MODULE FileLockProofs ---------------------------
(***************************************************************************)
(* Proofs about FileLock: what a process knows of its locks is right, one  *)
(* handle writes, and the levels do what LockLevels promises.              *)
(***************************************************************************)
EXTENDS FileLock, FiniteSetTheorems, TLAPS

\* The handles of a process that hold a level, and a handle on its last step to none.
HandlesOf(p)     == {h \in Handle : ProcOf[h] = p}
Holding(f, p)    == {h \in HandlesOf(p) : f[h] # NO_LOCK}
Holders(p)       == Holding(eFileLock, p)
Leaves(h)  == at[ProcOf[h]].pc = "leave" /\ at[ProcOf[h]].h = h

\* POSIX: a write lock is nobody else's lock.
Compatible ==
    \A p, q \in Proc, b \in Bytes : p # q /\ posix[p][b] = "write" => posix[q][b] = "none"

\* The unixInodeInfo against the handles and the POSIX locks of its process.
NodeInv(p) ==
    /\ inode[p].nShared = inode[p].nLock
    /\ inode[p].eFileLock = NO_LOCK <=> inode[p].nShared = 0
    /\ inode[p].nShared > 0 => posix[p]["shared"] # "none"
    /\ inode[p].nShared = 0 => inode[p].nUnused = 0
    /\ Cardinality(Holders(p)) <= inode[p].nShared
    /\ posix[p]["shared"] = "write" /\ inode[p].nShared > 0 =>
           \/ inode[p].eFileLock = EXCLUSIVE_LOCK
           \/ at[p].pc = "leave" /\ eFileLock[at[p].h] = EXCLUSIVE_LOCK

\* The level of a handle: what its process has for it, until it leaves.
HandleInv(h) ==
    /\ eFileLock[h] # NO_LOCK => h \in opened
    /\ eLock[h] # UNKNOWN_LOCK => eLock[h] <= eFileLock[h]
    /\ eFileLock[h] > SHARED_LOCK =>
           Node(h).eFileLock = IF Leaves(h) THEN SHARED_LOCK ELSE eFileLock[h]
    /\ ~Leaves(h) =>
           /\ eFileLock[h] = RESERVED_LOCK => posix[ProcOf[h]]["reserved"] = "write"
           /\ eFileLock[h] >= PENDING_LOCK => posix[ProcOf[h]]["pending"] = "write"
    /\ eFileLock[h] = EXCLUSIVE_LOCK =>
           /\ Node(h).nShared = 1
           /\ \/ posix[ProcOf[h]]["shared"] = "write"
              \/ Leaves(h)
              \/ \A q \in Proc \ {ProcOf[h]} : posix[q]["shared"] = "none"

\* One handle of a process is above SHARED.
OneAbove(p) ==
    \A g, h \in HandlesOf(p) :
        eFileLock[g] > SHARED_LOCK /\ eFileLock[h] > SHARED_LOCK => g = h

\* Where a call is, and what it has done so far.
CallInv(p) ==
    LET c == at[p] IN
    c # Idle =>
        /\ ProcOf[c.h] = p /\ c.h \in opened
        /\ c.closing => c.want = NO_LOCK
        /\ c.pc \in {"sharedRange", "dropPending"} =>
               /\ c.want = SHARED_LOCK /\ ~c.closing
               /\ eFileLock[c.h] = NO_LOCK /\ inode[p].nShared = 0
        /\ c.pc = "sharedRange" => posix[p]["pending"] = "read"
        /\ c.pc = "dropPending" /\ c.ok => posix[p]["shared"] = "read"
        /\ c.pc = "exclusiveRange" =>
               /\ c.want = EXCLUSIVE_LOCK /\ ~c.closing
               /\ eFileLock[c.h] \in SHARED_LOCK .. PENDING_LOCK
               /\ inode[p].eFileLock = eFileLock[c.h]
               /\ posix[p]["pending"] = "write"
        /\ c.pc \in {"readLock", "dropWrite"} =>
               c.want \in {NO_LOCK, SHARED_LOCK} /\ eFileLock[c.h] > SHARED_LOCK
        /\ c.pc = "readLock" => c.want = SHARED_LOCK
        /\ c.pc = "dropWrite" /\ c.want = SHARED_LOCK => posix[p]["shared"] = "read"
        /\ c.pc = "leave" => c.want = NO_LOCK /\ eFileLock[c.h] # NO_LOCK
        /\ c.pc = "close" => c.closing

\* While no call has failed, the counts are exact, ...
CountInv(p) ==
    /\ Cardinality(Holders(p)) = inode[p].nShared
    /\ inode[p].nShared = 0 =>
           /\ posix[p]["reserved"] = "none"
           /\ posix[p]["pending"] # "none" => at[p].pc \in {"sharedRange", "dropPending"}
           /\ posix[p]["shared"] # "none" => at[p].pc = "dropPending" /\ at[p].ok
    /\ at[p].pc = "close" => eFileLock[at[p].h] = NO_LOCK

\* ... and a pager knows its level, but for a COMMIT that was refused.
BeliefInv(h) ==
    LET c == at[ProcOf[h]] IN
    /\ eLock[h] \in {NO_LOCK, SHARED_LOCK, RESERVED_LOCK, EXCLUSIVE_LOCK}
    /\ \/ eFileLock[h] = eLock[h]
       \/ eFileLock[h] = PENDING_LOCK /\ eLock[h] = RESERVED_LOCK
       \/ c.pc \in {"readLock", "dropWrite", "leave"} /\ c.h = h
    /\ eLock[h] = RESERVED_LOCK /\ ~Leaves(h) => posix[ProcOf[h]]["reserved"] = "write"

ProcInv(p) ==
    /\ NodeInv(p) /\ CallInv(p) /\ OneAbove(p)
    /\ \A h \in HandlesOf(p) : HandleInv(h)
    /\ faults = 0 => CountInv(p) /\ \A h \in HandlesOf(p) : BeliefInv(h)

IInv ==
    /\ TypeOK
    /\ Compatible
    /\ \A p \in Proc : ProcInv(p)

-----------------------------------------------------------------------------
(***************************************************************************)
(* Types.                                                                  *)
(***************************************************************************)
USE DEF NO_LOCK, SHARED_LOCK, RESERVED_LOCK, PENDING_LOCK, EXCLUSIVE_LOCK, UNKNOWN_LOCK,
        Levels, Bytes, HandlesOf

\* The call a process is in.
Calls == [pc : Steps \ {"idle"}, h : Handle, want : Levels, ok : BOOLEAN, closing : BOOLEAN]

LEMMA CallOf ==
    ASSUME TypeOK, NEW p \in Proc, at[p].pc # "idle"
    PROVE  at[p] \in Calls
BY DEF TypeOK, Calls, Idle

\* fcntl that was granted and one that was not.
LEMMA GrantedFacts ==
    ASSUME TypeOK, Compatible, NEW p \in Proc, NEW bytes, NEW type \in PosixLocks,
           Granted(p, bytes, type), bytes \subseteq Bytes
    PROVE  /\ posix' \in [Proc -> [Bytes -> PosixLocks]]
           /\ Compatible'
           /\ faults' = faults
           /\ \A q \in Proc \ {p} : posix'[q] = posix[q]
           /\ \A b \in bytes : posix'[p][b] = type
           /\ \A b \in Bytes \ bytes : posix'[p][b] = posix[p][b]
           /\ type = "write" => \A b \in bytes, q \in Proc \ {p} : posix[q][b] = "none"
<1>1. /\ posix' = [posix EXCEPT ![p] = [b \in Bytes |-> IF b \in bytes THEN type ELSE posix[p][b]]]
      /\ posix \in [Proc -> [Bytes -> PosixLocks]]
      /\ faults' = faults
  BY DEF Granted, Locked, TypeOK
<1>2. /\ \A q \in Proc \ {p} : posix'[q] = posix[q]
      /\ posix'[p] = [b \in Bytes |-> IF b \in bytes THEN type ELSE posix[p][b]]
  BY <1>1
<1>3. posix'[p] \in [Bytes -> PosixLocks]
  BY <1>1, <1>2
<1>4. posix' \in [Proc -> [Bytes -> PosixLocks]]
  BY <1>1, <1>2, <1>3
<1>5. \A b \in bytes, q \in Proc \ {p} :
          /\ type = "write" => posix[q][b] = "none"
          /\ type = "read" => posix[q][b] # "write"
  BY <1>1 DEF Granted, Conflict, PosixLocks
<1>6. Compatible'
  BY <1>2, <1>5 DEF Compatible, PosixLocks
<1>7. QED
  BY <1>1, <1>2, <1>4, <1>5, <1>6

LEMMA RefusedFacts ==
    ASSUME TypeOK, Compatible, NEW p \in Proc, NEW bytes, NEW type, Refused(p, bytes, type)
    PROVE  /\ posix' = posix /\ Compatible'
           /\ faults' \in 0 .. MaxFaults
           /\ faults' = 0 => faults = 0
           /\ (\A b \in bytes : type = "none" \/ ~Conflict(p, b, type)) => faults' # 0
BY FaultAssumption DEF Refused, TypeOK, Compatible

-----------------------------------------------------------------------------
(***************************************************************************)
(* Counting the handles of a process that hold a level.                    *)
(***************************************************************************)
LEMMA HoldingFinite ==
    ASSUME NEW f, NEW p
    PROVE  IsFiniteSet(Holding(f, p)) /\ Cardinality(Holding(f, p)) \in Nat
BY HandleAssumption, FS_Subset, FS_CardinalityType DEF Holding, HandlesOf

\* One level to or from none counts one more or one fewer.
LEMMA HoldingOne ==
    ASSUME NEW f, NEW g, NEW h \in Handle,
           f[h] = NO_LOCK, g[h] # NO_LOCK,
           \A x \in Handle \ {h} : ProcOf[x] = ProcOf[h] => (f[x] = NO_LOCK <=> g[x] = NO_LOCK)
    PROVE  Cardinality(Holding(g, ProcOf[h])) = Cardinality(Holding(f, ProcOf[h])) + 1
<1> DEFINE p == ProcOf[h]
<1>1. Holding(g, p) = Holding(f, p) \cup {h} /\ h \notin Holding(f, p)
  BY DEF Holding, HandlesOf
<1>2. QED
  BY <1>1, HoldingFinite, FS_AddElement

LEMMA HoldingSame ==
    ASSUME NEW f, NEW g, NEW p,
           \A x \in HandlesOf(p) : f[x] = NO_LOCK <=> g[x] = NO_LOCK
    PROVE  Holding(g, p) = Holding(f, p)
BY DEF Holding

\* A holder is counted; if it is the only one counted, no other handle holds a level.
LEMMA HolderCounts ==
    ASSUME NEW f, NEW h \in Handle, f[h] # NO_LOCK, NEW n \in Nat,
           Cardinality(Holding(f, ProcOf[h])) <= n
    PROVE  /\ n > 0
           /\ n = 1 => \A x \in HandlesOf(ProcOf[h]) : x # h => f[x] = NO_LOCK
<1> DEFINE H == Holding(f, ProcOf[h])
<1>1. h \in H /\ H # {}
  BY DEF Holding, HandlesOf
<1>2. Cardinality(H) \in Nat /\ Cardinality(H) # 0 /\ IsFiniteSet(H)
  BY <1>1, HoldingFinite, FS_EmptySet
<1>3. n > 0
  BY <1>2
<1>4. ASSUME n = 1 PROVE \A x \in HandlesOf(ProcOf[h]) : x # h => f[x] = NO_LOCK
  <2>1. Cardinality(H) = 1
    BY <1>2, <1>4
  <2>2. PICK y : H = {y}
    BY <1>2, <2>1, FS_Singleton
  <2>3. QED
    BY <1>1, <2>2 DEF Holding
<1>5. QED
  BY <1>3, <1>4

LEMMA NobodyHolds ==
    ASSUME NEW f, NEW p, Cardinality(Holding(f, p)) <= 0
    PROVE  \A x \in HandlesOf(p) : f[x] = NO_LOCK
<1>1. Cardinality(Holding(f, p)) = 0
  BY HoldingFinite
<1>2. Holding(f, p) = {}
  BY <1>1, HoldingFinite, FS_EmptySet
<1>3. QED
  BY <1>2 DEF Holding

-----------------------------------------------------------------------------
(***************************************************************************)
(* A step of one process leaves the invariant of the others alone, unless  *)
(* it takes the shared range while one of them counts on nobody having it. *)
(***************************************************************************)
OnlyIn(p) ==
    /\ \A q \in Proc \ {p} : inode'[q] = inode[q] /\ posix'[q] = posix[q] /\ at'[q] = at[q]
    /\ \A h \in Handle \ HandlesOf(p) :
           /\ eFileLock'[h] = eFileLock[h] /\ eLock'[h] = eLock[h]
           /\ h \in opened' <=> h \in opened
    /\ faults' = 0 => faults = 0
    /\ \/ posix'[p]["shared"] = "none"
       \/ posix[p]["shared"] # "none"
       \/ \A h \in Handle \ HandlesOf(p) : eFileLock[h] = EXCLUSIVE_LOCK => Leaves(h)

LEMMA Frame ==
    ASSUME IInv, TypeOK', Compatible', NEW p \in Proc, OnlyIn(p), ProcInv(p)'
    PROVE  IInv'
<1> USE ProcAssumption
<1> SUFFICES ASSUME NEW q \in Proc \ {p} PROVE ProcInv(q)'
  BY DEF IInv
<1>1. /\ inode'[q] = inode[q] /\ posix'[q] = posix[q] /\ at'[q] = at[q]
      /\ \A h \in HandlesOf(q) :
             /\ eFileLock'[h] = eFileLock[h] /\ eLock'[h] = eLock[h]
             /\ h \in opened' <=> h \in opened
             /\ h \in Handle \ HandlesOf(p)
      /\ faults' = 0 => faults = 0
  BY DEF OnlyIn
<1>2. Holders(q)' = Holders(q)
  BY <1>1 DEF Holders, Holding
<1>3. ProcInv(q) /\ TypeOK
  BY DEF IInv
<1>4. CallInv(q)'
  BY <1>1, <1>3 DEF CallInv, ProcInv, TypeOK
<1>5. NodeInv(q)'
  BY <1>1, <1>2, <1>3, CallOf DEF NodeInv, CallInv, ProcInv, TypeOK, Calls, Idle
<1>6. OneAbove(q)'
  <2>1. OneAbove(q)
    BY <1>3 DEF ProcInv
  <2>2. QED
    BY <1>1, <2>1 DEF OneAbove
<1>7. ASSUME NEW h \in HandlesOf(q) PROVE HandleInv(h)'
  BY <1>1, <1>3, <1>7 DEF HandleInv, ProcInv, Node, Leaves, OnlyIn
<1>8. faults' = 0 => CountInv(q)'
  BY <1>1, <1>2, <1>3, CallOf DEF CountInv, CallInv, ProcInv, TypeOK, Calls, Idle
<1>9. ASSUME NEW h \in HandlesOf(q), faults' = 0 PROVE BeliefInv(h)'
  <2>1. BeliefInv(h) /\ ProcOf[h] = q
    BY <1>1, <1>3, <1>9 DEF ProcInv
  <2>2. QED
    BY <1>1, <1>9, <2>1 DEF BeliefInv, Leaves
<1>10. QED
  BY <1>4, <1>5, <1>6, <1>7, <1>8, <1>9 DEF ProcInv

-----------------------------------------------------------------------------
(***************************************************************************)
(* What the invariant says of one handle.                                  *)
(***************************************************************************)
LEMMA HolderFacts ==
    ASSUME IInv, NEW h \in Handle, eFileLock[h] # NO_LOCK
    PROVE  /\ h \in opened /\ ProcOf[h] \in Proc
           /\ Node(h).nShared > 0 /\ Node(h).eFileLock # NO_LOCK
           /\ posix[ProcOf[h]]["shared"] # "none"
           /\ Node(h).nShared = 1 =>
                  \A x \in HandlesOf(ProcOf[h]) : x # h => eFileLock[x] = NO_LOCK
<1>1. ProcOf[h] \in Proc /\ NodeInv(ProcOf[h]) /\ HandleInv(h)
  BY ProcAssumption DEF IInv, ProcInv
<1>2. /\ inode[ProcOf[h]].nShared \in Nat
      /\ Cardinality(Holding(eFileLock, ProcOf[h])) <= inode[ProcOf[h]].nShared
  BY <1>1 DEF IInv, TypeOK, NodeInv, Holders
<1>3. /\ Node(h).nShared > 0
      /\ Node(h).nShared = 1 =>
             \A x \in HandlesOf(ProcOf[h]) : x # h => eFileLock[x] = NO_LOCK
  BY <1>2, HolderCounts DEF Node
<1>4. QED
  BY <1>1, <1>2, <1>3 DEF NodeInv, HandleInv, Node

LEMMA ReadyFacts ==
    ASSUME IInv, NEW h \in Handle, Ready(h)
    PROVE  /\ ProcOf[h] \in Proc /\ h \in HandlesOf(ProcOf[h])
           /\ at[ProcOf[h]] = Idle /\ h \in opened
           /\ ProcInv(ProcOf[h]) /\ HandleInv(h)
           /\ \A x \in HandlesOf(ProcOf[h]) : ~Leaves(x)
BY ProcAssumption DEF IInv, ProcInv, Ready, Free, Leaves, Idle

-----------------------------------------------------------------------------
(***************************************************************************)
(* Steps that only enter a call, or change what a pager believes.          *)
(***************************************************************************)
LEMMA Start ==
    ASSUME IInv, TypeOK', NEW p \in Proc, at[p] = Idle,
           UNCHANGED <<opened, eFileLock, inode, posix>>, faults' = 0 => faults = 0,
           \A q \in Proc \ {p} : at'[q] = at[q],
           \A h \in Handle \ HandlesOf(p) : eLock'[h] = eLock[h],
           \A h \in HandlesOf(p) : eLock'[h] # UNKNOWN_LOCK => eLock'[h] <= eFileLock[h],
           CallInv(p)',
           at'[p].pc = "leave" => eFileLock[at'[p].h] <= SHARED_LOCK,
           at'[p].pc = "close" => eFileLock[at'[p].h] = NO_LOCK,
           at'[p].pc \notin {"sharedRange", "dropPending"},
           faults' = 0 => \A h \in HandlesOf(p) : BeliefInv(h)'
    PROVE  IInv'
<1>1. ProcInv(p) /\ TypeOK /\ Compatible
  BY DEF IInv
<1>2. Compatible'
  BY <1>1 DEF Compatible
<1>3. OnlyIn(p)
  BY <1>1 DEF OnlyIn, TypeOK
<1>4. Holders(p)' = Holders(p)
  BY DEF Holders, Holding
<1>5. NodeInv(p)'
  BY <1>1, <1>4 DEF ProcInv, NodeInv, Idle
<1>6. OneAbove(p)'
  BY <1>1 DEF ProcInv, OneAbove
<1>7. ASSUME NEW h \in HandlesOf(p) PROVE HandleInv(h)'
  <2>1. HandleInv(h) /\ ProcOf[h] = p /\ ~Leaves(h) /\ eFileLock[h] \in Levels
    BY <1>1, <1>7 DEF ProcInv, Leaves, Idle, TypeOK
  <2>2. Leaves(h)' => eFileLock[h] <= SHARED_LOCK
    BY <2>1 DEF Leaves
  <2>3. QED
    BY <2>1, <2>2 DEF HandleInv, Node
<1>8. faults' = 0 => CountInv(p)'
  BY <1>1, <1>4 DEF ProcInv, CountInv, Idle
<1>9. ProcInv(p)'
  BY <1>5, <1>6, <1>7, <1>8 DEF ProcInv
<1>10. QED
  BY <1>2, <1>3, <1>9, Frame

\* A pager that changes its mind without a call: a level that it has anyhow.
LEMMA HeldStep ==
    ASSUME IInv, NEW h \in Handle, NEW want \in Levels,
           \/ want # NO_LOCK /\ want # PENDING_LOCK /\ LockHeld(h, want)
           \/ want \in {NO_LOCK, SHARED_LOCK} /\ UnlockHeld(h, want)
    PROVE  IInv'
<1> DEFINE p == ProcOf[h]
<1>1. /\ p \in Proc /\ h \in HandlesOf(p) /\ at[p] = Idle
      /\ ProcInv(p) /\ HandleInv(h) /\ TypeOK
      /\ \A x \in HandlesOf(p) : ~Leaves(x)
  BY ReadyFacts DEF LockHeld, UnlockHeld, Asks, IInv
<1>2. /\ UNCHANGED <<opened, eFileLock, inode, posix, at, faults>>
      /\ \A x \in Handle \ {h} : eLock'[x] = eLock[x]
      /\ eLock' \in [Handle -> Levels \cup {UNKNOWN_LOCK}]
      /\ eLock'[h] = UNKNOWN_LOCK \/ eLock'[h] = want
  BY <1>1 DEF LockHeld, UnlockHeld, Believed, Disbelieved, TypeOK
<1>3. eLock'[h] # UNKNOWN_LOCK => eLock'[h] <= eFileLock[h]
  <2>1. eFileLock[h] \in Levels /\ eLock[h] \in Levels \cup {UNKNOWN_LOCK}
    BY <1>1 DEF TypeOK
  <2>2. eLock[h] # UNKNOWN_LOCK => eLock[h] <= eFileLock[h]
    BY <1>1 DEF HandleInv
  <2>3. CASE LockHeld(h, want)
    BY <1>2, <2>1, <2>3 DEF LockHeld
  <2>4. CASE UnlockHeld(h, want)
    BY <1>1, <2>1, <2>2, <2>4 DEF UnlockHeld, Disbelieved, TypeOK
  <2>5. QED
    BY <2>3, <2>4
<1>4. ASSUME faults = 0 PROVE BeliefInv(h)'
  <2>1. BeliefInv(h) /\ eLock[h] \in Levels /\ eFileLock[h] \in Levels
    BY <1>1, <1>4 DEF ProcInv, BeliefInv, TypeOK
  <2>2. eFileLock[h] = eLock[h] \/ (eFileLock[h] = PENDING_LOCK /\ eLock[h] = RESERVED_LOCK)
    BY <1>1, <2>1 DEF BeliefInv, Idle
  <2>3. eLock' = eLock
    BY <1>1, <2>1, <2>2 DEF LockHeld, UnlockHeld, Believed, Disbelieved, Asks, TypeOK
  <2>4. QED
    BY <1>2, <2>1, <2>3 DEF BeliefInv, Leaves
<1>5. faults = 0 => \A x \in HandlesOf(p) : BeliefInv(x)'
  BY <1>1, <1>2, <1>4 DEF ProcInv, BeliefInv, Leaves
<1>6. \A x \in HandlesOf(p) : eLock'[x] # UNKNOWN_LOCK => eLock'[x] <= eFileLock[x]
  BY <1>1, <1>2, <1>3 DEF ProcInv, HandleInv
<1>7. CallInv(p)' /\ TypeOK'
  BY <1>1, <1>2 DEF CallInv, TypeOK
<1>8. QED
  BY <1>1, <1>2, <1>5, <1>6, <1>7, Start DEF Idle

\* A call that only enters, for a level above (EXCLUSIVE from PENDING) or below.
LEMMA EnterStep ==
    ASSUME IInv, NEW h \in Handle, NEW want \in Levels,
           \/ want = EXCLUSIVE_LOCK /\ LockFromPending(h)
           \/ want \in {NO_LOCK, SHARED_LOCK} /\ Unlock(h, want)
           \/ want = NO_LOCK /\ Close(h)
    PROVE  IInv'
<1> DEFINE p == ProcOf[h]
<1>1. /\ p \in Proc /\ h \in HandlesOf(p) /\ at[p] = Idle /\ h \in opened
      /\ ProcInv(p) /\ HandleInv(h) /\ TypeOK
      /\ \A x \in HandlesOf(p) : ~Leaves(x)
  BY ReadyFacts DEF LockFromPending, Proceeds, Asks, Unlock, Close, IInv
<1>2. UNCHANGED <<opened, eFileLock, eLock, inode, posix, faults>>
  BY DEF LockFromPending, Unlock, Close
<1>3. /\ at'[p] \in Calls /\ at' = [at EXCEPT ![p] = at'[p]]
      /\ at'[p].h = h /\ at'[p].want = want
      /\ \/ at'[p].pc = "exclusiveRange" /\ want = EXCLUSIVE_LOCK /\ ~at'[p].closing
            /\ eFileLock[h] = PENDING_LOCK
         \/ at'[p].pc = "leave" /\ want = NO_LOCK /\ eFileLock[h] = SHARED_LOCK
         \/ at'[p].pc = "dropWrite" /\ want = NO_LOCK /\ eFileLock[h] > SHARED_LOCK
         \/ at'[p].pc = "readLock" /\ want = SHARED_LOCK /\ eFileLock[h] > SHARED_LOCK
            /\ ~at'[p].closing
         \/ at'[p].pc = "close" /\ want = NO_LOCK /\ eFileLock[h] = NO_LOCK /\ at'[p].closing
  <2>1. eFileLock[h] \in Levels /\ at \in [Proc -> {Idle} \cup Calls]
    BY <1>1 DEF TypeOK, Calls
  <2>2. CASE want = EXCLUSIVE_LOCK /\ LockFromPending(h)
    <3>1. at' = [at EXCEPT ![p] = [pc |-> "exclusiveRange", h |-> h, want |-> want,
                                   ok |-> TRUE, closing |-> FALSE]]
      BY <2>2 DEF LockFromPending, InCall
    <3>2. QED
      BY <1>1, <2>1, <2>2, <3>1 DEF LockFromPending, Calls, Steps
  <2>3. CASE want \in {NO_LOCK, SHARED_LOCK} /\ Unlock(h, want)
    <3>1. at' = [at EXCEPT ![p] = [pc |-> FirstStep(h, want), h |-> h, want |-> want,
                                   ok |-> TRUE, closing |-> FALSE]]
      BY <2>3 DEF Unlock, InCall
    <3>2. \/ eFileLock[h] = SHARED_LOCK /\ want = NO_LOCK /\ FirstStep(h, want) = "leave"
          \/ eFileLock[h] > SHARED_LOCK /\ want = SHARED_LOCK /\ FirstStep(h, want) = "readLock"
          \/ eFileLock[h] > SHARED_LOCK /\ want = NO_LOCK /\ FirstStep(h, want) = "dropWrite"
      BY <2>1, <2>3 DEF Unlock, FirstStep
    <3>3. QED
      BY <1>1, <2>1, <3>1, <3>2 DEF Calls, Steps
  <2>4. CASE want = NO_LOCK /\ Close(h)
    <3>1. at' = [at EXCEPT ![p] =
                    [pc |-> IF eFileLock[h] = NO_LOCK THEN "close" ELSE FirstStep(h, NO_LOCK),
                     h |-> h, want |-> NO_LOCK, ok |-> TRUE, closing |-> TRUE]]
      BY <2>4 DEF Close
    <3>2. \/ eFileLock[h] = NO_LOCK
          \/ eFileLock[h] = SHARED_LOCK /\ FirstStep(h, NO_LOCK) = "leave"
          \/ eFileLock[h] > SHARED_LOCK /\ FirstStep(h, NO_LOCK) = "dropWrite"
      BY <2>1 DEF FirstStep
    <3>3. QED
      BY <1>1, <2>1, <2>4, <3>1, <3>2 DEF Calls, Steps
  <2>5. QED
    BY <2>2, <2>3, <2>4
<1>4. TypeOK'
  BY <1>1, <1>2, <1>3 DEF TypeOK, Calls
<1>5. CallInv(p)'
  BY <1>1, <1>2, <1>3, <1>4 DEF CallInv, HandleInv, Node, TypeOK
<1>6. faults = 0 => \A x \in HandlesOf(p) : BeliefInv(x)'
  BY <1>1, <1>2, <1>3, <1>4 DEF ProcInv, BeliefInv, Leaves, Idle
<1>7. QED
  BY <1>1, <1>2, <1>3, <1>4, <1>5, <1>6, Start DEF ProcInv, HandleInv, TypeOK

-----------------------------------------------------------------------------
(***************************************************************************)
(* Steps outside a call that change more: one of open, of a reader that    *)
(* joins the readers of its process, of RESERVED, of the PENDING byte.     *)
(***************************************************************************)
LEMMA OpenStep ==
    ASSUME IInv, NEW h \in Handle, Open(h)
    PROVE  IInv'
<1> DEFINE p == ProcOf[h]
<1>1. /\ p \in Proc /\ h \in HandlesOf(p) /\ at[p] = Idle
      /\ ProcInv(p) /\ HandleInv(h) /\ TypeOK /\ Compatible
  BY ProcAssumption DEF Open, Free, IInv, ProcInv
<1>2. /\ UNCHANGED <<eFileLock, eLock, posix, at, faults>>
      /\ opened' = opened \cup {h} /\ h \notin opened
      /\ inode' = [inode EXCEPT ![p].nUnused = IF @ > 0 THEN @ - 1 ELSE 0]
  BY DEF Open
<1>3. /\ inode[p] \in [eFileLock : Levels, nShared : Nat, nLock : Nat, nUnused : Nat]
      /\ inode'[p] = [inode[p] EXCEPT !.nUnused = IF @ > 0 THEN @ - 1 ELSE 0]
      /\ \A q \in Proc \ {p} : inode'[q] = inode[q]
  BY <1>1, <1>2 DEF TypeOK
<1>4. /\ inode'[p] \in [eFileLock : Levels, nShared : Nat, nLock : Nat, nUnused : Nat]
      /\ inode'[p].nShared = inode[p].nShared /\ inode'[p].nLock = inode[p].nLock
      /\ inode'[p].eFileLock = inode[p].eFileLock
      /\ inode[p].nUnused = 0 => inode'[p].nUnused = 0
  BY <1>3
<1>5. TypeOK' /\ Compatible'
  BY <1>1, <1>2, <1>3, <1>4 DEF TypeOK, Compatible
<1>6. OnlyIn(p)
  BY <1>1, <1>2, <1>3 DEF OnlyIn
<1>7. Holders(p)' = Holders(p)
  BY <1>2 DEF Holders, Holding
<1>8. NodeInv(p)'
  BY <1>1, <1>2, <1>4, <1>7 DEF ProcInv, NodeInv
<1>9. CallInv(p)' /\ OneAbove(p)'
  BY <1>1, <1>2 DEF ProcInv, CallInv, OneAbove
<1>10. \A x \in HandlesOf(p) : HandleInv(x)'
  BY <1>1, <1>2, <1>4 DEF ProcInv, HandleInv, Node, Leaves
<1>11. faults' = 0 => CountInv(p)' /\ \A x \in HandlesOf(p) : BeliefInv(x)'
  BY <1>1, <1>2, <1>4, <1>7 DEF ProcInv, CountInv, BeliefInv, Leaves
<1>12. ProcInv(p)'
  BY <1>8, <1>9, <1>10, <1>11 DEF ProcInv
<1>13. QED
  BY <1>1, <1>5, <1>6, <1>12, Frame

LEMMA JoinStep ==
    ASSUME IInv, NEW h \in Handle, LockJoin(h)
    PROVE  IInv'
<1> DEFINE p == ProcOf[h]
<1>1. /\ p \in Proc /\ h \in HandlesOf(p) /\ at[p] = Idle /\ h \in opened
      /\ ProcInv(p) /\ HandleInv(h) /\ TypeOK /\ Compatible
      /\ \A x \in HandlesOf(p) : ~Leaves(x)
  BY ReadyFacts DEF LockJoin, Proceeds, Asks, IInv
<1>2. /\ UNCHANGED <<opened, posix, at, faults>>
      /\ eFileLock' = [eFileLock EXCEPT ![h] = SHARED_LOCK] /\ eFileLock[h] = NO_LOCK
      /\ inode' = [inode EXCEPT ![p].nShared = @ + 1, ![p].nLock = @ + 1]
      /\ inode[p].eFileLock \in {SHARED_LOCK, RESERVED_LOCK}
      /\ eLock' = [eLock EXCEPT ![h] = IF @ = UNKNOWN_LOCK THEN @ ELSE SHARED_LOCK]
  BY <1>1 DEF LockJoin, Proceeds, Node, Believed, TypeOK
<1>3. /\ inode[p] \in [eFileLock : Levels, nShared : Nat, nLock : Nat, nUnused : Nat]
      /\ inode'[p] = [inode[p] EXCEPT !.nShared = @ + 1, !.nLock = @ + 1]
      /\ \A q \in Proc \ {p} : inode'[q] = inode[q]
      /\ \A x \in Handle \ {h} : eFileLock'[x] = eFileLock[x] /\ eLock'[x] = eLock[x]
      /\ eFileLock'[h] = SHARED_LOCK /\ eLock'[h] \in {UNKNOWN_LOCK, SHARED_LOCK}
      /\ eFileLock' \in [Handle -> Levels] /\ eLock' \in [Handle -> Levels \cup {UNKNOWN_LOCK}]
  BY <1>1, <1>2 DEF TypeOK
<1>4. /\ inode'[p] \in [eFileLock : Levels, nShared : Nat, nLock : Nat, nUnused : Nat]
      /\ inode'[p].nShared = inode[p].nShared + 1 /\ inode'[p].nLock = inode[p].nLock + 1
      /\ inode'[p].eFileLock = inode[p].eFileLock
      /\ inode'[p].nUnused = inode[p].nUnused
  <2>1. inode[p].nShared \in Nat /\ inode[p].nLock \in Nat
    BY <1>3
  <2>2. inode[p].nShared + 1 \in Nat /\ inode[p].nLock + 1 \in Nat
    BY <2>1
  <2>3. QED
    BY <1>3, <2>1, <2>2
<1>5. TypeOK' /\ Compatible'
  BY <1>1, <1>2, <1>3, <1>4 DEF TypeOK, Compatible
<1>6. OnlyIn(p)
  BY <1>1, <1>2, <1>3 DEF OnlyIn
<1>7. Cardinality(Holding(eFileLock', p)) = Cardinality(Holding(eFileLock, p)) + 1
  <2>1. eFileLock'[h] # NO_LOCK /\ eFileLock[h] = NO_LOCK
    BY <1>2, <1>3
  <2>2. \A x \in Handle \ {h} : eFileLock'[x] = eFileLock[x]
    BY <1>3
  <2>3. QED
    BY <2>1, <2>2, HoldingOne
<1>7a. /\ Cardinality(Holders(p)') = Cardinality(Holders(p)) + 1
      /\ Cardinality(Holders(p)) \in Nat
  <2>1. Holders(p)' = Holding(eFileLock', p)
    BY DEF Holders, Holding
  <2>2. QED
    BY <1>7, <2>1, HoldingFinite DEF Holders
<1>8. NodeInv(p)'
  <2>1. NodeInv(p)
    BY <1>1 DEF ProcInv
  <2>2. posix[p]["shared"] # "write"
    BY <1>1, <1>2, <1>3, <2>1 DEF NodeInv, Idle
  <2>3. QED
    BY <1>1, <1>2, <1>3, <1>4, <1>7a, <2>1, <2>2 DEF NodeInv
<1>9. CallInv(p)'
  BY <1>1, <1>2 DEF ProcInv, CallInv
<1>10. OneAbove(p)'
  BY <1>1, <1>3 DEF ProcInv, OneAbove
<1>11. ASSUME NEW x \in HandlesOf(p) PROVE HandleInv(x)'
  <2>1. HandleInv(x) /\ ~Leaves(x) /\ eFileLock[x] \in Levels
    BY <1>1 DEF ProcInv, TypeOK
  <2>2. eFileLock[x] # EXCLUSIVE_LOCK
    BY <1>2, <2>1 DEF HandleInv, Node
  <2>3. QED
    <3>1. CASE x = h
      BY <1>1, <1>2, <1>3, <1>4, <2>1, <3>1 DEF HandleInv, Node, Leaves
    <3>2. CASE x # h
      <4>1. eFileLock'[x] = eFileLock[x] /\ eLock'[x] = eLock[x] /\ ProcOf[x] = p
        BY <1>3, <3>2
      <4>2. QED
        BY <1>2, <1>4, <2>1, <2>2, <4>1 DEF HandleInv, Node, Leaves
    <3>3. QED
      BY <3>1, <3>2
<1>12. faults' = 0 => CountInv(p)'
  BY <1>1, <1>2, <1>3, <1>4, <1>7a DEF ProcInv, CountInv, Idle
<1>13. ASSUME NEW x \in HandlesOf(p), faults' = 0 PROVE BeliefInv(x)'
  BY <1>1, <1>2, <1>3, <1>13 DEF ProcInv, BeliefInv, Leaves
<1>14. ProcInv(p)'
  BY <1>8, <1>9, <1>10, <1>11, <1>12, <1>13 DEF ProcInv
<1>15. QED
  BY <1>1, <1>5, <1>6, <1>14, Frame

\* RESERVED is asked for at SHARED, by a handle whose process has nobody above SHARED.
LEMMA ReservedStep ==
    ASSUME IInv, NEW h \in Handle, LockReserved(h)
    PROVE  IInv'
<1> DEFINE p == ProcOf[h]
<1>1. /\ p \in Proc /\ h \in HandlesOf(p) /\ at[p] = Idle /\ h \in opened
      /\ ProcInv(p) /\ HandleInv(h) /\ TypeOK /\ Compatible
      /\ \A x \in HandlesOf(p) : ~Leaves(x)
  BY ReadyFacts DEF LockReserved, Proceeds, Asks, IInv
<1>2. /\ eFileLock[h] = SHARED_LOCK /\ eLock[h] = SHARED_LOCK
      /\ inode[p].eFileLock = SHARED_LOCK
  <2>1. eLock[h] = SHARED_LOCK /\ eFileLock[h] < RESERVED_LOCK /\ eFileLock[h] \in Levels
    BY <1>1 DEF LockReserved, Proceeds, Asks, TypeOK
  <2>2. eFileLock[h] = SHARED_LOCK
    BY <1>1, <2>1 DEF HandleInv
  <2>3. QED
    BY <2>1, <2>2 DEF LockReserved, Proceeds, Precluded, Node
<1>3. UNCHANGED <<opened, at>>
  BY DEF LockReserved
<1>4. CASE Refused(p, {"reserved"}, "write") /\ UNCHANGED <<eFileLock, inode, eLock>>
  <2>1. /\ posix' = posix /\ Compatible'
        /\ faults' \in 0 .. MaxFaults /\ (faults' = 0 => faults = 0)
    BY <1>1, <1>4, RefusedFacts
  <2>2. TypeOK' /\ CallInv(p)'
    BY <1>1, <1>3, <1>4, <2>1 DEF TypeOK, CallInv
  <2>3. \A x \in HandlesOf(p) : eLock'[x] # UNKNOWN_LOCK => eLock'[x] <= eFileLock[x]
    BY <1>1, <1>4 DEF ProcInv, HandleInv
  <2>4. faults' = 0 => \A x \in HandlesOf(p) : BeliefInv(x)'
    BY <1>1, <1>3, <1>4, <2>1 DEF ProcInv, BeliefInv, Leaves
  <2>5. QED
    BY <1>1, <1>3, <1>4, <2>1, <2>2, <2>3, <2>4, Start DEF Idle
<1>5. CASE /\ Granted(p, {"reserved"}, "write")
           /\ eFileLock' = [eFileLock EXCEPT ![h] = RESERVED_LOCK]
           /\ inode' = [inode EXCEPT ![p].eFileLock = RESERVED_LOCK]
           /\ Believed(h, RESERVED_LOCK)
  <2>1. /\ posix' \in [Proc -> [Bytes -> PosixLocks]] /\ Compatible' /\ faults' = faults
        /\ \A q \in Proc \ {p} : posix'[q] = posix[q]
        /\ posix'[p]["reserved"] = "write"
        /\ posix'[p]["pending"] = posix[p]["pending"]
        /\ posix'[p]["shared"] = posix[p]["shared"]
    <3>1. {"reserved"} \subseteq Bytes /\ "write" \in PosixLocks
      BY DEF PosixLocks
    <3>2. QED
      <4>1. /\ posix' \in [Proc -> [Bytes -> PosixLocks]] /\ Compatible' /\ faults' = faults
            /\ \A q \in Proc \ {p} : posix'[q] = posix[q]
            /\ \A b \in {"reserved"} : posix'[p][b] = "write"
            /\ \A b \in Bytes \ {"reserved"} : posix'[p][b] = posix[p][b]
        BY <1>1, <1>5, <3>1, GrantedFacts
      <4>2. QED
        BY <4>1
  <2>2. /\ inode[p] \in [eFileLock : Levels, nShared : Nat, nLock : Nat, nUnused : Nat]
        /\ inode'[p] = [inode[p] EXCEPT !.eFileLock = RESERVED_LOCK]
        /\ \A q \in Proc \ {p} : inode'[q] = inode[q]
        /\ \A x \in Handle \ {h} : eFileLock'[x] = eFileLock[x] /\ eLock'[x] = eLock[x]
        /\ eFileLock'[h] = RESERVED_LOCK /\ eLock'[h] = RESERVED_LOCK
        /\ eFileLock' \in [Handle -> Levels] /\ eLock' \in [Handle -> Levels \cup {UNKNOWN_LOCK}]
    BY <1>1, <1>2, <1>5 DEF TypeOK, Believed
  <2>3. /\ inode'[p] \in [eFileLock : Levels, nShared : Nat, nLock : Nat, nUnused : Nat]
        /\ inode'[p].nShared = inode[p].nShared /\ inode'[p].nLock = inode[p].nLock
        /\ inode'[p].eFileLock = RESERVED_LOCK
        /\ inode'[p].nUnused = inode[p].nUnused
    BY <2>2
  <2>4. TypeOK'
    BY <1>1, <1>3, <1>5, <2>1, <2>2, <2>3 DEF TypeOK
  <2>5. OnlyIn(p)
    BY <1>1, <1>3, <2>1, <2>2 DEF OnlyIn
  <2>6. Holders(p)' = Holders(p)
    BY <1>2, <2>2 DEF Holders, Holding
  <2>7. NodeInv(p)'
    BY <1>1, <1>2, <1>3, <2>1, <2>3, <2>6 DEF ProcInv, NodeInv, Idle
  <2>8. CallInv(p)'
    BY <1>1, <1>3 DEF CallInv
  <2>9. \A x \in HandlesOf(p) : eFileLock[x] <= SHARED_LOCK
    BY <1>1, <1>2 DEF ProcInv, HandleInv, Node, TypeOK
  <2>10. OneAbove(p)'
    BY <2>2, <2>9 DEF OneAbove
  <2>11. ASSUME NEW x \in HandlesOf(p) PROVE HandleInv(x)'
    <3>1. HandleInv(x) /\ ~Leaves(x) /\ ProcOf[x] = p /\ ~Leaves(x)'
      BY <1>1, <1>3 DEF ProcInv, Leaves
    <3>2. CASE x = h
      BY <1>1, <1>3, <2>1, <2>2, <2>3, <3>1, <3>2 DEF HandleInv, Node
    <3>3. CASE x # h
      BY <1>3, <2>1, <2>2, <2>3, <2>9, <3>1, <3>3 DEF HandleInv, Node
    <3>4. QED
      BY <3>2, <3>3
  <2>12. faults' = 0 => CountInv(p)'
    BY <1>1, <1>2, <1>3, <2>1, <2>3, <2>6 DEF ProcInv, CountInv, NodeInv, Idle
  <2>13. ASSUME NEW x \in HandlesOf(p), faults' = 0 PROVE BeliefInv(x)'
    BY <1>1, <1>3, <2>1, <2>2, <2>13 DEF ProcInv, BeliefInv, Leaves
  <2>14. QED
    BY <1>1, <2>1, <2>4, <2>5, <2>7, <2>8, <2>10, <2>11, <2>12, <2>13, Frame DEF ProcInv
<1>6. QED
  BY <1>4, <1>5 DEF LockReserved, Raised

\* The PENDING byte: the start of SHARED and of EXCLUSIVE.
LEMMA PendingByteStep ==
    ASSUME IInv, NEW h \in Handle, NEW want \in {SHARED_LOCK, RESERVED_LOCK, EXCLUSIVE_LOCK},
           LockPendingByte(h, want)
    PROVE  IInv'
<1> DEFINE p == ProcOf[h]
           type == IF want = SHARED_LOCK THEN "read" ELSE "write"
           next == IF want = SHARED_LOCK THEN "sharedRange" ELSE "exclusiveRange"
<1>1. /\ p \in Proc /\ h \in HandlesOf(p) /\ at[p] = Idle /\ h \in opened
      /\ ProcInv(p) /\ HandleInv(h) /\ TypeOK /\ Compatible
      /\ \A x \in HandlesOf(p) : ~Leaves(x)
  BY ReadyFacts DEF LockPendingByte, Proceeds, Asks, IInv
<1>2. /\ UNCHANGED <<opened, eFileLock, eLock, inode>>
      /\ eFileLock[h] \in Levels /\ eLock[h] \in Levels \cup {UNKNOWN_LOCK}
      /\ inode[p] \in [eFileLock : Levels, nShared : Nat, nLock : Nat, nUnused : Nat]
      /\ at \in [Proc -> {Idle} \cup Calls]
  BY <1>1 DEF LockPendingByte, TypeOK, Calls
<1>3. \/ want = SHARED_LOCK /\ eFileLock[h] = NO_LOCK /\ inode[p].nShared = 0
      \/ /\ want = EXCLUSIVE_LOCK /\ eFileLock[h] \in SHARED_LOCK .. RESERVED_LOCK
         /\ inode[p].eFileLock = eFileLock[h]
  <2>1. CASE want = SHARED_LOCK
    <3>1. eFileLock[h] = NO_LOCK /\ inode[p].eFileLock = NO_LOCK
      BY <1>2, <2>1 DEF LockPendingByte, Proceeds, Precluded, Node
    <3>2. QED
      BY <1>1, <2>1, <3>1 DEF ProcInv, NodeInv
  <2>2. CASE want = EXCLUSIVE_LOCK
    <3>1. eFileLock[h] < PENDING_LOCK /\ inode[p].eFileLock = eFileLock[h]
      BY <2>2 DEF LockPendingByte, Proceeds, Precluded, Node
    <3>2. eFileLock[h] >= SHARED_LOCK
      BY <1>1, <1>2, <2>2 DEF LockPendingByte, Proceeds, Asks, HandleInv
    <3>3. QED
      BY <1>2, <2>2, <3>1, <3>2
  <2>3. QED
    BY <2>1, <2>2 DEF LockPendingByte
<1>4. CASE Granted(p, {"pending"}, type) /\ InCall(h, want, next)
  <2>1. /\ posix' \in [Proc -> [Bytes -> PosixLocks]] /\ Compatible' /\ faults' = faults
        /\ \A q \in Proc \ {p} : posix'[q] = posix[q]
        /\ \A b \in {"pending"} : posix'[p][b] = type
        /\ \A b \in Bytes \ {"pending"} : posix'[p][b] = posix[p][b]
    <3>1. {"pending"} \subseteq Bytes /\ type \in PosixLocks
      BY DEF PosixLocks
    <3>2. QED
      BY <1>1, <1>4, <3>1, GrantedFacts
  <2>2. /\ posix'[p]["pending"] = type
        /\ posix'[p]["reserved"] = posix[p]["reserved"]
        /\ posix'[p]["shared"] = posix[p]["shared"]
    BY <2>1
  <2>3. /\ at' \in [Proc -> {Idle} \cup Calls] /\ \A q \in Proc \ {p} : at'[q] = at[q]
        /\ at'[p] \in Calls /\ at'[p].pc = next /\ at'[p].h = h
        /\ at'[p].want = want /\ ~at'[p].closing
    <3>1. at' = [at EXCEPT ![p] = [pc |-> next, h |-> h, want |-> want,
                                   ok |-> TRUE, closing |-> FALSE]]
      BY <1>4 DEF InCall
    <3>2. next \in Steps \ {"idle"} /\ want \in Levels
      BY DEF Steps
    <3>3. at'[p] = [pc |-> next, h |-> h, want |-> want, ok |-> TRUE, closing |-> FALSE]
      BY <1>1, <1>2, <3>1
    <3>4. at'[p] \in Calls
      BY <3>2, <3>3 DEF Calls
    <3>5. at'[p].pc = next /\ at'[p].h = h /\ at'[p].want = want /\ ~at'[p].closing
      BY <3>3
    <3>6. at' \in [Proc -> {Idle} \cup Calls] /\ \A q \in Proc \ {p} : at'[q] = at[q]
      BY <1>2, <3>1, <3>3, <3>4
    <3>7. QED
      BY <3>4, <3>5, <3>6
  <2>4. TypeOK'
    BY <1>1, <1>2, <2>1, <2>3 DEF TypeOK, Calls
  <2>5. OnlyIn(p)
    BY <1>1, <1>2, <2>1, <2>2, <2>3 DEF OnlyIn
  <2>6. Holders(p)' = Holders(p)
    BY <1>2 DEF Holders, Holding
  <2>7. NodeInv(p)'
    BY <1>1, <1>2, <2>2, <2>3, <2>6 DEF ProcInv, NodeInv, Idle
  <2>8. CallInv(p)'
    BY <1>1, <1>2, <1>3, <2>2, <2>3 DEF CallInv
  <2>9. OneAbove(p)'
    BY <1>1, <1>2 DEF ProcInv, OneAbove
  <2>10. ASSUME NEW x \in HandlesOf(p) PROVE HandleInv(x)'
    <3>1. HandleInv(x) /\ ~Leaves(x) /\ ProcOf[x] = p /\ ~Leaves(x)' /\ eFileLock[x] \in Levels
      BY <1>1, <1>3, <2>3 DEF ProcInv, Leaves, TypeOK
    <3>2. eFileLock[x] >= PENDING_LOCK => want # SHARED_LOCK
      BY <1>1, <1>2, <1>3, <3>1, HolderFacts DEF Node
    <3>3. QED
      BY <1>2, <2>1, <2>2, <3>1, <3>2 DEF HandleInv, Node
  <2>11. faults' = 0 => CountInv(p)'
    BY <1>1, <1>2, <1>3, <2>1, <2>2, <2>3, <2>6 DEF ProcInv, CountInv, NodeInv, Idle
  <2>12. faults' = 0 => \A x \in HandlesOf(p) : BeliefInv(x)'
    BY <1>1, <1>2, <2>1, <2>2, <2>3 DEF ProcInv, BeliefInv, Leaves, Idle
  <2>13. QED
    BY <1>1, <2>1, <2>4, <2>5, <2>7, <2>8, <2>9, <2>10, <2>11, <2>12, Frame DEF ProcInv
<1>5. CASE /\ Refused(p, {"pending"}, type)
           /\ IF want = EXCLUSIVE_LOCK THEN GivesUp(h, FirstStep(h, NO_LOCK)) ELSE UNCHANGED at
  <2>1. /\ posix' = posix
        /\ faults' \in 0 .. MaxFaults /\ (faults' = 0 => faults = 0)
    BY <1>1, <1>5, RefusedFacts
  <2>2. \/ at' = at
        \/ /\ at' \in [Proc -> {Idle} \cup Calls] /\ \A q \in Proc \ {p} : at'[q] = at[q]
           /\ at'[p] \in Calls
           /\ at'[p].h = h /\ at'[p].want = NO_LOCK /\ ~at'[p].closing
           /\ \/ at'[p].pc = "leave" /\ eFileLock[h] = SHARED_LOCK
              \/ at'[p].pc = "dropWrite" /\ eFileLock[h] > SHARED_LOCK
    <3>1. CASE want = EXCLUSIVE_LOCK /\ eLock[h] \in {SHARED_LOCK, UNKNOWN_LOCK}
      <4>1. at' = [at EXCEPT ![p] = [pc |-> FirstStep(h, NO_LOCK), h |-> h, want |-> NO_LOCK,
                                     ok |-> TRUE, closing |-> FALSE]]
        BY <1>5, <3>1 DEF GivesUp, InCall
      <4>2. \/ eFileLock[h] = SHARED_LOCK /\ FirstStep(h, NO_LOCK) = "leave"
            \/ eFileLock[h] > SHARED_LOCK /\ FirstStep(h, NO_LOCK) = "dropWrite"
        BY <1>2, <1>3, <3>1 DEF FirstStep
      <4>3. FirstStep(h, NO_LOCK) \in Steps \ {"idle"} /\ NO_LOCK \in Levels
        BY <4>2 DEF Steps
      <4>4. at'[p] = [pc |-> FirstStep(h, NO_LOCK), h |-> h, want |-> NO_LOCK,
                      ok |-> TRUE, closing |-> FALSE]
        BY <1>1, <1>2, <4>1
      <4>5. at'[p] \in Calls
        BY <4>3, <4>4 DEF Calls
      <4>6. QED
        BY <1>2, <4>1, <4>2, <4>4, <4>5
    <3>2. CASE ~(want = EXCLUSIVE_LOCK /\ eLock[h] \in {SHARED_LOCK, UNKNOWN_LOCK})
      BY <1>1, <1>2, <1>5, <3>2 DEF GivesUp
    <3>3. QED
      BY <3>1, <3>2
  <2>3. TypeOK' /\ CallInv(p)'
    BY <1>1, <1>2, <2>1, <2>2 DEF TypeOK, CallInv, Calls
  <2>4. \A x \in HandlesOf(p) : eLock'[x] # UNKNOWN_LOCK => eLock'[x] <= eFileLock[x]
    BY <1>1, <1>2 DEF ProcInv, HandleInv
  <2>5. faults' = 0 => \A x \in HandlesOf(p) : BeliefInv(x)'
    BY <1>1, <1>2, <2>1, <2>2 DEF ProcInv, BeliefInv, Leaves, Idle
  <2>6. QED
    BY <1>1, <1>2, <2>1, <2>2, <2>3, <2>4, <2>5, Start DEF Idle
<1>6. QED
  BY <1>4, <1>5 DEF LockPendingByte

-----------------------------------------------------------------------------
(***************************************************************************)
(* Steps inside a call.                                                    *)
(***************************************************************************)
LEMMA InCallFacts ==
    ASSUME IInv, NEW p \in Proc, at[p].pc # "idle"
    PROVE  /\ at[p] \in Calls /\ at[p] # Idle
           /\ at[p].h \in HandlesOf(p) /\ at[p].h \in opened
           /\ ProcInv(p) /\ CallInv(p) /\ HandleInv(at[p].h) /\ TypeOK /\ Compatible
           /\ \A x \in HandlesOf(p) : Leaves(x) <=> at[p].pc = "leave" /\ x = at[p].h
<1>1. at[p] \in Calls /\ at[p] # Idle /\ TypeOK /\ ProcInv(p) /\ CallInv(p) /\ Compatible
  BY CallOf DEF IInv, ProcInv, Idle
<1>2. at[p].h \in HandlesOf(p) /\ at[p].h \in opened
  BY <1>1 DEF CallInv, Calls
<1>3. HandleInv(at[p].h)
  BY <1>1, <1>2 DEF ProcInv
<1>4. QED
  BY <1>1, <1>2, <1>3 DEF Leaves

\* A process in the middle of its first SHARED has no other handle with a level.
LEMMA NobodyYet ==
    ASSUME IInv, NEW p \in Proc, inode[p].nShared = 0
    PROVE  \A x \in HandlesOf(p) : eFileLock[x] = NO_LOCK
<1>1. Cardinality(Holding(eFileLock, p)) <= 0
  BY DEF IInv, ProcInv, NodeInv, Holders
<1>2. QED
  BY <1>1, NobodyHolds

LEMMA SharedRangeStep ==
    ASSUME IInv, NEW p \in Proc, LockSharedRange(p)
    PROVE  IInv'
<1> DEFINE h == at[p].h
<1>1. /\ at[p] \in Calls /\ h \in HandlesOf(p) /\ h \in opened
      /\ ProcInv(p) /\ CallInv(p) /\ TypeOK /\ Compatible
      /\ \A x \in HandlesOf(p) : ~Leaves(x)
      /\ at[p].pc = "sharedRange" /\ at[p] # Idle
  BY InCallFacts DEF LockSharedRange
<1>2. UNCHANGED <<opened, eFileLock, eLock, inode>>
  BY DEF LockSharedRange
<1>3. PICK ok \in BOOLEAN :
          /\ IF ok THEN Granted(p, {"shared"}, "read") ELSE Refused(p, {"shared"}, "read")
          /\ at' = [at EXCEPT ![p].pc = "dropPending", ![p].ok = ok]
  BY DEF LockSharedRange
<1>4. /\ \A x \in HandlesOf(p) : eFileLock[x] = NO_LOCK
      /\ inode[p].nShared = 0 /\ posix[p]["pending"] = "read"
  BY <1>1, NobodyYet DEF CallInv
<1>5. /\ at'[p] = [at[p] EXCEPT !.pc = "dropPending", !.ok = ok]
      /\ \A q \in Proc \ {p} : at'[q] = at[q]
      /\ at' \in [Proc -> {Idle} \cup Calls]
  <2>1. at \in [Proc -> {Idle} \cup Calls]
    BY <1>1 DEF TypeOK, Calls
  <2>2. [at[p] EXCEPT !.pc = "dropPending", !.ok = ok] \in Calls
    BY <1>1 DEF Calls, Steps
  <2>3. QED
    BY <1>3, <2>1, <2>2
<1>6. /\ at'[p] \in Calls /\ at'[p].pc = "dropPending" /\ at'[p].ok = ok
      /\ at'[p].h = h /\ at'[p].want = at[p].want /\ at'[p].closing = at[p].closing
  BY <1>1, <1>5 DEF Calls, Steps
<1>7. /\ posix' \in [Proc -> [Bytes -> PosixLocks]] /\ Compatible'
      /\ faults' \in 0 .. MaxFaults /\ (faults' = 0 => faults = 0)
      /\ \A q \in Proc \ {p} : posix'[q] = posix[q]
      /\ posix'[p]["pending"] = posix[p]["pending"]
      /\ posix'[p]["reserved"] = posix[p]["reserved"]
      /\ posix'[p]["shared"] = IF ok THEN "read" ELSE posix[p]["shared"]
  <2>1. CASE ok
    <3>1. {"shared"} \subseteq Bytes /\ "read" \in PosixLocks /\ Granted(p, {"shared"}, "read")
      BY <1>3, <2>1 DEF PosixLocks
    <3>2. /\ posix' \in [Proc -> [Bytes -> PosixLocks]] /\ Compatible' /\ faults' = faults
          /\ \A q \in Proc \ {p} : posix'[q] = posix[q]
          /\ \A b \in {"shared"} : posix'[p][b] = "read"
          /\ \A b \in Bytes \ {"shared"} : posix'[p][b] = posix[p][b]
      BY <1>1, <3>1, GrantedFacts
    <3>3. QED
      BY <1>1, <2>1, <3>2 DEF TypeOK
  <2>2. CASE ~ok
    <3>1. Refused(p, {"shared"}, "read")
      BY <1>3, <2>2
    <3>2. /\ posix' = posix /\ Compatible'
          /\ faults' \in 0 .. MaxFaults /\ (faults' = 0 => faults = 0)
      BY <1>1, <3>1, RefusedFacts
    <3>3. QED
      BY <1>1, <2>2, <3>2 DEF TypeOK
  <2>3. QED
    BY <2>1, <2>2
<1>8. TypeOK'
  BY <1>1, <1>2, <1>5, <1>7 DEF TypeOK, Calls
<1>9. OnlyIn(p)
  <2>1. ASSUME NEW x \in Handle \ HandlesOf(p), eFileLock[x] = EXCLUSIVE_LOCK PROVE Leaves(x)
    <3>1. ProcOf[x] \in Proc \ {p} /\ HandleInv(x)
      BY <2>1, ProcAssumption DEF IInv, ProcInv
    <3>2. posix[ProcOf[x]]["pending"] # "write"
      BY <1>1, <1>4, <3>1 DEF Compatible
    <3>3. QED
      BY <2>1, <3>1, <3>2 DEF HandleInv
  <2>2. QED
    BY <1>2, <1>5, <1>7, <2>1 DEF OnlyIn
<1>10. Holders(p)' = Holders(p)
  BY <1>2 DEF Holders, Holding
<1>11. NodeInv(p)'
  BY <1>1, <1>2, <1>4, <1>10 DEF ProcInv, NodeInv
<1>12. CallInv(p)'
  BY <1>1, <1>2, <1>4, <1>6, <1>7 DEF CallInv
<1>13. OneAbove(p)'
  BY <1>2, <1>4 DEF OneAbove
<1>14. \A x \in HandlesOf(p) : HandleInv(x)'
  BY <1>1, <1>2, <1>4 DEF ProcInv, HandleInv
<1>15. faults' = 0 => CountInv(p)'
  BY <1>1, <1>2, <1>4, <1>6, <1>7, <1>10 DEF ProcInv, CountInv
<1>16. ASSUME NEW x \in HandlesOf(p), faults' = 0 PROVE BeliefInv(x)'
  <2>1. BeliefInv(x) /\ ProcOf[x] = p /\ ~Leaves(x)' /\ ~Leaves(x)
    BY <1>1, <1>6, <1>7, <1>16 DEF ProcInv, Leaves
  <2>2. QED
    BY <1>1, <1>2, <1>6, <1>7, <2>1 DEF BeliefInv
<1>17. QED
  BY <1>1, <1>7, <1>8, <1>9, <1>11, <1>12, <1>13, <1>14, <1>15, <1>16, Frame DEF ProcInv

LEMMA DropPendingStep ==
    ASSUME IInv, NEW p \in Proc, LockDropPending(p)
    PROVE  IInv'
<1> DEFINE h == at[p].h
<1>1. /\ at[p] \in Calls /\ h \in HandlesOf(p) /\ h \in opened
      /\ ProcInv(p) /\ CallInv(p) /\ TypeOK /\ Compatible
      /\ \A x \in HandlesOf(p) : ~Leaves(x)
      /\ at[p].pc = "dropPending" /\ at[p] # Idle
  BY InCallFacts DEF LockDropPending
<1>2. /\ at' = [at EXCEPT ![p] = Idle] /\ opened' = opened
      /\ at'[p] = Idle /\ \A q \in Proc \ {p} : at'[q] = at[q]
  BY <1>1 DEF LockDropPending, TypeOK
<1>3. /\ \A x \in HandlesOf(p) : eFileLock[x] = NO_LOCK
      /\ inode[p].nShared = 0 /\ at[p].ok => posix[p]["shared"] = "read"
      /\ inode[p].nShared = 0
  BY <1>1, NobodyYet DEF CallInv
<1>4. \A x \in HandlesOf(p) : ~Leaves(x)' /\ ProcOf[x] = p
  BY <1>2 DEF Leaves, Idle
<1>5. CASE /\ \/ Granted(p, {"pending"}, "none") /\ ~at[p].ok
              \/ Refused(p, {"pending"}, "none")
           /\ UNCHANGED <<eFileLock, inode, eLock>>
  <2>1. /\ posix' \in [Proc -> [Bytes -> PosixLocks]] /\ Compatible'
        /\ faults' \in 0 .. MaxFaults /\ (faults' = 0 => faults = 0)
        /\ \A q \in Proc \ {p} : posix'[q] = posix[q]
        /\ posix'[p]["reserved"] = posix[p]["reserved"]
        /\ posix'[p]["shared"] = posix[p]["shared"]
        /\ faults' = 0 => posix'[p]["pending"] = "none" /\ ~at[p].ok
    <3>1. CASE Granted(p, {"pending"}, "none") /\ ~at[p].ok
      <4>1. {"pending"} \subseteq Bytes /\ "none" \in PosixLocks
        BY DEF PosixLocks
      <4>2. /\ posix' \in [Proc -> [Bytes -> PosixLocks]] /\ Compatible' /\ faults' = faults
            /\ \A q \in Proc \ {p} : posix'[q] = posix[q]
            /\ \A b \in {"pending"} : posix'[p][b] = "none"
            /\ \A b \in Bytes \ {"pending"} : posix'[p][b] = posix[p][b]
        BY <1>1, <3>1, <4>1, GrantedFacts
      <4>3. QED
        BY <1>1, <1>5, <3>1, <4>2 DEF TypeOK
    <3>2. CASE Refused(p, {"pending"}, "none")
      BY <1>1, <3>2, RefusedFacts DEF TypeOK
    <3>3. QED
      BY <1>5, <3>1, <3>2
  <2>2. TypeOK'
    BY <1>1, <1>2, <1>5, <2>1 DEF TypeOK
  <2>3. OnlyIn(p)
    BY <1>2, <1>5, <2>1 DEF OnlyIn
  <2>4. Holders(p)' = Holders(p)
    BY <1>5 DEF Holders, Holding
  <2>5. NodeInv(p)' /\ CallInv(p)' /\ OneAbove(p)'
    BY <1>1, <1>2, <1>3, <1>5, <2>1, <2>4 DEF ProcInv, NodeInv, CallInv, OneAbove
  <2>6. \A x \in HandlesOf(p) : HandleInv(x)'
    BY <1>1, <1>2, <1>3, <1>5 DEF ProcInv, HandleInv
  <2>7. faults' = 0 => CountInv(p)'
    BY <1>1, <1>2, <1>3, <1>5, <2>1, <2>4 DEF ProcInv, CountInv, Idle
  <2>8. ASSUME NEW x \in HandlesOf(p), faults' = 0 PROVE BeliefInv(x)'
    <3>1. BeliefInv(x) /\ ~Leaves(x)
      BY <1>1, <2>1, <2>8 DEF ProcInv
    <3>2. QED
      BY <1>1, <1>2, <1>4, <1>5, <2>1, <3>1 DEF BeliefInv
  <2>9. QED
    BY <1>1, <2>1, <2>2, <2>3, <2>5, <2>6, <2>7, <2>8, Frame DEF ProcInv
<1>6. CASE /\ Granted(p, {"pending"}, "none") /\ at[p].ok
           /\ eFileLock' = [eFileLock EXCEPT ![h] = SHARED_LOCK]
           /\ inode' = [inode EXCEPT ![p].eFileLock = SHARED_LOCK,
                                     ![p].nShared = 1, ![p].nLock = @ + 1]
           /\ Believed(h, SHARED_LOCK)
  <2>1. /\ posix' \in [Proc -> [Bytes -> PosixLocks]] /\ Compatible' /\ faults' = faults
        /\ \A q \in Proc \ {p} : posix'[q] = posix[q]
        /\ \A b \in {"pending"} : posix'[p][b] = "none"
        /\ \A b \in Bytes \ {"pending"} : posix'[p][b] = posix[p][b]
    <3>1. {"pending"} \subseteq Bytes /\ "none" \in PosixLocks
      BY DEF PosixLocks
    <3>2. QED
      BY <1>1, <1>6, <3>1, GrantedFacts
  <2>2. posix'[p]["shared"] = "read" /\ posix[p]["shared"] = "read"
    BY <1>1, <1>6, <2>1 DEF CallInv
  <2>3. /\ inode[p] \in [eFileLock : Levels, nShared : Nat, nLock : Nat, nUnused : Nat]
        /\ inode[p].nLock = 0
    BY <1>1, <1>3 DEF TypeOK, ProcInv, NodeInv
  <2>4. /\ inode'[p] = [inode[p] EXCEPT !.eFileLock = SHARED_LOCK, !.nShared = 1, !.nLock = 1]
        /\ \A q \in Proc \ {p} : inode'[q] = inode[q]
        /\ inode' \in [Proc -> [eFileLock : Levels, nShared : Nat, nLock : Nat, nUnused : Nat]]
    BY <1>1, <1>6, <2>3 DEF TypeOK
  <2>5. /\ inode'[p].eFileLock = SHARED_LOCK
        /\ inode'[p].nShared = 1 /\ inode'[p].nLock = 1
    BY <2>3, <2>4
  <2>6. /\ \A x \in Handle \ {h} : eFileLock'[x] = eFileLock[x] /\ eLock'[x] = eLock[x]
        /\ eFileLock'[h] = SHARED_LOCK /\ eLock'[h] \in {UNKNOWN_LOCK, SHARED_LOCK}
        /\ eFileLock' \in [Handle -> Levels] /\ eLock' \in [Handle -> Levels \cup {UNKNOWN_LOCK}]
        /\ eLock[h] # UNKNOWN_LOCK => eLock'[h] = SHARED_LOCK
    BY <1>1, <1>6 DEF TypeOK, Believed
  <2>7. TypeOK'
    BY <1>1, <1>2, <2>1, <2>4, <2>6 DEF TypeOK
  <2>8. OnlyIn(p)
    BY <1>1, <1>2, <2>1, <2>2, <2>4, <2>6 DEF OnlyIn
  <2>9. /\ Cardinality(Holders(p)') = Cardinality(Holders(p)) + 1
        /\ Cardinality(Holders(p)) = 0
    <3>1. Holders(p)' = Holding(eFileLock', p)
      BY DEF Holders, Holding
    <3>2. eFileLock[h] = NO_LOCK /\ eFileLock'[h] # NO_LOCK
      BY <1>1, <1>3, <2>6
    <3>3. Cardinality(Holding(eFileLock', p)) = Cardinality(Holding(eFileLock, p)) + 1
      BY <1>1, <2>6, <3>2, HoldingOne
    <3>4. Cardinality(Holders(p)) = 0
      BY <1>1, <1>3, HoldingFinite DEF ProcInv, NodeInv, Holders
    <3>5. QED
      BY <3>1, <3>3, <3>4 DEF Holders
  <2>10. NodeInv(p)'
    BY <2>2, <2>5, <2>9 DEF NodeInv
  <2>11. CallInv(p)' /\ OneAbove(p)'
    BY <1>2, <1>3, <2>6 DEF CallInv, OneAbove
  <2>12. ASSUME NEW x \in HandlesOf(p) PROVE HandleInv(x)'
    <3>1. HandleInv(x) /\ ~Leaves(x)' /\ eFileLock[x] = NO_LOCK
      BY <1>1, <1>3, <1>4 DEF ProcInv
    <3>2. CASE x = h
      BY <1>1, <1>2, <1>4, <2>6, <3>1, <3>2 DEF HandleInv
    <3>3. CASE x # h
      BY <1>2, <1>4, <2>6, <3>1, <3>3 DEF HandleInv
    <3>4. QED
      BY <3>2, <3>3
  <2>13. faults' = 0 => CountInv(p)'
    BY <1>2, <2>5, <2>9 DEF CountInv, Idle
  <2>14. ASSUME NEW x \in HandlesOf(p), faults' = 0 PROVE BeliefInv(x)'
    <3>1. BeliefInv(x) /\ ~Leaves(x) /\ ~Leaves(x)' /\ ProcOf[x] = p
      BY <1>1, <1>4, <2>1, <2>14 DEF ProcInv
    <3>2. QED
      BY <1>1, <1>2, <2>1, <2>6, <3>1 DEF BeliefInv
  <2>15. QED
    BY <1>1, <2>1, <2>7, <2>8, <2>10, <2>11, <2>12, <2>13, <2>14, Frame DEF ProcInv
<1>7. QED
  BY <1>5, <1>6 DEF LockDropPending

LEMMA ExclusiveRangeStep ==
    ASSUME IInv, NEW p \in Proc, LockExclusiveRange(p)
    PROVE  IInv'
<1> DEFINE h == at[p].h
<1>1. /\ at[p] \in Calls /\ h \in HandlesOf(p) /\ h \in opened
      /\ ProcInv(p) /\ CallInv(p) /\ HandleInv(h) /\ TypeOK /\ Compatible
      /\ \A x \in HandlesOf(p) : ~Leaves(x)
      /\ at[p].pc = "exclusiveRange" /\ at[p] # Idle
  BY InCallFacts DEF LockExclusiveRange
<1>2. /\ eFileLock[h] \in SHARED_LOCK .. PENDING_LOCK /\ inode[p].eFileLock = eFileLock[h]
      /\ posix[p]["pending"] = "write" /\ opened' = opened
      /\ inode[p] \in [eFileLock : Levels, nShared : Nat, nLock : Nat, nUnused : Nat]
      /\ at \in [Proc -> {Idle} \cup Calls]
  BY <1>1 DEF LockExclusiveRange, CallInv, TypeOK, Calls
<1>3. \A x \in HandlesOf(p) \ {h} : eFileLock[x] <= SHARED_LOCK
  BY <1>1, <1>2 DEF ProcInv, HandleInv, OneAbove, Node, TypeOK
<1>4. CASE /\ inode[p].nShared = 1 /\ Granted(p, {"shared"}, "write")
           /\ Raised(h, EXCLUSIVE_LOCK, TRUE)
           /\ at' = [at EXCEPT ![p] = Idle]
  <2>1. /\ posix' \in [Proc -> [Bytes -> PosixLocks]] /\ Compatible' /\ faults' = faults
        /\ \A q \in Proc \ {p} : posix'[q] = posix[q]
        /\ \A b \in {"shared"} : posix'[p][b] = "write"
        /\ \A b \in Bytes \ {"shared"} : posix'[p][b] = posix[p][b]
    <3>1. {"shared"} \subseteq Bytes /\ "write" \in PosixLocks
      BY DEF PosixLocks
    <3>2. QED
      BY <1>1, <1>4, <3>1, GrantedFacts
  <2>2. /\ posix'[p]["shared"] = "write" /\ posix[p]["shared"] # "none"
        /\ posix'[p]["pending"] = "write"
    BY <1>1, <1>2, <1>4, <2>1 DEF ProcInv, NodeInv
  <2>3. \A x \in HandlesOf(p) \ {h} : eFileLock[x] = NO_LOCK
    BY <1>1, <1>2, <1>4, HolderFacts DEF Node
  <2>3a. /\ eFileLock' = [eFileLock EXCEPT ![h] = EXCLUSIVE_LOCK]
        /\ inode' = [inode EXCEPT ![p].eFileLock = EXCLUSIVE_LOCK]
        /\ eLock' = [eLock EXCEPT ![h] = EXCLUSIVE_LOCK]
    BY <1>1, <1>4 DEF Raised, Believed
  <2>4. /\ \A x \in Handle \ {h} : eFileLock'[x] = eFileLock[x] /\ eLock'[x] = eLock[x]
        /\ eFileLock'[h] = EXCLUSIVE_LOCK /\ eLock'[h] = EXCLUSIVE_LOCK
        /\ eFileLock' \in [Handle -> Levels] /\ eLock' \in [Handle -> Levels \cup {UNKNOWN_LOCK}]
    BY <1>1, <2>3a DEF TypeOK
  <2>5. /\ inode'[p] = [inode[p] EXCEPT !.eFileLock = EXCLUSIVE_LOCK]
        /\ \A q \in Proc \ {p} : inode'[q] = inode[q]
        /\ inode' \in [Proc -> [eFileLock : Levels, nShared : Nat, nLock : Nat, nUnused : Nat]]
    BY <1>1, <1>2, <2>3a DEF TypeOK
  <2>6. /\ inode'[p].nShared = inode[p].nShared /\ inode'[p].nLock = inode[p].nLock
        /\ inode'[p].eFileLock = EXCLUSIVE_LOCK
        /\ inode'[p].nUnused = inode[p].nUnused
    BY <1>2, <2>5
  <2>7. at'[p] = Idle /\ (\A q \in Proc \ {p} : at'[q] = at[q]) /\ at' \in [Proc -> {Idle} \cup Calls]
    BY <1>2, <1>4
  <2>8. TypeOK'
    BY <1>1, <1>2, <2>1, <2>4, <2>5, <2>7 DEF TypeOK, Calls
  <2>9. OnlyIn(p)
    BY <1>1, <1>2, <2>1, <2>2, <2>4, <2>5, <2>7 DEF OnlyIn
  <2>10. Holders(p)' = Holders(p)
    BY <1>2, <2>4 DEF Holders, Holding
  <2>11. NodeInv(p)'
    <3>1. NodeInv(p)
      BY <1>1 DEF ProcInv
    <3>2. QED
      BY <1>4, <2>2, <2>6, <2>10, <3>1 DEF NodeInv
  <2>12. CallInv(p)' /\ OneAbove(p)'
    BY <1>1, <2>3, <2>4, <2>7 DEF CallInv, OneAbove
  <2>13. ASSUME NEW x \in HandlesOf(p) PROVE HandleInv(x)'
    <3>1. HandleInv(x) /\ ~Leaves(x)' /\ ProcOf[x] = p
      BY <1>1, <2>7 DEF ProcInv, Leaves, Idle
    <3>2. CASE x = h
      BY <1>1, <1>2, <1>4, <2>2, <2>4, <2>6, <3>1, <3>2 DEF HandleInv, Node
    <3>3. CASE x # h
      BY <1>2, <2>3, <2>4, <3>1, <3>3 DEF HandleInv
    <3>4. QED
      BY <3>2, <3>3
  <2>14. faults' = 0 => CountInv(p)'
    BY <1>1, <1>4, <2>1, <2>6, <2>7, <2>10 DEF ProcInv, CountInv, Idle
  <2>15. ASSUME NEW x \in HandlesOf(p), faults' = 0 PROVE BeliefInv(x)'
    <3>1. BeliefInv(x) /\ ~Leaves(x) /\ ~Leaves(x)' /\ ProcOf[x] = p
      BY <1>1, <2>1, <2>7, <2>15 DEF ProcInv, Leaves, Idle
    <3>2. QED
      BY <1>1, <1>2, <2>1, <2>3, <2>4, <2>7, <3>1 DEF BeliefInv
  <2>16. QED
    BY <1>1, <2>1, <2>8, <2>9, <2>11, <2>12, <2>13, <2>14, <2>15, Frame DEF ProcInv
<1>5. CASE /\ \/ UNCHANGED <<posix, faults>>
              \/ Refused(p, {"shared"}, "write")
           /\ Raised(h, EXCLUSIVE_LOCK, FALSE)
           /\ GivesUp(h, "dropWrite")
  <2>1. /\ posix' = posix /\ Compatible'
        /\ faults' \in 0 .. MaxFaults /\ (faults' = 0 => faults = 0)
    BY <1>1, <1>5, RefusedFacts DEF TypeOK, Compatible
  <2>3a. /\ eFileLock' = [eFileLock EXCEPT ![h] = PENDING_LOCK]
        /\ inode' = [inode EXCEPT ![p].eFileLock = PENDING_LOCK]
        /\ eLock' = eLock
    BY <1>1, <1>5 DEF Raised
  <2>2. /\ eLock' = eLock
        /\ \A x \in Handle \ {h} : eFileLock'[x] = eFileLock[x]
        /\ eFileLock'[h] = PENDING_LOCK /\ eFileLock' \in [Handle -> Levels]
    BY <1>1, <2>3a DEF TypeOK
  <2>3. /\ inode'[p] = [inode[p] EXCEPT !.eFileLock = PENDING_LOCK]
        /\ \A q \in Proc \ {p} : inode'[q] = inode[q]
        /\ inode' \in [Proc -> [eFileLock : Levels, nShared : Nat, nLock : Nat, nUnused : Nat]]
    BY <1>1, <1>2, <2>3a DEF TypeOK
  <2>4. /\ inode'[p].nShared = inode[p].nShared /\ inode'[p].nLock = inode[p].nLock
        /\ inode'[p].eFileLock = PENDING_LOCK
        /\ inode'[p].nUnused = inode[p].nUnused
    BY <1>2, <2>3
  <2>5. /\ at' \in [Proc -> {Idle} \cup Calls] /\ \A q \in Proc \ {p} : at'[q] = at[q]
        /\ \/ at'[p] = Idle /\ eLock[h] \notin {SHARED_LOCK, UNKNOWN_LOCK}
           \/ /\ at'[p] \in Calls /\ at'[p].pc = "dropWrite" /\ at'[p].h = h
              /\ at'[p].want = NO_LOCK /\ ~at'[p].closing
    <3>1. CASE eLock[h] \in {SHARED_LOCK, UNKNOWN_LOCK}
      <4>1. at' = [at EXCEPT ![p] = [pc |-> "dropWrite", h |-> h, want |-> NO_LOCK,
                                     ok |-> TRUE, closing |-> FALSE]]
        BY <1>1, <1>5, <3>1 DEF GivesUp, InCall
      <4>2. at'[p] = [pc |-> "dropWrite", h |-> h, want |-> NO_LOCK,
                      ok |-> TRUE, closing |-> FALSE]
        BY <1>2, <4>1
      <4>3. at'[p] \in Calls
        BY <1>1, <4>2 DEF Calls, Steps
      <4>4. QED
        BY <1>2, <4>1, <4>2, <4>3
    <3>2. CASE eLock[h] \notin {SHARED_LOCK, UNKNOWN_LOCK}
      BY <1>1, <1>2, <1>5, <3>2 DEF GivesUp
    <3>3. QED
      BY <3>1, <3>2
  <2>6. TypeOK'
    BY <1>1, <1>2, <2>1, <2>2, <2>3, <2>5 DEF TypeOK, Calls
  <2>7. OnlyIn(p)
    BY <1>1, <1>2, <2>1, <2>2, <2>3, <2>5 DEF OnlyIn
  <2>8. Holders(p)' = Holders(p)
    BY <1>2, <2>2 DEF Holders, Holding
  <2>9. NodeInv(p)'
    <3>1. NodeInv(p) /\ posix[p]["shared"] = "write" => inode[p].nShared = 0
      BY <1>1, <1>2 DEF NodeInv
    <3>2. QED
      BY <1>1, <1>2, <2>1, <2>4, <2>8, <3>1 DEF ProcInv, NodeInv
  <2>10. CallInv(p)'
    BY <1>1, <1>2, <2>2, <2>5 DEF CallInv, Idle
  <2>11. OneAbove(p)'
    BY <1>3, <2>2 DEF OneAbove
  <2>12. \A x \in HandlesOf(p) : ~Leaves(x)'
    BY <2>5 DEF Leaves, Idle
  <2>13. ASSUME NEW x \in HandlesOf(p) PROVE HandleInv(x)'
    <3>1. HandleInv(x) /\ ~Leaves(x)' /\ ~Leaves(x) /\ ProcOf[x] = p
      BY <1>1, <2>12 DEF ProcInv
    <3>2. CASE x = h
      BY <1>1, <1>2, <2>1, <2>2, <2>4, <3>1, <3>2 DEF HandleInv, Node, TypeOK
    <3>3. CASE x # h
      BY <1>2, <1>3, <2>1, <2>2, <3>1, <3>3 DEF HandleInv
    <3>4. QED
      BY <3>2, <3>3
  <2>14. faults' = 0 => CountInv(p)'
    BY <1>1, <1>2, <2>1, <2>4, <2>5, <2>8 DEF ProcInv, CountInv, NodeInv, Idle
  <2>15. ASSUME NEW x \in HandlesOf(p), faults' = 0 PROVE BeliefInv(x)'
    <3>1. BeliefInv(x) /\ ~Leaves(x) /\ ~Leaves(x)' /\ ProcOf[x] = p
      BY <1>1, <2>1, <2>12, <2>15 DEF ProcInv
    <3>2. CASE x = h
      BY <1>1, <1>2, <2>1, <2>2, <2>5, <3>1, <3>2 DEF BeliefInv
    <3>3. CASE x # h
      BY <1>1, <2>1, <2>2, <3>1, <3>3 DEF BeliefInv
    <3>4. QED
      BY <3>2, <3>3
  <2>16. QED
    BY <1>1, <2>1, <2>6, <2>7, <2>9, <2>10, <2>11, <2>13, <2>14, <2>15, Frame DEF ProcInv
<1>6. QED
  <2>1. PICK ok \in BOOLEAN :
          /\ IF ok THEN inode[p].nShared = 1 /\ Granted(p, {"shared"}, "write")
                   ELSE \/ inode[p].nShared > 1 /\ UNCHANGED <<posix, faults>>
                        \/ inode[p].nShared = 1 /\ Refused(p, {"shared"}, "write")
          /\ Raised(h, EXCLUSIVE_LOCK, ok)
          /\ IF ok THEN at' = [at EXCEPT ![p] = Idle] ELSE GivesUp(h, "dropWrite")
    BY DEF LockExclusiveRange
  <2>2. CASE ok
    BY <1>4, <2>1, <2>2
  <2>3. CASE ~ok
    BY <1>5, <2>1, <2>3
  <2>4. QED
    BY <2>2, <2>3

\* A call of posixUnlock comes back: to the pager, or to unixClose.
LEMMA ReturnFacts ==
    ASSUME TypeOK, NEW p \in Proc, at[p] \in Calls, NEW ok \in BOOLEAN, Return(p, ok)
    PROVE  /\ eLock' \in [Handle -> Levels \cup {UNKNOWN_LOCK}]
           /\ \A x \in Handle \ {at[p].h} : eLock'[x] = eLock[x]
           /\ eLock'[at[p].h] \in {UNKNOWN_LOCK, at[p].want}
           /\ ok /\ eLock[at[p].h] # UNKNOWN_LOCK => eLock'[at[p].h] = at[p].want
           /\ at' \in [Proc -> {Idle} \cup Calls]
           /\ \A q \in Proc \ {p} : at'[q] = at[q]
           /\ \/ at'[p] = Idle /\ ~at[p].closing
              \/ /\ at'[p] \in Calls /\ at'[p].pc = "close" /\ at[p].closing
                 /\ at'[p].h = at[p].h /\ at'[p].want = at[p].want /\ at'[p].closing
<1>1. /\ at[p].h \in Handle /\ at[p].want \in Levels /\ at[p].closing \in BOOLEAN
      /\ at \in [Proc -> {Idle} \cup Calls]
  BY DEF Calls, TypeOK
<1>2. /\ eLock' \in [Handle -> Levels \cup {UNKNOWN_LOCK}]
      /\ \A x \in Handle \ {at[p].h} : eLock'[x] = eLock[x]
      /\ eLock'[at[p].h] \in {UNKNOWN_LOCK, at[p].want}
      /\ ok /\ eLock[at[p].h] # UNKNOWN_LOCK => eLock'[at[p].h] = at[p].want
  BY <1>1 DEF Return, Disbelieved, TypeOK
<1>3. CASE at[p].closing
  <2>1. at' = [at EXCEPT ![p] = [at[p] EXCEPT !.pc = "close"]]
    BY <1>1, <1>3 DEF Return
  <2>2. at'[p] = [at[p] EXCEPT !.pc = "close"]
    BY <1>1, <2>1
  <2>3. /\ at'[p] \in Calls /\ at'[p].pc = "close"
        /\ at'[p].h = at[p].h /\ at'[p].want = at[p].want /\ at'[p].closing
    BY <1>3, <2>2 DEF Calls, Steps
  <2>4. QED
    BY <1>1, <1>2, <1>3, <2>1, <2>2, <2>3
<1>4. CASE ~at[p].closing
  BY <1>1, <1>2, <1>4 DEF Return
<1>5. QED
  BY <1>1, <1>3, <1>4

\* An unlock that failed before it changed anything.
LEMMA UnlockFails ==
    ASSUME IInv, NEW p \in Proc, at[p].pc \in {"readLock", "dropWrite"},
           UNCHANGED <<opened, eFileLock, inode, posix>>,
           faults' \in 0 .. MaxFaults, faults' # 0, Return(p, FALSE)
    PROVE  IInv'
<1> DEFINE h == at[p].h
<1>1. /\ at[p] \in Calls /\ h \in HandlesOf(p) /\ h \in opened
      /\ ProcInv(p) /\ CallInv(p) /\ HandleInv(h) /\ TypeOK /\ Compatible
      /\ \A x \in HandlesOf(p) : ~Leaves(x)
      /\ at[p] # Idle /\ at[p].want \in {NO_LOCK, SHARED_LOCK} /\ eFileLock[h] > SHARED_LOCK
  BY InCallFacts DEF CallInv
<1>2. /\ eLock' \in [Handle -> Levels \cup {UNKNOWN_LOCK}]
      /\ \A x \in Handle \ {h} : eLock'[x] = eLock[x]
      /\ eLock'[h] \in {UNKNOWN_LOCK, at[p].want}
      /\ at' \in [Proc -> {Idle} \cup Calls]
      /\ \A q \in Proc \ {p} : at'[q] = at[q]
      /\ \/ at'[p] = Idle /\ ~at[p].closing
         \/ /\ at'[p] \in Calls /\ at'[p].pc = "close" /\ at[p].closing
            /\ at'[p].h = at[p].h /\ at'[p].want = at[p].want /\ at'[p].closing
  BY <1>1, ReturnFacts
<1>3. TypeOK' /\ Compatible'
  BY <1>1, <1>2 DEF TypeOK, Compatible, Calls
<1>4. OnlyIn(p)
  BY <1>1, <1>2 DEF OnlyIn
<1>5. Holders(p)' = Holders(p)
  BY DEF Holders, Holding
<1>6. NodeInv(p)' /\ OneAbove(p)'
  BY <1>1, <1>2, <1>5 DEF ProcInv, NodeInv, OneAbove
<1>7. CallInv(p)'
  BY <1>1, <1>2 DEF CallInv, Idle
<1>8. ASSUME NEW x \in HandlesOf(p) PROVE HandleInv(x)'
  <2>1. HandleInv(x) /\ ~Leaves(x) /\ ~Leaves(x)' /\ ProcOf[x] = p /\ eFileLock[x] \in Levels
    BY <1>1, <1>2 DEF ProcInv, Leaves, Idle, TypeOK
  <2>2. eLock'[x] # UNKNOWN_LOCK => eLock'[x] <= eFileLock[x]
    BY <1>1, <1>2, <2>1 DEF HandleInv
  <2>3. QED
    BY <2>1, <2>2 DEF HandleInv, Node
<1>9. ProcInv(p)'
  BY <1>6, <1>7, <1>8 DEF ProcInv
<1>10. QED
  BY <1>3, <1>4, <1>9, Frame

LEMMA ReadLockStep ==
    ASSUME IInv, NEW p \in Proc, UnlockReadLock(p)
    PROVE  IInv'
<1> DEFINE h == at[p].h
<1>1. /\ at[p] \in Calls /\ h \in HandlesOf(p) /\ h \in opened
      /\ ProcInv(p) /\ CallInv(p) /\ HandleInv(h) /\ TypeOK /\ Compatible
      /\ \A x \in HandlesOf(p) : ~Leaves(x)
      /\ at[p].pc = "readLock" /\ at[p] # Idle
      /\ at[p].want = SHARED_LOCK /\ eFileLock[h] > SHARED_LOCK
  BY InCallFacts DEF UnlockReadLock, CallInv
<1>2. posix[p]["shared"] # "none"
  BY <1>1, HolderFacts
<1>3. UNCHANGED <<opened, eFileLock, inode>>
  BY DEF UnlockReadLock
<1>4. CASE Refused(p, {"shared"}, "read") /\ Return(p, FALSE)
  <2>1. ~Conflict(p, "shared", "read")
    BY <1>1, <1>2 DEF Conflict, Compatible
  <2>2. posix' = posix /\ faults' \in 0 .. MaxFaults /\ faults' # 0
    BY <1>1, <1>4, <2>1, RefusedFacts
  <2>3. QED
    BY <1>1, <1>3, <1>4, <2>2, UnlockFails
<1>5. CASE /\ Granted(p, {"shared"}, "read")
           /\ at' = [at EXCEPT ![p].pc = "dropWrite"] /\ UNCHANGED eLock
  <2>1. /\ posix' \in [Proc -> [Bytes -> PosixLocks]] /\ Compatible' /\ faults' = faults
        /\ \A q \in Proc \ {p} : posix'[q] = posix[q]
        /\ \A b \in {"shared"} : posix'[p][b] = "read"
        /\ \A b \in Bytes \ {"shared"} : posix'[p][b] = posix[p][b]
    <3>1. {"shared"} \subseteq Bytes /\ "read" \in PosixLocks
      BY DEF PosixLocks
    <3>2. QED
      BY <1>1, <1>5, <3>1, GrantedFacts
  <2>2. /\ posix'[p]["shared"] = "read" /\ posix'[p]["pending"] = posix[p]["pending"]
        /\ posix'[p]["reserved"] = posix[p]["reserved"]
    BY <2>1
  <2>3. /\ at'[p] = [at[p] EXCEPT !.pc = "dropWrite"]
        /\ \A q \in Proc \ {p} : at'[q] = at[q]
        /\ at' \in [Proc -> {Idle} \cup Calls]
    <3>1. at \in [Proc -> {Idle} \cup Calls]
      BY <1>1 DEF TypeOK, Calls
    <3>2. [at[p] EXCEPT !.pc = "dropWrite"] \in Calls
      BY <1>1 DEF Calls, Steps
    <3>3. QED
      BY <1>5, <3>1, <3>2
  <2>4. /\ at'[p] \in Calls /\ at'[p].pc = "dropWrite" /\ at'[p].ok = at[p].ok
        /\ at'[p].h = h /\ at'[p].want = at[p].want /\ at'[p].closing = at[p].closing
    BY <1>1, <2>3 DEF Calls, Steps
  <2>5. TypeOK'
    BY <1>1, <1>3, <1>5, <2>1, <2>3 DEF TypeOK, Calls
  <2>6. OnlyIn(p)
    BY <1>2, <1>3, <1>5, <2>1, <2>3 DEF OnlyIn
  <2>7. Holders(p)' = Holders(p)
    BY <1>3 DEF Holders, Holding
  <2>8. NodeInv(p)' /\ OneAbove(p)'
    BY <1>1, <1>3, <2>2, <2>7 DEF ProcInv, NodeInv, OneAbove
  <2>9. CallInv(p)'
    BY <1>1, <1>3, <2>2, <2>4 DEF CallInv
  <2>10. ASSUME NEW x \in HandlesOf(p) PROVE HandleInv(x)'
    <3>1. HandleInv(x) /\ ~Leaves(x) /\ ~Leaves(x)' /\ ProcOf[x] = p
      BY <1>1, <2>4 DEF ProcInv, Leaves
    <3>2. posix[p]["shared"] = "write" => \A q \in Proc \ {p} : posix'[q]["shared"] = "none"
      BY <1>1, <2>1 DEF Compatible
    <3>3. QED
      BY <1>3, <1>5, <2>1, <2>2, <3>1, <3>2 DEF HandleInv, Node
  <2>11. faults' = 0 => CountInv(p)'
    BY <1>1, <1>2, <1>3, <2>1, <2>2, <2>4, <2>7 DEF ProcInv, CountInv, NodeInv
  <2>12. ASSUME NEW x \in HandlesOf(p), faults' = 0 PROVE BeliefInv(x)'
    <3>1. BeliefInv(x) /\ ~Leaves(x) /\ ~Leaves(x)' /\ ProcOf[x] = p
      BY <1>1, <2>1, <2>4, <2>12 DEF ProcInv, Leaves
    <3>2. QED
      BY <1>1, <1>3, <1>5, <2>2, <2>4, <3>1 DEF BeliefInv
  <2>13. QED
    BY <1>1, <2>1, <2>5, <2>6, <2>8, <2>9, <2>10, <2>11, <2>12, Frame DEF ProcInv
<1>6. QED
  BY <1>4, <1>5 DEF UnlockReadLock

LEMMA DropWriteStep ==
    ASSUME IInv, NEW p \in Proc, UnlockDropWrite(p)
    PROVE  IInv'
<1> DEFINE h == at[p].h
<1>1. /\ at[p] \in Calls /\ h \in HandlesOf(p) /\ h \in opened
      /\ ProcInv(p) /\ CallInv(p) /\ HandleInv(h) /\ TypeOK /\ Compatible
      /\ \A x \in HandlesOf(p) : ~Leaves(x)
      /\ at[p].pc = "dropWrite" /\ at[p] # Idle
      /\ at[p].want \in {NO_LOCK, SHARED_LOCK} /\ eFileLock[h] > SHARED_LOCK
  BY InCallFacts DEF UnlockDropWrite, CallInv
<1>2. /\ opened' = opened /\ eFileLock[h] \in Levels
      /\ inode[p] \in [eFileLock : Levels, nShared : Nat, nLock : Nat, nUnused : Nat]
      /\ at \in [Proc -> {Idle} \cup Calls]
  BY <1>1 DEF UnlockDropWrite, TypeOK, Calls
<1>3. inode[p].nShared > 0 /\ inode[p].eFileLock = eFileLock[h]
  BY <1>1, <1>2, HolderFacts DEF Node, HandleInv
<1>4. \A x \in HandlesOf(p) \ {h} : eFileLock[x] <= SHARED_LOCK
  BY <1>1, <1>2 DEF ProcInv, OneAbove, TypeOK
<1>5. CASE /\ Refused(p, {"pending", "reserved"}, "none") /\ Return(p, FALSE)
           /\ UNCHANGED <<eFileLock, inode>>
  <2>1. posix' = posix /\ faults' \in 0 .. MaxFaults /\ faults' # 0
    BY <1>1, <1>5, RefusedFacts
  <2>2. QED
    BY <1>1, <1>2, <1>5, <2>1, UnlockFails
<1>6. CASE /\ Granted(p, {"pending", "reserved"}, "none")
           /\ inode' = [inode EXCEPT ![p].eFileLock = SHARED_LOCK]
           /\ \/ /\ at[p].want = SHARED_LOCK
                 /\ eFileLock' = [eFileLock EXCEPT ![h] = SHARED_LOCK]
                 /\ Return(p, TRUE)
              \/ /\ at[p].want = NO_LOCK
                 /\ at' = [at EXCEPT ![p].pc = "leave"]
                 /\ UNCHANGED <<eFileLock, eLock>>
  <2>1. /\ posix' \in [Proc -> [Bytes -> PosixLocks]] /\ Compatible' /\ faults' = faults
        /\ \A q \in Proc \ {p} : posix'[q] = posix[q]
        /\ posix'[p]["shared"] = posix[p]["shared"]
        /\ posix'[p]["pending"] = "none" /\ posix'[p]["reserved"] = "none"
    <3>1. {"pending", "reserved"} \subseteq Bytes /\ "none" \in PosixLocks
      BY DEF PosixLocks
    <3>2. /\ posix' \in [Proc -> [Bytes -> PosixLocks]] /\ Compatible' /\ faults' = faults
          /\ \A q \in Proc \ {p} : posix'[q] = posix[q]
          /\ \A b \in {"pending", "reserved"} : posix'[p][b] = "none"
          /\ \A b \in Bytes \ {"pending", "reserved"} : posix'[p][b] = posix[p][b]
      BY <1>1, <1>6, <3>1, GrantedFacts
    <3>3. QED
      BY <3>2
  <2>2. /\ inode'[p] = [inode[p] EXCEPT !.eFileLock = SHARED_LOCK]
        /\ \A q \in Proc \ {p} : inode'[q] = inode[q]
        /\ inode' \in [Proc -> [eFileLock : Levels, nShared : Nat, nLock : Nat, nUnused : Nat]]
    BY <1>1, <1>2, <1>6 DEF TypeOK
  <2>3. /\ inode'[p].nShared = inode[p].nShared /\ inode'[p].nLock = inode[p].nLock
        /\ inode'[p].eFileLock = SHARED_LOCK
        /\ inode'[p].nUnused = inode[p].nUnused
    BY <1>2, <2>2
  <2>4. /\ eLock' \in [Handle -> Levels \cup {UNKNOWN_LOCK}]
        /\ eFileLock' \in [Handle -> Levels] /\ at' \in [Proc -> {Idle} \cup Calls]
        /\ \A x \in Handle \ {h} : eLock'[x] = eLock[x] /\ eFileLock'[x] = eFileLock[x]
        /\ \A q \in Proc \ {p} : at'[q] = at[q]
        /\ \/ /\ at'[p] = Idle /\ eFileLock'[h] = SHARED_LOCK
              /\ posix[p]["shared"] = "read"
              /\ eLock'[h] \in {UNKNOWN_LOCK, SHARED_LOCK}
              /\ eLock[h] # UNKNOWN_LOCK => eLock'[h] = SHARED_LOCK
           \/ /\ at'[p] \in Calls /\ at'[p].pc = "leave" /\ at'[p].h = h
              /\ at'[p].want = NO_LOCK
              /\ eFileLock'[h] = eFileLock[h] /\ eLock'[h] = eLock[h]
    <3>1. CASE /\ at[p].want = SHARED_LOCK
               /\ eFileLock' = [eFileLock EXCEPT ![h] = SHARED_LOCK]
               /\ Return(p, TRUE)
      <4>1. ~at[p].closing /\ posix[p]["shared"] = "read"
        BY <1>1, <3>1 DEF CallInv
      <4>2. /\ eLock' \in [Handle -> Levels \cup {UNKNOWN_LOCK}]
            /\ \A x \in Handle \ {h} : eLock'[x] = eLock[x]
            /\ eLock'[h] \in {UNKNOWN_LOCK, SHARED_LOCK}
            /\ eLock[h] # UNKNOWN_LOCK => eLock'[h] = SHARED_LOCK
            /\ at' \in [Proc -> {Idle} \cup Calls]
            /\ \A q \in Proc \ {p} : at'[q] = at[q]
            /\ at'[p] = Idle
        BY <1>1, <3>1, <4>1, ReturnFacts
      <4>3. eFileLock' \in [Handle -> Levels] /\ eFileLock'[h] = SHARED_LOCK
            /\ \A x \in Handle \ {h} : eFileLock'[x] = eFileLock[x]
        BY <1>1, <3>1 DEF TypeOK
      <4>4. QED
        BY <4>1, <4>2, <4>3
    <3>2. CASE /\ at[p].want = NO_LOCK
               /\ at' = [at EXCEPT ![p].pc = "leave"]
               /\ UNCHANGED <<eFileLock, eLock>>
      <4>1. [at[p] EXCEPT !.pc = "leave"] \in Calls
        BY <1>1 DEF Calls, Steps
      <4>2. /\ at'[p] = [at[p] EXCEPT !.pc = "leave"] /\ at' \in [Proc -> {Idle} \cup Calls]
            /\ \A q \in Proc \ {p} : at'[q] = at[q]
        BY <1>2, <3>2, <4>1
      <4>3. at'[p].pc = "leave" /\ at'[p].h = h /\ at'[p].want = NO_LOCK
        BY <1>1, <3>2, <4>2 DEF Calls, Steps
      <4>4. QED
        BY <1>1, <3>2, <4>1, <4>2, <4>3 DEF TypeOK
    <3>3. QED
      BY <1>6, <3>1, <3>2
  <2>5. TypeOK'
    BY <1>1, <1>2, <2>1, <2>2, <2>4 DEF TypeOK, Calls
  <2>6. OnlyIn(p)
    BY <1>1, <1>2, <2>1, <2>2, <2>4 DEF OnlyIn
  <2>7. Holders(p)' = Holders(p)
    BY <1>1, <2>4 DEF Holders, Holding
  <2>8. NodeInv(p)'
    <3>1. /\ NodeInv(p)
          /\ posix[p]["shared"] = "write" => eFileLock[h] = EXCLUSIVE_LOCK
      BY <1>1, <1>3 DEF ProcInv, NodeInv
    <3>2. QED
      BY <1>3, <2>1, <2>3, <2>4, <2>7, <3>1 DEF NodeInv
  <2>9. CallInv(p)'
    BY <1>1, <1>2, <2>4 DEF CallInv, Idle
  <2>10. OneAbove(p)'
    BY <1>4, <2>4 DEF OneAbove
  <2>11. ASSUME NEW x \in HandlesOf(p) PROVE HandleInv(x)'
    <3>1. HandleInv(x) /\ ~Leaves(x) /\ ProcOf[x] = p
      BY <1>1 DEF ProcInv
    <3>2. CASE x = h
      <4>1. CASE at'[p] = Idle
        BY <1>1, <1>2, <2>4, <3>2, <4>1 DEF HandleInv, Leaves, Idle
      <4>2. CASE at'[p] # Idle
        <5>1. Leaves(x)' /\ eFileLock'[x] = eFileLock[x] /\ eLock'[x] = eLock[x]
          BY <1>1, <2>4, <3>2, <4>2 DEF Leaves
        <5>2. eFileLock[x] \in Levels
          BY <1>2, <3>2
        <5>3. QED
          BY <1>2, <2>3, <3>1, <5>1, <5>2 DEF HandleInv, Node
      <4>3. QED
        BY <4>1, <4>2
    <3>3. CASE x # h
      BY <1>2, <1>4, <2>4, <3>1, <3>3 DEF HandleInv
    <3>4. QED
      BY <3>2, <3>3
  <2>12. faults' = 0 => CountInv(p)'
    BY <1>1, <1>3, <2>1, <2>3, <2>4, <2>7 DEF ProcInv, CountInv, Idle
  <2>13. ASSUME NEW x \in HandlesOf(p), faults' = 0 PROVE BeliefInv(x)'
    <3>1. BeliefInv(x) /\ ~Leaves(x) /\ ProcOf[x] = p
      BY <1>1, <2>1, <2>13 DEF ProcInv
    <3>2. CASE x = h
      BY <1>1, <2>4, <3>1, <3>2 DEF BeliefInv, Leaves
    <3>3. CASE x # h
      <4>1. eFileLock[x] = eLock[x] /\ eFileLock[x] \in {NO_LOCK, SHARED_LOCK}
        BY <1>1, <1>4, <3>1, <3>3 DEF BeliefInv
      <4>2. QED
        BY <2>4, <3>3, <4>1 DEF BeliefInv
    <3>4. QED
      BY <3>2, <3>3
  <2>14. QED
    BY <1>1, <2>1, <2>5, <2>6, <2>8, <2>9, <2>10, <2>11, <2>12, <2>13, Frame DEF ProcInv
<1>7. QED
  BY <1>1, <1>5, <1>6 DEF UnlockDropWrite

Nodes == [eFileLock : Levels, nShared : Nat, nLock : Nat, nUnused : Nat]

\* The unixInodeInfo when one reader has left.
After(r) ==
    LET node == [r EXCEPT !.nShared = @ - 1, !.nLock = @ - 1,
                          !.eFileLock = IF r.nShared = 1 THEN NO_LOCK ELSE @]
    IN  IF node.nLock = 0 THEN [node EXCEPT !.nUnused = 0] ELSE node

LEMMA AfterFacts ==
    ASSUME NEW r \in Nodes, r.nShared # 0, r.nLock = r.nShared
    PROVE  /\ After(r) \in Nodes
           /\ After(r).nShared = r.nShared - 1 /\ After(r).nLock = r.nShared - 1
           /\ After(r).eFileLock = IF r.nShared = 1 THEN NO_LOCK ELSE r.eFileLock
           /\ After(r).nUnused = IF r.nShared = 1 THEN 0 ELSE r.nUnused
<1> DEFINE node == [r EXCEPT !.nShared = @ - 1, !.nLock = @ - 1,
                             !.eFileLock = IF r.nShared = 1 THEN NO_LOCK ELSE @]
<1>1. r.nShared \in Nat /\ r.nLock \in Nat /\ r.eFileLock \in Levels /\ r.nUnused \in Nat
  BY DEF Nodes
<1>2. r.nShared - 1 \in Nat /\ r.nLock - 1 = r.nShared - 1
  BY <1>1
<1>3. node.nShared = r.nShared - 1 /\ node.nLock = r.nShared - 1
  BY <1>2 DEF Nodes
<1>4. node.eFileLock = IF r.nShared = 1 THEN NO_LOCK ELSE r.eFileLock
  BY DEF Nodes
<1>5. node.nUnused = r.nUnused
  BY DEF Nodes
<1>6. node \in Nodes
  <2>1. (IF r.nShared = 1 THEN NO_LOCK ELSE r.eFileLock) \in Levels
    BY <1>1
  <2>2. r.nLock - 1 \in Nat
    BY <1>2
  <2>3. QED
    BY <1>1, <1>2, <2>1, <2>2 DEF Nodes
<1>7. After(r) = IF node.nLock = 0 THEN [node EXCEPT !.nUnused = 0] ELSE node
  BY DEF After
<1> HIDE DEF node
<1>8. CASE r.nShared = 1
  <2>1. After(r) = [node EXCEPT !.nUnused = 0]
    BY <1>3, <1>7, <1>8
  <2>2. QED
    BY <1>3, <1>4, <1>6, <1>8, <2>1 DEF Nodes
<1>9. CASE r.nShared # 1
  <2>1. After(r) = node
    BY <1>1, <1>3, <1>7, <1>9
  <2>2. QED
    BY <1>3, <1>4, <1>5, <1>6, <1>9, <2>1
<1>10. QED
  BY <1>8, <1>9

LEMMA LeaveStep ==
    ASSUME IInv, NEW p \in Proc, UnlockLeave(p)
    PROVE  IInv'
<1> DEFINE h == at[p].h
           n == inode[p].nShared
<1>1. /\ at[p] \in Calls /\ h \in HandlesOf(p) /\ h \in opened
      /\ ProcInv(p) /\ CallInv(p) /\ NodeInv(p) /\ TypeOK /\ Compatible
      /\ at[p].pc = "leave" /\ at[p] # Idle
      /\ at[p].want = NO_LOCK /\ eFileLock[h] # NO_LOCK
      /\ \A x \in HandlesOf(p) : Leaves(x) <=> x = h
  BY InCallFacts DEF UnlockLeave, CallInv, ProcInv
<1>2. /\ opened' = opened /\ eFileLock' = [eFileLock EXCEPT ![h] = NO_LOCK]
      /\ inode[p] \in Nodes
      /\ n \in Nat \ {0} /\ inode[p].nLock = n
      /\ n = 1 => \A x \in HandlesOf(p) \ {h} : eFileLock[x] = NO_LOCK
  BY <1>1, HolderFacts DEF UnlockLeave, NodeInv, TypeOK, Node, Nodes
<1>3. PICK ok \in BOOLEAN :
          /\ IF n = 1 /\ ~ok THEN faults < MaxFaults /\ faults' = faults + 1
                             ELSE ok /\ UNCHANGED faults
          /\ \/ n = 1 /\ posix' = [posix EXCEPT ![p] = Unlocked]
             \/ (n = 1 => ~ok) /\ posix' = posix
          /\ inode' = [inode EXCEPT ![p] = After(inode[p])]
          /\ Return(p, ok)
  <2>1. PICK ok \in BOOLEAN :
        LET last == n = 1
            node == [inode[p] EXCEPT !.nShared = @ - 1, !.nLock = @ - 1,
                                     !.eFileLock = IF last THEN NO_LOCK ELSE @]
            drop == node.nLock = 0 /\ node.nUnused > 0
        IN  /\ IF last /\ ~ok THEN faults < MaxFaults /\ faults' = faults + 1 ELSE ok /\ UNCHANGED faults
            /\ posix' = IF (last /\ ok) \/ drop THEN [posix EXCEPT ![p] = Unlocked] ELSE posix
            /\ inode' = [inode EXCEPT ![p] = IF node.nLock = 0 THEN [node EXCEPT !.nUnused = 0] ELSE node]
            /\ Return(p, ok)
    BY DEF UnlockLeave
  <2>2. \/ n = 1 /\ posix' = [posix EXCEPT ![p] = Unlocked]
        \/ (n = 1 => ~ok) /\ posix' = posix
    <3>1. [inode[p] EXCEPT !.nShared = @ - 1, !.nLock = @ - 1,
                           !.eFileLock = IF n = 1 THEN NO_LOCK ELSE @].nLock = n - 1
      BY <1>2
    <3>2. QED
      BY <1>2, <2>1, <3>1
  <2>3. QED
    BY <2>1, <2>2 DEF After
<1>4. /\ inode'[p].nShared = n - 1 /\ inode'[p].nLock = n - 1
      /\ inode'[p].eFileLock = IF n = 1 THEN NO_LOCK ELSE inode[p].eFileLock
      /\ inode'[p].nUnused = IF n = 1 THEN 0 ELSE inode[p].nUnused
      /\ \A q \in Proc \ {p} : inode'[q] = inode[q]
      /\ inode' \in [Proc -> Nodes]
  <2>1. inode \in [Proc -> Nodes]
    BY <1>1 DEF TypeOK, Nodes
  <2>2. /\ After(inode[p]).nShared = n - 1 /\ After(inode[p]).nLock = n - 1
        /\ After(inode[p]).eFileLock = IF n = 1 THEN NO_LOCK ELSE inode[p].eFileLock
        /\ After(inode[p]).nUnused = IF n = 1 THEN 0 ELSE inode[p].nUnused
        /\ After(inode[p]) \in Nodes
    BY <1>2, <2>1, AfterFacts
  <2>3. QED
    BY <1>3, <2>1, <2>2
<1>5. /\ eLock' \in [Handle -> Levels \cup {UNKNOWN_LOCK}]
      /\ \A x \in Handle \ {h} : eLock'[x] = eLock[x]
      /\ eLock'[h] \in {UNKNOWN_LOCK, NO_LOCK}
      /\ ok /\ eLock[h] # UNKNOWN_LOCK => eLock'[h] = NO_LOCK
      /\ at' \in [Proc -> {Idle} \cup Calls]
      /\ \A q \in Proc \ {p} : at'[q] = at[q]
      /\ \/ at'[p] = Idle /\ ~at[p].closing
         \/ /\ at'[p] \in Calls /\ at'[p].pc = "close" /\ at[p].closing
            /\ at'[p].h = h /\ at'[p].want = NO_LOCK /\ at'[p].closing
  BY <1>1, <1>3, ReturnFacts
<1>6. /\ eFileLock' \in [Handle -> Levels] /\ eFileLock'[h] = NO_LOCK
      /\ \A x \in Handle \ {h} : eFileLock'[x] = eFileLock[x]
  BY <1>1, <1>2 DEF TypeOK
<1>7. faults' \in 0 .. MaxFaults /\ (faults' = 0 => faults = 0 /\ ok)
  BY <1>1, <1>3, FaultAssumption DEF TypeOK
<1>8. /\ posix' \in [Proc -> [Bytes -> PosixLocks]]
      /\ \A q \in Proc \ {p} : posix'[q] = posix[q]
      /\ posix'[p] = posix[p] \/ (n = 1 /\ posix'[p] = Unlocked)
      /\ n = 1 /\ ok => posix'[p] = Unlocked
  <2>1. posix \in [Proc -> [Bytes -> PosixLocks]] /\ Unlocked \in [Bytes -> PosixLocks]
    BY <1>1 DEF TypeOK, Unlocked, PosixLocks
  <2>2. CASE n = 1 /\ posix' = [posix EXCEPT ![p] = Unlocked]
    BY <2>1, <2>2
  <2>3. CASE (n = 1 => ~ok) /\ posix' = posix
    BY <2>1, <2>3
  <2>4. QED
    BY <1>3, <2>2, <2>3
<1>9. \A b \in Bytes : posix'[p][b] = posix[p][b] \/ posix'[p][b] = "none"
  BY <1>8 DEF Unlocked
<1>10. TypeOK' /\ Compatible'
  <2>1. opened' \subseteq Handle
    BY <1>1, <1>2 DEF TypeOK
  <2>2. TypeOK'
    BY <2>1, <1>4, <1>5, <1>6, <1>7, <1>8 DEF TypeOK, Calls, Nodes
  <2>3. ASSUME NEW q \in Proc, NEW r \in Proc, NEW b \in Bytes, q # r, posix'[q][b] = "write"
        PROVE  posix'[r][b] = "none"
    <3>1. posix[q][b] = "write" /\ (posix'[r][b] = posix[r][b] \/ posix'[r][b] = "none")
      BY <1>8, <1>9, <2>3
    <3>2. posix[r][b] = "none"
      BY <1>1, <2>3, <3>1 DEF Compatible
    <3>3. QED
      BY <3>1, <3>2
  <2>4. QED
    BY <2>2, <2>3 DEF Compatible
<1>11. OnlyIn(p)
  BY <1>1, <1>2, <1>4, <1>5, <1>6, <1>7, <1>8, <1>9 DEF OnlyIn
<1>12. Cardinality(Holders(p)') + 1 = Cardinality(Holders(p)) /\ Cardinality(Holders(p)') \in Nat
  <2>1. Holders(p)' = Holding(eFileLock', p)
    BY DEF Holders, Holding
  <2>2. Cardinality(Holding(eFileLock, p)) = Cardinality(Holding(eFileLock', p)) + 1
    BY <1>1, <1>6, HoldingOne
  <2>3. QED
    BY <2>1, <2>2, HoldingFinite DEF Holders
<1>13. eFileLock[h] = EXCLUSIVE_LOCK => n = 1
  BY <1>1 DEF ProcInv, HandleInv, Node
<1>14. NodeInv(p)'
  BY <1>1, <1>2, <1>4, <1>8, <1>12, <1>13 DEF NodeInv
<1>15. CallInv(p)'
  BY <1>1, <1>2, <1>5 DEF CallInv
<1>16. OneAbove(p)'
  BY <1>1, <1>6 DEF ProcInv, OneAbove
<1>17. ASSUME NEW x \in HandlesOf(p) PROVE HandleInv(x)'
  <2>1. HandleInv(x) /\ ~Leaves(x)' /\ ProcOf[x] = p /\ eFileLock[x] \in Levels
    BY <1>1, <1>5 DEF ProcInv, Leaves, Idle, TypeOK
  <2>2. CASE x = h
    BY <1>5, <1>6, <2>1, <2>2 DEF HandleInv
  <2>3. CASE x # h /\ eFileLock[x] = NO_LOCK
    BY <1>2, <1>5, <1>6, <2>1, <2>3 DEF HandleInv
  <2>4. CASE x # h /\ eFileLock[x] # NO_LOCK
    <3>1. n # 1 /\ posix'[p] = posix[p] /\ inode'[p].eFileLock = inode[p].eFileLock
      BY <1>2, <1>4, <1>8, <2>4
    <3>2. eFileLock[x] # EXCLUSIVE_LOCK /\ ~Leaves(x)
      BY <1>1, <2>1, <2>4, <3>1 DEF HandleInv, Node
    <3>3. eFileLock'[x] = eFileLock[x] /\ eLock'[x] = eLock[x]
      BY <1>5, <1>6, <2>4
    <3>4. QED
      BY <1>2, <2>1, <3>1, <3>2, <3>3 DEF HandleInv, Node
  <2>5. QED
    BY <2>2, <2>3, <2>4
<1>18. ASSUME faults' = 0 PROVE CountInv(p)'
  <2>1. CountInv(p) /\ (n = 1 => posix'[p] = Unlocked)
    BY <1>1, <1>7, <1>8, <1>18 DEF ProcInv
  <2>2. Cardinality(Holders(p)') = inode'[p].nShared
    BY <1>2, <1>4, <1>12, <2>1 DEF CountInv
  <2>3. ASSUME inode'[p].nShared = 0
        PROVE  /\ posix'[p]["reserved"] = "none" /\ posix'[p]["pending"] = "none"
               /\ posix'[p]["shared"] = "none"
    BY <1>2, <1>4, <2>1, <2>3 DEF Unlocked
  <2>4. at'[p].pc = "close" => eFileLock'[at'[p].h] = NO_LOCK
    BY <1>5, <1>6 DEF Idle
  <2>5. QED
    BY <2>2, <2>3, <2>4 DEF CountInv
<1>19. ASSUME NEW x \in HandlesOf(p), faults' = 0 PROVE BeliefInv(x)'
  <2>1. BeliefInv(x) /\ ok /\ ProcOf[x] = p
    BY <1>1, <1>7, <1>19 DEF ProcInv
  <2>2. CASE x = h
    BY <1>5, <1>6, <2>1, <2>2 DEF BeliefInv
  <2>3. CASE x # h
    <3>1. ~Leaves(x) /\ ~Leaves(x)'
      BY <1>1, <1>5, <2>1, <2>3 DEF Leaves, Idle
    <3>2. eFileLock[x] # NO_LOCK => posix'[p] = posix[p]
      BY <1>2, <1>8, <2>3
    <3>3. QED
      BY <1>1, <1>5, <1>6, <2>1, <2>3, <3>1, <3>2 DEF BeliefInv
  <2>4. QED
    BY <2>2, <2>3
<1>20. QED
  BY <1>1, <1>10, <1>11, <1>14, <1>15, <1>16, <1>17, <1>18, <1>19, Frame DEF ProcInv

\* The descriptor of a handle is closed, or kept while its process has locks.
LEMMA CloseFdStep ==
    ASSUME IInv, NEW p \in Proc, CloseFd(p)
    PROVE  IInv'
<1> DEFINE h == at[p].h
<1>1. /\ at[p] \in Calls /\ h \in HandlesOf(p) /\ h \in opened
      /\ ProcInv(p) /\ CallInv(p) /\ NodeInv(p) /\ TypeOK /\ Compatible
      /\ at[p].pc = "close" /\ at[p] # Idle
      /\ \A x \in HandlesOf(p) : ~Leaves(x)
  BY InCallFacts DEF CloseFd, ProcInv
<1>2. /\ opened' = opened \ {h} /\ faults' = faults
      /\ \A x \in Handle \ {h} :
             eFileLock'[x] = eFileLock[x] /\ eLock'[x] = eLock[x] /\ (x \in opened' <=> x \in opened)
      /\ eFileLock'[h] = NO_LOCK /\ eLock'[h] = NO_LOCK
      /\ eFileLock' \in [Handle -> Levels] /\ eLock' \in [Handle -> Levels \cup {UNKNOWN_LOCK}]
  BY <1>1 DEF CloseFd, TypeOK
<1>3. /\ at'[p] = Idle /\ \A q \in Proc \ {p} : at'[q] = at[q]
      /\ at' \in [Proc -> {Idle} \cup Calls]
  BY <1>1 DEF CloseFd, TypeOK, Calls
<1>4. /\ inode[p] \in Nodes /\ inode \in [Proc -> Nodes] /\ NoInode \in Nodes
      /\ posix \in [Proc -> [Bytes -> PosixLocks]] /\ Unlocked \in [Bytes -> PosixLocks]
  BY <1>1 DEF TypeOK, Nodes, NoInode, Unlocked, PosixLocks
<1>5. \A x \in HandlesOf(p) : ~Leaves(x)' /\ ProcOf[x] = p
  BY <1>3 DEF Leaves, Idle
<1>6. OneAbove(p)' /\ CallInv(p)'
  BY <1>1, <1>2, <1>3 DEF ProcInv, OneAbove, CallInv
<1>7. Holders(p)' = Holding(eFileLock', p) /\ Holders(p) = Holding(eFileLock, p)
  BY DEF Holders, Holding
\* Nobody in the process has a level any more.
<1>8. CASE /\ \A x \in HandlesOf(p) : eFileLock'[x] = NO_LOCK
           /\ posix' = [posix EXCEPT ![p] = Unlocked]
           /\ inode' = [inode EXCEPT ![p] = NoInode]
  <2>1. /\ posix'[p] = Unlocked /\ inode'[p] = NoInode
        /\ \A q \in Proc \ {p} : posix'[q] = posix[q] /\ inode'[q] = inode[q]
        /\ posix' \in [Proc -> [Bytes -> PosixLocks]] /\ inode' \in [Proc -> Nodes]
    BY <1>4, <1>8
  <2>2. /\ inode'[p].nShared = 0 /\ inode'[p].nLock = 0 /\ inode'[p].nUnused = 0
        /\ inode'[p].eFileLock = NO_LOCK
        /\ \A b \in Bytes : posix'[p][b] = "none"
    BY <2>1 DEF NoInode, Unlocked
  <2>3. TypeOK' /\ Compatible'
    <3>1. TypeOK'
      BY <1>1, <1>2, <1>3, <2>1 DEF TypeOK, Calls, Nodes
    <3>2. Compatible'
      BY <1>1, <2>1, <2>2 DEF Compatible
    <3>3. QED
      BY <3>1, <3>2
  <2>4. OnlyIn(p)
    BY <1>1, <1>2, <1>3, <2>1, <2>2 DEF OnlyIn
  <2>5. Cardinality(Holders(p)') = 0
    <3>1. Holding(eFileLock', p) = {}
      BY <1>8 DEF Holding
    <3>2. QED
      BY <1>7, <3>1, FS_EmptySet
  <2>6. NodeInv(p)'
    BY <2>2, <2>5 DEF NodeInv
  <2>7. ASSUME NEW x \in HandlesOf(p) PROVE HandleInv(x)'
    <3>1. HandleInv(x) /\ eFileLock'[x] = NO_LOCK
      BY <1>1, <1>8 DEF ProcInv
    <3>2. eLock'[x] # UNKNOWN_LOCK => eLock'[x] <= eFileLock'[x]
      BY <1>2, <3>1 DEF HandleInv
    <3>3. QED
      BY <3>1, <3>2 DEF HandleInv
  <2>8. CountInv(p)'
    BY <1>3, <2>2, <2>5 DEF CountInv, Idle
  <2>9. ASSUME NEW x \in HandlesOf(p), faults' = 0 PROVE BeliefInv(x)'
    <3>1. BeliefInv(x) /\ eFileLock'[x] = NO_LOCK
      BY <1>1, <1>2, <1>8, <2>9 DEF ProcInv
    <3>2. CASE x = h
      BY <1>2, <3>2 DEF BeliefInv
    <3>3. CASE x # h
      BY <1>1, <1>2, <1>5, <3>1, <3>3 DEF BeliefInv
    <3>4. QED
      BY <3>2, <3>3
  <2>10. QED
    BY <1>1, <1>6, <2>3, <2>4, <2>6, <2>7, <2>8, <2>9, Frame DEF ProcInv
\* Somebody has: the descriptor waits for the last of them.
<1>9. CASE /\ inode[p].nLock > 0 /\ posix' = posix
           /\ inode' = [inode EXCEPT ![p] = [inode[p] EXCEPT !.nUnused = @ + 1]]
  <2>1. /\ inode'[p] = [inode[p] EXCEPT !.nUnused = @ + 1]
        /\ \A q \in Proc \ {p} : inode'[q] = inode[q]
        /\ inode' \in [Proc -> Nodes]
    <3>1. [inode[p] EXCEPT !.nUnused = @ + 1] \in Nodes
      BY <1>4 DEF Nodes
    <3>2. QED
      BY <1>4, <1>9, <3>1
  <2>2. /\ inode'[p].nShared = inode[p].nShared /\ inode'[p].nLock = inode[p].nLock
        /\ inode'[p].eFileLock = inode[p].eFileLock
        /\ inode[p].nShared \in Nat /\ inode[p].nShared > 0
    BY <1>1, <1>4, <1>9, <2>1 DEF Nodes, NodeInv
  <2>3. TypeOK' /\ Compatible'
    BY <1>1, <1>2, <1>3, <1>9, <2>1 DEF TypeOK, Compatible, Calls, Nodes
  <2>4. OnlyIn(p)
    BY <1>1, <1>2, <1>3, <1>9, <2>1 DEF OnlyIn
  <2>5. /\ Cardinality(Holders(p)') <= inode[p].nShared
        /\ faults = 0 => Cardinality(Holders(p)') = inode[p].nShared
    <3>1. CASE eFileLock[h] = NO_LOCK
      <4>1. \A x \in HandlesOf(p) : eFileLock[x] = NO_LOCK <=> eFileLock'[x] = NO_LOCK
        BY <1>2, <3>1
      <4>2. Holding(eFileLock', p) = Holding(eFileLock, p)
        BY <4>1, HoldingSame
      <4>3. QED
        BY <1>1, <1>7, <4>2 DEF ProcInv, NodeInv, CountInv
    <3>2. CASE eFileLock[h] # NO_LOCK
      <4>1. Cardinality(Holding(eFileLock, p)) = Cardinality(Holding(eFileLock', p)) + 1
        BY <1>1, <1>2, <3>2, HoldingOne
      <4>2. faults # 0
        BY <1>1, <3>2 DEF ProcInv, CountInv
      <4>3. Cardinality(Holding(eFileLock', p)) \in Nat /\ Cardinality(Holding(eFileLock, p)) \in Nat
        BY HoldingFinite
      <4>4. QED
        BY <1>1, <1>7, <2>2, <4>1, <4>2, <4>3 DEF NodeInv
    <3>3. QED
      BY <3>1, <3>2
  <2>6. NodeInv(p)'
    <3>1. posix[p]["shared"] = "write" => inode[p].eFileLock = EXCLUSIVE_LOCK
      BY <1>1, <2>2 DEF NodeInv
    <3>2. QED
      BY <1>1, <1>9, <2>2, <2>5, <3>1 DEF NodeInv
  <2>7. ASSUME NEW x \in HandlesOf(p) PROVE HandleInv(x)'
    <3>1. HandleInv(x) /\ ~Leaves(x) /\ ~Leaves(x)' /\ ProcOf[x] = p
      BY <1>1, <1>5 DEF ProcInv
    <3>2. CASE x = h
      BY <1>2, <3>2 DEF HandleInv
    <3>3. CASE x # h
      <4>1. eFileLock'[x] = eFileLock[x] /\ eLock'[x] = eLock[x] /\ (x \in opened' <=> x \in opened)
        BY <1>2, <3>3
      <4>2. QED
        BY <1>9, <2>2, <3>1, <4>1 DEF HandleInv, Node
    <3>4. QED
      BY <3>2, <3>3
  <2>8. faults' = 0 => CountInv(p)'
    BY <1>2, <1>3, <2>2, <2>5 DEF CountInv, Idle
  <2>9. ASSUME NEW x \in HandlesOf(p), faults' = 0 PROVE BeliefInv(x)'
    <3>1. BeliefInv(x) /\ ~Leaves(x) /\ ~Leaves(x)' /\ ProcOf[x] = p
      BY <1>1, <1>2, <1>5, <2>9 DEF ProcInv
    <3>2. CASE x = h
      BY <1>2, <3>2 DEF BeliefInv
    <3>3. CASE x # h
      <4>1. eFileLock'[x] = eFileLock[x] /\ eLock'[x] = eLock[x]
        BY <1>2, <3>3
      <4>2. QED
        BY <1>1, <1>9, <3>1, <4>1 DEF BeliefInv
    <3>4. QED
      BY <3>2, <3>3
  <2>10. QED
    BY <1>1, <1>2, <1>6, <2>3, <2>4, <2>6, <2>7, <2>8, <2>9, Frame DEF ProcInv
<1>10. QED
  <2>1. CASE Last(p)
    <3>1. ASSUME NEW x \in HandlesOf(p) PROVE eFileLock'[x] = NO_LOCK
      <4>1. CASE x = h
        BY <1>2, <4>1
      <4>2. CASE x # h
        BY <1>1, <1>2, <2>1, <4>2 DEF Last, ProcInv, HandleInv
      <4>3. QED
        BY <4>1, <4>2
    <3>2. QED
      BY <1>8, <2>1, <3>1 DEF CloseFd
  <2>2. CASE ~Last(p) /\ inode[p].nLock > 0
    <3>1. /\ posix' = posix
          /\ inode' = [inode EXCEPT ![p] = [inode[p] EXCEPT !.nUnused = @ + 1]]
      BY <2>2 DEF CloseFd
    <3>2. QED
      BY <1>9, <2>2, <3>1
  <2>3. CASE ~Last(p) /\ ~(inode[p].nLock > 0)
    <3>1. /\ inode[p].nShared = 0 /\ inode[p].nLock = 0 /\ inode[p].nUnused = 0
          /\ inode[p].eFileLock = NO_LOCK
      BY <1>1, <1>4, <2>3 DEF NodeInv, Nodes
    <3>2. inode[p] = NoInode
      BY <1>4, <3>1 DEF NoInode, Nodes
    <3>3. inode' = [inode EXCEPT ![p] = NoInode]
      BY <2>3, <3>2 DEF CloseFd
    <3>4. \A x \in HandlesOf(p) : eFileLock'[x] = NO_LOCK
      BY <1>2, <3>1, NobodyYet
    <3>5. QED
      BY <1>8, <2>3, <3>3, <3>4 DEF CloseFd
  <2>4. QED
    BY <2>1, <2>2, <2>3

-----------------------------------------------------------------------------
(***************************************************************************)
(* The invariant.                                                          *)
(***************************************************************************)
LEMMA InitIInv == Init => IInv
<1> SUFFICES ASSUME Init PROVE IInv
  OBVIOUS
<1> USE DEF Init
<1>1. TypeOK
  BY FaultAssumption DEF TypeOK, Unlocked, PosixLocks, NoInode, Idle
<1>2. Compatible
  BY DEF Compatible, Unlocked
<1>3. ASSUME NEW p \in Proc PROVE ProcInv(p)
  <2>1. Cardinality(Holders(p)) = 0
    <3>1. Holders(p) = {}
      BY DEF Holders, Holding
    <3>2. QED
      BY <3>1, FS_EmptySet
  <2>2. NodeInv(p) /\ CountInv(p)
    BY <1>3, <2>1 DEF NodeInv, CountInv, Unlocked, NoInode, Idle
  <2>3. CallInv(p) /\ OneAbove(p)
    BY <1>3 DEF CallInv, OneAbove
  <2>4. \A h \in HandlesOf(p) : HandleInv(h) /\ BeliefInv(h)
    BY DEF HandleInv, BeliefInv
  <2>5. QED
    BY <2>2, <2>3, <2>4 DEF ProcInv
<1>4. QED
  BY <1>1, <1>2, <1>3 DEF IInv

LEMMA NextIInv ==
    ASSUME IInv, [Next]_vars
    PROVE  IInv'
<1>1. CASE UNCHANGED vars
  <2>1. UNCHANGED <<opened, eFileLock, eLock, inode, posix, at, faults>>
    BY <1>1 DEF vars
  <2>2. TypeOK' /\ Compatible'
    BY <2>1 DEF IInv, TypeOK, Compatible
  <2>3. ASSUME NEW p \in Proc PROVE ProcInv(p)'
    <3>1. ProcInv(p) /\ Holders(p)' = Holders(p)
      BY <2>1 DEF IInv, Holders, Holding
    <3>2. \A h \in HandlesOf(p) : HandleInv(h)'
      BY <2>1, <3>1 DEF ProcInv, HandleInv, Node, Leaves
    <3>3. NodeInv(p)' /\ CallInv(p)' /\ OneAbove(p)'
      BY <2>1, <3>1 DEF ProcInv, NodeInv, CallInv, OneAbove
    <3>4. faults' = 0 => CountInv(p)' /\ \A h \in HandlesOf(p) : BeliefInv(h)'
      BY <2>1, <3>1 DEF ProcInv, CountInv, BeliefInv, Leaves
    <3>5. QED
      BY <3>2, <3>3, <3>4 DEF ProcInv
  <2>4. QED
    BY <2>2, <2>3 DEF IInv
<1>2. ASSUME NEW p \in Proc, Continue(p) PROVE IInv'
  BY <1>2, SharedRangeStep, DropPendingStep, ExclusiveRangeStep, ReadLockStep,
     DropWriteStep, LeaveStep, CloseFdStep DEF Continue
<1>3. ASSUME NEW h \in Handle, Open(h) PROVE IInv'
  BY <1>3, OpenStep
<1>4. ASSUME NEW h \in Handle, Close(h) PROVE IInv'
  BY <1>4, EnterStep
<1>5. ASSUME NEW h \in Handle, NEW want \in {SHARED_LOCK, RESERVED_LOCK, EXCLUSIVE_LOCK},
             Lock(h, want)
      PROVE  IInv'
  <2>1. want \in Levels
    OBVIOUS
  <2>2. CASE LockHeld(h, want)
    BY <2>1, <2>2, HeldStep
  <2>3. CASE LockPendingByte(h, want)
    BY <2>3, PendingByteStep
  <2>4. CASE want = SHARED_LOCK /\ LockJoin(h)
    BY <2>4, JoinStep
  <2>5. CASE want = RESERVED_LOCK /\ LockReserved(h)
    BY <2>5, ReservedStep
  <2>6. CASE want = EXCLUSIVE_LOCK /\ LockFromPending(h)
    BY <2>1, <2>6, EnterStep
  <2>7. QED
    BY <1>5, <2>2, <2>3, <2>4, <2>5, <2>6 DEF Lock
<1>6. ASSUME NEW h \in Handle, NEW want \in {NO_LOCK, SHARED_LOCK},
             Unlock(h, want) \/ UnlockHeld(h, want)
      PROVE  IInv'
  <2>1. want \in Levels
    OBVIOUS
  <2>2. QED
    BY <1>6, <2>1, EnterStep, HeldStep
<1>7. QED
  BY <1>1, <1>2, <1>3, <1>4, <1>5, <1>6 DEF Next

\* The invariant the properties follow from, for any number of processes and handles,
\* any distribution of the handles over the processes, and any number of failed calls.
THEOREM Invariance == Spec => []IInv
<1>1. IInv /\ [Next]_vars => IInv'
  BY NextIInv
<1>2. QED
  BY InitIInv, <1>1, PTL DEF Spec

-----------------------------------------------------------------------------
(***************************************************************************)
(* What a process knows of its locks is right.                             *)
(***************************************************************************)
LEMMA BackedHolds == IInv => Backed
<1> SUFFICES ASSUME IInv, NEW h \in opened
             PROVE  /\ eFileLock[h] >= SHARED_LOCK => posix[ProcOf[h]]["shared"] # "none"
                    /\ Free(ProcOf[h]) =>
                           /\ eFileLock[h] = RESERVED_LOCK => posix[ProcOf[h]]["reserved"] = "write"
                           /\ eFileLock[h] >= PENDING_LOCK => posix[ProcOf[h]]["pending"] = "write"
  BY DEF Backed
<1>1. h \in Handle /\ ProcOf[h] \in Proc /\ HandleInv(h) /\ eFileLock[h] \in Levels
  BY ProcAssumption DEF IInv, TypeOK, ProcInv
<1>2. Free(ProcOf[h]) => ~Leaves(h)
  BY DEF Free, Leaves, Idle
<1>3. QED
  BY <1>1, <1>2, HolderFacts DEF HandleInv

LEMMA CountsRightHolds == IInv => CountsRight
<1> SUFFICES ASSUME IInv, faults = 0, NEW p \in Proc, Free(p)
             PROVE  LET holders == {h \in opened : ProcOf[h] = p /\ eFileLock[h] # NO_LOCK}
                    IN  /\ inode[p].nShared = Cardinality(holders)
                        /\ inode[p].nLock = Cardinality(holders)
                        /\ holders = {} => posix[p] = Unlocked /\ inode[p].nUnused = 0
  BY DEF CountsRight
<1>1. /\ ProcInv(p) /\ NodeInv(p) /\ CountInv(p) /\ at[p].pc = "idle"
      /\ posix[p] \in [Bytes -> PosixLocks]
  BY DEF IInv, TypeOK, ProcInv, Free, Idle
<1>2. {h \in opened : ProcOf[h] = p /\ eFileLock[h] # NO_LOCK} = Holders(p)
  BY <1>1 DEF Holders, Holding, ProcInv, HandleInv, IInv, TypeOK
<1>3. inode[p].nShared = Cardinality(Holders(p)) /\ inode[p].nLock = Cardinality(Holders(p))
  BY <1>1 DEF CountInv, NodeInv
<1>4. ASSUME Holders(p) = {} PROVE posix[p] = Unlocked /\ inode[p].nUnused = 0
  <2>1. inode[p].nShared = 0
    BY <1>3, <1>4, FS_EmptySet
  <2>2. \A b \in Bytes : posix[p][b] = "none"
    BY <1>1, <2>1 DEF CountInv
  <2>3. QED
    BY <1>1, <2>1, <2>2 DEF NodeInv, Unlocked
<1>5. QED
  BY <1>2, <1>3, <1>4

LEMMA AssertsHoldHolds == IInv => AssertsHold
<1> SUFFICES ASSUME IInv PROVE AssertsHold
  OBVIOUS
<1>1. ASSUME NEW h \in Handle, NEW want \in {SHARED_LOCK, RESERVED_LOCK, EXCLUSIVE_LOCK},
             Proceeds(h, want)
      PROVE  /\ eFileLock[h] = NO_LOCK => want = SHARED_LOCK
             /\ want = SHARED_LOCK =>
                    IF Node(h).eFileLock \in {SHARED_LOCK, RESERVED_LOCK}
                    THEN Node(h).nShared > 0
                    ELSE Node(h).nShared = 0 /\ Node(h).eFileLock = NO_LOCK
             /\ want = RESERVED_LOCK => eFileLock[h] = SHARED_LOCK
  <2>1. /\ Asks(h, want) /\ eFileLock[h] < want /\ ~Precluded(h, want)
        /\ ProcOf[h] \in Proc /\ HandleInv(h) /\ NodeInv(ProcOf[h])
        /\ eFileLock[h] \in Levels /\ eLock[h] \in Levels \cup {UNKNOWN_LOCK}
        /\ Node(h).nShared \in Nat /\ Node(h).eFileLock \in Levels
    BY <1>1, ReadyFacts DEF Proceeds, Asks, IInv, TypeOK, ProcInv, Node
  <2>2. want # SHARED_LOCK => eFileLock[h] >= SHARED_LOCK
    BY <2>1 DEF Asks, HandleInv
  <2>3. want = SHARED_LOCK => Node(h).eFileLock < PENDING_LOCK
    BY <2>1 DEF Precluded
  <2>4. Node(h).eFileLock = NO_LOCK <=> Node(h).nShared = 0
    BY <2>1 DEF NodeInv, Node
  <2>5. QED
    BY <2>1, <2>2, <2>3, <2>4
<1>2. ASSUME NEW h \in opened, eFileLock[h] > NO_LOCK, Free(ProcOf[h])
      PROVE  /\ Node(h).nShared > 0 /\ Node(h).nLock > 0
             /\ eFileLock[h] > SHARED_LOCK => Node(h).eFileLock = eFileLock[h]
  <2>1. h \in Handle /\ ProcOf[h] \in Proc /\ HandleInv(h) /\ NodeInv(ProcOf[h]) /\ ~Leaves(h)
    BY <1>2, ProcAssumption DEF IInv, TypeOK, ProcInv, Free, Leaves, Idle
  <2>2. Node(h).nShared > 0
    BY <1>2, <2>1, HolderFacts
  <2>3. QED
    BY <2>1, <2>2 DEF HandleInv, NodeInv, Node
<1>3. ASSUME NEW p \in Proc, at[p].pc = "readLock" PROVE ~Conflict(p, "shared", "read")
  <2>1. at[p].h \in Handle /\ ProcOf[at[p].h] = p /\ eFileLock[at[p].h] > SHARED_LOCK
    BY <1>3, InCallFacts DEF CallInv
  <2>2. posix[p]["shared"] # "none"
    BY <2>1, HolderFacts
  <2>3. QED
    BY <2>2 DEF Conflict, IInv, Compatible
<1>4. QED
  BY <1>1, <1>2, <1>3 DEF AssertsHold

\* Whatever the calls of any number of processes and handles do between each other, and
\* however many fail: every level rests on POSIX locks, the counters of unixInodeInfo
\* are right, and no assert of unixLock and posixUnlock fails.
THEOREM LocksAreRight == Spec => []LocksRight
<1>1. IInv => LocksRight
  BY BackedHolds, CountsRightHolds, AssertsHoldHolds DEF IInv, LocksRight
<1>2. QED
  BY Invariance, <1>1, PTL

-----------------------------------------------------------------------------
(***************************************************************************)
(* One handle writes.                                                      *)
(***************************************************************************)
\* Two handles that rest on locks of one byte, one of them a write lock, are of the
\* same process.
LEMMA SameProcess ==
    ASSUME IInv, NEW g \in Handle, NEW h \in Handle, NEW b \in Bytes,
           posix[ProcOf[h]][b] = "write", posix[ProcOf[g]][b] # "none"
    PROVE  ProcOf[g] = ProcOf[h]
BY ProcAssumption DEF IInv, Compatible

LEMMA OneBelievesHolds == IInv => OneBelievesToWrite
<1> SUFFICES ASSUME IInv, faults = 0
             PROVE  /\ \A h \in Handle : eLock[h] # UNKNOWN_LOCK => eLock[h] <= eFileLock[h]
                    /\ \A g, h \in Handle : MayWrite(g) /\ MayWrite(h) => g = h
  BY DEF OneBelievesToWrite
<1>1. ASSUME NEW h \in Handle
      PROVE  /\ ProcOf[h] \in Proc /\ h \in HandlesOf(ProcOf[h])
             /\ HandleInv(h) /\ BeliefInv(h) /\ OneAbove(ProcOf[h])
             /\ eFileLock[h] \in Levels
  BY ProcAssumption DEF IInv, ProcInv, TypeOK
<1>2. ASSUME NEW h \in Handle, MayWrite(h)
      PROVE  /\ eFileLock[h] > SHARED_LOCK
             /\ \/ eLock[h] = RESERVED_LOCK /\ posix[ProcOf[h]]["reserved"] = "write"
                \/ eFileLock[h] = EXCLUSIVE_LOCK
                   /\ \/ posix[ProcOf[h]]["shared"] = "write"
                      \/ \A q \in Proc \ {ProcOf[h]} : posix[q]["shared"] = "none"
  <2>1. /\ at[ProcOf[h]] = Idle /\ ~Leaves(h)
        /\ eLock[h] \in {RESERVED_LOCK, EXCLUSIVE_LOCK}
    BY <1>1, <1>2 DEF MayWrite, Free, Leaves, Idle, BeliefInv
  <2>2. eFileLock[h] = eLock[h] \/ (eFileLock[h] = PENDING_LOCK /\ eLock[h] = RESERVED_LOCK)
    BY <1>1, <2>1 DEF BeliefInv, Idle
  <2>3. QED
    BY <1>1, <2>1, <2>2 DEF BeliefInv, HandleInv
<1>3. ASSUME NEW g \in Handle, NEW h \in Handle, MayWrite(g), MayWrite(h),
             eFileLock[h] = EXCLUSIVE_LOCK
      PROVE  ProcOf[g] = ProcOf[h]
  <2>1. posix[ProcOf[g]]["shared"] # "none"
    BY <1>2, <1>3, HolderFacts
  <2>2. \/ posix[ProcOf[h]]["shared"] = "write"
        \/ \A q \in Proc \ {ProcOf[h]} : posix[q]["shared"] = "none"
    <3>1. at[ProcOf[h]] = Idle /\ ~Leaves(h)
      BY <1>3 DEF MayWrite, Free, Leaves, Idle
    <3>2. QED
      BY <1>1, <1>3, <3>1 DEF HandleInv
  <2>3. QED
    BY <1>1, <2>1, <2>2, SameProcess
<1>4. ASSUME NEW g \in Handle, NEW h \in Handle, MayWrite(g), MayWrite(h) PROVE g = h
  <2>1. ProcOf[g] = ProcOf[h]
    <3>1. CASE eFileLock[h] = EXCLUSIVE_LOCK \/ eFileLock[g] = EXCLUSIVE_LOCK
      BY <1>3, <1>4, <3>1
    <3>2. CASE posix[ProcOf[h]]["reserved"] = "write" /\ posix[ProcOf[g]]["reserved"] = "write"
      BY <3>2, SameProcess
    <3>3. QED
      BY <1>2, <1>4, <3>1, <3>2
  <2>2. QED
    BY <1>1, <1>2, <1>4, <2>1 DEF OneAbove
<1>5. QED
  BY <1>1, <1>4 DEF HandleInv

LEMMA ReservedIsSeenHolds == IInv => ReservedIsSeen
<1> SUFFICES ASSUME IInv, NEW g \in opened, NEW h \in opened, g # h,
                    eFileLock[h] = RESERVED_LOCK, Free(ProcOf[h])
             PROVE  CheckReservedLock(g)
  BY DEF ReservedIsSeen
<1>1. /\ g \in Handle /\ h \in Handle /\ ProcOf[h] \in Proc /\ HandleInv(h) /\ ~Leaves(h)
  BY ProcAssumption DEF IInv, TypeOK, ProcInv, Free, Leaves, Idle
<1>2. Node(h).eFileLock = RESERVED_LOCK /\ posix[ProcOf[h]]["reserved"] = "write"
  BY <1>1 DEF HandleInv
<1>3. CASE ProcOf[g] = ProcOf[h]
  BY <1>2, <1>3 DEF CheckReservedLock, Node
<1>4. CASE ProcOf[g] # ProcOf[h]
  BY <1>1, <1>2, <1>4 DEF CheckReservedLock, Conflict
<1>5. QED
  BY <1>3, <1>4

\* What a level stands for.
LEMMA LevelFacts ==
    ASSUME IInv, NEW h \in Handle
    PROVE  /\ Level[h] = IF Leaves(h) /\ posix[ProcOf[h]]["shared"] # "write"
                         THEN SHARED_LOCK ELSE eFileLock[h]
           /\ Level[h] \in Levels
           /\ Level[h] = NO_LOCK <=> eFileLock[h] = NO_LOCK
           /\ Level[h] > SHARED_LOCK => Level[h] = eFileLock[h]
           /\ Level[h] \in {RESERVED_LOCK, PENDING_LOCK} => ~Leaves(h)
<1>1. /\ ProcOf[h] \in Proc /\ ProcInv(ProcOf[h]) /\ HandleInv(h) /\ NodeInv(ProcOf[h])
      /\ CallInv(ProcOf[h]) /\ eFileLock[h] \in Levels
  BY ProcAssumption DEF IInv, TypeOK, ProcInv
<1>2. Leaving(h) <=> Leaves(h)
  BY DEF Leaving, Leaves, Free, Idle
<1>3. Level[h] = IF Leaves(h) /\ posix[ProcOf[h]]["shared"] # "write"
                 THEN SHARED_LOCK ELSE eFileLock[h]
  BY <1>2 DEF Level
<1>4. Leaves(h) => eFileLock[h] # NO_LOCK
  BY <1>1 DEF CallInv, Leaves, Idle
<1>5. ASSUME Leaves(h), posix[ProcOf[h]]["shared"] = "write"
      PROVE  eFileLock[h] \in {SHARED_LOCK, EXCLUSIVE_LOCK}
  <2>1. eFileLock[h] > SHARED_LOCK => Node(h).eFileLock = SHARED_LOCK
    BY <1>1, <1>5 DEF HandleInv
  <2>2. Node(h).nShared > 0
    BY <1>4, <1>5, HolderFacts
  <2>3. Node(h).eFileLock = EXCLUSIVE_LOCK \/ eFileLock[h] = EXCLUSIVE_LOCK
    BY <1>1, <1>5, <2>2 DEF NodeInv, Node, Leaves
  <2>4. QED
    BY <1>1, <1>4, <1>5, <2>1, <2>3
<1>6. QED
  BY <1>1, <1>3, <1>4, <1>5

LEMMA ExclusionHolds == IInv => Exclusion
<1> SUFFICES ASSUME IInv, NEW g \in Handle, NEW h \in Handle, g # h, Level[h] = EXCLUSIVE_LOCK
             PROVE  eFileLock[g] = NO_LOCK
  BY LevelFacts DEF Exclusion
<1>1. /\ eFileLock[h] = EXCLUSIVE_LOCK
      /\ Leaves(h) => posix[ProcOf[h]]["shared"] = "write"
  BY LevelFacts
<1>2. ProcOf[h] \in Proc /\ ProcOf[g] \in Proc /\ HandleInv(h)
  BY ProcAssumption DEF IInv, ProcInv
<1>3. CASE ProcOf[g] = ProcOf[h]
  BY <1>1, <1>2, <1>3, HolderFacts DEF HandleInv
<1>4. CASE ProcOf[g] # ProcOf[h]
  <2>1. posix[ProcOf[g]]["shared"] = "none"
    BY <1>1, <1>2, <1>4, SameProcess DEF HandleInv
  <2>2. QED
    BY <2>1, HolderFacts
<1>5. QED
  BY <1>3, <1>4

\* One pager at a time may change the file or its journal, a hot journal is told from
\* that of a writer at work, and nobody reads what an EXCLUSIVE handle changes.
THEOREM OneHandleWrites == Spec => []OneWrites
<1>1. IInv => OneWrites
  BY OneBelievesHolds, ReservedIsSeenHolds, ExclusionHolds DEF OneWrites
<1>2. QED
  BY Invariance, <1>1, PTL

-----------------------------------------------------------------------------
(***************************************************************************)
(* The calls implement LockLevels.                                         *)
(***************************************************************************)
\* What the levels have in common with those of LockLevels.
LevelInv ==
    /\ \A h \in Handle :
           /\ Level[h] = IF Leaves(h) /\ posix[ProcOf[h]]["shared"] # "write"
                         THEN SHARED_LOCK ELSE eFileLock[h]
           /\ Level[h] \in Levels
           /\ Level[h] = NO_LOCK <=> eFileLock[h] = NO_LOCK
    /\ \A g, h \in Handle : g # h =>
           /\ ~(Level[g] = RESERVED_LOCK /\ Level[h] = RESERVED_LOCK)
           /\ ~(Level[g] >= PENDING_LOCK /\ Level[h] >= PENDING_LOCK)
           /\ Level[h] = EXCLUSIVE_LOCK => Level[g] = NO_LOCK

LEMMA LevelInvHolds == IInv => LevelInv
<1> SUFFICES ASSUME IInv PROVE LevelInv
  OBVIOUS
<1>1. Exclusion
  BY ExclusionHolds
<1>2. ASSUME NEW g \in Handle, NEW h \in Handle, g # h
      PROVE  /\ ~(Level[g] = RESERVED_LOCK /\ Level[h] = RESERVED_LOCK)
             /\ ~(Level[g] = PENDING_LOCK /\ Level[h] = PENDING_LOCK)
  <2>1. ASSUME NEW x \in {g, h}, Level[x] \in {RESERVED_LOCK, PENDING_LOCK}
        PROVE  /\ eFileLock[x] = Level[x] /\ ProcOf[x] \in Proc /\ x \in HandlesOf(ProcOf[x])
               /\ OneAbove(ProcOf[x])
               /\ Level[x] = RESERVED_LOCK => posix[ProcOf[x]]["reserved"] = "write"
               /\ Level[x] = PENDING_LOCK => posix[ProcOf[x]]["pending"] = "write"
    <3>1. /\ x \in Handle /\ ProcOf[x] \in Proc /\ HandleInv(x) /\ OneAbove(ProcOf[x])
          /\ eFileLock[x] = Level[x] /\ ~Leaves(x)
      BY <2>1, ProcAssumption, LevelFacts DEF IInv, ProcInv
    <3>2. QED
      BY <2>1, <3>1 DEF HandleInv
  <2>2. ASSUME Level[g] = Level[h], Level[g] \in {RESERVED_LOCK, PENDING_LOCK} PROVE FALSE
    <3>1. ProcOf[g] = ProcOf[h]
      BY <2>1, <2>2, SameProcess
    <3>2. QED
      BY <1>2, <2>1, <2>2, <3>1 DEF OneAbove
  <2>3. QED
    BY <2>2
<1>3. \A h \in Handle : Level[h] \in Levels
  BY LevelFacts
<1>4. QED
  BY <1>1, <1>2, <1>3, LevelFacts DEF LevelInv, Exclusion

LEMMA LevelInvNext == IInv' => LevelInv'
BY LevelInvHolds, PTL

\* A step of a call of one handle, as far as the levels go.
Touches(h) ==
    LET p == ProcOf[h] IN
    /\ \A q \in Proc \ {p} : at'[q] = at[q] /\ posix'[q] = posix[q]
    /\ \A x \in Handle \ {h} : eFileLock'[x] = eFileLock[x]
    /\ at[p].pc = "leave" => at[p].h = h
    /\ at'[p].pc = "leave" => at'[p].h = h

LEMMA OthersStay ==
    ASSUME LevelInv, LevelInv', NEW h \in Handle, Touches(h)
    PROVE  \A x \in Handle \ {h} : Level'[x] = Level[x]
<1> SUFFICES ASSUME NEW x \in Handle \ {h} PROVE Level'[x] = Level[x]
  OBVIOUS
<1>1. /\ Level[x] = IF Leaves(x) /\ posix[ProcOf[x]]["shared"] # "write"
                    THEN SHARED_LOCK ELSE eFileLock[x]
      /\ Level'[x] = IF Leaves(x)' /\ posix'[ProcOf[x]]["shared"] # "write"
                     THEN SHARED_LOCK ELSE eFileLock'[x]
  BY DEF LevelInv
<1>2. eFileLock'[x] = eFileLock[x] /\ ProcOf[x] \in Proc
  BY ProcAssumption DEF Touches
<1>3. CASE ProcOf[x] = ProcOf[h]
  <2>1. ~Leaves(x) /\ ~Leaves(x)'
    BY <1>3 DEF Touches, Leaves
  <2>2. QED
    BY <1>1, <1>2, <2>1
<1>4. CASE ProcOf[x] # ProcOf[h]
  <2>1. Leaves(x) <=> Leaves(x)'
    BY <1>2, <1>4 DEF Touches, Leaves
  <2>2. posix'[ProcOf[x]] = posix[ProcOf[x]]
    BY <1>2, <1>4 DEF Touches
  <2>3. QED
    BY <1>1, <1>2, <2>1, <2>2
<1>5. QED
  BY <1>3, <1>4

\* The steps of LockLevels, by the level before and after.
LEMMA LevelMoves ==
    ASSUME LevelInv, LevelInv', NEW h \in Handle, \A x \in Handle \ {h} : Level'[x] = Level[x],
           \/ Level'[h] = Level[h]
           \/ Level'[h] \in {NO_LOCK, SHARED_LOCK}
           \/ Level[h] = SHARED_LOCK /\ Level'[h] = RESERVED_LOCK
           \/ Level[h] \in {SHARED_LOCK, RESERVED_LOCK} /\ Level'[h] = PENDING_LOCK
           \/ Level[h] \in SHARED_LOCK .. PENDING_LOCK /\ Level'[h] = EXCLUSIVE_LOCK
    PROVE  [LevelsOf!Next]_Level
<1> USE DEF LevelsOf!NO_LOCK, LevelsOf!SHARED_LOCK, LevelsOf!RESERVED_LOCK,
            LevelsOf!PENDING_LOCK, LevelsOf!EXCLUSIVE_LOCK
<1>1. /\ Level = [x \in Handle |-> Level[x]] /\ Level' = [x \in Handle |-> Level'[x]]
      /\ Level[h] \in Levels /\ Level'[h] \in Levels
  BY DEF Level, LevelInv
<1>2. Level' = [Level EXCEPT ![h] = Level'[h]]
  BY <1>1
<1>3. \A l : Level'[h] = l => LevelsOf!Set(h, l)
  BY <1>2 DEF LevelsOf!Set
<1>4. \A g \in Handle \ {h} :
          /\ Level'[g] = Level[g] /\ Level[g] \in Levels
          /\ ~(Level'[g] = RESERVED_LOCK /\ Level'[h] = RESERVED_LOCK)
          /\ ~(Level'[g] >= PENDING_LOCK /\ Level'[h] >= PENDING_LOCK)
          /\ Level'[h] = EXCLUSIVE_LOCK => Level'[g] = NO_LOCK
          /\ Level'[g] = EXCLUSIVE_LOCK => Level'[h] = NO_LOCK
  BY DEF LevelInv
<1>5. /\ Level'[h] # NO_LOCK => EXCLUSIVE_LOCK \notin LevelsOf!Others(h)
      /\ Level'[h] = RESERVED_LOCK => RESERVED_LOCK \notin LevelsOf!Others(h)
      /\ Level'[h] >= PENDING_LOCK => \A l \in LevelsOf!Others(h) : l < PENDING_LOCK
      /\ Level'[h] = EXCLUSIVE_LOCK => \A l \in LevelsOf!Others(h) : l = NO_LOCK
  BY <1>4 DEF LevelsOf!Others
<1>6. CASE Level'[h] = Level[h]
  <2>1. \A x \in Handle : Level'[x] = Level[x]
    BY <1>6
  <2>2. Level' = Level
    BY <1>1, <2>1
  <2>3. QED
    BY <2>2
<1>7. CASE Level[h] = NO_LOCK /\ Level'[h] = SHARED_LOCK
  BY <1>3, <1>5, <1>7 DEF LevelsOf!Next, LevelsOf!Share
<1>8. CASE Level[h] > SHARED_LOCK /\ Level'[h] = SHARED_LOCK
  BY <1>3, <1>8 DEF LevelsOf!Next, LevelsOf!Lower
<1>9. CASE Level[h] > NO_LOCK /\ Level'[h] = NO_LOCK
  BY <1>3, <1>9 DEF LevelsOf!Next, LevelsOf!Lower
<1>10. CASE Level[h] = SHARED_LOCK /\ Level'[h] = RESERVED_LOCK
  BY <1>3, <1>5, <1>10 DEF LevelsOf!Next, LevelsOf!Reserve
<1>11. CASE Level[h] \in {SHARED_LOCK, RESERVED_LOCK} /\ Level'[h] = PENDING_LOCK
  BY <1>3, <1>5, <1>11 DEF LevelsOf!Next, LevelsOf!Pend
<1>12. CASE Level[h] \in SHARED_LOCK .. PENDING_LOCK /\ Level'[h] = EXCLUSIVE_LOCK
  BY <1>3, <1>5, <1>12 DEF LevelsOf!Next, LevelsOf!Exclude
<1>13. QED
  BY <1>1, <1>6, <1>7, <1>8, <1>9, <1>10, <1>11, <1>12

\* The same in terms of the handle's eFileLock: raised, lowered, or left alone.
LEMMA LevelStep ==
    ASSUME IInv, IInv', NEW h \in Handle, Touches(h),
           \/ ~Leaves(h) /\ eFileLock'[h] = eFileLock[h]
           \/ eFileLock'[h] \in {NO_LOCK, SHARED_LOCK}
           \/ /\ ~Leaves(h) /\ ~Leaves(h)'
              /\ \/ eFileLock[h] = SHARED_LOCK /\ eFileLock'[h] = RESERVED_LOCK
                 \/ eFileLock[h] \in SHARED_LOCK .. PENDING_LOCK
                    /\ eFileLock'[h] \in {PENDING_LOCK, EXCLUSIVE_LOCK}
    PROVE  [LevelsOf!Next]_Level
<1>1. LevelInv /\ LevelInv'
  BY LevelInvHolds, LevelInvNext
<1>2. /\ Level[h] = IF Leaves(h) /\ posix[ProcOf[h]]["shared"] # "write"
                    THEN SHARED_LOCK ELSE eFileLock[h]
      /\ Level'[h] = IF Leaves(h)' /\ posix'[ProcOf[h]]["shared"] # "write"
                     THEN SHARED_LOCK ELSE eFileLock'[h]
      /\ Level'[h] = NO_LOCK <=> eFileLock'[h] = NO_LOCK
  BY <1>1 DEF LevelInv
<1>3. \/ Level'[h] = Level[h]
      \/ Level'[h] \in {NO_LOCK, SHARED_LOCK}
      \/ Level[h] = SHARED_LOCK /\ Level'[h] = RESERVED_LOCK
      \/ Level[h] \in {SHARED_LOCK, RESERVED_LOCK} /\ Level'[h] = PENDING_LOCK
      \/ Level[h] \in SHARED_LOCK .. PENDING_LOCK /\ Level'[h] = EXCLUSIVE_LOCK
  BY <1>2
<1>4. QED
  BY <1>1, <1>3, OthersStay, LevelMoves

\* What a step that enters or goes on with a call of h changes elsewhere: nothing.
LEMMA PosixElsewhere ==
    ASSUME TypeOK, NEW p \in Proc,
           \/ \E bytes, type : Granted(p, bytes, type) \/ Refused(p, bytes, type)
           \/ posix' = [posix EXCEPT ![p] = Unlocked] \/ posix' = posix
    PROVE  \A q \in Proc \ {p} : posix'[q] = posix[q]
BY DEF TypeOK, Granted, Refused, Locked

LEMMA IdleTouches ==
    ASSUME IInv, NEW h \in Handle, Free(ProcOf[h]),
           \A q \in Proc \ {ProcOf[h]} : at'[q] = at[q] /\ posix'[q] = posix[q],
           \A x \in Handle \ {h} : eFileLock'[x] = eFileLock[x],
           at'[ProcOf[h]] = Idle \/ at'[ProcOf[h]].h = h
    PROVE  Touches(h) /\ ~Leaves(h)
BY DEF Touches, Free, Idle, Leaves

LEMMA CallTouches ==
    ASSUME IInv, NEW p \in Proc, at[p].pc # "idle",
           \A q \in Proc \ {p} : at'[q] = at[q] /\ posix'[q] = posix[q],
           \A x \in Handle \ {at[p].h} : eFileLock'[x] = eFileLock[x],
           at'[p] = Idle \/ at'[p].h = at[p].h
    PROVE  Touches(at[p].h)
<1>1. at[p].h \in Handle /\ ProcOf[at[p].h] = p
  BY InCallFacts
<1>2. QED
  BY <1>1 DEF Touches, Idle

LEMMA StartLevels ==
    ASSUME IInv, IInv', NEW h \in Handle,
           NEW want \in {NO_LOCK, SHARED_LOCK, RESERVED_LOCK, EXCLUSIVE_LOCK},
           Open(h) \/ Close(h) \/ Lock(h, want) \/ Unlock(h, want) \/ UnlockHeld(h, want)
    PROVE  [LevelsOf!Next]_Level
<1> DEFINE p == ProcOf[h]
<1>1. /\ p \in Proc /\ TypeOK /\ eFileLock \in [Handle -> Levels] /\ HandleInv(h)
      /\ at \in [Proc -> {Idle} \cup Calls]
  BY ProcAssumption DEF IInv, TypeOK, Calls, ProcInv
<1>2. CASE Open(h) \/ LockHeld(h, want) \/ UnlockHeld(h, want)
  <2>1. Free(p) /\ UNCHANGED <<eFileLock, posix, at>>
    BY <1>2 DEF Open, LockHeld, UnlockHeld, Asks, Ready
  <2>2. Touches(h) /\ ~Leaves(h)
    BY <1>1, <2>1, IdleTouches DEF Free
  <2>3. QED
    BY <2>1, <2>2, LevelStep
<1>3. CASE Close(h) \/ Unlock(h, want)
  <2>1. Free(p) /\ UNCHANGED <<eFileLock, posix>>
    BY <1>3 DEF Close, Unlock, Ready
  <2>2. at'[p].h = h /\ \A q \in Proc \ {p} : at'[q] = at[q]
    BY <1>1, <1>3 DEF Close, Unlock, InCall
  <2>3. Touches(h) /\ ~Leaves(h)
    BY <1>1, <2>1, <2>2, IdleTouches
  <2>4. QED
    BY <2>1, <2>3, LevelStep
<1>4. CASE LockJoin(h)
  <2>1. Free(p) /\ UNCHANGED <<posix, at>> /\ eFileLock' = [eFileLock EXCEPT ![h] = SHARED_LOCK]
    BY <1>4 DEF LockJoin, Proceeds, Asks, Ready
  <2>2. Touches(h)
    BY <1>1, <2>1, IdleTouches DEF Free
  <2>3. QED
    BY <1>1, <2>1, <2>2, LevelStep
<1>5. CASE LockPendingByte(h, want)
  <2>1. Free(p) /\ UNCHANGED eFileLock
    BY <1>5 DEF LockPendingByte, Proceeds, Asks, Ready
  <2>2. \A q \in Proc \ {p} : posix'[q] = posix[q]
    BY <1>1, <1>5, PosixElsewhere DEF LockPendingByte
  <2>3. (at'[p] = Idle \/ at'[p].h = h) /\ \A q \in Proc \ {p} : at'[q] = at[q]
    BY <1>1, <1>5, <2>1 DEF LockPendingByte, InCall, GivesUp, Free
  <2>4. Touches(h) /\ ~Leaves(h)
    BY <1>1, <2>1, <2>2, <2>3, IdleTouches
  <2>5. QED
    BY <2>1, <2>4, LevelStep
<1>6. CASE LockFromPending(h)
  <2>1. Free(p) /\ UNCHANGED <<eFileLock, posix>>
    BY <1>6 DEF LockFromPending, Proceeds, Asks, Ready
  <2>2. at'[p].h = h /\ \A q \in Proc \ {p} : at'[q] = at[q]
    BY <1>1, <1>6 DEF LockFromPending, InCall
  <2>3. Touches(h) /\ ~Leaves(h)
    BY <1>1, <2>1, <2>2, IdleTouches
  <2>4. QED
    BY <2>1, <2>3, LevelStep
<1>7. CASE LockReserved(h)
  <2>1. Free(p) /\ UNCHANGED at
    BY <1>7 DEF LockReserved, Proceeds, Asks, Ready
  <2>2. eFileLock[h] = SHARED_LOCK
    BY <1>1, <1>7 DEF LockReserved, Proceeds, Asks, HandleInv
  <2>3. \/ eFileLock' = eFileLock
        \/ eFileLock' = [eFileLock EXCEPT ![h] = RESERVED_LOCK]
    BY <1>7 DEF LockReserved, Raised
  <2>4. \A q \in Proc \ {p} : posix'[q] = posix[q]
    <3>1. Granted(p, {"reserved"}, "write") \/ Refused(p, {"reserved"}, "write")
      BY <1>7 DEF LockReserved
    <3>2. QED
      BY <1>1, <3>1, PosixElsewhere
  <2>5. Touches(h) /\ ~Leaves(h) /\ ~Leaves(h)'
    <3>1. Touches(h) /\ ~Leaves(h)
      BY <1>1, <2>1, <2>3, <2>4, IdleTouches DEF Free
    <3>2. ~Leaves(h)'
      BY <2>1, <3>1 DEF Leaves
    <3>3. QED
      BY <3>1, <3>2
  <2>6. eFileLock'[h] = eFileLock[h] \/ eFileLock'[h] = RESERVED_LOCK
    BY <1>1, <2>3
  <2>7. QED
    BY <2>2, <2>5, <2>6, LevelStep
<1>8. QED
  BY <1>2, <1>3, <1>4, <1>5, <1>6, <1>7 DEF Lock

LEMMA ContinueLevels ==
    ASSUME IInv, IInv', NEW p \in Proc, Continue(p)
    PROVE  [LevelsOf!Next]_Level
<1> DEFINE h == at[p].h
<1>1. at[p].pc # "idle"
  BY DEF Continue, LockSharedRange, LockDropPending, LockExclusiveRange, UnlockReadLock,
         UnlockDropWrite, UnlockLeave, CloseFd
<1>2. /\ at[p] \in Calls /\ h \in Handle /\ ProcOf[h] = p /\ CallInv(p) /\ TypeOK
      /\ eFileLock \in [Handle -> Levels] /\ at \in [Proc -> {Idle} \cup Calls]
  BY <1>1, InCallFacts DEF TypeOK, Calls
<1>3. ASSUME NEW ok \in BOOLEAN, Return(p, ok)
      PROVE  (at'[p] = Idle \/ at'[p].h = h) /\ \A q \in Proc \ {p} : at'[q] = at[q]
  BY <1>2, <1>3, ReturnFacts
<1>4. CASE LockSharedRange(p)
  <2>1. PICK ok \in BOOLEAN :
            /\ IF ok THEN Granted(p, {"shared"}, "read") ELSE Refused(p, {"shared"}, "read")
            /\ at' = [at EXCEPT ![p].pc = "dropPending", ![p].ok = ok]
    BY <1>4 DEF LockSharedRange
  <2>2. at'[p].h = h /\ \A q \in Proc \ {p} : at'[q] = at[q]
    BY <1>2, <2>1 DEF Calls
  <2>3. \A q \in Proc \ {p} : posix'[q] = posix[q]
    BY <1>2, <2>1, PosixElsewhere
  <2>4. eFileLock' = eFileLock /\ ~Leaves(h)
    BY <1>2, <1>4 DEF LockSharedRange, Leaves
  <2>5. Touches(h)
    BY <1>1, <2>2, <2>3, <2>4, CallTouches
  <2>6. QED
    BY <1>2, <2>4, <2>5, LevelStep
<1>5. CASE LockDropPending(p)
  <2>1. at'[p] = Idle /\ (\A q \in Proc \ {p} : at'[q] = at[q]) /\ ~Leaves(h)
    BY <1>2, <1>5 DEF LockDropPending, Leaves
  <2>2. eFileLock' = eFileLock \/ eFileLock' = [eFileLock EXCEPT ![h] = SHARED_LOCK]
    BY <1>5 DEF LockDropPending
  <2>3. \A q \in Proc \ {p} : posix'[q] = posix[q]
    BY <1>2, <1>5, PosixElsewhere DEF LockDropPending
  <2>4. Touches(h)
    BY <1>1, <1>2, <2>1, <2>2, <2>3, CallTouches
  <2>5. eFileLock'[h] = eFileLock[h] \/ eFileLock'[h] = SHARED_LOCK
    BY <1>2, <2>2
  <2>6. QED
    BY <1>2, <2>1, <2>4, <2>5, LevelStep
<1>6. CASE LockExclusiveRange(p)
  <2>1. /\ eFileLock[h] \in SHARED_LOCK .. PENDING_LOCK /\ ~Leaves(h)
    BY <1>1, <1>2, <1>6 DEF LockExclusiveRange, CallInv, Leaves, Idle
  <2>2. PICK ok \in BOOLEAN :
          /\ IF ok THEN inode[p].nShared = 1 /\ Granted(p, {"shared"}, "write")
                   ELSE \/ inode[p].nShared > 1 /\ UNCHANGED <<posix, faults>>
                        \/ inode[p].nShared = 1 /\ Refused(p, {"shared"}, "write")
          /\ Raised(h, EXCLUSIVE_LOCK, ok)
          /\ IF ok THEN at' = [at EXCEPT ![p] = Idle] ELSE GivesUp(h, "dropWrite")
    BY <1>6 DEF LockExclusiveRange
  <2>3. \A q \in Proc \ {p} : posix'[q] = posix[q]
    BY <1>2, <2>2, PosixElsewhere
  <2>4. \/ eFileLock' = [eFileLock EXCEPT ![h] = EXCLUSIVE_LOCK]
        \/ eFileLock' = [eFileLock EXCEPT ![h] = PENDING_LOCK]
    BY <2>2 DEF Raised
  <2>5. /\ at'[p] = Idle \/ (at'[p].pc = "dropWrite" /\ at'[p].h = h)
        /\ \A q \in Proc \ {p} : at'[q] = at[q]
    BY <1>2, <2>2 DEF GivesUp, InCall
  <2>6. PICK x \in Handle : x = h
    BY <1>2
  <2>7. Touches(x)
    BY <1>1, <1>2, <2>3, <2>4, <2>5, <2>6, CallTouches
  <2>8. eFileLock'[x] \in {PENDING_LOCK, EXCLUSIVE_LOCK}
    BY <1>2, <2>4, <2>6
  <2>9. ~Leaves(x) /\ ~Leaves(x)'
    BY <1>2, <2>1, <2>5, <2>6 DEF Leaves, Idle
  <2>10. QED
    BY <2>1, <2>6, <2>7, <2>8, <2>9, LevelStep
<1>7. CASE UnlockReadLock(p)
  <2>1. eFileLock' = eFileLock /\ ~Leaves(h)
    BY <1>2, <1>7 DEF UnlockReadLock, Leaves
  <2>2. (at'[p] = Idle \/ at'[p].h = h) /\ \A q \in Proc \ {p} : at'[q] = at[q]
    <3>1. CASE at' = [at EXCEPT ![p].pc = "dropWrite"]
      BY <1>2, <3>1 DEF Calls
    <3>2. CASE Return(p, FALSE)
      BY <1>3, <3>2
    <3>3. QED
      BY <1>7, <3>1, <3>2 DEF UnlockReadLock
  <2>3. \A q \in Proc \ {p} : posix'[q] = posix[q]
    BY <1>2, <1>7, PosixElsewhere DEF UnlockReadLock
  <2>4. Touches(h)
    BY <1>1, <1>2, <2>1, <2>2, <2>3, CallTouches
  <2>5. QED
    BY <1>2, <2>1, <2>4, LevelStep
<1>8. CASE UnlockDropWrite(p)
  <2>1. eFileLock' = eFileLock \/ eFileLock' = [eFileLock EXCEPT ![h] = SHARED_LOCK]
    BY <1>8 DEF UnlockDropWrite
  <2>2. (at'[p] = Idle \/ at'[p].h = h) /\ \A q \in Proc \ {p} : at'[q] = at[q]
    <3>1. CASE at' = [at EXCEPT ![p].pc = "leave"]
      BY <1>2, <3>1 DEF Calls
    <3>2. CASE Return(p, FALSE) \/ Return(p, TRUE)
      BY <1>3, <3>2
    <3>3. QED
      BY <1>8, <3>1, <3>2 DEF UnlockDropWrite
  <2>3. \A q \in Proc \ {p} : posix'[q] = posix[q]
    BY <1>2, <1>8, PosixElsewhere DEF UnlockDropWrite
  <2>4. Touches(h) /\ ~Leaves(h)
    BY <1>1, <1>2, <1>8, <2>1, <2>2, <2>3, CallTouches DEF UnlockDropWrite, Leaves
  <2>5. eFileLock'[h] = eFileLock[h] \/ eFileLock'[h] = SHARED_LOCK
    BY <1>2, <2>1
  <2>6. QED
    BY <1>2, <2>4, <2>5, LevelStep
<1>9. CASE UnlockLeave(p) \/ CloseFd(p)
  <2>1. eFileLock' = [eFileLock EXCEPT ![h] = NO_LOCK]
    BY <1>9 DEF UnlockLeave, CloseFd
  <2>2. (at'[p] = Idle \/ at'[p].h = h) /\ \A q \in Proc \ {p} : at'[q] = at[q]
    <3>1. CASE \E ok \in BOOLEAN : Return(p, ok)
      BY <1>3, <3>1
    <3>2. CASE at' = [at EXCEPT ![p] = Idle]
      BY <1>2, <3>2
    <3>3. QED
      BY <1>9, <3>1, <3>2 DEF UnlockLeave, CloseFd
  <2>3. posix' = [posix EXCEPT ![p] = Unlocked] \/ posix' = posix
    BY <1>9 DEF UnlockLeave, CloseFd
  <2>4. \A q \in Proc \ {p} : posix'[q] = posix[q]
    BY <1>2, <2>3, PosixElsewhere
  <2>5. Touches(h) /\ eFileLock'[h] = NO_LOCK
    BY <1>1, <1>2, <2>1, <2>2, <2>4, CallTouches
  <2>6. QED
    BY <1>2, <2>5, LevelStep
<1>10. QED
  BY <1>4, <1>5, <1>6, <1>7, <1>8, <1>9 DEF Continue

\* However the calls of several processes interleave and fail half way, the levels of
\* the handles only ever change as LockLevels allows: with this every promise of that
\* module is one of the POSIX locks and the counters.
THEOREM LevelsAreImplemented == Spec => LevelsSpec
<1>1. Init => LevelsOf!Init
  <2>1. SUFFICES ASSUME Init, NEW h \in Handle PROVE Level[h] = NO_LOCK
    BY DEF LevelsOf!Init, LevelsOf!NO_LOCK, Level
  <2>2. ProcOf[h] \in Proc /\ Free(ProcOf[h]) /\ eFileLock[h] = NO_LOCK
    BY <2>1, ProcAssumption DEF Init, Free
  <2>3. QED
    BY <2>1, <2>2 DEF Level, Leaving
<1>2. IInv /\ IInv' /\ [Next]_vars => [LevelsOf!Next]_Level
  <2>1. SUFFICES ASSUME IInv, IInv', [Next]_vars PROVE [LevelsOf!Next]_Level
    OBVIOUS
  <2>2. CASE UNCHANGED vars
    BY <2>2 DEF vars, Level, Leaving, Free
  <2>3. CASE \E p \in Proc : Continue(p)
    BY <2>1, <2>3, ContinueLevels
  <2>4. ASSUME NEW h \in Handle,
               \/ Open(h) \/ Close(h)
               \/ \E want \in {SHARED_LOCK, RESERVED_LOCK, EXCLUSIVE_LOCK} : Lock(h, want)
               \/ \E want \in {NO_LOCK, SHARED_LOCK} : Unlock(h, want) \/ UnlockHeld(h, want)
        PROVE  [LevelsOf!Next]_Level
    BY <2>1, <2>4, StartLevels
  <2>5. QED
    BY <2>1, <2>2, <2>3, <2>4 DEF Next
<1>3. QED
  BY <1>1, <1>2, Invariance, PTL DEF Spec, LevelsSpec, LevelsOf!Spec
=============================================================================
