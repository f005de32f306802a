----------------------------- MODULE LockLevels -----------------------------
(***************************************************************************)
(* What the five lock levels of a database file promise to the pagers that *)
(* hold them: the chart at the head of unixLock and the comment on the     *)
(* lock types in os.h, without the bytes, the processes and the calls.     *)
(*                                                                         *)
(* PENDING may be entered from SHARED (a hot journal is rolled back) while *)
(* another handle has RESERVED: only EXCLUSIVE needs the file alone.       *)
(***************************************************************************)
EXTENDS Naturals

CONSTANT Handle

VARIABLE level

NO_LOCK == 0
SHARED_LOCK == 1
RESERVED_LOCK == 2
PENDING_LOCK == 3
EXCLUSIVE_LOCK == 4

Init == level = [h \in Handle |-> NO_LOCK]

Others(h) == {level[g] : g \in Handle \ {h}}
Set(h, l) == level' = [level EXCEPT ![h] = l]

\* PENDING keeps new readers out, except those that join a reader of their own process
\* (or one whose unlock failed); EXCLUSIVE keeps them all out.
Share(h) ==
    /\ level[h] = NO_LOCK
    /\ EXCLUSIVE_LOCK \notin Others(h)
    /\ Set(h, SHARED_LOCK)

\* One handle at a time prepares changes.
Reserve(h) ==
    /\ level[h] = SHARED_LOCK
    /\ RESERVED_LOCK \notin Others(h) /\ EXCLUSIVE_LOCK \notin Others(h)
    /\ Set(h, RESERVED_LOCK)

\* One handle at a time waits for the readers to leave.
Pend(h) ==
    /\ level[h] \in {SHARED_LOCK, RESERVED_LOCK}
    /\ \A l \in Others(h) : l < PENDING_LOCK
    /\ Set(h, PENDING_LOCK)

\* The file is written when nobody else so much as reads it.
Exclude(h) ==
    /\ level[h] \in SHARED_LOCK .. PENDING_LOCK
    /\ \A l \in Others(h) : l = NO_LOCK
    /\ Set(h, EXCLUSIVE_LOCK)

Lower(h) ==
    /\ \/ level[h] > SHARED_LOCK /\ Set(h, SHARED_LOCK)
       \/ level[h] > NO_LOCK /\ Set(h, NO_LOCK)

Next == \E h \in Handle : Share(h) \/ Reserve(h) \/ Pend(h) \/ Exclude(h) \/ Lower(h)

Spec == Init /\ [][Next]_level
=============================================================================
