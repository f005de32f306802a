--------------------------- MODULE HandlesProofs ---------------------------
(***************************************************************************)
(* Proofs about Handles, for any number of databases, statements and       *)
(* addresses.                                                              *)
(***************************************************************************)
EXTENDS Handles, SequenceTheorems, TLAPS

USE DEF Modes

\* The stack of each() calls holds a statement at most once, and the program
\* holds only statements that are open: without the first, a statement that one
\* each() call has run to its end could be in use by another; without the second,
\* a new each() statement could be one the program still has.
FramesDistinct == \A i, j \in 1..Len(frames) : frames[i] = frames[j] => i = j
HeldOpen == \A s \in held : stmt[s] # Null

\* The inductive invariant.
IInv ==
    /\ TypeOK
    /\ NoDanglingStatement
    /\ RegistryExact
    /\ ConnectionsAccounted
    /\ OrphansIdle
    /\ CallbackMidRow
    /\ FramesDistinct
    /\ HeldOpen

-----------------------------------------------------------------------------
(***************************************************************************)
(* Facts about one state.                                                  *)
(***************************************************************************)

\* Two open Statement objects never share an address.
LEMMA AddressesDistinct ==
    ASSUME IInv, NEW s \in Stmt, NEW t \in Stmt, stmt[s] # Null, stmt[s] = stmt[t]
    PROVE  s = t
<1>1. owner[s] \in Db /\ owner[t] \in Db /\ stmt[s] \in Ptr
  BY DEF IInv, TypeOK, NoDanglingStatement
<1>2. handle[owner[s]] = handle[owner[t]] /\ handle[owner[s]] # Null
  BY DEF IInv, NoDanglingStatement
<1>3. owner[s] = owner[t]
  BY <1>1, <1>2 DEF IInv, ConnectionsAccounted
<1>4. QED
  BY <1>3 DEF IInv, NoDanglingStatement

\* The registry of a Database lists exactly the statements open on it.
LEMMA RegisteredIsOwned ==
    ASSUME IInv, NEW d \in Db, NEW s \in Stmt
    PROVE  s \in Registered(d) <=> stmt[s] # Null /\ owner[s] = d
<1>1. ASSUME s \in Registered(d) PROVE stmt[s] # Null /\ owner[s] = d
  <2>1. PICK p \in Ptr : registry[d][p] = s
    BY <1>1 DEF Registered
  <2>2. registry[d][p] # Null /\ p # Null
    BY <2>1, NullAssumption
  <2>3. QED
    BY <2>1, <2>2 DEF IInv, RegistryExact
<1>2. ASSUME stmt[s] # Null, owner[s] = d PROVE s \in Registered(d)
  BY <1>2 DEF IInv, TypeOK, NoDanglingStatement, Registered
<1>3. QED
  BY <1>1, <1>2

\* The stack without its last element.
LEMMA PopFrames ==
    ASSUME TypeOK, frames # <<>>, Pop
    PROVE  /\ frames' \in Seq(Stmt)
           /\ Len(frames') = Len(frames) - 1
           /\ Len(frames) \in Nat \ {0}
           /\ \A i \in 1..Len(frames') : i \in 1..Len(frames) - 1 /\ frames'[i] = frames[i]
           /\ Top \in Stmt
<1>1. frames \in Seq(Stmt) /\ Len(frames) \in Nat \ {0}
  BY EmptySeq, LenProperties DEF TypeOK
<1> DEFINE n == Len(frames) - 1
<1>2. n \in Nat /\ n <= Len(frames) /\ frames' = SubSeq(frames, 1, n)
  BY <1>1 DEF Pop
<1>3. /\ frames' \in Seq(Stmt)
      /\ Len(frames') = n
      /\ \A i \in 1..n : frames'[i] = frames[i]
  <2>1. \A i \in 1..Len(frames) : frames[i] \in Stmt
    BY <1>1, ElementOfSeq
  <2>2. \A i \in 1..n : frames[i] \in Stmt
    BY <1>1, <1>2, <2>1
  <2>3. /\ SubSeq(frames, 1, n) \in Seq(Stmt)
        /\ Len(SubSeq(frames, 1, n)) = IF 1 <= n THEN n - 1 + 1 ELSE 0
        /\ \A i \in 1..(n - 1 + 1) : SubSeq(frames, 1, n)[i] = frames[1 + i - 1]
    <3> HIDE DEF n
    <3> QED BY <1>2, <2>2, SubSeqProperties
  <2>4. (IF 1 <= n THEN n - 1 + 1 ELSE 0) = n /\ n - 1 + 1 = n
    <3>1. n \in Nat
      BY <1>2
    <3> HIDE DEF n
    <3> QED BY <3>1
  <2>5. \A i \in 1..n : SubSeq(frames, 1, n)[i] = frames[i]
    BY <2>3, <2>4, <1>2
  <2>6. QED
    BY <1>2, <2>3, <2>4, <2>5
<1>4. Top \in Stmt
  BY <1>1, ElementOfSeq DEF Top
<1>5. QED
  BY <1>1, <1>3, <1>4

-----------------------------------------------------------------------------
(***************************************************************************)
(* Type correctness.                                                       *)
(***************************************************************************)
LEMMA FreeEachType ==
    ASSUME TypeOK, NEW S \in SUBSET Stmt, FreeEach(S)
    PROVE  /\ registry' \in [Db -> [Ptr -> Stmt \cup {Null}]]
           /\ stmt' \in [Stmt -> Ptr \cup {Null}]
           /\ owner' \in [Stmt -> Db \cup {Null}]
           /\ held' \subseteq Stmt
           /\ vdbe' \in [Ptr -> Conn \cup {Null}]
           /\ mode' \in [Ptr -> Modes]
  BY DEF FreeEach, FinalizeAll, TypeOK

LEMMA ReapType ==
    ASSUME NEW cs \in [Conn -> {"free", "open", "zombie"}], NEW vs
    PROVE  Reap(cs, vs) \in [Conn -> {"free", "open", "zombie"}]
  BY DEF Reap

LEMMA CloseType ==
    ASSUME TypeOK, NEW c \in Conn, NEW vs
    PROVE  CloseV2(c, vs) \in [Conn -> {"free", "open", "zombie"}]
<1>1. [conn EXCEPT ![c] = "zombie"] \in [Conn -> {"free", "open", "zombie"}]
  BY DEF TypeOK
<1>2. QED
  BY <1>1, ReapType DEF CloseV2

LEMMA CompileType ==
    ASSUME TypeOK, NEW d \in Db, NEW p \in Ptr,
           NEW m \in Modes, Compile(d, p, m)
    PROVE  /\ conn' \in [Conn -> {"free", "open", "zombie"}]
           /\ vdbe' \in [Ptr -> Conn \cup {Null}]
           /\ mode' \in [Ptr -> Modes]
  BY DEF Compile, TypeOK

LEMMA EnrolType ==
    ASSUME TypeOK, NEW d \in Db, NEW p \in Ptr, NEW s \in Stmt, Enrol(d, p, s)
    PROVE  /\ handle' \in [Db -> Conn \cup {Null}]
           /\ registry' \in [Db -> [Ptr -> Stmt \cup {Null}]]
           /\ stmt' \in [Stmt -> Ptr \cup {Null}]
           /\ owner' \in [Stmt -> Db \cup {Null}]
  BY DEF Enrol, TypeOK

LEMMA TypeStep == TypeOK /\ [Next]_vars => TypeOK'
<1> SUFFICES ASSUME TypeOK, [Next]_vars PROVE TypeOK'
  OBVIOUS
<1>1. ASSUME NEW d \in Db, OpenDatabase(d) PROVE TypeOK'
  BY <1>1 DEF OpenDatabase, TypeOK
<1>2. ASSUME NEW d \in Db, Prepare(d) PROVE TypeOK'
  BY <1>2, CompileType, EnrolType DEF Prepare, TypeOK
<1>3. ASSUME NEW d \in Db, PrepareBindFails(d) PROVE TypeOK'
  BY <1>3, CompileType DEF PrepareBindFails, jsVars, TypeOK
<1>4. ASSUME NEW d \in Db, ExecStepFails(d) PROVE TypeOK'
  BY <1>4, CompileType DEF ExecStepFails, jsVars, TypeOK
<1>5. ASSUME NEW d \in Db, RunStepFails(d) PROVE TypeOK'
  BY <1>5, CompileType, EnrolType DEF RunStepFails, TypeOK
<1>6. ASSUME NEW d \in Db, EachFirstRow(d) PROVE TypeOK'
  <2>1. PICK p \in Ptr, s \in Stmt :
            Compile(d, p, "row") /\ Enrol(d, p, s) /\ frames' = Append(frames, s)
    BY <1>6 DEF EachFirstRow
  <2>2. frames' \in Seq(Stmt)
    BY <2>1, AppendProperties DEF TypeOK
  <2>3. held' \subseteq Stmt
    BY <1>6 DEF EachFirstRow, TypeOK
  <2>4. QED
    BY <2>1, <2>2, <2>3, CompileType, EnrolType DEF TypeOK
<1>7. ASSUME NEW d \in Db, Export(d) PROVE TypeOK'
  <2>1. Registered(d) \in SUBSET Stmt
    BY DEF Registered
  <2>2. handle[d] \in Conn
    BY <1>7 DEF Export, TypeOK
  <2> DEFINE closed == CloseV2(handle[d], vdbe')
  <2>3. closed \in [Conn -> {"free", "open", "zombie"}]
    BY <2>2, CloseType
  <2>4. PICK c \in Conn : /\ conn' = [closed EXCEPT ![c] = "open"]
                          /\ handle' = [handle EXCEPT ![d] = c]
    BY <1>7 DEF Export
  <2>5. conn' \in [Conn -> {"free", "open", "zombie"}] /\ handle' \in [Db -> Conn \cup {Null}]
    <3> HIDE DEF closed
    <3> QED BY <2>3, <2>4 DEF TypeOK
  <2>6. FreeEach(Registered(d)) /\ frames' = frames
    BY <1>7 DEF Export
  <2>7. QED
    BY <2>1, <2>5, <2>6, FreeEachType DEF TypeOK
<1>8. ASSUME NEW d \in Db, Close(d) PROVE TypeOK'
  <2>1. Registered(d) \in SUBSET Stmt
    BY DEF Registered
  <2>2. handle[d] \in Conn
    BY <1>8 DEF Close, TypeOK
  <2>3. conn' \in [Conn -> {"free", "open", "zombie"}]
    BY <1>8, <2>2, CloseType DEF Close
  <2>4. FreeEach(Registered(d)) /\ frames' = frames /\ handle' \in [Db -> Conn \cup {Null}]
    BY <1>8 DEF Close, TypeOK
  <2>5. QED
    BY <2>1, <2>3, <2>4, FreeEachType DEF TypeOK
<1>9. ASSUME NEW s \in Stmt, Step(s) PROVE TypeOK'
  BY <1>9 DEF Step, TypeOK
<1>10. ASSUME NEW s \in Stmt, Reset(s) PROVE TypeOK'
  BY <1>10 DEF Reset, TypeOK
<1>11. ASSUME NEW s \in Stmt, Free(s) PROVE TypeOK'
  <2>1. conn' \in [Conn -> {"free", "open", "zombie"}]
    BY <1>11, ReapType DEF Free, TypeOK
  <2>2. FreeEach({s}) /\ frames' = frames /\ handle' = handle
    BY <1>11 DEF Free
  <2>3. QED
    BY <2>1, <2>2, FreeEachType DEF TypeOK
<1>12. CASE EachDone
  <2>1. conn' \in [Conn -> {"free", "open", "zombie"}]
    BY <1>12, ReapType DEF EachDone, TypeOK
  <2>2. FreeEach({Top}) /\ handle' = handle /\ frames' \in Seq(Stmt) /\ Top \in Stmt
    BY <1>12, PopFrames DEF EachDone
  <2>3. QED
    BY <2>1, <2>2, FreeEachType DEF TypeOK
<1>13. CASE EachStepFails
  BY <1>13, PopFrames DEF EachStepFails, TypeOK
<1>14. CASE EachThrows
  BY <1>14, PopFrames DEF EachThrows, engineVars, TypeOK
<1>15. CASE UNCHANGED vars
  BY <1>15 DEF vars, TypeOK
<1>16. QED
  BY <1>1, <1>2, <1>3, <1>4, <1>5, <1>6, <1>7, <1>8, <1>9, <1>10, <1>11, <1>12,
     <1>13, <1>14, <1>15 DEF Next

\* Every variable keeps its type: in particular Database.db is an address or
\* NULL, and the registry of a Database stays a map from addresses to Statements.
THEOREM TypeCorrect == Spec => []TypeOK
<1>1. Init => TypeOK
  BY EmptySeq DEF Init, TypeOK
<1>2. QED
  BY <1>1, TypeStep, PTL DEF Spec

-----------------------------------------------------------------------------
(***************************************************************************)
(* What the shared parts of the actions do to the invariant.               *)
(***************************************************************************)

\* Freeing a set of open statements leaves every other one as it was.
LEMMA FreeEachEffect ==
    ASSUME IInv, NEW S \in SUBSET Stmt, \A s \in S : stmt[s] # Null, FreeEach(S)
    PROVE  /\ held' = held \ S
           /\ \A s \in S : stmt'[s] = Null
           /\ \A s \in Stmt \ S : stmt'[s] = stmt[s] /\ owner'[s] = owner[s]
           /\ \A s \in Stmt \ S : stmt[s] # Null =>
                  /\ vdbe'[stmt[s]] = vdbe[stmt[s]]
                  /\ mode'[stmt[s]] = mode[stmt[s]]
                  /\ registry'[owner[s]][stmt[s]] = s
           /\ \A d \in Db, p \in Ptr : registry'[d][p] # Null =>
                  registry'[d][p] = registry[d][p] /\ registry[d][p] \notin S
           /\ \A p \in Ptr : vdbe'[p] # Null => vdbe'[p] = vdbe[p]
           /\ \A p \in Ptr : Orphan(p) => Orphan(p)' /\ vdbe'[p] = vdbe[p]
           /\ \A p \in Ptr : Orphan(p)' => Orphan(p) /\ mode'[p] = mode[p]
<1> USE DEF IInv
<1>1. held' = held \ S
  BY DEF FreeEach
<1>2. \A s \in S : stmt'[s] = Null
  BY DEF FreeEach
<1>3. \A s \in Stmt \ S : stmt'[s] = stmt[s] /\ owner'[s] = owner[s]
  BY DEF FreeEach
<1>4. ASSUME NEW s \in Stmt \ S, stmt[s] # Null
      PROVE  /\ vdbe'[stmt[s]] = vdbe[stmt[s]]
             /\ mode'[stmt[s]] = mode[stmt[s]]
             /\ registry'[owner[s]][stmt[s]] = s
  <2>1. \A t \in S : stmt[t] # stmt[s]
    BY <1>4, AddressesDistinct
  <2>2. stmt[s] \in Ptr /\ owner[s] \in Db
    BY <1>4 DEF TypeOK, NoDanglingStatement
  <2>3. vdbe'[stmt[s]] = vdbe[stmt[s]] /\ mode'[stmt[s]] = mode[stmt[s]]
    BY <2>1, <2>2 DEF FreeEach, FinalizeAll
  <2>4. registry'[owner[s]][stmt[s]] = registry[owner[s]][stmt[s]]
    BY <2>1, <2>2 DEF FreeEach
  <2>5. QED
    BY <1>4, <2>3, <2>4 DEF NoDanglingStatement
<1>5. ASSUME NEW d \in Db, NEW p \in Ptr, registry'[d][p] # Null
      PROVE  registry'[d][p] = registry[d][p] /\ registry[d][p] \notin S
  <2>1. registry'[d][p] = registry[d][p] /\ ~\E s \in S : owner[s] = d /\ stmt[s] = p
    BY <1>5 DEF FreeEach
  <2>2. stmt[registry[d][p]] = p /\ owner[registry[d][p]] = d
    BY <1>5, <2>1 DEF RegistryExact
  <2>3. QED
    BY <2>1, <2>2
<1>6. \A p \in Ptr : vdbe'[p] # Null =>
         vdbe'[p] = vdbe[p] /\ mode'[p] = mode[p] /\ \A s \in S : stmt[s] # p
  BY DEF FreeEach, FinalizeAll
<1>7. ASSUME NEW p \in Ptr, Orphan(p) PROVE Orphan(p)' /\ vdbe'[p] = vdbe[p]
  <2>1. vdbe'[p] = vdbe[p]
    BY <1>7 DEF Orphan, FreeEach, FinalizeAll
  <2>2. \A s \in Stmt : stmt'[s] # p
    BY <1>2, <1>3, <1>7, NullAssumption DEF Orphan
  <2>3. QED
    BY <1>7, <2>1, <2>2 DEF Orphan
<1>8. ASSUME NEW p \in Ptr, Orphan(p)' PROVE Orphan(p) /\ mode'[p] = mode[p]
  BY <1>3, <1>6, <1>8 DEF Orphan
<1>9. QED
  BY <1>1, <1>2, <1>3, <1>4, <1>5, <1>6, <1>7, <1>8

\* What compiling and registering a statement keeps.
LEMMA EnrolEffect ==
    ASSUME IInv, NEW d \in Db, NEW p \in Ptr, NEW s \in Stmt,
           NEW m \in Modes, Compile(d, p, m), Enrol(d, p, s)
    PROVE  /\ NoDanglingStatement'
           /\ RegistryExact'
           /\ ConnectionsAccounted'
           /\ OrphansIdle'
           /\ stmt[s] = Null /\ s \notin Running
           /\ stmt'[s] = p /\ mode'[p] = m
           /\ \A t \in Stmt \ {s} : stmt'[t] = stmt[t]
           /\ \A t \in Stmt \ {s} : stmt[t] # Null => mode'[stmt[t]] = mode[stmt[t]]
<1> USE DEF IInv
<1>1. /\ stmt[s] = Null /\ s \notin Running
      /\ handle[d] # Null /\ handle[d] \in Conn /\ vdbe[p] = Null
      /\ p # Null /\ d # Null /\ s # Null
  BY NullAssumption DEF Compile, Enrol, Fresh, TypeOK
<1>2. /\ handle' = handle /\ conn' = conn
      /\ stmt'[s] = p /\ owner'[s] = d /\ registry'[d][p] = s
      /\ vdbe'[p] = handle[d] /\ mode'[p] = m
  BY DEF Compile, Enrol, TypeOK
<1>3. /\ \A t \in Stmt \ {s} : stmt'[t] = stmt[t] /\ owner'[t] = owner[t]
      /\ \A q \in Ptr \ {p} : vdbe'[q] = vdbe[q] /\ mode'[q] = mode[q]
      /\ \A e \in Db, q \in Ptr : <<e, q>> # <<d, p>> => registry'[e][q] = registry[e][q]
  BY DEF Compile, Enrol, TypeOK
<1>4. \A t \in Stmt : stmt[t] # p
  BY <1>1 DEF NoDanglingStatement, TypeOK
<1>5. NoDanglingStatement'
  <2> SUFFICES ASSUME NEW t \in Stmt, stmt'[t] # Null
               PROVE  /\ owner'[t] # Null
                      /\ handle'[owner'[t]] # Null
                      /\ vdbe'[stmt'[t]] = handle'[owner'[t]]
                      /\ registry'[owner'[t]][stmt'[t]] = t
    BY DEF NoDanglingStatement
  <2>1. CASE t = s
    BY <2>1, <1>1, <1>2
  <2>2. CASE t # s
    <3>1. stmt[t] \in Ptr \ {p} /\ owner[t] \in Db /\ stmt'[t] = stmt[t] /\ owner'[t] = owner[t]
      BY <2>2, <1>3, <1>4 DEF NoDanglingStatement, TypeOK
    <3>2. registry'[owner[t]][stmt[t]] = registry[owner[t]][stmt[t]]
      BY <3>1, <1>3
    <3>3. QED
      BY <3>1, <3>2, <1>2, <1>3 DEF NoDanglingStatement
  <2>3. QED
    BY <2>1, <2>2
<1>6. RegistryExact'
  <2> SUFFICES ASSUME NEW e \in Db, NEW q \in Ptr, registry'[e][q] # Null
               PROVE  stmt'[registry'[e][q]] = q /\ owner'[registry'[e][q]] = e
    BY DEF RegistryExact
  <2>1. CASE e = d /\ q = p
    BY <2>1, <1>2
  <2>2. CASE ~(e = d /\ q = p)
    <3>1. registry'[e][q] = registry[e][q] /\ registry[e][q] \in Stmt
      BY <2>2, <1>3 DEF TypeOK
    <3>2. stmt[registry[e][q]] = q /\ owner[registry[e][q]] = e /\ registry[e][q] # s
      BY <3>1, <1>1, NullAssumption DEF RegistryExact
    <3>3. QED
      BY <3>1, <3>2, <1>3
  <2>3. QED
    BY <2>1, <2>2
<1>7. \A q \in Ptr : Orphan(q)' <=> Orphan(q)
  <2>1. ~Orphan(p) /\ ~Orphan(p)'
    BY <1>1, <1>2 DEF Orphan
  <2>2. ASSUME NEW q \in Ptr \ {p} PROVE Orphan(q)' <=> Orphan(q)
    <3>1. vdbe'[q] = vdbe[q] /\ stmt'[s] # q /\ stmt[s] # q
      BY <1>1, <1>2, <1>3, NullAssumption
    <3>2. QED
      BY <3>1, <1>3 DEF Orphan
  <2>3. QED
    BY <2>1, <2>2
<1>8. \A q \in Ptr : Orphan(q) => q # p /\ vdbe'[q] = vdbe[q] /\ mode'[q] = mode[q]
  BY <1>1, <1>3 DEF Orphan
<1>9. OrphansIdle'
  BY <1>7, <1>8 DEF OrphansIdle
<1>10. ConnectionsAccounted'
  BY <1>1, <1>2, <1>3, <1>7, <1>8 DEF ConnectionsAccounted
<1>11. QED
  BY <1>1, <1>2, <1>3, <1>4, <1>5, <1>6, <1>9, <1>10 DEF TypeOK

\* A statement that leaks, before its first step or after a failed one.
LEMMA LeakEffect ==
    ASSUME IInv, NEW d \in Db, NEW p \in Ptr, NEW m \in Modes \ {"row"},
           Compile(d, p, m), UNCHANGED jsVars
    PROVE  IInv'
<1> USE DEF IInv
<1>1. /\ handle[d] # Null /\ handle[d] \in Conn /\ vdbe[p] = Null
      /\ vdbe'[p] = handle[d] /\ mode'[p] = m /\ conn' = conn
      /\ \A q \in Ptr \ {p} : vdbe'[q] = vdbe[q] /\ mode'[q] = mode[q]
  BY DEF Compile, TypeOK
<1>2. /\ handle' = handle /\ registry' = registry /\ stmt' = stmt
      /\ owner' = owner /\ held' = held /\ frames' = frames
  BY DEF jsVars
<1>3. \A t \in Stmt : stmt[t] # p
  BY <1>1, NullAssumption DEF NoDanglingStatement, TypeOK
<1>4. TypeOK'
  BY <1>2, CompileType DEF TypeOK
<1>5. NoDanglingStatement' /\ RegistryExact'
  <2>1. \A t \in Stmt : stmt[t] # Null => vdbe'[stmt[t]] = vdbe[stmt[t]]
    BY <1>1, <1>3 DEF TypeOK
  <2>2. QED
    BY <1>2, <2>1 DEF NoDanglingStatement, RegistryExact
<1>6. \A q \in Ptr \ {p} : Orphan(q)' <=> Orphan(q)
  BY <1>1, <1>2 DEF Orphan
<1>7. OrphansIdle'
  BY <1>1, <1>6 DEF OrphansIdle
<1>8. ConnectionsAccounted'
  <2>1. \A q \in Ptr : Orphan(q) => q # p
    BY <1>1 DEF Orphan
  <2>2. QED
    BY <1>1, <1>2, <1>6, <2>1 DEF ConnectionsAccounted
<1>9. CallbackMidRow'
  <2>1. \A t \in Stmt : stmt[t] # Null => mode'[stmt[t]] = mode[stmt[t]]
    BY <1>1, <1>3 DEF TypeOK
  <2>2. \A t \in Running : t \in Stmt
    BY ElementOfSeq DEF Running, TypeOK
  <2>3. Running' = Running
    BY <1>2 DEF Running
  <2>4. QED
    BY <1>2, <2>1, <2>2, <2>3 DEF CallbackMidRow
<1>10. FramesDistinct' /\ HeldOpen'
  BY <1>2 DEF FramesDistinct, HeldOpen
<1>11. QED
  BY <1>4, <1>5, <1>7, <1>8, <1>9, <1>10

\* Freeing open statements while every Database keeps its connection.
LEMMA FreeEffect ==
    ASSUME IInv, NEW S \in SUBSET Stmt, \A s \in S : stmt[s] # Null,
           FreeEach(S), conn' = Reap(conn, vdbe'), handle' = handle
    PROVE  NoDanglingStatement' /\ RegistryExact' /\ ConnectionsAccounted' /\ OrphansIdle'
<1> USE DEF IInv
<1>1. NoDanglingStatement'
  <2> SUFFICES ASSUME NEW t \in Stmt, stmt'[t] # Null
               PROVE  /\ owner'[t] # Null
                      /\ handle'[owner'[t]] # Null
                      /\ vdbe'[stmt'[t]] = handle'[owner'[t]]
                      /\ registry'[owner'[t]][stmt'[t]] = t
    BY DEF NoDanglingStatement
  <2>1. t \in Stmt \ S /\ stmt'[t] = stmt[t] /\ owner'[t] = owner[t]
    BY FreeEachEffect
  <2>2. QED
    BY <2>1, FreeEachEffect DEF NoDanglingStatement
<1>2. RegistryExact'
  <2> SUFFICES ASSUME NEW e \in Db, NEW q \in Ptr, registry'[e][q] # Null
               PROVE  stmt'[registry'[e][q]] = q /\ owner'[registry'[e][q]] = e
    BY DEF RegistryExact
  <2>1. registry'[e][q] = registry[e][q] /\ registry[e][q] \in Stmt \ S
    BY FreeEachEffect DEF TypeOK
  <2>2. QED
    BY <2>1, FreeEachEffect DEF RegistryExact
<1>3. OrphansIdle'
  BY FreeEachEffect DEF OrphansIdle
<1>4. \A c \in Conn : conn[c] = "zombie" =>
         \E p \in Ptr : vdbe'[p] = c /\ Orphan(p)'
  BY FreeEachEffect DEF ConnectionsAccounted
<1>5. \A c \in Conn : conn'[c] = conn[c]
  BY <1>4 DEF Reap
<1>6. \A p \in Ptr : vdbe'[p] # Null => vdbe'[p] = vdbe[p] /\ vdbe[p] \in Conn
  BY FreeEachEffect DEF TypeOK
<1>7. \A d \in Db : handle[d] # Null => handle[d] \in Conn
  BY DEF TypeOK
<1>8. ConnectionsAccounted'
  BY <1>4, <1>5, <1>6, <1>7 DEF ConnectionsAccounted
<1>9. QED
  BY <1>1, <1>2, <1>3, <1>8

\* Freeing what is registered with d and closing its connection.
LEMMA ReleaseEffect ==
    ASSUME IInv, NEW d \in Db, handle[d] # Null, FreeEach(Registered(d)),
           \A e \in Db \ {d} : handle'[e] = handle[e]
    PROVE  /\ NoDanglingStatement' /\ RegistryExact' /\ OrphansIdle'
           /\ CloseV2(handle[d], vdbe') \in [Conn -> {"free", "open", "zombie"}]
           /\ \A c \in Conn : CloseV2(handle[d], vdbe')[c] = "open" <=> conn[c] = "open" /\ c # handle[d]
           /\ \A c \in Conn : CloseV2(handle[d], vdbe')[c] = "zombie" =>
                   \E p \in Ptr : vdbe'[p] = c /\ Orphan(p)'
           /\ \A p \in Ptr : vdbe'[p] # Null => CloseV2(handle[d], vdbe')[vdbe'[p]] # "free"
<1> USE DEF IInv
<1> DEFINE S == Registered(d)
<1>1. S \in SUBSET Stmt /\ \A s \in S : stmt[s] # Null
  BY RegisteredIsOwned DEF Registered
<1>entries. \A e \in Db, q \in Ptr : registry'[e][q] # Null =>
               registry'[e][q] = registry[e][q] /\ registry[e][q] \notin S
  BY <1>1, FreeEachEffect
<1>compiled. \A p \in Ptr : vdbe'[p] # Null => vdbe'[p] = vdbe[p]
  BY <1>1, FreeEachEffect
<1>2. \A t \in Stmt \ S : stmt[t] # Null => owner[t] \in Db \ {d}
  BY RegisteredIsOwned DEF NoDanglingStatement, TypeOK
<1> DEFINE closed == CloseV2(handle[d], vdbe')
<1> DEFINE mid == [conn EXCEPT ![handle[d]] = "zombie"]
<1>3. mid \in [Conn -> {"free", "open", "zombie"}] /\ handle[d] \in Conn
  BY DEF TypeOK
<1>4. \A c \in Conn : mid[c] = IF c = handle[d] THEN "zombie" ELSE conn[c]
  BY DEF TypeOK
<1>5. closed \in [Conn -> {"free", "open", "zombie"}]
  <2> HIDE DEF mid
  <2>1. Reap(mid, vdbe') \in [Conn -> {"free", "open", "zombie"}]
    BY <1>3, ReapType
  <2>2. QED
    BY <2>1 DEF CloseV2, mid
<1>6. \A c \in Conn : closed[c] =
         IF mid[c] = "zombie" /\ \A p \in Ptr : vdbe'[p] # c THEN "free" ELSE mid[c]
  BY DEF Reap, CloseV2
<1> HIDE DEF closed, mid
<1>7. NoDanglingStatement'
  <2> SUFFICES ASSUME NEW t \in Stmt, stmt'[t] # Null
               PROVE  /\ owner'[t] # Null
                      /\ handle'[owner'[t]] # Null
                      /\ vdbe'[stmt'[t]] = handle'[owner'[t]]
                      /\ registry'[owner'[t]][stmt'[t]] = t
    BY DEF NoDanglingStatement
  <2>1. t \in Stmt \ S /\ stmt'[t] = stmt[t] /\ owner'[t] = owner[t]
    BY <1>1, FreeEachEffect
  <2>2. owner[t] \in Db \ {d} /\ handle'[owner[t]] = handle[owner[t]]
    BY <1>2, <2>1
  <2>3. vdbe'[stmt[t]] = vdbe[stmt[t]] /\ registry'[owner[t]][stmt[t]] = t
    BY <1>1, <2>1, FreeEachEffect
  <2>4. QED
    BY <2>1, <2>2, <2>3 DEF NoDanglingStatement
<1>8. RegistryExact'
  <2> SUFFICES ASSUME NEW e \in Db, NEW q \in Ptr, registry'[e][q] # Null
               PROVE  stmt'[registry'[e][q]] = q /\ owner'[registry'[e][q]] = e
    BY DEF RegistryExact
  <2>1. registry'[e][q] = registry[e][q] /\ registry[e][q] \in Stmt \ S
    BY <1>entries DEF TypeOK
  <2>2. QED
    BY <1>1, <2>1, FreeEachEffect DEF RegistryExact
<1>9. OrphansIdle'
  BY <1>1, FreeEachEffect DEF OrphansIdle
<1>10. \A c \in Conn : closed[c] = "open" <=> conn[c] = "open" /\ c # handle[d]
  BY <1>4, <1>6
<1>11. ASSUME NEW c \in Conn, closed[c] = "zombie"
       PROVE  \E p \in Ptr : vdbe'[p] = c /\ Orphan(p)'
  <2>1. CASE c = handle[d]
    <3>1. PICK p \in Ptr : vdbe'[p] = c
      BY <1>4, <1>6, <1>11, <2>1
    <3>2. vdbe[p] = c /\ c # Null
      BY <1>1, <3>1, FreeEachEffect, <2>1
    <3>3. ASSUME NEW t \in Stmt, stmt'[t] = p PROVE FALSE
      <4>1. t \in Stmt \ S /\ stmt[t] = p /\ p # Null
        BY <1>1, <3>3, FreeEachEffect, NullAssumption
      <4>2. owner[t] \in Db \ {d} /\ handle[owner[t]] = handle[d]
        BY <1>2, <2>1, <3>2, <4>1 DEF NoDanglingStatement
      <4>3. QED
        BY <4>2 DEF ConnectionsAccounted
    <3>4. QED
      BY <3>1, <3>2, <3>3 DEF Orphan
  <2>2. CASE c # handle[d]
    <3>1. conn[c] = "zombie"
      BY <1>4, <1>6, <1>11, <2>2
    <3>2. QED
      BY <1>1, <3>1, FreeEachEffect DEF ConnectionsAccounted
  <2>3. QED
    BY <2>1, <2>2
<1>12. ASSUME NEW p \in Ptr, vdbe'[p] # Null PROVE closed[vdbe'[p]] # "free"
  <2>1. vdbe'[p] = vdbe[p] /\ vdbe[p] \in Conn /\ conn[vdbe[p]] # "free"
    BY <1>12, <1>compiled DEF ConnectionsAccounted, TypeOK
  <2>2. QED
    BY <2>1, <1>4, <1>6
<1>13. QED
  BY <1>5, <1>7, <1>8, <1>9, <1>10, <1>11, <1>12 DEF closed

-----------------------------------------------------------------------------
(***************************************************************************)
(* The stack of each() calls.                                              *)
(***************************************************************************)

\* A step that leaves the stack alone, closes or keeps each running statement,
\* and hands out no running one.
LEMMA SameFrames ==
    ASSUME IInv, frames' = frames,
           \A s \in Running : stmt'[s] # Null =>
               stmt'[s] = stmt[s] /\ mode'[stmt[s]] = mode[stmt[s]] /\ s \notin held'
    PROVE  CallbackMidRow' /\ FramesDistinct'
<1>1. Running' = Running
  BY DEF Running
<1>2. CallbackMidRow'
  BY <1>1 DEF IInv, CallbackMidRow
<1>3. FramesDistinct'
  BY DEF IInv, FramesDistinct
<1>4. QED
  BY <1>2, <1>3

\* The end of the innermost call: what is left was below it on the stack.
LEMMA PopKeeps ==
    ASSUME IInv, frames # <<>>, Pop,
           \A s \in Running \ {Top} : stmt'[s] # Null =>
               stmt'[s] = stmt[s] /\ mode'[stmt[s]] = mode[stmt[s]] /\ s \notin held'
    PROVE  CallbackMidRow' /\ FramesDistinct'
<1>1. /\ Len(frames') = Len(frames) - 1
      /\ Len(frames) \in Nat \ {0}
      /\ \A i \in 1..Len(frames') : i \in 1..Len(frames) - 1 /\ frames'[i] = frames[i]
  BY PopFrames DEF IInv
<1>2. Running' \subseteq Running \ {Top}
  <2> SUFFICES ASSUME NEW i \in 1..Len(frames') PROVE frames'[i] \in Running \ {Top}
    BY DEF Running
  <2>1. i \in 1..Len(frames) /\ i # Len(frames) /\ Len(frames) \in 1..Len(frames)
    BY <1>1
  <2>2. frames[i] # frames[Len(frames)]
    BY <2>1 DEF IInv, FramesDistinct
  <2>3. QED
    BY <1>1, <2>1, <2>2 DEF Running, Top
<1>3. CallbackMidRow'
  BY <1>2 DEF IInv, CallbackMidRow
<1>4. FramesDistinct'
  <2> SUFFICES ASSUME NEW i \in 1..Len(frames'), NEW j \in 1..Len(frames'),
                      frames'[i] = frames'[j]
               PROVE  i = j
    BY DEF FramesDistinct
  <2>1. i \in 1..Len(frames) /\ j \in 1..Len(frames) /\ frames[i] = frames[j]
    BY <1>1
  <2>2. QED
    BY <2>1 DEF IInv, FramesDistinct
<1>5. QED
  BY <1>3, <1>4

\* Freeing statements keeps what SameFrames and PopKeeps ask for, and HeldOpen.
LEMMA FreeKeepsFrames ==
    ASSUME IInv, NEW S \in SUBSET Stmt, \A s \in S : stmt[s] # Null, FreeEach(S)
    PROVE  /\ \A s \in Running : stmt'[s] # Null =>
                  stmt'[s] = stmt[s] /\ mode'[stmt[s]] = mode[stmt[s]] /\ s \notin held'
           /\ HeldOpen'
<1>1. Running \subseteq Stmt
  BY ElementOfSeq DEF Running, IInv, TypeOK
<1>2. ASSUME NEW s \in Running, stmt'[s] # Null
      PROVE  stmt'[s] = stmt[s] /\ mode'[stmt[s]] = mode[stmt[s]] /\ s \notin held'
  <2>1. s \in Stmt \ S
    BY <1>1, <1>2, FreeEachEffect
  <2>2. stmt'[s] = stmt[s] /\ mode'[stmt[s]] = mode[stmt[s]] /\ held' \subseteq held
    BY <1>2, <2>1, FreeEachEffect
  <2>3. QED
    BY <1>2, <2>2 DEF IInv, CallbackMidRow
<1>3. HeldOpen'
  BY FreeEachEffect DEF IInv, HeldOpen, TypeOK
<1>4. QED
  BY <1>2, <1>3

-----------------------------------------------------------------------------
(***************************************************************************)
(* The invariant is inductive: one step per action.                        *)
(***************************************************************************)
LEMMA InvariantInit == Init => IInv
<1> SUFFICES ASSUME Init PROVE IInv
  OBVIOUS
<1>1. TypeOK
  BY EmptySeq DEF Init, TypeOK
<1>2. Running = {} /\ 1..Len(frames) = {}
  BY EmptySeq DEF Init, Running
<1>3. CallbackMidRow /\ FramesDistinct /\ HeldOpen
  BY <1>2 DEF Init, CallbackMidRow, FramesDistinct, HeldOpen
<1>4. NoDanglingStatement /\ RegistryExact /\ ConnectionsAccounted /\ OrphansIdle
  BY DEF Init, NoDanglingStatement, RegistryExact, ConnectionsAccounted, OrphansIdle, Orphan
<1>5. QED
  BY <1>1, <1>3, <1>4 DEF IInv

LEMMA OpenDatabaseKeeps == ASSUME IInv, NEW d \in Db, OpenDatabase(d) PROVE IInv'
<1> USE DEF IInv
<1>1. TypeOK'
  BY TypeStep DEF Next
<1>2. PICK c \in Conn : /\ conn[c] = "free"
                        /\ handle' = [handle EXCEPT ![d] = c]
                        /\ conn' = [conn EXCEPT ![c] = "open"]
  BY DEF OpenDatabase
<1>3. /\ handle[d] = Null /\ stmt' = stmt /\ owner' = owner /\ held' = held
      /\ frames' = frames /\ vdbe' = vdbe /\ mode' = mode
      /\ registry' = [registry EXCEPT ![d] = [p \in Ptr |-> Null]]
  BY DEF OpenDatabase
<1>4. c # Null /\ \A e \in Db : handle[e] # c /\ \A p \in Ptr : vdbe[p] # c
  BY <1>2, NullAssumption DEF ConnectionsAccounted
<1>5. /\ handle'[d] = c /\ \A e \in Db \ {d} : handle'[e] = handle[e]
      /\ conn'[c] = "open" /\ \A b \in Conn \ {c} : conn'[b] = conn[b]
      /\ \A e \in Db \ {d} : registry'[e] = registry[e]
      /\ \A p \in Ptr : registry'[d][p] = Null
  BY <1>2, <1>3 DEF TypeOK
<1>6. NoDanglingStatement'
  <2>1. \A t \in Stmt : stmt[t] # Null => owner[t] \in Db \ {d}
    BY <1>3 DEF NoDanglingStatement, TypeOK
  <2>2. QED
    BY <1>3, <1>5, <2>1 DEF NoDanglingStatement
<1>7. RegistryExact'
  BY <1>3, <1>5 DEF RegistryExact
<1>8. OrphansIdle' /\ \A p \in Ptr : Orphan(p)' <=> Orphan(p)
  BY <1>3 DEF OrphansIdle, Orphan
<1>9. ConnectionsAccounted'
  <2>1. \A e \in Db : handle'[e] # Null => handle'[e] \in Conn /\ conn'[handle'[e]] = "open"
    BY <1>4, <1>5 DEF ConnectionsAccounted, TypeOK
  <2>2. \A e, f \in Db : handle'[e] # Null /\ handle'[e] = handle'[f] => e = f
    BY <1>4, <1>5 DEF ConnectionsAccounted
  <2>3. \A b \in Conn : conn'[b] = "open" => \E e \in Db : handle'[e] = b
    <3> SUFFICES ASSUME NEW b \in Conn, conn'[b] = "open", b # c
                 PROVE  \E e \in Db : handle'[e] = b
      BY <1>5
    <3>1. PICK e \in Db : handle[e] = b
      BY <1>5 DEF ConnectionsAccounted
    <3>2. e # d
      BY <3>1, <1>3, NullAssumption
    <3>3. QED
      BY <3>1, <3>2, <1>5
  <2>4. \A p \in Ptr : vdbe'[p] # Null => conn'[vdbe'[p]] # "free"
    BY <1>3, <1>4, <1>5 DEF ConnectionsAccounted, TypeOK
  <2>5. \A b \in Conn : conn'[b] = "zombie" => \E p \in Ptr : vdbe'[p] = b /\ Orphan(p)'
    BY <1>3, <1>5, <1>8 DEF ConnectionsAccounted
  <2>6. QED
    BY <2>1, <2>2, <2>3, <2>4, <2>5 DEF ConnectionsAccounted
<1>10. CallbackMidRow' /\ FramesDistinct'
  <2>1. \A s \in Running : stmt[s] # Null => s \notin held
    BY DEF CallbackMidRow
  <2>2. QED
    BY <1>3, <2>1, SameFrames
<1>11. HeldOpen'
  BY <1>3 DEF HeldOpen
<1>12. QED
  BY <1>1, <1>6, <1>7, <1>8, <1>9, <1>10, <1>11

LEMMA PrepareKeeps == ASSUME IInv, NEW d \in Db, Prepare(d) PROVE IInv'
<1>1. TypeOK'
  BY TypeStep DEF Next, IInv
<1>2. PICK p \in Ptr, s \in Stmt :
        Compile(d, p, "ready") /\ Enrol(d, p, s) /\ held' = held \cup {s}
  BY DEF Prepare
<1>3. frames' = frames
  BY DEF Prepare
<1>4. CallbackMidRow' /\ FramesDistinct'
  <2>1. \A t \in Running : t \in Stmt \ {s}
    BY <1>2, EnrolEffect, ElementOfSeq DEF Running, IInv, TypeOK
  <2>2. \A t \in Running : stmt'[t] # Null =>
           stmt'[t] = stmt[t] /\ mode'[stmt[t]] = mode[stmt[t]] /\ t \notin held'
    BY <1>2, <2>1, EnrolEffect DEF IInv, CallbackMidRow
  <2>3. QED
    BY <1>3, <2>2, SameFrames
<1>5. HeldOpen'
  <2>1. \A t \in Stmt \ {s} : stmt'[t] = stmt[t]
    BY <1>2, EnrolEffect
  <2>2. stmt'[s] # Null
    BY <1>2, EnrolEffect, NullAssumption
  <2>3. QED
    BY <1>2, <2>1, <2>2 DEF HeldOpen, IInv, TypeOK
<1>6. QED
  BY <1>1, <1>2, <1>4, <1>5, EnrolEffect DEF IInv

LEMMA RunStepFailsKeeps == ASSUME IInv, NEW d \in Db, RunStepFails(d) PROVE IInv'
<1>1. TypeOK'
  BY TypeStep DEF Next, IInv
<1>2. PICK p \in Ptr, s \in Stmt, m \in {"busy", "halted"} :
        Compile(d, p, m) /\ Enrol(d, p, s)
  BY DEF RunStepFails
<1>3. frames' = frames /\ held' = held
  BY DEF RunStepFails
<1>4. CallbackMidRow' /\ FramesDistinct'
  <2>1. \A t \in Running : t \in Stmt \ {s}
    BY <1>2, EnrolEffect, ElementOfSeq DEF Running, IInv, TypeOK
  <2>2. \A t \in Running : stmt'[t] # Null =>
           stmt'[t] = stmt[t] /\ mode'[stmt[t]] = mode[stmt[t]] /\ t \notin held'
    BY <1>2, <1>3, <2>1, EnrolEffect DEF IInv, CallbackMidRow
  <2>3. QED
    BY <1>3, <2>2, SameFrames
<1>5. HeldOpen'
  BY <1>2, <1>3, EnrolEffect DEF HeldOpen, IInv, TypeOK
<1>6. QED
  BY <1>1, <1>2, <1>4, <1>5, EnrolEffect DEF IInv

LEMMA EachFirstRowKeeps == ASSUME IInv, NEW d \in Db, EachFirstRow(d) PROVE IInv'
<1>1. TypeOK'
  BY TypeStep DEF Next, IInv
<1>2. PICK p \in Ptr, s \in Stmt :
        Compile(d, p, "row") /\ Enrol(d, p, s) /\ frames' = Append(frames, s)
  BY DEF EachFirstRow
<1>3. held' = held
  BY DEF EachFirstRow
<1>4. /\ Len(frames) \in Nat /\ Len(frames') = Len(frames) + 1
      /\ \A i \in 1..Len(frames) : frames'[i] = frames[i]
      /\ frames'[Len(frames) + 1] = s
  BY <1>2, AppendProperties, LenProperties DEF IInv, TypeOK
<1>5. \A t \in Running : t \in Stmt \ {s}
  BY <1>2, EnrolEffect, ElementOfSeq DEF Running, IInv, TypeOK
<1>6. Running' \subseteq Running \cup {s}
  BY <1>4 DEF Running
<1>7. CallbackMidRow'
  <2> SUFFICES ASSUME NEW t \in Running', stmt'[t] # Null
               PROVE  mode'[stmt'[t]] = "row" /\ t \notin held'
    BY DEF CallbackMidRow
  <2>1. CASE t = s
    BY <1>2, <1>3, <2>1, EnrolEffect DEF IInv, HeldOpen
  <2>2. CASE t # s
    <3>1. t \in Running /\ t \in Stmt \ {s}
      BY <1>5, <1>6, <2>2
    <3>2. stmt'[t] = stmt[t] /\ mode'[stmt[t]] = mode[stmt[t]]
      BY <1>2, <3>1, EnrolEffect
    <3>3. QED
      BY <1>3, <3>1, <3>2 DEF IInv, CallbackMidRow
  <2>3. QED
    BY <2>1, <2>2
<1>8. FramesDistinct'
  <2>1. \A i \in 1..Len(frames) : frames[i] # s
    BY <1>5 DEF Running
  <2>2. \A i \in 1..Len(frames') : i \in 1..Len(frames) \/ i = Len(frames) + 1
    BY <1>4
  <2>3. QED
    BY <1>4, <2>1, <2>2 DEF IInv, FramesDistinct
<1>9. HeldOpen'
  BY <1>2, <1>3, EnrolEffect DEF HeldOpen, IInv, TypeOK
<1>10. QED
  BY <1>1, <1>2, <1>7, <1>8, <1>9, EnrolEffect DEF IInv

LEMMA ExportKeeps == ASSUME IInv, NEW d \in Db, Export(d) PROVE IInv'
<1> USE DEF IInv
<1>1. TypeOK'
  BY TypeStep DEF Next
<1> DEFINE closed == CloseV2(handle[d], vdbe')
<1>2. PICK c \in Conn : /\ closed[c] = "free"
                        /\ conn' = [closed EXCEPT ![c] = "open"]
                        /\ handle' = [handle EXCEPT ![d] = c]
  BY DEF Export
<1>3. handle[d] # Null /\ FreeEach(Registered(d)) /\ frames' = frames
  BY DEF Export
<1>4. handle'[d] = c /\ \A e \in Db \ {d} : handle'[e] = handle[e]
  BY <1>2 DEF TypeOK
<1>5. /\ NoDanglingStatement' /\ RegistryExact' /\ OrphansIdle'
      /\ closed \in [Conn -> {"free", "open", "zombie"}]
      /\ \A b \in Conn : closed[b] = "open" <=> conn[b] = "open" /\ b # handle[d]
      /\ \A b \in Conn : closed[b] = "zombie" => \E p \in Ptr : vdbe'[p] = b /\ Orphan(p)'
      /\ \A p \in Ptr : vdbe'[p] # Null => closed[vdbe'[p]] # "free"
  BY <1>3, <1>4, ReleaseEffect
<1> HIDE DEF closed
<1>6. conn'[c] = "open" /\ \A b \in Conn \ {c} : conn'[b] = closed[b]
  BY <1>2, <1>5
<1>7. ConnectionsAccounted'
  <2>1. c # Null /\ \A e \in Db \ {d} : handle[e] # c
    BY <1>2, <1>3, <1>5, NullAssumption DEF ConnectionsAccounted
  <2>2. \A e \in Db \ {d} : handle[e] # Null =>
           handle[e] \in Conn \ {c} /\ closed[handle[e]] = "open"
    BY <1>3, <1>5, <2>1 DEF ConnectionsAccounted, TypeOK
  <2>3. \A e \in Db : handle'[e] # Null => conn'[handle'[e]] = "open"
    BY <1>4, <1>6, <2>2
  <2>4. \A e, f \in Db : handle'[e] # Null /\ handle'[e] = handle'[f] => e = f
    BY <1>4, <2>1 DEF ConnectionsAccounted
  <2>5. ASSUME NEW b \in Conn, conn'[b] = "open" PROVE \E e \in Db : handle'[e] = b
    <3>1. CASE b = c
      BY <3>1, <1>4
    <3>2. CASE b # c
      <4>1. conn[b] = "open" /\ b # handle[d]
        BY <3>2, <2>5, <1>5, <1>6
      <4>2. PICK e \in Db : handle[e] = b
        BY <4>1 DEF ConnectionsAccounted
      <4>3. QED
        BY <4>1, <4>2, <1>4
    <3>3. QED
      BY <3>1, <3>2
  <2>6. \A p \in Ptr : vdbe'[p] # Null => conn'[vdbe'[p]] # "free"
    <3>1. \A p \in Ptr : vdbe'[p] # Null => vdbe'[p] \in Conn
      BY <1>1 DEF TypeOK
    <3>2. QED
      BY <3>1, <1>5, <1>6
  <2>7. \A b \in Conn : conn'[b] = "zombie" => \E p \in Ptr : vdbe'[p] = b /\ Orphan(p)'
    BY <1>5, <1>6
  <2>8. QED
    BY <2>3, <2>4, <2>5, <2>6, <2>7 DEF ConnectionsAccounted
<1>8. CallbackMidRow' /\ FramesDistinct' /\ HeldOpen'
  <2>1. Registered(d) \in SUBSET Stmt /\ \A s \in Registered(d) : stmt[s] # Null
    BY RegisteredIsOwned DEF Registered
  <2>2. QED
    BY <1>3, <2>1, FreeKeepsFrames, SameFrames
<1>9. QED
  BY <1>1, <1>5, <1>7, <1>8

LEMMA CloseKeeps == ASSUME IInv, NEW d \in Db, Close(d) PROVE IInv'
<1> USE DEF IInv
<1>1. TypeOK'
  BY TypeStep DEF Next
<1>2. /\ handle[d] # Null /\ FreeEach(Registered(d)) /\ frames' = frames
      /\ conn' = CloseV2(handle[d], vdbe')
  BY DEF Close
<1>3. handle'[d] = Null /\ \A e \in Db \ {d} : handle'[e] = handle[e]
  BY DEF Close, TypeOK
<1>4. /\ NoDanglingStatement' /\ RegistryExact' /\ OrphansIdle'
      /\ \A b \in Conn : conn'[b] = "open" <=> conn[b] = "open" /\ b # handle[d]
      /\ \A b \in Conn : conn'[b] = "zombie" => \E p \in Ptr : vdbe'[p] = b /\ Orphan(p)'
      /\ \A p \in Ptr : vdbe'[p] # Null => conn'[vdbe'[p]] # "free"
  BY <1>2, <1>3, ReleaseEffect
<1>5. ConnectionsAccounted'
  <2>1. \A e \in Db : handle'[e] # Null =>
           e # d /\ handle[e] = handle'[e] /\ handle[e] \in Conn
    BY <1>3 DEF TypeOK
  <2>2. \A e \in Db : handle'[e] # Null => conn'[handle'[e]] = "open"
    BY <1>2, <1>4, <2>1 DEF ConnectionsAccounted
  <2>3. \A e, f \in Db : handle'[e] # Null /\ handle'[e] = handle'[f] => e = f
    BY <2>1 DEF ConnectionsAccounted
  <2>4. \A b \in Conn : conn'[b] = "open" => \E e \in Db : handle'[e] = b
    BY <1>3, <1>4 DEF ConnectionsAccounted
  <2>5. QED
    BY <1>4, <2>2, <2>3, <2>4 DEF ConnectionsAccounted
<1>6. CallbackMidRow' /\ FramesDistinct' /\ HeldOpen'
  <2>1. Registered(d) \in SUBSET Stmt /\ \A s \in Registered(d) : stmt[s] # Null
    BY RegisteredIsOwned DEF Registered
  <2>2. QED
    BY <1>2, <2>1, FreeKeepsFrames, SameFrames
<1>7. QED
  BY <1>1, <1>4, <1>5, <1>6

\* Step, Reset and EachStepFails change where one compiled statement is, and
\* nothing else of the engine.
LEMMA ModeEffect ==
    ASSUME IInv, NEW s \in Stmt, stmt[s] # Null, NEW m \in Modes,
           mode' = [mode EXCEPT ![stmt[s]] = m],
           UNCHANGED <<handle, registry, stmt, owner, held, conn, vdbe>>
    PROVE  /\ NoDanglingStatement' /\ RegistryExact' /\ ConnectionsAccounted'
           /\ OrphansIdle' /\ HeldOpen'
           /\ \A t \in Stmt \ {s} : stmt[t] # Null => mode'[stmt[t]] = mode[stmt[t]]
<1> USE DEF IInv
<1>1. stmt[s] \in Ptr
  BY DEF TypeOK
<1>2. \A q \in Ptr : q # stmt[s] => mode'[q] = mode[q]
  BY <1>1 DEF TypeOK
<1>3. NoDanglingStatement' /\ RegistryExact' /\ HeldOpen'
  BY DEF NoDanglingStatement, RegistryExact, HeldOpen
<1>4. \A q \in Ptr : Orphan(q)' <=> Orphan(q)
  BY DEF Orphan
<1>5. ConnectionsAccounted'
  BY <1>4 DEF ConnectionsAccounted
<1>6. OrphansIdle'
  BY <1>2, <1>4 DEF OrphansIdle, Orphan
<1>7. ASSUME NEW t \in Stmt \ {s}, stmt[t] # Null PROVE mode'[stmt[t]] = mode[stmt[t]]
  <2>1. stmt[t] # stmt[s] /\ stmt[t] \in Ptr
    BY <1>7, AddressesDistinct DEF TypeOK
  <2>2. QED
    BY <1>2, <2>1
<1>8. QED
  BY <1>3, <1>5, <1>6, <1>7

LEMMA StepOrResetKeeps ==
    ASSUME IInv, NEW s \in Stmt, Step(s) \/ Reset(s) PROVE IInv'
<1>1. TypeOK'
  BY TypeStep DEF Next, IInv
<1>2. PICK m \in Modes : mode' = [mode EXCEPT ![stmt[s]] = m]
  BY DEF Step, Reset
<1>3. /\ s \in held /\ stmt[s] # Null
      /\ UNCHANGED <<handle, registry, stmt, owner, held, frames, conn, vdbe>>
  BY DEF Step, Reset
<1>4. \A t \in Running : stmt'[t] # Null =>
         stmt'[t] = stmt[t] /\ mode'[stmt[t]] = mode[stmt[t]] /\ t \notin held'
  <2>1. \A t \in Running : t \in Stmt /\ (stmt[t] # Null => t \notin held)
    BY ElementOfSeq DEF Running, IInv, TypeOK, CallbackMidRow
  <2>2. QED
    BY <1>2, <1>3, <2>1, ModeEffect
<1>5. CallbackMidRow' /\ FramesDistinct'
  BY <1>3, <1>4, SameFrames
<1>6. QED
  BY <1>1, <1>2, <1>3, <1>5, ModeEffect DEF IInv

LEMMA FreeKeeps == ASSUME IInv, NEW s \in Stmt, Free(s) PROVE IInv'
<1>1. TypeOK'
  BY TypeStep DEF Next, IInv
<1>2. /\ {s} \in SUBSET Stmt /\ \A t \in {s} : stmt[t] # Null
      /\ FreeEach({s}) /\ conn' = Reap(conn, vdbe') /\ handle' = handle /\ frames' = frames
  BY DEF Free
<1>3. CallbackMidRow' /\ FramesDistinct' /\ HeldOpen'
  BY <1>2, FreeKeepsFrames, SameFrames
<1>4. QED
  BY <1>1, <1>2, <1>3, FreeEffect DEF IInv

LEMMA EachDoneKeeps == ASSUME IInv, EachDone PROVE IInv'
<1>1. TypeOK'
  BY TypeStep DEF Next, IInv
<1>2. Top \in Stmt
  BY PopFrames DEF EachDone, IInv
<1>3. /\ {Top} \in SUBSET Stmt /\ \A t \in {Top} : stmt[t] # Null
      /\ FreeEach({Top}) /\ conn' = Reap(conn, vdbe') /\ handle' = handle
      /\ frames # <<>> /\ Pop
  BY <1>2 DEF EachDone
<1>4. CallbackMidRow' /\ FramesDistinct' /\ HeldOpen'
  BY <1>3, FreeKeepsFrames, PopKeeps
<1>5. QED
  BY <1>1, <1>3, <1>4, FreeEffect DEF IInv

LEMMA EachStepFailsKeeps == ASSUME IInv, EachStepFails PROVE IInv'
<1>1. TypeOK'
  BY TypeStep DEF Next, IInv
<1>2. Top \in Stmt
  BY PopFrames DEF EachStepFails, IInv
<1>3. /\ frames # <<>> /\ Pop /\ stmt[Top] # Null
      /\ mode' = [mode EXCEPT ![stmt[Top]] = "halted"]
      /\ UNCHANGED <<handle, registry, stmt, owner, held, conn, vdbe>>
  BY DEF EachStepFails
<1>4. \A t \in Running \ {Top} : stmt'[t] # Null =>
         stmt'[t] = stmt[t] /\ mode'[stmt[t]] = mode[stmt[t]] /\ t \notin held'
  <2>1. \A t \in Running : t \in Stmt /\ (stmt[t] # Null => t \notin held)
    BY ElementOfSeq DEF Running, IInv, TypeOK, CallbackMidRow
  <2>2. QED
    BY <1>2, <1>3, <2>1, ModeEffect
<1>5. CallbackMidRow' /\ FramesDistinct'
  BY <1>3, <1>4, PopKeeps
<1>6. QED
  BY <1>1, <1>2, <1>3, <1>5, ModeEffect DEF IInv

LEMMA EachThrowsKeeps == ASSUME IInv, EachThrows PROVE IInv'
<1>1. TypeOK'
  BY TypeStep DEF Next, IInv
<1>2. /\ frames # <<>> /\ Pop
      /\ UNCHANGED <<handle, registry, stmt, owner, held, engineVars>>
  BY DEF EachThrows
<1>3. CallbackMidRow' /\ FramesDistinct'
  BY <1>2, PopKeeps DEF engineVars, IInv, CallbackMidRow
<1>4. NoDanglingStatement' /\ RegistryExact' /\ ConnectionsAccounted' /\ OrphansIdle' /\ HeldOpen'
  BY <1>2 DEF engineVars, IInv, NoDanglingStatement, RegistryExact, ConnectionsAccounted,
     OrphansIdle, Orphan, HeldOpen
<1>5. QED
  BY <1>1, <1>3, <1>4 DEF IInv

LEMMA StutterKeeps == ASSUME IInv, UNCHANGED vars PROVE IInv'
  BY DEF vars, IInv, TypeOK, NoDanglingStatement, RegistryExact, ConnectionsAccounted,
     OrphansIdle, Orphan, CallbackMidRow, Running, FramesDistinct, HeldOpen

LEMMA InvariantStep == IInv /\ [Next]_vars => IInv'
<1> SUFFICES ASSUME IInv, [Next]_vars PROVE IInv'
  OBVIOUS
<1>1. ASSUME NEW d \in Db, PrepareBindFails(d) \/ ExecStepFails(d) PROVE IInv'
  BY <1>1, LeakEffect DEF PrepareBindFails, ExecStepFails
<1>2. ASSUME NEW d \in Db,
             \/ OpenDatabase(d) \/ Prepare(d) \/ PrepareBindFails(d) \/ ExecStepFails(d)
             \/ RunStepFails(d) \/ EachFirstRow(d) \/ Export(d) \/ Close(d)
      PROVE  IInv'
  BY <1>1, <1>2, OpenDatabaseKeeps, PrepareKeeps, RunStepFailsKeeps, EachFirstRowKeeps,
     ExportKeeps, CloseKeeps
<1>3. ASSUME NEW s \in Stmt, Step(s) \/ Reset(s) \/ Free(s) PROVE IInv'
  BY <1>3, StepOrResetKeeps, FreeKeeps
<1>4. CASE EachDone \/ EachStepFails \/ EachThrows
  BY <1>4, EachDoneKeeps, EachStepFailsKeeps, EachThrowsKeeps
<1>5. CASE UNCHANGED vars
  BY <1>5, StutterKeeps
<1>6. QED
  BY <1>2, <1>3, <1>4, <1>5 DEF Next

LEMMA Invariance == Spec => []IInv
  BY InvariantInit, InvariantStep, PTL DEF Spec

-----------------------------------------------------------------------------
(***************************************************************************)
(* The theorems.                                                           *)
(***************************************************************************)

\* No use after free: the address in an open Statement is always that of a live
\* statement of its Database's present connection, whatever was closed,
\* exported, leaked or reused in between, and from inside any callback.
THEOREM NoDangling == Spec => []NoDanglingStatement
<1>1. IInv => NoDanglingStatement
  BY DEF IInv
<1>2. QED
  BY <1>1, Invariance, PTL

\* close() and export() finalize exactly what is theirs to finalize.
THEOREM RegistryIsExact == Spec => []RegistryExact
<1>1. IInv => RegistryExact
  BY DEF IInv
<1>2. QED
  BY <1>1, Invariance, PTL

\* Every connection is a Database's handle, free, or a zombie kept by a leaked
\* statement: export() and close() lose no connection in any other way.
THEOREM ConnectionsAreAccounted == Spec => []ConnectionsAccounted
<1>1. IInv => ConnectionsAccounted
  BY DEF IInv
<1>2. QED
  BY <1>1, Invariance, PTL

\* A leaked statement is never in the middle of its rows.
THEOREM LeaksAreIdle == Spec => []OrphansIdle
<1>1. IInv => OrphansIdle
  BY DEF IInv
<1>2. QED
  BY <1>1, Invariance, PTL

\* Whatever a callback of each() does, the step after it continues or throws.
THEOREM CallbackSafe == Spec => []CallbackMidRow
<1>1. IInv => CallbackMidRow
  BY DEF IInv
<1>2. QED
  BY <1>1, Invariance, PTL

-----------------------------------------------------------------------------
(***************************************************************************)
(* Handles implements HandleContract, and no call on one Database disturbs *)
(* another.                                                                *)
(***************************************************************************)
\* The refinement mapping of Handles!Contract.
OpenMap == [d \in Db |-> handle[d] # Null]
OfMap   == [s \in Stmt |-> IF stmt[s] = Null THEN Null ELSE owner[s]]

-----------------------------------------------------------------------------
(***************************************************************************)
(* Each action maps to an action of the contract or to a stutter.          *)
(***************************************************************************)
LEMMA OpenMaps == ASSUME IInv, NEW d \in Db, OpenDatabase(d) PROVE Contract!OpenDatabase(d)
<1>1. handle[d] = Null /\ stmt' = stmt /\ owner' = owner
  BY DEF OpenDatabase
<1>2. PICK c \in Conn : handle' = [handle EXCEPT ![d] = c]
  BY DEF OpenDatabase
<1>3. c # Null
  BY NullAssumption
<1>4. OpenMap' = [OpenMap EXCEPT ![d] = TRUE]
  BY <1>2, <1>3 DEF OpenMap, IInv, TypeOK
<1>5. OfMap' = OfMap
  BY <1>1 DEF OfMap
<1>6. QED
  BY <1>1, <1>4, <1>5 DEF Contract!OpenDatabase, OpenMap, OfMap

LEMMA EnrolMaps ==
    ASSUME IInv, NEW d \in Db, NEW p \in Ptr, NEW s \in Stmt,
           NEW m \in Modes, Compile(d, p, m), Enrol(d, p, s)
    PROVE  Contract!OpenStatement(d)
<1>1. /\ handle[d] # Null /\ handle' = handle /\ stmt[s] = Null
      /\ stmt'[s] = p /\ owner'[s] = d /\ p # Null
      /\ \A t \in Stmt \ {s} : stmt'[t] = stmt[t] /\ owner'[t] = owner[t]
  BY NullAssumption DEF Compile, Enrol, Fresh, IInv, TypeOK
<1>2. OpenMap[d] /\ OpenMap' = OpenMap
  BY <1>1 DEF OpenMap
<1>3. OfMap[s] = Null
  BY <1>1 DEF OfMap
<1>4. OfMap' = [OfMap EXCEPT ![s] = d]
  BY <1>1 DEF OfMap
<1>5. QED
  BY <1>2, <1>3, <1>4 DEF Contract!OpenStatement, OpenMap, OfMap

LEMMA FreeEachMaps ==
    ASSUME IInv, NEW S \in SUBSET Stmt, \A s \in S : stmt[s] # Null, FreeEach(S)
    PROVE  OfMap' = [s \in Stmt |-> IF s \in S THEN Null ELSE OfMap[s]]
<1>1. \A s \in Stmt : OfMap'[s] = IF s \in S THEN Null ELSE OfMap[s]
  BY FreeEachEffect DEF OfMap
<1>2. QED
  BY <1>1 DEF OfMap

LEMMA FreeMaps ==
    ASSUME IInv, NEW s \in Stmt, stmt[s] # Null, FreeEach({s}), handle' = handle
    PROVE  Contract!CloseStatement(s)
<1>1. OfMap' = [t \in Stmt |-> IF t \in {s} THEN Null ELSE OfMap[t]]
  BY FreeEachMaps
<1>2. OfMap[s] # Null
  BY DEF OfMap, IInv, NoDanglingStatement
<1>3. OpenMap' = OpenMap
  BY DEF OpenMap
<1>4. QED
  <2>1. [OfMap EXCEPT ![s] = Null] = [t \in Stmt |-> IF t \in {s} THEN Null ELSE OfMap[t]]
    BY DEF OfMap
  <2>2. OfMap' = [OfMap EXCEPT ![s] = Null]
    BY <1>1, <2>1
  <2>3. QED
    BY <1>2, <1>3, <2>2 DEF Contract!CloseStatement, OpenMap, OfMap

LEMMA ReleaseMaps ==
    ASSUME IInv, NEW d \in Db, FreeEach(Registered(d))
    PROVE  OfMap' = [s \in Stmt |-> IF OfMap[s] = d THEN Null ELSE OfMap[s]]
<1>1. Registered(d) \in SUBSET Stmt /\ \A s \in Registered(d) : stmt[s] # Null
  BY RegisteredIsOwned DEF Registered
<1>2. \A s \in Stmt : s \in Registered(d) <=> OfMap[s] = d
  <2>1. d # Null
    BY NullAssumption
  <2>2. QED
    BY <2>1, RegisteredIsOwned DEF OfMap
<1>3. QED
  BY <1>1, <1>2, FreeEachMaps

LEMMA ExportMaps == ASSUME IInv, NEW d \in Db, Export(d) PROVE Contract!Export(d)
<1>1. handle[d] # Null /\ FreeEach(Registered(d))
  BY DEF Export
<1>2. PICK c \in Conn : handle' = [handle EXCEPT ![d] = c]
  BY DEF Export
<1>3. OpenMap' = OpenMap
  BY <1>1, <1>2, NullAssumption DEF OpenMap, IInv, TypeOK
<1>4. QED
  BY <1>1, <1>3, ReleaseMaps DEF Contract!Export, Contract!CloseAll, OpenMap, OfMap

LEMMA CloseMaps == ASSUME IInv, NEW d \in Db, Close(d) PROVE Contract!CloseDatabase(d)
<1>1. handle[d] # Null /\ FreeEach(Registered(d)) /\ handle' = [handle EXCEPT ![d] = Null]
  BY DEF Close
<1>2. OpenMap' = [OpenMap EXCEPT ![d] = FALSE]
  BY <1>1 DEF OpenMap, IInv, TypeOK
<1>3. QED
  BY <1>1, <1>2, ReleaseMaps DEF Contract!CloseDatabase, Contract!CloseAll, OpenMap, OfMap

LEMMA StutterMaps ==
    ASSUME UNCHANGED <<handle, stmt, owner>> PROVE UNCHANGED Contract!vars
  BY DEF Contract!vars

LEMMA ContractStep == IInv /\ [Next]_vars => [Contract!Next]_(Contract!vars)
<1> SUFFICES ASSUME IInv, [Next]_vars PROVE [Contract!Next]_(Contract!vars)
  OBVIOUS
<1>1. ASSUME NEW d \in Db, OpenDatabase(d) PROVE Contract!Next
  BY <1>1, OpenMaps DEF Contract!Next
<1>2. ASSUME NEW d \in Db, Prepare(d) \/ RunStepFails(d) \/ EachFirstRow(d)
      PROVE  Contract!Next
  <2>1. PICK p \in Ptr, s \in Stmt, m \in Modes :
            Compile(d, p, m) /\ Enrol(d, p, s)
    BY <1>2 DEF Prepare, RunStepFails, EachFirstRow
  <2>2. Contract!OpenStatement(d)
    BY <2>1, EnrolMaps
  <2>3. QED
    BY <2>2 DEF Contract!Next
<1>3. ASSUME NEW d \in Db, PrepareBindFails(d) \/ ExecStepFails(d)
      PROVE  UNCHANGED Contract!vars
  BY <1>3, StutterMaps DEF PrepareBindFails, ExecStepFails, jsVars
<1>4. ASSUME NEW d \in Db, Export(d) \/ Close(d) PROVE Contract!Next
  BY <1>4, ExportMaps, CloseMaps DEF Contract!Next
<1>5. ASSUME NEW s \in Stmt, Step(s) \/ Reset(s) PROVE UNCHANGED Contract!vars
  BY <1>5, StutterMaps DEF Step, Reset
<1>6. ASSUME NEW s \in Stmt, Free(s) PROVE Contract!Next
  BY <1>6, FreeMaps DEF Free, Contract!Next
<1>7. CASE EachDone
  <2>1. Top \in Stmt
    BY <1>7, PopFrames DEF EachDone, IInv
  <2>2. PICK s \in Stmt : s = Top
    BY <2>1
  <2>3. stmt[s] # Null /\ handle' = handle
    BY <1>7, <2>2 DEF EachDone
  <2>4. FreeEach({s})
    BY <1>7, <2>2 DEF EachDone, FreeEach, FinalizeAll
  <2>5. Contract!CloseStatement(s)
    BY <2>3, <2>4, FreeMaps
  <2>6. QED
    BY <2>5 DEF Contract!Next
<1>8. CASE EachStepFails \/ EachThrows
  BY <1>8, StutterMaps DEF EachStepFails, EachThrows
<1>9. CASE UNCHANGED vars
  BY <1>9, StutterMaps DEF vars
<1>10. QED
  BY <1>1, <1>2, <1>3, <1>4, <1>5, <1>6, <1>7, <1>8, <1>9 DEF Next

\* The wrapper keeps its promise whatever connections and addresses it goes
\* through: a Statement is open exactly from the call that makes it to the call
\* that frees it, or that closes or exports its Database.
THEOREM ImplementsContract == Spec => ContractHolds
<1>1. Init => Contract!Init
  BY DEF Init, Contract!Init
<1>2. QED
  BY <1>1, ContractStep, Invariance, PTL DEF Spec, ContractHolds, Contract!Spec

-----------------------------------------------------------------------------
(***************************************************************************)
(* No cross-talk: a step touches at most one Database.                     *)
(***************************************************************************)

\* What belongs to Database e stays as it is.
Untouched(e) ==
    /\ handle'[e] = handle[e]
    /\ registry'[e] = registry[e]
    /\ \A s \in Stmt : owner[s] = e /\ stmt[s] # Null =>
          /\ stmt'[s] = stmt[s]
          /\ vdbe'[stmt[s]] = vdbe[stmt[s]]
          /\ mode'[stmt[s]] = mode[stmt[s]]

LEMMA EnrolLocal ==
    ASSUME IInv, NEW d \in Db, NEW p \in Ptr, NEW s \in Stmt,
           NEW m \in Modes, Compile(d, p, m), Enrol(d, p, s),
           NEW e \in Db \ {d}
    PROVE  Untouched(e)
<1>1. handle'[e] = handle[e] /\ registry'[e] = registry[e]
  BY DEF Enrol, IInv, TypeOK
<1>2. ASSUME NEW t \in Stmt, stmt[t] # Null
      PROVE  /\ stmt'[t] = stmt[t]
             /\ vdbe'[stmt[t]] = vdbe[stmt[t]]
             /\ mode'[stmt[t]] = mode[stmt[t]]
  <2>1. t # s /\ stmt'[t] = stmt[t]
    BY <1>2, EnrolEffect
  <2>2. stmt[t] \in Ptr \ {p}
    BY <1>2, NullAssumption DEF Compile, IInv, TypeOK, NoDanglingStatement
  <2>3. QED
    BY <2>1, <2>2 DEF Compile, IInv, TypeOK
<1>3. QED
  BY <1>1, <1>2 DEF Untouched

LEMMA FreeEachLocal ==
    ASSUME IInv, NEW d \in Db, NEW S \in SUBSET Stmt,
           \A s \in S : stmt[s] # Null /\ owner[s] = d, FreeEach(S),
           NEW e \in Db \ {d}, handle'[e] = handle[e]
    PROVE  Untouched(e)
<1>1. registry'[e] = registry[e]
  <2>1. registry'[e] = [p \in Ptr |->
            IF \E s \in S : owner[s] = e /\ stmt[s] = p THEN Null ELSE registry[e][p]]
    BY DEF FreeEach
  <2>2. registry'[e] = [p \in Ptr |-> registry[e][p]]
    BY <2>1
  <2>3. QED
    BY <2>2 DEF IInv, TypeOK
<1>2. \A s \in Stmt : owner[s] = e => s \in Stmt \ S
  OBVIOUS
<1>3. QED
  BY <1>1, <1>2, FreeEachEffect DEF Untouched

LEMMA LocalStep ==
    ASSUME IInv, [Next]_vars, NEW d \in Db, NEW e \in Db, d # e,
           handle'[d] # handle[d] \/ registry'[d] # registry[d]
    PROVE  Untouched(e)
<1> USE DEF IInv
<1>1. ASSUME NEW x \in Db, OpenDatabase(x) PROVE Untouched(e)
  <2>1. \A y \in Db \ {x} : handle'[y] = handle[y] /\ registry'[y] = registry[y]
    BY <1>1 DEF OpenDatabase, TypeOK
  <2>2. x = d
    BY <2>1
  <2>3. stmt' = stmt /\ vdbe' = vdbe /\ mode' = mode
    BY <1>1 DEF OpenDatabase
  <2>4. QED
    BY <2>1, <2>2, <2>3 DEF Untouched
<1>2. ASSUME NEW x \in Db, Prepare(x) \/ RunStepFails(x) \/ EachFirstRow(x) PROVE Untouched(e)
  <2>1. PICK p \in Ptr, s \in Stmt, m \in Modes :
            Compile(x, p, m) /\ Enrol(x, p, s)
    BY <1>2 DEF Prepare, RunStepFails, EachFirstRow
  <2>2. \A y \in Db \ {x} : Untouched(y)
    BY <2>1, EnrolLocal
  <2>3. x = d
    BY <2>2 DEF Untouched
  <2>4. QED
    BY <2>2, <2>3
<1>3. ASSUME NEW x \in Db, Export(x) \/ Close(x) PROVE Untouched(e)
  <2>1. FreeEach(Registered(x)) /\ \A y \in Db \ {x} : handle'[y] = handle[y]
    BY <1>3 DEF Export, Close, TypeOK
  <2>2. /\ Registered(x) \in SUBSET Stmt
        /\ \A s \in Registered(x) : stmt[s] # Null /\ owner[s] = x
    BY RegisteredIsOwned DEF Registered
  <2>3. \A y \in Db \ {x} : Untouched(y)
    BY <2>1, <2>2, FreeEachLocal
  <2>4. x = d
    BY <2>3 DEF Untouched
  <2>5. QED
    BY <2>3, <2>4
<1>4. ASSUME NEW s \in Stmt, stmt[s] # Null, FreeEach({s}), handle' = handle PROVE Untouched(e)
  <2>1. owner[s] \in Db
    BY <1>4 DEF TypeOK, NoDanglingStatement
  <2>2. \A y \in Db \ {owner[s]} : Untouched(y)
    <3>1. PICK x \in Db : x = owner[s]
      BY <2>1
    <3>2. \A y \in Db \ {x} : Untouched(y)
      BY <1>4, <3>1, FreeEachLocal
    <3>3. QED
      BY <3>1, <3>2
  <2>3. owner[s] = d
    BY <1>4, <2>2 DEF Untouched
  <2>4. QED
    BY <2>2, <2>3
<1>5. CASE EachDone
  <2>1. PICK s \in Stmt : s = Top
    BY <1>5, PopFrames DEF EachDone
  <2>2. stmt[s] # Null /\ handle' = handle
    BY <1>5, <2>1 DEF EachDone
  <2>3. FreeEach({s})
    BY <1>5, <2>1 DEF EachDone, FreeEach, FinalizeAll
  <2>4. QED
    BY <2>2, <2>3, <1>4
<1>6. ASSUME NEW s \in Stmt, Free(s) PROVE Untouched(e)
  BY <1>4, <1>6 DEF Free
<1>7. ASSUME UNCHANGED <<handle, registry>> PROVE FALSE
  BY <1>7
<1>8. ASSUME NEW x \in Db, PrepareBindFails(x) \/ ExecStepFails(x) PROVE FALSE
  BY <1>7, <1>8 DEF PrepareBindFails, ExecStepFails, jsVars
<1>9. ASSUME NEW s \in Stmt, Step(s) \/ Reset(s) PROVE FALSE
  BY <1>7, <1>9 DEF Step, Reset
<1>10. CASE EachStepFails \/ EachThrows \/ UNCHANGED vars
  BY <1>7, <1>10 DEF EachStepFails, EachThrows, vars
<1>11. QED
  BY <1>1, <1>2, <1>3, <1>5, <1>6, <1>8, <1>9, <1>10 DEF Next

\* A call on one Database never reaches the statements, the registry or the
\* connection of another, though their addresses come from one heap.
THEOREM DatabasesAreIsolated == Spec => NoCrossTalk
<1>1. IInv /\ [Next]_vars =>
        [\A d, e \in Db :
            d # e /\ (handle'[d] # handle[d] \/ registry'[d] # registry[d]) =>
                /\ handle'[e] = handle[e]
                /\ registry'[e] = registry[e]
                /\ \A s \in Stmt : owner[s] = e /\ stmt[s] # Null =>
                      /\ stmt'[s] = stmt[s]
                      /\ vdbe'[stmt[s]] = vdbe[stmt[s]]
                      /\ mode'[stmt[s]] = mode[stmt[s]]]_vars
  BY LocalStep DEF Untouched
<1>2. QED
  BY <1>1, Invariance, PTL DEF Spec, NoCrossTalk
=============================================================================
