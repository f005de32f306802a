----------------------- MODULE StatementMemoryProofs -----------------------
(***************************************************************************)
(* Proofs about StatementMemory: it adds memory to Handles without         *)
(* changing what the handles do; no block is freed twice, and bindings     *)
(* point at allocated blocks of their own statement.                       *)
(***************************************************************************)
EXTENDS StatementMemory, HandlesProofs, WellFoundedInduction

Cell == Block \cup {Null}

\* A list that holds no block twice.
Distinct(q) == \A i, j \in DOMAIN q : q[i] = q[j] /\ q[i] # Null => i = j

-----------------------------------------------------------------------------
(***************************************************************************)
(* Lists.                                                                  *)
(***************************************************************************)
LEMMA ListsAreSeqs ==
    \A q : q \in Lists <=> q \in Seq(Cell) /\ Len(q) <= MaxMem
<1>1. MaxMem \in Nat
  BY BoundsAssumption
<1>2. ASSUME NEW q \in Lists PROVE q \in Seq(Cell) /\ Len(q) <= MaxMem
  <2>1. PICK n \in 0..MaxMem : q \in [1..n -> Cell]
    BY DEF Lists, Cell
  <2>2. q \in Seq(Cell) /\ Len(q) = n
    BY <1>1, <2>1
  <2>3. QED
    BY <1>1, <2>2
<1>3. ASSUME NEW q \in Seq(Cell), Len(q) <= MaxMem PROVE q \in Lists
  <2>1. Len(q) \in 0..MaxMem /\ q \in [1..Len(q) -> Cell]
    BY <1>1, <1>3
  <2>2. QED
    BY <2>1 DEF Lists, Cell
<1>4. QED
  BY <1>2, <1>3

LEMMA EmptyList ==
    <<>> \in Seq(Cell) /\ <<>> \in Lists /\ Listed(<<>>) = {} /\ Distinct(<<>>)
<1>1. <<>> \in Seq(Cell) /\ Len(<<>>) = 0
  OBVIOUS
<1>2. 0 <= MaxMem
  BY BoundsAssumption
<1>3. <<>> \in Lists
  BY <1>1, <1>2, ListsAreSeqs
<1>4. Listed(<<>>) = {} /\ Distinct(<<>>)
  BY DEF Listed, Distinct
<1>5. QED
  BY <1>1, <1>3, <1>4

LEMMA PushesFacts ==
    ASSUME NEW used \in SUBSET Block, NEW q \in Pushes(used)
    PROVE  /\ q \in Seq(Cell) /\ Distinct(q)
           /\ Listed(q) \subseteq Block \ used
           /\ \A B \in Bindings(q) : B \subseteq Listed(q)
<1>1. MaxParams \in Nat
  BY BoundsAssumption
<1>2. PICK n \in 0..MaxParams : q \in [1..n -> (Block \ used) \cup {Null}]
  BY DEF Pushes
<1>3. q \in Seq(Cell) /\ Len(q) = n /\ DOMAIN q = 1..n
  BY <1>1, <1>2 DEF Cell
<1>4. Distinct(q)
  BY DEF Pushes, Distinct
<1>5. Listed(q) \subseteq Block \ used
  BY <1>2, <1>3 DEF Listed
<1>6. Listed(SubSeq(q, 1, Len(q) - 1)) \subseteq Listed(q)
  <2>1. Len(q) \in Nat
    BY <1>3
  <2>2. DOMAIN SubSeq(q, 1, Len(q) - 1) = 1..(Len(q) - 1)
    BY <1>3, <2>1
  <2>3. \A i \in 1..(Len(q) - 1) : SubSeq(q, 1, Len(q) - 1)[i] = q[i] /\ i \in DOMAIN q
    BY <1>3, <2>1
  <2>4. QED
    BY <2>2, <2>3 DEF Listed
<1>7. QED
  BY <1>3, <1>4, <1>5, <1>6 DEF Bindings

LEMMA ConcatFacts ==
    ASSUME NEW q \in Seq(Cell), NEW r \in Seq(Cell)
    PROVE  /\ q \o r \in Seq(Cell)
           /\ Listed(q \o r) = Listed(q) \cup Listed(r)
           /\ Distinct(q) /\ Distinct(r) /\ Listed(q) \cap Listed(r) = {}
                  => Distinct(q \o r)
<1> DEFINE s == q \o r
<1>1. /\ s \in Seq(Cell) /\ Len(q) \in Nat /\ Len(r) \in Nat
      /\ DOMAIN s = 1..(Len(q) + Len(r)) /\ DOMAIN q = 1..Len(q) /\ DOMAIN r = 1..Len(r)
  OBVIOUS
<1>2. \A i \in DOMAIN s : IF i <= Len(q) THEN i \in DOMAIN q /\ s[i] = q[i]
                                        ELSE i - Len(q) \in DOMAIN r /\ s[i] = r[i - Len(q)]
  OBVIOUS
<1>3. \A i \in DOMAIN q : i \in DOMAIN s /\ s[i] = q[i]
  OBVIOUS
<1>4. \A i \in DOMAIN r : i + Len(q) \in DOMAIN s /\ s[i + Len(q)] = r[i]
  OBVIOUS
<1> HIDE DEF s
<1>5. Listed(s) = Listed(q) \cup Listed(r)
  <2>1. Listed(s) \subseteq Listed(q) \cup Listed(r)
    BY <1>2 DEF Listed
  <2>2. Listed(q) \cup Listed(r) \subseteq Listed(s)
    BY <1>3, <1>4 DEF Listed
  <2>3. QED
    BY <2>1, <2>2
<1>6. ASSUME Distinct(q), Distinct(r), Listed(q) \cap Listed(r) = {}
      PROVE  Distinct(s)
  <2> SUFFICES ASSUME NEW i \in DOMAIN s, NEW j \in DOMAIN s, s[i] = s[j], s[i] # Null
               PROVE  i = j
    BY DEF Distinct
  <2>1. CASE i <= Len(q) /\ j <= Len(q)
    BY <1>2, <1>6, <2>1 DEF Distinct
  <2>2. CASE ~(i <= Len(q)) /\ ~(j <= Len(q))
    <3>1. i - Len(q) = j - Len(q)
      BY <1>2, <1>6, <2>2 DEF Distinct
    <3>2. QED
      BY <3>1, <1>1
  <2>3. CASE (i <= Len(q)) # (j <= Len(q))
    <3>1. s[i] \in Listed(q) /\ s[i] \in Listed(r)
      BY <1>2, <2>3 DEF Listed
    <3>2. QED
      BY <3>1, <1>6
  <2>4. QED
    BY <2>1, <2>2, <2>3
<1>7. QED
  BY <1>1, <1>5, <1>6 DEF s

\* The last zero of a list exists: turn the list around and take the least.
LEMMA StopFacts ==
    ASSUME NEW q \in Seq(Cell)
    PROVE  /\ Stop(q) \in 0..Len(q)
           /\ Stop(q) > 0 => q[Stop(q)] = Null
           /\ \A j \in (Stop(q) + 1)..Len(q) : q[j] # Null
<1> DEFINE Good(i) == /\ i > 0 => q[i] = Null
                      /\ \A j \in (i + 1)..Len(q) : q[j] # Null
           Ends == {n \in Nat : n <= Len(q) /\ (Len(q) - n > 0 => q[Len(q) - n] = Null)}
<1>1. Len(q) \in Nat
  OBVIOUS
<1>2. Ends \subseteq Nat /\ Len(q) \in Ends
  BY <1>1
<1>3. PICK m \in Ends : \A n \in Ends : ~(<<n, m>> \in OpToRel(<, Nat))
  BY <1>2, NatLessThanWellFounded, WFMin
<1>4. \A n \in Ends : ~(n < m)
  BY <1>2, <1>3 DEF OpToRel
<1>5. Len(q) - m \in 0..Len(q) /\ Good(Len(q) - m)
  <2>1. m \in Nat /\ m <= Len(q)
    OBVIOUS
  <2>2. ASSUME NEW j \in (Len(q) - m + 1)..Len(q), q[j] = Null PROVE FALSE
    <3>1. Len(q) - j \in Nat /\ Len(q) - j < m /\ Len(q) - (Len(q) - j) = j
      BY <1>1, <2>1
    <3>2. Len(q) - j \in Ends
      BY <1>1, <2>1, <2>2, <3>1
    <3>3. QED
      BY <1>4, <3>1, <3>2
  <2>3. QED
    BY <1>1, <2>1, <2>2
<1> HIDE DEF Ends
<1>6. \E i \in 0..Len(q) : Good(i)
  BY <1>5
<1>7. Stop(q) = CHOOSE i \in 0..Len(q) : Good(i)
  BY DEF Stop
<1>8. QED
  BY <1>6, <1>7

LEMMA FreememFacts ==
    ASSUME NEW q \in Seq(Cell)
    PROVE  /\ Kept(q) \in Seq(Cell)
           /\ Len(Kept(q)) <= Len(q)
           /\ Freed(q) \subseteq Listed(q)
           /\ Listed(q) \subseteq Freed(q) \cup Listed(Kept(q))
           /\ Listed(Kept(q)) \subseteq Listed(q)
           /\ Distinct(q) => Distinct(Kept(q)) /\ Listed(Kept(q)) \cap Freed(q) = {}
<1> DEFINE n == Stop(q)
           k == Kept(q)
<1>1. /\ Len(q) \in Nat /\ DOMAIN q = 1..Len(q) /\ n \in 0..Len(q)
      /\ n > 0 => q[n] = Null
      /\ \A j \in (n + 1)..Len(q) : q[j] # Null
  BY StopFacts
<1> HIDE DEF n
<1>2. k = SubSeq(q, 1, n - 1)
  BY DEF Kept, n
<1>3. /\ k \in Seq(Cell)
      /\ Len(k) = IF n = 0 THEN 0 ELSE n - 1
      /\ DOMAIN k = 1..(n - 1)
      /\ \A i \in 1..(n - 1) : k[i] = q[i]
  BY <1>1, <1>2
<1> HIDE DEF k
<1>4. Freed(q) = {q[i] : i \in (n + 1)..Len(q)}
  BY DEF Freed, n
<1>5. Freed(q) \subseteq Listed(q)
  BY <1>1, <1>4 DEF Listed
<1>6. ASSUME NEW b \in Listed(q) PROVE b \in Freed(q) \cup Listed(k)
  <2>1. PICK i \in 1..Len(q) : q[i] = b /\ b # Null
    BY <1>1 DEF Listed
  <2>2. i \in 1..(n - 1) \/ i = n \/ i \in (n + 1)..Len(q)
    BY <1>1
  <2>3. i # n
    BY <1>1, <2>1
  <2>4. CASE i \in 1..(n - 1)
    BY <1>3, <2>1, <2>4 DEF Listed
  <2>5. CASE i \in (n + 1)..Len(q)
    BY <1>4, <2>1, <2>5
  <2>6. QED
    BY <2>2, <2>3, <2>4, <2>5
<1>7. \A i \in DOMAIN k : i \in DOMAIN q /\ k[i] = q[i] /\ i < n
  BY <1>1, <1>3
<1>8. Listed(k) \subseteq Listed(q)
  BY <1>7 DEF Listed
<1>9. ASSUME Distinct(q) PROVE Distinct(k) /\ Listed(k) \cap Freed(q) = {}
  <2>1. Distinct(k)
    BY <1>7, <1>9 DEF Distinct
  <2>2. ASSUME NEW b \in Listed(k), b \in Freed(q) PROVE FALSE
    <3>1. PICK i \in DOMAIN k : k[i] = b /\ b # Null
      BY DEF Listed
    <3>2. PICK j \in (n + 1)..Len(q) : q[j] = b
      BY <1>4, <2>2
    <3>3. i \in DOMAIN q /\ j \in DOMAIN q /\ q[i] = q[j] /\ q[i] # Null /\ i < j
      BY <1>1, <1>7, <3>1, <3>2
    <3>4. i = j /\ i \in Nat
      BY <1>1, <1>9, <3>3 DEF Distinct
    <3>5. QED
      BY <3>3, <3>4
  <2>3. QED
    BY <2>1, <2>2
<1>10. Len(k) <= Len(q)
  BY <1>1, <1>3
<1>11. QED
  BY <1>3, <1>5, <1>6, <1>8, <1>9, <1>10 DEF k

\* BlocksApart in the form the proofs use, for any lists m, allocated blocks l
\* and addresses a.
Apart(m, l, a) ==
    /\ \A s \in Stmt : Listed(m[s]) \subseteq l
    /\ \A s \in Stmt : Distinct(m[s])
    /\ \A s, t \in Stmt : s # t => Listed(m[s]) \cap Listed(m[t]) = {}
    /\ \A s \in Stmt : a[s] = Null => m[s] = <<>>

LEMMA ApartForm ==
    ASSUME NEW m, NEW l, NEW a
    PROVE  Apart(m, l, a) <=>
             /\ \A s \in Stmt : Listed(m[s]) \subseteq l
             /\ \A s, t \in Stmt : \A i \in DOMAIN m[s], j \in DOMAIN m[t] :
                   m[s][i] = m[t][j] /\ m[s][i] # Null => s = t /\ i = j
             /\ \A s \in Stmt : a[s] = Null => m[s] = <<>>
<1> DEFINE Once == \A s, t \in Stmt : \A i \in DOMAIN m[s], j \in DOMAIN m[t] :
                      m[s][i] = m[t][j] /\ m[s][i] # Null => s = t /\ i = j
           Separate == /\ \A s \in Stmt : Distinct(m[s])
                       /\ \A s, t \in Stmt : s # t => Listed(m[s]) \cap Listed(m[t]) = {}
<1>1. ASSUME Once PROVE Separate
  <2>1. \A s \in Stmt : Distinct(m[s])
    BY <1>1 DEF Distinct
  <2>2. ASSUME NEW s \in Stmt, NEW t \in Stmt, s # t, NEW b \in Listed(m[s]), b \in Listed(m[t])
        PROVE  FALSE
    <3>1. PICK i \in DOMAIN m[s] : m[s][i] = b /\ b # Null
      BY DEF Listed
    <3>2. PICK j \in DOMAIN m[t] : m[t][j] = b
      BY <2>2 DEF Listed
    <3>3. QED
      BY <1>1, <2>2, <3>1, <3>2
  <2>3. QED
    BY <2>1, <2>2
<1>2. ASSUME Separate PROVE Once
  <2> SUFFICES ASSUME NEW s \in Stmt, NEW t \in Stmt, NEW i \in DOMAIN m[s],
                      NEW j \in DOMAIN m[t], m[s][i] = m[t][j], m[s][i] # Null
               PROVE  s = t /\ i = j
    OBVIOUS
  <2>1. m[s][i] \in Listed(m[s]) /\ m[s][i] \in Listed(m[t])
    BY DEF Listed
  <2>2. s = t
    BY <1>2, <2>1
  <2>3. QED
    BY <1>2, <2>2 DEF Distinct
<1> HIDE DEF Once, Separate
<1>3. Apart(m, l, a) <=> /\ \A s \in Stmt : Listed(m[s]) \subseteq l
                         /\ Separate
                         /\ \A s \in Stmt : a[s] = Null => m[s] = <<>>
  BY DEF Apart, Separate
<1>4. Once <=> Separate
  BY <1>1, <1>2
<1>5. QED
  BY <1>3, <1>4 DEF Once

\* The invariant, with BlocksApart in that form.
MemIInv == MemTypeOK /\ Apart(mem, live, stmt) /\ BindingsAlive

LEMMA MemIInvSuffices == MemIInv <=> MemTypeOK /\ BlocksApart /\ BindingsAlive
  BY ApartForm DEF MemIInv, BlocksApart

-----------------------------------------------------------------------------
(***************************************************************************)
(* Every step of StatementMemory is a step of Handles or leaves it alone.  *)
(***************************************************************************)
LEMMA MemStepIsStep == [MemNext]_allVars => [Next]_vars
<1> SUFFICES ASSUME [MemNext]_allVars PROVE [Next]_vars
  OBVIOUS
<1>1. ASSUME NEW d \in Db,
             \/ MemOpenDatabase(d) \/ MemPrepare(d) \/ MemPrepareBindFails(d)
             \/ MemExecStepFails(d) \/ MemRunStepFails(d) \/ MemEachFirstRow(d)
             \/ MemExport(d) \/ MemClose(d) \/ RunParams(d)
      PROVE  [Next]_vars
  BY <1>1 DEF MemOpenDatabase, MemPrepare, MemPrepareBindFails, MemExecStepFails,
     MemRunStepFails, MemEachFirstRow, MemExport, MemClose, RunParams, Next
<1>2. ASSUME NEW s \in Stmt, MemStep(s) \/ MemBind(s) \/ MemFree(s) \/ FreeMem(s)
      PROVE  [Next]_vars
  BY <1>2 DEF MemStep, MemBind, MemFree, FreeMem, Next
<1>3. CASE MemEachDone \/ MemEachStepFails \/ MemEachThrows
  BY <1>3 DEF MemEachDone, MemEachStepFails, MemEachThrows, Next
<1>4. CASE UNCHANGED allVars
  BY <1>4 DEF allVars, vars
<1>5. QED
  BY <1>1, <1>2, <1>3, <1>4 DEF MemNext

\* StatementMemory implements Handles: each theorem of HandlesProofs is a
\* theorem of MemSpec.
THEOREM MemoryRefinesHandles == MemSpec => Spec
<1>1. MemInit => Init
  BY DEF MemInit
<1>2. QED
  BY <1>1, MemStepIsStep, PTL DEF MemSpec, Spec
-----------------------------------------------------------------------------
(***************************************************************************)
(* What the parts of a call do.                                            *)
(***************************************************************************)
LEMMA MemTypes ==
    ASSUME MemTypeOK
    PROVE  /\ mem \in [Stmt -> Seq(Cell)]
           /\ \A s \in Stmt : mem[s] \in Seq(Cell) /\ Len(mem[s]) <= MaxMem
           /\ \A s \in Stmt : DOMAIN mem[s] = 1..Len(mem[s])
           /\ \A s \in Stmt : Listed(mem[s]) \subseteq Block
<1>1. ASSUME NEW s \in Stmt
      PROVE  mem[s] \in Seq(Cell) /\ Len(mem[s]) <= MaxMem
  BY ListsAreSeqs DEF MemTypeOK
<1>2. ASSUME NEW s \in Stmt PROVE DOMAIN mem[s] = 1..Len(mem[s])
  BY <1>1
<1>3. ASSUME NEW s \in Stmt PROVE Listed(mem[s]) \subseteq Block
  BY <1>1, <1>2 DEF Listed, Cell
<1>4. mem \in [Stmt -> Seq(Cell)]
  BY <1>1 DEF MemTypeOK
<1>5. QED
  BY <1>1, <1>2, <1>3, <1>4

\* bind() on s, on top of what its freemem() has left.
LEMMA BindEffect ==
    ASSUME MemIInv, NEW s \in Stmt, NEW p \in Ptr, NEW base \in Seq(Cell), NEW used \in SUBSET Block,
           BindAll(s, p, base, used),
           Listed(base) \subseteq used, Distinct(base),
           \A t \in Stmt \ {s} : /\ Listed(mem[t]) \subseteq used
                                 /\ Listed(mem[t]) \cap Listed(base) = {}
                                 /\ stmt'[t] = stmt[t]
                                 /\ stmt[t] # p,
           stmt'[s] = p, p # Null
    PROVE  MemIInv'
<1>01. PICK q \in Pushes(used) :
          /\ Len(base) + Len(q) <= MaxMem
          /\ mem' = [mem EXCEPT ![s] = base \o q]
          /\ \E B \in Bindings(q) : bound' = [bound EXCEPT ![p] = B]
          /\ live' = used \cup Listed(q)
          /\ starved' = (starved \/ \E i \in DOMAIN q : q[i] = Null)
          /\ loose' = loose \ {s}
  BY DEF BindAll
<1>02. PICK B \in Bindings(q) : bound' = [bound EXCEPT ![p] = B]
  BY <1>01
<1>1. /\ Len(base) + Len(q) <= MaxMem
      /\ mem' = [mem EXCEPT ![s] = base \o q]
      /\ bound' = [bound EXCEPT ![p] = B]
      /\ live' = used \cup Listed(q)
      /\ starved' = (starved \/ \E i \in DOMAIN q : q[i] = Null)
      /\ loose' = loose \ {s}
  BY <1>01, <1>02
<1>2. q \in Seq(Cell) /\ Distinct(q) /\ Listed(q) \subseteq Block \ used /\ B \subseteq Listed(q)
  BY PushesFacts
<1>3. /\ base \o q \in Seq(Cell)
      /\ Listed(base \o q) = Listed(base) \cup Listed(q)
      /\ Distinct(base \o q)
  BY <1>2, ConcatFacts
<1>4. /\ mem'[s] = base \o q
      /\ \A t \in Stmt \ {s} : mem'[t] = mem[t]
  BY <1>1 DEF MemIInv, MemTypeOK
<1>5. MemTypeOK'
  <2>1. base \o q \in Lists
    <3>1. Len(base \o q) = Len(base) + Len(q)
      BY <1>2
    <3>2. QED
      BY <1>1, <1>3, <3>1, ListsAreSeqs
  <2>2. mem' \in [Stmt -> Lists]
    BY <1>1, <2>1 DEF MemIInv, MemTypeOK
  <2>3. bound' \in [Ptr -> SUBSET Block]
    <3>1. B \in SUBSET Block
      BY <1>2
    <3>2. QED
      BY <1>1, <3>1 DEF MemIInv, MemTypeOK
  <2>4. live' \subseteq Block /\ loose' \subseteq Stmt /\ starved' \in BOOLEAN
    BY <1>1, <1>2 DEF MemIInv, MemTypeOK
  <2>5. QED
    BY <2>2, <2>3, <2>4 DEF MemTypeOK
<1>6. Apart(mem', live', stmt')
  <2>1. \A t \in Stmt : Listed(mem'[t]) \subseteq live' /\ Distinct(mem'[t])
    BY <1>1, <1>3, <1>4 DEF MemIInv, Apart
  <2>2. \A t \in Stmt \ {s} : Listed(mem'[t]) \cap Listed(mem'[s]) = {}
    BY <1>2, <1>3, <1>4
  <2>3. \A t, u \in Stmt : t # u => Listed(mem'[t]) \cap Listed(mem'[u]) = {}
    BY <1>4, <2>2 DEF MemIInv, Apart
  <2>4. \A t \in Stmt : stmt'[t] = Null => mem'[t] = <<>>
    BY <1>4 DEF MemIInv, Apart
  <2>5. QED
    BY <2>1, <2>3, <2>4 DEF Apart
<1>7. BindingsAlive'
  <2>1. bound'[p] \subseteq live' \cap Listed(mem'[s])
    <3>1. bound'[p] = B
      BY <1>1 DEF MemIInv, MemTypeOK
    <3>2. QED
      BY <3>1, <1>1, <1>2, <1>3, <1>4
  <2>2. ASSUME NEW t \in Stmt \ {s}, stmt'[t] # Null, t \notin loose'
        PROVE  bound'[stmt'[t]] \subseteq live' \cap Listed(mem'[t])
    <3>1. t \notin loose /\ stmt'[t] = stmt[t] /\ stmt[t] # p /\ mem'[t] = mem[t]
      BY <1>1, <1>4, <2>2
    <3>2. bound'[stmt[t]] = bound[stmt[t]]
      BY <1>1, <3>1 DEF MemIInv, MemTypeOK
    <3>3. bound[stmt[t]] \subseteq Listed(mem[t])
      BY <2>2, <3>1 DEF MemIInv, BindingsAlive
    <3>4. QED
      BY <1>1, <3>1, <3>2, <3>3
  <2>3. QED
    BY <2>1, <2>2 DEF BindingsAlive
<1>8. QED
  BY <1>5, <1>6, <1>7 DEF MemIInv
\* free() on every statement the call closes.
LEMMA FreedEffect ==
    ASSUME TypeOK, MemIInv, NEW S \in SUBSET Stmt, FreeEach(S), FreedMem
    PROVE  MemIInv'
<1> DEFINE C == {s \in Stmt : stmt[s] # Null /\ stmt'[s] = Null}
<1>1. \A t \in Stmt : stmt'[t] = stmt[t] \/ stmt'[t] = Null
  BY DEF FreeEach
<1>2. /\ live' = live \ UNION {Freed(mem[s]) : s \in C}
      /\ mem' = [s \in Stmt |-> IF s \in C THEN <<>> ELSE mem[s]]
      /\ bound' = [p \in Ptr |-> IF vdbe'[p] = Null THEN {} ELSE bound[p]]
      /\ loose' = loose \ C
      /\ starved' = starved
  BY DEF FreedMem
<1>3. \A t \in Stmt : t \in C <=> stmt[t] # Null /\ stmt'[t] = Null
  OBVIOUS
<1> HIDE DEF C
<1>4. /\ \A t \in Stmt : t \in C => mem'[t] = <<>>
      /\ \A t \in Stmt : t \notin C => mem'[t] = mem[t]
  BY <1>2
<1>5. ASSUME NEW t \in Stmt, t \notin C
      PROVE  Listed(mem[t]) \subseteq live'
  <2> SUFFICES ASSUME NEW b \in Listed(mem[t]), NEW s \in C, b \in Freed(mem[s]) PROVE FALSE
    BY <1>2 DEF MemIInv, Apart
  <2>1. s \in Stmt /\ s # t
    BY <1>5 DEF C
  <2>2. mem[s] \in Seq(Cell)
    BY <2>1, MemTypes DEF MemIInv
  <2>3. b \in Listed(mem[s])
    BY <2>2, FreememFacts
  <2>4. Listed(mem[s]) \cap Listed(mem[t]) = {}
    BY <2>1 DEF MemIInv, Apart
  <2>5. QED
    BY <2>3, <2>4
<1>6. Listed(<<>>) = {} /\ Distinct(<<>>) /\ <<>> \in Lists
  BY EmptyList
<1>7. MemTypeOK'
  <2>1. mem' \in [Stmt -> Lists]
    BY <1>2, <1>6 DEF MemIInv, MemTypeOK
  <2>2. bound' \in [Ptr -> SUBSET Block]
    BY <1>2 DEF MemIInv, MemTypeOK
  <2>3. live' \subseteq Block /\ loose' \subseteq Stmt /\ starved' \in BOOLEAN
    BY <1>2 DEF MemIInv, MemTypeOK
  <2>4. QED
    BY <2>1, <2>2, <2>3 DEF MemTypeOK
<1>8. Apart(mem', live', stmt')
  <2>1. \A t \in Stmt : Listed(mem'[t]) \subseteq live'
    BY <1>4, <1>5, <1>6
  <2>2. \A t \in Stmt : Distinct(mem'[t])
    BY <1>4, <1>6 DEF MemIInv, Apart
  <2>3. \A t, u \in Stmt : t # u => Listed(mem'[t]) \cap Listed(mem'[u]) = {}
    <3> SUFFICES ASSUME NEW t \in Stmt, NEW u \in Stmt, t # u
                 PROVE  Listed(mem'[t]) \cap Listed(mem'[u]) = {}
      OBVIOUS
    <3>1. CASE t \in C \/ u \in C
      BY <3>1, <1>4, <1>6
    <3>2. CASE t \notin C /\ u \notin C
      BY <3>2, <1>4 DEF MemIInv, Apart
    <3>3. QED
      BY <3>1, <3>2
  <2>4. \A t \in Stmt : stmt'[t] = Null => mem'[t] = <<>>
    BY <1>3, <1>4 DEF MemIInv, Apart
  <2>5. QED
    BY <2>1, <2>2, <2>3, <2>4 DEF Apart
<1>9. BindingsAlive'
  <2> SUFFICES ASSUME NEW t \in Stmt, stmt'[t] # Null, t \notin loose'
               PROVE  bound'[stmt'[t]] \subseteq live' \cap Listed(mem'[t])
    BY DEF BindingsAlive
  <2>1. stmt'[t] = stmt[t] /\ stmt[t] # Null /\ t \notin C
    BY <1>1, <1>3
  <2>2. t \notin loose
    BY <1>2, <2>1
  <2>3. bound[stmt[t]] \subseteq Listed(mem[t])
    BY <2>1, <2>2 DEF MemIInv, BindingsAlive
  <2>4. bound'[stmt[t]] \subseteq bound[stmt[t]]
    <3>1. stmt[t] \in Ptr
      BY <2>1 DEF TypeOK
    <3>2. QED
      BY <1>2, <3>1
  <2>5. QED
    BY <1>4, <1>5, <2>1, <2>3, <2>4
<1>10. QED
  BY <1>7, <1>8, <1>9 DEF MemIInv

\* A call that allocates at most, for a statement nobody has.
LEMMA GrowEffect ==
    ASSUME MemIInv, mem' = mem, loose' = loose, stmt' = stmt,
           live \subseteq live', live' \subseteq Block, starved' \in BOOLEAN,
           bound' \in [Ptr -> SUBSET Block],
           \A t \in Stmt : stmt[t] # Null => bound'[stmt[t]] = bound[stmt[t]]
    PROVE  MemIInv'
<1>1. MemTypeOK'
  BY DEF MemIInv, MemTypeOK
<1>2. Apart(mem', live', stmt')
  BY DEF MemIInv, Apart
<1>3. BindingsAlive'
  BY DEF MemIInv, BindingsAlive
<1>4. QED
  BY <1>1, <1>2, <1>3 DEF MemIInv

\* A call that has nothing to do with memory.
LEMMA KeepEffect ==
    ASSUME MemIInv, UNCHANGED memVars, stmt' = stmt
    PROVE  MemIInv'
<1>1. mem' = mem /\ bound' = bound /\ live' = live /\ loose' = loose /\ starved' = starved
  BY DEF memVars
<1>2. QED
  BY <1>1, GrowEffect DEF MemIInv, MemTypeOK

\* The call made a Statement: bind() on it, with nothing left from before.
LEMMA NewEffect ==
    ASSUME IInv, MemIInv, NEW d \in Db, NEW p \in Ptr, NEW s \in Stmt, NEW m \in Modes,
           Compile(d, p, m), Enrol(d, p, s), BindNew
    PROVE  MemIInv'
<1>1. /\ vdbe[p] = Null /\ p # Null /\ stmt[s] = Null
      /\ stmt'[s] = p
      /\ \A t \in Stmt \ {s} : stmt'[t] = stmt[t]
  BY NullAssumption DEF IInv, TypeOK, Compile, Enrol, Fresh
<1>2. \A t \in Stmt : stmt[t] # p
  BY <1>1 DEF IInv, NoDanglingStatement
<1>3. PICK u \in Stmt, r \in Ptr : stmt[u] = Null /\ stmt'[u] = r /\ BindAll(u, r, <<>>, live)
  BY DEF BindNew
<1>4. r # Null
  BY NullAssumption
<1>5. u = s /\ r = p
  BY <1>1, <1>3, <1>4
<1>6. Listed(<<>>) = {} /\ Distinct(<<>>) /\ <<>> \in Seq(Cell)
  BY EmptyList
<1>7. live \in SUBSET Block /\ \A t \in Stmt : Listed(mem[t]) \subseteq live
  BY DEF MemIInv, MemTypeOK, Apart
<1>8. BindAll(s, p, <<>>, live)
  BY <1>3, <1>5
<1>9. QED
  BY <1>1, <1>2, <1>6, <1>7, <1>8, BindEffect
-----------------------------------------------------------------------------
(***************************************************************************)
(* The calls.                                                              *)
(***************************************************************************)
LEMMA PrepareBindFailsKeeps ==
    ASSUME IInv, MemIInv, NEW d \in Db, MemPrepareBindFails(d)
    PROVE  MemIInv'
<1>1. PICK p \in Ptr, q \in Pushes(live) :
          /\ vdbe[p] = Null
          /\ \E B \in Bindings(q) : bound' = [bound EXCEPT ![p] = B]
          /\ live' = live \cup Listed(q)
          /\ starved' = (starved \/ \E i \in DOMAIN q : q[i] = Null)
  BY DEF MemPrepareBindFails
<1>2. PICK B \in Bindings(q) : bound' = [bound EXCEPT ![p] = B]
  BY <1>1
<1>3. live \in SUBSET Block
  BY DEF MemIInv, MemTypeOK
<1>4. Listed(q) \subseteq Block /\ B \subseteq Listed(q)
  BY <1>3, PushesFacts
<1>5. stmt' = stmt /\ mem' = mem /\ loose' = loose
  BY DEF MemPrepareBindFails, PrepareBindFails, jsVars
<1>6. B \in SUBSET Block /\ bound' \in [Ptr -> SUBSET Block]
  BY <1>2, <1>4 DEF MemIInv, MemTypeOK
<1>7. starved' \in BOOLEAN
  BY <1>1
<1>8. live \subseteq live' /\ live' \subseteq Block
  BY <1>1, <1>3, <1>4
<1>9. \A t \in Stmt : stmt[t] # Null => stmt[t] # p /\ stmt[t] \in Ptr
  BY <1>1 DEF IInv, TypeOK, NoDanglingStatement
<1>10. \A t \in Stmt : stmt[t] # Null => bound'[stmt[t]] = bound[stmt[t]]
  BY <1>2, <1>9 DEF MemIInv, MemTypeOK
<1>11. QED
  BY <1>5, <1>6, <1>7, <1>8, <1>10, GrowEffect

LEMMA RunParamsKeeps ==
    ASSUME MemIInv, NEW d \in Db, RunParams(d)
    PROVE  MemIInv'
<1>1. PICK q \in Pushes(live) :
          /\ live' = live \cup (Listed(q) \ Freed(q))
          /\ starved' = (starved \/ \E i \in DOMAIN q : q[i] = Null)
  BY DEF RunParams
<1>2. stmt' = stmt /\ mem' = mem /\ loose' = loose /\ bound' = bound
  BY DEF RunParams, vars
<1>3. live \in SUBSET Block
  BY DEF MemIInv, MemTypeOK
<1>4. Listed(q) \subseteq Block
  BY <1>3, PushesFacts
<1>5. starved' \in BOOLEAN /\ live \subseteq live' /\ live' \subseteq Block
  BY <1>1, <1>3, <1>4
<1>6. bound' \in [Ptr -> SUBSET Block]
  BY <1>2 DEF MemIInv, MemTypeOK
<1>7. QED
  BY <1>2, <1>5, <1>6, GrowEffect

\* What freemem() on s leaves, for bind() and for the program.
LEMMA FreememLeaves ==
    ASSUME MemIInv, NEW s \in Stmt
    PROVE  /\ Kept(mem[s]) \in Seq(Cell)
           /\ Len(Kept(mem[s])) <= MaxMem
           /\ Distinct(Kept(mem[s]))
           /\ Listed(Kept(mem[s])) \subseteq live \ Freed(mem[s])
           /\ \A t \in Stmt \ {s} : /\ Listed(mem[t]) \subseteq live \ Freed(mem[s])
                                   /\ Listed(mem[t]) \cap Listed(Kept(mem[s])) = {}
           /\ live \ Freed(mem[s]) \in SUBSET Block
<1>1. mem[s] \in Seq(Cell) /\ Len(mem[s]) <= MaxMem /\ Distinct(mem[s])
  BY MemTypes DEF MemIInv, Apart
<1>2. /\ Kept(mem[s]) \in Seq(Cell)
      /\ Len(Kept(mem[s])) <= Len(mem[s])
      /\ Freed(mem[s]) \subseteq Listed(mem[s])
      /\ Listed(Kept(mem[s])) \subseteq Listed(mem[s])
      /\ Distinct(Kept(mem[s]))
      /\ Listed(Kept(mem[s])) \cap Freed(mem[s]) = {}
  BY <1>1, FreememFacts
<1>3. Len(Kept(mem[s])) <= MaxMem
  <2>1. Len(Kept(mem[s])) \in Nat /\ Len(mem[s]) \in Nat /\ MaxMem \in Nat
    BY <1>1, <1>2, BoundsAssumption
  <2>2. QED
    BY <1>1, <1>2, <2>1
<1>4. \A t \in Stmt : Listed(mem[t]) \subseteq live
  BY DEF MemIInv, Apart
<1>5. \A t \in Stmt \ {s} : Listed(mem[t]) \cap Listed(mem[s]) = {}
  BY DEF MemIInv, Apart
<1>6. live \subseteq Block
  BY DEF MemIInv, MemTypeOK
<1>7. QED
  BY <1>2, <1>3, <1>4, <1>5, <1>6

LEMMA MemBindKeeps ==
    ASSUME IInv, MemIInv, NEW s \in Stmt, MemBind(s)
    PROVE  MemIInv'
<1>1. stmt[s] # Null /\ stmt' = stmt
  BY DEF MemBind, Reset
<1>2. stmt[s] \in Ptr
  BY <1>1 DEF IInv, TypeOK
<1>3. \A t \in Stmt \ {s} : stmt[t] # stmt[s]
  BY <1>1, AddressesDistinct
<1>4. BindAll(s, stmt[s], Kept(mem[s]), live \ Freed(mem[s]))
  BY DEF MemBind
<1>5. QED
  BY <1>1, <1>2, <1>3, <1>4, FreememLeaves, BindEffect

LEMMA FreeMemKeeps ==
    ASSUME MemIInv, NEW s \in Stmt, FreeMem(s)
    PROVE  MemIInv'
<1>1. /\ live' = live \ Freed(mem[s])
      /\ mem' = [mem EXCEPT ![s] = Kept(@)]
      /\ loose' = loose \cup {s}
      /\ bound' = bound /\ starved' = starved /\ stmt' = stmt /\ stmt[s] # Null
  BY DEF FreeMem, vars
<1>2. mem'[s] = Kept(mem[s]) /\ \A t \in Stmt \ {s} : mem'[t] = mem[t]
  BY <1>1 DEF MemIInv, MemTypeOK
<1>3. MemTypeOK'
  <2>1. Kept(mem[s]) \in Lists
    BY FreememLeaves, ListsAreSeqs
  <2>2. QED
    BY <1>1, <2>1 DEF MemIInv, MemTypeOK
<1>4. Apart(mem', live', stmt')
  <2>1. \A t \in Stmt : Listed(mem'[t]) \subseteq live'
    BY <1>1, <1>2, FreememLeaves
  <2>2. \A t \in Stmt : Distinct(mem'[t])
    BY <1>2, FreememLeaves DEF MemIInv, Apart
  <2>3. \A t \in Stmt \ {s} : Listed(mem'[t]) \cap Listed(mem'[s]) = {}
    BY <1>2, FreememLeaves
  <2>4. \A t, u \in Stmt : t # u => Listed(mem'[t]) \cap Listed(mem'[u]) = {}
    BY <1>2, <2>3 DEF MemIInv, Apart
  <2>5. \A t \in Stmt : stmt'[t] = Null => mem'[t] = <<>>
    BY <1>1, <1>2 DEF MemIInv, Apart
  <2>6. QED
    BY <2>1, <2>2, <2>4, <2>5 DEF Apart
<1>5. BindingsAlive'
  <2> SUFFICES ASSUME NEW t \in Stmt, stmt[t] # Null, t \notin loose'
               PROVE  bound[stmt[t]] \subseteq live' \cap Listed(mem'[t])
    BY <1>1 DEF BindingsAlive
  <2>1. t # s /\ t \notin loose /\ mem'[t] = mem[t]
    BY <1>1, <1>2
  <2>2. bound[stmt[t]] \subseteq Listed(mem[t])
    BY <2>1 DEF MemIInv, BindingsAlive
  <2>3. QED
    BY <1>1, <2>1, <2>2, FreememLeaves
<1>6. QED
  BY <1>3, <1>4, <1>5 DEF MemIInv

LEMMA MemInvariantStep == IInv /\ MemIInv /\ [MemNext]_allVars => MemIInv'
<1> SUFFICES ASSUME IInv, MemIInv, [MemNext]_allVars PROVE MemIInv'
  OBVIOUS
<1>00. TypeOK
  BY DEF IInv
<1>1. ASSUME NEW d \in Db, MemOpenDatabase(d) PROVE MemIInv'
  BY <1>1, KeepEffect DEF MemOpenDatabase, OpenDatabase
<1>2. ASSUME NEW d \in Db, MemPrepare(d) PROVE MemIInv'
  <2>1. PICK p \in Ptr, s \in Stmt : Compile(d, p, "ready") /\ Enrol(d, p, s)
    BY <1>2 DEF MemPrepare, Prepare
  <2>2. "ready" \in Modes /\ BindNew
    BY <1>2 DEF MemPrepare, Modes
  <2>3. QED
    BY <2>1, <2>2, NewEffect
<1>3. ASSUME NEW d \in Db, MemPrepareBindFails(d) PROVE MemIInv'
  BY <1>3, PrepareBindFailsKeeps
<1>4. ASSUME NEW d \in Db, MemExecStepFails(d) PROVE MemIInv'
  BY <1>4, KeepEffect DEF MemExecStepFails, ExecStepFails, jsVars
<1>5. ASSUME NEW d \in Db, MemRunStepFails(d) PROVE MemIInv'
  <2>1. PICK p \in Ptr, s \in Stmt, m \in {"busy", "halted"} :
            Compile(d, p, m) /\ Enrol(d, p, s)
    BY <1>5 DEF MemRunStepFails, RunStepFails
  <2>2. m \in Modes /\ BindNew
    BY <1>5 DEF MemRunStepFails, Modes
  <2>3. QED
    BY <2>1, <2>2, NewEffect
<1>6. ASSUME NEW d \in Db, MemEachFirstRow(d) PROVE MemIInv'
  <2>1. PICK p \in Ptr, s \in Stmt : Compile(d, p, "row") /\ Enrol(d, p, s)
    BY <1>6 DEF MemEachFirstRow, EachFirstRow
  <2>2. "row" \in Modes /\ BindNew
    BY <1>6 DEF MemEachFirstRow, Modes
  <2>3. QED
    BY <2>1, <2>2, NewEffect
<1>7. ASSUME NEW d \in Db, MemExport(d) \/ MemClose(d) PROVE MemIInv'
  <2>1. FreeEach(Registered(d)) /\ FreedMem
    BY <1>7 DEF MemExport, Export, MemClose, Close
  <2>2. Registered(d) \in SUBSET Stmt
    BY DEF Registered
  <2>3. QED
    BY <1>00, <2>1, <2>2, FreedEffect
<1>8. ASSUME NEW d \in Db, RunParams(d) PROVE MemIInv'
  BY <1>8, RunParamsKeeps
<1>9. ASSUME NEW s \in Stmt, MemStep(s) PROVE MemIInv'
  BY <1>9, KeepEffect DEF MemStep, Step
<1>10. ASSUME NEW s \in Stmt, MemBind(s) PROVE MemIInv'
  BY <1>10, MemBindKeeps
<1>11. ASSUME NEW s \in Stmt, MemFree(s) PROVE MemIInv'
  <2>1. FreeEach({s}) /\ FreedMem /\ {s} \in SUBSET Stmt
    BY <1>11 DEF MemFree, Free
  <2>2. QED
    BY <1>00, <2>1, FreedEffect
<1>12. ASSUME NEW s \in Stmt, FreeMem(s) PROVE MemIInv'
  BY <1>12, FreeMemKeeps
<1>13. CASE MemEachDone
  <2>1. FreeEach({Top}) /\ FreedMem /\ frames # <<>> /\ Pop
    BY <1>13 DEF MemEachDone, EachDone
  <2>2. {Top} \in SUBSET Stmt
    BY <1>00, <2>1, PopFrames
  <2>3. QED
    BY <1>00, <2>1, <2>2, FreedEffect
<1>14. CASE MemEachStepFails
  BY <1>14, KeepEffect DEF MemEachStepFails, EachStepFails
<1>15. CASE MemEachThrows
  BY <1>15, KeepEffect DEF MemEachThrows, EachThrows
<1>16. CASE UNCHANGED allVars
  <2>1. UNCHANGED memVars /\ stmt' = stmt
    BY <1>16 DEF allVars, vars
  <2>2. QED
    BY <2>1, KeepEffect
<1>17. QED
  BY <1>1, <1>2, <1>3, <1>4, <1>5, <1>6, <1>7, <1>8, <1>9, <1>10, <1>11, <1>12,
     <1>13, <1>14, <1>15, <1>16 DEF MemNext

LEMMA MemInvariantInit == MemInit => MemIInv
<1> SUFFICES ASSUME MemInit PROVE MemIInv
  OBVIOUS
<1>1. /\ mem = [s \in Stmt |-> <<>>]
      /\ bound = [p \in Ptr |-> {}]
      /\ live = {} /\ loose = {} /\ starved = FALSE
      /\ stmt = [s \in Stmt |-> Null]
  BY DEF MemInit, Init
<1>3. <<>> \in Lists /\ Listed(<<>>) = {} /\ Distinct(<<>>)
  BY EmptyList
<1>4. MemTypeOK
  BY <1>1, <1>3 DEF MemTypeOK
<1>5. Apart(mem, live, stmt)
  BY <1>1, <1>3 DEF Apart
<1>6. BindingsAlive
  BY <1>1 DEF BindingsAlive
<1>7. QED
  BY <1>4, <1>5, <1>6 DEF MemIInv

LEMMA MemInvariant == MemSpec => [](IInv /\ MemIInv)
<1>1. MemInit => IInv /\ MemIInv
  BY InvariantInit, MemInvariantInit DEF MemInit
<1>2. IInv /\ MemIInv /\ [MemNext]_allVars => IInv' /\ MemIInv'
  BY MemStepIsStep, InvariantStep, MemInvariantStep
<1>3. QED
  BY <1>1, <1>2, PTL DEF MemSpec

-----------------------------------------------------------------------------
\* Types, for any number of blocks and any bounds.
THEOREM MemoryTypes == MemSpec => []MemTypeOK
<1>1. MemIInv => MemTypeOK
  BY DEF MemIInv
<1>2. QED
  BY <1>1, MemInvariant, PTL

\* freemem() never frees a block twice or one that another list holds, whatever
\* binds have thrown and whatever allocations have failed before.
THEOREM NoDoubleFree == MemSpec => []BlocksApart
<1>1. MemIInv => BlocksApart
  BY MemIInvSuffices
<1>2. QED
  BY <1>1, MemInvariant, PTL

\* A step reads allocated blocks of its own statement, unless the program has
\* called freemem() itself.
THEOREM BoundValuesAlive == MemSpec => []BindingsAlive
<1>1. MemIInv => BindingsAlive
  BY DEF MemIInv
<1>2. QED
  BY <1>1, MemInvariant, PTL

-----------------------------------------------------------------------------
(***************************************************************************)
(* Which calls leak a block.                                               *)
(***************************************************************************)
NoNull(q) == \A i \in DOMAIN q : q[i] # Null

\* While no allocation has failed no list holds a 0, where freemem() would stop.
NullsStarve == ~starved => \A s \in Stmt : NoNull(mem[s])

LEMMA FreememEmpties ==
    ASSUME NEW q \in Seq(Cell), NoNull(q)
    PROVE  Kept(q) = <<>> /\ Listed(q) \subseteq Freed(q)
<1>1. Stop(q) \in 0..Len(q) /\ (Stop(q) > 0 => q[Stop(q)] = Null)
  BY StopFacts
<1>2. Len(q) \in Nat /\ DOMAIN q = 1..Len(q)
  OBVIOUS
<1>3. Stop(q) = 0
  BY <1>1, <1>2 DEF NoNull
<1>4. Kept(q) = <<>>
  <2>1. Kept(q) = SubSeq(q, 1, 0 - 1)
    BY <1>3 DEF Kept
  <2>2. SubSeq(q, 1, 0 - 1) = <<>>
    OBVIOUS
  <2>3. QED
    BY <2>1, <2>2
<1>5. Listed(q) \subseteq Freed(q)
  BY <1>4, FreememFacts, EmptyList
<1>6. QED
  BY <1>4, <1>5

LEMMA BindNulls ==
    ASSUME MemIInv, NullsStarve, NEW s \in Stmt, NEW p \in Ptr, NEW base \in Seq(Cell),
           NEW used \in SUBSET Block, BindAll(s, p, base, used), ~starved => NoNull(base)
    PROVE  NullsStarve'
<1>1. PICK q \in Pushes(used) :
          /\ mem' = [mem EXCEPT ![s] = base \o q]
          /\ starved' = (starved \/ \E i \in DOMAIN q : q[i] = Null)
  BY DEF BindAll
<1>2. q \in Seq(Cell)
  BY PushesFacts
<1>3. mem'[s] = base \o q /\ \A t \in Stmt \ {s} : mem'[t] = mem[t]
  BY <1>1 DEF MemIInv, MemTypeOK
<1>4. SUFFICES ASSUME ~starved' PROVE \A t \in Stmt : NoNull(mem'[t])
  BY DEF NullsStarve, NoNull
<1>5. ~starved /\ NoNull(q) /\ NoNull(base)
  BY <1>1, <1>4 DEF NoNull
<1>6. NoNull(base \o q)
  <2>1. \A i \in DOMAIN (base \o q) :
            \/ i \in DOMAIN base /\ (base \o q)[i] = base[i]
            \/ i - Len(base) \in DOMAIN q /\ (base \o q)[i] = q[i - Len(base)]
    BY <1>2
  <2>2. QED
    BY <1>5, <2>1 DEF NoNull
<1>7. QED
  BY <1>3, <1>5, <1>6 DEF NullsStarve

LEMMA NullsInvariantStep ==
    IInv /\ MemIInv /\ NullsStarve /\ [MemNext]_allVars => NullsStarve'
<1> SUFFICES ASSUME IInv, MemIInv, NullsStarve, [MemNext]_allVars PROVE NullsStarve'
  OBVIOUS
<1>1. ASSUME starved => starved', mem' = mem PROVE NullsStarve'
  BY <1>1 DEF NullsStarve, NoNull
<1>2. CASE UNCHANGED memVars
  BY <1>1, <1>2 DEF memVars
<1>3. CASE BindNew
  <2>1. PICK s \in Stmt, p \in Ptr : BindAll(s, p, <<>>, live)
    BY <1>3 DEF BindNew
  <2>2. live \in SUBSET Block /\ <<>> \in Seq(Cell) /\ NoNull(<<>>)
    BY EmptyList DEF MemIInv, MemTypeOK, NoNull
  <2>3. QED
    BY <2>1, <2>2, BindNulls
<1>4. CASE FreedMem
  <2>1. /\ \A t \in Stmt : mem'[t] = <<>> \/ mem'[t] = mem[t]
        /\ starved' = starved
    BY <1>4 DEF FreedMem
  <2>2. NoNull(<<>>)
    BY DEF NoNull
  <2>3. QED
    BY <2>1, <2>2 DEF NullsStarve, NoNull
<1>5. ASSUME NEW d \in Db, MemPrepareBindFails(d) PROVE NullsStarve'
  BY <1>1, <1>5 DEF MemPrepareBindFails
<1>6. ASSUME NEW d \in Db, RunParams(d) PROVE NullsStarve'
  BY <1>1, <1>6 DEF RunParams
<1>7. ASSUME NEW s \in Stmt, MemBind(s) PROVE NullsStarve'
  <2>1. BindAll(s, stmt[s], Kept(mem[s]), live \ Freed(mem[s])) /\ stmt[s] \in Ptr
    BY <1>7 DEF MemBind, Reset, IInv, TypeOK
  <2>2. Kept(mem[s]) \in Seq(Cell) /\ live \ Freed(mem[s]) \in SUBSET Block
    BY FreememLeaves
  <2>3. mem[s] \in Seq(Cell)
    BY MemTypes DEF MemIInv
  <2>4. ~starved => NoNull(Kept(mem[s]))
    BY <2>3, FreememEmpties DEF NullsStarve, NoNull
  <2>5. QED
    BY <2>1, <2>2, <2>4, BindNulls
<1>8. ASSUME NEW s \in Stmt, FreeMem(s) PROVE NullsStarve'
  <2>1. mem' = [mem EXCEPT ![s] = Kept(@)] /\ starved' = starved
    BY <1>8 DEF FreeMem
  <2>2. mem'[s] = Kept(mem[s]) /\ \A t \in Stmt \ {s} : mem'[t] = mem[t]
    BY <2>1 DEF MemIInv, MemTypeOK
  <2>3. mem[s] \in Seq(Cell)
    BY MemTypes DEF MemIInv
  <2>4. ~starved => NoNull(Kept(mem[s]))
    BY <2>3, FreememEmpties DEF NullsStarve, NoNull
  <2>5. QED
    BY <2>1, <2>2, <2>4 DEF NullsStarve, NoNull
<1>9. QED
  BY <1>2, <1>3, <1>4, <1>5, <1>6, <1>7, <1>8 DEF MemNext, MemOpenDatabase, MemPrepare,
     MemExecStepFails, MemRunStepFails, MemEachFirstRow, MemExport, MemClose, MemStep,
     MemFree, MemEachDone, MemEachStepFails, MemEachThrows, allVars

\* bind() loses no block that freemem() has not lost.
LEMMA BindLeaksNothing ==
    ASSUME MemIInv, NEW s \in Stmt, NEW p \in Ptr, NEW base \in Seq(Cell),
           NEW used \in SUBSET Block, BindAll(s, p, base, used),
           used \subseteq live, Listed(mem[s]) \cap used \subseteq Listed(base)
    PROVE  Lost' \subseteq Lost
<1>1. PICK q \in Pushes(used) :
          /\ mem' = [mem EXCEPT ![s] = base \o q]
          /\ live' = used \cup Listed(q)
  BY DEF BindAll
<1>2. q \in Seq(Cell)
  BY PushesFacts
<1>3. mem'[s] = base \o q /\ \A t \in Stmt \ {s} : mem'[t] = mem[t]
  BY <1>1 DEF MemIInv, MemTypeOK
<1>4. Listed(mem'[s]) = Listed(base) \cup Listed(q)
  BY <1>2, <1>3, ConcatFacts
<1>5. ASSUME NEW b \in live', \A t \in Stmt : b \notin Listed(mem'[t])
      PROVE  b \in live /\ \A t \in Stmt : b \notin Listed(mem[t])
  <2>1. b \in used /\ b \notin Listed(base)
    BY <1>1, <1>4, <1>5
  <2>2. b \notin Listed(mem[s])
    BY <2>1
  <2>3. QED
    BY <1>3, <1>5, <2>1, <2>2
<1>6. QED
  BY <1>5 DEF Lost

\* freemem() loses no block of a list without a 0.
LEMMA FreeLeaksNothing ==
    ASSUME MemIInv, NullsStarve, ~starved, FreedMem
    PROVE  Lost' \subseteq Lost
<1> DEFINE C == {s \in Stmt : stmt[s] # Null /\ stmt'[s] = Null}
<1>1. /\ live' = live \ UNION {Freed(mem[s]) : s \in C}
      /\ mem' = [s \in Stmt |-> IF s \in C THEN <<>> ELSE mem[s]]
  BY DEF FreedMem
<1>2. \A s \in Stmt : Listed(mem[s]) \subseteq Freed(mem[s])
  BY MemTypes, FreememEmpties DEF MemIInv, NullsStarve
<1>3. C \subseteq Stmt
  OBVIOUS
<1> HIDE DEF C
<1>4. ASSUME NEW b \in live', \A t \in Stmt : b \notin Listed(mem'[t])
      PROVE  b \in live /\ \A t \in Stmt : b \notin Listed(mem[t])
  <2>1. b \in live /\ \A t \in C : b \notin Freed(mem[t])
    BY <1>1
  <2>2. \A t \in C : b \notin Listed(mem[t])
    BY <1>2, <1>3, <2>1
  <2>3. \A t \in Stmt : t \notin C => mem'[t] = mem[t]
    BY <1>1
  <2>4. QED
    BY <1>4, <2>1, <2>2, <2>3
<1>5. QED
  BY <1>4 DEF Lost

LEMMA LeakStep ==
    ASSUME IInv, MemIInv, NullsStarve, [MemNext]_allVars
    PROVE  Lost' \subseteq Lost \/ starved' \/ \E p \in Ptr : ~Orphan(p) /\ Orphan(p)'
<1> DEFINE Sound == Lost' \subseteq Lost \/ starved' \/ \E p \in Ptr : ~Orphan(p) /\ Orphan(p)'
<1>1. ASSUME live' = live, mem' = mem PROVE Sound
  BY <1>1 DEF Lost
<1>2. CASE UNCHANGED memVars
  BY <1>1, <1>2 DEF memVars
<1>3. CASE BindNew
  <2>1. PICK s \in Stmt, p \in Ptr : stmt[s] = Null /\ BindAll(s, p, <<>>, live)
    BY <1>3 DEF BindNew
  <2>2. mem[s] = <<>> /\ live \in SUBSET Block
    BY <2>1 DEF MemIInv, MemTypeOK, Apart
  <2>3. Listed(mem[s]) \cap live \subseteq Listed(<<>>) /\ <<>> \in Seq(Cell)
    BY <2>2, EmptyList
  <2>4. QED
    BY <2>1, <2>2, <2>3, BindLeaksNothing
<1>4. CASE FreedMem
  <2>1. starved' = starved
    BY <1>4 DEF FreedMem
  <2>2. QED
    BY <1>4, <2>1, FreeLeaksNothing
<1>5. ASSUME NEW d \in Db, MemPrepareBindFails(d) PROVE Sound
  <2>1. PICK p \in Ptr : vdbe[p] = Null /\ vdbe'[p] # Null
    BY <1>5 DEF MemPrepareBindFails
  <2>2. stmt' = stmt
    BY <1>5 DEF MemPrepareBindFails, PrepareBindFails, jsVars
  <2>3. \A t \in Stmt : stmt[t] # p
    BY <2>1, NullAssumption DEF IInv, NoDanglingStatement
  <2>4. ~Orphan(p) /\ Orphan(p)'
    BY <2>1, <2>2, <2>3 DEF Orphan
  <2>5. QED
    BY <2>4
<1>6. ASSUME NEW d \in Db, RunParams(d), ~starved' PROVE Sound
  <2>1. PICK q \in Pushes(live) :
            /\ live' = live \cup (Listed(q) \ Freed(q))
            /\ starved' = (starved \/ \E i \in DOMAIN q : q[i] = Null)
    BY <1>6 DEF RunParams
  <2>2. q \in Seq(Cell) /\ NoNull(q)
    <3>1. live \in SUBSET Block
      BY DEF MemIInv, MemTypeOK
    <3>2. QED
      BY <1>6, <2>1, <3>1, PushesFacts DEF NoNull
  <2>3. Listed(q) \ Freed(q) = {}
    BY <2>2, FreememEmpties
  <2>4. live' = live /\ mem' = mem
    BY <1>6, <2>1, <2>3 DEF RunParams
  <2>5. QED
    BY <1>1, <2>4
<1>7. ASSUME NEW s \in Stmt, MemBind(s) PROVE Sound
  <2>1. BindAll(s, stmt[s], Kept(mem[s]), live \ Freed(mem[s])) /\ stmt[s] \in Ptr
    BY <1>7 DEF MemBind, Reset, IInv, TypeOK
  <2>2. Kept(mem[s]) \in Seq(Cell) /\ live \ Freed(mem[s]) \in SUBSET Block
    BY FreememLeaves
  <2>3. Listed(mem[s]) \subseteq Freed(mem[s]) \cup Listed(Kept(mem[s]))
    BY MemTypes, FreememFacts DEF MemIInv
  <2>4. Listed(mem[s]) \cap (live \ Freed(mem[s])) \subseteq Listed(Kept(mem[s]))
    BY <2>3
  <2>5. QED
    BY <2>1, <2>2, <2>4, BindLeaksNothing
<1>8. ASSUME NEW s \in Stmt, FreeMem(s) PROVE Sound
  <2>1. mem' = [mem EXCEPT ![s] = Kept(@)] /\ live' = live \ Freed(mem[s])
    BY <1>8 DEF FreeMem
  <2>2. mem'[s] = Kept(mem[s]) /\ \A t \in Stmt \ {s} : mem'[t] = mem[t]
    BY <2>1 DEF MemIInv, MemTypeOK
  <2>3. Listed(mem[s]) \subseteq Freed(mem[s]) \cup Listed(Kept(mem[s]))
    BY MemTypes, FreememFacts DEF MemIInv
  <2>4. ASSUME NEW b \in live', \A t \in Stmt : b \notin Listed(mem'[t])
        PROVE  b \in live /\ \A t \in Stmt : b \notin Listed(mem[t])
    BY <2>1, <2>2, <2>3, <2>4
  <2>5. QED
    BY <2>4 DEF Lost
<1>9. QED
  BY <1>2, <1>3, <1>4, <1>5, <1>6, <1>7, <1>8 DEF MemNext, MemOpenDatabase, MemPrepare,
     MemExecStepFails, MemRunStepFails, MemEachFirstRow, MemExport, MemClose, MemStep,
     MemFree, MemEachDone, MemEachStepFails, MemEachThrows, allVars

\* No sequence of calls leaks the memory of a bound value, unless prepare()'s
\* own bind throws or an allocation has failed: for any number of statements,
\* blocks and parameters.
THEOREM LeaksByFailureOnly == MemSpec => LostByFailureOnly
<1>1. MemInit => NullsStarve
  <2>1. NoNull(<<>>)
    BY DEF NoNull
  <2>2. QED
    BY <2>1 DEF MemInit, NullsStarve
<1>2. IInv /\ MemIInv /\ [MemNext]_allVars
        => [Lost' \subseteq Lost \/ starved' \/ \E p \in Ptr : ~Orphan(p) /\ Orphan(p)']_allVars
           \/ ~NullsStarve
  BY LeakStep
<1>3. QED
  BY <1>1, <1>2, MemInvariant, NullsInvariantStep, PTL DEF MemSpec, LostByFailureOnly
=============================================================================
