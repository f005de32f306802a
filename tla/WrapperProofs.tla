---------------------------- MODULE WrapperProofs ----------------------------
(***************************************************************************)
(* Proofs about Exec and Values, two parts of the wrapper that share no    *)
(* state.                                                                  *)
(*                                                                         *)
(* Exec, for texts of any length: the loop of exec() and that of           *)
(* sqlite3_exec run each statement of the text once, rows get to their     *)
(* statement, and the stack of a call is only its own.                     *)
(*                                                                         *)
(* Values: what was bound is what get() reads back, for any number of      *)
(* parameters, lists of values, widths and growths.                        *)
(***************************************************************************)
EXTENDS Exec, Values, SequenceTheorems, NaturalsInduction, WellFoundedInduction, TLAPS

-----------------------------------------------------------------------------
(***************************************************************************)
(* Exec.                                                                   *)
(***************************************************************************)
Statements == {"rows", "silent", "fails"}
Calls == [fn : {"exec", "run"}, text : Texts, next : Nat, stmt : Nat, rows : Nat, stack : Nat]

Types ==
    /\ open \in BOOLEAN /\ threw \in BOOLEAN
    /\ sp \in Nat /\ lost \in Nat /\ messages \in Nat /\ calls \in 0..MaxCalls
    /\ apiTemp \in {"nothing", "statement", "message"}
    /\ call \in Calls \cup {Idle}
    /\ ran \in Seq(Nat)
    /\ results \in Seq([of : Nat, rows : Nat])

\* A run leaves one message, so there are not more than calls.
MessagesCounted == messages <= calls /\ (call # Idle => messages < calls)

\* What a call has allocated on the stack.
Frame(c) ==
    IF c.fn = "exec" THEN Align(TextBytes(c.text)) + Align(4) ELSE Align(4 * Len(c.text) + 1)
StackInv ==
    /\ call = Idle => sp = Base + lost
    /\ call # Idle => call.stack = Base + lost /\ sp = call.stack + Frame(call)

\* The loop is at call.next; the statement that runs, if one does, is the piece before;
\* nothing before that has failed, and the statements before it have run, in order.
LoopInv ==
    call # Idle =>
        /\ ~threw /\ call.next \in 1..Len(call.text) + 1
        /\ call.rows <= MaxRows
        /\ call.stmt # 0 => call.stmt = call.next - 1 /\ call.stmt \in 1..Len(call.text)
                            /\ Kind(call.stmt) \in Statements
        /\ \A p \in 1..Len(call.text) :
               p < call.next /\ p # call.stmt => Kind(p) \notin {"bad", "fails"}
        /\ \A i \in 1..Len(ran) : ran[i] \in 1..Len(call.text) /\ ran[i] < call.next
                                  /\ Kind(ran[i]) \in Statements
        /\ \A p \in 1..Len(call.text) : p < call.next /\ Kind(p) \in Statements =>
               \E i \in 1..Len(ran) : ran[i] = p

\* The results so far; the last one is open while its statement has rows.
ResultsInv ==
    /\ \A i, j \in 1..Len(results) : i < j => results[i].of < results[j].of
    /\ InExec =>
        /\ \A i \in 1..Len(results) :
               /\ results[i].of \in 1..Len(call.text) /\ results[i].of < call.next
               /\ Kind(results[i].of) \in {"rows", "fails"}
        /\ call.stmt # 0 /\ call.rows = 0 =>
               \A i \in 1..Len(results) : results[i].of < call.stmt
        /\ call.stmt # 0 /\ call.rows > 0 =>
               LET n == Len(results)
               IN  n > 0 /\ results[n].of = call.stmt /\ results[n].rows = call.rows
        /\ \A p \in 1..Len(call.text) : p < call.next /\ p # call.stmt /\ Kind(p) = "rows" =>
               \E i \in 1..Len(results) : results[i].of = p

IInv == Types /\ MessagesCounted /\ StackInv /\ InOrder(ran) /\ LoopInv /\ ResultsInv

-----------------------------------------------------------------------------
(***************************************************************************)
(* Facts about one state.                                                  *)
(***************************************************************************)
LEMMA AlignFacts == Align(4) = 16 /\ \A n \in Nat : Align(n) \in Nat /\ n <= Align(n)
BY DEF Align

LEMMA CallFacts ==
    ASSUME Types
    PROVE  /\ call = Idle => call.fn = "none" /\ ~Stepping /\ ~InExec
           /\ call # Idle => /\ call \in Calls
                             /\ call.fn \in {"exec", "run"} /\ call.text \in Texts
                             /\ call.next \in Nat /\ call.stmt \in Nat /\ call.rows \in Nat
                             /\ call.stack \in Nat
                             /\ Stepping <=> call.stmt # 0
<1>1. CASE call = Idle
  BY <1>1 DEF Idle, Stepping, InExec
<1>2. CASE call # Idle
  BY <1>2 DEF Types, Calls, Stepping
<1>3. QED
  BY <1>1, <1>2

LEMMA TextFacts ==
    ASSUME NEW t \in Texts
    PROVE  /\ Len(t) \in Nat
           /\ \A p \in 1..Len(t) : t[p] \in Pieces
           /\ TextBytes(t) \in Nat /\ 4 * Len(t) + 1 \in Nat
<1>1. t \in Seq(Pieces)
  BY TextsOK
<1>2. Len(t) \in Nat /\ \A p \in 1..Len(t) : t[p] \in Pieces
  BY <1>1, LenProperties, ElementOfSeq
<1>3. QED
  BY <1>2 DEF TextBytes

LEMMA FrameFacts ==
    ASSUME NEW c \in Calls
    PROVE  Frame(c) \in Nat /\ c # Idle
<1>1. c.text \in Texts /\ c.fn \in {"exec", "run"}
  BY DEF Calls
<1>2. c # Idle
  BY <1>1 DEF Idle
<1>3. /\ Align(TextBytes(c.text)) \in Nat /\ Align(4) \in Nat /\ Align(4 * Len(c.text) + 1) \in Nat
  BY <1>1, TextFacts, AlignFacts
<1>4. QED
  BY <1>2, <1>3 DEF Frame

LEMMA NothingYet ==
    /\ <<>> \in Seq(Nat) /\ <<>> \in Seq([of : Nat, rows : Nat])
    /\ Len(<<>>) = 0 /\ InOrder(<<>>)
<1>1. Len(<<>>) = 0 /\ <<>> \in Seq(Nat) /\ <<>> \in Seq([of : Nat, rows : Nat])
  BY EmptySeq
<1>2. QED
  BY <1>1 DEF InOrder

-----------------------------------------------------------------------------
(***************************************************************************)
(* The actions.                                                            *)
(***************************************************************************)

\* A call that begins: c is exec or run.
LEMMA EnterKeeps ==
    ASSUME IInv, NEW f \in {"exec", "run"}, NEW t \in Texts,
           call = Idle, calls < MaxCalls,
           call' = Started(f, t, sp), sp' = sp + Frame(Started(f, t, sp)),
           calls' = calls + 1, ran' = <<>>, results' = <<>>, threw' = FALSE,
           UNCHANGED <<open, apiTemp, messages, lost>>
    PROVE  IInv'
<1> USE DEF IInv
<1>1. /\ call' \in Calls /\ call'.fn = f /\ call'.text = t /\ call'.next = 1
      /\ call'.stmt = 0 /\ call'.rows = 0 /\ call'.stack = sp /\ call' = Started(f, t, sp)
  BY DEF Started, Calls, Types
<1>2. Frame(call') \in Nat /\ call' # Idle /\ sp' = sp + Frame(call')
  BY <1>1, FrameFacts
<1>3. Types'
  <2>1. sp' \in Nat /\ calls' \in 0..MaxCalls
    BY <1>1, <1>2, BoundsOK DEF Types
  <2>2. ran' \in Seq(Nat) /\ results' \in Seq([of : Nat, rows : Nat])
    BY NothingYet
  <2>3. QED
    BY <1>1, <2>1, <2>2 DEF Types
<1>4. MessagesCounted'
  BY <1>2 DEF MessagesCounted, Types
<1>5. StackInv'
  BY <1>1, <1>2 DEF StackInv, Frame
<1>6. LoopInv'
  <2>1. Len(t) \in Nat /\ Len(ran') = 0 /\ MaxRows \in Nat
    BY TextFacts, NothingYet, BoundsOK
  <2>2. QED
    BY <1>1, <2>1 DEF LoopInv
<1>7. ResultsInv'
  <2>1. Len(t) \in Nat /\ Len(results') = 0
    BY TextFacts, NothingYet
  <2>2. QED
    BY <1>1, <2>1 DEF ResultsInv
<1>8. QED
  BY <1>3, <1>4, <1>5, <1>6, <1>7, NothingYet

\* A call that ends, with the stack below it.
LEMMA EndKeeps ==
    ASSUME IInv, call # Idle, call' = Idle, threw' \in BOOLEAN,
           sp' \in Nat, lost' \in Nat, sp' = Base + lost',
           messages' \in {messages, messages + 1},
           apiTemp' \in {"nothing", "statement", "message"},
           UNCHANGED <<open, ran, results, calls>>
    PROVE  IInv'
<1> USE DEF IInv
<1>1. Types'
  BY DEF Types
<1>2. MessagesCounted'
  BY DEF MessagesCounted, Types
<1>3. StackInv' /\ LoopInv'
  BY DEF StackInv, LoopInv
<1>4. call'.fn = "none"
  BY DEF Idle
<1>5. ResultsInv'
  BY <1>4 DEF ResultsInv, InExec
<1>6. QED
  BY <1>1, <1>2, <1>3, <1>5

LEMMA StackOfCall ==
    ASSUME IInv, call # Idle
    PROVE  /\ sp \in Nat /\ lost \in Nat /\ call.stack = Base + lost
           /\ sp - call.stack \in Nat /\ Base + (lost + (sp - call.stack)) = sp
           /\ call.stack \in Nat
<1>1. call \in Calls /\ call.stack \in Nat
  BY CallFacts DEF IInv
<1>2. Frame(call) \in Nat
  BY <1>1, FrameFacts
<1>3. sp \in Nat /\ lost \in Nat /\ call.stack = Base + lost /\ sp = call.stack + Frame(call)
  BY DEF IInv, Types, StackInv
<1>4. Base = 16
  BY AlignFacts DEF Base
<1>5. QED
  BY <1>1, <1>2, <1>3, <1>4

LEMMA ThrowKeeps ==
    ASSUME IInv, call # Idle, Throw, UNCHANGED <<open, ran, results, calls>>
    PROVE  IInv'
<1>1. CASE InExec
  <2>1. ExecThrow
    BY <1>1 DEF Throw
  <2>2. lost' = lost + (sp - call.stack) /\ sp' = sp /\ call' = Idle /\ threw' = TRUE
        /\ messages' = messages /\ apiTemp' = apiTemp
    BY <2>1 DEF ExecThrow
  <2>3. sp' = Base + lost' /\ sp' \in Nat /\ lost' \in Nat
    BY <2>2, StackOfCall
  <2>4. QED
    BY <2>2, <2>3, EndKeeps DEF IInv, Types
<1>2. CASE ~InExec
  BY <1>2, StackOfCall, EndKeeps DEF Throw, RunThrow
<1>3. QED
  BY <1>1, <1>2

\* A turn of the loop: what the call is about, the stack and the counters stay.
LEMMA TurnKeeps ==
    ASSUME IInv, call # Idle, call' \in Calls, call'.fn = call.fn, call'.text = call.text,
           call'.stack = call.stack,
           apiTemp' \in {"nothing", "statement", "message"},
           ran' \in Seq(Nat), results' \in Seq([of : Nat, rows : Nat]),
           UNCHANGED <<open, sp, threw, messages, lost, calls>>
    PROVE  /\ Types' /\ MessagesCounted' /\ StackInv' /\ call' # Idle
           /\ InExec' <=> InExec
           /\ \A p : Kind(p)' = Kind(p)
<1>1. call' # Idle
  BY FrameFacts
<1>2. Types' /\ MessagesCounted'
  BY DEF IInv, Types, MessagesCounted
<1>3. StackInv'
  BY <1>1 DEF IInv, StackInv, Frame
<1>4. QED
  BY <1>1, <1>2, <1>3 DEF InExec, Kind

LEMMA BlankKeeps == ASSUME IInv, PrepareBlank PROVE IInv'
<1> USE DEF IInv
<1>1. /\ call # Idle /\ call.stmt = 0 /\ call.next \in 1..Len(call.text) /\ Kind(call.next) = "blank"
      /\ call \in Calls /\ call.text \in Texts /\ Len(call.text) \in Nat
      /\ call' = [call EXCEPT !.next = call.next + 1]
      /\ apiTemp' \in {"nothing", "statement", "message"}
      /\ UNCHANGED <<open, sp, ran, results, threw, messages, lost, calls>>
  BY CallFacts, TextFacts DEF PrepareBlank, LoopInv, Types
<1>2. /\ call' \in Calls /\ call'.fn = call.fn /\ call'.text = call.text
      /\ call'.stack = call.stack /\ call'.next = call.next + 1 /\ call'.stmt = 0
      /\ call'.rows = call.rows
  BY <1>1 DEF Calls
<1>3. /\ Types' /\ MessagesCounted' /\ StackInv' /\ call' # Idle
      /\ (InExec' <=> InExec) /\ \A p : Kind(p)' = Kind(p)
  BY <1>1, <1>2, TurnKeeps DEF Types
<1>4. \A p \in 1..Len(call.text) : p < call.next + 1 <=> p < call.next \/ p = call.next
  BY <1>1
<1>5. ran \in Seq(Nat) /\ results \in Seq([of : Nat, rows : Nat])
  BY DEF Types
<1>6. Len(ran) \in Nat /\ Len(results) \in Nat
  BY <1>5, LenProperties
<1>7. LoopInv'
  BY <1>1, <1>2, <1>3, <1>4, <1>6 DEF LoopInv, Statements
<1>8. ResultsInv'
  BY <1>1, <1>2, <1>3, <1>4, <1>6 DEF ResultsInv
<1>9. QED
  BY <1>1, <1>3, <1>7, <1>8

\* A statement is compiled and stepped: it comes last in ran.
LEMMA PrepareKeeps == ASSUME IInv, Prepare PROVE IInv'
<1> USE DEF IInv
<1> DEFINE n == Len(ran)
<1>1. /\ call # Idle /\ call.stmt = 0 /\ call.next \in 1..Len(call.text)
      /\ Kind(call.next) \in Statements
      /\ call \in Calls /\ call.text \in Texts /\ Len(call.text) \in Nat
      /\ call' = [call EXCEPT !.stmt = call.next, !.next = call.next + 1, !.rows = 0]
      /\ apiTemp' \in {"nothing", "statement", "message"}
      /\ ran' = Append(ran, call.next)
      /\ UNCHANGED <<open, sp, results, threw, messages, lost, calls>>
  BY CallFacts, TextFacts DEF Prepare, LoopInv, Types, Statements
<1>2. /\ call' \in Calls /\ call'.fn = call.fn /\ call'.text = call.text
      /\ call'.stack = call.stack /\ call'.next = call.next + 1 /\ call'.stmt = call.next
      /\ call'.rows = 0
  <2>1. call.next \in Nat /\ call.next + 1 \in Nat
    BY <1>1
  <2>2. QED
    BY <1>1, <2>1 DEF Calls
<1>3. /\ ran \in Seq(Nat) /\ results \in Seq([of : Nat, rows : Nat])
      /\ n \in Nat /\ Len(results) \in Nat
  BY LenProperties DEF Types
<1>4. /\ ran' \in Seq(Nat) /\ Len(ran') = n + 1 /\ ran'[n + 1] = call.next
      /\ \A i \in 1..n : ran'[i] = ran[i]
  BY <1>1, <1>3, AppendProperties
<1>5. /\ Types' /\ MessagesCounted' /\ StackInv' /\ call' # Idle
      /\ (InExec' <=> InExec) /\ \A p : Kind(p)' = Kind(p)
  BY <1>1, <1>2, <1>3, <1>4, TurnKeeps
<1>6. \A p \in 1..Len(call.text) : p < call.next + 1 <=> p < call.next \/ p = call.next
  BY <1>1
<1>7. \A i \in 1..n : /\ ran[i] \in 1..Len(call.text) /\ ran[i] < call.next
                      /\ Kind(ran[i]) \in Statements
  BY <1>1 DEF LoopInv
<1> HIDE DEF n
<1>8. InOrder(ran)'
  <2>1. \A i, j \in 1..n : i < j => ran[i] < ran[j]
    BY DEF InOrder, n
  <2>2. SUFFICES ASSUME NEW i \in 1..n + 1, NEW j \in 1..n + 1, i < j PROVE ran'[i] < ran'[j]
    BY <1>4 DEF InOrder
  <2>3. CASE j = n + 1
    BY <1>3, <1>4, <1>7, <2>2, <2>3
  <2>4. CASE j # n + 1
    BY <1>3, <1>4, <2>1, <2>2, <2>4
  <2>5. QED
    BY <2>3, <2>4
<1>9. LoopInv'
  <2>1. call'.next \in 1..Len(call.text) + 1 /\ call'.rows <= MaxRows
    BY <1>1, <1>2, BoundsOK
  <2>2. call'.stmt = call'.next - 1 /\ call'.stmt \in 1..Len(call.text) /\ Kind(call'.stmt) \in Statements
    BY <1>1, <1>2, <1>5
  <2>3. \A p \in 1..Len(call.text) :
            p < call'.next /\ p # call'.stmt => Kind(p) \notin {"bad", "fails"}
    BY <1>1, <1>2, <1>6 DEF LoopInv
  <2>4. \A i \in 1..n + 1 : ran'[i] \in 1..Len(call.text) /\ ran'[i] < call'.next
                             /\ Kind(ran'[i]) \in Statements
    <3> SUFFICES ASSUME NEW i \in 1..n + 1
                 PROVE  ran'[i] \in 1..Len(call.text) /\ ran'[i] < call'.next
                        /\ Kind(ran'[i]) \in Statements
      OBVIOUS
    <3>1. CASE i = n + 1
      BY <1>1, <1>2, <1>4, <3>1
    <3>2. CASE i # n + 1
      BY <1>1, <1>2, <1>3, <1>4, <1>7, <3>2
    <3>3. QED
      BY <3>1, <3>2
  <2>5. ASSUME NEW p \in 1..Len(call.text), p < call'.next, Kind(p) \in Statements
        PROVE  \E i \in 1..n + 1 : ran'[i] = p
    <3>1. CASE p = call.next
      <4>1. n + 1 \in 1..n + 1
        BY <1>3
      <4>2. QED
        BY <1>4, <3>1, <4>1
    <3>2. CASE p < call.next
      <4>1. PICK i \in 1..n : ran[i] = p
        BY <1>1, <2>5, <3>2 DEF LoopInv, n
      <4>2. i \in 1..n + 1
        BY <1>3
      <4>3. QED
        BY <1>4, <4>1, <4>2
    <3>3. QED
      BY <1>2, <1>6, <2>5, <3>1, <3>2
  <2>6. QED
    <3>1. ~threw'
      BY <1>1 DEF LoopInv
    <3>2. QED
      BY <1>2, <1>4, <1>5, <2>1, <2>2, <2>3, <2>4, <2>5, <3>1 DEF LoopInv, Kind
<1>10. ResultsInv'
  <2>1. \A i \in 1..Len(results) : InExec => results[i].of < call.next /\ results[i].of \in Nat
    BY <1>1 DEF ResultsInv
  <2>2. /\ results' = results /\ call'.text = call.text
        /\ call'.next = call.next + 1 /\ call'.stmt = call.next /\ call'.rows = 0
    BY <1>1, <1>2
  <2>3. ASSUME InExec, NEW i \in 1..Len(results)
        PROVE  /\ results[i].of \in 1..Len(call.text) /\ results[i].of < call.next
               /\ results[i].of < call.next + 1
               /\ call.text[results[i].of] \in {"rows", "fails"}
    BY <1>1, <2>1, <2>3 DEF ResultsInv, Kind
  <2>4. ASSUME InExec, NEW p \in 1..Len(call.text), p < call.next + 1, p # call.next, call.text[p] = "rows"
        PROVE  \E i \in 1..Len(results) : results[i].of = p
    <3>1. p < call.next /\ p # call.stmt
      BY <1>1, <1>6, <2>4
    <3>2. QED
      BY <2>4, <3>1 DEF ResultsInv, Kind
  <2>5. \A i, j \in 1..Len(results) : i < j => results[i].of < results[j].of
    BY DEF ResultsInv
  <2>6. InExec' => InExec
    BY <1>5
  <2>7. call.next # 0
    BY <1>1
  <2> HIDE <1>1, <1>2, <1>3, <1>4, <1>5, <1>6, <1>7
  <2>8. QED
    BY <2>2, <2>3, <2>4, <2>5, <2>6, <2>7 DEF ResultsInv, Kind
<1>11. QED
  BY <1>5, <1>8, <1>9, <1>10

\* What a row does to the results.
LEMMA CollectedFacts ==
    ASSUME IInv, InExec, call.stmt # 0, Kind(call.stmt) \in {"rows", "fails"}
    PROVE  LET n == Len(results)
               m == IF call.rows = 0 THEN n + 1 ELSE n
           IN  /\ Collected \in Seq([of : Nat, rows : Nat]) /\ Len(Collected) = m
               /\ m \in Nat \ {0} /\ n \in Nat
               /\ Collected[m].of = call.stmt /\ Collected[m].rows = call.rows + 1
               /\ \A i \in 1..m : i # m => i \in 1..n /\ Collected[i] = results[i]
               /\ \A i \in 1..n : i \in 1..m /\ Collected[i].of = results[i].of
<1> DEFINE R == [of : Nat, rows : Nat]
           n == Len(results)
<1>1. results \in Seq(R) /\ n \in Nat /\ \A i \in 1..n : results[i] \in R
  BY LenProperties, ElementOfSeq DEF IInv, Types
<1>2. call # Idle /\ call.stmt \in Nat /\ call.rows \in Nat
  BY CallFacts DEF IInv
<1>3. CASE call.rows = 0
  <2> DEFINE e == [of |-> call.stmt, rows |-> 1]
  <2>1. Collected = Append(results, e) /\ e \in R
    BY <1>2, <1>3 DEF Collected
  <2>2. /\ Append(results, e) \in Seq(R) /\ Len(Append(results, e)) = n + 1
        /\ Append(results, e)[n + 1] = e
        /\ \A i \in 1..n : Append(results, e)[i] = results[i]
    <3> HIDE DEF e, R
    <3>1. QED
      BY <1>1, <2>1, AppendProperties
  <2>3. QED
    BY <1>1, <1>3, <2>1, <2>2
<1>4. CASE call.rows # 0
  <2>1. n \in 1..n /\ results[n].of = call.stmt /\ results[n].rows = call.rows
    BY <1>1, <1>2, <1>4 DEF IInv, ResultsInv
  <2>2. results[n] \in R /\ results[n].rows + 1 \in Nat
    BY <1>1, <2>1
  <2> DEFINE e == [results[n] EXCEPT !.rows = results[n].rows + 1]
  <2>3. e \in R /\ e.of = call.stmt /\ e.rows = call.rows + 1
    BY <2>1, <2>2
  <2>4. Collected = [results EXCEPT ![n] = e]
    BY <1>4 DEF Collected
  <2>5. /\ [results EXCEPT ![n] = e] \in Seq(R) /\ Len([results EXCEPT ![n] = e]) = n
        /\ \A j \in 1..n : [results EXCEPT ![n] = e][j] = IF j = n THEN e ELSE results[j]
    <3> HIDE DEF e, R
    <3>1. QED
      BY <1>1, <2>1, <2>3, ExceptSeq
  <2>6. QED
    <3> HIDE DEF e
    <3>1. /\ Collected \in Seq(R) /\ Len(Collected) = n /\ Collected[n] = e
          /\ \A j \in 1..n : j # n => Collected[j] = results[j]
      BY <2>1, <2>4, <2>5
    <3>2. Collected[n].of = results[n].of
      BY <2>1, <2>3, <3>1
    <3>3. /\ Collected[n].rows = call.rows + 1
          /\ \A i \in 1..n : Collected[i].of = results[i].of
      BY <2>1, <2>3, <3>1, <3>2
    <3>4. n \in Nat \ {0} /\ ~(call.rows = 0)
      BY <1>1, <1>4, <2>1
    <3> HIDE DEF R, n
    <3>5. QED
      BY <2>1, <3>1, <3>2, <3>3, <3>4 DEF n, R
<1>5. QED
  BY <1>3, <1>4

LEMMA RowKeeps == ASSUME IInv, StepRow PROVE IInv'
<1> USE DEF IInv
<1>1. /\ call # Idle /\ call.stmt # 0 /\ Kind(call.stmt) \in {"rows", "fails"}
      /\ call.stmt \in 1..Len(call.text) /\ call.stmt < call.next
      /\ call \in Calls /\ call.text \in Texts /\ Len(call.text) \in Nat
      /\ call.rows \in Nat /\ call.rows + 1 <= MaxRows
      /\ call' = [call EXCEPT !.rows = call.rows + 1]
      /\ results' = Collected
      /\ UNCHANGED <<open, sp, apiTemp, ran, threw, messages, lost, calls>>
  <2>1. /\ call # Idle /\ call.stmt # 0 /\ Kind(call.stmt) \in {"rows", "fails"}
        /\ call.rows < MaxRows
    BY CallFacts DEF StepRow
  <2>2. call \in Calls /\ call.text \in Texts /\ call.rows \in Nat /\ call.next \in Nat
    BY <2>1, CallFacts
  <2>3. Len(call.text) \in Nat
    BY <2>2, TextFacts
  <2>4. call.stmt = call.next - 1 /\ call.stmt \in 1..Len(call.text)
    BY <2>1 DEF LoopInv
  <2>5. call.rows + 1 <= MaxRows
    BY <2>1, <2>2, BoundsOK
  <2>6. QED
    BY <2>1, <2>2, <2>3, <2>4, <2>5 DEF StepRow
<1>2. /\ call' \in Calls /\ call'.fn = call.fn /\ call'.text = call.text
      /\ call'.stack = call.stack /\ call'.next = call.next /\ call'.stmt = call.stmt
      /\ call'.rows = call.rows + 1
  BY <1>1 DEF Calls
<1>3. results' \in Seq([of : Nat, rows : Nat])
  BY <1>1, CollectedFacts DEF Types, Collected
<1>4. /\ Types' /\ MessagesCounted' /\ StackInv' /\ call' # Idle
      /\ (InExec' <=> InExec) /\ \A p : Kind(p)' = Kind(p)
  BY <1>1, <1>2, <1>3, TurnKeeps DEF Types
<1>5. LoopInv'
  BY <1>1, <1>2, <1>4 DEF LoopInv, Kind
<1>6. ASSUME ~InExec PROVE ResultsInv'
  <2>1. results' = results /\ ~InExec'
    BY <1>1, <1>4, <1>6 DEF Collected
  <2>2. QED
    BY <2>1 DEF ResultsInv
<1>7. ASSUME InExec PROVE ResultsInv'
  <2> DEFINE n == Len(results)
  <2>1. PICK m \in Nat \ {0} :
            /\ m = IF call.rows = 0 THEN n + 1 ELSE n
            /\ Len(results') = m /\ n \in Nat
            /\ results'[m].of = call.stmt /\ results'[m].rows = call.rows + 1
            /\ \A i \in 1..m : i # m => i \in 1..n /\ results'[i] = results[i]
            /\ \A i \in 1..n : i \in 1..m /\ results'[i].of = results[i].of
    BY <1>1, <1>7, CollectedFacts
  <2>2. /\ \A i, j \in 1..n : i < j => results[i].of < results[j].of
        /\ \A i \in 1..n : /\ results[i].of \in 1..Len(call.text) /\ results[i].of < call.next
                           /\ Kind(results[i].of) \in {"rows", "fails"}
        /\ call.rows = 0 => \A i \in 1..n : results[i].of < call.stmt
        /\ \A p \in 1..Len(call.text) : p < call.next /\ p # call.stmt /\ Kind(p) = "rows" =>
               \E i \in 1..n : results[i].of = p
    BY <1>1, <1>7 DEF ResultsInv
  <2> HIDE DEF n
  <2>3. ASSUME NEW i \in 1..m, NEW j \in 1..m, i < j PROVE results'[i].of < results'[j].of
    <3>1. i # m /\ i \in 1..n /\ results'[i].of = results[i].of
      BY <2>1, <2>3
    <3>2. CASE j = m /\ call.rows = 0
      BY <2>1, <2>2, <3>1, <3>2
    <3>3. CASE j # m \/ call.rows # 0
      <4>1. j \in 1..n /\ results'[j].of = results[j].of
        BY <2>1, <2>3, <3>3
      <4>2. QED
        BY <2>2, <2>3, <3>1, <4>1
    <3>4. QED
      BY <3>2, <3>3
  <2>4. ASSUME NEW i \in 1..m
        PROVE  /\ results'[i].of \in 1..Len(call.text) /\ results'[i].of < call.next
               /\ Kind(results'[i].of) \in {"rows", "fails"}
    BY <1>1, <2>1, <2>2, <2>4
  <2>5. ASSUME NEW p \in 1..Len(call.text), p < call.next, p # call.stmt, Kind(p) = "rows"
        PROVE  \E i \in 1..m : results'[i].of = p
    BY <2>1, <2>2, <2>5
  <2>6. call'.stmt # 0 /\ call'.rows # 0
    BY <1>1, <1>2
  <2>7. \A i, j \in 1..Len(results') : i < j => results'[i].of < results'[j].of
    BY <2>1, <2>3
  <2>8. \A i \in 1..Len(results') :
            /\ results'[i].of \in 1..Len(call'.text) /\ results'[i].of < call'.next
            /\ call'.text[results'[i].of] \in {"rows", "fails"}
    BY <1>2, <2>1, <2>4 DEF Kind
  <2>9. \A p \in 1..Len(call'.text) :
            p < call'.next /\ p # call'.stmt /\ call'.text[p] = "rows" =>
               \E i \in 1..Len(results') : results'[i].of = p
    BY <1>2, <2>1, <2>5 DEF Kind
  <2>10. LET k == Len(results')
         IN  k > 0 /\ results'[k].of = call'.stmt /\ results'[k].rows = call'.rows
    BY <1>2, <2>1
  <2>11. QED
    BY <2>6, <2>7, <2>8, <2>9, <2>10 DEF ResultsInv, Kind
<1>8. QED
  BY <1>1, <1>4, <1>5, <1>6, <1>7

LEMMA DoneKeeps == ASSUME IInv, StepDone PROVE IInv'
<1> USE DEF IInv
<1>1. /\ call # Idle /\ call.stmt # 0
      /\ Kind(call.stmt) = "silent" \/ (Kind(call.stmt) = "rows" /\ call.rows > 0)
      /\ call \in Calls /\ call.text \in Texts
      /\ call' = [call EXCEPT !.stmt = 0]
      /\ UNCHANGED <<open, sp, apiTemp, ran, results, threw, messages, lost, calls>>
  BY CallFacts DEF StepDone
<1>2. /\ call' \in Calls /\ call'.fn = call.fn /\ call'.text = call.text
      /\ call'.stack = call.stack /\ call'.next = call.next /\ call'.stmt = 0
      /\ call'.rows = call.rows
  BY <1>1 DEF Calls
<1>3. /\ Types' /\ MessagesCounted' /\ StackInv' /\ call' # Idle
      /\ (InExec' <=> InExec) /\ \A p : Kind(p)' = Kind(p)
  BY <1>1, <1>2, TurnKeeps DEF Types
<1>4. Len(call.text) \in Nat /\ Len(results) \in Nat /\ Len(ran) \in Nat
  BY <1>1, TextFacts, LenProperties DEF Types
<1>5. LoopInv'
  BY <1>1, <1>2, <1>3, <1>4 DEF LoopInv, Kind
<1>6. ResultsInv'
  <2>1. InExec /\ Kind(call.stmt) = "rows" =>
            \E i \in 1..Len(results) : results[i].of = call.stmt
    BY <1>1, <1>4 DEF ResultsInv
  <2>2. QED
    BY <1>1, <1>2, <1>4, <2>1 DEF ResultsInv, Kind, InExec
<1>7. QED
  BY <1>1, <1>3, <1>5, <1>6

LEMMA ReturnKeeps == ASSUME IInv, ExecReturn \/ RunReturn PROVE IInv'
<1>1. call # Idle
  BY DEF ExecReturn, RunReturn, InExec, Idle
<1>2. sp' = call.stack /\ call' = Idle /\ lost' = lost /\ messages' = messages
      /\ threw' = threw /\ apiTemp' \in {"nothing", "statement", "message"}
      /\ UNCHANGED <<open, ran, results, calls>>
  BY DEF ExecReturn, RunReturn, IInv, Types
<1>3. sp' \in Nat /\ lost' \in Nat /\ sp' = Base + lost'
  BY <1>1, <1>2, StackOfCall
<1>4. QED
  BY <1>1, <1>2, <1>3, EndKeeps DEF IInv, Types

\* Nothing is running, and nothing starts: the database is closed, or it is closed now.
LEMMA RestKeeps == ASSUME IInv, Refuse \/ Close PROVE IInv'
<1> USE DEF IInv
<1>1. /\ call = Idle /\ call' = Idle /\ threw' \in BOOLEAN /\ open' \in BOOLEAN
      /\ calls' \in 0..MaxCalls /\ calls <= calls'
      /\ ran' \in {ran, <<>>} /\ results' \in {results, <<>>}
      /\ UNCHANGED <<sp, apiTemp, messages, lost>>
  <2>1. CASE Refuse
    <3>1. calls' \in 0..MaxCalls /\ calls <= calls'
      BY <2>1, BoundsOK DEF Refuse, Types
    <3>2. QED
      BY <2>1, <3>1 DEF Refuse, Types
  <2>2. CASE Close
    <3>1. calls' = calls /\ calls \in 0..MaxCalls
      BY <2>2 DEF Close, Types
    <3>2. calls <= calls'
      BY <3>1, BoundsOK
    <3>3. QED
      BY <2>2, <3>1, <3>2 DEF Close, Types
  <2>3. QED
    BY <2>1, <2>2
<1>2. Types'
  BY <1>1, NothingYet DEF Types
<1>3. MessagesCounted' /\ StackInv' /\ LoopInv'
  BY <1>1 DEF Types, MessagesCounted, StackInv, LoopInv
<1>4. InOrder(ran)'
  BY <1>1, NothingYet
<1>5. ResultsInv'
  <2>1. ~InExec'
    BY <1>1 DEF InExec, Idle
  <2>2. results' = results \/ Len(results') = 0
    BY <1>1, NothingYet
  <2>3. QED
    BY <2>1, <2>2 DEF ResultsInv
<1>6. QED
  BY <1>2, <1>3, <1>4, <1>5

-----------------------------------------------------------------------------
(***************************************************************************)
(* The theorems.                                                           *)
(***************************************************************************)
LEMMA InvariantInit == Init => IInv
<1> SUFFICES ASSUME Init PROVE IInv
  OBVIOUS
<1> USE DEF Init
<1>1. Base = 16
  BY AlignFacts DEF Base
<1>2. Types
  <2>1. ran \in Seq(Nat) /\ results \in Seq([of : Nat, rows : Nat])
    BY NothingYet
  <2>2. sp \in Nat /\ calls \in 0..MaxCalls
    BY <1>1, BoundsOK
  <2>3. QED
    BY <2>1, <2>2 DEF Types
<1>3. MessagesCounted /\ StackInv /\ LoopInv /\ InOrder(ran)
  BY <1>1, NothingYet DEF MessagesCounted, StackInv, LoopInv
<1>4. ResultsInv
  BY NothingYet DEF ResultsInv, InExec, Idle
<1>5. QED
  BY <1>2, <1>3, <1>4 DEF IInv

LEMMA InvariantStep == IInv /\ [Next]_vars => IInv'
<1> SUFFICES ASSUME IInv, [Next]_vars PROVE IInv'
  OBVIOUS
<1>1. ASSUME NEW t \in Texts, ExecEnter(t) PROVE IInv'
  <2>1. Frame(Started("exec", t, sp)) = Align(TextBytes(t)) + Align(4)
    BY DEF Frame, Started
  <2>2. sp' = sp + Frame(Started("exec", t, sp))
    <3>1. sp \in Nat /\ Align(TextBytes(t)) \in Nat /\ Align(4) \in Nat
      BY TextFacts, AlignFacts DEF IInv, Types
    <3>2. QED
      BY <1>1, <2>1, <3>1 DEF ExecEnter
  <2>3. QED
    BY <1>1, <2>2, EnterKeeps DEF ExecEnter
<1>2. ASSUME NEW t \in Texts, RunEnter(t) PROVE IInv'
  <2>1. Frame(Started("run", t, sp)) = Align(4 * Len(t) + 1)
    BY DEF Frame, Started
  <2>2. QED
    BY <1>2, <2>1, EnterKeeps DEF RunEnter
<1>3. CASE Refuse \/ Close
  BY <1>3, RestKeeps
<1>4. CASE ExecReturn \/ RunReturn
  BY <1>4, ReturnKeeps
<1>5. CASE PrepareFails \/ StepFails
  <2>1. call # Idle
    BY <1>5, CallFacts DEF PrepareFails, StepFails, IInv
  <2>2. QED
    BY <1>5, <2>1, ThrowKeeps DEF PrepareFails, StepFails
<1>6. CASE PrepareBlank \/ Prepare \/ StepRow \/ StepDone
  BY <1>6, BlankKeeps, PrepareKeeps, RowKeeps, DoneKeeps
<1>7. CASE UNCHANGED vars
  BY <1>7 DEF vars, IInv, Types, MessagesCounted, StackInv, InOrder, LoopInv, ResultsInv, InExec, Kind
<1>8. QED
  BY <1>1, <1>2, <1>3, <1>4, <1>5, <1>6, <1>7 DEF Next, Advance

LEMMA Invariance == Spec => []IInv
BY InvariantInit, InvariantStep, PTL DEF Spec

\* Between calls the stack is as the module left it but for what throwing calls have
\* lost, the text that exec() writes ends below its tail pointer and that below the C
\* functions' frames (index.js:461-469, 493); for texts of any length.
THEOREM StackIsKept == Spec => []StackKept
<1>1. IInv => StackKept
  <2> SUFFICES ASSUME IInv PROVE TypeOK /\ OnlyThrowsLose /\ BlocksDisjoint
    BY DEF StackKept
  <2> USE DEF IInv
  <2>1. TypeOK
    <3>1. messages \in 0..MaxCalls /\ calls \in 0..MaxCalls
      BY BoundsOK DEF Types, MessagesCounted
    <3>2. ASSUME call # Idle
          PROVE  /\ call.fn \in {"exec", "run"} /\ call.text \in Texts
                 /\ call.next \in 1..(Len(call.text) + 1)
                 /\ call.stmt \in 0..Len(call.text)
                 /\ call.rows \in 0..MaxRows
      <4>1. Len(call.text) \in Nat
        BY <3>2, CallFacts, TextFacts
      <4>2. QED
        BY <3>2, <4>1, CallFacts, BoundsOK DEF LoopInv
    <3>3. QED
      BY <3>1, <3>2 DEF TypeOK, Types
  <2>2. OnlyThrowsLose
    BY DEF OnlyThrowsLose, StackInv
  <2>3. BlocksDisjoint
    <3> SUFFICES ASSUME InExec, call.text # <<>>
                 PROVE  LET pzTail == call.stack + Align(TextBytes(call.text))
                        IN  /\ call.stack + 3 * Len(call.text) + 1 <= pzTail
                            /\ pzTail + 4 <= sp
      BY DEF BlocksDisjoint
    <3>1. call # Idle
      BY CallFacts
    <3>2. call.text \in Texts /\ call.stack \in Nat
      BY <3>1, CallFacts
    <3>3. Len(call.text) \in Nat \ {0}
      BY <3>2, TextsOK, EmptySeq
    <3>4. TextBytes(call.text) = 8 * Len(call.text) /\ TextBytes(call.text) \in Nat
      BY <3>2, TextFacts DEF TextBytes
    <3>5. /\ Align(TextBytes(call.text)) \in Nat
          /\ TextBytes(call.text) <= Align(TextBytes(call.text))
      BY <3>4, AlignFacts
    <3>6. sp = call.stack + (Align(TextBytes(call.text)) + 16)
      BY <3>1, AlignFacts DEF StackInv, Frame, InExec
    <3>7. QED
      BY <3>2, <3>3, <3>4, <3>5, <3>6
  <2>4. QED
    BY <2>1, <2>2, <2>3
<1>2. QED
  BY <1>1, Invariance, PTL

\* What has run is what the text asks for up to where the loop is.
LEMMA RanSoFar ==
    ASSUME IInv, call # Idle
    PROVE  /\ Positions(ran) = {p \in ToRun(call.text) : p < call.next}
           /\ call.text \in Texts /\ call.next \in Nat /\ call.stmt \in Nat
           /\ Len(call.text) \in Nat
<1>1. /\ call.text \in Texts /\ Len(call.text) \in Nat /\ call.next \in Nat /\ call.stmt \in Nat
      /\ \A p \in 1..Len(call.text) : Kind(p) \in Pieces
  BY CallFacts, TextFacts DEF IInv, Kind
<1>2. ASSUME NEW p \in Positions(ran) PROVE p \in ToRun(call.text) /\ p < call.next
  <2>1. p \in 1..Len(call.text) /\ p < call.next /\ Kind(p) \in Statements
    BY <1>2 DEF Positions, IInv, LoopInv
  <2>2. ASSUME NEW q \in Fatal(call.text) PROVE p <= q
    <3>1. q \in 1..Len(call.text) /\ Kind(q) \in {"bad", "fails"}
      BY <2>2 DEF Fatal, Kind
    <3>2. q >= call.next \/ (q = call.stmt /\ call.stmt = call.next - 1)
      BY <1>1, <3>1 DEF IInv, LoopInv
    <3>3. QED
      BY <1>1, <2>1, <3>1, <3>2
  <2>3. QED
    BY <2>1, <2>2 DEF ToRun, Reached, Statements, Kind
<1>3. ASSUME NEW p \in ToRun(call.text), p < call.next PROVE p \in Positions(ran)
  <2>1. p \in 1..Len(call.text) /\ Kind(p) \in Statements
    BY <1>1 DEF ToRun, Reached, Kind, Statements, Pieces
  <2>2. QED
    BY <1>3, <2>1 DEF IInv, LoopInv, Positions
<1>4. QED
  BY <1>1, <1>2, <1>3

\* Each statement of the text is run once, in the order of the text, and none after a
\* failure, by exec() and by run(); and each gets its own rows (index.js:472-492).
THEOREM TextIsRun == Spec => []RunsTheText
<1>1. IInv => RunsTheText
  <2> SUFFICES ASSUME IInv PROVE RowsToTheirStatement
    BY RanSoFar DEF RunsTheText, IInv
  <2> DEFINE n == Len(results)
             ofs == [i \in 1..n |-> results[i].of]
  <2>1. results \in Seq([of : Nat, rows : Nat]) /\ n \in Nat
    BY LenProperties DEF IInv, Types
  <2>2. ofs \in Seq(Nat) /\ Len(ofs) = n
    <3>1. \A i \in 1..n : results[i].of \in Nat
      <4>1. \A i \in 1..n : results[i] \in [of : Nat, rows : Nat]
        BY <2>1, ElementOfSeq
      <4>2. QED
        BY <4>1
    <3>2. ofs \in [1..n -> Nat]
      BY <3>1
    <3> HIDE DEF ofs, n
    <3>3. ofs \in Seq(Nat)
      BY <2>1, <3>2, SeqDef
    <3>4. 1..Len(ofs) = 1..n /\ Len(ofs) \in Nat
      BY <3>2, <3>3, LenProperties
    <3>5. QED
      BY <2>1, <3>3, <3>4
  <2>3. InOrder(ofs)
    BY <2>2 DEF InOrder, IInv, ResultsInv
  <2>4. ASSUME InExec, NEW i \in 1..n
        PROVE  /\ results[i].of \in Positions(ran)
               /\ Kind(results[i].of) \in {"rows", "fails"}
               /\ results[i].of = call.stmt => results[i].rows = call.rows
    <3>1. call # Idle /\ call.stmt \in Nat /\ call.rows \in Nat
      BY <2>4, CallFacts DEF IInv
    <3>2. /\ results[i].of \in 1..Len(call.text) /\ results[i].of < call.next
          /\ Kind(results[i].of) \in {"rows", "fails"}
      BY <2>4 DEF IInv, ResultsInv
    <3>3. results[i].of \in Positions(ran)
      BY <3>1, <3>2 DEF IInv, LoopInv, Positions, Statements
    <3>4. ASSUME results[i].of = call.stmt PROVE results[i].rows = call.rows
      <4>1. call.stmt # 0 /\ call.rows > 0
        BY <2>4, <3>1, <3>2, <3>4 DEF IInv, ResultsInv
      <4>2. n > 0 /\ results[n].of = call.stmt /\ results[n].rows = call.rows
        BY <2>4, <4>1 DEF IInv, ResultsInv
      <4>3. i < n => results[i].of < results[n].of
        BY <2>1, <4>2 DEF IInv, ResultsInv
      <4>4. QED
        BY <2>1, <3>1, <3>4, <4>2, <4>3
    <3>5. QED
      BY <3>2, <3>3, <3>4
  <2>5. ASSUME InExec, NEW p \in Positions(ran) \ {call.stmt}, Kind(p) = "rows"
        PROVE  \E i \in 1..n : results[i].of = p
    <3>1. call # Idle
      BY <2>5, CallFacts DEF IInv
    <3>2. p \in 1..Len(call.text) /\ p < call.next
      BY <3>1 DEF IInv, LoopInv, Positions
    <3>3. QED
      BY <2>5, <3>2 DEF IInv, ResultsInv
  <2>6. QED
    BY <2>3, <2>4, <2>5 DEF RowsToTheirStatement
<1>2. QED
  BY <1>1, Invariance, PTL

\* When exec() or run() ends, all that the text asks for has been run, and there is an
\* exception when and only when a piece of the text failed.
THEOREM CallsEndAtFailure == Spec => EndsAtFailure
<1> DEFINE A == call # Idle /\ call' = Idle
                  => /\ Positions(ran) = ToRun(call.text)
                     /\ threw' <=> Fatal(call.text) # {}
<1>1. IInv /\ [Next]_vars => [A]_vars
  <2> SUFFICES ASSUME IInv, [Next]_vars, call # Idle, call' = Idle
               PROVE  Positions(ran) = ToRun(call.text) /\ (threw' <=> Fatal(call.text) # {})
    OBVIOUS
  <2>1. /\ Positions(ran) = {p \in ToRun(call.text) : p < call.next}
        /\ call.text \in Texts /\ call.next \in Nat /\ call.stmt \in Nat
        /\ Len(call.text) \in Nat
    BY RanSoFar
  <2>2. /\ \A p \in ToRun(call.text) : /\ p \in 1..Len(call.text)
                                       /\ Kind(p) \notin {"blank", "bad"}
                                       /\ \A q \in Fatal(call.text) : p <= q
        /\ \A q \in 1..Len(call.text) : q \in Fatal(call.text) <=> Kind(q) \in {"bad", "fails"}
        /\ Fatal(call.text) \subseteq 1..Len(call.text)
    BY DEF ToRun, Reached, Fatal, Kind
  <2>3. CASE ExecReturn \/ RunReturn
    <3>1. call.stmt = 0 /\ call.next > Len(call.text) /\ threw' = threw
      BY <2>3, CallFacts DEF ExecReturn, RunReturn, IInv
    <3>2. ~threw /\ \A p \in 1..Len(call.text) : Kind(p) \notin {"bad", "fails"}
      BY <2>1, <3>1 DEF IInv, LoopInv
    <3>3. Fatal(call.text) = {}
      BY <2>2, <3>2
    <3>4. \A p \in ToRun(call.text) : p < call.next
      BY <2>1, <2>2, <3>1
    <3>5. QED
      BY <2>1, <3>1, <3>2, <3>3, <3>4
  <2>4. CASE PrepareFails \/ StepFails
    <3>1. threw' = TRUE
      BY <2>4 DEF PrepareFails, StepFails, Throw, ExecThrow, RunThrow
    <3>2. PICK q \in 1..Len(call.text) :
              /\ q \in Fatal(call.text)
              /\ q < call.next \/ (q = call.next /\ Kind(q) = "bad")
      <4>1. CASE PrepareFails
        BY <2>1, <2>2, <4>1 DEF PrepareFails, IInv, LoopInv
      <4>2. CASE StepFails
        <5>1. call.stmt # 0 /\ Kind(call.stmt) = "fails"
          BY <4>2, CallFacts DEF StepFails, IInv
        <5>2. call.stmt = call.next - 1 /\ call.stmt \in 1..Len(call.text)
          BY <5>1 DEF IInv, LoopInv
        <5>3. QED
          BY <2>1, <2>2, <5>1, <5>2
      <4>3. QED
        BY <2>4, <4>1, <4>2
    <3>3. \A p \in ToRun(call.text) : p < call.next
      BY <2>1, <2>2, <3>2
    <3>4. QED
      BY <2>1, <3>1, <3>2, <3>3
  <2>5. ASSUME NEW t \in Texts, ExecEnter(t) \/ RunEnter(t) PROVE FALSE
    BY <2>5 DEF ExecEnter, RunEnter
  <2>6. CASE Refuse \/ Close \/ UNCHANGED vars
    BY <2>6 DEF Refuse, Close, vars
  <2>7. CASE PrepareBlank \/ Prepare \/ StepRow \/ StepDone
    <3>1. call'.fn = call.fn
      BY <2>7, CallFacts DEF PrepareBlank, Prepare, StepRow, StepDone, IInv, Calls
    <3>2. QED
      BY <3>1, CallFacts DEF Idle, IInv
  <2>8. QED
    BY <2>3, <2>4, <2>5, <2>6, <2>7 DEF Next, Advance
<1>2. QED
  BY <1>1, Invariance, PTL DEF Spec, EndsAtFailure

-----------------------------------------------------------------------------
(***************************************************************************)
(* Values.                                                                 *)
(***************************************************************************)
\* What the last bind stored in parameter p.
Kept(p) == IF p <= Len(given) /\ ~Ignored(given[p]) THEN ToSql(given[p]) ELSE Null

GivenOK ==
    /\ given \in Seq(JsValue)
    /\ \A i \in 1..Len(given) : ~Refused(given[i]) /\ (i > N => Ignored(given[i]))

ParamOK == param = [p \in 1..N |-> Kept(p)]

\* A row is read from the memory as it is, or from a view that was detached.
GotOK ==
    got # <<>> =>
        /\ got = [p \in 1..N |-> got[p]]
        /\ \A p \in 1..N :
              /\ got[p] \in {ToJs(param[p], TRUE), ToJs(param[p], FALSE)}
              /\ grows = 0 => got[p] = ToJs(param[p], TRUE)

\* The inductive invariant.
ValuesInv == GivenOK /\ ParamOK /\ GotOK /\ row \in {<<>>, param} /\ grows \in 0..MaxGrows

-----------------------------------------------------------------------------
(***************************************************************************)
(* One value.                                                              *)
(***************************************************************************)
LEMMA NumberReturns ==
    ASSUME NEW h, NEW valid \in BOOLEAN
    PROVE  /\ BindNumber(h).type \in {"INTEGER", "FLOAT"}
           /\ ToJs(BindNumber(h), valid) = [js |-> "number", v |-> h]
<1>1. CASE h = 2 * ToInt32(h)
  <2>1. BindNumber(h) = [type |-> "INTEGER", v |-> ToInt32(h)]
    BY <1>1 DEF BindNumber
  <2>2. ToJs(BindNumber(h), valid) = [js |-> "number", v |-> 2 * ToInt32(h)]
    BY <2>1 DEF ToJs
  <2>3. QED
    BY <1>1, <2>1, <2>2
<1>2. CASE h # 2 * ToInt32(h)
  <2>1. BindNumber(h) = [type |-> "FLOAT", v |-> h]
    BY <1>2 DEF BindNumber
  <2>2. QED
    BY <2>1 DEF ToJs
<1>3. QED
  BY <1>1, <1>2

\* A byte, read as a signed element and stored as an unsigned one.
LEMMA ByteReturns ==
    ASSUME ByteSize \in Nat \ {0}, NEW b \in Int
    PROVE  ReadByte(b % ByteSize, TRUE) = b % ByteSize
<1> DEFINE c == b % ByteSize
<1>1. c \in 0..(ByteSize - 1)
  OBVIOUS
<1> HIDE DEF c
<1>2. c % ByteSize = c /\ (c - ByteSize) % ByteSize = c
  BY <1>1
<1>3. QED
  BY <1>2 DEF ReadByte, ToUint8, Heap8, c

LEMMA TextReturns ==
    ASSUME NEW s \in Seq(Int), 0 \notin {s[i] : i \in 1..Len(s)}
    PROVE  UpToNul(s) = s
  BY DEF UpToNul

LEMMA SqlTypes ==
    ASSUME NEW x \in JsValue, ~Refused(x), ~Ignored(x)
    PROVE  ToSql(x).type \in {"INTEGER", "FLOAT", "TEXT", "BLOB", "NULL"}
<1>1. CASE x.js = "string"
  BY <1>1 DEF ToSql
<1>2. CASE x.js = "number"
  BY <1>2, NumberReturns DEF ToSql
<1>3. CASE x.js = "boolean"
  BY <1>3, NumberReturns DEF ToSql
<1>4. CASE x.js = "array"
  BY <1>4 DEF ToSql, BindBlob
<1>5. CASE x.js \in {"null", "NaN"}
  BY <1>5 DEF ToSql, Null
<1>6. CASE x.js = "-0"
  BY <1>6 DEF ToSql
<1>7. QED
  BY <1>1, <1>2, <1>3, <1>4, <1>5, <1>6 DEF JsValue, Refused, Ignored

LEMMA ValueReturns ==
    ASSUME ByteSize \in Nat \ {0}, NEW x \in JsValue, NEW valid \in BOOLEAN
    PROVE  LET y == ToJs(ToSql(x), valid)
           IN  /\ Numeric(x) => y = [js |-> "number", v |-> Halves(x)]
               /\ x.js \in {"null", "NaN"} => y = JsNull
               /\ x.js = "string" /\ 0 \notin {x.s[i] : i \in 1..Len(x.s)} => y = x
               /\ x.js = "array" /\ valid => y = Bytes(x)
<1> DEFINE y == ToJs(ToSql(x), valid)
<1>1. ASSUME Numeric(x) PROVE y = [js |-> "number", v |-> Halves(x)]
  <2>1. CASE x.js = "number"
    BY <2>1, NumberReturns DEF ToSql, Halves
  <2>2. CASE x.js = "boolean"
    BY <2>2, NumberReturns DEF ToSql, Halves
  <2>3. CASE x.js = "-0"
    BY <2>3 DEF ToSql, ToJs, Halves
  <2>4. QED
    BY <1>1, <2>1, <2>2, <2>3 DEF Numeric
<1>2. ASSUME x.js \in {"null", "NaN"} PROVE y = JsNull
  BY <1>2 DEF ToSql, ToJs, Null
<1>3. ASSUME x.js = "string", 0 \notin {x.s[i] : i \in 1..Len(x.s)} PROVE y = x
  <2>1. x.s \in Seq(Int) /\ x = [js |-> "string", s |-> x.s]
    BY <1>3 DEF JsValue
  <2>2. ToSql(x) = [type |-> "TEXT", s |-> x.s]
    BY <1>3 DEF ToSql
  <2>3. y = [js |-> "string", s |-> UpToNul(x.s)]
    BY <2>2 DEF ToJs
  <2>4. QED
    BY <1>3, <2>1, <2>3, TextReturns
<1>4. ASSUME x.js = "array", valid PROVE y = Bytes(x)
  <2>1. x.s \in Seq(Int) /\ x = [js |-> "array", s |-> x.s]
    BY <1>4 DEF JsValue
  <2>2. Len(x.s) \in Nat /\ \A i \in 1..Len(x.s) : x.s[i] \in Int
    BY <2>1
  <2> DEFINE a == x.s
             b == [i \in 1..Len(a) |-> a[i] % ByteSize]
  <2>3. ToSql(x) = [type |-> "BLOB", s |-> b]
    BY <1>4 DEF ToSql, BindBlob
  <2>4. b \in Seq(Int) /\ Len(b) = Len(a)
    <3>1. \A i \in 1..Len(a) : a[i] % ByteSize \in Int
      BY <2>2
    <3>2. QED
      BY <2>2, <3>1
  <2>5. y = [js |-> "array", s |-> [i \in 1..Len(b) |-> ReadByte(b[i], TRUE)]]
    <3> HIDE DEF b
    <3>1. y = ToJs([type |-> "BLOB", s |-> b], TRUE)
      BY <1>4, <2>3
    <3>2. QED
      BY <3>1 DEF ToJs
  <2>6. \A i \in 1..Len(a) : ReadByte(b[i], TRUE) = a[i] % ByteSize
    BY <2>2, ByteReturns
  <2>7. [i \in 1..Len(b) |-> ReadByte(b[i], TRUE)] = [i \in 1..Len(a) |-> a[i] % ByteSize]
    BY <2>4, <2>6
  <2>8. Bytes(x) = [js |-> "array", s |-> [i \in 1..Len(a) |-> a[i] % ByteSize]]
    <3> DEFINE t == [i \in 1..Len(a) |-> a[i] % ByteSize]
    <3>1. Bytes(x) = [x EXCEPT !.s = t]
      BY DEF Bytes
    <3>2. x \in [js : {"string", "array"}, s : Seq(Int)]
      BY <1>4 DEF JsValue
    <3> HIDE DEF t, a
    <3>3. [x EXCEPT !.s = t] = [js |-> "array", s |-> t]
      BY <1>4, <3>2
    <3>4. QED
      BY <3>1, <3>3 DEF t
  <2>9. QED
    BY <2>5, <2>7, <2>8
<1>5. QED
  BY <1>1, <1>2, <1>3, <1>4

-----------------------------------------------------------------------------
(***************************************************************************)
(* One list of values.                                                     *)
(***************************************************************************)
LEMMA StopFacts ==
    ASSUME NEW values \in Seq(JsValue), N \in Nat
    PROVE  /\ StopsAt(values) \in 1..(Len(values) + 1)
           /\ \A i \in 1..(StopsAt(values) - 1) :
                 ~Refused(values[i]) /\ (i > N => Ignored(values[i]))
<1> DEFINE bad == {i \in 1..Len(values) : Refused(values[i]) \/ (i > N /\ ~Ignored(values[i]))}
<1>1. Len(values) \in Nat
  OBVIOUS
<1>2. StopsAt(values) = IF bad = {} THEN Len(values) + 1 ELSE CHOOSE i \in bad : \A j \in bad : i <= j
  BY DEF StopsAt
<1>3. bad \subseteq 1..Len(values)
  OBVIOUS
<1>4. \A i \in 1..Len(values) : i \notin bad => ~Refused(values[i]) /\ (i > N => Ignored(values[i]))
  OBVIOUS
<1> HIDE DEF bad
<1>5. CASE bad = {}
  BY <1>1, <1>2, <1>4, <1>5
<1>6. CASE bad # {}
  <2>1. bad \subseteq Nat
    BY <1>1, <1>3
  <2>2. PICK m \in bad : \A n \in bad : ~(<<n, m>> \in OpToRel(<, Nat))
    BY <1>6, <2>1, NatLessThanWellFounded, WFMin
  <2>3. \A n \in bad : ~(n < m)
    BY <2>1, <2>2 DEF OpToRel
  <2>4. \A n \in bad : m <= n
    BY <2>1, <2>3
  <2>5. StopsAt(values) \in bad /\ \A j \in bad : StopsAt(values) <= j
    BY <1>2, <1>6, <2>4
  <2>6. StopsAt(values) \in 1..Len(values)
    BY <1>3, <2>5
  <2>7. ASSUME NEW i \in 1..(StopsAt(values) - 1) PROVE i \in 1..Len(values) /\ i \notin bad
    <3>1. i \in 1..Len(values) /\ ~(StopsAt(values) <= i)
      BY <1>1, <2>6
    <3>2. QED
      BY <2>5, <3>1
  <2>8. QED
    BY <1>1, <1>4, <2>6, <2>7
<1>7. QED
  BY <1>5, <1>6

LEMMA TakenFacts ==
    ASSUME NEW values \in Seq(JsValue), N \in Nat
    PROVE  /\ Taken(values) \in Seq(JsValue)
           /\ \A i \in 1..Len(Taken(values)) :
                 ~Refused(Taken(values)[i]) /\ (i > N => Ignored(Taken(values)[i]))
<1> DEFINE n == StopsAt(values) - 1
           t == Taken(values)
<1>1. /\ n \in 0..Len(values) /\ Len(values) \in Nat
      /\ \A i \in 1..n : ~Refused(values[i]) /\ (i > N => Ignored(values[i]))
  BY StopFacts
<1>2. t = SubSeq(values, 1, n)
  BY DEF Taken
<1> HIDE DEF n, t
<1>3. t \in Seq(JsValue) /\ Len(t) = n /\ \A i \in 1..n : t[i] = values[i]
  BY <1>1, <1>2
<1>4. QED
  BY <1>1, <1>3 DEF t

-----------------------------------------------------------------------------
(***************************************************************************)
(* The steps.                                                              *)
(***************************************************************************)
LEMMA InitKeeps == WidthsOK /\ ValuesInit => ValuesInv
<1> SUFFICES ASSUME WidthsOK, ValuesInit PROVE ValuesInv
  OBVIOUS
<1>1. given = <<>> /\ param = Cleared /\ row = <<>> /\ got = <<>> /\ grows = 0
  BY DEF ValuesInit
<1>2. GivenOK
  BY <1>1 DEF GivenOK
<1>3. ParamOK
  BY <1>1 DEF ParamOK, Kept, Cleared, WidthsOK
<1>4. QED
  BY <1>1, <1>2, <1>3 DEF ValuesInv, GotOK, WidthsOK

LEMMA BindKeeps ==
    ASSUME ValuesInv, WidthsOK, NEW values \in Seq(JsValue), Bind(values)
    PROVE  ValuesInv'
<1>1. /\ given' = Taken(values) /\ param' = BoundBy(Taken(values), Cleared)
      /\ row' = <<>> /\ got' = <<>> /\ grows' \in grows..MaxGrows
  BY DEF Bind, Grown
<1>2. GivenOK'
  BY <1>1, TakenFacts DEF GivenOK, WidthsOK
<1>3. ParamOK'
  BY <1>1 DEF ParamOK, Kept, BoundBy, Cleared
<1>4. GotOK' /\ grows' \in 0..MaxGrows
  BY <1>1 DEF GotOK, ValuesInv, WidthsOK
<1>5. QED
  BY <1>1, <1>2, <1>3, <1>4 DEF ValuesInv

LEMMA StepKeeps ==
    ASSUME ValuesInv, WidthsOK, Step \/ StepEnds
    PROVE  ValuesInv'
<1>1. /\ given' = given /\ param' = param /\ row' \in {<<>>, param}
      /\ got' = <<>> /\ grows' \in grows..MaxGrows
  BY DEF Step, StepEnds, Grown
<1>2. GivenOK'
  BY <1>1 DEF GivenOK, ValuesInv
<1>3. ParamOK'
  BY <1>1 DEF ParamOK, Kept, ValuesInv
<1>4. GotOK' /\ grows' \in 0..MaxGrows
  BY <1>1 DEF GotOK, ValuesInv, WidthsOK
<1>5. QED
  BY <1>1, <1>2, <1>3, <1>4 DEF ValuesInv

LEMMA GetKeeps ==
    ASSUME ValuesInv, WidthsOK, Get
    PROVE  ValuesInv'
<1>1. /\ given' = given /\ param' = param /\ row' = row /\ row = param
      /\ grows' \in grows..MaxGrows
  BY DEF Get, Grown, ValuesInv
<1>2. PICK at \in 1..N :
          got' = [p \in 1..N |-> ToJs(row[p], IF p < at THEN grows = 0 ELSE grows' = 0)]
  BY DEF Get
<1>3. got' = [p \in 1..N |-> got'[p]]
  BY <1>2
<1>4. ASSUME NEW p \in 1..N
      PROVE  /\ got'[p] \in {ToJs(param[p], TRUE), ToJs(param[p], FALSE)}
             /\ grows' = 0 => got'[p] = ToJs(param[p], TRUE)
  <2> DEFINE valid == IF p < at THEN grows = 0 ELSE grows' = 0
  <2>1. got'[p] = ToJs(param[p], valid)
    BY <1>1, <1>2
  <2>2. valid \in BOOLEAN
    OBVIOUS
  <2>3. grows' = 0 => grows = 0
    BY <1>1 DEF ValuesInv, WidthsOK
  <2>4. valid \in BOOLEAN /\ (grows' = 0 => valid)
    BY <2>2, <2>3
  <2> HIDE DEF valid
  <2>5. CASE valid
    <3>1. valid = TRUE
      BY <2>4, <2>5
    <3>2. QED
      BY <2>1, <3>1
  <2>6. CASE ~valid
    <3>1. valid = FALSE
      BY <2>4, <2>6
    <3>2. QED
      BY <2>1, <2>4, <3>1
  <2>7. QED
    BY <2>5, <2>6
<1>5. GotOK'
  BY <1>1, <1>3, <1>4 DEF GotOK
<1>6. GivenOK'
  BY <1>1 DEF GivenOK, ValuesInv
<1>7. ParamOK'
  BY <1>1 DEF ParamOK, Kept, ValuesInv
<1>8. grows' \in 0..MaxGrows
  BY <1>1 DEF ValuesInv, WidthsOK
<1>9. QED
  BY <1>1, <1>5, <1>6, <1>7, <1>8 DEF ValuesInv

LEMMA ValuesKeep == WidthsOK /\ ListsOK /\ ValuesInv /\ [ValuesNext]_valueVars => ValuesInv'
<1> SUFFICES ASSUME WidthsOK, ListsOK, ValuesInv, [ValuesNext]_valueVars PROVE ValuesInv'
  OBVIOUS
<1>1. CASE UNCHANGED valueVars
  BY <1>1 DEF valueVars, ValuesInv, GivenOK, ParamOK, Kept, GotOK
<1>2. CASE \E values \in Lists : Bind(values)
  BY <1>2, BindKeeps DEF ListsOK
<1>3. CASE Step \/ StepEnds
  BY <1>3, StepKeeps
<1>4. CASE Get
  BY <1>4, GetKeeps
<1>5. QED
  BY <1>1, <1>2, <1>3, <1>4 DEF ValuesNext

-----------------------------------------------------------------------------
(***************************************************************************)
(* What get() returns.                                                     *)
(***************************************************************************)
LEMMA ReadParameter ==
    ASSUME ValuesInv, WidthsOK, got # <<>>, NEW p \in 1..N
    PROVE  /\ Numeric(Expected(p)) => got[p] = [js |-> "number", v |-> Halves(Expected(p))]
           /\ Expected(p).js \in {"null", "NaN", "undefined"} => got[p] = JsNull
           /\ Expected(p).js = "string" /\ 0 \notin {Expected(p).s[i] : i \in 1..Len(Expected(p).s)}
                  => got[p] = Expected(p)
           /\ grows = 0 /\ Expected(p).js = "array" => got[p] = Bytes(Expected(p))
<1>1. PICK valid \in BOOLEAN : got[p] = ToJs(Kept(p), valid) /\ (grows = 0 => valid)
  <2>1. param[p] = Kept(p)
    BY DEF ValuesInv, ParamOK
  <2>2. CASE got[p] = ToJs(param[p], TRUE)
    BY <2>1, <2>2
  <2>3. CASE got[p] = ToJs(param[p], FALSE) /\ grows # 0
    BY <2>1, <2>3
  <2>4. QED
    BY <2>2, <2>3 DEF ValuesInv, GotOK
<1>2. CASE p <= Len(given) /\ ~Ignored(given[p])
  <2>1. given[p] \in JsValue /\ Expected(p) = given[p] /\ Kept(p) = ToSql(given[p])
    BY <1>2 DEF Expected, Kept, ValuesInv, GivenOK
  <2>2. ByteSize \in Nat \ {0} /\ given[p].js # "undefined"
    BY <1>2 DEF WidthsOK, Ignored
  <2>3. QED
    BY <1>1, <2>1, <2>2, ValueReturns
<1>3. CASE ~(p <= Len(given) /\ ~Ignored(given[p]))
  <2>1. Expected(p).js \in {"null", "undefined"} /\ Kept(p) = Null
    BY <1>3 DEF Expected, Kept, Ignored, JsNull
  <2>2. got[p] = JsNull
    BY <1>1, <2>1 DEF ToJs, Null
  <2>3. QED
    BY <2>1, <2>2 DEF Numeric
<1>4. QED
  BY <1>2, <1>3

LEMMA ReadsBackFollows == WidthsOK /\ ValuesInv => ReadsBack
<1> SUFFICES ASSUME WidthsOK, ValuesInv PROVE ReadsBack
  OBVIOUS
<1>1. NumbersKept /\ NothingLeftOver /\ TextKept /\ BlobsKeptInPlace
  BY ReadParameter DEF NumbersKept, NothingLeftOver, TextKept, BlobsKeptInPlace
<1>2. DOMAIN param = 1..N
  BY DEF ValuesInv, ParamOK
<1>3. ASSUME NEW p \in 1..N PROVE param[p].type \in {"INTEGER", "FLOAT", "TEXT", "BLOB", "NULL"}
  <2>1. param[p] = Kept(p)
    BY DEF ValuesInv, ParamOK
  <2>2. CASE p <= Len(given) /\ ~Ignored(given[p])
    <3>1. given[p] \in JsValue /\ ~Refused(given[p])
      BY <2>2 DEF ValuesInv, GivenOK
    <3>2. QED
      BY <2>1, <2>2, <3>1, SqlTypes DEF Kept
  <2>3. CASE ~(p <= Len(given) /\ ~Ignored(given[p]))
    BY <2>1, <2>3 DEF Kept, Null
  <2>4. QED
    BY <2>2, <2>3
<1>4. \A i \in (N + 1)..Len(given) : Ignored(given[i])
  BY DEF ValuesInv, GivenOK, WidthsOK
<1>5. got # <<>> => Len(got) = N
  <2> SUFFICES ASSUME got # <<>> PROVE Len(got) = N
    OBVIOUS
  <2> DEFINE S == {got[p] : p \in 1..N}
  <2>1. got \in [1..N -> S]
    BY DEF ValuesInv, GotOK
  <2>2. QED
    BY <2>1 DEF WidthsOK
<1>6. ValuesTypeOK
  BY <1>2, <1>3, <1>4, <1>5 DEF ValuesTypeOK, ValuesInv
<1>7. QED
  BY <1>1, <1>6 DEF ReadsBack

(***************************************************************************)
(* What a caller binds is what get() reads: numbers as themselves, through *)
(* an integer of any width or a double; text up to its NUL; blobs byte by  *)
(* byte while the memory has not grown; and NULL for what the last bind    *)
(* did not give (bindValue, bindNumber, bind, get, getBlob of index.js).   *)
(***************************************************************************)
THEOREM ValuesReadBack == ValuesSpec => []ReadsBack
<1>1. ValuesInit => ValuesInv
  BY InitKeeps, WidthsAssumption
<1>2. ValuesInv /\ [ValuesNext]_valueVars => ValuesInv'
  BY ValuesKeep, WidthsAssumption, ListsAssumption
<1>3. ValuesInv => ReadsBack
  BY ReadsBackFollows, WidthsAssumption
<1>4. QED
  BY <1>1, <1>2, <1>3, PTL DEF ValuesSpec
=============================================================================
