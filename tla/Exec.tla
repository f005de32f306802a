-------------------------------- MODULE Exec --------------------------------
(***************************************************************************)
(* Texts of several SQL statements, run one after another by               *)
(*   - Database.exec (index.js:458-495), which keeps the text and the tail *)
(*     pointer on emscripten's stack and collects rows, and                *)
(*   - Database.run without parameters (index.js:407-417), which hands the *)
(*     text to sqlite3_exec (sqlite3.c), with the shared word apiTemp as   *)
(*     the place for the error message.                                    *)
(*                                                                         *)
(* A text is a sequence of pieces, one UTF-16 unit each; a piece is of a   *)
(* kind: "rows" (a statement with rows), "silent" (one without), "blank"   *)
(* (a comment), "bad" (does not compile), "fails" (its step fails after    *)
(* some rows, or before the first).  Positions of the text stand for the   *)
(* addresses nextSqlPtr and zSql.  The stack is counted in bytes.          *)
(***************************************************************************)
EXTENDS Integers, Sequences, FiniteSets

CONSTANTS
    Texts,      \* the texts callers pass
    MaxRows,    \* bound: rows of a statement
    MaxCalls    \* bound: calls of exec and run

Pieces == {"rows", "silent", "blank", "bad", "fails"}

ASSUME TextsOK  == \A t \in Texts : t \in Seq(Pieces)
ASSUME BoundsOK == MaxRows \in Nat /\ MaxCalls \in Nat

VARIABLES
    open,       \* this.db is not null
    sp,         \* top of emscripten's stack
    apiTemp,    \* what the shared word holds
    call,       \* the call in progress
    ran,        \* positions of the statements this call has stepped, in order
    results,    \* what exec has collected: <<[of |-> position, rows |-> n]>>
    threw,      \* the last call ended with an exception
    messages,   \* error messages allocated by sqlite3_exec and not freed
    lost,       \* bytes of stack of the calls that threw
    calls       \* calls made so far

vars == <<open, sp, apiTemp, call, ran, results, threw, messages, lost, calls>>

Align(n) == ((n + 15) \div 16) * 16                      \* stackAlloc
Base == Align(4)                                         \* the word apiTemp

Idle == [fn |-> "none"]
Stepping == "stmt" \in DOMAIN call /\ call.stmt # 0
InExec == call.fn = "exec"
Kind(p) == call.text[p]

TypeOK ==
    /\ open \in BOOLEAN /\ threw \in BOOLEAN
    /\ sp \in Nat /\ lost \in Nat /\ messages \in 0..MaxCalls /\ calls \in 0..MaxCalls
    /\ apiTemp \in {"nothing", "statement", "message"}
    /\ call # Idle =>
         /\ call.fn \in {"exec", "run"} /\ call.text \in Texts
         /\ call.next \in 1..(Len(call.text) + 1)
         /\ call.stmt \in 0..Len(call.text)
         /\ call.rows \in 0..MaxRows
    /\ ran \in Seq(Nat)

Init ==
    /\ open = TRUE /\ sp = Base /\ apiTemp = "nothing" /\ call = Idle
    /\ ran = <<>> /\ results = <<>> /\ threw = FALSE
    /\ messages = 0 /\ lost = 0 /\ calls = 0

(***************************************************************************)
(* Entering a call.  exec saves the stack pointer, allocates 8 bytes for   *)
(* each UTF-16 unit (sql.length << 3), writes the UTF-8 form, of one to    *)
(* three bytes a unit, and its terminator, and then allocates the tail     *)
(* pointer.  cwrap's own string argument (run) takes 4 * length + 1.       *)
(***************************************************************************)

TextBytes(t) == 8 * Len(t)

Started(fn, t, stack) ==
    [fn |-> fn, text |-> t, next |-> 1, stmt |-> 0, rows |-> 0, stack |-> stack]

ExecEnter(t) ==
    /\ open /\ call = Idle /\ calls < MaxCalls
    /\ call' = Started("exec", t, sp)
    /\ sp' = sp + Align(TextBytes(t)) + Align(4)
    /\ calls' = calls + 1 /\ ran' = <<>> /\ results' = <<>> /\ threw' = FALSE
    /\ UNCHANGED <<open, apiTemp, messages, lost>>

RunEnter(t) ==
    /\ open /\ call = Idle /\ calls < MaxCalls
    /\ call' = Started("run", t, sp)
    /\ sp' = sp + Align(4 * Len(t) + 1)
    /\ calls' = calls + 1 /\ ran' = <<>> /\ results' = <<>> /\ threw' = FALSE
    /\ UNCHANGED <<open, apiTemp, messages, lost>>

(* "Database closed" is thrown before anything is allocated. *)
Refuse ==
    /\ ~open /\ call = Idle /\ calls < MaxCalls
    /\ calls' = calls + 1 /\ ran' = <<>> /\ results' = <<>> /\ threw' = TRUE
    /\ UNCHANGED <<open, sp, apiTemp, call, messages, lost>>

Close ==
    /\ open /\ call = Idle
    /\ open' = FALSE
    /\ UNCHANGED <<sp, apiTemp, call, ran, results, threw, messages, lost, calls>>

(***************************************************************************)
(* Leaving a call.  exec restores the stack only where it returns; an      *)
(* exception of handleError leaves it as it is.  sqlite3_exec always       *)
(* returns, so cwrap restores the stack; what fails is handleError after   *)
(* it, and the message stays in the word, to be overwritten by the next    *)
(* call that uses it.                                                      *)
(***************************************************************************)
ExecThrow ==
    /\ call' = Idle /\ threw' = TRUE
    /\ lost' = lost + (sp - call.stack)
    /\ UNCHANGED <<sp, messages, apiTemp>>

RunThrow ==
    /\ call' = Idle /\ threw' = TRUE /\ sp' = call.stack
    /\ apiTemp' = "message" /\ messages' = messages + 1
    /\ UNCHANGED lost

Throw == IF InExec THEN ExecThrow ELSE RunThrow

(* Fault of ExecReturn: the stack is not restored. *)
ExecReturnKeepsStack ==
    /\ InExec /\ ~Stepping /\ call.next > Len(call.text)
    /\ call' = Idle
    /\ UNCHANGED <<open, sp, apiTemp, ran, results, threw, messages, lost, calls>>

ExecReturn ==
    /\ InExec /\ ~Stepping /\ call.next > Len(call.text)
    /\ sp' = call.stack /\ call' = Idle
    /\ UNCHANGED <<open, apiTemp, ran, results, threw, messages, lost, calls>>

RunReturn ==
    /\ call.fn = "run" /\ ~Stepping /\ call.next > Len(call.text)
    /\ sp' = call.stack /\ call' = Idle /\ apiTemp' = "nothing"
    /\ UNCHANGED <<open, ran, results, threw, messages, lost, calls>>

(***************************************************************************)
(* The loop.  Prepare compiles the piece at the tail, moves the tail past  *)
(* it and leaves the statement, or nothing for a blank piece; exec gets it *)
(* through apiTemp, sqlite3_exec through a local variable.                 *)
(***************************************************************************)
PrepareFails ==
    /\ call # Idle /\ ~Stepping /\ call.next <= Len(call.text)
    /\ Kind(call.next) = "bad"
    /\ Throw
    /\ UNCHANGED <<open, ran, results, calls>>

(* Fault of PrepareBlank: an empty statement is left before the tail is read. *)
PrepareBlankStays ==
    /\ call # Idle /\ ~Stepping /\ call.next <= Len(call.text)
    /\ Kind(call.next) = "blank"
    /\ apiTemp' = IF InExec THEN "nothing" ELSE apiTemp
    /\ UNCHANGED <<open, sp, call, ran, results, threw, messages, lost, calls>>

PrepareBlank ==
    /\ call # Idle /\ ~Stepping /\ call.next <= Len(call.text)
    /\ Kind(call.next) = "blank"
    /\ call' = [call EXCEPT !.next = @ + 1]
    /\ apiTemp' = IF InExec THEN "nothing" ELSE apiTemp
    /\ UNCHANGED <<open, sp, ran, results, threw, messages, lost, calls>>

(* Fault of Prepare: the tail is not taken. *)
PrepareKeepsTail ==
    /\ call # Idle /\ ~Stepping /\ call.next <= Len(call.text)
    /\ Kind(call.next) \in {"rows", "silent", "fails"}
    /\ Len(ran) < Len(call.text)
    /\ call' = [call EXCEPT !.stmt = call.next, !.rows = 0]
    /\ apiTemp' = IF InExec THEN "statement" ELSE apiTemp
    /\ ran' = Append(ran, call.next)
    /\ UNCHANGED <<open, sp, results, threw, messages, lost, calls>>

Prepare ==
    /\ call # Idle /\ ~Stepping /\ call.next <= Len(call.text)
    /\ Kind(call.next) \in {"rows", "silent", "fails"}
    /\ call' = [call EXCEPT !.stmt = call.next, !.next = @ + 1, !.rows = 0]
    /\ apiTemp' = IF InExec THEN "statement" ELSE apiTemp
    /\ ran' = Append(ran, call.next)
    /\ UNCHANGED <<open, sp, results, threw, messages, lost, calls>>

(* A row: exec starts a result with the first row of a statement. *)
Collected ==
    IF ~InExec THEN results
    ELSE IF call.rows = 0 THEN Append(results, [of |-> call.stmt, rows |-> 1])
    ELSE [results EXCEPT ![Len(results)].rows = @ + 1]

StepRow ==
    /\ Stepping /\ Kind(call.stmt) \in {"rows", "fails"} /\ call.rows < MaxRows
    /\ results' = Collected
    /\ call' = [call EXCEPT !.rows = @ + 1]
    /\ UNCHANGED <<open, sp, apiTemp, ran, threw, messages, lost, calls>>

(* SQLITE_DONE: the statement is finalized, the loop goes on at the tail. *)
StepDone ==
    /\ Stepping
    /\ \/ Kind(call.stmt) = "silent"
       \/ Kind(call.stmt) = "rows" /\ call.rows > 0
    /\ call' = [call EXCEPT !.stmt = 0]
    /\ UNCHANGED <<open, sp, apiTemp, ran, results, threw, messages, lost, calls>>

(* Fault of StepFails: an error is taken for the end of the rows. *)
StepFailsAsDone ==
    /\ Stepping /\ Kind(call.stmt) = "fails"
    /\ call' = [call EXCEPT !.stmt = 0]
    /\ UNCHANGED <<open, sp, apiTemp, ran, results, threw, messages, lost, calls>>

StepFails ==
    /\ Stepping /\ Kind(call.stmt) = "fails"
    /\ Throw
    /\ UNCHANGED <<open, ran, results, calls>>

Advance ==
    \/ ExecReturn \/ RunReturn
    \/ PrepareFails \/ PrepareBlank \/ Prepare
    \/ StepRow \/ StepDone \/ StepFails

Next ==
    \/ \E t \in Texts : ExecEnter(t) \/ RunEnter(t)
    \/ Refuse \/ Close
    \/ Advance

(* Both loops run inside one synchronous call: nothing can stop them. *)
Fairness == WF_vars(Advance)

Spec == Init /\ [][Next]_vars /\ Fairness
-----------------------------------------------------------------------------
(***************************************************************************)
(* What the text asks for: the statements up to and with the first piece   *)
(* that fails.                                                             *)
(***************************************************************************)
Fatal(t) == {p \in 1..Len(t) : t[p] \in {"bad", "fails"}}
Reached(t) == {p \in 1..Len(t) : \A q \in Fatal(t) : p <= q}
ToRun(t) == {p \in Reached(t) : t[p] \notin {"blank", "bad"}}
InOrder(s) == \A i, j \in 1..Len(s) : i < j => s[i] < s[j]
Positions(s) == {s[i] : i \in 1..Len(s)}

(***************************************************************************)
(* exec's results belong to the statements that gave rows, in the order of *)
(* the text: no statement gets the rows of another (curresult,             *)
(* index.js:480-490).                                                      *)
(***************************************************************************)
RowsToTheirStatement ==
    /\ InOrder([i \in 1..Len(results) |-> results[i].of])
    /\ InExec => \A i \in 1..Len(results) :
          /\ results[i].of \in Positions(ran)
          /\ Kind(results[i].of) \in {"rows", "fails"}
          /\ results[i].of = call.stmt => results[i].rows = call.rows
    /\ InExec => \A p \in Positions(ran) \ {call.stmt} :
          Kind(p) = "rows" => \E i \in 1..Len(results) : results[i].of = p

(***************************************************************************)
(* Each statement of the text is run once, in the order of the text, and   *)
(* none after a failure: the loop of index.js:472-492 does what the loop   *)
(* of sqlite3_exec does; and each gets its own rows.                       *)
(***************************************************************************)
RunsTheText ==
    /\ InOrder(ran)
    /\ call # Idle => Positions(ran) = {p \in ToRun(call.text) : p < call.next}
    /\ RowsToTheirStatement

(***************************************************************************)
(* exec and run leave the same trace when they end: all that the text asks *)
(* for was run, and an exception tells of a piece that failed.             *)
(***************************************************************************)
EndsAtFailure ==
    [][call # Idle /\ call' = Idle
         => /\ Positions(ran) = ToRun(call.text)
            /\ threw' <=> Fatal(call.text) # {}]_vars

(***************************************************************************)
(* Between calls the stack is where it was when the module was loaded,     *)
(* plus what the calls that threw have left there (index.js:461, 493).     *)
(***************************************************************************)
OnlyThrowsLose == call = Idle => sp = Base + lost

(***************************************************************************)
(* The written text, even of three bytes a unit, ends below the tail       *)
(* pointer, and the tail pointer below the frames of the C functions that  *)
(* are called with both (index.js:465-469).  The empty text is apart, see  *)
(* TextFits.                                                               *)
(***************************************************************************)
BlocksDisjoint ==
    InExec /\ call.text # <<>> =>
        LET pzTail == call.stack + Align(TextBytes(call.text))
        IN  /\ call.stack + 3 * Len(call.text) + 1 <= pzTail
            /\ pzTail + 4 <= sp

(* Both: the stack of a call (index.js:461-469, 493) is only its own. *)
StackKept == TypeOK /\ OnlyThrowsLose /\ BlocksDisjoint

(* Every call ends: the tail moves at each turn of the loop (index.js:477). *)
CallsEnd == call # Idle ~> call = Idle

(***************************************************************************)
(* Statements about the code that it does not keep.                        *)
(***************************************************************************)
(* index.js:464: room for the characters and for the terminator. *)
TextFits == InExec => Len(call.text) + 1 <= TextBytes(call.text)

(* index.js:8: memory of the stack lives for the current call. *)
StackOfTheCall == call = Idle => sp = Base

(* index.js:424: as many result elements as statements in the text. *)
OneResultPerStatement ==
    [][call.fn = "exec" /\ call' = Idle /\ ~threw'
         => Len(results) = Cardinality(ToRun(call.text))]_vars

(* sqlite3.h:366: the application frees the error messages of sqlite3_exec. *)
MessagesFreed == apiTemp # "message" => messages = 0
=============================================================================
