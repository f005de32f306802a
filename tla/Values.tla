------------------------------- MODULE Values -------------------------------
(***************************************************************************)
(* Values on their way through a statement SELECT ?1, ..., ?n:             *)
(* JavaScript values are bound (index.js:176-180, 285-349), the statement  *)
(* steps, and get() reads the row back (index.js:199-238), blobs through   *)
(* the view HEAP8 of the memory that was taken from the module once, when  *)
(* it was loaded (index.js:56).                                            *)
(*                                                                         *)
(* A growing memory (ALLOW_MEMORY_GROWTH) replaces every view: the old one *)
(* is detached and its elements are undefined, which a Uint8Array stores   *)
(* as 0.  Any call of C code, or of allocate, may grow the memory.         *)
(*                                                                         *)
(* Widths are scaled down.  A number is an integer count of halves; 32-bit *)
(* integers have IntBits bits and a byte has ByteBits.  Integers of SQL    *)
(* expressions beyond 2^53, which get() rounds, are left out.              *)
(***************************************************************************)
EXTENDS Integers, Sequences, FiniteSets

CONSTANTS
    N,              \* parameters of the statement
    IntBits, ByteBits,
    Lists,          \* the lists of values that callers bind
    MaxGrows        \* bound: growths of the memory

ByteSize == 2 ^ ByteBits

WidthsOK ==
    /\ N \in Nat \ {0} /\ MaxGrows \in Nat
    /\ IntBits \in Nat \ {0} /\ ByteBits \in Nat \ {0}
    /\ ByteSize \in Nat \ {0}

\* A character or an element of an array is a number.
JsValue ==
    [js : {"string", "array"}, s : Seq(Int)] \cup [js : {"number"}, v : Int]
        \cup [js : {"boolean"}, b : BOOLEAN] \cup [js : {"null", "NaN", "-0", "undefined", "object"}]
ListsOK == Lists \subseteq Seq(JsValue)

ASSUME WidthsAssumption == WidthsOK
ASSUME ListsAssumption == ListsOK

VARIABLES
    param,      \* Vdbe.aVar: the values bound to the parameters
    given,      \* the values of the last bind, up to the one that failed
    row,        \* the current row, <<>> when there is none
    got,        \* the result of the last get()
    grows       \* growths of the memory since HEAP8 was taken

valueVars == <<param, given, row, got, grows>>

Null == [type |-> "NULL"]
JsNull == [js |-> "null"]

(***************************************************************************)
(* Binding one value (bindValue).  A boolean is added to 0; `num|0' is the *)
(* number cut to 32 bits, so a number that it leaves alone is bound as an  *)
(* integer, -0 too, and any other as a double, of which SQLite makes NULL  *)
(* when it is NaN.  Text keeps its bytes up to the terminator that         *)
(* intArrayFromString adds.  Elements of an array are cut to bytes.        *)
(***************************************************************************)
ToInt32(h) ==
    LET i == IF h >= 0 THEN h \div 2 ELSE -((-h) \div 2)        \* towards zero
        w == i % (2 ^ IntBits)
    IN  IF w >= 2 ^ (IntBits - 1) THEN w - 2 ^ IntBits ELSE w

(* Fault of BindNumber: `num === Math.trunc(num)' decides. *)
BindNumberByFraction(h) ==
    IF h % 2 = 0 THEN [type |-> "INTEGER", v |-> ToInt32(h)] ELSE [type |-> "FLOAT", v |-> h]

BindNumber(h) ==
    IF h = 2 * ToInt32(h) THEN [type |-> "INTEGER", v |-> ToInt32(h)]
                          ELSE [type |-> "FLOAT", v |-> h]

BindBlob(a) == [type |-> "BLOB", s |-> [i \in 1..Len(a) |-> a[i] % ByteSize]]

ToSql(x) ==
    CASE x.js = "string"  -> [type |-> "TEXT", s |-> x.s]
      [] x.js = "number"  -> BindNumber(x.v)
      [] x.js = "boolean" -> BindNumber(IF x.b THEN 2 ELSE 0)
      [] x.js = "array"   -> BindBlob(x.s)
      [] x.js \in {"null", "NaN"} -> Null
      [] x.js = "-0"      -> [type |-> "INTEGER", v |-> 0]

(* What bindValue does not know: an object is refused, undefined ignored.  *)
Refused(x) == x.js = "object"
Ignored(x) == x.js = "undefined"

(***************************************************************************)
(* bind() resets the statement, which clears every binding, and binds the  *)
(* values in turn; one that is refused, or one too many (SQLITE_RANGE),    *)
(* throws and leaves those before it bound.  bindFromObject skips the       *)
(* parameters it does not name, as undefined does here.                    *)
(***************************************************************************)
StopsAt(values) ==
    LET bad == {i \in 1..Len(values) : Refused(values[i]) \/ (i > N /\ ~Ignored(values[i]))}
    IN  IF bad = {} THEN Len(values) + 1 ELSE CHOOSE i \in bad : \A j \in bad : i <= j

Taken(values) == SubSeq(values, 1, StopsAt(values) - 1)

BoundBy(values, old) ==
    [p \in 1..N |-> IF p <= Len(values) /\ ~Ignored(values[p]) THEN ToSql(values[p]) ELSE old[p]]

Cleared == [p \in 1..N |-> Null]

Grown == grows..MaxGrows

Bind(values) ==
    /\ got # <<>> \/ row = <<>>
    /\ param' = BoundBy(Taken(values), Cleared)
    /\ given' = Taken(values)
    /\ row' = <<>> /\ got' = <<>>
    /\ grows' \in Grown

(* step() that returns a row; the one after it is done and has no columns. *)
Step ==
    /\ row = <<>> /\ row' = param /\ got' = <<>> /\ grows' \in Grown
    /\ UNCHANGED <<param, given>>

StepEnds ==
    /\ row # <<>> /\ got # <<>>
    /\ row' = <<>> /\ got' = <<>> /\ grows' \in Grown
    /\ UNCHANGED <<param, given>>

(***************************************************************************)
(* Reading one column.  Integers are read as doubles; text comes as a      *)
(* string that ends at the first NUL; a blob byte by byte through HEAP8,   *)
(* whose signed elements the Uint8Array turns into bytes.                  *)
(***************************************************************************)

UpToNul(s) ==
    LET nul == {i \in 1..Len(s) : s[i] = 0}
    IN  IF nul = {} THEN s ELSE SubSeq(s, 1, (CHOOSE i \in nul : \A j \in nul : i <= j) - 1)

Heap8(b) == IF b >= ByteSize \div 2 THEN b - ByteSize ELSE b

ToUint8(b) == b % ByteSize
ReadByte(b, valid) == IF valid THEN ToUint8(Heap8(b)) ELSE 0

ToJs(c, valid) ==
    CASE c.type = "INTEGER" -> [js |-> "number", v |-> 2 * c.v]
      [] c.type = "FLOAT"   -> [js |-> "number", v |-> c.v]
      [] c.type = "TEXT"    -> [js |-> "string", s |-> UpToNul(c.s)]
      [] c.type = "BLOB"    -> [js |-> "array", s |-> [i \in 1..Len(c.s) |-> ReadByte(c.s[i], valid)]]
      [] c.type = "NULL"    -> JsNull

(* get(): the memory may grow with the reading of any column, `at'. *)
Get ==
    /\ row # <<>> /\ got = <<>>
    /\ grows' \in Grown
    /\ \E at \in 1..N :
          got' = [p \in 1..N |-> ToJs(row[p], IF p < at THEN grows = 0 ELSE grows' = 0)]
    /\ UNCHANGED <<param, given, row>>

ValuesInit ==
    /\ param = Cleared /\ given = <<>> /\ row = <<>> /\ got = <<>> /\ grows = 0

ValuesNext ==
    \/ \E values \in Lists : Bind(values)
    \/ Step \/ StepEnds \/ Get

ValuesSpec == ValuesInit /\ [][ValuesNext]_valueVars

ValuesTypeOK ==
    /\ DOMAIN param = 1..N
    /\ \A p \in 1..N : param[p].type \in {"INTEGER", "FLOAT", "TEXT", "BLOB", "NULL"}
    /\ \A i \in (N + 1)..Len(given) : Ignored(given[i])
    /\ row \in {<<>>, param} /\ grows \in 0..MaxGrows
    /\ got # <<>> => Len(got) = N
-----------------------------------------------------------------------------
(* What a caller may expect of parameter p: the value of the last bind. *)
Expected(p) == IF p <= Len(given) THEN given[p] ELSE JsNull
Numeric(x) == x.js \in {"number", "boolean", "-0"}
Halves(x) == CASE x.js = "number" -> x.v
               [] x.js = "boolean" -> IF x.b THEN 2 ELSE 0
               [] x.js = "-0" -> 0

(***************************************************************************)
(* A number comes back as the same number, through sqlite3_bind_int or     *)
(* through sqlite3_bind_double (index.js:307), at the edges of 32 bits     *)
(* too.                                                                    *)
(***************************************************************************)
NumbersKept ==
    got # <<>> => \A p \in 1..N :
        Numeric(Expected(p)) => got[p] = [js |-> "number", v |-> Halves(Expected(p))]

(***************************************************************************)
(* A parameter that the last bind did not give, or of which it knew        *)
(* nothing, is NULL: no value of an earlier bind is left (index.js:178,    *)
(* 356), also when a bind stopped at a value that it refused.              *)
(***************************************************************************)
NothingLeftOver ==
    got # <<>> => \A p \in 1..N :
        Expected(p).js \in {"null", "NaN", "undefined"} => got[p] = JsNull

(* Text without a NUL comes back whole (index.js:290, cwrap's "string").   *)
TextKept ==
    got # <<>> => \A p \in 1..N :
        Expected(p).js = "string" /\ 0 \notin {Expected(p).s[i] : i \in 1..Len(Expected(p).s)}
            => got[p] = Expected(p)

(* As long as the memory has not grown, a blob comes back byte by byte. *)
Bytes(x) == [x EXCEPT !.s = [i \in 1..Len(x.s) |-> x.s[i] % ByteSize]]
BlobsKeptInPlace ==
    got # <<>> /\ grows = 0 => \A p \in 1..N :
        Expected(p).js = "array" => got[p] = Bytes(Expected(p))

(* All of it: what was bound is what get() reads back. *)
ReadsBack == ValuesTypeOK /\ NumbersKept /\ NothingLeftOver /\ TextKept /\ BlobsKeptInPlace

(* blob.spec.ts:31: a blob is read as it was inserted, whenever. *)
BlobsKept ==
    got # <<>> => \A p \in 1..N :
        Expected(p).js = "array" => got[p] = Bytes(Expected(p))
=============================================================================
