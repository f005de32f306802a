--------------------------- MODULE StringFunctions ---------------------------
(***************************************************************************)
(* The string functions of extension-functions.c on UTF-8 text, nested as  *)
(* an SQL expression nests them: each action applies one function to the   *)
(* text that the one before returned.                                      *)
(*                                                                         *)
(* Text is a sequence of bytes without its terminator.  A byte is one of a *)
(* handful of classes: letters in both cases, blanks, lead bytes of        *)
(* characters of two and of three bytes, continuation bytes.  Texts are    *)
(* well formed; what the functions do with ill-formed ones is left out.    *)
(* A 32-bit int is scaled down to IntBits, the length limit of SQLite,     *)
(* under half of the largest int, to MaxLength.  Sizes are computed in 64  *)
(* bits and then passed as an int: a count may make one that does not fit. *)
(* Counts that make 64 bits overflow, or the difference of two ints, are   *)
(* left out.                                                               *)
(***************************************************************************)
EXTENDS Integers, Sequences, FiniteSets, SequencesExt

CONSTANTS
    Texts,      \* texts in the database, as sequences of characters
    Counts,     \* the 64-bit integers that SQL passes
    IntBits,    \* width of a C int
    MaxLength,  \* SQLITE_MAX_LENGTH: bytes of the longest text
    MaxChars    \* bound: characters of a text that is used again

VARIABLES
    text,       \* bytes of the current text
    call        \* the last call: its function, its arguments and its result

vars == <<text, call>>
-----------------------------------------------------------------------------
(* Bytes. *)
Lower == "a"  Upper == "A"  Other == "b"  OtherUpper == "B"
Space == " "  Tab == "t"
Lead2 == "2"  Lead3 == "3"  Cont == "c"  Cont2 == "d"

IsCont(b) == b \in {Cont, Cont2}                          \* (0xc0 & b) == 0x80
Extra(b) == CASE b = Lead2 -> 1 [] b = Lead3 -> 2 [] OTHER -> 0

Chars == {<<Lower>>, <<Upper>>, <<Other>>, <<OtherUpper>>, <<Space>>, <<Tab>>,
          <<Lead2, Cont>>, <<Lead2, Cont2>>, <<Lead3, Cont, Cont>>}
Bytes(chars) == FlattenSeq(chars)

(* sqliteNextChar from byte p: over the continuation bytes.  One past the  *)
(* terminator, at Len(z) + 2, lies memory that is not the text's.          *)
NextChar(z, p) ==
    CHOOSE q \in (p + 1)..(p + 1 + Len(z)) :
        /\ q > Len(z) \/ ~IsCont(z[q])
        /\ \A r \in (p + 1)..(q - 1) : r <= Len(z) /\ IsCont(z[r])

(* Where the n-th next character begins. *)
Skip(z, p, n) ==
    LET at[k \in 0..n] == IF k = 0 THEN p ELSE NextChar(z, at[k - 1]) IN at[n]

(* sqliteCharVal: a character as its bytes; the terminator is 0. *)
CharVal(z, p) ==
    IF p > Len(z) THEN <<>> ELSE SubSeq(z, p, CHOOSE q \in p..Len(z) :
        /\ q <= p + Extra(z[p])
        /\ q < p + Extra(z[p]) => q = Len(z))

(* sqlite3Utf8CharLen, by the lead bytes alone. *)
CharLen(z) ==
    LET from[p \in 1..(Len(z) + 3)] == IF p > Len(z) THEN 0 ELSE 1 + from[p + 1 + Extra(z[p])]
    IN  from[1]

(* The characters of z, as the loops that use NextChar see them. *)
CharsOf(z) ==
    LET starts == {p \in 1..Len(z) : ~IsCont(z[p])}
    IN  [k \in 1..Cardinality(starts) |-> CharVal(z, Skip(z, 1, k - 1))]

(* sqlite3_value_int keeps the low bits of a 64-bit integer. *)
ToInt(n) ==
    LET w == n % (2 ^ IntBits) IN IF w >= 2 ^ (IntBits - 1) THEN w - 2 ^ IntBits ELSE w

Spaces(n) == [i \in 1..n |-> Space]

LargestInt == 2 ^ (IntBits - 1) - 1
StringsOK ==
    /\ IntBits \in Nat \ {0} /\ MaxChars \in Nat /\ MaxLength \in Nat
    /\ 3 * MaxChars <= MaxLength /\ 2 * MaxLength <= LargestInt
    /\ \A t \in Texts : Len(t) <= MaxChars
    /\ \A n \in Counts : -LargestInt <= ToInt(n) - 1 /\ MaxChars - ToInt(n) <= LargestInt
-----------------------------------------------------------------------------
(***************************************************************************)
(* Results: text in a buffer of `size' bytes; an integer; an error; or     *)
(* whatever bytes the allocator left in a buffer nothing was written to,   *)
(* or whatever a write past the buffer does.                               *)
(***************************************************************************)
IntResult(n) == [kind |-> "int", v |-> n]
DomainError == [kind |-> "domain error"]
NoMemory == [kind |-> "out of memory"]
TooBig == [kind |-> "too big"]
Garbage == [kind |-> "garbage"]
Overrun(size) == [kind |-> "overrun", asked |-> size]

(* The bytes that sqlite3_malloc(int) gives for a 64-bit size; 0: none.    *)
(* The largest ints are refused.                                           *)
Malloc(size) == LET n == ToInt(size) IN IF n > 0 /\ n < LargestInt THEN n ELSE 0
Fits(size) == Malloc(size) = size

(* sqlite3_malloc of `size', the text written there with its terminator,   *)
(* and sqlite3_result_text.                                                *)
TextIn(size, z) ==
    IF Malloc(size) = 0 THEN NoMemory
    ELSE IF Malloc(size) < Len(z) + 1 THEN Overrun(size)
    ELSE IF Len(z) > MaxLength THEN TooBig
    ELSE [kind |-> "text", v |-> z, size |-> Malloc(size)]

replicate(z, n) ==
    IF n < 0 THEN DomainError
    ELSE IF n = 0 THEN Garbage
    ELSE TextIn(Len(z) * n + 1, FlattenSeq([i \in 1..n |-> z]))

(* The three pads: the bytes of z and as many spaces as characters lack. *)
Lacking(z, n) == n - CharLen(z)
(* Fault of Pad: the buffer is sized for characters of one byte. *)
PadOfBytes(z, n, left, right) ==
    IF n < 0 THEN DomainError
    ELSE IF CharLen(z) >= n THEN TextIn(Len(z) + 1, z)
    ELSE TextIn(n + 1, Spaces(left) \o z \o Spaces(right))

Pad(z, n, left, right) ==
    IF n < 0 THEN DomainError
    ELSE IF CharLen(z) >= n THEN TextIn(Len(z) + 1, z)
    ELSE TextIn(Len(z) + n - CharLen(z) + 1, Spaces(left) \o z \o Spaces(right))

padl(z, n) == Pad(z, n, Lacking(z, n), 0)
padr(z, n) == Pad(z, n, 0, Lacking(z, n))

padc(z, n) == Pad(z, n, Lacking(z, n) \div 2, Lacking(z, n) - Lacking(z, n) \div 2)

(* Characters of z1 that z2 has. *)
strfilter(z1, z2) ==
    TextIn(Len(z1) + 1,
           FlattenSeq(SelectSeq(CharsOf(z1), LAMBDA c : \E i \in 1..Len(CharsOf(z2)) : CharsOf(z2)[i] = c)))

(* _substr: the first character s or later where z1 begins in z2, or -1. *)
BeginsAt(z1, z2, k) ==
    \A i \in 1..CharLen(z1) : CharVal(z2, Skip(z2, 1, k + i - 1)) = CharVal(z1, Skip(z1, 1, i - 1))
substr_(z1, z2, s) ==
    LET at == {k \in s..(CharLen(z2) - CharLen(z1)) : BeginsAt(z1, z2, k)}
    IN  IF z1 = <<>> \/ at = {} THEN -1 ELSE CHOOSE k \in at : \A j \in at : k <= j

(* Fault of charindex: the first s characters are not skipped. *)
charindexFromStart(z1, z2, n) == IntResult(substr_(z1, z2, 0) + 1)

charindex(z1, z2, n) ==
    LET s == IF ToInt(n) - 1 < 0 THEN 0 ELSE ToInt(n) - 1
    IN  IntResult(substr_(z1, z2, s) + 1)

AtLeast0(n) == IF n < 0 THEN 0 ELSE n
AtMost(n, m) == IF n > m THEN m ELSE n

(* Up to the end of the text or of the count. *)
leftstr(z, n) ==
    LET zt == Skip(z, 1, AtMost(AtLeast0(ToInt(n)), CharLen(z)))
    IN  TextIn(zt, SubSeq(z, 1, zt - 1))

(* cc characters are skipped, past the terminator when n is negative: then *)
(* the size of the buffer, ze - zt + 1, is not positive and malloc fails.  *)
rightstr(z, n) ==
    LET ze == Len(z) + 1
        zt == Skip(z, 1, AtLeast0(CharLen(z) - ToInt(n)))
    IN  TextIn(ze - zt + 1, SubSeq(z, zt, Len(z)))

(* Filled from its end, the bytes of a character kept in order. *)
reverse(z) ==
    TextIn(Len(z) + 1, FoldLeft(LAMBDA r, c : c \o r, <<>>, CharsOf(z)))

(* Byte by byte: the first letter after a blank, and of the text, goes up. *)
toupper(b) == CASE b = Lower -> Upper [] b = Other -> OtherUpper [] OTHER -> b
tolower(b) == CASE b = Upper -> Lower [] b = OtherUpper -> Other [] OTHER -> b
isblank(b) == b \in {Space, Tab}
proper(z) ==
    TextIn(Len(z) + 1,
           [p \in 1..Len(z) |-> IF isblank(z[p]) THEN z[p]
                                ELSE IF p = 1 \/ isblank(z[p - 1]) THEN toupper(z[p])
                                ELSE tolower(z[p])])
-----------------------------------------------------------------------------
Init == text \in {Bytes(t) : t \in Texts} /\ call = [fn |-> "none"]

(* The result is the next text, if it is one that the bound lets through. *)
Applied(fn, other, n, result) ==
    /\ call' = [fn |-> fn, on |-> text, other |-> other, n |-> n, result |-> result]
    /\ text' = IF result.kind = "text" /\ CharLen(result.v) <= MaxChars THEN result.v ELSE text

Replicate == \E n \in Counts : Applied("replicate", <<>>, n, replicate(text, n))
Padl == \E n \in Counts : Applied("padl", <<>>, n, padl(text, n))
Padr == \E n \in Counts : Applied("padr", <<>>, n, padr(text, n))
Padc == \E n \in Counts : Applied("padc", <<>>, n, padc(text, n))
Left == \E n \in Counts : Applied("leftstr", <<>>, n, leftstr(text, n))
Right == \E n \in Counts : Applied("rightstr", <<>>, n, rightstr(text, n))
Reverse_ == Applied("reverse", <<>>, 0, reverse(text))
Proper == Applied("proper", <<>>, 0, proper(text))
Strfilter == \E t \in Texts : Applied("strfilter", Bytes(t), 0, strfilter(text, Bytes(t)))
Charindex == \E t \in Texts, n \in Counts :
                Applied("charindex", Bytes(t), n, charindex(Bytes(t), text, n))

Next == Replicate \/ Padl \/ Padr \/ Padc \/ Left \/ Right \/ Reverse_ \/ Proper \/ Strfilter \/ Charindex

Spec == Init /\ [][Next]_vars
-----------------------------------------------------------------------------
Fn(f) == call.fn = f
Out == call.result.v
Returned(kind) == "result" \in DOMAIN call /\ call.result.kind = kind
IsText == Returned("text")
IsOverrun == Returned("overrun")
Length(z) == Len(CharsOf(z))

(***************************************************************************)
(* No function cuts a character: what they return can be read again as the *)
(* characters it was written from (left, right and reverse move by         *)
(* characters and copy bytes; extension-functions.c:1083, 1128, 1343).     *)
(***************************************************************************)
Whole(z) == Bytes(CharsOf(z)) = z /\ \A k \in 1..Length(z) : CharsOf(z)[k] \in Chars
NoCharacterCut == Whole(text) /\ (IsText => Whole(Out))

(***************************************************************************)
(* The bytes and the terminator that a function writes are those it asked  *)
(* the allocator for: the sizes are computed from byte lengths and         *)
(* character counts before anything is written.  A buffer is too small     *)
(* only where the size that was computed does not fit the int that         *)
(* sqlite3_malloc takes.                                                   *)
(***************************************************************************)
BufferExact ==
    /\ IsText => /\ Len(Out) + 1 <= call.result.size
                 /\ call.fn # "strfilter" => Len(Out) + 1 = call.result.size
    /\ IsOverrun => ~Fits(call.result.asked)

(* A result of that many bytes is returned, or refused when it is longer   *)
(* than SQLite's limit; nothing is said where its size does not fit an int.*)
Promised(bytes, Made) ==
    IF bytes <= MaxLength THEN IsText /\ Made
    ELSE Fits(bytes + 1) => call.result = TooBig

(***************************************************************************)
(* Padding: as many characters as were asked for, the text inside them,    *)
(* spaces around it, on either side almost as many (comments before        *)
(* padlFunc, padrFunc and padcFunc).                                       *)
(***************************************************************************)
PadsRight ==
    call.fn \in {"padl", "padr", "padc"} =>
      IF call.n < 0 THEN call.result = DomainError
      ELSE LET missing == AtLeast0(call.n - Length(call.on))
           IN  Promised(Len(call.on) + missing,
                 \E l, r \in 0..missing :
                   /\ l + r = missing
                   /\ Out = Spaces(l) \o call.on \o Spaces(r)
                   /\ Fn("padl") => r = 0
                   /\ Fn("padr") => l = 0
                   /\ Fn("padc") => r - l \in {0, 1})

(***************************************************************************)
(* charindex finds the first occurrence from the n-th character on, and    *)
(* counts characters: the text cut there by leftstr, whose count has the   *)
(* same width, does not hold the other any more.                           *)
(***************************************************************************)
CharindexFirst ==
    Fn("charindex") =>
      LET p == Out
          whole == CharsOf(call.on)
          part == CharsOf(call.other)
          Here(q) == q + Len(part) - 1 <= Len(whole) /\ SubSeq(whole, q, q + Len(part) - 1) = part
          from == IF ToInt(call.n) < 1 THEN 1 ELSE ToInt(call.n)
      IN  IF p = 0 THEN part = <<>> \/ \A q \in from..Len(whole) : ~Here(q)
          ELSE p >= from /\ Here(p) /\ \A q \in from..(p - 1) : ~Here(q)

(***************************************************************************)
(* A text cut by leftstr and rightstr at the same place is the text.       *)
(***************************************************************************)
CutsMeet ==
    \A n \in 0..Length(text) :
        n < 2 ^ (IntBits - 1) /\ Length(text) < 2 ^ (IntBits - 1) =>
            leftstr(text, n).v \o rightstr(text, Length(text) - n).v = text

(* reverse undone by reverse, and the other way round for cuts. *)
ReverseTurns ==
    /\ reverse(reverse(text).v).v = text
    /\ Fn("reverse") => \A n \in 0..AtMost(Length(text), 2 ^ (IntBits - 1) - 1) :
          leftstr(Out, n).v = reverse(rightstr(call.on, n).v).v

(* strfilter keeps the order, and what it has kept it keeps again. *)
FilterKeeps ==
    Fn("strfilter") =>
      /\ strfilter(Out, call.other).v = Out
      /\ strfilter(Out, call.on).v = Out
      /\ \A i \in 1..Len(CharsOf(call.on)) :
            (\E j \in 1..Length(call.other) : CharsOf(call.other)[j] = CharsOf(call.on)[i])
              => \E j \in 1..Length(Out) : CharsOf(Out)[j] = CharsOf(call.on)[i]

(* replicate, from one copy on, repeats the text. *)
ReplicateRepeats ==
    Fn("replicate") /\ call.n > 0 =>
      Promised(call.n * Len(call.on),
        /\ Length(Out) = call.n * Length(call.on)
        /\ \A k \in 1..Length(Out) :
              CharsOf(Out)[k] = CharsOf(call.on)[((k - 1) % Length(call.on)) + 1])

(* What the functions write is whole and has the room it needs. *)
BuffersRight == NoCharacterCut /\ BufferExact

(* What they return is what their comments promise. *)
StringsRight ==
    PadsRight /\ CharindexFirst /\ CutsMeet /\ ReverseTurns /\ FilterKeeps /\ ReplicateRepeats

(* extension-functions.c:666: s concatenated n times, for n = 0 as well. *)
ReplicateDefined == Fn("replicate") => call.result.kind # "garbage"

(* extension-functions.c:666, 758, 811, 865: the text repeated, or padded to n characters, for any n. *)
SizesFit == ~IsOverrun

(* extension-functions.c:1063: a text that is not longer than n is returned. *)
LeftKeepsShort == Fn("leftstr") /\ Length(call.on) <= call.n => Out = call.on

(* sqlite3.h: out of memory is said when an allocation failed. *)
MemoryErrorsMeanIt == ~Returned(NoMemory.kind)
=============================================================================
