----------------------------- MODULE MCFunctions -----------------------------
(***************************************************************************)
(* The functions of extension-functions.c in one run: a group of rows goes *)
(* through variance (Variance), or through mode, median or a quartile      *)
(* (OrderStatistics), or a text through the string functions               *)
(* (StringFunctions).  A behaviour is one of the three, the other two stay *)
(* where they start.                                                       *)
(***************************************************************************)
EXTENDS Variance

VARIABLES part, values, isDouble, count, tree, answer, text, call

(* Multiples of 60, which the counts up to six divide.                     *)
SomeRows == {-60, 0, 60, 240}

(* Integers around zero, with a gap, and one too wide for the int; floats  *)
(* with a fraction on both sides of zero.                                  *)
SomeIntegers == {-1, 0, 2, 6}
SomeFloats == {-3, 1}

Ord == INSTANCE OrderStatistics WITH
    rows <- values, cnt <- count, IntegerRows <- SomeIntegers, FloatRows <- SomeFloats, IntBits <- 3

(* Texts of up to two characters of one, two and three bytes, and two that *)
(* repeat; counts on both sides of 0, and such that the text is too long   *)
(* for SQLite, its size is negative as an int, or too small as one.        *)
Some == {<<"a">>, <<"2", "c">>, <<"2", "d">>, <<"3", "c", "c">>}
SmallTexts ==
    {<<>>} \cup {<<c>> : c \in Some} \cup {<<c, d>> : c, d \in Some}
      \cup {<<<<"a">>, <<"a">>, <<"B">>>>, <<<<"a">>, <<"t">>, <<"A">>>>}
Str == INSTANCE StringFunctions WITH
    Texts <- SmallTexts, Counts <- {-1, 0, 1, 3, 20, 40, 65}, IntBits <- 6,
    MaxLength <- 14, MaxChars <- 3

ASSUME Inputs == Ord!InputsOK /\ Str!StringsOK

orderVars == <<values, isDouble, count, tree, answer>>
textVars == <<text, call>>
allVars == <<part, vars, orderVars, textVars>>

MCInit ==
    /\ part \in {"order", "variance", "strings"}
    /\ Init /\ Ord!Init
    /\ call = [fn |-> "none"]
    /\ IF part = "strings" THEN Str!Init ELSE text = <<>>

Only(p) == part = p /\ part' = part
InOrder == Only("order") /\ UNCHANGED <<vars, textVars>>
InVariance == Only("variance") /\ UNCHANGED <<orderVars, textVars>>
InStrings == Only("strings") /\ UNCHANGED <<vars, orderVars>>

MCNext ==
    \/ \E r \in Ord!Row : InOrder /\ Ord!ModeStep(r)
    \/ \E fn \in Ord!Aggregate : InOrder /\ Ord!Finalize(fn)
    \/ \E x \in Rows : InVariance /\ VarianceStep(x)
    \/ InVariance /\ VarianceFinalize
    \/ InStrings /\ Str!Replicate
    \/ InStrings /\ Str!Padl
    \/ InStrings /\ Str!Padr
    \/ InStrings /\ Str!Padc
    \/ InStrings /\ Str!Left
    \/ InStrings /\ Str!Right
    \/ InStrings /\ Str!Reverse_
    \/ InStrings /\ Str!Proper
    \/ InStrings /\ Str!Strfilter
    \/ InStrings /\ Str!Charindex

MCSpec == MCInit /\ [][MCNext]_allVars

(* OrderStatistics!OrderRight: mode, median and the quartiles are those of *)
(* the sorted rows, whatever the order of arrival.                         *)
OrderRight == Ord!OrderRight

(* StringFunctions!BuffersRight: no function cuts a character, and each    *)
(* writes exactly the bytes it asked the allocator for, unless their       *)
(* number does not fit an int.                                             *)
BuffersRight == Str!BuffersRight

(* StringFunctions!StringsRight: padding, cutting, searching, filtering,   *)
(* turning and repeating keep what their comments promise, on texts that   *)
(* earlier calls returned.                                                 *)
StringsRight == Str!StringsRight
=============================================================================
