------------------------------ MODULE Variance ------------------------------
(***************************************************************************)
(* The aggregates variance and stdev of src/native/extension-functions.c:  *)
(* varianceStep keeps the mean and the sum of squared deviations up to     *)
(* date row by row, with one division each.                                *)
(*                                                                         *)
(* Named abstraction.  A double is a number without rounding.  So that     *)
(* every quotient here is whole, a row is a multiple of Scale, which all   *)
(* counts up to MaxRows divide; NULL rows change nothing and are left out. *)
(* stdev is the square root of the same result.                            *)
(***************************************************************************)
EXTENDS Integers, Sequences

CONSTANTS
    Rows,       \* what rows may hold, in units of 1/Scale
    Scale,      \* a common multiple of 1..MaxRows
    MaxRows     \* bound: rows of the group

ScaleOK ==
    /\ MaxRows \in Nat /\ Scale \in Nat \ {0}
    /\ Rows \subseteq Int /\ \A x \in Rows : x % Scale = 0
    /\ \A n \in 1..MaxRows : Scale % n = 0

ASSUME ScaleAssumption == ScaleOK

VARIABLES
    rows,       \* history: the rows so far
    cnt,        \* StdevCtx.cnt
    rM,         \* StdevCtx.rM
    rS,         \* StdevCtx.rS
    result      \* <<>>, or what varianceFinalize returned: a fraction

vars == <<rows, cnt, rM, rS, result>>

Init ==
    /\ rows = <<>>
    /\ cnt = 0
    /\ rM = 0
    /\ rS = 0
    /\ result = <<>>

\* varianceStep on a row with the number x.
VarianceStep(x) ==
    /\ result = <<>>
    /\ Len(rows) < MaxRows
    /\ cnt' = cnt + 1
    /\ LET delta == x - rM
       IN /\ rM' = rM + delta \div cnt'
          /\ rS' = rS + delta * (x - rM')
    /\ rows' = Append(rows, x)
    /\ UNCHANGED result

\* Fault of VarianceFinalize: the quotient of a whole population.
VarianceFinalizePopulation ==
    /\ result = <<>>
    /\ result' = IF cnt > 1 THEN <<rS, cnt>> ELSE <<0, 1>>
    /\ UNCHANGED <<rows, cnt, rM, rS>>

\* varianceFinalize; 0 for fewer than two rows.
VarianceFinalize ==
    /\ result = <<>>
    /\ result' = IF cnt > 1 THEN <<rS, cnt - 1>> ELSE <<0, 1>>
    /\ UNCHANGED <<rows, cnt, rM, rS>>

Next == (\E x \in Rows : VarianceStep(x)) \/ VarianceFinalize

Spec == Init /\ [][Next]_vars
-----------------------------------------------------------------------------
(***************************************************************************)
(* Properties.                                                             *)
(***************************************************************************)
TypeOK ==
    /\ rows \in Seq(Rows) /\ Len(rows) <= MaxRows
    /\ cnt = Len(rows)
    /\ rM \in Int
    /\ rS \in Nat
    /\ result = <<>> \/ result \in Nat \X (Nat \ {0})

\* The power sums of the rows.
SumTo[n \in 0..MaxRows] == IF n = 0 THEN 0 ELSE SumTo[n - 1] + rows[n]
SquaresTo[n \in 0..MaxRows] == IF n = 0 THEN 0 ELSE SquaresTo[n - 1] + rows[n] * rows[n]

\* At every row, not only at the end: the running mean is the mean of the rows
\* so far, and the quotient that updates it leaves no remainder.
RunningMean == rM * cnt = SumTo[cnt]

\* variance() is the sample variance by its definition, whatever the order of
\* the rows: (n Sum x^2 - (Sum x)^2) / (n (n - 1)), and 0 below two rows.
VarianceRight ==
    /\ TypeOK /\ RunningMean
    /\ result # <<>> =>
        LET n == Len(rows)
        IN IF n < 2 THEN result[1] = 0
           ELSE result[1] * n * (n - 1)
                    = result[2] * (n * SquaresTo[n] - SumTo[n] * SumTo[n])
=============================================================================
