--------------------------- MODULE VarianceProofs ---------------------------
(***************************************************************************)
(* Proofs about Variance: the running mean and the running sum of squared  *)
(* deviations are those of the rows so far, for groups of any size.        *)
(***************************************************************************)
EXTENDS Variance, NaturalsInduction, WellFoundedInduction, TLAPS

-----------------------------------------------------------------------------
(***************************************************************************)
(* The power sums exist, and a further row extends them.                   *)
(***************************************************************************)
\* f sums t over 1..k.
SumsUpTo(f, t, k) == f = [n \in 0..k |-> IF n = 0 THEN 0 ELSE f[n - 1] + t[n]]

LEMMA SumsExist ==
    ASSUME NEW t, NEW k \in Nat
    PROVE  \E f : SumsUpTo(f, t, k)
<1> DEFINE Missing == {n \in Nat : ~(\E f : SumsUpTo(f, t, n))}
<1>1. SUFFICES ASSUME Missing # {} PROVE FALSE
  OBVIOUS
<1>2. PICK m \in Missing : \A n \in Missing : ~(<<n, m>> \in OpToRel(<, Nat))
  <2>1. Missing \subseteq Nat
    OBVIOUS
  <2>2. QED
    BY <1>1, <2>1, NatLessThanWellFounded, WFMin
<1>3. \A n \in Missing : ~(n < m)
  BY <1>2 DEF OpToRel
<1>4. CASE m = 0
  <2> DEFINE f == [n \in 0..0 |-> 0]
  <2>1. f = [n \in 0..0 |-> IF n = 0 THEN 0 ELSE f[n - 1] + t[n]]
    OBVIOUS
  <2>2. SumsUpTo(f, t, 0)
    BY <2>1 DEF SumsUpTo
  <2>3. QED
    BY <1>4, <2>2
<1>5. CASE m # 0
  <2>1. m \in Nat /\ m - 1 \in Nat /\ m - 1 < m
    BY <1>5
  <2>2. m - 1 \notin Missing
    BY <1>3, <2>1
  <2>3. PICK g : SumsUpTo(g, t, m - 1)
    BY <2>1, <2>2
  <2>4. g = [n \in 0..(m - 1) |-> IF n = 0 THEN 0 ELSE g[n - 1] + t[n]]
    BY <2>3 DEF SumsUpTo
  <2> DEFINE f == [n \in 0..m |-> IF n = m THEN g[m - 1] + t[m] ELSE g[n]]
  <2>5. ASSUME NEW n \in 0..m PROVE f[n] = IF n = 0 THEN 0 ELSE f[n - 1] + t[n]
    <3>1. CASE n = m
      <4>1. f[n - 1] = g[n - 1]
        BY <2>1, <3>1
      <4>2. QED
        BY <1>5, <3>1, <4>1
    <3>2. CASE n # m
      <4>1. n \in 0..(m - 1) /\ f[n] = g[n]
        BY <2>1, <3>2
      <4>2. n # 0 => f[n - 1] = g[n - 1]
        BY <2>1, <3>2, <4>1
      <4>3. g[n] = IF n = 0 THEN 0 ELSE g[n - 1] + t[n]
        BY <2>4, <4>1
      <4>4. QED
        BY <4>1, <4>2, <4>3
    <3>3. QED
      BY <3>1, <3>2
  <2>6. f = [n \in 0..m |-> f[n]]
    OBVIOUS
  <2> HIDE DEF f
  <2>7. f = [n \in 0..m |-> IF n = 0 THEN 0 ELSE f[n - 1] + t[n]]
    BY <2>5, <2>6
  <2>8. SumsUpTo(f, t, m)
    BY <2>7 DEF SumsUpTo
  <2>9. QED
    BY <2>8
<1>6. QED
  BY <1>4, <1>5

\* Sums of sequences that agree agree.
LEMMA SumsAgree ==
    ASSUME NEW k \in Nat, NEW c \in 0..k, NEW t, NEW u, NEW f, NEW g,
           SumsUpTo(f, t, k), SumsUpTo(g, u, k), \A n \in 1..c : t[n] = u[n]
    PROVE  f[c] = g[c]
<1> DEFINE Apart == {n \in Nat : n <= c /\ f[n] # g[n]}
<1>1. \A n \in 0..k : /\ f[n] = IF n = 0 THEN 0 ELSE f[n - 1] + t[n]
                      /\ g[n] = IF n = 0 THEN 0 ELSE g[n - 1] + u[n]
  <2>1. f = [n \in 0..k |-> IF n = 0 THEN 0 ELSE f[n - 1] + t[n]]
    BY DEF SumsUpTo
  <2>2. g = [n \in 0..k |-> IF n = 0 THEN 0 ELSE g[n - 1] + u[n]]
    BY DEF SumsUpTo
  <2>3. QED
    BY <2>1, <2>2
<1>2. SUFFICES ASSUME f[c] # g[c] PROVE FALSE
  OBVIOUS
<1>3. c \in Apart /\ Apart \subseteq Nat
  BY <1>2
<1>4. PICK m \in Apart : \A n \in Apart : ~(<<n, m>> \in OpToRel(<, Nat))
  BY <1>3, NatLessThanWellFounded, WFMin
<1>5. \A n \in Apart : ~(n < m)
  BY <1>3, <1>4 DEF OpToRel
<1>6. m \in Nat /\ m <= c /\ m <= k /\ f[m] # g[m]
  OBVIOUS
<1>7. m # 0
  BY <1>1, <1>6
<1>8. m - 1 \in Nat /\ m - 1 < m /\ m - 1 <= c
  BY <1>6, <1>7
<1>9. f[m - 1] = g[m - 1]
  BY <1>5, <1>8
<1>10. f[m] = f[m - 1] + t[m] /\ g[m] = g[m - 1] + u[m] /\ t[m] = u[m]
  BY <1>1, <1>6, <1>7
<1>11. QED
  BY <1>6, <1>9, <1>10

Squares == [n \in 0..MaxRows |-> rows[n] * rows[n]]

LEMMA PowerSums ==
    MaxRows \in Nat => SumsUpTo(SumTo, rows, MaxRows) /\ SumsUpTo(SquaresTo, Squares, MaxRows)
<1> SUFFICES ASSUME MaxRows \in Nat
             PROVE  SumsUpTo(SumTo, rows, MaxRows) /\ SumsUpTo(SquaresTo, Squares, MaxRows)
  OBVIOUS
<1>1. SumsUpTo(SumTo, rows, MaxRows)
  <2>1. \E f : f = [n \in 0..MaxRows |-> IF n = 0 THEN 0 ELSE f[n - 1] + rows[n]]
    BY SumsExist DEF SumsUpTo
  <2>2. SumTo = [n \in 0..MaxRows |-> IF n = 0 THEN 0 ELSE SumTo[n - 1] + rows[n]]
    BY <2>1 DEF SumTo
  <2>3. QED
    BY <2>2 DEF SumsUpTo
<1>2. SumsUpTo(SquaresTo, Squares, MaxRows)
  <2>1. PICK f : f = [n \in 0..MaxRows |-> IF n = 0 THEN 0 ELSE f[n - 1] + Squares[n]]
    BY SumsExist DEF SumsUpTo
  <2>2. f = [n \in 0..MaxRows |-> IF n = 0 THEN 0 ELSE f[n - 1] + rows[n] * rows[n]]
    BY <2>1 DEF Squares
  <2>3. SquaresTo = [n \in 0..MaxRows |-> IF n = 0 THEN 0 ELSE SquaresTo[n - 1] + rows[n] * rows[n]]
    BY <2>2 DEF SquaresTo
  <2>4. SquaresTo = [n \in 0..MaxRows |-> IF n = 0 THEN 0 ELSE SquaresTo[n - 1] + Squares[n]]
    BY <2>3 DEF Squares
  <2>5. QED
    BY <2>4 DEF SumsUpTo
<1>3. QED
  BY <1>1, <1>2

LEMMA SumsExtended ==
    ASSUME MaxRows \in Nat, Rows \subseteq Int, rows \in Seq(Rows), Len(rows) < MaxRows,
           NEW x \in Rows, rows' = Append(rows, x)
    PROVE  /\ Len(rows') = Len(rows) + 1
           /\ SumTo'[Len(rows) + 1] = SumTo[Len(rows)] + x
           /\ SquaresTo'[Len(rows) + 1] = SquaresTo[Len(rows)] + x * x
<1> DEFINE c == Len(rows)
<1>1. SumsUpTo(SumTo, rows, MaxRows) /\ SumsUpTo(SquaresTo, Squares, MaxRows)
  BY PowerSums
<1>2. SumsUpTo(SumTo', rows', MaxRows) /\ SumsUpTo(SquaresTo', Squares', MaxRows)
  <2>1. (MaxRows \in Nat => SumsUpTo(SumTo, rows, MaxRows) /\ SumsUpTo(SquaresTo, Squares, MaxRows))'
    BY PowerSums, PTL
  <2>2. QED
    BY <2>1
<1>3. /\ c \in Nat /\ c \in 0..MaxRows /\ c + 1 \in 1..MaxRows /\ c + 1 - 1 = c
      /\ Len(rows') = c + 1 /\ rows'[c + 1] = x
      /\ \A n \in 1..c : rows[n] = rows'[n]
  OBVIOUS
<1> HIDE DEF c
<1>4. SumTo[c] = SumTo'[c]
  <2>1. PICK u : SumsUpTo(SumTo', u, MaxRows) /\ \A n \in 1..c : rows[n] = u[n]
    BY <1>2, <1>3
  <2>2. MaxRows \in Nat /\ c \in 0..MaxRows
    BY <1>3
  <2>3. QED
    BY <1>1, <2>1, <2>2, SumsAgree
<1>5. SquaresTo[c] = SquaresTo'[c]
  <2>1. \A n \in 1..c : Squares[n] = Squares'[n]
    BY <1>3 DEF Squares
  <2>2. QED
    BY <1>1, <1>2, <1>3, <2>1, SumsAgree
<1>6. /\ SumTo' = [n \in 0..MaxRows |-> IF n = 0 THEN 0 ELSE SumTo'[n - 1] + rows'[n]]
      /\ SquaresTo' = [n \in 0..MaxRows |-> IF n = 0 THEN 0 ELSE SquaresTo'[n - 1] + Squares'[n]]
  BY <1>2 DEF SumsUpTo
<1>7. /\ SumTo'[c + 1] = SumTo'[c] + rows'[c + 1]
      /\ SquaresTo'[c + 1] = SquaresTo'[c] + Squares'[c + 1]
  BY <1>3, <1>6
<1>8. Squares'[c + 1] = x * x
  BY <1>3 DEF Squares
<1>9. QED
  BY <1>3, <1>4, <1>5, <1>7, <1>8 DEF c

-----------------------------------------------------------------------------
(***************************************************************************)
(* The numbers of one step: n rows with the sum S and the mean m, and a    *)
(* row x, all multiples of L but the mean.                                 *)
(***************************************************************************)
LEMMA Multiple ==
    ASSUME NEW L \in Nat \ {0}, NEW x \in Int, x % L = 0
    PROVE  \E a \in Int : x = L * a
<1>1. x = L * (x \div L) + (x % L) /\ x \div L \in Int
  OBVIOUS
<1>2. QED
  BY <1>1

\* Two counts in a row have no common factor.
LEMMA Consecutive ==
    ASSUME NEW L \in Nat \ {0}, NEW n \in Nat \ {0}, L % n = 0, L % (n + 1) = 0
    PROVE  \E w \in Int : L = n * ((n + 1) * w)
<1>0. L \in Int /\ n + 1 \in Nat \ {0}
  OBVIOUS
<1>1. PICK u \in Int : L = n * u
  BY <1>0, Multiple
<1>2. PICK v \in Int : L = (n + 1) * v
  BY <1>0, Multiple
<1>3. n * ((n + 1) * u) = (n + 1) * L /\ n * ((n + 1) * v) = n * L
  BY <1>1, <1>2
<1>4. (n + 1) * L - n * L = L
  OBVIOUS
<1>5. n * ((n + 1) * (u - v)) = n * ((n + 1) * u) - n * ((n + 1) * v)
  OBVIOUS
<1>6. u - v \in Int /\ L = n * ((n + 1) * (u - v))
  BY <1>3, <1>4, <1>5
<1>7. QED
  BY <1>6

\* n rows with the sum S and the mean m, and a further row x.
Group(L, n, S, m, x) ==
    /\ L \in Nat \ {0} /\ n \in Nat /\ (n # 0 => L % n = 0) /\ L % (n + 1) = 0
    /\ x \in Int /\ x % L = 0 /\ S \in Int /\ S % L = 0
    /\ m \in Int /\ m * n = S /\ (n = 0 => m = 0)
Exact(n, m, x) ==
    (x - m) \div (n + 1) \in Int /\ x - m = (n + 1) * ((x - m) \div (n + 1))

\* The quotient that updates the mean leaves no remainder.
LEMMA QuotientExact ==
    ASSUME NEW L, NEW n, NEW S, NEW m, NEW x, Group(L, n, S, m, x)
    PROVE  Exact(n, m, x)
<1> USE DEF Group
<1>1. ASSUME NEW q \in Int, x - m = (n + 1) * q
      PROVE  (x - m) \div (n + 1) = q
  <2>1. n + 1 \in Nat \ {0}
    OBVIOUS
  <2>2. ((n + 1) * q) \div (n + 1) = q
    BY <2>1
  <2>3. QED
    BY <1>1, <2>2
<1>2. \E q \in Int : x - m = (n + 1) * q
  <2>1. CASE n = 0
    <3>1. x - m \in Int /\ x - m = (n + 1) * (x - m)
      BY <2>1
    <3>2. QED
      BY <3>1
  <2>2. CASE n # 0
    <3>1. PICK a \in Int : x = L * a
      BY Multiple
    <3>2. PICK b \in Int : S = L * b
      BY Multiple
    <3>3. PICK w \in Int : L = n * ((n + 1) * w)
      BY <2>2, Consecutive
    <3>4. n * m = n * ((n + 1) * w * b)
      BY <3>2, <3>3
    <3>5. m = (n + 1) * w * b
      BY <2>2, <3>4
    <3>6. x = (n + 1) * (n * w * a)
      BY <3>1, <3>3
    <3>7. n * w * a \in Int /\ w * b \in Int /\ n * w * a - w * b \in Int
      OBVIOUS
    <3>8. x - m = (n + 1) * (n * w * a - w * b)
      BY <3>5, <3>6
    <3>9. QED
      BY <3>7, <3>8
  <2>3. QED
    BY <2>1, <2>2
<1>3. QED
  BY <1>1, <1>2 DEF Exact

\* The recurrence of Welford's method.
LEMMA Recurrence ==
    ASSUME NEW n \in Nat, NEW m \in Int, NEW q \in Int, NEW S \in Int, NEW Q \in Int,
           NEW x \in Int, NEW r \in Nat,
           m * n = S, r = Q - n * (m * m), x - m = (n + 1) * q
    PROVE  /\ (m + q) * (n + 1) = S + x
           /\ r + (x - m) * (x - (m + q)) \in Nat
           /\ r + (x - m) * (x - (m + q)) = Q + x * x - (n + 1) * ((m + q) * (m + q))
<1>1. x = m + (n + 1) * q
  OBVIOUS
<1>2. x - (m + q) = n * q
  BY <1>1
<1>3. (m + q) * (n + 1) = S + x
  BY <1>1
<1>4. (x - m) * (x - (m + q)) = (n + 1) * n * (q * q)
  BY <1>1, <1>2
<1>5. q * q \in Nat
  OBVIOUS
<1>6. (n + 1) * n * (q * q) \in Nat
  BY <1>5
<1>7. x * x = m * m + 2 * (n + 1) * (m * q) + (n + 1) * (n + 1) * (q * q)
  BY <1>1
<1>8. (m + q) * (m + q) = m * m + 2 * (m * q) + q * q
  OBVIOUS
<1>9. Q + x * x - (n + 1) * ((m + q) * (m + q)) = r + (n + 1) * n * (q * q)
  BY <1>7, <1>8
<1>10. QED
  BY <1>3, <1>4, <1>6, <1>9

-----------------------------------------------------------------------------
(***************************************************************************)
(* The inductive invariant.                                                *)
(***************************************************************************)
RowsOK == rows \in Seq(Rows) /\ Len(rows) <= MaxRows /\ cnt = Len(rows)

\* The mean, and its product with the count: the sum, a multiple of Scale.
MeanOK ==
    /\ rM \in Int /\ SumTo[cnt] \in Int
    /\ SumTo[cnt] % Scale = 0
    /\ rM * cnt = SumTo[cnt]
    /\ cnt = 0 => rM = 0

\* The sum of the squared deviations from the mean.
DeviationOK == rS \in Nat /\ SquaresTo[cnt] \in Int /\ rS = SquaresTo[cnt] - cnt * (rM * rM)

ResultOK == result # <<>> => result = IF cnt > 1 THEN <<rS, cnt - 1>> ELSE <<0, 1>>

IInv == RowsOK /\ MeanOK /\ DeviationOK /\ ResultOK

LEMMA InitKeeps == ScaleOK /\ Init => IInv
<1> SUFFICES ASSUME ScaleOK, Init PROVE IInv
  OBVIOUS
<1>1. rows = <<>> /\ cnt = 0 /\ rM = 0 /\ rS = 0 /\ result = <<>> /\ MaxRows \in Nat
      /\ Scale \in Nat \ {0}
  BY DEF Init, ScaleOK
<1>2. SumTo[0] = 0 /\ SquaresTo[0] = 0
  <2>1. SumsUpTo(SumTo, rows, MaxRows) /\ SumsUpTo(SquaresTo, Squares, MaxRows) /\ 0 \in 0..MaxRows
    BY <1>1, PowerSums
  <2>2. /\ SumTo = [n \in 0..MaxRows |-> IF n = 0 THEN 0 ELSE SumTo[n - 1] + rows[n]]
        /\ SquaresTo = [n \in 0..MaxRows |-> IF n = 0 THEN 0 ELSE SquaresTo[n - 1] + Squares[n]]
    BY <2>1 DEF SumsUpTo
  <2>3. QED
    BY <2>1, <2>2
<1>3. 0 % Scale = 0
  BY <1>1
<1>4. RowsOK
  BY <1>1 DEF RowsOK
<1>5. MeanOK /\ DeviationOK
  BY <1>1, <1>2, <1>3 DEF MeanOK, DeviationOK
<1>6. QED
  BY <1>1, <1>4, <1>5 DEF IInv, ResultOK

LEMMA VarianceStepKeeps ==
    ASSUME ScaleOK, IInv, NEW x \in Rows, VarianceStep(x)
    PROVE  IInv'
<1> DEFINE n == Len(rows)
           S == SumTo[n]
           Q == SquaresTo[n]
           q == (x - rM) \div (n + 1)
<1>1. /\ result = <<>> /\ result' = <<>> /\ n < MaxRows /\ cnt = n /\ rows \in Seq(Rows)
      /\ cnt' = n + 1 /\ rows' = Append(rows, x)
      /\ rM' = rM + q /\ rS' = rS + (x - rM) * (x - rM')
  BY DEF VarianceStep, IInv, RowsOK
<1>2. /\ MaxRows \in Nat /\ Rows \subseteq Int /\ Scale \in Nat \ {0} /\ x \in Int /\ x % Scale = 0
      /\ \A k \in 1..MaxRows : Scale % k = 0
  BY DEF ScaleOK
<1>3. n \in Nat
  BY <1>1
<1>4. /\ rM \in Int /\ S \in Int /\ S % Scale = 0 /\ rM * n = S /\ (n = 0 => rM = 0)
      /\ rS \in Nat /\ Q \in Int /\ rS = Q - n * (rM * rM)
  BY <1>1 DEF IInv, MeanOK, DeviationOK
<1>5. /\ Len(rows') = n + 1
      /\ SumTo'[n + 1] = S + x /\ SquaresTo'[n + 1] = Q + x * x
  BY <1>1, <1>2, SumsExtended
<1>6. RowsOK'
  BY <1>1, <1>2, <1>3, <1>5 DEF RowsOK
<1> HIDE DEF S, Q, n
<1>7. q \in Int /\ x - rM = (n + 1) * q
  <2>1. n < MaxRows
    BY <1>1
  <2>2. n + 1 \in 1..MaxRows /\ (n # 0 => n \in 1..MaxRows)
    BY <1>2, <1>3, <2>1
  <2>3. (n # 0 => Scale % n = 0) /\ Scale % (n + 1) = 0
    BY <1>2, <2>2
  <2>4. Group(Scale, n, S, rM, x)
    BY <1>2, <1>3, <1>4, <2>3 DEF Group
  <2>5. Exact(n, rM, x)
    BY <2>4, QuotientExact
  <2>6. QED
    BY <2>5 DEF Exact
<1> HIDE DEF q
<1>8. /\ (rM + q) * (n + 1) = S + x
      /\ rS + (x - rM) * (x - (rM + q)) \in Nat
      /\ rS + (x - rM) * (x - (rM + q)) = Q + x * x - (n + 1) * ((rM + q) * (rM + q))
  BY <1>2, <1>3, <1>4, <1>7, Recurrence
<1>9. (S + x) % Scale = 0 /\ S + x \in Int /\ Q + x * x \in Int
  <2>1. PICK a \in Int : S = Scale * a
    BY <1>2, <1>4, Multiple
  <2>2. PICK b \in Int : x = Scale * b
    BY <1>2, Multiple
  <2>3. S + x = Scale * (a + b) /\ a + b \in Int
    BY <1>2, <2>1, <2>2
  <2>4. (Scale * (a + b)) % Scale = 0
    BY <1>2, <2>3
  <2>5. QED
    BY <1>2, <1>4, <2>3, <2>4
<1>10. MeanOK'
  BY <1>1, <1>3, <1>4, <1>5, <1>7, <1>8, <1>9 DEF MeanOK
<1>11. DeviationOK'
  <2>1. cnt' = n + 1 /\ SquaresTo'[cnt'] = Q + x * x
    BY <1>1, <1>5
  <2>2. rM' = rM + q /\ rS' = rS + (x - rM) * (x - (rM + q))
    BY <1>1
  <2>3. rS' \in Nat /\ rS' = (Q + x * x) - (n + 1) * (rM' * rM')
    <3>1. rS' \in Nat /\ rS' = Q + (x * x - (n + 1) * (rM' * rM'))
      BY <1>8, <2>2
    <3>2. (n + 1) * (rM' * rM') \in Int
      BY <1>2, <1>3, <1>4, <1>7, <2>2
    <3>3. x * x \in Int /\ Q \in Int
      BY <1>2, <1>4
    <3>4. \A a, b, c \in Int : a + (b - c) = (a + b) - c
      OBVIOUS
    <3>5. QED
      BY <3>1, <3>2, <3>3, <3>4
  <2>4. SquaresTo'[cnt'] \in Int
    BY <1>9, <2>1
  <2>5. rS' = SquaresTo'[cnt'] - cnt' * (rM' * rM')
    BY <2>1, <2>3, Zenon
  <2>6. QED
    BY <2>3, <2>4, <2>5, Zenon DEF DeviationOK
<1>12. QED
  BY <1>1, <1>6, <1>10, <1>11 DEF IInv, ResultOK

LEMMA InvariantStep == ScaleOK /\ IInv /\ [Next]_vars => IInv'
<1> SUFFICES ASSUME ScaleOK, IInv, [Next]_vars PROVE IInv'
  OBVIOUS
<1>1. CASE \E x \in Rows : VarianceStep(x)
  BY <1>1, VarianceStepKeeps
<1>2. ASSUME rows' = rows, cnt' = cnt, rM' = rM, rS' = rS, ResultOK' PROVE IInv'
  <2>1. SumTo' = SumTo /\ SquaresTo' = SquaresTo
    BY <1>2 DEF SumTo, SquaresTo
  <2>2. QED
    BY <1>2, <2>1 DEF IInv, RowsOK, MeanOK, DeviationOK
<1>3. CASE VarianceFinalize
  BY <1>2, <1>3 DEF VarianceFinalize, ResultOK
<1>4. CASE UNCHANGED vars
  BY <1>2, <1>4 DEF vars, IInv, ResultOK
<1>5. QED
  BY <1>1, <1>3, <1>4 DEF Next

LEMMA VarianceFollows == ScaleOK /\ IInv => VarianceRight
<1> SUFFICES ASSUME ScaleOK, IInv PROVE VarianceRight
  OBVIOUS
<1> DEFINE n == Len(rows)
           S == SumTo[n]
           Q == SquaresTo[n]
<1>1. /\ n \in Nat /\ cnt = n /\ rM \in Int /\ S \in Int /\ Q \in Int /\ rS \in Nat
      /\ rM * n = S /\ rS = Q - n * (rM * rM)
  BY DEF IInv, RowsOK, MeanOK, DeviationOK
<1>2. result # <<>> => result = IF n > 1 THEN <<rS, n - 1>> ELSE <<0, 1>>
  BY <1>1 DEF IInv, ResultOK
<1>3. TypeOK
  <2>1. CASE n > 1
    BY <1>1, <1>2, <2>1 DEF TypeOK, IInv, RowsOK
  <2>2. CASE ~(n > 1)
    BY <1>1, <1>2, <2>2 DEF TypeOK, IInv, RowsOK
  <2>3. QED
    BY <2>1, <2>2
<1>4. RunningMean
  BY <1>1 DEF RunningMean
<1> HIDE DEF S, Q, n
<1>5. ASSUME result # <<>>
      PROVE  IF n < 2 THEN result[1] = 0
             ELSE result[1] * n * (n - 1) = result[2] * (n * Q - S * S)
  <2>1. CASE n < 2
    BY <1>1, <1>2, <1>5, <2>1
  <2>2. CASE ~(n < 2)
    <3>1. result[1] = rS /\ result[2] = n - 1
      BY <1>1, <1>2, <1>5, <2>2
    <3>2. S * S = n * n * (rM * rM)
      BY <1>1
    <3>3. n * Q - S * S = n * rS
      BY <1>1, <3>2
    <3>4. rS * n * (n - 1) = (n - 1) * (n * rS)
      BY <1>1
    <3>5. QED
      BY <2>2, <3>1, <3>3, <3>4
  <2>3. QED
    BY <2>1, <2>2
<1>6. QED
  BY <1>3, <1>4, <1>5 DEF VarianceRight, S, Q, n

(***************************************************************************)
(* variance() is the sample variance by its definition, for any number of  *)
(* rows in any order, and the mean that varianceStep keeps is the mean of  *)
(* the rows so far (varianceStep and varianceFinalize, extension-          *)
(* functions.c).  Rounding is left out: rows are multiples of a number     *)
(* that every count divides.                                               *)
(***************************************************************************)
THEOREM VarianceIsRight == Spec => []VarianceRight
<1>1. Init => IInv
  BY InitKeeps, ScaleAssumption
<1>2. IInv /\ [Next]_vars => IInv'
  BY InvariantStep, ScaleAssumption
<1>3. IInv => VarianceRight
  BY VarianceFollows, ScaleAssumption
<1>4. QED
  BY <1>1, <1>2, <1>3, PTL DEF Spec
=============================================================================
