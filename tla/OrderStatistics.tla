-------------------------- MODULE OrderStatistics --------------------------
(***************************************************************************)
(* The aggregates mode, median, lower_quartile and upper_quartile of       *)
(* src/native/extension-functions.c: one group of rows.  Each row goes     *)
(* through modeStep into an ordered map (an unbalanced search tree whose   *)
(* nodes count equal keys); the finalizer walks the map in order.          *)
(*                                                                         *)
(* Named abstractions.  Numbers are counted in halves, so that a float can *)
(* have a fraction: an integer row has an even x.  Floating-point rounding *)
(* is not modelled.  A row whose value is text or a blob that is no number *)
(* enters as the float 0; a NULL row changes nothing and is left out.  An  *)
(* int has IntBits bits, an i64 is never full.  A tree is a function from  *)
(* the paths of its nodes (-1 left, 1 right) to the nodes.                 *)
(***************************************************************************)
EXTENDS Integers, Sequences, SequencesExt

CONSTANTS
    IntegerRows,  \* the integers rows may hold
    FloatRows,    \* the floats rows may hold, in halves
    IntBits,      \* width of a C int
    MaxRows       \* bound: rows of the group

InputsOK ==
    /\ IntegerRows \subseteq Int /\ FloatRows \subseteq Int
    /\ IntBits \in Nat \ {0}
    /\ MaxRows \in Nat

Row == [kind : {"integer"}, x : {2 * i : i \in IntegerRows}]
          \cup [kind : {"float"}, x : FloatRows]
Aggregate == {"mode", "median", "lower_quartile", "upper_quartile"}
None == [fn |-> "none"]

VARIABLES
    rows,       \* history: the rows so far
    isDouble,   \* ModeCtx.is_double
    cnt,        \* ModeCtx.cnt
    tree,       \* ModeCtx.m
    answer      \* what the finalizer returned

vars == <<rows, isDouble, cnt, tree, answer>>

Init ==
    /\ rows = <<>>
    /\ isDouble = FALSE
    /\ cnt = 0
    /\ tree = <<>>
    /\ answer = None

(***************************************************************************)
(* The ordered map.                                                        *)
(***************************************************************************)
\* -1 where node_insert goes left of a node with key k, 1 where it goes right.
Side(k, e) == IF k > e THEN -1 ELSE 1

\* The path node_insert(t, e) takes: from the root, past nodes with other keys,
\* to the node with key e or to the empty place where it belongs.
Leads(t, e, path) ==
    \A i \in 1..Len(path) :
        LET above == SubSeq(path, 1, i - 1)
        IN  /\ above \in DOMAIN t
            /\ t[above].key # e
            /\ path[i] = Side(t[above].key, e)
Places(t) == {<<>>} \cup {Append(p, side) : p \in DOMAIN t, side \in {-1, 1}}
Place(t, e) ==
    CHOOSE p \in Places(t) : Leads(t, e, p) /\ (p \in DOMAIN t => t[p].key = e)

\* map_insert: count e in, or hang a new node.
Insert(t, e) ==
    LET p == Place(t, e)
    IN IF p \in DOMAIN t
       THEN [t EXCEPT ![p].count = @ + 1]
       ELSE t @@ (p :> [key |-> e, count |-> 1])

\* node_iterate visits what is left of a node, the node, what is right of it.
\* So p comes before q when they part with p on the left.
Turn(p, i) == IF i <= Len(p) THEN p[i] ELSE 0
Before(p, q) ==
    \E i \in 1..(Len(p) + Len(q)) :
        /\ \A j \in 1..(i - 1) : Turn(p, j) = Turn(q, j)
        /\ Turn(p, i) < Turn(q, i)
InOrder(t) ==
    [i \in 1..Cardinality(DOMAIN t) |->
        t[CHOOSE p \in DOMAIN t : Cardinality({q \in DOMAIN t : Before(q, p)}) = i - 1]]

(***************************************************************************)
(* modeStep.                                                               *)
(***************************************************************************)
\* sqlite3_value_int64 cuts a float towards zero.
Cut(x) == IF x >= 0 THEN x \div 2 ELSE -((-x) \div 2)

\* Of the map's key: a double (in halves), or an i64.
Key(r, double) == IF double THEN r.x ELSE Cut(r.x)

\* The first row makes the map, and its type is the type of the group.
ModeStep(r) ==
    /\ answer = None
    /\ Len(rows) < MaxRows
    /\ isDouble' = (IF cnt = 0 THEN r.kind = "float" ELSE isDouble)
    /\ cnt' = cnt + 1
    /\ tree' = Insert(tree, Key(r, isDouble'))
    /\ rows' = Append(rows, r)
    /\ UNCHANGED answer

(***************************************************************************)
(* The finalizers.                                                         *)
(***************************************************************************)
\* *(int*)e: the low bits of the i64 key, with their sign.
Low(k) == ((k + 2^(IntBits - 1)) % 2^IntBits) - 2^(IntBits - 1)
Read(k) == IF isDouble THEN k ELSE Low(k)
Unit == IF isDouble THEN 2 ELSE 1

\* modeIterate on a node, with the context p.
ModeIterate(p, n) ==
    IF p.mcnt = n.count THEN [p EXCEPT !.mn = @ + 1]
    ELSE IF p.mcnt < n.count THEN [r |-> Read(n.key), mcnt |-> n.count, mn |-> 1]
    ELSE p

\* Fault of MedianIterate: > for >=.
MedianIterateStrict(p, n, pcnt4) ==
    IF p.done THEN p
    ELSE LET hit  == 4 * (p.mcnt + n.count) > pcnt4
             fits == 4 * (cnt - p.mcnt) >= 4 * cnt - pcnt4
         IN [r    |-> IF hit /\ fits THEN p.r + Read(n.key) ELSE p.r,
             mn   |-> IF hit /\ fits THEN p.mn + 1 ELSE p.mn,
             done |-> hit /\ ~fits,
             mcnt |-> p.mcnt + n.count]

\* medianIterate on a node; pcnt4 is four times the context's pcnt.
MedianIterate(p, n, pcnt4) ==
    IF p.done THEN p
    ELSE LET hit  == 4 * (p.mcnt + n.count) >= pcnt4
             fits == 4 * (cnt - p.mcnt) >= 4 * cnt - pcnt4
         IN [r    |-> IF hit /\ fits THEN p.r + Read(n.key) ELSE p.r,
             mn   |-> IF hit /\ fits THEN p.mn + 1 ELSE p.mn,
             done |-> hit /\ ~fits,
             mcnt |-> p.mcnt + n.count]

Result(fn, n, d) == [fn |-> fn, null |-> FALSE, num |-> n, den |-> d]
NoResult(fn) == [fn |-> fn, null |-> TRUE]

\* modeFinalize: NULL unless one value is the most frequent.
ModeFinalize ==
    LET p == FoldLeft(ModeIterate, [r |-> 0, mcnt |-> 0, mn |-> 0], InOrder(tree))
    IN IF p.mn = 1 THEN Result("mode", p.r, Unit) ELSE NoResult("mode")

\* _medianFinalize with pcnt4 quarters; with no row there is no context: NULL.
MedianFinalize(fn, pcnt4) ==
    LET Iterate(p, n) == MedianIterate(p, n, pcnt4)
        p == FoldLeft(Iterate, [r |-> 0, mn |-> 0, done |-> FALSE, mcnt |-> 0], InOrder(tree))
    IN IF cnt = 0 THEN NoResult(fn) ELSE Result(fn, p.r, Unit * p.mn)

\* modeFinalize, medianFinalize, lower_ and upper_quartileFinalize.
Quarters == [median |-> 2, lower_quartile |-> 1, upper_quartile |-> 3]
Finalize(fn) ==
    /\ answer = None
    /\ answer' = IF fn = "mode" THEN ModeFinalize
                 ELSE MedianFinalize(fn, Quarters[fn] * cnt)
    /\ UNCHANGED <<rows, isDouble, cnt, tree>>

Next == (\E r \in Row : ModeStep(r)) \/ (\E fn \in Aggregate : Finalize(fn))

Spec == Init /\ [][Next]_vars
-----------------------------------------------------------------------------
(***************************************************************************)
(* Properties.  They speak of the rows, never of the tree's shape.         *)
(***************************************************************************)
\* What the group holds, in halves: floats as they are when the first row is a
\* float, else the integers the rows are cut to.
Value(i) == IF rows[1].kind = "float" THEN rows[i].x ELSE 2 * Cut(rows[i].x)
Index == 1..Len(rows)
Below(x) == Cardinality({i \in Index : Value(i) < x})
Times(x) == Cardinality({i \in Index : Value(i) = x})
Values == {Value(i) : i \in Index}

\* The values fit an int (or are not read as one).
Narrow == rows # <<>> /\ rows[1].kind = "integer" =>
              \A i \in Index : Low(Cut(rows[i].x)) = Cut(rows[i].x)

\* The answer is a/b halves.
Is(a, b) == /\ ~answer.null
            /\ answer.den > 0
            /\ 2 * answer.num * b = a * answer.den

TypeOK ==
    /\ rows \in Seq(Row) /\ Len(rows) <= MaxRows
    /\ isDouble \in BOOLEAN
    /\ cnt \in 0..MaxRows
    /\ DOMAIN tree \subseteq Seq({-1, 1})
    /\ \A p \in DOMAIN tree : tree[p].key \in Int /\ tree[p].count \in 1..MaxRows
    /\ answer.fn \in Aggregate \cup {"none"}

\* The map is the bag of the rows: walked in order its keys increase strictly,
\* and each node counts the rows with its key, for any order of arrival and so
\* for any shape the unbalanced tree takes (node_insert, node_iterate).
MapIsBag ==
    LET walk == InOrder(tree)
    IN /\ \A i, j \in DOMAIN walk : i < j => walk[i].key < walk[j].key
       /\ \A i \in DOMAIN walk :
             walk[i].count = Times(IF isDouble THEN walk[i].key ELSE 2 * walk[i].key)
       /\ Len(walk) = Cardinality(Values)

\* mode() is the value that occurs most often, NULL when several do or there is
\* none; the order of the rows only matters by the type of the first.
ModeRight ==
    answer.fn = "mode" /\ Narrow =>
        LET best == {x \in Values : \A y \in Values : Times(y) <= Times(x)}
        IN IF Cardinality(best) = 1 THEN \A x \in best : Is(x, 1) ELSE answer.null

\* median() and the quartiles are the textbook's quantiles: of n sorted values
\* and k quarters, the one at position ceil(kn/4), or the mean of that one and
\* the next when kn/4 is whole.  (The code gets there by comparing counts with
\* fractions, node by node.)
Nth(i) == CHOOSE x \in Values : Below(x) < i /\ i <= Below(x) + Times(x)
QuantileRight ==
    answer.fn \in DOMAIN Quarters /\ Narrow =>
        IF rows = <<>> THEN answer.null
        ELSE LET h == Quarters[answer.fn] * Len(rows)
             IN IF h % 4 = 0 THEN Is(Nth(h \div 4) + Nth(h \div 4 + 1), 2)
                ELSE Is(Nth(h \div 4 + 1), 1)

\* The map, and what the finalizers make of it, for every order of the rows.
OrderRight == TypeOK /\ MapIsBag /\ ModeRight /\ QuantileRight

\* extension-functions.c:1487-1489 says that medianIterate finds "the value
\* such that the number of elements smaller is equal the the number of elements
\* larger"; with ties, at most half of them on each side.
MedianInMiddle ==
    answer.fn = "median" /\ ~answer.null =>
        LET n == 2 * answer.num
            d == answer.den
        IN /\ 2 * Cardinality({i \in Index : rows[i].x * d < n}) <= Len(rows)
           /\ 2 * Cardinality({i \in Index : rows[i].x * d > n}) <= Len(rows)

\* extension-functions.c:1455-1456 says that modeIterate "finds the mode (most
\* frequent value)": whatever it returns is the value of a row.
ModeIsOfARow ==
    answer.fn = "mode" /\ ~answer.null =>
        \E i \in Index : 2 * answer.num = rows[i].x * answer.den
=============================================================================
