--------------------------- MODULE MCBTreeCursors ---------------------------
(***************************************************************************)
(* Instances of BTreeCursors: small trees of two levels or three, scanned  *)
(* by one cursor or two; and larger ones that no cursor scans.             *)
(***************************************************************************)
EXTENDS BTreeCursors, TLC
CONSTANTS c1, c2

Table == [leafData |-> TRUE, space |-> 12, sep |-> 2, hdr |-> 0, nMin |-> 8]
Index == [leafData |-> FALSE, space |-> 21, sep |-> 3, hdr |-> 0, nMin |-> 14]
Bounds(keys, sizes, initial, max) == [keys |-> keys, sizes |-> sizes, initial |-> initial, maxOps |-> max]
Use(cursors, own, other) == [cursors |-> cursors, own |-> own, other |-> other]

\* m rows with the odd numbers, and new ones before, among and after them.
Odd(m) == [i \in 1 .. m |-> <<2 * i - 1, 4>>]
Among(m) == {2 * i - 1 : i \in 1 .. m} \cup {0, 2 * (m \div 2), 2 * m}
\* A scan that deletes or rewrites its rows, while other cursors insert or delete; two scans; an index.
Scans == {
    Table @@ Bounds(Among(5), {4}, {Odd(5)}, 4) @@ Use({c1}, {"delete"}, {"insert"}),
    Table @@ Bounds(Among(4), {4, 6}, {Odd(4)}, 3) @@ Use({c1}, {"update"}, {"delete", "insert"}),
    Table @@ Bounds(1 .. 9, {4, 6}, {Odd(4)}, 2) @@ Use({c1, c2}, {"delete", "update"}, {}),
    Index @@ Bounds(Among(14), {4}, {Odd(14)}, 2) @@ Use({c1}, {"delete"}, {"insert"})}
\* A scan that deletes a row, and then another cursor that does.
Skips == {Table @@ Bounds(Among(5), {4}, {Odd(5)}, 4) @@ Use({c1}, {"delete"}, {"delete"})}

\* m even keys in the order of the multiples of a (m + 1 is a prime), with these sizes in turn.
Mix(m, a, sizes) == [i \in 1 .. m |-> LET n == (i * a) % (m + 1) IN <<2 * n, sizes[(n % Len(sizes)) + 1]>>]
\* A table: leaves of small and of page-filling cells, of both; also on page 1.
TableStart == {<<>>} \cup {Mix(10, a, s) : a \in {1, 3, 10}, s \in {<<3>>, <<4, 3>>, <<10>>, <<4, 3, 3, 3, 4, 4>>, <<3, 10, 4, 3>>}}
\* An index, of two levels and of three.
IndexStart == {Mix(m, a, s) : m \in {10, 12, 16}, a \in {1, 5, 9}, s \in {<<2>>, <<4, 2, 4>>, <<4, 2, 2, 2, 4, 4, 4, 4, 4, 4>>}}
DeepStart == {Mix(m, a, s) : m \in {30, 36}, a \in {1, 3, 8}, s \in {<<4>>, <<4, 2, 2, 4, 4>>, <<2, 4, 2, 4, 4>>}}
Trees == {f @@ Use({}, {}, {"delete", "insert"}) : f \in {
    Table @@ Bounds(1 .. 21, {3, 4, 10}, TableStart, 2),
    [Table EXCEPT !.hdr = 5] @@ Bounds(1 .. 21, {3, 4, 10}, TableStart, 2),
    Index @@ Bounds(1 .. 33, {2, 4}, IndexStart, 2),
    Index @@ Bounds(1 .. 73, {2, 4}, DeepStart, 1)}}
All == Scans \cup Trees
=============================================================================
