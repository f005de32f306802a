------------------------------ MODULE OrderedMap ------------------------------
(***************************************************************************)
(* What a b-tree promises: a map from keys to entries.  Each call puts or  *)
(* replaces the entry it is asked to, or removes the one of its key;       *)
(* between two such calls, searches and scans ask for no change.           *)
(***************************************************************************)
EXTENDS Integers, TLC

CONSTANTS Key, Entry

VARIABLES
    map,
    asked       \* the call: what it is to do, to which key, with which entry

mvars == <<map, asked>>

Nothing == [op |-> "none"]

Init == asked = Nothing /\ DOMAIN map \subseteq Key /\ \A k \in DOMAIN map : map[k] \in Entry

Put(k, e) ==
    /\ asked' = [op |-> "put", key |-> k, entry |-> e]
    /\ map' = (k :> e) @@ map
Remove(k) ==
    /\ asked' = [op |-> "remove", key |-> k]
    /\ k \in DOMAIN map /\ map' = [j \in DOMAIN map \ {k} |-> map[j]]
Look == asked' = Nothing /\ UNCHANGED map

\* The key and the entry are those the call has.
Next ==
    \/ asked'.op = "put" /\ asked'.key \in Key /\ asked'.entry \in Entry /\ Put(asked'.key, asked'.entry)
    \/ asked'.op = "remove" /\ asked'.key \in Key /\ Remove(asked'.key)
    \/ Look

Spec == Init /\ [][Next]_mvars
=============================================================================
