------------------------------ MODULE MCWrapper ------------------------------
(***************************************************************************)
(* Three parts of the wrapper that share no state, in one run: texts of    *)
(* several statements (Exec), the loading of the module (Loader), and      *)
(* values that are bound and read back while the memory grows (Values).  A *)
(* behaviour is one of the three, the others stay where they start.        *)
(***************************************************************************)
EXTENDS Exec, Values

CONSTANTS l1, l2, l3
VARIABLES part, module, promise

(* All texts of up to three pieces and one that is longer. *)
ShortTexts ==
    UNION {[1..n -> Pieces] : n \in 0..3}
        \cup {<<"silent", "blank", "rows", "blank", "rows", "rows", "fails">>}

(* Twenty JavaScript values for two parameters; 3-bit integers and bytes,  *)
(* with values on both sides of each edge.                                 *)
Number(h) == [js |-> "number", v |-> h]
String(s) == [js |-> "string", s |-> s]
ArrayOf(s) == [js |-> "array", s |-> s]
SomeValues ==
    {Number(h) : h \in {1, -1, 6, 7, 8, -8, -9, -10, 16}}
      \cup {String(<<>>), String(<<1, 2>>), String(<<1, 0, 2>>)}
      \cup {ArrayOf(<<>>), ArrayOf(<<3, 4>>), ArrayOf(<<9>>)}
      \cup {[js |-> "boolean", b |-> TRUE], [js |-> "boolean", b |-> FALSE]}
      \cup {[js |-> k] : k \in {"-0", "NaN", "null", "undefined", "object"}}
AllLists ==
    {<<>>} \cup {<<x>> : x \in SomeValues} \cup {<<x, y>> : x, y \in SomeValues}
      \cup {<<Number(6), x, y>> : x \in {Number(1), [js |-> "object"]}, y \in SomeValues}

Loading == INSTANCE Loader WITH Loads <- {l1, l2, l3}

loadVars == <<module, promise>>
allVars == <<part, vars, loadVars, valueVars>>

MCInit == part \in {"exec", "loader", "values"} /\ Init /\ Loading!Init /\ ValuesInit

Only(p) == part = p /\ part' = part
InTexts == Only("exec") /\ UNCHANGED <<loadVars, valueVars>>
InLoads == Only("loader") /\ UNCHANGED <<vars, valueVars>>
InValues == Only("values") /\ UNCHANGED <<vars, loadVars>>

MCNext ==
    \/ \E t \in Texts : InTexts /\ ExecEnter(t)
    \/ \E t \in Texts : InTexts /\ RunEnter(t)
    \/ InTexts /\ Refuse
    \/ InTexts /\ Close
    \/ InTexts /\ ExecReturn
    \/ InTexts /\ RunReturn
    \/ InTexts /\ PrepareFails
    \/ InTexts /\ PrepareBlank
    \/ InTexts /\ Prepare
    \/ InTexts /\ StepRow
    \/ InTexts /\ StepDone
    \/ InTexts /\ StepFails
    \/ \E l \in {l1, l2, l3} : InLoads /\ Loading!Load(l)
    \/ \E l \in {l1, l2, l3} : InLoads /\ Loading!Compiled(l)
    \/ \E l \in {l1, l2, l3} : InLoads /\ Loading!Initialized(l)
    \/ \E l \in {l1, l2, l3} : InLoads /\ Loading!Aborted(l)
    \/ \E values \in Lists : InValues /\ Bind(values)
    \/ InValues /\ Step
    \/ InValues /\ StepEnds
    \/ InValues /\ Get

MCSpec == MCInit /\ [][MCNext]_allVars /\ Fairness /\ Loading!Fairness

(* Loader!LoadsSettle: each load is answered once, by its own module. *)
LoadsSettle == Loading!LoadsSettle
=============================================================================
