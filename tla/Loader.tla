------------------------------- MODULE Loader -------------------------------
(***************************************************************************)
(* The default export (index.ts:28-48): a promise around the loading of    *)
(* emscripten's module.  Several loads may run at the same time, each      *)
(* with a module of its own.  The module is external: it fetches and       *)
(* compiles the WebAssembly file asynchronously, and calls                 *)
(* onRuntimeInitialized once, or onAbort when the loading or, later, a     *)
(* call fails for good.                                                    *)
(***************************************************************************)
CONSTANT Loads      \* calls of the default export

VARIABLES
    module,     \* the state of each load's module
    promise     \* the state of each load's promise

vars == <<module, promise>>

Init ==
    /\ module = [l \in Loads |-> "none"]
    /\ promise = [l \in Loads |-> "none"]

Settle(l, value) == IF promise[l] = "pending" THEN value ELSE promise[l]

(* The executor starts the module, which returns before the runtime is up. *)
Load(l) ==
    /\ module[l] = "none"
    /\ module' = [module EXCEPT ![l] = "loading"]
    /\ promise' = [promise EXCEPT ![l] = "pending"]

(* The file arrives and is compiled; its static constructors have yet to run. *)
Compiled(l) ==
    /\ module[l] = "loading"
    /\ module' = [module EXCEPT ![l] = "compiled"]
    /\ UNCHANGED promise

(* onRuntimeInitialized builds the API and resolves. *)
Initialized(l) ==
    /\ module[l] = "compiled"
    /\ module' = [module EXCEPT ![l] = "ready"]
    /\ promise' = [promise EXCEPT ![l] = Settle(l, "resolved")]

(* Fault of Aborted: no onAbort. *)
AbortedUnheard(l) ==
    /\ module[l] \in {"loading", "compiled", "ready"}
    /\ module' = [module EXCEPT ![l] = "aborted"]
    /\ UNCHANGED promise

(* onAbort rejects: no file, no WebAssembly, or no memory in a later call. *)
Aborted(l) ==
    /\ module[l] \in {"loading", "compiled", "ready"}
    /\ module' = [module EXCEPT ![l] = "aborted"]
    /\ promise' = [promise EXCEPT ![l] = Settle(l, "rejected")]

Next == \E l \in Loads : Load(l) \/ Compiled(l) \/ Initialized(l) \/ Aborted(l)

(* A download ends, in one way or another, and the module then goes on. *)
Fairness ==
    \A l \in Loads :
        WF_vars(Compiled(l) \/ (module[l] # "ready" /\ Aborted(l))) /\ WF_vars(Initialized(l))

Spec == Init /\ [][Next]_vars /\ Fairness

(***************************************************************************)
(* A caller gets the API only of a module whose runtime was initialized,   *)
(* and an error only of one that aborted: what one load does, settles no   *)
(* other.                                                                  *)
(***************************************************************************)
SettledByItsModule ==
    \A l \in Loads :
        /\ promise[l] = "resolved" => module[l] \in {"ready", "aborted"}
        /\ promise[l] = "rejected" => module[l] = "aborted"
        /\ module[l] = "ready" => promise[l] = "resolved"

(* Every call of the default export is answered. *)
EveryLoadSettles == \A l \in Loads : promise[l] = "pending" ~> promise[l] \in {"resolved", "rejected"}

(* An abort after the answer does not change it. *)
AnswerStands ==
    [][\A l \in Loads : promise[l] \in {"resolved", "rejected"} => promise'[l] = promise[l]]_vars

(* The three together: each load is answered once, by its own module. *)
LoadsSettle == []SettledByItsModule /\ EveryLoadSettles /\ AnswerStands
=============================================================================
