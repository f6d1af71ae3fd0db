------------------------------ MODULE MCRunner ------------------------------
(***************************************************************************)
(* Small instances of Runner: one state key of each scope and the shapes   *)
(* of the events that matter to each run.                                  *)
(***************************************************************************)
EXTENDS RunnerProps

(* The callers are interchangeable. *)
AnyCaller == Permutations(Callers)

ScopeOfKey == [k |-> "session", a |-> "app", u |-> "user", t |-> "temp"]

Set(keys) == [sets |-> keys, clears |-> {}, partial |-> FALSE, saves |-> FALSE]
Clear(keys) == [Set({}) EXCEPT !.clears = keys]
Save(keys) == [Set(keys) EXCEPT !.saves = TRUE]
Partial(keys) == [Set(keys) EXCEPT !.partial = TRUE]

NoInitialState == {{}}

PlainMessage == {Set({})}
ScopedMessage == {Set({"a", "u"})}

OneReply == {<<Partial({"k"}), Set({"a"})>>}
StateReply == {<<Set({"k"})>>, <<Save({})>>, <<Clear({"k"}), Save({"k"})>>}
=============================================================================
