---------------------------- MODULE MCScriptState ----------------------------
(****************************************************************************)
(* A small instance of ScriptState.                                         *)
(****************************************************************************)
EXTENDS ScriptState, TLC

CONSTANTS w1, w2, c1, k1, one, two

TwoHandlers == {w1, w2}
OneClient == {c1}
OneKey == {k1}
Numbers == {one, two}

\* The function of mutate counts, to one and no further: two does not fit.
Count == (None :> one) @@ (one :> two) @@ (two :> two)

Small == {s \in Stores : \A k \in Keys : s[k] # two}

\* Lua has no null to store; only the command line has.
Get == [kind |-> "get", key |-> k1, value |-> None]
Mutate == [Get EXCEPT !.kind = "mutate"]
Put(v) == [kind |-> "set", key |-> k1, value |-> v]
Script == (w1 :> {Get, Mutate}) @@ (w2 :> {Mutate, Put(None)}) @@ (c1 :> {Mutate, Put(Null)})

==============================================================================
