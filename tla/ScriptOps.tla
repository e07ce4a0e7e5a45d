------------------------------- MODULE ScriptOps -------------------------------
(****************************************************************************)
(* The calls of paneru.state and the values they work on                    *)
(* (src/crates/shared_types/src/script_state.rs).                           *)
(****************************************************************************)
EXTENDS Naturals

CONSTANTS
    Workers, Clients, \* handlers of the embedded script; socket clients
    Keys,             \* names in the store
    Values,           \* what can be stored, other than null
    Null,             \* a stored null, which Lua sees as nil
    None,             \* the key is absent; also nil
    Fits,             \* the stores that are not over the size limit
    Transform,        \* the function given to mutate, on what Lua sees
    Refused           \* the result of a call that failed

Callers == Workers \cup Clients

Stored == Values \cup {Null, None}
Seen == Values \cup {None}
Stores == [Keys -> Stored]

ASSUME CallersAssumption == Workers \cap Clients = {}
ASSUME KeysAssumption == Keys # {}
ASSUME ValuesAssumption == Null # None /\ {Null, None, Refused} \cap Values = {}
ASSUME TransformAssumption == Transform \in [Seen -> Seen]
\* Taking a key out never makes the store larger.
ASSUME FitsAssumption ==
    /\ Fits \subseteq Stores
    /\ \A s \in Fits, k \in Keys : [s EXCEPT ![k] = None] \in Fits

\* A set of None removes the key.
Op == [kind : {"get", "mutate"}, key : Keys, value : {None}]
      \cup [kind : {"set"}, key : Keys, value : Stored]

\* Into Lua: a null and an absent key are both nil.
View(v) == IF v = Null THEN None ELSE v

\* check_capacity, for a write of v under k.
TooLarge(s, k, v) == v # None /\ [s EXCEPT ![k] = v] \notin Fits

==============================================================================
