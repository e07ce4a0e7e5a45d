------------------------------ MODULE ScriptStore ------------------------------
(****************************************************************************)
(* What paneru.state promises its callers: one store, in which each get,    *)
(* set and mutate takes effect at one moment between its call and its       *)
(* return, or not at all.  A restart goes back to what was saved last.      *)
(****************************************************************************)
EXTENDS ScriptOps

NoCall == [st |-> "idle"]
Busy(o) == [st |-> "busy", op |-> o]
Done(o, r) == [st |-> "done", op |-> o, result |-> r]

VARIABLES data, saved, call

vars == <<data, saved, call>>

Init ==
    /\ data \in Fits /\ saved = data
    /\ call = [c \in Callers |-> NoCall]

Answer(c, o, r) ==
    /\ call[c] = Busy(o)
    /\ call' = [call EXCEPT ![c] = Done(o, r)]

Invoke(c, o) ==
    /\ call[c] = NoCall
    /\ call' = [call EXCEPT ![c] = Busy(o)]
    /\ UNCHANGED <<data, saved>>

Return(c, o, r) ==
    /\ call[c] = Done(o, r)
    /\ call' = [call EXCEPT ![c] = NoCall]
    /\ UNCHANGED <<data, saved>>

Get(c, o) ==
    /\ o.kind = "get"
    /\ Answer(c, o, View(data[o.key]))
    /\ UNCHANGED <<data, saved>>

\* What a call that writes leaves under its key.
Outcome(o) == IF o.kind = "set" THEN o.value ELSE Transform[View(data[o.key])]

Put(c, o) ==
    /\ o.kind # "get" /\ ~TooLarge(data, o.key, Outcome(o))
    /\ Answer(c, o, View(Outcome(o)))
    /\ data' = [data EXCEPT ![o.key] = Outcome(o)]
    /\ UNCHANGED saved

\* Only mutate may fail for another reason: the key kept changing under it.
Fail(c, o) ==
    /\ o.kind # "get"
    /\ o.kind = "set" => TooLarge(data, o.key, o.value)
    /\ Answer(c, o, Refused)
    /\ UNCHANGED <<data, saved>>

Save == saved' = data /\ UNCHANGED <<data, call>>

Restart ==
    /\ data' = saved
    /\ call' = [c \in Callers |-> NoCall]
    /\ UNCHANGED saved

Next ==
    \/ \E c \in Callers, o \in Op :
          \/ Invoke(c, o) \/ Get(c, o) \/ Put(c, o) \/ Fail(c, o)
          \/ \E r \in Seen \cup {Refused} : Return(c, o, r)
    \/ Save \/ Restart

Spec == Init /\ [][Next]_vars

==============================================================================
