------------------------------ MODULE ScriptState ------------------------------
(****************************************************************************)
(* The store behind paneru.state (src/ecs/script_state.rs).  The main       *)
(* thread owns it and serves it at fixed places of the frame: requests of   *)
(* the handlers on the Lua worker before the pump and at the end (the       *)
(* worker's channel), requests of socket clients in PreUpdate (events).     *)
(* The worker keeps a copy of the whole store with the revision it was      *)
(* asked for at, and asks again only when the revision has moved.           *)
(*                                                                          *)
(* Abstractions: a request in the channel is its caller, whose call says    *)
(* what it asks; keys are acceptable ones; every mutate is given the same   *)
(* function.  The way of a client's request through the socket and the      *)
(* event channel is part of its being unanswered.  An exit is a restart:    *)
(* the save of the last frame may fail, as any save may.                    *)
(*                                                                          *)
(* Mutant_X is X with a mistake in it; no definition uses it.  README.md    *)
(* says which property notices.                                             *)
(****************************************************************************)
EXTENDS ScriptOps, Sequences, FiniteSets

CONSTANTS
    Attempts,     \* MUTATE_ATTEMPTS
    Asks,         \* the calls that each caller makes in a run of the checker
    MaxRevision   \* bound on the revision at which a write is begun

ASSUME AttemptsAssumption == Attempts \in Nat \ {0}
ASSUME AsksAssumption == Asks \in [Callers -> SUBSET Op]
ASSUME MaxRevisionAssumption == MaxRevision \in Nat

VARIABLES
    store,      \* ScriptStateStore.state
    revision,   \* .revision, which the worker reads at any time
    dirty,      \* .dirty
    file,       \* what is in script-state.json
    cached,     \* DispatchWorld.script_state: {} or {[stamp, copy]}
    requests,   \* the channel of StoreRequests: who waits, in order
    call,       \* each caller's running call
    phase       \* where the frame is: "pre", "update" or "post"

vars == <<store, revision, dirty, file, cached, requests, call, phase>>

Empty == [k \in Keys |-> None]

\* A call: where it is, what it is, the stamp and the copy of a read under way,
\* the value that mutate works on or the result, and how often it was overtaken.
Call(st, o, v, tries) ==
    [st |-> st, op |-> o, stamp |-> 0, copy |-> Empty, seen |-> v, tries |-> tries]
NoOp == [kind |-> "get", key |-> CHOOSE k \in Keys : TRUE, value |-> None]
Idle == Call("idle", NoOp, None, 0)

Becomes(c, record) == call' = [call EXCEPT ![c] = record]

\* A read is answered with the value v of its key.
Given(o, v) == IF o.kind = "get" THEN Call("done", o, View(v), 0) ELSE Call("ready", o, v, 0)

------------------------------------------------------------------------------
(* The callers: handlers on the worker, and clients *)

\* Bound: no new write once the revision is MaxRevision.
Invoke(c, o) ==
    /\ call[c].st = "idle" /\ o \in Asks[c]
    /\ o.kind # "get" => revision < MaxRevision
    /\ Becomes(c, Call(IF o.kind = "set" THEN "ready" ELSE "begun", o, o.value, 0))
    /\ UNCHANGED <<store, revision, dirty, file, cached, requests, phase>>

Return(c) ==
    /\ call[c].st = "done"
    /\ Becomes(c, Idle)
    /\ UNCHANGED <<store, revision, dirty, file, cached, requests, phase>>

\* DispatchWorld::script_state, up to the request.
Current(r) == r.stamp = revision

Look(w) ==
    /\ call[w].st = "begun"
    /\ LET o == call[w].op
       IN  \/ \E r \in cached :
                 /\ Current(r)
                 /\ Becomes(w, Given(o, r.copy[o.key]))
                 /\ UNCHANGED requests
           \/ /\ \A r \in cached : ~Current(r)
              /\ Becomes(w, [Call("asked", o, None, 0) EXCEPT !.stamp = revision])
              /\ requests' = Append(requests, w)
    /\ UNCHANGED <<store, revision, dirty, file, cached, phase>>

\* ...and after the reply.
Mutant_StampOf(w) == revision
StampOf(w) == call[w].stamp

Receive(w) ==
    /\ call[w].st = "told"
    /\ cached' = {[stamp |-> StampOf(w), copy |-> call[w].copy]}
    /\ Becomes(w, Given(call[w].op, call[w].copy[call[w].op.key]))
    /\ UNCHANGED <<store, revision, dirty, file, requests, phase>>

\* A client asks the main thread every time.
Ask(c) ==
    /\ call[c].st = "begun"
    /\ Becomes(c, Call("asked", call[c].op, None, 0))
    /\ UNCHANGED <<store, revision, dirty, file, cached, requests, phase>>

\* The write of a set, or of a mutate whose function has returned.
Send(c) ==
    /\ call[c].st = "ready"
    /\ Becomes(c, Call("sent", call[c].op, call[c].seen, call[c].tries))
    /\ requests' = IF c \in Workers THEN Append(requests, c) ELSE requests
    /\ UNCHANGED <<store, revision, dirty, file, cached, phase>>

------------------------------------------------------------------------------
(* The main thread *)

New(r) == IF r.op.kind = "set" THEN r.op.value ELSE Transform[View(r.seen)]

\* ScriptStateStore::apply, and what the caller makes of the answer.
Mutant_Overtaken(r) == FALSE
Overtaken(r) == r.op.kind = "mutate" /\ store[r.op.key] # r.seen

\* Whether a write that lands leaves the store dirty.
Mutant_Dirtied(changed) == dirty
Dirtied(changed) == dirty \/ changed

Apply(c) ==
    LET r == call[c]
        k == r.op.key
        v == New(r)
    IN  \/ /\ Overtaken(r)
           /\ Becomes(c, IF r.tries + 1 < Attempts THEN Call("ready", r.op, store[k], r.tries + 1)
                         ELSE Call("done", r.op, Refused, 0))
           /\ UNCHANGED <<store, revision, dirty>>
        \/ /\ ~Overtaken(r) /\ TooLarge(store, k, v)
           /\ Becomes(c, Call("done", r.op, Refused, 0))
           /\ UNCHANGED <<store, revision, dirty>>
        \/ /\ ~Overtaken(r) /\ ~TooLarge(store, k, v)
           /\ store' = [store EXCEPT ![k] = v]
           /\ revision' = IF store[k] = v THEN revision ELSE revision + 1
           /\ dirty' = Dirtied(store[k] # v)
           /\ Becomes(c, Call("done", r.op, View(v), 0))

\* What serve_lua_store has before it once the first request is answered.
Mutant_Left(q) == <<>>
Left(q) == Tail(q)

\* One request of it.
Serve ==
    /\ phase \in {"pre", "post"} /\ requests # <<>>
    /\ LET w == Head(requests)
       IN  \/ /\ call[w].st = "asked"
              /\ Becomes(w, [call[w] EXCEPT !.st = "told", !.copy = store])
              /\ UNCHANGED <<store, revision, dirty>>
           \/ call[w].st = "sent" /\ Apply(w)
    /\ requests' = Left(requests)
    /\ UNCHANGED <<file, cached, phase>>

\* It ends when it finds the channel empty; a frame follows the other.
EndServe ==
    /\ phase \in {"pre", "post"} /\ requests = <<>>
    /\ phase' = IF phase = "pre" THEN "update" ELSE "pre"
    /\ UNCHANGED <<store, revision, dirty, file, cached, requests, call>>

\* script_state_handler, before or after the worker is served in PreUpdate.  A client sees a null as nil,
\* so its mutate expects None where the store has Null, and is overtaken once.
Handle(c) ==
    /\ phase \in {"pre", "update"}
    /\ LET o == call[c].op
       IN  \/ /\ call[c].st = "asked"
              /\ Becomes(c, Given(o, View(store[o.key])))
              /\ UNCHANGED <<store, revision, dirty>>
           \/ call[c].st = "sent" /\ Apply(c)
    /\ UNCHANGED <<file, cached, requests, phase>>

\* Update: save_if_dirty, when its timer is due, and unless it fails.
Update ==
    /\ phase = "update" /\ phase' = "post"
    /\ \/ dirty /\ file' = store /\ dirty' = FALSE
       \/ UNCHANGED <<file, dirty>>
    /\ UNCHANGED <<store, revision, cached, requests, call>>

\* The program ends, in order or not, and starts again: load.
Restart ==
    /\ store' = file /\ revision' = 0 /\ dirty' = FALSE
    /\ cached' = {} /\ requests' = <<>>
    /\ call' = [c \in Callers |-> Idle]
    /\ phase' = "pre"
    /\ UNCHANGED file

------------------------------------------------------------------------------
Init ==
    /\ file \in Fits /\ store = file /\ revision = 0 /\ dirty = FALSE
    /\ cached = {} /\ requests = <<>>
    /\ call = [c \in Callers |-> Idle]
    /\ phase = "pre"

Frame == Serve \/ EndServe \/ Update
Work(w) == Look(w) \/ Receive(w) \/ Send(w)

Next ==
    \/ Frame
    \/ \E w \in Workers : Work(w)
    \/ \E c \in Clients : Ask(c) \/ Send(c) \/ Handle(c)
    \/ \E c \in Callers : Return(c) \/ \E o \in Op : Invoke(c, o)
    \/ Restart

Spec == Init /\ [][Next]_vars

\* The run loop goes on, a handler's code between two waits comes to its end,
\* a client speaks when it is its turn, and its events are not held back for
\* ever by others, since the pump takes them in order.
FairSpec ==
    /\ Spec /\ WF_vars(Frame)
    /\ \A w \in Workers : WF_vars(Work(w))
    /\ \A c \in Clients : WF_vars(Ask(c) \/ Send(c)) /\ SF_vars(Handle(c))

------------------------------------------------------------------------------
(* Properties *)

Calls ==
    [st : {"idle", "begun", "asked", "told", "ready", "sent", "done"}, op : Op,
     stamp : Nat, copy : Stores, seen : Stored \cup {Refused}, tries : 0 .. Attempts]

TypeOK ==
    /\ store \in Fits /\ file \in Fits
    /\ revision \in Nat /\ dirty \in BOOLEAN
    /\ cached \in SUBSET [stamp : Nat, copy : Stores]
    /\ requests \in Seq(Workers)
    /\ call \in [Callers -> Calls]
    /\ phase \in {"pre", "update", "post"}

\* A copy of the store, kept or on its way, that has the present revision is
\* the store: a stamp may be older than its copy, never newer (the doc comment
\* of DispatchWorld::script_state).
CopiesCurrent ==
    /\ \A r \in cached : r.stamp <= revision /\ (r.stamp = revision => r.copy = store)
    /\ \A c \in Callers : call[c].st \in {"asked", "told"} => call[c].stamp <= revision
    /\ \A c \in Callers : call[c].st = "told" /\ call[c].stamp = revision => call[c].copy = store

\* What is not marked to be saved is saved (ScriptStateStore::apply and
\* save_if_dirty).
CleanIsSaved == ~dirty => file = store

\* A call of a handler comes to its end, also one that is overtaken again and
\* again, and a call of a client does while frames go on.
Unanswered(c) == call[c].st \notin {"idle", "done"}
CallsReturn ==
    /\ \A w \in Workers : Unanswered(w) ~> ~Unanswered(w)
    /\ \A c \in Clients : []<>(phase = "update") => (Unanswered(c) ~> ~Unanswered(c))

\* Why the promise is kept: only a call that writes has a write to send, of a
\* value that can be stored, and a result is something Lua can see.
WritesOnly == \A c \in Callers :
    /\ call[c].st \in {"ready", "sent"} => call[c].op.kind # "get" /\ call[c].seen \in Stored
    /\ call[c].st = "done" => call[c].seen \in Seen \cup {Refused}
IInv == TypeOK /\ CopiesCurrent /\ CleanIsSaved /\ WritesOnly

\* Every get, set and mutate takes effect at one moment between its call and
\* its return, on the store as it is then, or not at all; a mutate that was
\* refused has no effect (the doc comment of install_script_state).
PromisedCall(r) ==
    CASE r.st = "idle" -> [st |-> "idle"]
      [] r.st = "done" -> [st |-> "done", op |-> r.op, result |-> r.seen]
      [] r.st = "told" /\ r.op.kind = "get" ->
            [st |-> "done", op |-> r.op, result |-> View(r.copy[r.op.key])]
      [] OTHER -> [st |-> "busy", op |-> r.op]

Promise == INSTANCE ScriptStore WITH
    data <- store, saved <- file, call <- [c \in Callers |-> PromisedCall(call[c])]

KeepsPromise == Promise!Spec

==============================================================================
