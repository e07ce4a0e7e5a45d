-------------------------- MODULE ScriptState_proofs --------------------------
(****************************************************************************)
(* Theorems about ScriptState for any callers, keys, values, size limit,    *)
(* function and number of attempts.                                         *)
(****************************************************************************)
EXTENDS ScriptState, TLAPS

\* The constants have the types that ScriptOps assumes.
LEMMA Views ==
    /\ \A v \in Stored : View(v) \in Seen
    /\ \A v \in Seen : v \in Stored /\ Transform[v] \in Seen
    /\ \A s \in Fits : s \in Stores
    /\ \A s \in Stores, k \in Keys : s[k] \in Stored
  BY ValuesAssumption, TransformAssumption, FitsAssumption DEF View, Stored, Seen, Stores

\* A write that is not too large leaves a store that fits.
LEMMA WriteFits ==
    ASSUME NEW s \in Fits, NEW k \in Keys, NEW v \in Stored, ~TooLarge(s, k, v)
    PROVE  [s EXCEPT ![k] = v] \in Fits
  BY FitsAssumption DEF TooLarge

\* A call at rest or at any other step has the type of calls.
LEMMA CallTypes ==
    /\ Empty \in Stores
    /\ NoOp \in Op
    /\ \A st \in {"idle", "begun", "asked", "told", "ready", "sent", "done"}, o \in Op,
          v \in Stored \cup {Refused}, n \in 0 .. Attempts : Call(st, o, v, n) \in Calls
    /\ Idle \in Calls
  <1>1. Empty \in Stores
    BY DEF Empty, Stores, Stored
  <1>2. NoOp \in Op
    BY KeysAssumption DEF NoOp, Op
  <1>3. \A st \in {"idle", "begun", "asked", "told", "ready", "sent", "done"}, o \in Op,
           v \in Stored \cup {Refused}, n \in 0 .. Attempts : Call(st, o, v, n) \in Calls
    BY <1>1 DEF Call, Calls
  <1>4. Idle \in Calls
    BY <1>2, <1>3, AttemptsAssumption DEF Idle, Stored
  <1> QED
    BY <1>1, <1>2, <1>3, <1>4

------------------------------------------------------------------------------
(* The inductive invariant *)

\* What a single caller's step must leave: its call has the type, has a write
\* to send only if it writes, and has no stamp or copy newer than it is.
Fine(r) ==
    /\ r \in Calls
    /\ r.st \in {"ready", "sent"} => r.op.kind # "get" /\ r.seen \in Stored
    /\ r.st = "done" => r.seen \in Seen \cup {Refused}
    /\ r.st \in {"asked", "told"} => r.stamp <= revision
    /\ r.st = "told" /\ r.stamp = revision => r.copy = store

\* The invariant holds of each call separately.
LEMMA InvByCall ==
    ASSUME IInv
    PROVE  /\ store \in Fits /\ file \in Fits /\ revision \in Nat /\ dirty \in BOOLEAN
           /\ cached \in SUBSET [stamp : Nat, copy : Stores]
           /\ \A r \in cached : r.stamp <= revision /\ (r.stamp = revision => r.copy = store)
           /\ requests \in Seq(Workers) /\ phase \in {"pre", "update", "post"}
           /\ CleanIsSaved
           /\ call \in [Callers -> Calls] /\ \A c \in Callers : Fine(call[c])
  BY DEF IInv, TypeOK, CopiesCurrent, WritesOnly, Fine

\* And it is enough to show it of each call, and of the rest of the state.
LEMMA InvFromCalls ==
    ASSUME (store \in Fits /\ file \in Fits /\ revision \in Nat /\ dirty \in BOOLEAN)',
           (cached \in SUBSET [stamp : Nat, copy : Stores])',
           (\A r \in cached : r.stamp <= revision /\ (r.stamp = revision => r.copy = store))',
           (requests \in Seq(Workers) /\ phase \in {"pre", "update", "post"})',
           CleanIsSaved',
           call' = [c \in Callers |-> call'[c]], \A c \in Callers : Fine(call[c])'
    PROVE  IInv'
  <1>1. call' \in [Callers -> Calls]
    BY DEF Fine
  <1> QED
    BY <1>1 DEF IInv, TypeOK, CopiesCurrent, WritesOnly, Fine

\* A step that gives one caller a fine call and leaves the store, its revision
\* and the copies of it alone keeps the invariant.
LEMMA OneCall ==
    ASSUME IInv, NEW c \in Callers, NEW r, Becomes(c, r), Fine(r),
           UNCHANGED <<store, revision, dirty, file, cached, phase>>,
           requests' \in Seq(Workers)
    PROVE  IInv'
  <1>1. \A d \in Callers : call'[d] = IF d = c THEN r ELSE call[d]
    BY InvByCall DEF Becomes
  <1>2. call' = [d \in Callers |-> call'[d]]
    BY InvByCall DEF Becomes
  <1>3. \A d \in Callers : Fine(call[d])
    BY InvByCall
  <1>4. \A d \in Callers : Fine(call[d])'
    BY <1>1, <1>3 DEF Fine
  <1>5. CleanIsSaved'
    BY InvByCall DEF CleanIsSaved
  <1>6. /\ (store \in Fits /\ file \in Fits /\ revision \in Nat /\ dirty \in BOOLEAN)'
        /\ (cached \in SUBSET [stamp : Nat, copy : Stores])'
        /\ (\A s \in cached : s.stamp <= revision /\ (s.stamp = revision => s.copy = store))'
        /\ (requests \in Seq(Workers) /\ phase \in {"pre", "update", "post"})'
    BY InvByCall
  <1> QED
    BY <1>2, <1>4, <1>5, <1>6, InvFromCalls

\* A call that is given no stamp and no copy is fine if its value is.
LEMMA FineCall ==
    ASSUME NEW o \in Op, NEW n \in 0 .. Attempts, NEW v \in Stored \cup {Refused},
           NEW st \in {"idle", "begun", "ready", "sent", "done"},
           st \in {"ready", "sent"} => o.kind # "get" /\ v \in Stored,
           st = "done" => v \in Seen \cup {Refused}
    PROVE  Fine(Call(st, o, v, n))
  <1>1. Call(st, o, v, n) \in Calls
    BY CallTypes
  <1> QED
    BY <1>1 DEF Fine, Call

\* A read under way is fine, with a stamp that is not newer than the revision.
LEMMA FineRead ==
    ASSUME NEW o \in Op, NEW n \in Nat, revision \in Nat, n <= revision
    PROVE  /\ Call("asked", o, None, 0) = [Call("asked", o, None, 0) EXCEPT !.stamp = 0]
           /\ Fine([Call("asked", o, None, 0) EXCEPT !.stamp = n])
  <1> DEFINE r == Call("asked", o, None, 0)
  <1> DEFINE s == [r EXCEPT !.stamp = n]
  <1>1. None \in Stored
    BY DEF Stored
  <1>2. r \in Calls /\ r.st = "asked" /\ r.stamp = 0
    BY <1>1, CallTypes, AttemptsAssumption DEF Call
  <1>3. r = [r EXCEPT !.stamp = 0]
    BY <1>2 DEF Calls
  <1>4. s \in Calls /\ s.st = "asked" /\ s.stamp = n
    BY <1>2 DEF Calls
  <1> HIDE DEF r, s
  <1>5. Fine(s)
    BY <1>4 DEF Fine
  <1> QED
    BY <1>3, <1>5 DEF r, s

\* What a read is answered with is fine.
LEMMA FineGiven ==
    ASSUME NEW o \in Op, NEW v \in Stored
    PROVE  Fine(Given(o, v))
  <1>1. View(v) \in Seen /\ View(v) \in Stored
    BY Views
  <1>2. CASE o.kind = "get"
    BY <1>1, <1>2, FineCall, AttemptsAssumption DEF Given
  <1>3. CASE o.kind # "get"
    BY <1>3, FineCall, AttemptsAssumption DEF Given
  <1> QED
    BY <1>2, <1>3

\* The write of a call is of a value that can be stored.
LEMMA NewStored ==
    ASSUME NEW r \in Calls, r.seen \in Stored
    PROVE  New(r) \in Stored /\ View(New(r)) \in Seen
  <1>1. r.op.value \in Stored
    BY DEF Calls, Op, Stored
  <1>2. Transform[View(r.seen)] \in Stored
    BY Views
  <1> QED
    BY <1>1, <1>2, Views DEF New

\* apply keeps the invariant, whoever asks.
LEMMA ApplyInv ==
    ASSUME IInv, NEW c \in Callers, call[c].st = "sent", Apply(c),
           UNCHANGED <<file, cached, phase>>, requests' \in Seq(Workers)
    PROVE  IInv'
  <1> DEFINE r == call[c]
  <1> DEFINE k == r.op.key
  <1>1. r \in Calls /\ r.op \in Op /\ k \in Keys /\ r.op.kind # "get" /\ r.seen \in Stored
    BY InvByCall DEF Fine, Calls, Op
  <1>2. New(r) \in Stored /\ View(New(r)) \in Seen /\ store[k] \in Stored
    BY <1>1, NewStored, Views, InvByCall
  <1>3. CASE Overtaken(r)
    <2>1. Fine(IF r.tries + 1 < Attempts THEN Call("ready", r.op, store[k], r.tries + 1)
               ELSE Call("done", r.op, Refused, 0))
      <3>1. r.tries \in Nat /\ (r.tries + 1 < Attempts => r.tries + 1 \in 0 .. Attempts)
        BY <1>1, AttemptsAssumption DEF Calls
      <3> QED
        BY <1>1, <1>2, <3>1, FineCall, AttemptsAssumption
    <2> QED
      BY <1>3, <2>1, OneCall DEF Apply
  <1>4. CASE ~Overtaken(r) /\ TooLarge(store, k, New(r))
    <2>1. Fine(Call("done", r.op, Refused, 0))
      BY <1>1, FineCall, AttemptsAssumption
    <2> QED
      BY <1>4, <2>1, OneCall DEF Apply
  <1>5. CASE ~Overtaken(r) /\ ~TooLarge(store, k, New(r))
    <2> DEFINE s == Call("done", r.op, View(New(r)), 0)
    <2>1. Becomes(c, s) /\ store' = [store EXCEPT ![k] = New(r)]
          /\ revision' = (IF store[k] = New(r) THEN revision ELSE revision + 1)
          /\ dirty' = (dirty \/ store[k] # New(r))
      BY <1>5 DEF Apply, Dirtied
    <2>2. (store \in Fits)'
      BY <1>1, <1>2, <1>5, <2>1, WriteFits, InvByCall
    <2>3. /\ revision' \in Nat /\ revision <= revision'
          /\ revision' = revision => store' = store
      BY <1>1, <2>1, InvByCall, Views DEF Stores
    <2>4. Fine(s)
      BY <1>1, <1>2, FineCall, AttemptsAssumption, Views
    <2>5. \A d \in Callers : call'[d] = IF d = c THEN s ELSE call[d]
      BY <2>1, InvByCall DEF Becomes
    <2>6. \A d \in Callers : Fine(call[d])'
      <3>1. \A d \in Callers : Fine(call[d])
        BY InvByCall
      <3>2. s.st = "done"
        BY DEF Call
      <3> SUFFICES ASSUME NEW d \in Callers PROVE Fine(call[d])'
        OBVIOUS
      <3>3. CASE d = c
        BY <2>4, <2>5, <3>2, <3>3 DEF Fine
      <3>4. CASE d # c
        <4>1. Fine(call[d]) /\ call'[d] = call[d]
          BY <2>5, <3>1, <3>4
        <4>2. call[d].st \in {"asked", "told"} => call[d].stamp \in Nat
          BY <4>1 DEF Fine, Calls
        <4> QED
          BY <2>3, <4>1, <4>2, InvByCall DEF Fine
      <3> QED
        BY <3>3, <3>4
    <2>7. call' = [d \in Callers |-> call'[d]]
      BY <2>1, InvByCall DEF Becomes
    <2>8. CleanIsSaved'
      <3>1. ~dirty' => ~dirty /\ store' = store
        BY <1>1, <2>1, InvByCall, Views DEF Stores
      <3> QED
        BY <3>1, InvByCall DEF CleanIsSaved
    <2>9. (\A d \in cached : d.stamp <= revision /\ (d.stamp = revision => d.copy = store))'
      <3>1. \A d \in cached : d.stamp \in Nat /\ d.stamp <= revision
                              /\ (d.stamp = revision => d.copy = store)
        BY InvByCall
      <3> QED
        BY <2>3, <3>1, InvByCall
    <2>10. dirty' \in BOOLEAN
      BY <2>1
    <2> QED
      BY <2>2, <2>3, <2>6, <2>7, <2>8, <2>9, <2>10, InvFromCalls, InvByCall
  <1> QED
    BY <1>3, <1>4, <1>5

\* The initial states have the invariant.
LEMMA InitInv == Init => IInv
  <1> SUFFICES ASSUME Init PROVE IInv
    OBVIOUS
  <1>1. Idle \in Calls /\ Idle.st = "idle"
    BY CallTypes DEF Idle, Call
  <1>2. TypeOK
    <2>1. cached \in SUBSET [stamp : Nat, copy : Stores] /\ requests \in Seq(Workers)
      BY DEF Init
    <2>2. call \in [Callers -> Calls]
      BY <1>1 DEF Init
    <2> QED
      BY <2>1, <2>2 DEF Init, TypeOK
  <1>3. CopiesCurrent /\ CleanIsSaved /\ WritesOnly
    BY <1>1 DEF Init, CopiesCurrent, CleanIsSaved, WritesOnly
  <1> QED
    BY <1>2, <1>3 DEF IInv

\* A restart goes back to a state like an initial one.
LEMMA RestartInv == IInv /\ Restart => IInv'
  <1> SUFFICES ASSUME IInv, Restart PROVE IInv'
    OBVIOUS
  <1>1. Idle \in Calls /\ Idle.st = "idle"
    BY CallTypes DEF Idle, Call
  <1>2. TypeOK'
    <2>1. (cached \in SUBSET [stamp : Nat, copy : Stores] /\ requests \in Seq(Workers))'
      BY DEF Restart
    <2>2. (call \in [Callers -> Calls])'
      BY <1>1 DEF Restart
    <2>3. file \in Fits
      BY InvByCall
    <2> QED
      BY <2>1, <2>2, <2>3 DEF Restart, TypeOK
  <1>3. (CopiesCurrent /\ CleanIsSaved /\ WritesOnly)'
    BY <1>1 DEF Restart, CopiesCurrent, CleanIsSaved, WritesOnly
  <1> QED
    BY <1>2, <1>3 DEF IInv

\* The steps of a caller.
LEMMA CallerInv ==
    ASSUME IInv, NEW c \in Callers
    PROVE  /\ \A o \in Op : Invoke(c, o) => IInv'
           /\ Return(c) => IInv'
           /\ Ask(c) => IInv'
           /\ Send(c) => IInv'
  <1>1. /\ Fine(call[c]) /\ call[c] \in Calls /\ call[c].op \in Op
        /\ revision \in Nat /\ requests \in Seq(Workers)
    BY InvByCall DEF Fine, Calls
  <1>2. ASSUME NEW o \in Op, Invoke(c, o) PROVE IInv'
    <2>1. o.value \in Stored /\ o.kind \in {"get", "set", "mutate"}
      BY DEF Op, Stored
    <2>2. Fine(Call(IF o.kind = "set" THEN "ready" ELSE "begun", o, o.value, 0))
      BY <2>1, FineCall, AttemptsAssumption
    <2> QED
      BY <1>1, <1>2, <2>2, OneCall DEF Invoke
  <1>3. ASSUME Return(c) PROVE IInv'
    <2>1. Fine(Idle)
      BY CallTypes, FineCall, AttemptsAssumption DEF Idle, Stored
    <2> QED
      BY <1>1, <1>3, <2>1, OneCall DEF Return
  <1>4. ASSUME Ask(c) PROVE IInv'
    <2>1. 0 \in Nat /\ 0 <= revision
      BY <1>1
    <2>2. Fine([Call("asked", call[c].op, None, 0) EXCEPT !.stamp = 0])
      BY <1>1, <2>1, FineRead
    <2>3. Call("asked", call[c].op, None, 0) = [Call("asked", call[c].op, None, 0) EXCEPT !.stamp = 0]
      BY <1>1, <2>1, FineRead
    <2>4. Fine(Call("asked", call[c].op, None, 0))
      BY <2>2, <2>3
    <2> QED
      BY <1>1, <1>4, <2>4, OneCall DEF Ask
  <1>5. ASSUME Send(c) PROVE IInv'
    <2>1. Fine(Call("sent", call[c].op, call[c].seen, call[c].tries))
      BY <1>1, <1>5, FineCall DEF Send, Fine, Calls
    <2>2. requests' \in Seq(Workers)
      BY <1>1, <1>5 DEF Send
    <2> QED
      BY <1>5, <2>1, <2>2, OneCall DEF Send
  <1> QED
    BY <1>2, <1>3, <1>4, <1>5

\* The steps of a handler with the copy of the store.
LEMMA HandlerInv ==
    ASSUME IInv, NEW w \in Workers
    PROVE  Look(w) \/ Receive(w) => IInv'
  <1> DEFINE o == call[w].op
  <1>1. /\ w \in Callers /\ Fine(call[w]) /\ call[w] \in Calls /\ o \in Op /\ o.key \in Keys
        /\ revision \in Nat /\ requests \in Seq(Workers)
    BY InvByCall DEF Fine, Calls, Callers, Op
  <1>2. ASSUME NEW r \in cached, Becomes(w, Given(o, r.copy[o.key])), UNCHANGED requests,
               UNCHANGED <<store, revision, dirty, file, cached, phase>>
        PROVE  IInv'
    <2>1. r.copy[o.key] \in Stored
      BY <1>1, InvByCall, Views
    <2> QED
      BY <1>1, <1>2, <2>1, FineGiven, OneCall
  <1>3. ASSUME call[w].st = "begun", requests' = Append(requests, w),
               Becomes(w, [Call("asked", o, None, 0) EXCEPT !.stamp = revision]),
               UNCHANGED <<store, revision, dirty, file, cached, phase>>
        PROVE  IInv'
    <2>1. Fine([Call("asked", o, None, 0) EXCEPT !.stamp = revision])
      BY <1>1, FineRead
    <2> QED
      BY <1>1, <1>3, <2>1, OneCall
  <1>4. ASSUME Receive(w) PROVE IInv'
    <2> DEFINE r == [stamp |-> call[w].stamp, copy |-> call[w].copy]
    <2> DEFINE g == Given(o, call[w].copy[o.key])
    <2>1. /\ cached' = {r} /\ Becomes(w, g) /\ call[w].st = "told"
          /\ UNCHANGED <<store, revision, dirty, file, requests, phase>>
      BY <1>4 DEF Receive, StampOf
    <2>2. r \in [stamp : Nat, copy : Stores] /\ call[w].copy[o.key] \in Stored
      BY <1>1, Views DEF Calls
    <2>3. r.stamp <= revision /\ (r.stamp = revision => r.copy = store)
      BY <1>1, <2>1 DEF Fine
    <2>4. Fine(g)
      BY <1>1, <2>2, FineGiven
    <2>5. \A d \in Callers : call'[d] = IF d = w THEN g ELSE call[d]
      BY <2>1, InvByCall DEF Becomes
    <2>6. \A d \in Callers : Fine(call[d])
      BY InvByCall
    <2>7. \A d \in Callers : Fine(call[d])'
      BY <2>1, <2>4, <2>5, <2>6 DEF Fine
    <2>8. call' = [d \in Callers |-> call'[d]] /\ CleanIsSaved'
      BY <2>1, InvByCall DEF Becomes, CleanIsSaved
    <2> QED
      BY <2>1, <2>2, <2>3, <2>7, <2>8, InvFromCalls, InvByCall
  <1> QED
    BY <1>2, <1>3, <1>4 DEF Look, Current

\* The steps of the main thread.
LEMMA FrameInv ==
    ASSUME IInv
    PROVE  /\ Frame => IInv'
           /\ \A c \in Clients : Handle(c) => IInv'
  <1>1. /\ store \in Fits /\ store \in Stores /\ revision \in Nat /\ requests \in Seq(Workers)
        /\ \A c \in Callers : Fine(call[c]) /\ call[c] \in Calls /\ call[c].op \in Op
    BY InvByCall, Views DEF Fine, Calls
  <1>2. ASSUME Serve PROVE IInv'
    <2> DEFINE w == Head(requests)
    <2>1. w \in Callers /\ requests' \in Seq(Workers)
      BY <1>1, <1>2 DEF Serve, Left, Callers
    <2>2. CASE call[w].st = "asked"
      <3>1. Fine([call[w] EXCEPT !.st = "told", !.copy = store])
        BY <1>1, <2>1, <2>2 DEF Fine, Calls
      <3> QED
        BY <1>2, <2>1, <2>2, <3>1, OneCall DEF Serve
    <2>3. CASE call[w].st = "sent"
      BY <1>2, <2>1, <2>3, ApplyInv DEF Serve
    <2> QED
      BY <1>2, <2>2, <2>3 DEF Serve
  <1>3. ASSUME EndServe PROVE IInv'
    BY <1>3, InvByCall DEF EndServe, IInv, TypeOK, CopiesCurrent, CleanIsSaved, WritesOnly
  <1>4. ASSUME Update PROVE IInv'
    BY <1>4, InvByCall DEF Update, IInv, TypeOK, CopiesCurrent, CleanIsSaved, WritesOnly
  <1>5. ASSUME NEW c \in Clients, Handle(c) PROVE IInv'
    <2>1. c \in Callers
      BY DEF Callers
    <2>2. CASE call[c].st = "asked"
      <3> DEFINE o == call[c].op
      <3>1. View(store[o.key]) \in Stored
        BY <1>1, <2>1, Views DEF Op
      <3>2. Fine(Given(o, View(store[o.key])))
        BY <1>1, <2>1, <3>1, FineGiven
      <3> QED
        BY <1>1, <1>5, <2>1, <2>2, <3>2, OneCall DEF Handle
    <2>3. CASE call[c].st = "sent"
      BY <1>1, <1>5, <2>1, <2>3, ApplyInv DEF Handle
    <2> QED
      BY <1>5, <2>2, <2>3 DEF Handle
  <1> QED
    BY <1>2, <1>3, <1>4, <1>5 DEF Frame

\* Every step keeps the invariant.
LEMMA StepInv == IInv /\ [Next]_vars => IInv'
  <1> SUFFICES ASSUME IInv, [Next]_vars PROVE IInv'
    OBVIOUS
  <1>1. CASE Frame \/ \E c \in Clients : Handle(c)
    BY <1>1, FrameInv
  <1>2. CASE \E w \in Workers : Look(w) \/ Receive(w)
    BY <1>2, HandlerInv
  <1>3. CASE \E c \in Callers : Ask(c) \/ Send(c) \/ Return(c) \/ \E o \in Op : Invoke(c, o)
    BY <1>3, CallerInv
  <1>4. CASE Restart
    BY <1>4, RestartInv
  <1>5. CASE UNCHANGED vars
    BY <1>5 DEF vars, IInv, TypeOK, CopiesCurrent, CleanIsSaved, WritesOnly
  <1> QED
    BY <1>1, <1>2, <1>3, <1>4, <1>5 DEF Next, Work, Callers

\* The inductive invariant holds in every reachable state.
THEOREM StoreInvariance == Spec => []IInv
  BY InitInv, StepInv, PTL DEF Spec

\* The variables keep their types, and the store never outgrows its limit
\* (check_capacity tries a write on a copy).
THEOREM StoreTypeCorrect == Spec => []TypeOK
  <1>1. IInv => TypeOK
    BY DEF IInv
  <1> QED
    BY <1>1, StoreInvariance, PTL

\* A copy with the present revision is the store, so a cached read is never
\* stale (DispatchWorld::script_state takes the stamp before it asks).
THEOREM CopiesNeverStale == Spec => []CopiesCurrent
  <1>1. IInv => CopiesCurrent
    BY DEF IInv
  <1> QED
    BY <1>1, StoreInvariance, PTL

\* What is not marked to be saved is saved.
THEOREM CleanStoreSaved == Spec => []CleanIsSaved
  <1>1. IInv => CleanIsSaved
    BY DEF IInv
  <1> QED
    BY <1>1, StoreInvariance, PTL

------------------------------------------------------------------------------
(* The store keeps its promise *)

\* The promise is about the same callers and calls.
LEMMA SameCalls ==
    Promise!Callers = Callers /\ Promise!Op = Op /\ Promise!Seen = Seen
  BY DEF Promise!Callers, Callers, Promise!Op, Op, Promise!Seen, Seen, Promise!Stored, Stored

\* The calls as the promise sees them.
Promised == [c \in Callers |-> PromisedCall(call[c])]

\* Where a call is decides how the promise sees it.
LEMMA PromisedSteps ==
    ASSUME NEW r
    PROVE  /\ r.st = "idle" => PromisedCall(r) = Promise!NoCall
           /\ r.st = "done" => PromisedCall(r) = Promise!Done(r.op, r.seen)
           /\ r.st \in {"begun", "asked", "ready", "sent"} => PromisedCall(r) = Promise!Busy(r.op)
           /\ r.st = "told" /\ r.op.kind = "get" =>
                 PromisedCall(r) = Promise!Done(r.op, View(r.copy[r.op.key]))
           /\ r.st = "told" /\ r.op.kind # "get" => PromisedCall(r) = Promise!Busy(r.op)
  BY DEF PromisedCall, Promise!NoCall, Promise!Done, Promise!Busy

\* What is given to a call is seen as an answer to a get, and not yet as one to
\* another call.
LEMMA PromisedGiven ==
    ASSUME NEW o, NEW v
    PROVE  /\ o.kind = "get" => PromisedCall(Given(o, v)) = Promise!Done(o, View(v))
           /\ o.kind # "get" => PromisedCall(Given(o, v)) = Promise!Busy(o)
  BY PromisedSteps DEF Given, Call

\* A step of one caller is a step of that caller in the promise.
LEMMA PromisedBecomes ==
    ASSUME IInv, NEW c \in Callers, NEW r, Becomes(c, r)
    PROVE  /\ Promised[c] = PromisedCall(call[c])
           /\ Promised' = [Promised EXCEPT ![c] = PromisedCall(r)]
           /\ PromisedCall(r) = Promised[c] => Promised' = Promised
  <1>1. \A d \in Callers : call'[d] = IF d = c THEN r ELSE call[d]
    BY InvByCall DEF Becomes
  <1> QED
    BY <1>1 DEF Promised

\* One that the promise does not see.
LEMMA Unseen ==
    ASSUME IInv, NEW c \in Callers, NEW r, Becomes(c, r), PromisedCall(r) = PromisedCall(call[c]),
           UNCHANGED <<store, file>>
    PROVE  UNCHANGED Promise!vars
  BY PromisedBecomes DEF Promise!vars, Promised

\* One that answers a get with what is in the store.
LEMMA AnswersGet ==
    ASSUME IInv, NEW c \in Callers, NEW r, Becomes(c, r), UNCHANGED <<store, file>>,
           call[c].op.kind = "get", PromisedCall(call[c]) = Promise!Busy(call[c].op),
           PromisedCall(r) = Promise!Done(call[c].op, View(store[call[c].op.key]))
    PROVE  Promise!Next
  <1> DEFINE o == call[c].op
  <1>1. o \in Op
    BY InvByCall DEF Calls
  <1>2. Promise!Answer(c, o, View(store[o.key]))
    BY PromisedBecomes DEF Promise!Answer, Promised
  <1>3. Promise!Get(c, o)
    BY <1>2 DEF Promise!Get, Promise!View, View
  <1> QED
    BY <1>1, <1>3, SameCalls DEF Promise!Next

\* apply is a Put, a Fail, or not seen.
LEMMA ApplyPromised ==
    ASSUME IInv, NEW c \in Callers, call[c].st = "sent", Apply(c), UNCHANGED file
    PROVE  [Promise!Next]_(Promise!vars)
  <1> DEFINE r == call[c]
  <1> DEFINE o == r.op
  <1> DEFINE k == r.op.key
  <1>1. r \in Calls /\ o \in Op /\ o.kind # "get" /\ o.kind \in {"set", "mutate"}
    BY InvByCall DEF Fine, Calls, Op
  <1>2. PromisedCall(r) = Promise!Busy(o)
    BY PromisedSteps
  <1>3. CASE Overtaken(r) /\ r.tries + 1 < Attempts
    <2> DEFINE s == Call("ready", o, store[k], r.tries + 1)
    <2>1. Becomes(c, s) /\ UNCHANGED store
      BY <1>3 DEF Apply
    <2>2. s.st = "ready" /\ s.op = o
      BY DEF Call
    <2>3. PromisedCall(s) = PromisedCall(r)
      BY <1>2, <2>2, PromisedSteps
    <2> QED
      BY <2>1, <2>3, Unseen
  <1>4. ASSUME Becomes(c, Call("done", o, Refused, 0)), UNCHANGED store,
               o.kind = "set" => TooLarge(store, k, o.value)
        PROVE  Promise!Next
    <2>1. PromisedCall(Call("done", o, Refused, 0)) = Promise!Done(o, Refused)
      BY PromisedSteps DEF Call
    <2>2. Promise!Answer(c, o, Refused)
      BY <1>2, <1>4, <2>1, PromisedBecomes DEF Promise!Answer, Promised
    <2>3. Promise!Fail(c, o)
      BY <1>1, <1>4, <2>2 DEF Promise!Fail, Promise!TooLarge, TooLarge
    <2> QED
      BY <1>1, <2>3, SameCalls DEF Promise!Next
  <1>5. CASE Overtaken(r) /\ ~(r.tries + 1 < Attempts)
    BY <1>4, <1>5 DEF Apply, Overtaken
  <1>6. CASE ~Overtaken(r) /\ TooLarge(store, k, New(r))
    BY <1>4, <1>6 DEF Apply, New
  <1>7. CASE ~Overtaken(r) /\ ~TooLarge(store, k, New(r))
    <2> DEFINE s == Call("done", o, View(New(r)), 0)
    <2>1. Becomes(c, s) /\ store' = [store EXCEPT ![k] = New(r)]
      BY <1>7 DEF Apply
    <2>2. New(r) = Promise!Outcome(o)
      BY <1>1, <1>7 DEF New, Overtaken, Promise!Outcome, Promise!View, View
    <2>3. PromisedCall(s) = Promise!Done(o, View(New(r)))
      BY PromisedSteps DEF Call
    <2>4. Promise!Answer(c, o, Promise!View(Promise!Outcome(o)))
      BY <1>2, <2>1, <2>2, <2>3, PromisedBecomes DEF Promise!Answer, Promised, Promise!View, View
    <2>5. Promise!Put(c, o)
      BY <1>1, <1>7, <2>1, <2>2, <2>4 DEF Promise!Put, Promise!TooLarge, TooLarge
    <2> QED
      BY <1>1, <2>5, SameCalls DEF Promise!Next
  <1> QED
    BY <1>3, <1>5, <1>6, <1>7

\* The steps of a caller are calls, returns, or not seen.
LEMMA CallerPromised ==
    ASSUME IInv, NEW c \in Callers
    PROVE  /\ \A o \in Op : Invoke(c, o) => Promise!Next
           /\ Return(c) => Promise!Next
           /\ Ask(c) \/ Send(c) => UNCHANGED Promise!vars
  <1>1. Fine(call[c])
    BY InvByCall
  <1>2. ASSUME NEW o \in Op, Invoke(c, o) PROVE Promise!Next
    <2> DEFINE r == Call(IF o.kind = "set" THEN "ready" ELSE "begun", o, o.value, 0)
    <2>1. PromisedCall(call[c]) = Promise!NoCall /\ PromisedCall(r) = Promise!Busy(o)
      BY <1>2, PromisedSteps DEF Invoke, Call
    <2>2. Promise!Invoke(c, o)
      BY <1>2, <2>1, PromisedBecomes DEF Invoke, Promise!Invoke, Promised
    <2> QED
      BY <2>2, SameCalls DEF Promise!Next
  <1>3. ASSUME Return(c) PROVE Promise!Next
    <2> DEFINE o == call[c].op
    <2> DEFINE v == call[c].seen
    <2>1. o \in Op /\ v \in Seen \cup {Refused}
      BY <1>1, <1>3 DEF Return, Fine, Calls
    <2>2. PromisedCall(call[c]) = Promise!Done(o, v) /\ PromisedCall(Idle) = Promise!NoCall
      BY <1>3, PromisedSteps DEF Return, Idle, Call
    <2>3. Promise!Return(c, o, v)
      BY <1>3, <2>2, PromisedBecomes DEF Return, Promise!Return, Promised
    <2> QED
      BY <2>1, <2>3, SameCalls DEF Promise!Next
  <1>4. ASSUME Ask(c) PROVE UNCHANGED Promise!vars
    <2> DEFINE r == Call("asked", call[c].op, None, 0)
    <2>1. PromisedCall(r) = PromisedCall(call[c])
      BY <1>4, PromisedSteps DEF Ask, Call
    <2> QED
      BY <1>4, <2>1, Unseen DEF Ask
  <1>5. ASSUME Send(c) PROVE UNCHANGED Promise!vars
    <2> DEFINE r == Call("sent", call[c].op, call[c].seen, call[c].tries)
    <2>1. PromisedCall(r) = PromisedCall(call[c])
      BY <1>5, PromisedSteps DEF Send, Call
    <2> QED
      BY <1>5, <2>1, Unseen DEF Send
  <1> QED
    BY <1>2, <1>3, <1>4, <1>5

\* A handler that reads its copy answers a get, for the copy is the store; one
\* that asks, or receives, is not seen.
LEMMA HandlerPromised ==
    ASSUME IInv, NEW w \in Workers
    PROVE  Look(w) \/ Receive(w) => [Promise!Next]_(Promise!vars)
  <1> DEFINE o == call[w].op
  <1>1. w \in Callers
    BY DEF Callers
  <1>2. ASSUME NEW r \in cached, Current(r), call[w].st = "begun",
               Becomes(w, Given(o, r.copy[o.key])), UNCHANGED <<store, file>>
        PROVE  [Promise!Next]_(Promise!vars)
    <2>1. r.copy = store
      BY <1>2, InvByCall DEF Current
    <2>2. PromisedCall(call[w]) = Promise!Busy(o)
      BY <1>2, PromisedSteps
    <2>3. CASE o.kind = "get"
      BY <1>1, <1>2, <2>1, <2>2, <2>3, PromisedGiven, AnswersGet
    <2>4. CASE o.kind # "get"
      BY <1>1, <1>2, <2>2, <2>4, PromisedGiven, Unseen
    <2> QED
      BY <2>3, <2>4
  <1>3. ASSUME call[w].st = "begun", UNCHANGED <<store, file>>,
               Becomes(w, [Call("asked", o, None, 0) EXCEPT !.stamp = revision])
        PROVE  UNCHANGED Promise!vars
    <2> DEFINE r == [Call("asked", o, None, 0) EXCEPT !.stamp = revision]
    <2>1. r.st = "asked" /\ r.op = o
      BY DEF Call
    <2>2. PromisedCall(r) = PromisedCall(call[w])
      BY <1>3, <2>1, PromisedSteps
    <2> QED
      BY <1>1, <1>3, <2>2, Unseen
  <1>4. ASSUME Receive(w) PROVE UNCHANGED Promise!vars
    <2> DEFINE r == Given(o, call[w].copy[o.key])
    <2>1. PromisedCall(r) = PromisedCall(call[w])
      BY <1>4, PromisedSteps, PromisedGiven DEF Receive
    <2> QED
      BY <1>1, <1>4, <2>1, Unseen DEF Receive
  <1> QED
    BY <1>2, <1>3, <1>4 DEF Look

\* The steps of the main thread are answers, saves, or not seen.
LEMMA FramePromised ==
    ASSUME IInv
    PROVE  /\ Frame => [Promise!Next]_(Promise!vars)
           /\ \A c \in Clients : Handle(c) => [Promise!Next]_(Promise!vars)
  <1>1. ASSUME Serve PROVE [Promise!Next]_(Promise!vars)
    <2> DEFINE w == Head(requests)
    <2> DEFINE r == [call[w] EXCEPT !.st = "told", !.copy = store]
    <2>1. w \in Callers
      BY <1>1, InvByCall DEF Serve, Callers
    <2>2. CASE call[w].st = "asked"
      <3>1. Becomes(w, r) /\ UNCHANGED <<store, file>>
        BY <1>1, <2>2 DEF Serve
      <3>2. r.st = "told" /\ r.op = call[w].op /\ r.copy = store
        BY <2>1, InvByCall DEF Calls
      <3>3. PromisedCall(call[w]) = Promise!Busy(call[w].op)
        BY <2>2, PromisedSteps
      <3>4. CASE call[w].op.kind = "get"
        <4>1. PromisedCall(r) = Promise!Done(call[w].op, View(store[call[w].op.key]))
          BY <3>2, <3>4, PromisedSteps
        <4> QED
          BY <2>1, <3>1, <3>3, <3>4, <4>1, AnswersGet
      <3>5. CASE call[w].op.kind # "get"
        <4>1. PromisedCall(r) = PromisedCall(call[w])
          BY <3>2, <3>3, <3>5, PromisedSteps
        <4> QED
          BY <2>1, <3>1, <4>1, Unseen
      <3> QED
        BY <3>4, <3>5
    <2>3. CASE call[w].st = "sent"
      BY <1>1, <2>1, <2>3, ApplyPromised DEF Serve
    <2> QED
      BY <1>1, <2>2, <2>3 DEF Serve
  <1>2. ASSUME EndServe PROVE UNCHANGED Promise!vars
    BY <1>2 DEF EndServe, Promise!vars
  <1>3. ASSUME Update PROVE [Promise!Next]_(Promise!vars)
    <2>1. CASE file' = store
      BY <1>3, <2>1 DEF Update, Promise!Next, Promise!Save
    <2>2. CASE UNCHANGED file
      BY <1>3, <2>2 DEF Update, Promise!vars
    <2> QED
      BY <1>3, <2>1, <2>2 DEF Update
  <1>4. ASSUME NEW c \in Clients, Handle(c) PROVE [Promise!Next]_(Promise!vars)
    <2> DEFINE o == call[c].op
    <2>1. c \in Callers
      BY DEF Callers
    <2>2. CASE call[c].st = "asked"
      <3>1. Becomes(c, Given(o, View(store[o.key]))) /\ UNCHANGED <<store, file>>
        BY <1>4, <2>2 DEF Handle
      <3>2. PromisedCall(call[c]) = Promise!Busy(o)
        BY <2>2, PromisedSteps
      <3>3. View(View(store[o.key])) = View(store[o.key])
        BY ValuesAssumption DEF View
      <3>4. CASE o.kind = "get"
        BY <2>1, <3>1, <3>2, <3>3, <3>4, PromisedGiven, AnswersGet
      <3>5. CASE o.kind # "get"
        BY <2>1, <3>1, <3>2, <3>5, PromisedGiven, Unseen
      <3> QED
        BY <3>4, <3>5
    <2>3. CASE call[c].st = "sent"
      BY <1>4, <2>1, <2>3, ApplyPromised DEF Handle
    <2> QED
      BY <1>4, <2>2, <2>3 DEF Handle
  <1> QED
    BY <1>1, <1>2, <1>3, <1>4 DEF Frame

\* A restart is a restart.
LEMMA RestartPromised == Restart => Promise!Next
  <1> SUFFICES ASSUME Restart PROVE Promise!Next
    OBVIOUS
  <1>1. PromisedCall(Idle) = Promise!NoCall
    BY PromisedSteps DEF Idle, Call
  <1>2. Promised' = [c \in Callers |-> Promise!NoCall]
    BY <1>1 DEF Restart, Promised
  <1> QED
    BY <1>2, SameCalls DEF Restart, Promised, Promise!Next, Promise!Restart

\* Every get, set and mutate takes effect at one moment between its call and its
\* return, or not at all: the store implements the atomic one.
THEOREM PromiseKept == Spec => KeepsPromise
  <1>1. Init => Promise!Init
    <2> SUFFICES ASSUME Init PROVE Promise!Init
      OBVIOUS
    <2>1. PromisedCall(Idle) = Promise!NoCall
      BY PromisedSteps DEF Idle, Call
    <2> QED
      BY <2>1, SameCalls DEF Init, Promise!Init
  <1>2. IInv /\ [Next]_vars => [Promise!Next]_(Promise!vars)
    <2> SUFFICES ASSUME IInv, [Next]_vars PROVE [Promise!Next]_(Promise!vars)
      OBVIOUS
    <2>1. CASE Frame \/ \E c \in Clients : Handle(c)
      BY <2>1, FramePromised
    <2>2. CASE \E w \in Workers : Look(w) \/ Receive(w)
      BY <2>2, HandlerPromised
    <2>3. CASE \E c \in Callers : Ask(c) \/ Send(c) \/ Return(c) \/ \E o \in Op : Invoke(c, o)
      BY <2>3, CallerPromised
    <2>4. CASE Restart
      BY <2>4, RestartPromised
    <2>5. CASE UNCHANGED vars
      BY <2>5 DEF vars, Promise!vars
    <2> QED
      BY <2>1, <2>2, <2>3, <2>4, <2>5 DEF Next, Work, Callers
  <1> QED
    BY <1>1, <1>2, StoreInvariance, PTL DEF Spec, KeepsPromise, Promise!Spec

===============================================================================
