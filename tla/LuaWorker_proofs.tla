---------------------------- MODULE LuaWorker_proofs ----------------------------
(***************************************************************************)
(* Theorems about LuaWorker for any scripts, events, chords, handlers and  *)
(* bounds.                                                                 *)
(***************************************************************************)
EXTENDS LuaWorker, FiniteSetTheorems, SequenceTheorems, TLAPS

\* What the queues, channels and tasks hold.
Steps == {"spawned", "string", "unbound", "reading", "joined", "woken", "failed", "queued",
          "executing", "ended", "dropped"}
TaskRecord == [gen : Nat, chord : Nat, pc : Steps, on : Reads,
               answer : {"none", "ok", "failed"}, issued : Nat]
Queueable == Nat \X Nat
Effect == [kind : {"command"}, command : Queueable] \cup [kind : {"config"}]
Pressed == [id : Nat, gen : Nat]
Message == [kind : {"events"}, event : Events]
           \cup [kind : {"binds"}, presses : Seq(Pressed)]
           \cup [kind : {"reload", "shutdown"}]

\* The runtimes: the newest one is the one whose chords are published, and the
\* one that runs new work but while a reload is under way.
RuntimesOK ==
  /\ disk \in Scripts \cup {Broken}
  /\ loaded \in Seq(Scripts) /\ loaded # <<>>
  /\ current \in DOMAIN loaded /\ keybinds = Len(loaded)
  /\ worker \in {"idle", "announcing", "committing", "stuck", "done"}
  /\ worker \notin {"announcing", "committing"} => current = Len(loaded)

\* The tasks, each of a runtime that was built.
TasksOK ==
  /\ tasks \in Seq(TaskRecord)
  /\ \A t \in DOMAIN tasks : tasks[t].gen \in DOMAIN loaded

\* The channels and the outboxes.
ChannelsOK ==
  /\ outbox \in Seq(Seq(Queueable)) /\ Len(outbox) = Len(loaded)
  /\ toMain \in Seq(Effect)
  /\ toLua \in Seq(Message) /\ pressed \in Seq(Pressed)

\* A chord that is on its way was published by a runtime that is there.
ChordsKnown ==
  /\ \A i \in DOMAIN pressed : pressed[i].gen <= keybinds
  /\ \A i \in DOMAIN toLua : toLua[i].kind = "binds" =>
       \A j \in DOMAIN toLua[i].presses : toLua[i].presses[j].gen <= keybinds

LuaTypes == RuntimesOK /\ TasksOK /\ ChannelsOK
ChordInv == LuaTypes /\ ChordsKnown /\ BindsNotOlder

-----------------------------------------------------------------------------
(* Types *)

\* A task that goes on keeps its runtime and its chord.
LEMMA TaskGoesOn ==
  ASSUME TasksOK, NEW t \in DOMAIN tasks, UNCHANGED loaded,
         NEW r \in TaskRecord, r.gen = tasks[t].gen, r.chord = tasks[t].chord,
         tasks' = [tasks EXCEPT ![t] = r]
  PROVE  /\ TasksOK' /\ DOMAIN tasks' = DOMAIN tasks
         /\ \A u \in DOMAIN tasks : /\ tasks'[u].gen = tasks[u].gen
                                    /\ tasks'[u].chord = tasks[u].chord
  BY DEF TasksOK

\* A read leaves the task at a step of the reads.
LEMMA GetType ==
  ASSUME TasksOK, NEW t \in DOMAIN tasks, UNCHANGED loaded,
         NEW k \in Reads, NEW r \in TaskRecord, r.gen = tasks[t].gen, r.chord = tasks[t].chord,
         Get(t, k, r)
  PROVE  /\ TasksOK' /\ DOMAIN tasks' = DOMAIN tasks
         /\ \A u \in DOMAIN tasks : /\ tasks'[u].gen = tasks[u].gen
                                    /\ tasks'[u].chord = tasks[u].chord
  <1>1. \E pc \in Steps : tasks' = [tasks EXCEPT ![t] = [r EXCEPT !.on = k, !.pc = pc]]
    BY DEF Get, Steps
  <1>2. PICK q \in TaskRecord : /\ tasks' = [tasks EXCEPT ![t] = q]
                                /\ q.gen = tasks[t].gen /\ q.chord = tasks[t].chord
    BY <1>1 DEF TaskRecord
  <1> QED
    BY <1>2, TaskGoesOn

\* A task that ends, and has queued n more commands.
LEMMA EndedType ==
  ASSUME NEW r \in TaskRecord, NEW n \in Nat
  PROVE  Ended(r, n) \in TaskRecord /\ Ended(r, n).gen = r.gen /\ Ended(r, n).chord = r.chord
  <1>1. r.issued + n \in Nat
    BY DEF TaskRecord
  <1>2. Ended(r, n) = [r EXCEPT !.pc = "ended", !.on = "set", !.issued = r.issued + n]
    BY DEF Ended, TaskRecord
  <1> QED
    BY <1>1, <1>2 DEF TaskRecord, Steps, Reads

\* The end of a dispatch sends the outbox of its runtime.
LEMMA FinishType ==
  ASSUME LuaTypes, NEW t \in DOMAIN tasks, NEW queued \in Seq(Queueable), Finish(t, queued)
  PROVE  /\ LuaTypes' /\ DOMAIN tasks' = DOMAIN tasks
         /\ \A u \in DOMAIN tasks : /\ tasks'[u].gen = tasks[u].gen
                                    /\ tasks'[u].chord = tasks[u].chord
         /\ \E sent \in Seq(Queueable) :
              toMain' = toMain \o [i \in DOMAIN sent |-> CommandEffect(sent[i])]
  <1> DEFINE g == tasks[t].gen
             sent == outbox[g] \o queued
             effects == [i \in DOMAIN sent |-> CommandEffect(sent[i])]
  <1>1. g \in DOMAIN outbox /\ outbox[g] \in Seq(Queueable) /\ sent \in Seq(Queueable)
    BY DEF LuaTypes, TasksOK, ChannelsOK, RuntimesOK
  <1>2. toMain' = toMain \o effects /\ outbox' = [outbox EXCEPT ![g] = <<>>]
    BY <1>1 DEF Finish, Own, Effects, LuaTypes, ChannelsOK
  <1>3. \A c \in Queueable : CommandEffect(c) \in Effect
    BY DEF CommandEffect, Effect
  <1>4. effects \in Seq(Effect)
    BY <1>1, <1>3
  <1>5. ChannelsOK'
    <2>1. outbox' \in Seq(Seq(Queueable)) /\ Len(outbox') = Len(outbox)
      BY <1>1, <1>2 DEF LuaTypes, ChannelsOK
    <2>2. UNCHANGED <<toLua, pressed, loaded>>
      BY DEF Finish, main, runtimes
    <2> QED
      BY <1>2, <1>4, <2>1, <2>2 DEF LuaTypes, ChannelsOK
  <1>6. Len(queued) \in Nat
    OBVIOUS
  <1>7. \E r \in TaskRecord : /\ r.gen = tasks[t].gen /\ r.chord = tasks[t].chord
                              /\ tasks' = [tasks EXCEPT ![t] = r]
    <2> DEFINE r == Ended(tasks[t], Len(queued))
    <2>1. tasks[t] \in TaskRecord
      BY DEF LuaTypes, TasksOK
    <2>2. r \in TaskRecord /\ r.gen = tasks[t].gen /\ r.chord = tasks[t].chord
      BY <1>6, <2>1, EndedType
    <2>3. tasks' = [tasks EXCEPT ![t] = r]
      BY DEF Finish
    <2> QED
      BY <2>2, <2>3
  <1>8. UNCHANGED <<loaded, disk, current, keybinds, worker>>
    BY DEF Finish, runtimes
  <1> QED
    BY <1>1, <1>2, <1>5, <1>7, <1>8, TaskGoesOn DEF LuaTypes, RuntimesOK

\* Steps that only move tasks on.
LEMMA ChordsKept ==
  ASSUME ChordInv, LuaTypes', UNCHANGED <<keybinds, pressed, toLua>>,
         DOMAIN tasks' = DOMAIN tasks,
         \A u \in DOMAIN tasks : /\ tasks'[u].gen = tasks[u].gen
                                 /\ tasks'[u].chord = tasks[u].chord
  PROVE  ChordInv'
  BY DEF ChordInv, ChordsKnown, BindsNotOlder

\* What a handler queues is numbered.
LEMMA QueuedType ==
  ASSUME TasksOK, NEW t \in DOMAIN tasks, NEW n \in Left(t)
  PROVE  Queued(t, n) \in Seq(Queueable) /\ n \in Nat
  <1>1. tasks[t] \in TaskRecord /\ t \in Nat
    BY DEF TasksOK
  <1>2. tasks[t].issued \in Nat
    BY <1>1 DEF TaskRecord
  <1>3. n \in Nat
    BY <1>2, LuaAssumption DEF Left
  <1> QED
    BY <1>1, <1>2, <1>3 DEF Queued, Queueable

\* The answer of a read is taken.
Awake(r, pc) == [r EXCEPT !.pc = pc, !.answer = "none"]
LEMMA WokenType ==
  ASSUME NEW r \in TaskRecord, NEW pc \in {"woken", "failed"}
  PROVE  /\ Awake(r, pc) \in TaskRecord /\ Awake(r, pc).gen = r.gen /\ Awake(r, pc).chord = r.chord
         /\ Awake(r, pc).pc = pc /\ Awake(r, pc).answer = "none"
  BY DEF Awake, TaskRecord, Steps

\* A task runs on to its next await, or ends.
LEMMA StepChords ==
  ASSUME ChordInv, NEW t \in DOMAIN tasks, Step(t)
  PROVE  ChordInv'
  <1> USE DEF ChordInv, LuaTypes
  <1>1. tasks[t] \in TaskRecord /\ t \in Nat
    BY DEF TasksOK
  <1>2. CASE Start(t)
    <2>1. UNCHANGED <<main, toLua, toMain, shared, runtimes, outbox>> /\ Get(t, "set", tasks[t])
      BY <1>2 DEF Start
    <2>2. RuntimesOK' /\ ChannelsOK' /\ UNCHANGED <<keybinds, pressed, toLua, loaded>>
      BY <2>1 DEF RuntimesOK, ChannelsOK, main, shared, runtimes
    <2> QED
      BY <1>1, <2>1, <2>2, GetType, ChordsKept DEF Reads
  <1>3. CASE Deliver(t)
    <2>1. UNCHANGED <<main, toLua, toMain, shared, runtimes, outbox>>
      BY <1>3 DEF Deliver
    <2>2. RuntimesOK' /\ ChannelsOK' /\ UNCHANGED <<keybinds, pressed, toLua, loaded>>
      BY <2>1 DEF RuntimesOK, ChannelsOK, main, shared, runtimes
    <2>3. \A u \in DOMAIN tasks : \A pc \in {"woken", "failed"} :
             /\ Awake(tasks[u], pc) \in TaskRecord /\ Awake(tasks[u], pc).gen = tasks[u].gen
             /\ Awake(tasks[u], pc).chord = tasks[u].chord
      BY WokenType DEF TasksOK
    <2>4. \E pc \in {"woken", "failed"} : \E W :
             tasks' = [u \in DOMAIN tasks |-> IF u \in W THEN Awake(tasks[u], pc) ELSE tasks[u]]
      BY <1>3 DEF Deliver, Awake
    <2>5. /\ TasksOK' /\ DOMAIN tasks' = DOMAIN tasks
          /\ \A u \in DOMAIN tasks : /\ tasks'[u].gen = tasks[u].gen
                                     /\ tasks'[u].chord = tasks[u].chord
      BY <2>2, <2>3, <2>4 DEF TasksOK
    <2> QED
      BY <2>2, <2>5, ChordsKept
  <1>4. CASE \E queued \in Seq(Queueable) : Finish(t, queued)
    <2>1. UNCHANGED <<keybinds, pressed, toLua>>
      BY <1>4 DEF Finish, main
    <2> QED
      BY <1>4, <2>1, FinishType, ChordsKept
  <1>5. CASE RunString(t) \/ NoHandler(t) \/ Abort(t)
    <2>1. <<<<t, 1>>>> \in Seq(Queueable) /\ <<>> \in Seq(Queueable)
      BY <1>1 DEF Queueable
    <2> QED
      BY <1>4, <1>5, <2>1 DEF RunString, NoHandler, Abort
  <1>6. CASE Return(t)
    BY <1>4, <1>6, QueuedType DEF Return
  <1>7. CASE Query(t)
    <2>1. PICK n \in Left(t) :
             /\ Get(t, "state", [tasks[t] EXCEPT !.issued = @ + n])
             /\ outbox' = [outbox EXCEPT ![tasks[t].gen] = @ \o Queued(t, n)]
      BY <1>7 DEF Query
    <2>2. [tasks[t] EXCEPT !.issued = @ + n] \in TaskRecord
      BY <1>1, QueuedType DEF TaskRecord
    <2>3. UNCHANGED <<main, toLua, toMain, shared, runtimes>>
      BY <1>7 DEF Query
    <2>4. tasks[t].gen \in DOMAIN outbox /\ outbox[tasks[t].gen] \o Queued(t, n) \in Seq(Queueable)
      BY QueuedType DEF TasksOK, ChannelsOK, RuntimesOK
    <2>5. outbox' \in Seq(Seq(Queueable)) /\ Len(outbox') = Len(outbox)
      BY <2>1, <2>4 DEF ChannelsOK
    <2>6. RuntimesOK' /\ ChannelsOK' /\ UNCHANGED <<keybinds, pressed, toLua, loaded>>
      BY <2>3, <2>5 DEF RuntimesOK, ChannelsOK, main, shared, runtimes
    <2> QED
      BY <2>1, <2>2, <2>6, GetType, ChordsKept DEF Reads, TaskRecord
  <1>8. CASE Exec(t)
    <2>1. UNCHANGED <<main, toLua, toMain, shared, runtimes, outbox>>
      BY <1>8 DEF Exec
    <2>2. RuntimesOK' /\ ChannelsOK' /\ UNCHANGED <<keybinds, pressed, toLua, loaded>>
      BY <2>1 DEF RuntimesOK, ChannelsOK, main, shared, runtimes
    <2> DEFINE r == [tasks[t] EXCEPT !.pc = "queued"]
    <2>3. r \in TaskRecord /\ r.gen = tasks[t].gen /\ r.chord = tasks[t].chord
      BY <1>1 DEF TaskRecord, Steps
    <2>4. tasks' = [tasks EXCEPT ![t] = r]
      BY <1>8 DEF Exec
    <2> HIDE DEF r
    <2> QED
      BY <2>2, <2>3, <2>4, TaskGoesOn, ChordsKept
  <1>9. CASE Spin(t)
    BY <1>9 DEF Spin, RuntimesOK, TasksOK, ChannelsOK, ChordsKnown, BindsNotOlder, main, shared,
                 dispatching, Answered, Free
  <1> QED
    BY <1>2, <1>3, <1>5, <1>6, <1>7, <1>8, <1>9 DEF Step

-----------------------------------------------------------------------------
(* The worker *)

\* A press is of a numbered runtime.
LEMMA PressType ==
  ASSUME NEW presses \in Seq(Pressed), NEW j \in DOMAIN presses
  PROVE  presses[j].gen \in Nat
  <1>1. presses[j] \in Pressed
    OBVIOUS
  <1> QED
    BY <1>1 DEF Pressed

\* A message is taken off the queue.
LEMMA TakeTypes ==
  ASSUME ChordInv, toLua # <<>>, toLua' = Tail(toLua), UNCHANGED <<keybinds, pressed>>
  PROVE  /\ Head(toLua) \in Message /\ toLua' \in Seq(Message)
         /\ Head(toLua).kind = "binds" =>
              \A j \in DOMAIN Head(toLua).presses : Head(toLua).presses[j].gen <= keybinds
         /\ ChordsKnown'
  <1>1. toLua \in Seq(Message) /\ ChordsKnown
    BY DEF ChordInv, LuaTypes, ChannelsOK
  <1>2. Head(toLua) = toLua[1] /\ 1 \in DOMAIN toLua /\ toLua' \in Seq(Message)
    BY <1>1
  <1>3. \A i \in DOMAIN toLua' : toLua'[i] = toLua[i + 1] /\ i + 1 \in DOMAIN toLua
    BY <1>1
  <1> QED
    BY <1>1, <1>2, <1>3 DEF ChordsKnown

\* Tasks that start come behind those that are there.
LEMMA TasksBehind ==
  ASSUME tasks \in Seq(TaskRecord), NEW new \in Seq(TaskRecord), tasks' = tasks \o new
  PROVE  /\ tasks' \in Seq(TaskRecord) /\ DOMAIN tasks \subseteq DOMAIN tasks'
         /\ \A t \in DOMAIN tasks : tasks'[t] = tasks[t]
         /\ \A t \in DOMAIN tasks' : t \notin DOMAIN tasks => \E i \in DOMAIN new : tasks'[t] = new[i]
  <1> DEFINE m == Len(tasks)
             n == Len(new)
  <1>1. m \in Nat /\ n \in Nat /\ DOMAIN tasks = 1..m /\ DOMAIN new = 1..n
    OBVIOUS
  <1>2. /\ tasks' \in Seq(TaskRecord) /\ Len(tasks') = m + n
        /\ \A i \in 1..(m + n) : tasks'[i] = IF i <= m THEN tasks[i] ELSE new[i - m]
    BY ConcatProperties
  <1>3. DOMAIN tasks' = 1..(m + n)
    BY <1>2
  <1> HIDE DEF m, n
  <1>4. \A i \in 1..(m + n) : i <= m => i \in 1..m
    BY <1>1
  <1>5. \A i \in 1..(m + n) : ~(i <= m) => i - m \in 1..n
    BY <1>1
  <1>6. \A i \in 1..m : i \in 1..(m + n) /\ i <= m
    BY <1>1
  <1> QED
    BY <1>1, <1>2, <1>3, <1>4, <1>5, <1>6

\* New tasks are of the current runtime, their chords not of a later one.
LEMMA NewTasks ==
  ASSUME ChordInv, NEW new \in Seq(TaskRecord), tasks' = tasks \o new, UNCHANGED loaded,
         \A i \in DOMAIN new : new[i].gen = current /\ new[i].chord <= current
  PROVE  TasksOK' /\ BindsNotOlder'
  <1>1. tasks \in Seq(TaskRecord) /\ current \in DOMAIN loaded
    BY DEF ChordInv, LuaTypes, TasksOK, RuntimesOK
  <1>2. tasks' \in Seq(TaskRecord)
    BY <1>1, TasksBehind
  <1>3. \A t \in DOMAIN tasks' :
           \/ t \in DOMAIN tasks /\ tasks'[t] = tasks[t]
           \/ \E i \in DOMAIN new : tasks'[t] = new[i]
    BY <1>1, TasksBehind
  <1>4. \A i \in DOMAIN new : new[i].gen \in DOMAIN loaded /\ new[i].gen >= new[i].chord
    BY <1>1 DEF TaskRecord
  <1> QED
    BY <1>2, <1>3, <1>4 DEF ChordInv, LuaTypes, TasksOK, BindsNotOlder

LEMMA WorkerChords ==
  ASSUME ChordInv, Worker
  PROVE  ChordInv'
  <1> USE DEF ChordInv
  <1>1. CASE TakeEvents
    <2>0. PICK e \in Observable :
             /\ Take(EventWork(e))
             /\ \E n \in 0..On(Runtime, e) :
                  tasks' = tasks \o [i \in 1..n |-> Task(Latest, 0, "spawned")]
      BY <1>1 DEF TakeEvents
    <2>1. PICK n \in 0..On(Runtime, e) :
             tasks' = tasks \o [i \in 1..n |-> Task(Latest, 0, "spawned")]
      BY <2>0
    <2>2. UNCHANGED <<main, toMain, shared, runtimes, outbox>>
      BY <1>1 DEF TakeEvents
    <2>3. UNCHANGED <<keybinds, pressed, loaded, disk, current, worker>>
      BY <2>2 DEF main, shared, runtimes
    <2>4. toLua' \in Seq(Message) /\ ChordsKnown'
      BY <2>0, <2>3, TakeTypes DEF Take
    <2> DEFINE new == [i \in 1..n |-> Task(Latest, 0, "spawned")]
    <2>5. current \in Nat
      BY DEF LuaTypes, RuntimesOK
    <2>6. Task(Latest, 0, "spawned") \in TaskRecord /\ Task(Latest, 0, "spawned").gen = current
          /\ Task(Latest, 0, "spawned").chord <= current
      BY <2>5 DEF Task, Latest, TaskRecord, Steps, Reads
    <2>7. n \in Nat
      <3>1. Runtime \in Scripts
        BY DEF LuaTypes, RuntimesOK, Runtime
      <3>2. On(Runtime, e) \in Nat
        BY <3>1, LuaAssumption DEF On
      <3> QED
        BY <3>2
    <2>8. new \in Seq(TaskRecord) /\ \A i \in DOMAIN new : new[i].gen = current /\ new[i].chord <= current
      BY <2>6, <2>7
    <2>9. TasksOK' /\ BindsNotOlder'
      <3> HIDE DEF new
      <3> QED
        BY <2>1, <2>3, <2>8, NewTasks DEF new
    <2> QED
      BY <2>2, <2>3, <2>4, <2>9 DEF LuaTypes, RuntimesOK, ChannelsOK
  <1>2. CASE TakeBinds
    <2> DEFINE presses == Head(toLua).presses
               new == [i \in DOMAIN presses |-> Task(Latest, presses[i].gen, Callback(presses[i].id))]
    <2>1. /\ toLua # <<>> /\ toLua' = Tail(toLua) /\ Head(toLua).kind = "binds" /\ Free
          /\ tasks' = tasks \o new
      BY <1>2 DEF TakeBinds, Take
    <2>2. UNCHANGED <<main, toMain, shared, runtimes, outbox>>
      BY <1>2 DEF TakeBinds
    <2>3. UNCHANGED <<keybinds, pressed, loaded, disk, current, worker>>
      BY <2>2 DEF main, shared, runtimes
    <2>4. /\ Head(toLua) \in Message /\ toLua' \in Seq(Message) /\ ChordsKnown'
          /\ \A j \in DOMAIN presses : presses[j].gen <= keybinds
      BY <2>1, <2>3, TakeTypes
    <2>5. presses \in Seq(Pressed)
      BY <2>1, <2>4 DEF Message
    <2>6. current \in Nat /\ keybinds = current
      BY <2>1 DEF LuaTypes, RuntimesOK, Free
    <2>7. \A j \in DOMAIN presses : presses[j] \in Pressed
      BY <2>5
    <2>8. \A j \in DOMAIN presses : /\ new[j] \in TaskRecord /\ new[j].gen = current
                                    /\ new[j].chord <= current
      <3> HIDE DEF presses
      <3> TAKE j \in DOMAIN presses
      <3>1. presses[j].gen \in Nat /\ presses[j].gen <= current
        BY <2>4, <2>6, <2>7 DEF Pressed
      <3>2. Callback(presses[j].id) \in Steps
        BY DEF Callback, Steps
      <3> QED
        BY <2>6, <3>1, <3>2 DEF Task, Latest, TaskRecord, Reads
    <2>9. new \in Seq(TaskRecord) /\ DOMAIN new = DOMAIN presses
      <3>1. \A j \in DOMAIN presses : Task(Latest, presses[j].gen, Callback(presses[j].id)) \in TaskRecord
        BY <2>8
      <3> HIDE DEF presses
      <3> QED
        BY <2>5, <3>1
    <2>10. TasksOK' /\ BindsNotOlder'
      <3> HIDE DEF new
      <3> QED
        BY <2>1, <2>3, <2>8, <2>9, NewTasks
    <2> QED
      BY <2>2, <2>3, <2>4, <2>10 DEF LuaTypes, RuntimesOK, ChannelsOK
  <1>3. CASE TakeBroken
    <2>1. UNCHANGED <<main, toMain, keybinds, runtimes, dispatching>> /\ toLua # <<>> /\ toLua' = Tail(toLua)
      BY <1>3 DEF TakeBroken, Take
    <2>2. toLua' \in Seq(Message) /\ ChordsKnown'
      BY <2>1, TakeTypes DEF main
    <2> QED
      BY <2>1, <2>2 DEF LuaTypes, RuntimesOK, TasksOK, ChannelsOK, BindsNotOlder, main, runtimes,
                        dispatching
  <1>4. CASE TakeReload
    <2>1. toLua # <<>> /\ toLua' = Tail(toLua) /\ Loads(disk)
      BY <1>4 DEF TakeReload, Take
    <2>2. UNCHANGED <<pressed, toMain, disk, current, tasks>>
      BY <1>4 DEF TakeReload, main
    <2>3. /\ loaded' = Append(loaded, disk) /\ outbox' = Append(outbox, <<>>)
          /\ keybinds' = Len(loaded) + 1 /\ worker' = "announcing"
      BY <1>4 DEF TakeReload, Built
    <2>4. loaded \in Seq(Scripts) /\ disk \in Scripts
      BY <2>1 DEF LuaTypes, RuntimesOK, Loads
    <2>5. /\ loaded' \in Seq(Scripts) /\ Len(loaded') = Len(loaded) + 1 /\ loaded' # <<>>
          /\ DOMAIN loaded \subseteq DOMAIN loaded'
      BY <2>3, <2>4
    <2>6. outbox' \in Seq(Seq(Queueable)) /\ Len(outbox') = Len(loaded')
      <3>1. <<>> \in Seq(Queueable)
        OBVIOUS
      <3> QED
        BY <2>3, <2>5, <3>1 DEF LuaTypes, ChannelsOK
    <2>7. toLua' \in Seq(Message)
      BY <2>1 DEF LuaTypes, ChannelsOK
    <2>8. keybinds \in Nat /\ keybinds' = keybinds + 1
      BY <2>3, <2>4 DEF LuaTypes, RuntimesOK
    <2>9. ChordsKnown'
      <3>1. \A i \in DOMAIN toLua' : i + 1 \in DOMAIN toLua /\ toLua'[i] = toLua[i + 1]
        BY <2>1 DEF LuaTypes, ChannelsOK
      <3>2. \A i \in DOMAIN pressed' : pressed'[i].gen <= keybinds'
        <4>1. \A i \in DOMAIN pressed : pressed[i].gen \in Nat /\ pressed[i].gen <= keybinds
          BY PressType DEF LuaTypes, ChannelsOK, ChordsKnown
        <4> QED
          BY <2>2, <2>8, <4>1
      <3>3. ASSUME NEW i \in DOMAIN toLua', toLua'[i].kind = "binds",
                   NEW j \in DOMAIN toLua'[i].presses
            PROVE  toLua'[i].presses[j].gen <= keybinds'
        <4>1. toLua'[i] \in Message
          BY <2>7
        <4>2. toLua'[i].presses \in Seq(Pressed)
          BY <3>3, <4>1 DEF Message
        <4>3. toLua'[i].presses[j].gen \in Nat
          BY <3>3, <4>2, PressType
        <4>4. toLua'[i].presses[j].gen <= keybinds
          BY <3>1, <3>3 DEF ChordsKnown
        <4> QED
          BY <2>8, <4>3, <4>4
      <3> QED
        BY <3>2, <3>3 DEF ChordsKnown
    <2>10. RuntimesOK'
      BY <2>2, <2>3, <2>5 DEF LuaTypes, RuntimesOK
    <2> QED
      BY <2>2, <2>5, <2>6, <2>7, <2>9, <2>10 DEF LuaTypes, TasksOK, ChannelsOK, BindsNotOlder
  <1>5. CASE Announce
    <2>1. UNCHANGED <<main, toLua, shared, disk, loaded, current, dispatching>> /\ worker' = "committing"
          /\ worker = "announcing"
      BY <1>5 DEF Announce
    <2>2. ConfigEffect \in Effect
      BY DEF ConfigEffect, Effect
    <2>3. toMain' \in Seq(Effect)
      BY <1>5, <2>2 DEF Announce, LuaTypes, ChannelsOK
    <2> QED
      BY <2>1, <2>3 DEF LuaTypes, RuntimesOK, TasksOK, ChannelsOK, ChordsKnown, BindsNotOlder, main,
                        shared, dispatching
  <1>6. CASE Commit
    <2>1. UNCHANGED <<main, toLua, toMain, keybinds, disk, loaded, dispatching>> /\ worker' = "idle"
          /\ current' = Len(loaded)
      BY <1>6 DEF Commit
    <2> QED
      BY <2>1 DEF LuaTypes, RuntimesOK, TasksOK, ChannelsOK, ChordsKnown, BindsNotOlder, main,
                        dispatching
  <1>7. CASE TakeStop
    <2>1. UNCHANGED <<main, toMain, shared, disk, loaded, current, outbox>> /\ worker' = "done"
          /\ toLua # <<>> /\ toLua' = Tail(toLua) /\ Free
      BY <1>7 DEF TakeStop, Take
    <2>2. toLua' \in Seq(Message) /\ ChordsKnown'
      BY <2>1, TakeTypes DEF main, shared
    <2>3. tasks' = [t \in DOMAIN tasks |->
                      [tasks[t] EXCEPT !.pc = IF @ = "ended" THEN @ ELSE "dropped"]]
      BY <1>7 DEF TakeStop
    <2>4. \A t \in DOMAIN tasks : /\ tasks'[t] \in TaskRecord /\ tasks'[t].gen = tasks[t].gen
                                  /\ tasks'[t].chord = tasks[t].chord
      <3> TAKE t \in DOMAIN tasks
      <3>1. tasks[t] \in TaskRecord
        BY DEF LuaTypes, TasksOK
      <3>2. \E pc \in Steps : tasks'[t] = [tasks[t] EXCEPT !.pc = pc]
        BY <2>3, <3>1 DEF Steps, TaskRecord
      <3> QED
        BY <3>1, <3>2 DEF TaskRecord
    <2>5. TasksOK' /\ BindsNotOlder'
      <3>1. DOMAIN tasks' = DOMAIN tasks /\ tasks' \in Seq(TaskRecord)
        BY <2>3, <2>4 DEF LuaTypes, TasksOK
      <3> QED
        BY <2>1, <2>4, <3>1 DEF LuaTypes, TasksOK, BindsNotOlder
    <2> QED
      BY <2>1, <2>2, <2>5 DEF LuaTypes, RuntimesOK, ChannelsOK, main, shared, Free
  <1> QED
    BY <1>1, <1>2, <1>3, <1>4, <1>5, <1>6, <1>7 DEF Worker

-----------------------------------------------------------------------------
(* The pool, the user and the main thread *)

\* A task is set to a step of its way.
LEMMA PcType ==
  ASSUME TasksOK, NEW u, NEW pc \in Steps, UNCHANGED loaded,
         tasks' = [tasks EXCEPT ![u].pc = pc]
  PROVE  /\ TasksOK' /\ DOMAIN tasks' = DOMAIN tasks
         /\ \A t \in DOMAIN tasks : /\ tasks'[t].gen = tasks[t].gen
                                    /\ tasks'[t].chord = tasks[t].chord
  <1>1. CASE u \in DOMAIN tasks
    <2>1. tasks[u] \in TaskRecord
      BY <1>1 DEF TasksOK
    <2>2. PICK r : r = [tasks[u] EXCEPT !.pc = pc]
      OBVIOUS
    <2>3. r \in TaskRecord /\ r.gen = tasks[u].gen /\ r.chord = tasks[u].chord
      BY <2>1, <2>2 DEF TaskRecord
    <2>4. tasks' = [tasks EXCEPT ![u] = r]
      BY <2>2
    <2> QED
      BY <1>1, <2>3, <2>4, TaskGoesOn
  <1>2. CASE u \notin DOMAIN tasks
    <2>1. tasks' = tasks
      BY <1>2 DEF TasksOK
    <2> QED
      BY <2>1 DEF TasksOK
  <1> QED
    BY <1>1, <1>2

LEMMA PoolChords ==
  ASSUME ChordInv, Pool
  PROVE  ChordInv'
  <1>1. UNCHANGED <<main, toLua, toMain, shared, runtimes, outbox>>
    BY DEF Pool, TakeJob, EndJob
  <1>2. \E u : \E pc \in Steps : tasks' = [tasks EXCEPT ![u].pc = pc]
    <2>1. "executing" \in Steps /\ "woken" \in Steps
      BY DEF Steps
    <2> QED
      BY <2>1 DEF Pool, TakeJob, EndJob
  <1>3. UNCHANGED <<keybinds, pressed, toLua, loaded>>
    BY <1>1 DEF main, shared, runtimes
  <1>4. /\ TasksOK' /\ DOMAIN tasks' = DOMAIN tasks
        /\ \A t \in DOMAIN tasks : /\ tasks'[t].gen = tasks[t].gen
                                   /\ tasks'[t].chord = tasks[t].chord
    BY <1>2, <1>3, PcType DEF ChordInv, LuaTypes
  <1>5. RuntimesOK' /\ ChannelsOK'
    BY <1>1 DEF ChordInv, LuaTypes, RuntimesOK, ChannelsOK, main, shared, runtimes
  <1> QED
    BY <1>3, <1>4, <1>5, ChordsKept DEF LuaTypes

\* The main thread hands a message to the worker: nothing else of the Lua side
\* changes.
LEMMA SentType ==
  ASSUME ChordInv, NEW message \in Message, toLua' = Append(toLua, message),
         message.kind = "binds" =>
           \A j \in DOMAIN message.presses : message.presses[j].gen <= keybinds,
         pressed' = pressed \/ pressed' = <<>>,
         UNCHANGED <<toMain, shared, disk, loaded, current, worker, tasks, outbox>>
  PROVE  ChordInv'
  <1>1. toLua \in Seq(Message) /\ toLua' \in Seq(Message)
    BY DEF ChordInv, LuaTypes, ChannelsOK
  <1>2. \A i \in DOMAIN toLua' : \/ i \in DOMAIN toLua /\ toLua'[i] = toLua[i]
                                \/ toLua'[i] = message
    BY <1>1
  <1>3. pressed' \in Seq(Pressed) /\ \A i \in DOMAIN pressed' : pressed'[i].gen <= keybinds
    <2>1. pressed \in Seq(Pressed) /\ \A i \in DOMAIN pressed : pressed[i].gen <= keybinds
      BY DEF ChordInv, LuaTypes, ChannelsOK, ChordsKnown
    <2>2. <<>> \in Seq(Pressed) /\ DOMAIN <<>> = {}
      OBVIOUS
    <2> QED
      BY <2>1, <2>2
  <1> QED
    BY <1>1, <1>2, <1>3 DEF ChordInv, LuaTypes, RuntimesOK, TasksOK, ChannelsOK, ChordsKnown,
                            BindsNotOlder, shared

LEMMA UserChords ==
  ASSUME ChordInv, User
  PROVE  ChordInv'
  <1>1. CASE Exit
    <2>1. toLua' = Append(toLua, StopWork) /\ StopWork \in Message /\ StopWork.kind = "shutdown"
      BY <1>1 DEF Exit, StopWork, Message
    <2> QED
      BY <1>1, <2>1, SentType DEF Exit, runtimes, dispatching
  <1>2. ASSUME NEW e \in Events, Observe(e)
        PROVE  ChordInv'
    <2>1. UNCHANGED <<pressed, toMain, shared, disk, loaded, current, worker, tasks, outbox>>
      BY <1>2 DEF Observe, runtimes, dispatching
    <2>2. CASE Forwards(e)
      <3>1. /\ toLua' = Append(toLua, EventWork(e)) /\ EventWork(e) \in Message
            /\ EventWork(e).kind = "events"
        BY <1>2, <2>2 DEF Observe, EventWork, Message
      <3> QED
        BY <2>1, <3>1, SentType
    <2>3. CASE ~Forwards(e)
      <3>1. toLua' = toLua
        BY <1>2, <2>3 DEF Observe
      <3> QED
        BY <2>1, <3>1 DEF ChordInv, LuaTypes, RuntimesOK, TasksOK, ChannelsOK, ChordsKnown,
                          BindsNotOlder, shared
    <2> QED
      BY <2>2, <2>3
  <1>3. ASSUME NEW id \in Chords, Press(id)
        PROVE  ChordInv'
    <2>1. UNCHANGED <<toLua, toMain, shared, disk, loaded, current, worker, tasks, outbox>>
      BY <1>3 DEF Press, runtimes, dispatching
    <2>2. id \in Nat /\ keybinds \in Nat
      <3>1. keybinds \in DOMAIN loaded /\ loaded \in Seq(Scripts)
        BY DEF ChordInv, LuaTypes, RuntimesOK
      <3>2. Binds[loaded[keybinds]] \in Nat
        BY <3>1, LuaAssumption
      <3> QED
        BY <3>1, <3>2 DEF Chords
    <2>3. PICK press \in Pressed : press.gen = keybinds /\ pressed' = Append(pressed, press)
      BY <1>3, <2>2 DEF Press, Pressed
    <2>4. pressed' \in Seq(Pressed) /\ \A i \in DOMAIN pressed' : pressed'[i].gen <= keybinds
      BY <2>2, <2>3 DEF ChordInv, LuaTypes, ChannelsOK, ChordsKnown
    <2> QED
      BY <2>1, <2>4 DEF ChordInv, LuaTypes, RuntimesOK, TasksOK, ChannelsOK, ChordsKnown,
                        BindsNotOlder, shared
  <1>4. ASSUME NEW s \in Scripts \cup {Broken}, Edit(s)
        PROVE  ChordInv'
    <2>1. UNCHANGED <<pressed, toLua, toMain, shared, loaded, current, worker, dispatching>>
          /\ disk' = s
      BY <1>4 DEF Edit
    <2> QED
      BY <2>1 DEF ChordInv, LuaTypes, RuntimesOK, TasksOK, ChannelsOK, ChordsKnown,
                  BindsNotOlder, shared, dispatching
  <1> QED
    BY <1>1, <1>2, <1>3, <1>4 DEF User

LEMMA FrameChords ==
  ASSUME ChordInv, Frame
  PROVE  ChordInv'
  <1>1. CASE Serve
    <2>1. UNCHANGED <<main, toLua, toMain, shared, runtimes, outbox>>
      BY <1>1 DEF Serve
    <2>2. PICK answer \in [Reads -> {"ok", "failed"}] :
             tasks' = [t \in DOMAIN tasks |-> IF t \in ToSet(requests)
                   THEN [tasks[t] EXCEPT !.answer = answer[tasks[t].on]] ELSE tasks[t]]
      BY <1>1 DEF Serve
    <2>3. \A t \in DOMAIN tasks : /\ tasks'[t] \in TaskRecord /\ tasks'[t].gen = tasks[t].gen
                                  /\ tasks'[t].chord = tasks[t].chord
      <3> TAKE t \in DOMAIN tasks
      <3>1. tasks[t] \in TaskRecord
        BY DEF ChordInv, LuaTypes, TasksOK
      <3>2. answer[tasks[t].on] \in {"ok", "failed"}
        BY <3>1 DEF TaskRecord
      <3>3. tasks'[t] = tasks[t] \/ \E a \in {"ok", "failed"} : tasks'[t] = [tasks[t] EXCEPT !.answer = a]
        BY <2>2, <3>2
      <3> QED
        BY <3>1, <3>3 DEF TaskRecord
    <2>4. UNCHANGED <<keybinds, pressed, toLua, loaded>>
      BY <2>1 DEF main, shared, runtimes
    <2>5. TasksOK' /\ DOMAIN tasks' = DOMAIN tasks
      BY <2>2, <2>3, <2>4 DEF ChordInv, LuaTypes, TasksOK
    <2>6. RuntimesOK' /\ ChannelsOK'
      BY <2>1 DEF ChordInv, LuaTypes, RuntimesOK, ChannelsOK, main, shared, runtimes
    <2> QED
      BY <2>3, <2>4, <2>5, <2>6, ChordsKept DEF LuaTypes
  <1>2. CASE Drain
    <2>1. UNCHANGED <<pressed, toLua, shared, runtimes, dispatching>> /\ toMain' = <<>>
      BY <1>2 DEF Drain
    <2> QED
      BY <2>1 DEF ChordInv, LuaTypes, RuntimesOK, TasksOK, ChannelsOK, ChordsKnown,
                  BindsNotOlder, shared, runtimes, dispatching
  <1>3. CASE SendBinds
    <2>1. /\ toLua' = Append(toLua, BindWork(pressed)) /\ pressed' = <<>>
          /\ BindWork(pressed) \in Message /\ BindWork(pressed).presses = pressed
      BY <1>3 DEF SendBinds, BindWork, Message, ChordInv, LuaTypes, ChannelsOK
    <2>2. \A j \in DOMAIN pressed : pressed[j].gen <= keybinds
      BY DEF ChordInv, ChordsKnown
    <2> QED
      BY <1>3, <2>1, <2>2, SentType DEF SendBinds, runtimes, dispatching
  <1>4. CASE SendReload
    <2>1. toLua' = Append(toLua, ReloadWork) /\ ReloadWork \in Message /\ ReloadWork.kind = "reload"
      BY <1>4 DEF SendReload, ReloadWork, Message
    <2> QED
      BY <1>4, <2>1, SentType DEF SendReload, runtimes, dispatching
  <1> QED
    BY <1>1, <1>2, <1>3, <1>4 DEF Frame

-----------------------------------------------------------------------------
(* The theorem *)

LEMMA InitChords == Init => ChordInv
  <1> SUFFICES ASSUME Init PROVE ChordInv
    OBVIOUS
  <1>1. disk \in Scripts \cup {Broken} /\ LoadedFirst(disk) \in Scripts
    BY LuaAssumption DEF Init, LoadedFirst, Loads
  <1>2. /\ loaded = <<LoadedFirst(disk)>> /\ outbox = <<<<>>>> /\ tasks = <<>> /\ pressed = <<>>
        /\ toLua = <<>> /\ toMain = <<>> /\ current = 1 /\ keybinds = 1 /\ worker = "idle"
    BY DEF Init
  <1>3. RuntimesOK
    BY <1>1, <1>2 DEF RuntimesOK
  <1>4. outbox \in Seq(Seq(Queueable)) /\ Len(outbox) = Len(loaded)
    <2>1. <<>> \in Seq(Queueable)
      OBVIOUS
    <2> QED
      BY <1>2, <2>1
  <1> QED
    BY <1>2, <1>3, <1>4 DEF ChordInv, LuaTypes, TasksOK, ChannelsOK, ChordsKnown, BindsNotOlder

LEMMA NextChords == ChordInv /\ [Next]_vars => ChordInv'
  <1> SUFFICES ASSUME ChordInv, [Next]_vars PROVE ChordInv'
    OBVIOUS
  <1>1. CASE Poll \/ Leave \/ UNCHANGED vars
    <2>1. UNCHANGED <<pressed, toLua, toMain, shared, runtimes, dispatching>>
      BY <1>1 DEF Poll, Leave, vars, main
    <2> QED
      BY <2>1 DEF ChordInv, LuaTypes, RuntimesOK, TasksOK, ChannelsOK, ChordsKnown,
                  BindsNotOlder, shared, runtimes, dispatching
  <1> QED
    BY <1>1, StepChords, WorkerChords, PoolChords, UserChords, FrameChords DEF Next, Stop

\* The callback a chord runs is of the runtime that published the chord or of a
\* later one, for any scripts, chords, presses and reloads, and whatever else
\* the handlers do in the meantime.
THEOREM ChordsNotOlder == Spec => []BindsNotOlder
  <1>1. ChordInv => BindsNotOlder
    BY DEF ChordInv
  <1> QED
    BY <1>1, InitChords, NextChords, PTL DEF Spec

-----------------------------------------------------------------------------
(* The configuration *)

\* What is announced is what the newest script with a setup declared; once no
\* announcement is due or under way it is in force.
Announced == worker # "announcing" \/ Setup[Last(loaded)] = NoConfig
ConfigInv ==
  /\ built = Declared
  /\ Declaring # {} => Max(Declaring) \in Declaring
  /\ Announced /\ ConfigEffect \notin ToSet(toMain) => applied = built

LEMMA MaxIs ==
  ASSUME NEW S \in SUBSET Nat, NEW m \in S, \A n \in S : n <= m
  PROVE  Max(S) = m
  <1>1. Max(S) = CHOOSE x \in S : \A y \in S : x >= y
    BY DEF Max
  <1>2. \E x \in S : \A y \in S : x >= y
    OBVIOUS
  <1>3. Max(S) \in S /\ \A y \in S : Max(S) >= y
    BY <1>1, <1>2
  <1>4. Max(S) \in Nat /\ m \in Nat /\ Max(S) <= m /\ Max(S) >= m
    BY <1>3
  <1> QED
    BY <1>4

\* A runtime more.
LEMMA DeclaredAfter ==
  ASSUME loaded \in Seq(Scripts), NEW s \in Scripts, loaded' = Append(loaded, s),
         Declaring # {} => Max(Declaring) \in Declaring
  PROVE  /\ Setup[s] = NoConfig => Declared' = Declared /\ Declaring' = Declaring
         /\ Setup[s] # NoConfig => /\ Declared' = Setup[s]
                                   /\ Declaring' # {} /\ Max(Declaring') \in Declaring'
  <1> DEFINE n == Len(loaded) + 1
  <1>1. /\ DOMAIN loaded' = DOMAIN loaded \cup {n} /\ loaded'[n] = s /\ n \notin DOMAIN loaded
        /\ \A g \in DOMAIN loaded : loaded'[g] = loaded[g] /\ g \in Nat /\ g <= n
        /\ n \in Nat
    OBVIOUS
  <1> HIDE DEF n
  <1>2. CASE Setup[s] = NoConfig
    <2>1. Declaring' = Declaring
      BY <1>1, <1>2 DEF Declaring
    <2>2. Max(Declaring') = Max(Declaring)
      BY <2>1
    <2>3. Declaring # {} => loaded'[Max(Declaring)] = loaded[Max(Declaring)]
      BY <1>1 DEF Declaring
    <2> QED
      BY <1>2, <2>1, <2>2, <2>3 DEF Declared
  <1>3. CASE Setup[s] # NoConfig
    <2>1. Declaring' = Declaring \cup {n}
      BY <1>1, <1>3 DEF Declaring
    <2>2. /\ Declaring' \in SUBSET Nat /\ n \in Declaring'
          /\ \A g \in Declaring' : g <= n
      BY <1>1, <2>1 DEF Declaring
    <2>3. Max(Declaring') = n
      BY <2>2, MaxIs
    <2>4. Declared' = Setup[loaded'[Max(Declaring')]]
      BY <2>2 DEF Declared
    <2> QED
      BY <1>1, <1>3, <2>2, <2>3, <2>4
  <1> QED
    BY <1>2, <1>3

\* Steps that neither build nor announce nor apply.
LEMMA ConfigKept ==
  ASSUME ConfigInv, UNCHANGED <<applied, built, loaded>>,
         worker = "announcing" => worker' = "announcing",
         ConfigEffect \in ToSet(toMain) => ConfigEffect \in ToSet(toMain')
  PROVE  ConfigInv'
  BY DEF ConfigInv, Announced, Declaring, Declared

LEMMA StepConfig ==
  ASSUME ChordInv, ConfigInv, NEW t \in DOMAIN tasks, Step(t)
  PROVE  ConfigInv'
  <1> USE DEF ChordInv
  <1> DEFINE Ends == \E queued \in Seq(Queueable) : Finish(t, queued)
  <1>1. Ends /\ ConfigEffect \in ToSet(toMain) => ConfigEffect \in ToSet(toMain')
    <2> SUFFICES ASSUME NEW queued \in Seq(Queueable), Finish(t, queued),
                        ConfigEffect \in ToSet(toMain)
                 PROVE  ConfigEffect \in ToSet(toMain')
      OBVIOUS
    <2>1. PICK sent \in Seq(Queueable) :
             toMain' = toMain \o [i \in DOMAIN sent |-> CommandEffect(sent[i])]
      BY FinishType
    <2>2. PICK effects \in Seq(Effect) : toMain' = toMain \o effects
      <3>1. \A c \in Queueable : CommandEffect(c) \in Effect
        BY DEF CommandEffect, Effect
      <3>2. [i \in DOMAIN sent |-> CommandEffect(sent[i])] \in Seq(Effect)
        BY <3>1
      <3> QED
        BY <2>1, <3>2
    <2>3. toMain \in Seq(Effect)
      BY DEF LuaTypes, ChannelsOK
    <2>4. PICK i \in DOMAIN toMain : toMain[i] = ConfigEffect
      BY DEF ToSet
    <2>5. i \in DOMAIN toMain' /\ toMain'[i] = ConfigEffect
      BY <2>2, <2>3, <2>4
    <2> QED
      BY <2>5 DEF ToSet
  <1>2. Ends \/ UNCHANGED toMain
    <2>1. <<<<t, 1>>>> \in Seq(Queueable) /\ <<>> \in Seq(Queueable)
      BY DEF Queueable, LuaTypes, TasksOK
    <2>2. \A n \in Left(t) : Queued(t, n) \in Seq(Queueable)
      BY QueuedType DEF LuaTypes
    <2> QED
      BY <2>1, <2>2 DEF Step, Start, Deliver, RunString, NoHandler, Return, Abort, Query, Exec, Spin
  <1>3. UNCHANGED <<applied, built, loaded>> /\ worker = "idle"
    BY DEF Step, Start, Deliver, RunString, NoHandler, Return, Abort, Query, Exec, Spin, Finish,
           main, shared, runtimes, Answered, Free
  <1> HIDE DEF Ends
  <1> QED
    BY <1>1, <1>2, <1>3, ConfigKept

LEMMA WorkerConfig ==
  ASSUME ChordInv, ConfigInv, Worker
  PROVE  ConfigInv'
  <1>1. CASE TakeEvents \/ TakeBinds \/ TakeBroken \/ TakeStop \/ Commit
    <2>1. UNCHANGED <<applied, built, loaded, toMain>>
      BY <1>1 DEF TakeEvents, TakeBinds, TakeBroken, TakeStop, Commit, main, shared, runtimes
    <2>2. worker # "announcing"
      BY <1>1 DEF TakeEvents, TakeBinds, TakeBroken, TakeStop, Commit, Take, Free
    <2> QED
      BY <2>1, <2>2, ConfigKept
  <1>2. CASE TakeReload
    <2>1. /\ loaded' = Append(loaded, disk) /\ disk \in Scripts /\ loaded \in Seq(Scripts)
          /\ worker = "idle" /\ UNCHANGED <<applied, toMain>> /\ worker' = "announcing"
          /\ built' = IF Setup[disk] = NoConfig THEN built ELSE Setup[disk]
      BY <1>2 DEF TakeReload, Take, Free, Loads, main, ChordInv, LuaTypes, RuntimesOK, Published,
                  SetupOf
    <2>2. Last(loaded') = disk
      BY <2>1 DEF Last
    <2>3. CASE Setup[disk] = NoConfig
      <3>1. Declared' = Declared /\ Declaring' = Declaring
        BY <2>1, <2>3, DeclaredAfter DEF ConfigInv
      <3>2. Max(Declaring') = Max(Declaring)
        BY <3>1
      <3> QED
        BY <2>1, <2>3, <3>1, <3>2 DEF ConfigInv, Announced
    <2>4. CASE Setup[disk] # NoConfig
      <3>1. /\ Declared' = Setup[disk]
            /\ Declaring' # {} /\ Max(Declaring') \in Declaring'
        BY <2>1, <2>4, DeclaredAfter DEF ConfigInv
      <3> QED
        BY <2>1, <2>2, <2>4, <3>1 DEF ConfigInv, Announced
    <2> QED
      BY <2>3, <2>4
  <1>3. CASE Announce
    <2>1. /\ UNCHANGED <<applied, built, loaded>> /\ toMain \in Seq(Effect)
          /\ toMain' = IF Setup[Last(loaded)] = NoConfig THEN toMain ELSE Append(toMain, ConfigEffect)
      BY <1>3 DEF Announce, main, shared, SetupOf, ChordInv, LuaTypes, ChannelsOK
    <2>2. UNCHANGED <<Declared, Declaring>>
      BY <2>1 DEF Declared, Declaring
    <2>3. CASE Setup[Last(loaded)] = NoConfig
      BY <2>1, <2>2, <2>3 DEF ConfigInv, Announced
    <2>4. CASE Setup[Last(loaded)] # NoConfig
      <3>1. toMain' = Append(toMain, ConfigEffect)
        BY <2>1, <2>4
      <3>2. Len(toMain) + 1 \in DOMAIN toMain' /\ toMain'[Len(toMain) + 1] = ConfigEffect
        BY <2>1, <3>1
      <3>3. ConfigEffect \in ToSet(toMain')
        BY <3>2 DEF ToSet
      <3> QED
        BY <2>1, <2>2, <3>3 DEF ConfigInv
    <2> QED
      BY <2>3, <2>4
  <1> QED
    BY <1>1, <1>2, <1>3 DEF Worker

LEMMA NextConfig == ChordInv /\ ConfigInv /\ [Next]_vars => ConfigInv'
  <1> SUFFICES ASSUME ChordInv, ConfigInv, [Next]_vars PROVE ConfigInv'
    OBVIOUS
  <1>1. CASE Drain
    <2>1. UNCHANGED <<built, loaded, worker>> /\ toMain' = <<>>
          /\ applied' = IF ConfigEffect \in ToSet(toMain) THEN built ELSE applied
      BY <1>1 DEF Drain, shared, runtimes
    <2>2. UNCHANGED <<Declared, Declaring, Announced>>
      BY <2>1 DEF Declared, Declaring, Announced
    <2> QED
      BY <2>1, <2>2 DEF ConfigInv
  <1>2. CASE Pool \/ User \/ Serve \/ SendBinds \/ SendReload \/ Stop \/ UNCHANGED vars
    <2>1. UNCHANGED <<applied, built, loaded, toMain, worker>>
      BY <1>2 DEF Pool, TakeJob, EndJob, User, Exit, Observe, Press, Edit, Serve, SendBinds,
                  SendReload, Stop, Poll, Leave, vars, main, shared, runtimes
    <2> QED
      BY <2>1, ConfigKept
  <1> QED
    BY <1>1, <1>2, StepConfig, WorkerConfig DEF Next, Frame

LEMMA InitConfig == Init => ConfigInv
  <1> SUFFICES ASSUME Init PROVE ConfigInv
    OBVIOUS
  <1>1. PICK s : loaded = <<s>>
    BY DEF Init
  <1>2. built = Setup[s] /\ applied = built
    BY <1>1 DEF Init, SetupOf
  <1>3. CASE Setup[s] = NoConfig
    <2>1. Declaring = {}
      BY <1>1, <1>3 DEF Declaring
    <2> QED
      BY <1>2, <1>3, <2>1 DEF ConfigInv, Declared
  <1>4. CASE Setup[s] # NoConfig
    <2>1. Declaring = {1}
      BY <1>1, <1>4 DEF Declaring
    <2>2. Max(Declaring) = 1
      BY <2>1, MaxIs
    <2> QED
      BY <1>1, <1>2, <1>4, <2>1, <2>2 DEF ConfigInv, Declared
  <1> QED
    BY <1>3, <1>4

\* Once its announcement is drained, the configuration in force is that of the
\* newest script that declared one, for any scripts and any order of edits,
\* reloads and frames.
THEOREM ConfigurationLands == Spec => []ConfigLands
  <1>1. ConfigInv => ConfigLands
    BY DEF ConfigInv, ConfigLands, Announced
  <1>2. Init => ChordInv /\ ConfigInv
    BY InitChords, InitConfig
  <1>3. ChordInv /\ ConfigInv /\ [Next]_vars => (ChordInv /\ ConfigInv)'
    BY NextChords, NextConfig
  <1> QED
    BY <1>1, <1>2, <1>3, PTL DEF Spec

-----------------------------------------------------------------------------
(* The shared reads *)

\* Whoever waits for a read waits with its one reader, and only a reader has a
\* request under way or an answer to take; until the answer is taken nothing of
\* that kind is cached.
ReadsOK ==
  /\ waiting \in [Reads -> SUBSET Nat] /\ requests \in Seq(Nat)
  /\ \A t \in DOMAIN tasks : tasks[t].pc # "reading" => tasks[t].answer = "none"
  /\ \A t \in ToSet(requests) : t \in DOMAIN tasks /\ tasks[t].pc = "reading"
  /\ \A k \in Reads :
       /\ waiting[k] = Reading(k) \cup Joined(k)
       /\ waiting[k] # {} => k \notin cache /\ \E t : Reading(k) = {t}
       /\ \A t \in Reading(k) : t \in ToSet(requests) <=> tasks[t].answer = "none"

\* A job is of a task that waits for it and for no other.
JobsOK ==
  /\ jobs \in Seq(Nat)
  /\ \A i \in DOMAIN jobs : jobs[i] \in DOMAIN tasks /\ tasks[jobs[i]].pc = "queued"
  /\ \A i, j \in DOMAIN jobs : jobs[i] = jobs[j] => i = j

CacheOK == InFlight = {} => cache = {}

\* The worker that is done has dropped its tasks without a word.
BatchInv == worker # "done" => ReadsOK /\ JobsOK /\ CacheOK

Waits == {"reading", "joined"}
InFlightSteps == {"reading", "joined", "woken", "failed", "queued", "executing"}

LEMMA InFlightIs == InFlight = {t \in DOMAIN tasks : tasks[t].pc \in InFlightSteps}
  BY DEF InFlight, Suspended, InFlightSteps

\* One task changes.
LEMMA OneAfter ==
  ASSUME TasksOK, NEW t \in DOMAIN tasks, NEW r, tasks' = [tasks EXCEPT ![t] = r]
  PROVE  /\ DOMAIN tasks' = DOMAIN tasks /\ tasks'[t] = r
         /\ \A u \in DOMAIN tasks : u # t => tasks'[u] = tasks[u]
         /\ \A k : /\ Reading(k)' = IF r.pc = "reading" /\ r.on = k THEN Reading(k) \cup {t}
                                                                   ELSE Reading(k) \ {t}
                   /\ Joined(k)' = IF r.pc = "joined" /\ r.on = k THEN Joined(k) \cup {t}
                                                                 ELSE Joined(k) \ {t}
  <1>1. /\ DOMAIN tasks' = DOMAIN tasks /\ tasks'[t] = r
        /\ \A u \in DOMAIN tasks : u # t => tasks'[u] = tasks[u]
    BY DEF TasksOK
  <1> QED
    BY <1>1 DEF Reading, Joined

\* A task that waits for no read goes on to a step that is none either.
LEMMA GoesOnReads ==
  ASSUME TasksOK, ReadsOK, NEW t \in DOMAIN tasks, NEW r, tasks' = [tasks EXCEPT ![t] = r],
         tasks[t].pc \notin Waits, r.pc \notin Waits, r.answer = "none",
         UNCHANGED <<waiting, requests>>, cache' \subseteq cache
  PROVE  ReadsOK'
  <1>1. \A k \in Reads : Reading(k)' = Reading(k) /\ Joined(k)' = Joined(k)
    BY OneAfter DEF Waits, Reading, Joined
  <1>2. \A k : t \notin Reading(k)
    BY DEF Waits, Reading
  <1>3. t \notin ToSet(requests)
    BY DEF ReadsOK, Waits
  <1>4. \A k : \A u \in Reading(k) : u \in DOMAIN tasks /\ tasks'[u] = tasks[u]
    BY <1>2, OneAfter DEF Reading
  <1>5. ToSet(requests)' = ToSet(requests)
    OBVIOUS
  <1>6. \A u \in DOMAIN tasks' : tasks'[u].pc # "reading" => tasks'[u].answer = "none"
    BY OneAfter DEF ReadsOK
  <1>7. \A u \in ToSet(requests)' : u \in DOMAIN tasks' /\ tasks'[u].pc = "reading"
    BY <1>3, <1>5, OneAfter DEF ReadsOK
  <1>8. \A k \in Reads : \A u \in Reading(k)' : u \in ToSet(requests)' <=> tasks'[u].answer = "none"
    BY <1>1, <1>4, <1>5 DEF ReadsOK
  <1>9. \A k \in Reads : /\ waiting'[k] = Reading(k)' \cup Joined(k)'
                         /\ waiting'[k] # {} => k \notin cache' /\ \E u : Reading(k)' = {u}
    BY <1>1 DEF ReadsOK
  <1> QED
    BY <1>6, <1>7, <1>8, <1>9 DEF ReadsOK

\* A task asks for a read.
LEMMA GetReads ==
  ASSUME TasksOK, ReadsOK, NEW t \in DOMAIN tasks, NEW r \in TaskRecord, NEW k \in Reads,
         tasks[t].pc \notin Waits, r.answer = "none", Get(t, k, r), UNCHANGED cache
  PROVE  ReadsOK'
  <1>1. CASE /\ tasks' = [tasks EXCEPT ![t] = [r EXCEPT !.on = k, !.pc = "woken"]]
             /\ UNCHANGED <<waiting, requests>>
    <2>1. PICK q : q = [r EXCEPT !.on = k, !.pc = "woken"]
      OBVIOUS
    <2>2. q.pc = "woken" /\ q.answer = "none"
      BY <2>1 DEF TaskRecord
    <2>3. q.pc \notin Waits
      BY <2>2 DEF Waits
    <2> QED
      BY <1>1, <2>1, <2>2, <2>3, GoesOnReads
  <1>2. CASE /\ k \notin cache /\ waiting[k] = {}
             /\ tasks' = [tasks EXCEPT ![t] = [r EXCEPT !.on = k, !.pc = "reading"]]
             /\ waiting' = [waiting EXCEPT ![k] = {t}]
             /\ requests' = Append(requests, t)
    <2>1. PICK q : q = [r EXCEPT !.on = k, !.pc = "reading"]
      OBVIOUS
    <2>2. q.pc = "reading" /\ q.on = k /\ q.answer = "none"
      BY <2>1 DEF TaskRecord
    <2>3. tasks' = [tasks EXCEPT ![t] = q]
      BY <1>2, <2>1
    <2>4. t \in Nat /\ ToSet(requests') = ToSet(requests) \cup {t} /\ requests' \in Seq(Nat)
      <3>1. t \in Nat /\ requests \in Seq(Nat)
        BY DEF TasksOK, ReadsOK
      <3>2. /\ DOMAIN requests' = DOMAIN requests \cup {Len(requests) + 1}
            /\ requests'[Len(requests) + 1] = t
            /\ \A i \in DOMAIN requests : requests'[i] = requests[i]
            /\ requests' \in Seq(Nat)
        BY <1>2, <3>1
      <3> QED
        BY <3>1, <3>2 DEF ToSet
    <2>5. Reading(k)' = {t} /\ Joined(k)' = {}
      <3>1. Reading(k) = {} /\ Joined(k) = {}
        BY <1>2 DEF ReadsOK
      <3>2. /\ Reading(k)' = IF q.pc = "reading" /\ q.on = k THEN Reading(k) \cup {t} ELSE Reading(k) \ {t}
            /\ Joined(k)' = IF q.pc = "joined" /\ q.on = k THEN Joined(k) \cup {t} ELSE Joined(k) \ {t}
        BY <2>3, OneAfter
      <3> QED
        BY <2>2, <3>1, <3>2
    <2>6. \A l \in Reads : l # k => Reading(l)' = Reading(l) /\ Joined(l)' = Joined(l)
      BY <2>2, <2>3, OneAfter DEF Waits, Reading, Joined
    <2>7. \A l : t \notin Reading(l)
      BY DEF Waits, Reading
    <2>8. waiting' \in [Reads -> SUBSET Nat] /\ waiting'[k] = {t}
          /\ \A l \in Reads : l # k => waiting'[l] = waiting[l]
      BY <1>2, <2>4 DEF ReadsOK
    <2>9. \A u \in DOMAIN tasks' : tasks'[u].pc # "reading" => tasks'[u].answer = "none"
      BY <2>2, <2>3, OneAfter DEF ReadsOK
    <2>10. \A u \in ToSet(requests') : u \in DOMAIN tasks' /\ tasks'[u].pc = "reading"
      BY <2>2, <2>3, <2>4, OneAfter DEF ReadsOK
    <2>11. \A l \in Reads : /\ waiting'[l] = Reading(l)' \cup Joined(l)'
                            /\ waiting'[l] # {} => l \notin cache' /\ \E u : Reading(l)' = {u}
      BY <1>2, <2>5, <2>6, <2>8 DEF ReadsOK
    <2>12. \A l \in Reads : \A u \in Reading(l)' : u \in ToSet(requests') <=> tasks'[u].answer = "none"
      <3> TAKE l \in Reads
      <3> TAKE u \in Reading(l)'
      <3>1. CASE l = k
        BY <2>2, <2>3, <2>4, <2>5, <3>1, OneAfter
      <3>2. CASE l # k
        <4>1. u \in Reading(l) /\ u # t
          BY <2>6, <2>7, <3>2
        <4>2. tasks'[u] = tasks[u]
          BY <2>3, <4>1, OneAfter DEF Reading
        <4>3. u \in ToSet(requests) <=> tasks[u].answer = "none"
          BY <4>1 DEF ReadsOK
        <4> QED
          BY <2>4, <4>1, <4>2, <4>3
      <3> QED
        BY <3>1, <3>2
    <2> QED
      BY <2>4, <2>8, <2>9, <2>10, <2>11, <2>12 DEF ReadsOK, ToSet
  <1>3. CASE /\ waiting[k] # {}
             /\ tasks' = [tasks EXCEPT ![t] = [r EXCEPT !.on = k, !.pc = "joined"]]
             /\ waiting' = [waiting EXCEPT ![k] = @ \cup {t}]
             /\ UNCHANGED requests
    <2>1. PICK q : q = [r EXCEPT !.on = k, !.pc = "joined"]
      OBVIOUS
    <2>2. q.pc = "joined" /\ q.on = k /\ q.answer = "none"
      BY <2>1 DEF TaskRecord
    <2>3. tasks' = [tasks EXCEPT ![t] = q]
      BY <1>3, <2>1
    <2>4. \A l : t \notin Reading(l) /\ t \notin Joined(l)
      BY DEF Waits, Reading, Joined
    <2>5. /\ \A l \in Reads : Reading(l)' = Reading(l)
          /\ \A l \in Reads : l # k => Joined(l)' = Joined(l)
          /\ Joined(k)' = Joined(k) \cup {t}
      <3>1. \A l :
              /\ Reading(l)' = IF q.pc = "reading" /\ q.on = l THEN Reading(l) \cup {t} ELSE Reading(l) \ {t}
              /\ Joined(l)' = IF q.pc = "joined" /\ q.on = l THEN Joined(l) \cup {t} ELSE Joined(l) \ {t}
        BY <2>3, OneAfter
      <3> QED
        BY <2>2, <2>4, <3>1
    <2>6. /\ waiting' \in [Reads -> SUBSET Nat] /\ waiting'[k] = waiting[k] \cup {t}
          /\ \A l \in Reads : l # k => waiting'[l] = waiting[l]
      BY <1>3 DEF ReadsOK, TasksOK
    <2>7. t \notin ToSet(requests) /\ ToSet(requests)' = ToSet(requests)
      BY <1>3 DEF ReadsOK, Waits
    <2>8. \A u \in DOMAIN tasks' : tasks'[u].pc # "reading" => tasks'[u].answer = "none"
      BY <2>2, <2>3, OneAfter DEF ReadsOK
    <2>9. \A u \in ToSet(requests)' : u \in DOMAIN tasks' /\ tasks'[u].pc = "reading"
      BY <2>3, <2>7, OneAfter DEF ReadsOK
    <2>10. \A l \in Reads : /\ waiting'[l] = Reading(l)' \cup Joined(l)'
                            /\ waiting'[l] # {} => l \notin cache' /\ \E u : Reading(l)' = {u}
      BY <1>3, <2>5, <2>6 DEF ReadsOK
    <2>11. \A l \in Reads : \A u \in Reading(l)' : u \in ToSet(requests)' <=> tasks'[u].answer = "none"
      <3> TAKE l \in Reads
      <3> TAKE u \in Reading(l)'
      <3>1. u \in Reading(l) /\ u # t
        BY <2>4, <2>5
      <3>2. tasks'[u] = tasks[u]
        BY <2>3, <3>1, OneAfter DEF Reading
      <3> QED
        BY <2>7, <3>1, <3>2 DEF ReadsOK
    <2> QED
      BY <1>3, <2>6, <2>8, <2>9, <2>10, <2>11 DEF ReadsOK
  <1> QED
    BY <1>1, <1>2, <1>3 DEF Get

\* Tasks that do not wait for a job keep those that do in the queue.
LEMMA JobsKept ==
  ASSUME JobsOK, UNCHANGED jobs,
         \A u \in DOMAIN tasks : /\ u \in DOMAIN tasks'
                                 /\ tasks[u].pc = "queued" => tasks'[u].pc = "queued"
  PROVE  JobsOK'
  BY DEF JobsOK

\* The answer of a read of kind k reaches all who wait for it.
LEMMA DeliverReads ==
  ASSUME TasksOK, ReadsOK, JobsOK, NEW t \in DOMAIN tasks, Deliver(t)
  PROVE  ReadsOK' /\ JobsOK' /\ CacheOK'
  <1>1. PICK k \in Reads, answer \in {"none", "ok", "failed"} : k = tasks[t].on /\ answer = tasks[t].answer
    <2>1. tasks[t] \in TaskRecord
      BY DEF TasksOK
    <2>2. tasks[t].on \in Reads /\ tasks[t].answer \in {"none", "ok", "failed"}
      BY <2>1 DEF TaskRecord
    <2> QED
      BY <2>2
  <1>2. /\ tasks[t].pc = "reading" /\ answer # "none"
        /\ UNCHANGED <<requests, jobs>> /\ cache' = Kept(k, answer)
        /\ waiting' = [waiting EXCEPT ![k] = {}]
    BY <1>1 DEF Deliver
  <1> DEFINE pc == IF answer = "ok" THEN "woken" ELSE "failed"
             woken(u) == Awake(tasks[u], pc)
  <1>21. tasks' = [u \in DOMAIN tasks |-> IF u \in waiting[k] THEN woken(u) ELSE tasks[u]]
    BY <1>1 DEF Deliver, Woken, Awake
  <1>22. \A u \in DOMAIN tasks : woken(u).pc = pc /\ woken(u).answer = "none"
    <2> TAKE u \in DOMAIN tasks
    <2>1. tasks[u] \in TaskRecord /\ pc \in {"woken", "failed"}
      BY DEF TasksOK
    <2> HIDE DEF pc
    <2> QED
      BY <2>1, WokenType
  <1>23. pc \in {"woken", "failed"}
    OBVIOUS
  <1> HIDE DEF woken, pc
  <1>3. DOMAIN tasks' = DOMAIN tasks /\ \A u \in DOMAIN tasks : u \notin waiting[k] => tasks'[u] = tasks[u]
    BY <1>21
  <1>4. t \in Reading(k) /\ waiting[k] = Reading(k) \cup Joined(k) /\ Reading(k) = {t}
    <2>1. t \in Reading(k)
      BY <1>1, <1>2 DEF Reading
    <2> QED
      BY <2>1 DEF ReadsOK
  <1>5. \A u \in waiting[k] : /\ u \in DOMAIN tasks /\ tasks[u].on = k /\ tasks[u].pc \in Waits
                              /\ tasks'[u].pc = pc /\ tasks'[u].answer = "none"
    <2> TAKE u \in waiting[k]
    <2>1. u \in DOMAIN tasks /\ tasks[u].on = k /\ tasks[u].pc \in Waits
      BY <1>4 DEF Reading, Joined, Waits
    <2>2. tasks'[u] = woken(u)
      BY <1>21, <2>1
    <2> QED
      BY <1>22, <2>1, <2>2
  <1>6. pc \notin Waits /\ pc \in InFlightSteps /\ pc # "reading" /\ pc # "joined"
    BY <1>23 DEF Waits, InFlightSteps
  <1>7. Reading(k)' = {} /\ Joined(k)' = {}
    <2>1. \A u \in DOMAIN tasks : u \notin waiting[k] => u \notin Reading(k) /\ u \notin Joined(k)
      BY <1>4
    <2> QED
      BY <1>3, <1>5, <1>6, <2>1 DEF Reading, Joined
  <1>8. \A l \in Reads : l # k => Reading(l)' = Reading(l) /\ Joined(l)' = Joined(l)
    BY <1>3, <1>5, <1>6 DEF Reading, Joined
  <1>9. t \notin ToSet(requests)
    BY <1>1, <1>2, <1>4 DEF ReadsOK
  <1>10. \A u \in ToSet(requests) : u \notin waiting[k]
    <2>1. \A u \in ToSet(requests) : u \in DOMAIN tasks /\ tasks[u].pc = "reading"
      BY DEF ReadsOK
    <2>2. \A u \in Joined(k) : tasks[u].pc # "reading"
      BY DEF Joined
    <2> QED
      BY <1>4, <1>9, <2>1, <2>2
  <1>11. ToSet(requests)' = ToSet(requests)
    BY <1>2
  <1>12. ReadsOK'
    <2>1. waiting' \in [Reads -> SUBSET Nat] /\ requests' \in Seq(Nat)
      BY <1>2 DEF ReadsOK
    <2>2. \A u \in DOMAIN tasks' : tasks'[u].pc # "reading" => tasks'[u].answer = "none"
      BY <1>3, <1>5 DEF ReadsOK
    <2>3. \A u \in ToSet(requests)' : u \in DOMAIN tasks' /\ tasks'[u].pc = "reading"
      BY <1>3, <1>10, <1>11 DEF ReadsOK
    <2>4. \A l \in Reads : /\ waiting'[l] = Reading(l)' \cup Joined(l)'
                           /\ waiting'[l] # {} => l \notin cache' /\ \E u : Reading(l)' = {u}
      <3> TAKE l \in Reads
      <3>1. CASE l = k
        BY <1>2, <1>7, <3>1 DEF ReadsOK
      <3>2. CASE l # k
        <4>1. waiting'[l] = waiting[l] /\ (l \in cache' => l \in cache)
          BY <1>2, <3>2 DEF ReadsOK, Kept
        <4> QED
          BY <1>8, <3>2, <4>1 DEF ReadsOK
      <3> QED
        BY <3>1, <3>2
    <2>5. \A l \in Reads : \A u \in Reading(l)' : u \in ToSet(requests)' <=> tasks'[u].answer = "none"
      <3> TAKE l \in Reads
      <3> TAKE u \in Reading(l)'
      <3>1. l # k /\ u \in Reading(l)
        BY <1>7, <1>8
      <3>2. u \in DOMAIN tasks /\ tasks[u].on # k
        BY <3>1 DEF Reading
      <3>3. tasks'[u] = tasks[u]
        BY <1>3, <1>5, <3>2
      <3> QED
        BY <1>11, <3>1, <3>3 DEF ReadsOK
    <2> QED
      BY <2>1, <2>2, <2>3, <2>4, <2>5 DEF ReadsOK
  <1>13. JobsOK'
    BY <1>2, <1>3, <1>5, JobsKept DEF Waits
  <1>14. CacheOK'
    <2>1. t \in DOMAIN tasks' /\ tasks'[t].pc = pc
      BY <1>3, <1>4, <1>5
    <2>2. t \in InFlight'
      BY <1>6, <2>1 DEF InFlight, Suspended, InFlightSteps
    <2> QED
      BY <2>2 DEF CacheOK
  <1> QED
    BY <1>12, <1>13, <1>14

\* The end of a dispatch that waits for nothing.
LEMMA FinishReads ==
  ASSUME TasksOK, ReadsOK, JobsOK, CacheOK, NEW t \in DOMAIN tasks, NEW queued \in Seq(Queueable),
         Finish(t, queued), tasks[t].pc \in {"string", "unbound", "woken", "failed"}
  PROVE  ReadsOK' /\ JobsOK' /\ CacheOK'
  <1> DEFINE r == Ended(tasks[t], Len(queued))
  <1>1. tasks' = [tasks EXCEPT ![t] = r] /\ UNCHANGED <<waiting, requests, jobs>>
        /\ cache' = Released(t)
    BY DEF Finish
  <1>2. r.pc = "ended" /\ r.answer = "none"
    <2>1. tasks[t] \in TaskRecord
      BY DEF TasksOK
    <2>2. tasks[t].answer = "none"
      BY DEF ReadsOK
    <2> QED
      BY <2>1, <2>2 DEF Ended, TaskRecord
  <1> HIDE DEF r
  <1>3. /\ DOMAIN tasks' = DOMAIN tasks /\ tasks'[t] = r
        /\ \A u \in DOMAIN tasks : u # t => tasks'[u] = tasks[u]
    BY <1>1, OneAfter
  <1>4. ReadsOK'
    BY <1>1, <1>2, GoesOnReads DEF Waits, Released
  <1>5. JobsOK'
    BY <1>1, <1>3, JobsKept
  <1>6. CacheOK'
    <2>1. InFlight' = InFlight \ {t}
      BY <1>2, <1>3 DEF InFlight, Suspended
    <2> QED
      BY <1>1, <2>1 DEF CacheOK, Released
  <1> QED
    BY <1>4, <1>5, <1>6

\* Steps that leave the tasks and their reads alone.
LEMMA BatchSame ==
  ASSUME BatchInv, UNCHANGED <<requests, dispatching>>, worker = "done" => worker' = "done"
  PROVE  BatchInv'
  <1>1. UNCHANGED <<requests, tasks, cache, waiting, jobs>>
    BY DEF dispatching
  <1>2. ReadsOK => ReadsOK'
    <2>1. \A k : Reading(k)' = Reading(k) /\ Joined(k)' = Joined(k)
      BY <1>1 DEF Reading, Joined
    <2>2. ToSet(requests)' = ToSet(requests)
      BY <1>1
    <2> QED
      BY <1>1, <2>1, <2>2 DEF ReadsOK
  <1>3. JobsOK => JobsOK'
    BY <1>1 DEF JobsOK
  <1>4. CacheOK => CacheOK'
    BY <1>1 DEF CacheOK, InFlight, Suspended
  <1> QED
    BY <1>2, <1>3, <1>4 DEF BatchInv

LEMMA StepBatch ==
  ASSUME LuaTypes, BatchInv, NEW t \in DOMAIN tasks, Step(t)
  PROVE  BatchInv'
  <1>1. worker = "idle"
    BY DEF Step, Start, Deliver, RunString, NoHandler, Return, Abort, Query, Exec, Spin,
           Answered, Free
  <1>2. TasksOK /\ ReadsOK /\ JobsOK /\ CacheOK
    BY <1>1 DEF BatchInv, LuaTypes
  <1>3. tasks[t] \in TaskRecord /\ t \in Nat
    BY <1>2 DEF TasksOK
  <1>4. ASSUME NEW k \in Reads, NEW r \in TaskRecord, r.answer = "none", Get(t, k, r),
               tasks[t].pc \in {"spawned", "woken"}, UNCHANGED <<cache, jobs>>
        PROVE  BatchInv'
    <2>1. ReadsOK'
      BY <1>2, <1>4, GetReads DEF Waits
    <2>2. PICK q : tasks' = [tasks EXCEPT ![t] = q] /\ q.pc \in {"woken", "reading", "joined"}
      <3>1. PICK pc \in {"woken", "reading", "joined"} :
               tasks' = [tasks EXCEPT ![t] = [r EXCEPT !.on = k, !.pc = pc]]
        BY <1>4 DEF Get
      <3>2. [r EXCEPT !.on = k, !.pc = pc].pc = pc
        BY DEF TaskRecord
      <3> QED
        BY <3>1, <3>2
    <2>3. /\ DOMAIN tasks' = DOMAIN tasks /\ tasks'[t] = q
          /\ \A u \in DOMAIN tasks : u # t => tasks'[u] = tasks[u]
      BY <1>2, <2>2, OneAfter
    <2>4. JobsOK'
      BY <1>2, <1>4, <2>3, JobsKept
    <2>5. t \in InFlight'
      BY <2>2, <2>3 DEF InFlight, Suspended
    <2> QED
      BY <2>1, <2>4, <2>5 DEF BatchInv, CacheOK
  <1>5. CASE Start(t)
    <2>1. tasks[t].answer = "none"
      BY <1>2, <1>5 DEF Start, ReadsOK
    <2> QED
      BY <1>3, <1>4, <1>5, <2>1 DEF Start, Reads
  <1>6. CASE Deliver(t)
    BY <1>2, <1>6, DeliverReads DEF BatchInv
  <1>7. CASE RunString(t) \/ NoHandler(t) \/ Abort(t)
    <2>1. <<<<t, 1>>>> \in Seq(Queueable) /\ <<>> \in Seq(Queueable)
      BY <1>3 DEF Queueable
    <2> QED
      BY <1>2, <1>7, <2>1, FinishReads DEF RunString, NoHandler, Abort, BatchInv
  <1>8. CASE Return(t)
    <2>1. PICK n \in Left(t) : Finish(t, Queued(t, n))
      BY <1>8 DEF Return
    <2>2. Queued(t, n) \in Seq(Queueable)
      BY <1>2, QueuedType
    <2>3. tasks[t].pc = "woken"
      BY <1>8 DEF Return, Answered
    <2> QED
      BY <1>2, <2>1, <2>2, <2>3, FinishReads DEF BatchInv
  <1>9. CASE Query(t)
    <2>1. PICK n \in Left(t) : Get(t, "state", [tasks[t] EXCEPT !.issued = @ + n])
      BY <1>9 DEF Query
    <2>2. n \in Nat
      BY <1>2, QueuedType
    <2>3. PICK r : r = [tasks[t] EXCEPT !.issued = @ + n]
      OBVIOUS
    <2>4. tasks[t].pc = "woken" /\ UNCHANGED <<cache, jobs>>
      BY <1>9 DEF Query, Answered
    <2>5. r \in TaskRecord /\ r.answer = tasks[t].answer
      BY <1>3, <2>2, <2>3 DEF TaskRecord
    <2>6. r.answer = "none"
      BY <1>2, <2>4, <2>5 DEF ReadsOK
    <2> QED
      BY <1>4, <2>1, <2>3, <2>4, <2>5, <2>6 DEF Reads
  <1>10. CASE Exec(t)
    <2>1. PICK r : r = [tasks[t] EXCEPT !.pc = "queued"]
      OBVIOUS
    <2>2. /\ tasks' = [tasks EXCEPT ![t] = r] /\ jobs' = Append(jobs, t)
          /\ UNCHANGED <<requests, cache, waiting>> /\ tasks[t].pc = "woken"
      BY <1>10, <2>1 DEF Exec, Answered
    <2>3. r.pc = "queued" /\ r.answer = "none"
      <3>1. tasks[t].answer = "none"
        BY <1>2, <2>2 DEF ReadsOK
      <3> QED
        BY <1>3, <2>1, <3>1 DEF TaskRecord
    <2>4. /\ DOMAIN tasks' = DOMAIN tasks /\ tasks'[t] = r
          /\ \A u \in DOMAIN tasks : u # t => tasks'[u] = tasks[u]
      BY <1>2, <2>2, OneAfter
    <2>5. ReadsOK'
      BY <1>2, <2>2, <2>3, GoesOnReads DEF Waits
    <2>6. \A i \in DOMAIN jobs : jobs[i] # t
      BY <1>2, <2>2 DEF JobsOK
    <2>7. JobsOK'
      <3>1. /\ jobs' \in Seq(Nat) /\ DOMAIN jobs' = DOMAIN jobs \cup {Len(jobs) + 1}
            /\ jobs'[Len(jobs) + 1] = t /\ \A i \in DOMAIN jobs : jobs'[i] = jobs[i]
        BY <1>2, <1>3, <2>2 DEF JobsOK
      <3> QED
        BY <1>2, <2>3, <2>4, <2>6, <3>1 DEF JobsOK
    <2>8. t \in InFlight'
      BY <2>3, <2>4 DEF InFlight
    <2> QED
      BY <2>5, <2>7, <2>8 DEF BatchInv, CacheOK
  <1>11. CASE Spin(t)
    <2>1. UNCHANGED <<requests, dispatching>>
      BY <1>11 DEF Spin
    <2> QED
      BY <1>1, <2>1, BatchSame
  <1> QED
    BY <1>5, <1>6, <1>7, <1>8, <1>9, <1>10, <1>11 DEF Step

\* Tasks that have not started wait for nothing.
LEMMA NewTasksBatch ==
  ASSUME TasksOK, BatchInv, worker = "idle", NEW new \in Seq(TaskRecord), tasks' = tasks \o new,
         \A i \in DOMAIN new : new[i].pc \in {"spawned", "string", "unbound"}
                               /\ new[i].answer = "none",
         UNCHANGED <<requests, cache, waiting, jobs, worker>>
  PROVE  BatchInv'
  <1>1. ReadsOK /\ JobsOK /\ CacheOK
    BY DEF BatchInv
  <1>2. /\ DOMAIN tasks \subseteq DOMAIN tasks'
        /\ \A t \in DOMAIN tasks : tasks'[t] = tasks[t]
        /\ \A t \in DOMAIN tasks' : t \notin DOMAIN tasks =>
             tasks'[t].pc \in {"spawned", "string", "unbound"} /\ tasks'[t].answer = "none"
    <2>1. tasks \in Seq(TaskRecord)
      BY DEF TasksOK
    <2> QED
      BY <2>1, TasksBehind
  <1>3. \A k : Reading(k)' = Reading(k) /\ Joined(k)' = Joined(k)
    BY <1>2 DEF Reading, Joined
  <1>4. InFlight' = InFlight
    BY <1>2 DEF InFlight, Suspended
  <1>5. ToSet(requests)' = ToSet(requests)
    OBVIOUS
  <1>6. ReadsOK'
    <2>1. \A t \in DOMAIN tasks' : tasks'[t].pc # "reading" => tasks'[t].answer = "none"
      BY <1>1, <1>2 DEF ReadsOK
    <2>2. \A t \in ToSet(requests)' : t \in DOMAIN tasks' /\ tasks'[t].pc = "reading"
      BY <1>1, <1>2, <1>5 DEF ReadsOK
    <2>3. \A k \in Reads : \A t \in Reading(k)' : t \in ToSet(requests)' <=> tasks'[t].answer = "none"
      <3>1. \A k : \A t \in Reading(k) : tasks'[t] = tasks[t]
        BY <1>2 DEF Reading
      <3> QED
        BY <1>1, <1>3, <1>5, <3>1 DEF ReadsOK
    <2>4. \A k \in Reads : /\ waiting'[k] = Reading(k)' \cup Joined(k)'
                           /\ waiting'[k] # {} => k \notin cache' /\ \E t : Reading(k)' = {t}
      BY <1>1, <1>3 DEF ReadsOK
    <2> QED
      BY <1>1, <2>1, <2>2, <2>3, <2>4 DEF ReadsOK
  <1>7. JobsOK'
    BY <1>1, <1>2, JobsKept
  <1> QED
    BY <1>1, <1>4, <1>6, <1>7 DEF BatchInv, CacheOK

LEMMA WorkerBatch ==
  ASSUME ChordInv, BatchInv, Worker
  PROVE  BatchInv'
  <1> USE DEF ChordInv
  <1>1. CASE TakeEvents
    <2>1. UNCHANGED <<requests, cache, waiting, jobs, worker>> /\ worker = "idle"
      BY <1>1 DEF TakeEvents, runtimes, Take, Free
    <2>2. PICK e \in Observable :
             \E n \in 0..On(Runtime, e) :
                tasks' = tasks \o [i \in 1..n |-> Task(Latest, 0, "spawned")]
      BY <1>1 DEF TakeEvents
    <2>3. PICK n \in 0..On(Runtime, e) :
             tasks' = tasks \o [i \in 1..n |-> Task(Latest, 0, "spawned")]
      BY <2>2
    <2>4. PICK r : r = Task(Latest, 0, "spawned")
      OBVIOUS
    <2>5. r \in TaskRecord /\ r.pc = "spawned" /\ r.answer = "none"
      <3>1. current \in Nat
        BY DEF LuaTypes, RuntimesOK
      <3> QED
        BY <2>4, <3>1 DEF Task, Latest, TaskRecord, Steps, Reads
    <2>6. n \in Nat
      <3>1. Runtime \in Scripts
        BY DEF LuaTypes, RuntimesOK, Runtime
      <3>2. On(Runtime, e) \in Nat
        BY <3>1, LuaAssumption DEF On
      <3> QED
        BY <3>2
    <2>7. PICK new \in Seq(TaskRecord) : /\ tasks' = tasks \o new
                                         /\ \A i \in DOMAIN new : new[i] = r
      <3> DEFINE new == [i \in 1..n |-> r]
      <3>1. new \in Seq(TaskRecord) /\ \A i \in DOMAIN new : new[i] = r
        BY <2>5, <2>6
      <3>2. tasks' = tasks \o new
        BY <2>3, <2>4
      <3> HIDE DEF new
      <3> QED
        BY <3>1, <3>2
    <2> QED
      BY <2>1, <2>5, <2>7, NewTasksBatch DEF LuaTypes
  <1>2. CASE TakeBinds
    <2> DEFINE presses == Head(toLua).presses
               new == [i \in DOMAIN presses |-> Task(Latest, presses[i].gen, Callback(presses[i].id))]
    <2>1. /\ toLua # <<>> /\ Head(toLua).kind = "binds" /\ worker = "idle"
          /\ UNCHANGED <<requests, cache, waiting, jobs, worker>>
          /\ tasks' = tasks \o new
      BY <1>2 DEF TakeBinds, Take, Free, runtimes
    <2>2. presses \in Seq(Pressed)
      <3>1. Head(toLua) \in Message
        BY <2>1 DEF LuaTypes, ChannelsOK
      <3> QED
        BY <2>1, <3>1 DEF Message
    <2>3. current \in Nat
      BY DEF LuaTypes, RuntimesOK
    <2>4. \A j \in DOMAIN presses :
             LET r == Task(Latest, presses[j].gen, Callback(presses[j].id))
             IN  r \in TaskRecord /\ r.pc \in {"spawned", "string", "unbound"} /\ r.answer = "none"
      <3> TAKE j \in DOMAIN presses
      <3> HIDE DEF presses
      <3>1. presses[j].gen \in Nat
        BY <2>2, PressType
      <3>2. Callback(presses[j].id) \in {"spawned", "string", "unbound"}
        BY DEF Callback
      <3>3. PICK r : r = Task(Latest, presses[j].gen, Callback(presses[j].id))
        OBVIOUS
      <3>4. r \in TaskRecord /\ r.pc \in {"spawned", "string", "unbound"} /\ r.answer = "none"
        BY <2>3, <3>1, <3>2, <3>3 DEF Task, Latest, TaskRecord, Reads, Steps
      <3> QED
        BY <3>3, <3>4
    <2>5. /\ new \in Seq(TaskRecord)
          /\ \A j \in DOMAIN new : new[j].pc \in {"spawned", "string", "unbound"} /\ new[j].answer = "none"
      <3> HIDE DEF presses
      <3> QED
        BY <2>2, <2>4
    <2> HIDE DEF new
    <2> QED
      BY <2>1, <2>5, NewTasksBatch DEF LuaTypes
  <1>3. CASE TakeBroken \/ TakeReload \/ Announce \/ Commit
    <2>1. UNCHANGED <<requests, tasks, cache, waiting, jobs>> /\ worker # "done"
      BY <1>3 DEF TakeBroken, TakeReload, Announce, Commit, Take, Free, dispatching
    <2>2. ReadsOK /\ JobsOK /\ CacheOK
      BY <2>1 DEF BatchInv
    <2>3. ReadsOK'
      <3>1. \A k : Reading(k)' = Reading(k) /\ Joined(k)' = Joined(k)
        BY <2>1 DEF Reading, Joined
      <3>2. ToSet(requests)' = ToSet(requests)
        BY <2>1
      <3> QED
        BY <2>1, <2>2, <3>1, <3>2 DEF ReadsOK
    <2>4. JobsOK' /\ CacheOK'
      BY <2>1, <2>2 DEF JobsOK, CacheOK, InFlight, Suspended
    <2> QED
      BY <2>3, <2>4 DEF BatchInv
  <1>4. CASE TakeStop
    BY <1>4 DEF TakeStop, BatchInv
  <1> QED
    BY <1>1, <1>2, <1>3, <1>4 DEF Worker

LEMMA RemoveAtIs ==
  ASSUME NEW S, NEW q \in Seq(S), NEW i \in DOMAIN q
  PROVE  /\ RemoveAt(q, i) \in Seq(S) /\ Len(RemoveAt(q, i)) = Len(q) - 1
         /\ \A j \in 1..(Len(q) - 1) : RemoveAt(q, i)[j] = IF j < i THEN q[j] ELSE q[j + 1]
  <1> DEFINE n == Len(q)
             front == SubSeq(q, 1, i - 1)
             back == SubSeq(q, i + 1, n)
  <1>1. n \in Nat /\ i \in 1..n /\ \A j \in 1..n : q[j] \in S
    OBVIOUS
  <1>2. /\ front \in Seq(S) /\ Len(front) = i - 1
        /\ \A j \in 1..(i - 1) : front[j] = q[j]
    <2> HIDE DEF n
    <2> QED
      BY <1>1, SubSeqProperties
  <1>3. /\ back \in Seq(S) /\ Len(back) = n - i
        /\ \A j \in 1..(n - i) : back[j] = q[j + i]
    <2> HIDE DEF n
    <2>1. i + 1 \in Int /\ n \in Int /\ \A j \in (i + 1)..n : q[j] \in S
      BY <1>1
    <2>2. /\ back \in Seq(S) /\ Len(back) = IF i + 1 <= n THEN n - (i + 1) + 1 ELSE 0
          /\ \A j \in 1..(n - (i + 1) + 1) : back[j] = q[(i + 1) + j - 1]
      BY <2>1, SubSeqProperties
    <2>3. n - (i + 1) + 1 = n - i /\ (~(i + 1 <= n) => n - i = 0)
      BY <1>1
    <2>4. \A j \in 1..(n - i) : (i + 1) + j - 1 = j + i
      BY <1>1
    <2> HIDE DEF back
    <2>5. \A j \in 1..(n - i) : back[j] = q[(i + 1) + j - 1]
      BY <2>2, <2>3
    <2>6. \A j \in 1..(n - i) : back[j] = q[j + i]
      BY <2>4, <2>5
    <2> QED
      BY <2>2, <2>3, <2>6
  <1> HIDE DEF n, front, back
  <1>4. /\ front \o back \in Seq(S) /\ Len(front \o back) = Len(front) + Len(back)
        /\ \A j \in 1..(Len(front) + Len(back)) :
             (front \o back)[j] = IF j <= Len(front) THEN front[j] ELSE back[j - Len(front)]
    BY <1>2, <1>3, ConcatProperties
  <1>5. RemoveAt(q, i) = front \o back
    BY DEF RemoveAt, front, back, n
  <1>6. Len(front) + Len(back) = n - 1
    BY <1>1, <1>2, <1>3
  <1>7. ASSUME NEW j \in 1..(n - 1)
        PROVE  (front \o back)[j] = IF j < i THEN q[j] ELSE q[j + 1]
    <2>1. CASE j < i
      <3>1. j \in 1..(i - 1)
        BY <1>1, <2>1
      <3> QED
        BY <1>1, <1>2, <1>4, <1>6, <2>1, <3>1
    <2>2. CASE ~(j < i)
      <3>1. j - (i - 1) \in 1..(n - i) /\ ~(j <= i - 1) /\ (j - (i - 1)) + i = j + 1
        BY <1>1, <2>2
      <3>2. (front \o back)[j] = back[j - (i - 1)]
        BY <1>2, <1>4, <1>6, <3>1
      <3>3. back[j - (i - 1)] = q[(j - (i - 1)) + i]
        BY <1>3, <3>1
      <3> QED
        BY <2>2, <3>1, <3>2, <3>3
    <2> QED
      BY <2>1, <2>2
  <1> QED
    BY <1>4, <1>5, <1>6, <1>7 DEF n

\* A job that a thread takes is the job of one task.
LEMMA TakenJobs ==
  ASSUME JobsOK, NEW i \in DOMAIN jobs, jobs' = RemoveAt(jobs, i),
         DOMAIN tasks' = DOMAIN tasks,
         \A u \in DOMAIN tasks : u # jobs[i] => tasks'[u] = tasks[u]
  PROVE  JobsOK'
  <1>1. jobs \in Seq(Nat) /\ i \in 1..Len(jobs) /\ Len(jobs) \in Nat
    BY DEF JobsOK
  <1>3. /\ jobs' \in Seq(Nat) /\ Len(jobs') = Len(jobs) - 1
        /\ \A j \in 1..(Len(jobs) - 1) : jobs'[j] = IF j < i THEN jobs[j] ELSE jobs[j + 1]
    BY <1>1, RemoveAtIs
  <1>4. \A j \in DOMAIN jobs' : \E n \in DOMAIN jobs :
           n # i /\ n = (IF j < i THEN j ELSE j + 1) /\ jobs'[j] = jobs[n]
    BY <1>1, <1>3
  <1>5. \A j \in DOMAIN jobs' : jobs'[j] # jobs[i]
    BY <1>4 DEF JobsOK
  <1>6. \A j, l \in DOMAIN jobs' : jobs'[j] = jobs'[l] => j = l
    <2> TAKE j, l \in DOMAIN jobs'
    <2>1. j \in Nat /\ l \in Nat
      BY <1>3
    <2> QED
      BY <1>1, <1>4, <2>1 DEF JobsOK
  <1>7. \A j \in DOMAIN jobs' : jobs'[j] \in DOMAIN tasks' /\ tasks'[jobs'[j]].pc = "queued"
    BY <1>4, <1>5 DEF JobsOK
  <1> QED
    BY <1>3, <1>6, <1>7 DEF JobsOK

LEMMA PoolBatch ==
  ASSUME TasksOK, BatchInv, Pool
  PROVE  BatchInv'
  <1>1. ReadsOK /\ JobsOK /\ CacheOK /\ UNCHANGED <<requests, cache, waiting>>
    BY DEF Pool, TakeJob, EndJob, BatchInv
  <1>2. ASSUME NEW u \in DOMAIN tasks, NEW pc \in {"executing", "woken"},
               tasks[u].pc \in {"queued", "executing"}, tasks' = [tasks EXCEPT ![u].pc = pc]
        PROVE  /\ ReadsOK' /\ CacheOK' /\ DOMAIN tasks' = DOMAIN tasks
               /\ \A v \in DOMAIN tasks : v # u => tasks'[v] = tasks[v]
    <2>1. tasks[u] \in TaskRecord /\ tasks[u].answer = "none"
      BY <1>1, <1>2 DEF TasksOK, ReadsOK
    <2>2. PICK r : r = [tasks[u] EXCEPT !.pc = pc]
      OBVIOUS
    <2>3. r.pc = pc /\ r.answer = "none"
      BY <2>1, <2>2 DEF TaskRecord
    <2>4. tasks' = [tasks EXCEPT ![u] = r]
      BY <1>2, <2>2
    <2>5. ReadsOK'
      BY <1>1, <1>2, <2>3, <2>4, GoesOnReads DEF Waits
    <2>6. /\ DOMAIN tasks' = DOMAIN tasks /\ tasks'[u] = r
          /\ \A v \in DOMAIN tasks : v # u => tasks'[v] = tasks[v]
      BY <2>4, OneAfter
    <2>7. u \in InFlight'
      BY <2>3, <2>6 DEF InFlight, Suspended
    <2> QED
      BY <2>5, <2>6, <2>7 DEF CacheOK
  <1>3. CASE TakeJob
    <2>1. PICK i \in DOMAIN jobs : /\ tasks' = [tasks EXCEPT ![jobs[i]].pc = "executing"]
                                   /\ jobs' = RemoveAt(jobs, i)
      BY <1>3 DEF TakeJob
    <2>2. jobs[i] \in DOMAIN tasks /\ tasks[jobs[i]].pc = "queued"
      BY <1>1 DEF JobsOK
    <2>3. /\ ReadsOK' /\ CacheOK' /\ DOMAIN tasks' = DOMAIN tasks
          /\ \A v \in DOMAIN tasks : v # jobs[i] => tasks'[v] = tasks[v]
      BY <1>2, <2>1, <2>2
    <2> QED
      BY <1>1, <2>1, <2>3, TakenJobs DEF BatchInv
  <1>4. ASSUME NEW t \in DOMAIN tasks, EndJob(t)
        PROVE  BatchInv'
    <2>1. /\ tasks[t].pc = "executing" /\ tasks' = [tasks EXCEPT ![t].pc = "woken"]
          /\ UNCHANGED jobs
      BY <1>4 DEF EndJob
    <2>2. /\ ReadsOK' /\ CacheOK' /\ DOMAIN tasks' = DOMAIN tasks
          /\ \A v \in DOMAIN tasks : v # t => tasks'[v] = tasks[v]
      BY <1>2, <2>1
    <2>3. JobsOK'
      BY <1>1, <2>1, <2>2, JobsKept
    <2> QED
      BY <2>2, <2>3 DEF BatchInv
  <1> QED
    BY <1>3, <1>4 DEF Pool

\* Only the tasks with a request get an answer, and they go on waiting for it.
LEMMA ServeBatch ==
  ASSUME TasksOK, BatchInv, Serve, worker # "done"
  PROVE  BatchInv'
  <1>1. ReadsOK /\ JobsOK /\ CacheOK
    BY DEF BatchInv
  <1>2. UNCHANGED <<cache, waiting, jobs>> /\ requests' = <<>> /\ DOMAIN tasks' = DOMAIN tasks
    BY DEF Serve
  <1>3. PICK answer \in [Reads -> {"ok", "failed"}] :
           tasks' = [t \in DOMAIN tasks |-> IF t \in ToSet(requests)
                 THEN [tasks[t] EXCEPT !.answer = answer[tasks[t].on]] ELSE tasks[t]]
    BY DEF Serve
  <1>4. ASSUME NEW t \in DOMAIN tasks
        PROVE  /\ tasks'[t].pc = tasks[t].pc /\ tasks'[t].on = tasks[t].on
               /\ IF t \in ToSet(requests) THEN tasks'[t].answer # "none"
                                           ELSE tasks'[t].answer = tasks[t].answer
    <2>1. tasks[t] \in TaskRecord
      BY <1>4 DEF TasksOK
    <2>2. answer[tasks[t].on] \in {"ok", "failed"}
      BY <2>1 DEF TaskRecord
    <2>3. CASE t \in ToSet(requests)
      <3>1. PICK a \in {"ok", "failed"} : tasks'[t] = [tasks[t] EXCEPT !.answer = a]
        BY <1>3, <2>2, <2>3
      <3> QED
        BY <2>1, <2>3, <3>1 DEF TaskRecord
    <2>4. CASE t \notin ToSet(requests)
      BY <1>3, <2>4
    <2> QED
      BY <2>3, <2>4
  <1>5. \A k : Reading(k)' = Reading(k) /\ Joined(k)' = Joined(k)
    BY <1>2, <1>4 DEF Reading, Joined
  <1>6. InFlight' = InFlight
    BY <1>2, <1>4 DEF InFlight, Suspended
  <1>7. ToSet(requests)' = {} /\ requests' \in Seq(Nat)
    BY <1>2 DEF ToSet
  <1>8. \A t \in DOMAIN tasks' : tasks'[t].pc # "reading" => tasks'[t].answer = "none"
    BY <1>1, <1>2, <1>4 DEF ReadsOK
  <1>9. \A k \in Reads : \A t \in Reading(k)' : tasks'[t].answer # "none"
    <2> TAKE k \in Reads
    <2> TAKE t \in Reading(k)'
    <2>1. t \in Reading(k) /\ t \in DOMAIN tasks
      BY <1>5 DEF Reading
    <2> QED
      BY <1>1, <1>4, <2>1 DEF ReadsOK
  <1>10. ReadsOK'
    BY <1>1, <1>2, <1>5, <1>7, <1>8, <1>9 DEF ReadsOK
  <1>11. JobsOK' /\ CacheOK'
    BY <1>1, <1>2, <1>4, <1>6 DEF JobsOK, CacheOK
  <1> QED
    BY <1>10, <1>11 DEF BatchInv

LEMMA MainBatch ==
  ASSUME TasksOK, BatchInv, User \/ Frame \/ Stop \/ UNCHANGED vars
  PROVE  BatchInv'
  <1>1. CASE Serve
    <2>1. worker' = worker
      BY <1>1 DEF Serve, runtimes
    <2> QED
      BY <1>1, <2>1, ServeBatch DEF BatchInv
  <1>2. CASE ~Serve
    <2>1. UNCHANGED <<requests, dispatching, worker>>
      BY <1>2 DEF User, Exit, Observe, Press, Edit, Frame, Drain, SendBinds, SendReload, Stop,
                  Poll, Leave, vars, runtimes
    <2> QED
      BY <2>1, BatchSame
  <1> QED
    BY <1>1, <1>2

LEMMA InitBatch == Init => BatchInv
  <1> SUFFICES ASSUME Init PROVE BatchInv
    OBVIOUS
  <1>1. /\ tasks = <<>> /\ requests = <<>> /\ jobs = <<>> /\ cache = {}
        /\ waiting = [k \in Reads |-> {}]
    BY DEF Init
  <1>2. \A k : Reading(k) = {} /\ Joined(k) = {}
    BY <1>1 DEF Reading, Joined
  <1>3. ToSet(requests) = {}
    BY <1>1 DEF ToSet
  <1>4. ReadsOK
    BY <1>1, <1>2, <1>3 DEF ReadsOK
  <1> QED
    BY <1>1, <1>4 DEF BatchInv, JobsOK, CacheOK

LEMMA NextBatch == ChordInv /\ BatchInv /\ [Next]_vars => BatchInv'
  <1> SUFFICES ASSUME ChordInv, BatchInv, [Next]_vars PROVE BatchInv'
    OBVIOUS
  <1>1. LuaTypes /\ TasksOK
    BY DEF ChordInv, LuaTypes
  <1> QED
    BY <1>1, StepBatch, WorkerBatch, PoolBatch, MainBatch DEF Next

\* No handler reads what an earlier batch of handlers left behind, and none
\* waits for a read that nobody makes: for any scripts, any number of handlers
\* in flight and any order of reads, answers, jobs and reloads.
THEOREM ReadsAreOfTheBatch == Spec => []BatchReads
  <1>1. BatchInv => BatchReads
    <2> SUFFICES ASSUME BatchInv, worker # "done"
                 PROVE  /\ InFlight = {} => cache = {}
                        /\ \A k \in Reads :
                             /\ waiting[k] = Reading(k) \cup Joined(k)
                             /\ waiting[k] # {} => Cardinality(Reading(k)) = 1 /\ k \notin cache
                             /\ \A t \in Reading(k) : t \in ToSet(requests) <=> tasks[t].answer = "none"
      BY DEF BatchReads
    <2>1. ReadsOK /\ CacheOK
      BY DEF BatchInv
    <2>2. \A k \in Reads : waiting[k] # {} => Cardinality(Reading(k)) = 1
      BY <2>1, FS_Singleton DEF ReadsOK
    <2> QED
      BY <2>1, <2>2 DEF ReadsOK, CacheOK
  <1> QED
    BY <1>1, InitChords, NextChords, InitBatch, NextBatch, PTL DEF Spec

-----------------------------------------------------------------------------
(* The commands of handlers *)

\* What a path to the bus holds of a task that queued n commands.
Whole(t, n, path) ==
  /\ InOrder(t, path)
  /\ {x \in ToSet(path) : From(t, x)} = {CommandEffect(<<t, i>>) : i \in 1..n}

\* What is under way is of a task that is there; what an outbox holds is of a
\* task of its runtime, one of which is yet to drain it.
TrailOK ==
  /\ taken \in Seq(Effect)
  /\ \A x \in ToSet(taken \o toMain) : \A t : From(t, x) => t \in DOMAIN tasks
OutboxOK ==
  /\ \A g \in DOMAIN outbox : \A i \in DOMAIN outbox[g] :
       outbox[g][i][1] \in DOMAIN tasks /\ tasks[outbox[g][i][1]].gen = g
  /\ \A g \in DOMAIN outbox :
       (\A t \in DOMAIN tasks : tasks[t].gen = g => tasks[t].pc = "ended") => outbox[g] = <<>>
Unissued == \A t \in DOMAIN tasks : tasks[t].pc = "string" => tasks[t].issued = 0
CommandInv ==
  /\ TrailOK /\ OutboxOK /\ Unissued
  /\ \A t \in DOMAIN tasks :
       Whole(t, tasks[t].issued, taken \o toMain \o Effects(outbox[tasks[t].gen]))

\* The m commands a task queues behind the first n.
Numbered(t, n, m, queued) ==
  DOMAIN queued = 1..m /\ Len(queued) = m /\ \A i \in 1..m : queued[i] = <<t, n + i>>

LEMMA ToSetConcat ==
  ASSUME NEW S, NEW q \in Seq(S), NEW r \in Seq(S)
  PROVE  q \o r \in Seq(S) /\ ToSet(q \o r) = ToSet(q) \cup ToSet(r)
  <1>1. /\ q \o r \in Seq(S) /\ Len(q \o r) = Len(q) + Len(r)
        /\ \A i \in 1..(Len(q) + Len(r)) :
             (q \o r)[i] = IF i <= Len(q) THEN q[i] ELSE r[i - Len(q)]
    BY ConcatProperties
  <1>2. Len(q) \in Nat /\ Len(r) \in Nat
    OBVIOUS
  <1>3. \A x \in ToSet(q \o r) : x \in ToSet(q) \cup ToSet(r)
    <2> TAKE x \in ToSet(q \o r)
    <2>1. PICK i \in 1..(Len(q) + Len(r)) : x = (q \o r)[i]
      BY <1>1 DEF ToSet
    <2>2. CASE i <= Len(q)
      BY <1>1, <1>2, <2>1, <2>2 DEF ToSet
    <2>3. CASE ~(i <= Len(q))
      <3>1. i - Len(q) \in DOMAIN r
        BY <1>2, <2>3
      <3> QED
        BY <1>1, <2>1, <2>3, <3>1 DEF ToSet
    <2> QED
      BY <2>2, <2>3
  <1>4. \A x \in ToSet(q) : x \in ToSet(q \o r)
    <2> TAKE x \in ToSet(q)
    <2>1. PICK i \in 1..Len(q) : x = q[i]
      BY DEF ToSet
    <2>2. i \in 1..(Len(q) + Len(r))
      BY <1>2
    <2> QED
      BY <1>1, <2>1, <2>2 DEF ToSet
  <1>5. \A x \in ToSet(r) : x \in ToSet(q \o r)
    <2> TAKE x \in ToSet(r)
    <2>1. PICK i \in 1..Len(r) : x = r[i]
      BY DEF ToSet
    <2>2. Len(q) + i \in 1..(Len(q) + Len(r)) /\ ~(Len(q) + i <= Len(q)) /\ (Len(q) + i) - Len(q) = i
      BY <1>2
    <2>3. (q \o r)[Len(q) + i] = r[i]
      BY <1>1, <2>2
    <2> QED
      BY <1>1, <2>1, <2>2, <2>3 DEF ToSet
  <1> QED
    BY <1>1, <1>3, <1>4, <1>5

LEMMA ToSetsConcat == \A q, r \in Seq(Effect) : ToSet(q \o r) = ToSet(q) \cup ToSet(r)
  BY ToSetConcat

\* Of two trails one behind the other, all of the first comes first.
LEMMA InOrderConcat ==
  ASSUME NEW q \in Seq(Effect), NEW r \in Seq(Effect), NEW t
  PROVE  InOrder(t, q \o r) <=>
           /\ InOrder(t, q) /\ InOrder(t, r)
           /\ \A x \in ToSet(q), y \in ToSet(r) :
                From(t, x) /\ From(t, y) => x.command[2] < y.command[2]
  <1> DEFINE m == Len(q)
             n == Len(r)
             p == q \o r
  <1>1. m \in Nat /\ n \in Nat /\ DOMAIN q = 1..m /\ DOMAIN r = 1..n
    OBVIOUS
  <1>2. /\ DOMAIN p = 1..(m + n)
        /\ \A i \in 1..m : i \in DOMAIN p /\ p[i] = q[i]
        /\ \A i \in 1..n : m + i \in DOMAIN p /\ p[m + i] = r[i]
    <2>1. /\ p \in Seq(Effect) /\ Len(p) = m + n
          /\ \A i \in 1..(m + n) : p[i] = IF i <= m THEN q[i] ELSE r[i - m]
      BY ConcatProperties
    <2>2. \A i \in 1..n : m + i \in 1..(m + n) /\ ~(m + i <= m) /\ (m + i) - m = i
      BY <1>1
    <2>3. \A i \in 1..m : i \in 1..(m + n) /\ i <= m
      BY <1>1
    <2>4. DOMAIN p = 1..(m + n)
      BY <2>1
    <2> HIDE DEF m, n, p
    <2>5. \A i \in 1..n : p[m + i] = r[(m + i) - m]
      BY <2>1, <2>2
    <2> QED
      BY <2>1, <2>2, <2>3, <2>4, <2>5
  <1> HIDE DEF m, n, p
  <1>3. ASSUME InOrder(t, p)
        PROVE  /\ InOrder(t, q) /\ InOrder(t, r)
               /\ \A x \in ToSet(q), y \in ToSet(r) :
                    From(t, x) /\ From(t, y) => x.command[2] < y.command[2]
    <2>1. InOrder(t, q)
      BY <1>1, <1>2, <1>3 DEF InOrder
    <2>2. InOrder(t, r)
      <3> SUFFICES ASSUME NEW i \in DOMAIN r, NEW j \in DOMAIN r, i < j, From(t, r[i]), From(t, r[j])
                   PROVE  r[i].command[2] < r[j].command[2]
        BY DEF InOrder
      <3>1. m + i < m + j
        BY <1>1
      <3>2. /\ m + i \in DOMAIN p /\ p[m + i] = r[i]
            /\ m + j \in DOMAIN p /\ p[m + j] = r[j]
        BY <1>1, <1>2
      <3> QED
        BY <1>3, <3>1, <3>2 DEF InOrder
    <2>3. ASSUME NEW x \in ToSet(q), NEW y \in ToSet(r), From(t, x), From(t, y)
          PROVE  x.command[2] < y.command[2]
      <3>1. PICK i \in 1..m : x = q[i]
        BY <1>1 DEF ToSet
      <3>2. PICK j \in 1..n : y = r[j]
        BY <1>1 DEF ToSet
      <3>3. i < m + j
        BY <1>1
      <3>4. i \in DOMAIN p /\ m + j \in DOMAIN p /\ p[i] = x /\ p[m + j] = y
        BY <1>2, <3>1, <3>2
      <3> QED
        BY <1>3, <2>3, <3>3, <3>4 DEF InOrder
    <2> QED
      BY <2>1, <2>2, <2>3
  <1>4. ASSUME InOrder(t, q), InOrder(t, r),
               \A x \in ToSet(q), y \in ToSet(r) :
                 From(t, x) /\ From(t, y) => x.command[2] < y.command[2]
        PROVE  InOrder(t, p)
    <2> SUFFICES ASSUME NEW i \in DOMAIN p, NEW j \in DOMAIN p, i < j, From(t, p[i]), From(t, p[j])
                 PROVE  p[i].command[2] < p[j].command[2]
      BY DEF InOrder
    <2>1. i \in 1..(m + n) /\ j \in 1..(m + n)
      BY <1>2
    <2>2. CASE j <= m
      <3>1. i \in 1..m /\ j \in 1..m
        BY <1>1, <2>1, <2>2
      <3> QED
        BY <1>1, <1>2, <1>4, <3>1 DEF InOrder
    <2>3. CASE i <= m /\ ~(j <= m)
      <3>1. i \in 1..m /\ j - m \in 1..n /\ m + (j - m) = j
        BY <1>1, <2>1, <2>3
      <3>2. p[i] = q[i] /\ p[j] = r[j - m]
        BY <1>2, <3>1
      <3>3. q[i] \in ToSet(q) /\ r[j - m] \in ToSet(r)
        BY <1>1, <3>1 DEF ToSet
      <3> QED
        BY <1>4, <3>2, <3>3
    <2>4. CASE ~(i <= m)
      <3>1. /\ i - m \in 1..n /\ j - m \in 1..n /\ i - m < j - m
            /\ m + (i - m) = i /\ m + (j - m) = j
        BY <1>1, <2>1, <2>4
      <3>2. p[i] = r[i - m] /\ p[j] = r[j - m]
        BY <1>2, <3>1
      <3> QED
        BY <1>1, <1>4, <3>1, <3>2 DEF InOrder
    <2> QED
      BY <2>2, <2>3, <2>4
  <1> QED
    BY <1>3, <1>4 DEF p

LEMMA EffectsIs ==
  ASSUME NEW q \in Seq(Queueable)
  PROVE  /\ Effects(q) \in Seq(Effect) /\ Len(Effects(q)) = Len(q)
         /\ ToSet(Effects(q)) = {CommandEffect(q[i]) : i \in DOMAIN q}
         /\ \A i \in DOMAIN q : Effects(q)[i] = CommandEffect(q[i])
  <1>1. \A c \in Queueable : CommandEffect(c) \in Effect
    BY DEF CommandEffect, Effect
  <1> QED
    BY <1>1 DEF Effects, ToSet

LEMMA EffectsConcat ==
  ASSUME NEW q \in Seq(Queueable), NEW r \in Seq(Queueable)
  PROVE  Effects(q \o r) = Effects(q) \o Effects(r)
  <1>1. /\ q \o r \in Seq(Queueable) /\ Len(q \o r) = Len(q) + Len(r)
        /\ \A i \in 1..(Len(q) + Len(r)) :
             (q \o r)[i] = IF i <= Len(q) THEN q[i] ELSE r[i - Len(q)]
    BY ConcatProperties
  <1>2. /\ Effects(q) \in Seq(Effect) /\ Len(Effects(q)) = Len(q)
        /\ Effects(r) \in Seq(Effect) /\ Len(Effects(r)) = Len(r)
        /\ Effects(q \o r) \in Seq(Effect) /\ Len(Effects(q \o r)) = Len(q) + Len(r)
    BY <1>1, EffectsIs
  <1>3. /\ Effects(q) \o Effects(r) \in Seq(Effect)
        /\ Len(Effects(q) \o Effects(r)) = Len(q) + Len(r)
        /\ \A i \in 1..(Len(q) + Len(r)) :
             (Effects(q) \o Effects(r))[i] = IF i <= Len(q) THEN Effects(q)[i]
                                                            ELSE Effects(r)[i - Len(q)]
    BY <1>2, ConcatProperties
  <1>4. ASSUME NEW i \in 1..(Len(q) + Len(r))
        PROVE  Effects(q \o r)[i] = (Effects(q) \o Effects(r))[i]
    <2>1. Effects(q \o r)[i] = CommandEffect((q \o r)[i])
      <3>1. i \in DOMAIN (q \o r)
        BY <1>1
      <3>2. \A p \in Seq(Queueable) : \A j \in DOMAIN p : Effects(p)[j] = CommandEffect(p[j])
        BY EffectsIs
      <3> QED
        BY <1>1, <3>1, <3>2
    <2>2. CASE i <= Len(q)
      <3>1. i \in DOMAIN q
        BY <2>2
      <3> QED
        BY <1>1, <1>3, <2>1, <2>2, <3>1, EffectsIs
    <2>3. CASE ~(i <= Len(q))
      <3>1. i - Len(q) \in DOMAIN r
        BY <2>3
      <3> QED
        BY <1>1, <1>3, <2>1, <2>3, <3>1, EffectsIs
    <2> QED
      BY <2>2, <2>3
  <1> QED
    BY <1>2, <1>3, <1>4, SeqEqual

\* Effects of others may come in between.
LEMMA WholeInserted ==
  ASSUME NEW q \in Seq(Effect), NEW mid \in Seq(Effect), NEW r \in Seq(Effect), NEW u, NEW n,
         \A x \in ToSet(mid) : ~From(u, x), Whole(u, n, q \o r)
  PROVE  Whole(u, n, (q \o mid) \o r)
  <1>1. /\ q \o mid \in Seq(Effect) /\ q \o r \in Seq(Effect)
        /\ ToSet(q \o mid) = ToSet(q) \cup ToSet(mid)
        /\ ToSet(q \o r) = ToSet(q) \cup ToSet(r)
    BY ToSetConcat
  <1>2. ToSet((q \o mid) \o r) = ToSet(q \o mid) \cup ToSet(r)
    BY <1>1, ToSetsConcat
  <1>3. {x \in ToSet((q \o mid) \o r) : From(u, x)} = {x \in ToSet(q \o r) : From(u, x)}
    BY <1>1, <1>2
  <1>4. InOrder(u, mid)
    <2>1. \A i \in DOMAIN mid : mid[i] \in ToSet(mid)
      BY DEF ToSet
    <2> QED
      BY <2>1 DEF InOrder
  <1>5. InOrder(u, q \o r) <=> /\ InOrder(u, q) /\ InOrder(u, r)
                               /\ \A x \in ToSet(q), y \in ToSet(r) :
                                    From(u, x) /\ From(u, y) => x.command[2] < y.command[2]
    BY InOrderConcat
  <1>6. InOrder(u, q \o mid)
    <2>1. InOrder(u, q \o mid) <=> /\ InOrder(u, q) /\ InOrder(u, mid)
                               /\ \A x \in ToSet(q), y \in ToSet(mid) :
                                    From(u, x) /\ From(u, y) => x.command[2] < y.command[2]
      BY InOrderConcat
    <2> QED
      BY <1>4, <1>5, <2>1 DEF Whole
  <1>7. InOrder(u, (q \o mid) \o r)
    <2>1. InOrder(u, (q \o mid) \o r) <=> /\ InOrder(u, q \o mid) /\ InOrder(u, r)
                               /\ \A x \in ToSet(q \o mid), y \in ToSet(r) :
                                    From(u, x) /\ From(u, y) => x.command[2] < y.command[2]
      BY <1>1, InOrderConcat
    <2> QED
      BY <1>1, <1>5, <1>6, <2>1 DEF Whole
  <1> QED
    BY <1>3, <1>7 DEF Whole

LEMMA WholeBehind ==
  ASSUME NEW q \in Seq(Effect), NEW mid \in Seq(Effect), NEW u, NEW n,
         \A x \in ToSet(mid) : ~From(u, x), Whole(u, n, q \o <<>>)
  PROVE  Whole(u, n, (q \o mid) \o <<>>)
  <1>1. <<>> \in Seq(Effect)
    OBVIOUS
  <1> QED
    BY <1>1, WholeInserted

\* What a task queues comes behind what it has queued.
LEMMA WholeAppended ==
  ASSUME NEW path \in Seq(Effect), NEW t \in Nat, NEW n \in Nat, NEW m \in Nat, Whole(t, n, path),
         NEW queued \in Seq(Queueable), Numbered(t, n, m, queued)
  PROVE  Whole(t, n + m, path \o Effects(queued))
  <1> DEFINE more == Effects(queued)
  <1>1. /\ more \in Seq(Effect) /\ DOMAIN more = 1..m
        /\ \A i \in 1..m : more[i] = CommandEffect(<<t, n + i>>)
    <2>1. DOMAIN queued = 1..m /\ Len(queued) = m /\ \A i \in 1..m : queued[i] = <<t, n + i>>
      BY DEF Numbered
    <2>2. more \in Seq(Effect) /\ Len(more) = Len(queued)
      BY EffectsIs
    <2>3. \A i \in DOMAIN queued : more[i] = CommandEffect(queued[i])
      BY EffectsIs
    <2> HIDE DEF more
    <2>4. DOMAIN more = 1..m
      BY <2>1, <2>2
    <2>5. \A i \in 1..m : more[i] = CommandEffect(<<t, n + i>>)
      BY <2>1, <2>3
    <2> QED
      BY <2>2, <2>4, <2>5
  <1>2. \A c, d : /\ CommandEffect(<<c, d>>).command[1] = c /\ CommandEffect(<<c, d>>).command[2] = d
                  /\ CommandEffect(<<c, d>>).kind = "command"
    BY DEF CommandEffect
  <1> HIDE DEF more
  <1>3. \A i \in 1..m : From(t, more[i]) /\ more[i].command[2] = n + i
    <2> TAKE i \in 1..m
    <2>1. PICK j : j = n + i
      OBVIOUS
    <2>2. more[i] = CommandEffect(<<t, j>>)
      BY <1>1, <2>1
    <2> QED
      BY <1>2, <2>1, <2>2 DEF From
  <1>4. InOrder(t, more)
    BY <1>1, <1>3 DEF InOrder
  <1>5. \A x \in ToSet(path) : From(t, x) => x.command[2] \in 1..n
    <2> TAKE x \in ToSet(path)
    <2> HAVE From(t, x)
    <2>1. PICK i \in 1..n : x = CommandEffect(<<t, i>>)
      BY DEF Whole
    <2> QED
      BY <1>2, <2>1
  <1>6. \A x \in ToSet(path), y \in ToSet(more) :
          From(t, x) /\ From(t, y) => x.command[2] < y.command[2]
    <2> TAKE x \in ToSet(path), y \in ToSet(more)
    <2> HAVE From(t, x) /\ From(t, y)
    <2>1. PICK i \in 1..m : y = more[i]
      BY <1>1 DEF ToSet
    <2>2. x.command[2] \in 1..n /\ y.command[2] = n + i
      BY <1>3, <1>5, <2>1
    <2> QED
      BY <2>2
  <1>7. InOrder(t, path \o more)
    BY <1>1, <1>4, <1>6, InOrderConcat DEF Whole
  <1>8. ToSet(path \o more) = ToSet(path) \cup ToSet(more)
    BY <1>1, ToSetConcat
  <1>9. ToSet(more) = {CommandEffect(<<t, n + i>>) : i \in 1..m}
    BY <1>1 DEF ToSet
  <1>10. {CommandEffect(<<t, n + i>>) : i \in 1..m} = {CommandEffect(<<t, i>>) : i \in (n + 1)..(n + m)}
    <2>1. \A i \in 1..m : n + i \in (n + 1)..(n + m)
      OBVIOUS
    <2>2. \A i \in (n + 1)..(n + m) : i - n \in 1..m /\ n + (i - n) = i
      OBVIOUS
    <2> QED
      BY <2>1, <2>2
  <1>11. 1..(n + m) = (1..n) \cup ((n + 1)..(n + m))
    OBVIOUS
  <1>12. \A x \in ToSet(more) : From(t, x)
    BY <1>1, <1>3 DEF ToSet
  <1>13. {x \in ToSet(path \o more) : From(t, x)}
           = {CommandEffect(<<t, i>>) : i \in 1..n} \cup {CommandEffect(<<t, i>>) : i \in (n + 1)..(n + m)}
    <2>1. {x \in ToSet(path \o more) : From(t, x)} = {x \in ToSet(path) : From(t, x)} \cup ToSet(more)
      BY <1>8, <1>12
    <2> QED
      BY <1>9, <1>10, <2>1 DEF Whole
  <1>14. {CommandEffect(<<t, i>>) : i \in 1..(n + m)}
           = {CommandEffect(<<t, i>>) : i \in 1..n} \cup {CommandEffect(<<t, i>>) : i \in (n + 1)..(n + m)}
    BY <1>11
  <1> QED
    BY <1>7, <1>13, <1>14 DEF Whole, more

\* Steps that leave commands where they are and end no task.
LEMMA CommandsStay ==
  ASSUME LuaTypes, CommandInv, taken' \in Seq(Effect), taken' \o toMain' = taken \o toMain,
         outbox' = outbox, DOMAIN tasks' = DOMAIN tasks,
         \A t \in DOMAIN tasks : /\ tasks'[t].gen = tasks[t].gen /\ tasks'[t].issued = tasks[t].issued
                                 /\ tasks'[t].pc \in {"ended", "string"} => tasks'[t].pc = tasks[t].pc
  PROVE  CommandInv'
  <1>3. TrailOK'
    BY DEF CommandInv, TrailOK
  <1>4. \A c : c \in DOMAIN tasks => tasks'[c].gen = tasks[c].gen
    OBVIOUS
  <1>5. OutboxOK'
    <2>1. \A g \in DOMAIN outbox :
            (\A t \in DOMAIN tasks' : tasks'[t].gen = g => tasks'[t].pc = "ended")
              => (\A t \in DOMAIN tasks : tasks[t].gen = g => tasks[t].pc = "ended")
      OBVIOUS
    <2>2. \A g \in DOMAIN outbox : \A i \in DOMAIN outbox[g] :
            outbox[g][i][1] \in DOMAIN tasks' /\ tasks'[outbox[g][i][1]].gen = g
      BY <1>4 DEF CommandInv, OutboxOK
    <2> QED
      BY <2>1, <2>2 DEF CommandInv, OutboxOK
  <1>7. Unissued'
    BY DEF CommandInv, Unissued
  <1>6. \A t \in DOMAIN tasks' :
          Whole(t, tasks'[t].issued, taken' \o toMain' \o Effects(outbox'[tasks'[t].gen]))
    BY DEF CommandInv
  <1> QED
    BY <1>3, <1>5, <1>6, <1>7 DEF CommandInv

\* Tasks that start have queued nothing.
LEMMA NewTasksCommands ==
  ASSUME LuaTypes, CommandInv, NEW new \in Seq(TaskRecord), tasks' = tasks \o new,
         \A i \in DOMAIN new : new[i].issued = 0 /\ new[i].pc # "ended" /\ new[i].gen \in DOMAIN outbox,
         UNCHANGED <<taken, toMain, outbox>>
  PROVE  CommandInv'
  <1>1. /\ DOMAIN tasks \subseteq DOMAIN tasks'
        /\ \A t \in DOMAIN tasks : tasks'[t] = tasks[t]
        /\ \A t \in DOMAIN tasks' : t \notin DOMAIN tasks =>
             tasks'[t].issued = 0 /\ tasks'[t].pc # "ended" /\ tasks'[t].gen \in DOMAIN outbox
    <2>1. tasks \in Seq(TaskRecord)
      BY DEF LuaTypes, TasksOK
    <2> QED
      BY <2>1, TasksBehind
  <1>2. TrailOK'
    BY <1>1 DEF CommandInv, TrailOK
  <1>3. OutboxOK' /\ Unissued'
    <2>1. \A g \in DOMAIN outbox : \A i \in DOMAIN outbox[g] :
            outbox[g][i][1] \in DOMAIN tasks' /\ tasks'[outbox[g][i][1]].gen = g
      BY <1>1 DEF CommandInv, OutboxOK
    <2>2. \A g \in DOMAIN outbox :
            (\A t \in DOMAIN tasks' : tasks'[t].gen = g => tasks'[t].pc = "ended")
              => (\A t \in DOMAIN tasks : tasks[t].gen = g => tasks[t].pc = "ended")
      BY <1>1
    <2>3. Unissued'
      BY <1>1 DEF CommandInv, Unissued
    <2> QED
      BY <2>1, <2>2, <2>3 DEF CommandInv, OutboxOK
  <1>4. ASSUME NEW t \in DOMAIN tasks'
        PROVE  Whole(t, tasks'[t].issued, taken' \o toMain' \o Effects(outbox'[tasks'[t].gen]))
    <2>1. CASE t \in DOMAIN tasks
      BY <1>1, <2>1 DEF CommandInv
    <2>2. CASE t \notin DOMAIN tasks
      <3>1. PICK box \in Seq(Queueable) : box = outbox[tasks'[t].gen]
        BY <1>1, <2>2 DEF LuaTypes, ChannelsOK
      <3>2. taken \o toMain \in Seq(Effect)
        BY DEF CommandInv, TrailOK, LuaTypes, ChannelsOK
      <3>3. /\ Effects(box) \in Seq(Effect)
            /\ ToSet(Effects(box)) = {CommandEffect(box[i]) : i \in DOMAIN box}
        BY EffectsIs
      <3>4. \A x \in ToSet(Effects(box)) : ~From(t, x)
        <4> TAKE x \in ToSet(Effects(box))
        <4>1. PICK i \in DOMAIN box : x = CommandEffect(box[i])
          BY <3>3
        <4>2. box[i][1] \in DOMAIN tasks
          BY <1>1, <2>2, <3>1 DEF CommandInv, OutboxOK
        <4>3. x.command = box[i]
          BY <4>1 DEF CommandEffect
        <4> QED
          BY <2>2, <4>2, <4>3 DEF From
      <3>5. \A x \in ToSet(taken \o toMain) : ~From(t, x)
        BY <2>2 DEF CommandInv, TrailOK
      <3>6. \A x \in ToSet(taken \o toMain \o Effects(box)) : ~From(t, x)
        <4>1. ToSet((taken \o toMain) \o Effects(box)) = ToSet(taken \o toMain) \cup ToSet(Effects(box))
          BY <3>2, <3>3, ToSetsConcat
        <4> QED
          BY <3>4, <3>5, <4>1
      <3>7. PICK path : path = taken \o toMain \o Effects(box)
        OBVIOUS
      <3>8. InOrder(t, path)
        <4>1. \A i \in DOMAIN path : path[i] \in ToSet(path)
          BY DEF ToSet
        <4> QED
          BY <3>6, <3>7, <4>1 DEF InOrder
      <3>9. Whole(t, 0, path)
        BY <3>6, <3>7, <3>8 DEF Whole
      <3> QED
        BY <1>1, <2>2, <3>1, <3>7, <3>9
    <2> QED
      BY <2>1, <2>2
  <1> QED
    BY <1>2, <1>3, <1>4 DEF CommandInv

\* What a task queues is its own.
LEMMA QueuedFrom ==
  ASSUME NEW queued \in Seq(Queueable), NEW t, NEW n, NEW m, Numbered(t, n, m, queued)
  PROVE  \A x \in ToSet(Effects(queued)) : \A u : From(u, x) => u = t
  <1> TAKE x \in ToSet(Effects(queued))
  <1>1. PICK i \in DOMAIN queued : x = CommandEffect(queued[i])
    BY EffectsIs
  <1>2. queued[i][1] = t
    BY DEF Numbered
  <1> QED
    BY <1>1, <1>2 DEF From, CommandEffect

\* What an outbox holds is of tasks of its runtime.
LEMMA BoxFrom ==
  ASSUME LuaTypes, CommandInv, NEW g \in DOMAIN outbox
  PROVE  /\ outbox[g] \in Seq(Queueable)
         /\ \A x \in ToSet(Effects(outbox[g])) : \A u : From(u, x) =>
              u \in DOMAIN tasks /\ tasks[u].gen = g
  <1>1. PICK box \in Seq(Queueable) : box = outbox[g]
    BY DEF LuaTypes, ChannelsOK
  <1>2. \A x \in ToSet(Effects(box)) : \A u : From(u, x) => u \in DOMAIN tasks /\ tasks[u].gen = g
    <2> TAKE x \in ToSet(Effects(box))
    <2>1. PICK i \in DOMAIN box : x = CommandEffect(box[i])
      BY EffectsIs
    <2> QED
      BY <1>1, <2>1 DEF From, CommandEffect, CommandInv, OutboxOK
  <1> QED
    BY <1>1, <1>2

\* Concatenation of trails, told to the provers by what is needed of it alone.
IsTrail(q) == q \in Seq(Effect)
Then(q, r) == q \o r

LEMMA ThenIs ==
  ASSUME NEW q, NEW r, IsTrail(q), IsTrail(r)
  PROVE  /\ IsTrail(Then(q, r)) /\ Then(q, <<>>) = q
         /\ ToSet(Then(q, r)) = ToSet(q) \cup ToSet(r)
  <1>1. q \in Seq(Effect) /\ r \in Seq(Effect)
    BY DEF IsTrail
  <1>2. q \o r \in Seq(Effect) /\ ToSet(q \o r) = ToSet(q) \cup ToSet(r)
    BY <1>1, ToSetConcat
  <1>3. q \o <<>> = q
    BY <1>1, ConcatEmptySeq
  <1> QED
    BY <1>2, <1>3 DEF IsTrail, Then

LEMMA ThenAssociative ==
  ASSUME NEW p, NEW q, NEW r, IsTrail(p), IsTrail(q), IsTrail(r)
  PROVE  Then(Then(p, q), r) = Then(p, Then(q, r))
  <1>1. p \in Seq(Effect) /\ q \in Seq(Effect) /\ r \in Seq(Effect)
    BY DEF IsTrail
  <1>2. (p \o q) \o r = p \o (q \o r)
    BY <1>1, ConcatAssociative
  <1> QED
    BY <1>2 DEF Then

\* What a trail is when a task's commands are put behind the outbox.
TrailFacts(a, b, both, sent, own, new, mid) ==
  /\ IsTrail(own) /\ IsTrail(new) /\ IsTrail(mid) /\ IsTrail(sent)
  /\ both = mid /\ Then(a, Then(b, mid)) = Then(sent, mid)
  /\ IsTrail(Then(sent, own)) /\ Then(sent, mid) = Then(Then(sent, own), new)
  /\ Then(Then(sent, own), <<>>) = Then(sent, own)
  /\ Then(Then(Then(sent, own), new), <<>>) = Then(Then(sent, own), new)
  /\ ToSet(mid) = ToSet(own) \cup ToSet(new) /\ ToSet(Then(sent, mid)) = ToSet(sent) \cup ToSet(mid)

LEMMA Trails ==
  ASSUME NEW a \in Seq(Effect), NEW b \in Seq(Effect),
         NEW box \in Seq(Queueable), NEW queued \in Seq(Queueable)
  PROVE  TrailFacts(a, b, Effects(box \o queued), a \o b, Effects(box), Effects(queued),
                    Effects(box) \o Effects(queued))
  <1>1. IsTrail(a) /\ IsTrail(b)
    BY DEF IsTrail
  <1>2. PICK own, new, both : own = Effects(box) /\ new = Effects(queued) /\ both = Effects(box \o queued)
    OBVIOUS
  <1>3. IsTrail(own) /\ IsTrail(new)
    BY <1>2, EffectsIs DEF IsTrail
  <1>4. PICK sent, mid : sent = Then(a, b) /\ mid = Then(own, new)
    OBVIOUS
  <1>5. both = mid
    <2>1. both = own \o new
      BY <1>2, EffectsConcat
    <2> QED
      BY <1>4, <2>1 DEF Then
  <1>6. IsTrail(sent) /\ IsTrail(mid) /\ ToSet(mid) = ToSet(own) \cup ToSet(new)
    BY <1>1, <1>3, <1>4, ThenIs
  <1>7. Then(a, Then(b, mid)) = Then(sent, mid)
    BY <1>1, <1>4, <1>6, ThenAssociative
  <1>8. Then(sent, mid) = Then(Then(sent, own), new)
    BY <1>3, <1>4, <1>6, ThenAssociative
  <1>9. /\ IsTrail(Then(sent, own)) /\ Then(Then(sent, own), <<>>) = Then(sent, own)
        /\ ToSet(Then(sent, mid)) = ToSet(sent) \cup ToSet(mid)
    BY <1>3, <1>6, ThenIs
  <1>10. Then(Then(Then(sent, own), new), <<>>) = Then(Then(sent, own), new)
    BY <1>3, <1>9, ThenIs
  <1>11. TrailFacts(a, b, both, sent, own, new, mid)
    BY <1>3, <1>5, <1>6, <1>7, <1>8, <1>9, <1>10 DEF TrailFacts
  <1> QED
    BY <1>2, <1>4, <1>11 DEF Then

\* A dispatch that ends takes along what its runtime's outbox holds.
LEMMA FinishCommands ==
  ASSUME LuaTypes, CommandInv, NEW t \in DOMAIN tasks, NEW m \in Nat, NEW queued \in Seq(Queueable),
         Numbered(t, tasks[t].issued, m, queued), Finish(t, queued)
  PROVE  CommandInv'
  <1>1. PICK g, n : g = tasks[t].gen /\ n = tasks[t].issued
    OBVIOUS
  <1>2. tasks[t] \in TaskRecord /\ t \in Nat /\ n \in Nat /\ g \in DOMAIN outbox
    <2>1. tasks[t] \in TaskRecord /\ t \in Nat /\ tasks[t].gen \in DOMAIN loaded
      BY DEF LuaTypes, TasksOK
    <2>2. DOMAIN outbox = DOMAIN loaded
      BY DEF LuaTypes, ChannelsOK, RuntimesOK
    <2> QED
      BY <1>1, <2>1, <2>2 DEF TaskRecord
  <1>3. PICK box \in Seq(Queueable) : box = outbox[g]
    BY <1>2 DEF LuaTypes, ChannelsOK
  <1>4. PICK sent, own, new, mid :
           sent = taken \o toMain /\ own = Effects(box) /\ new = Effects(queued) /\ mid = own \o new
    OBVIOUS
  <1>5. Numbered(t, n, m, queued)
    BY <1>1
  <1>6. PICK r : r = Ended(tasks[t], m)
    OBVIOUS
  <1>7. r.gen = g /\ r.issued = n + m /\ r.pc = "ended"
    BY <1>1, <1>2, <1>6 DEF Ended, TaskRecord
  <1>8. tasks' = [tasks EXCEPT ![t] = r]
    <2>1. Len(queued) = m
      BY <1>5 DEF Numbered
    <2> QED
      BY <1>6, <2>1 DEF Finish
  <1>9. /\ own \in Seq(Effect) /\ new \in Seq(Effect) /\ mid \in Seq(Effect) /\ sent \in Seq(Effect)
        /\ Effects(box \o queued) = mid /\ taken \o (toMain \o mid) = sent \o mid
        /\ sent \o own \in Seq(Effect) /\ (sent \o own) \o new = sent \o mid
        /\ (sent \o own) \o <<>> = sent \o own
        /\ ((sent \o own) \o new) \o <<>> = (sent \o own) \o new
        /\ ToSet(mid) = ToSet(own) \cup ToSet(new) /\ ToSet(sent \o mid) = ToSet(sent) \cup ToSet(mid)
    <2>1. taken \in Seq(Effect) /\ toMain \in Seq(Effect)
      BY DEF CommandInv, TrailOK, LuaTypes, ChannelsOK
    <2>2. TrailFacts(taken, toMain, Effects(box \o queued), sent, own, new, own \o new)
      BY <1>4, <2>1, Trails
    <2> QED
      BY <1>4, <2>2 DEF TrailFacts, IsTrail, Then
  <1>10. /\ taken' = taken /\ toMain' = toMain \o mid
         /\ outbox' = [outbox EXCEPT ![g] = <<>>]
    <2>1. Effects(box \o queued) = mid
      BY <1>9
    <2>2. toMain' = toMain \o Effects([outbox EXCEPT ![g] = box \o queued][g])
      BY <1>1, <1>3 DEF Finish, Own
    <2>3. [outbox EXCEPT ![g] = box \o queued][g] = box \o queued
      BY <1>2
    <2>4. outbox' = [[outbox EXCEPT ![g] = box \o queued] EXCEPT ![g] = <<>>]
      BY <1>1, <1>3 DEF Finish, Own
    <2>5. taken' = taken
      BY DEF Finish, main
    <2>6. outbox' = [outbox EXCEPT ![g] = <<>>]
      BY <2>4 DEF LuaTypes, ChannelsOK
    <2> QED
      BY <2>1, <2>2, <2>3, <2>5, <2>6
  <1>11. taken' \o toMain' = sent \o mid /\ taken' \in Seq(Effect)
    BY <1>9, <1>10 DEF CommandInv, TrailOK
  <1>12. /\ \A x \in ToSet(own) : \A u : From(u, x) => u \in DOMAIN tasks /\ tasks[u].gen = g
         /\ \A x \in ToSet(new) : \A u : From(u, x) => u = t
    BY <1>2, <1>3, <1>4, <1>5, BoxFrom, QueuedFrom
  <1>14. /\ DOMAIN tasks' = DOMAIN tasks /\ tasks'[t] = r
         /\ \A u \in DOMAIN tasks : u # t => tasks'[u] = tasks[u]
    BY <1>8, OneAfter DEF LuaTypes
  <1>15. /\ DOMAIN outbox' = DOMAIN outbox /\ outbox'[g] = <<>>
         /\ \A h \in DOMAIN outbox : h # g => outbox'[h] = outbox[h]
    BY <1>2, <1>10 DEF LuaTypes, ChannelsOK
  <1>16. TrailOK'
    <2>1. \A x \in ToSet(sent) : \A u : From(u, x) => u \in DOMAIN tasks
      BY <1>4 DEF CommandInv, TrailOK
    <2> QED
      BY <1>9, <1>11, <1>12, <1>14, <2>1 DEF TrailOK
  <1>17. OutboxOK'
    <2>1. ASSUME NEW h \in DOMAIN outbox', NEW i \in DOMAIN outbox'[h]
          PROVE  outbox'[h][i][1] \in DOMAIN tasks' /\ tasks'[outbox'[h][i][1]].gen = h
      <3>1. h # g /\ outbox'[h] = outbox[h] /\ h \in DOMAIN outbox
        BY <1>15, <2>1
      <3>2. PICK u : u = outbox[h][i][1]
        OBVIOUS
      <3>3. u \in DOMAIN tasks /\ tasks[u].gen = h
        BY <2>1, <3>1, <3>2 DEF CommandInv, OutboxOK
      <3> QED
        BY <1>1, <1>14, <3>1, <3>2, <3>3
    <2>2. ASSUME NEW h \in DOMAIN outbox',
                 \A u \in DOMAIN tasks' : tasks'[u].gen = h => tasks'[u].pc = "ended"
          PROVE  outbox'[h] = <<>>
      <3>1. CASE h = g
        BY <1>15, <3>1
      <3>2. CASE h # g
        <4>1. \A u \in DOMAIN tasks : tasks[u].gen = h => tasks[u].pc = "ended"
          BY <1>1, <1>14, <2>2, <3>2
        <4> QED
          BY <1>15, <3>2, <4>1 DEF CommandInv, OutboxOK
      <3> QED
        BY <3>1, <3>2
    <2> QED
      BY <2>1, <2>2 DEF OutboxOK
  <1>18. Unissued'
    BY <1>7, <1>14 DEF CommandInv, Unissued
  <1>20. ASSUME NEW u \in DOMAIN tasks'
         PROVE  Whole(u, tasks'[u].issued, taken' \o toMain' \o Effects(outbox'[tasks'[u].gen]))
    <2>1. CASE u = t
      <3>1. Whole(t, n, sent \o own)
        BY <1>1, <1>3, <1>4 DEF CommandInv
      <3>2. Whole(t, n + m, (sent \o own) \o new)
        BY <1>2, <1>4, <1>5, <1>9, <3>1, WholeAppended
      <3>3. Effects(outbox'[g]) = <<>>
        BY <1>15 DEF Effects
      <3> QED
        BY <1>7, <1>9, <1>11, <1>14, <2>1, <3>2, <3>3
    <2>2. CASE u # t /\ tasks[u].gen = g
      <3>1. tasks'[u] = tasks[u] /\ u \in DOMAIN tasks
        BY <1>14, <2>2
      <3>2. PICK k : k = tasks[u].issued
        OBVIOUS
      <3>3. Whole(u, k, (sent \o own) \o <<>>)
        BY <1>3, <1>4, <1>9, <2>2, <3>1, <3>2 DEF CommandInv
      <3>4. \A x \in ToSet(new) : ~From(u, x)
        BY <1>12, <2>2
      <3>5. Whole(u, k, ((sent \o own) \o new) \o <<>>)
        BY <1>9, <3>3, <3>4, WholeBehind
      <3>6. Effects(outbox'[g]) = <<>>
        BY <1>15 DEF Effects
      <3> QED
        BY <1>9, <1>11, <2>2, <3>1, <3>2, <3>5, <3>6
    <2>3. CASE tasks[u].gen # g
      <3>1. tasks'[u] = tasks[u] /\ u \in DOMAIN tasks
        BY <1>1, <1>14, <2>3
      <3>2. PICK k, h : k = tasks[u].issued /\ h = tasks[u].gen
        OBVIOUS
      <3>3. h \in DOMAIN outbox /\ h # g
        BY <2>3, <3>1, <3>2 DEF LuaTypes, TasksOK, ChannelsOK
      <3>4. PICK rest : rest = Effects(outbox[h]) /\ rest \in Seq(Effect)
        <4>1. outbox[h] \in Seq(Queueable)
          BY <3>3 DEF LuaTypes, ChannelsOK
        <4> QED
          BY <4>1, EffectsIs
      <3>5. Whole(u, k, sent \o rest)
        BY <1>4, <3>1, <3>2, <3>4 DEF CommandInv
      <3>6. \A x \in ToSet(mid) : ~From(u, x)
        BY <1>1, <1>9, <1>12, <2>3
      <3>7. Whole(u, k, (sent \o mid) \o rest)
        BY <1>9, <3>4, <3>5, <3>6, WholeInserted
      <3> QED
        BY <1>11, <1>15, <3>1, <3>2, <3>3, <3>4, <3>7
    <2> QED
      BY <2>1, <2>2, <2>3
  <1> QED
    BY <1>16, <1>17, <1>18, <1>20 DEF CommandInv

\* A query follows the commands its handler has queued so far.
LEMMA QueryCommands ==
  ASSUME LuaTypes, CommandInv, NEW t \in DOMAIN tasks, NEW m \in Nat, NEW queued \in Seq(Queueable),
         Numbered(t, tasks[t].issued, m, queued),
         NEW r, r.gen = tasks[t].gen, r.issued = tasks[t].issued + m, r.pc \notin {"ended", "string"},
         tasks' = [tasks EXCEPT ![t] = r],
         outbox' = [outbox EXCEPT ![tasks[t].gen] = @ \o queued], UNCHANGED <<taken, toMain>>
  PROVE  CommandInv'
  <1>1. PICK g, n : g = tasks[t].gen /\ n = tasks[t].issued
    OBVIOUS
  <1>2. tasks[t] \in TaskRecord /\ t \in Nat /\ n \in Nat /\ g \in DOMAIN outbox
    <2>1. tasks[t] \in TaskRecord /\ t \in Nat /\ tasks[t].gen \in DOMAIN loaded
      BY DEF LuaTypes, TasksOK
    <2>2. DOMAIN outbox = DOMAIN loaded
      BY DEF LuaTypes, ChannelsOK, RuntimesOK
    <2> QED
      BY <1>1, <2>1, <2>2 DEF TaskRecord
  <1>3. PICK box \in Seq(Queueable) : box = outbox[g]
    BY <1>2 DEF LuaTypes, ChannelsOK
  <1>4. PICK sent, own, new :
           sent = taken \o toMain /\ own = Effects(box) /\ new = Effects(queued)
    OBVIOUS
  <1>5. Numbered(t, n, m, queued)
    BY <1>1
  <1>9. /\ own \in Seq(Effect) /\ new \in Seq(Effect) /\ sent \in Seq(Effect)
        /\ Effects(box \o queued) = own \o new
        /\ sent \o own \in Seq(Effect) /\ sent \o (own \o new) = (sent \o own) \o new
        /\ (sent \o own) \o <<>> = sent \o own
        /\ ((sent \o own) \o new) \o <<>> = (sent \o own) \o new
    <2>1. taken \in Seq(Effect) /\ toMain \in Seq(Effect)
      BY DEF CommandInv, TrailOK, LuaTypes, ChannelsOK
    <2>2. TrailFacts(taken, toMain, Effects(box \o queued), sent, own, new, own \o new)
      BY <1>4, <2>1, Trails
    <2> QED
      BY <1>4, <2>2 DEF TrailFacts, IsTrail, Then
  <1>12. \A x \in ToSet(new) : \A u : From(u, x) => u = t
    BY <1>4, <1>5, QueuedFrom
  <1>14. /\ DOMAIN tasks' = DOMAIN tasks /\ tasks'[t] = r
         /\ \A u \in DOMAIN tasks : u # t => tasks'[u] = tasks[u]
    BY OneAfter DEF LuaTypes
  <1>15. /\ DOMAIN outbox' = DOMAIN outbox /\ outbox'[g] = box \o queued
         /\ \A h \in DOMAIN outbox : h # g => outbox'[h] = outbox[h]
    BY <1>1, <1>2, <1>3 DEF LuaTypes, ChannelsOK
  <1>16. TrailOK'
    BY <1>14 DEF CommandInv, TrailOK
  <1>17. OutboxOK'
    <2>1. ASSUME NEW h \in DOMAIN outbox', NEW i \in DOMAIN outbox'[h]
          PROVE  outbox'[h][i][1] \in DOMAIN tasks' /\ tasks'[outbox'[h][i][1]].gen = h
      <3>1. PICK u : u = outbox'[h][i][1]
        OBVIOUS
      <3>2. u \in DOMAIN tasks /\ tasks[u].gen = h
        <4>1. CASE h # g
          <5>1. h \in DOMAIN outbox /\ i \in DOMAIN outbox[h] /\ u = outbox[h][i][1]
            BY <1>15, <2>1, <3>1, <4>1
          <5> QED
            BY <5>1 DEF CommandInv, OutboxOK
        <4>2. CASE h = g
          <5>1. i \in DOMAIN (box \o queued) /\ u = (box \o queued)[i][1]
            BY <1>15, <2>1, <3>1, <4>2
          <5>2. \/ i \in DOMAIN box /\ (box \o queued)[i] = box[i]
                \/ \E j \in DOMAIN queued : (box \o queued)[i] = queued[j]
            <6>1. /\ Len(box \o queued) = Len(box) + Len(queued)
                  /\ \A j \in 1..(Len(box) + Len(queued)) :
                       (box \o queued)[j] = IF j <= Len(box) THEN box[j] ELSE queued[j - Len(box)]
                  /\ box \o queued \in Seq(Queueable)
              BY ConcatProperties
            <6>2. CASE i <= Len(box)
              <7>1. i \in DOMAIN box
                BY <5>1, <6>1, <6>2
              <7> QED
                BY <5>1, <6>1, <6>2, <7>1
            <6>3. CASE ~(i <= Len(box))
              <7>1. i - Len(box) \in DOMAIN queued
                BY <5>1, <6>1, <6>3
              <7> QED
                BY <5>1, <6>1, <6>3, <7>1
            <6> QED
              BY <6>2, <6>3
          <5>3. CASE i \in DOMAIN box /\ (box \o queued)[i] = box[i]
            <6>1. u = outbox[g][i][1] /\ i \in DOMAIN outbox[g]
              BY <1>3, <5>1, <5>3
            <6> QED
              BY <1>2, <4>2, <6>1 DEF CommandInv, OutboxOK
          <5>4. CASE \E j \in DOMAIN queued : (box \o queued)[i] = queued[j]
            <6>1. u = t
              BY <1>5, <5>1, <5>4 DEF Numbered
            <6> QED
              BY <1>1, <4>2, <6>1
          <5> QED
            BY <5>2, <5>3, <5>4
        <4> QED
          BY <4>1, <4>2
      <3> QED
        BY <1>1, <1>14, <3>1, <3>2
    <2>2. ASSUME NEW h \in DOMAIN outbox',
                 \A u \in DOMAIN tasks' : tasks'[u].gen = h => tasks'[u].pc = "ended"
          PROVE  outbox'[h] = <<>>
      <3>1. h # g
        BY <1>1, <1>14, <2>2
      <3>2. \A u \in DOMAIN tasks : tasks[u].gen = h => tasks[u].pc = "ended"
        BY <1>1, <1>14, <2>2, <3>1
      <3> QED
        BY <1>15, <3>1, <3>2 DEF CommandInv, OutboxOK
    <2> QED
      BY <2>1, <2>2 DEF OutboxOK
  <1>18. Unissued'
    BY <1>14 DEF CommandInv, Unissued
  <1>20. ASSUME NEW u \in DOMAIN tasks'
         PROVE  Whole(u, tasks'[u].issued, taken' \o toMain' \o Effects(outbox'[tasks'[u].gen]))
    <2>1. CASE u = t
      <3>1. Whole(t, n, sent \o own)
        BY <1>1, <1>3, <1>4 DEF CommandInv
      <3>2. Whole(t, n + m, (sent \o own) \o new)
        BY <1>2, <1>4, <1>5, <1>9, <3>1, WholeAppended
      <3>3. Effects(outbox'[g]) = own \o new
        BY <1>9, <1>15
      <3>4. tasks'[u].issued = n + m /\ tasks'[u].gen = g
        BY <1>1, <1>14, <2>1
      <3> QED
        BY <1>4, <1>9, <2>1, <3>2, <3>3, <3>4
    <2>2. CASE u # t /\ tasks[u].gen = g
      <3>1. tasks'[u] = tasks[u] /\ u \in DOMAIN tasks
        BY <1>14, <2>2
      <3>2. PICK k : k = tasks[u].issued
        OBVIOUS
      <3>3. Whole(u, k, (sent \o own) \o <<>>)
        BY <1>3, <1>4, <1>9, <2>2, <3>1, <3>2 DEF CommandInv
      <3>4. \A x \in ToSet(new) : ~From(u, x)
        BY <1>12, <2>2
      <3>5. Whole(u, k, ((sent \o own) \o new) \o <<>>)
        BY <1>9, <3>3, <3>4, WholeBehind
      <3>6. Effects(outbox'[g]) = own \o new
        BY <1>9, <1>15
      <3> QED
        BY <1>4, <1>9, <2>2, <3>1, <3>2, <3>5, <3>6
    <2>3. CASE tasks[u].gen # g
      <3>1. tasks'[u] = tasks[u] /\ u \in DOMAIN tasks
        BY <1>1, <1>14, <2>3
      <3>2. PICK h : h = tasks[u].gen
        OBVIOUS
      <3>3. h \in DOMAIN outbox /\ h # g
        <4>1. h \in DOMAIN loaded /\ DOMAIN loaded = DOMAIN outbox
          BY <3>1, <3>2 DEF LuaTypes, TasksOK, ChannelsOK, RuntimesOK
        <4> QED
          BY <2>3, <3>2, <4>1
      <3> QED
        BY <1>15, <3>1, <3>2, <3>3 DEF CommandInv
    <2> QED
      BY <2>1, <2>2, <2>3
  <1> QED
    BY <1>16, <1>17, <1>18, <1>20 DEF CommandInv

\* A task goes on without queueing a command.
LEMMA GoesOnCommands ==
  ASSUME LuaTypes, CommandInv, NEW t \in DOMAIN tasks, NEW r, tasks' = [tasks EXCEPT ![t] = r],
         r.gen = tasks[t].gen, r.issued = tasks[t].issued, r.pc \notin {"ended", "string"},
         UNCHANGED <<taken, toMain, outbox>>
  PROVE  CommandInv'
  <1>1. /\ DOMAIN tasks' = DOMAIN tasks /\ tasks'[t] = r
        /\ \A u \in DOMAIN tasks : u # t => tasks'[u] = tasks[u]
    BY OneAfter DEF LuaTypes
  <1>2. taken' \in Seq(Effect)
    BY DEF CommandInv, TrailOK
  <1>3. \A u \in DOMAIN tasks : /\ tasks'[u].gen = tasks[u].gen /\ tasks'[u].issued = tasks[u].issued
                                /\ tasks'[u].pc \in {"ended", "string"} => tasks'[u].pc = tasks[u].pc
    BY <1>1
  <1> QED
    BY <1>1, <1>2, <1>3, CommandsStay

LEMMA GetIs ==
  ASSUME NEW t, NEW k, NEW r \in TaskRecord, Get(t, k, r)
  PROVE  \E q : /\ tasks' = [tasks EXCEPT ![t] = q] /\ q.gen = r.gen /\ q.issued = r.issued
                /\ q.pc \notin {"ended", "string"}
  <1>1. PICK pc \in {"woken", "reading", "joined"} :
           tasks' = [tasks EXCEPT ![t] = [r EXCEPT !.on = k, !.pc = pc]]
    BY DEF Get
  <1>2. PICK q : q = [r EXCEPT !.on = k, !.pc = pc]
    OBVIOUS
  <1>3. q.gen = r.gen /\ q.issued = r.issued /\ q.pc = pc
    BY <1>2 DEF TaskRecord
  <1> QED
    BY <1>1, <1>2, <1>3

LEMMA StepCommands ==
  ASSUME LuaTypes, CommandInv, NEW t \in DOMAIN tasks, Step(t)
  PROVE  CommandInv'
  <1>1. tasks[t] \in TaskRecord /\ t \in Nat /\ tasks[t].issued \in Nat /\ TasksOK
    <2>1. tasks[t] \in TaskRecord /\ t \in Nat /\ TasksOK
      BY DEF LuaTypes, TasksOK
    <2> QED
      BY <2>1 DEF TaskRecord
  <1>2. CASE Start(t)
    <2>1. Get(t, "set", tasks[t]) /\ UNCHANGED <<taken, toMain, outbox>>
      BY <1>2 DEF Start, main
    <2> QED
      BY <1>1, <2>1, GetIs, GoesOnCommands
  <1>3. CASE Deliver(t)
    <2>1. UNCHANGED <<taken, toMain, outbox>>
      BY <1>3 DEF Deliver, main
    <2>2. PICK pc \in {"woken", "failed"} : \E W :
             tasks' = [u \in DOMAIN tasks |-> IF u \in W THEN Awake(tasks[u], pc) ELSE tasks[u]]
      BY <1>3 DEF Deliver, Awake
    <2>3. \A u \in DOMAIN tasks : /\ Awake(tasks[u], pc).gen = tasks[u].gen
                                  /\ Awake(tasks[u], pc).issued = tasks[u].issued
                                  /\ Awake(tasks[u], pc).pc = pc
      BY <1>1 DEF TasksOK, Awake, TaskRecord
    <2>4. taken' \in Seq(Effect)
      BY <2>1 DEF CommandInv, TrailOK
    <2> QED
      BY <2>1, <2>2, <2>3, <2>4, CommandsStay
  <1>4. CASE RunString(t)
    <2>1. Finish(t, <<<<t, 1>>>>) /\ tasks[t].issued = 0
      BY <1>4 DEF RunString, CommandInv, Unissued
    <2>2. <<<<t, 1>>>> \in Seq(Queueable)
      BY <1>1 DEF Queueable
    <2>3. Numbered(t, 0, 1, <<<<t, 1>>>>)
      BY DEF Numbered
    <2> QED
      BY <2>1, <2>2, <2>3, FinishCommands
  <1>5. CASE NoHandler(t) \/ Abort(t)
    <2>1. Finish(t, <<>>)
      BY <1>5 DEF NoHandler, Abort
    <2>2. <<>> \in Seq(Queueable)
      OBVIOUS
    <2>3. Numbered(t, tasks[t].issued, 0, <<>>)
      BY DEF Numbered
    <2> QED
      BY <2>1, <2>2, <2>3, FinishCommands
  <1>6. ASSUME NEW n \in Left(t)
        PROVE  /\ n \in Nat /\ Queued(t, n) \in Seq(Queueable)
               /\ Numbered(t, tasks[t].issued, n, Queued(t, n))
    <2>1. n \in Nat /\ Queued(t, n) \in Seq(Queueable)
      BY <1>1, QueuedType
    <2> QED
      BY <2>1 DEF Queued, Numbered
  <1>7. CASE Return(t)
    <2>1. PICK n \in Left(t) : Finish(t, Queued(t, n))
      BY <1>7 DEF Return
    <2> QED
      BY <1>6, <2>1, FinishCommands
  <1>8. CASE Query(t)
    <2>1. PICK n \in Left(t) :
             /\ Get(t, "state", [tasks[t] EXCEPT !.issued = @ + n])
             /\ outbox' = [outbox EXCEPT ![tasks[t].gen] = @ \o Queued(t, n)]
      BY <1>8 DEF Query
    <2>2. UNCHANGED <<taken, toMain>>
      BY <1>8 DEF Query, main
    <2>3. n \in Nat
      BY <1>6
    <2>4. PICK r : r = [tasks[t] EXCEPT !.issued = @ + n]
      OBVIOUS
    <2>5. r \in TaskRecord /\ r.gen = tasks[t].gen /\ r.issued = tasks[t].issued + n
      BY <1>1, <2>3, <2>4 DEF TaskRecord
    <2>6. PICK q : /\ tasks' = [tasks EXCEPT ![t] = q] /\ q.gen = r.gen /\ q.issued = r.issued
                   /\ q.pc \notin {"ended", "string"}
      <3>1. Get(t, "state", r)
        BY <2>1, <2>4
      <3> QED
        BY <2>5, <3>1, GetIs
    <2> QED
      BY <1>6, <2>1, <2>2, <2>3, <2>5, <2>6, QueryCommands
  <1>9. CASE Exec(t)
    <2>1. PICK r : r = [tasks[t] EXCEPT !.pc = "queued"]
      OBVIOUS
    <2>2. tasks' = [tasks EXCEPT ![t] = r] /\ UNCHANGED <<taken, toMain, outbox>>
      BY <1>9, <2>1 DEF Exec, main
    <2>3. r.gen = tasks[t].gen /\ r.issued = tasks[t].issued /\ r.pc = "queued"
      BY <1>1, <2>1 DEF TaskRecord
    <2> QED
      BY <2>2, <2>3, GoesOnCommands
  <1>10. CASE Spin(t)
    <2>1. UNCHANGED <<taken, toMain, outbox, tasks>> /\ taken' \in Seq(Effect)
      BY <1>10 DEF Spin, main, dispatching, CommandInv, TrailOK
    <2> QED
      BY <2>1, CommandsStay
  <1> QED
    BY <1>2, <1>3, <1>4, <1>5, <1>7, <1>8, <1>9, <1>10 DEF Step

\* A runtime that is built has an outbox with nothing in it.
LEMMA ReloadCommands ==
  ASSUME LuaTypes, CommandInv, TakeReload
  PROVE  CommandInv'
  <1>1. outbox' = Append(outbox, <<>>) /\ UNCHANGED <<taken, toMain, tasks>>
    BY DEF TakeReload, main
  <1>2. /\ DOMAIN outbox \subseteq DOMAIN outbox'
        /\ \A g \in DOMAIN outbox : outbox'[g] = outbox[g]
        /\ \A g \in DOMAIN outbox' : g \notin DOMAIN outbox => outbox'[g] = <<>>
    BY <1>1 DEF LuaTypes, ChannelsOK
  <1>3. TrailOK' /\ Unissued'
    BY <1>1 DEF CommandInv, TrailOK, Unissued
  <1>4. OutboxOK'
    <2>1. \A g \in DOMAIN outbox' : \A i \in DOMAIN outbox'[g] :
            outbox'[g][i][1] \in DOMAIN tasks /\ tasks[outbox'[g][i][1]].gen = g
      <3> TAKE g \in DOMAIN outbox'
      <3>1. CASE g \in DOMAIN outbox
        BY <1>2, <3>1 DEF CommandInv, OutboxOK
      <3>2. CASE g \notin DOMAIN outbox
        BY <1>2, <3>2
      <3> QED
        BY <3>1, <3>2
    <2>2. \A g \in DOMAIN outbox' :
            (\A t \in DOMAIN tasks : tasks[t].gen = g => tasks[t].pc = "ended") => outbox'[g] = <<>>
      BY <1>2 DEF CommandInv, OutboxOK
    <2> QED
      BY <1>1, <2>1, <2>2 DEF OutboxOK
  <1>5. \A t \in DOMAIN tasks : outbox'[tasks[t].gen] = outbox[tasks[t].gen]
    BY <1>2 DEF LuaTypes, TasksOK, ChannelsOK, RuntimesOK
  <1> QED
    BY <1>1, <1>3, <1>4, <1>5 DEF CommandInv

\* The announcement of a configuration is no handler's command.
LEMMA AnnounceCommands ==
  ASSUME LuaTypes, CommandInv, Announce
  PROVE  CommandInv'
  <1>1. UNCHANGED <<taken, tasks, outbox>>
    BY DEF Announce, main, dispatching
  <1>2. taken \in Seq(Effect) /\ toMain \in Seq(Effect)
    BY DEF CommandInv, TrailOK, LuaTypes, ChannelsOK
  <1>3. CASE toMain' = toMain
    BY <1>1, <1>2, <1>3, CommandsStay
  <1>4. CASE toMain' = Append(toMain, ConfigEffect)
    <2>1. PICK mid : mid = <<ConfigEffect>>
      OBVIOUS
    <2>2. IsTrail(mid) /\ ToSet(mid) = {ConfigEffect}
      BY <2>1 DEF IsTrail, ToSet, Effect, ConfigEffect
    <2>3. \A x \in ToSet(mid) : \A u : ~From(u, x)
      BY <2>2 DEF From, ConfigEffect
    <2>4. PICK sent : sent = Then(taken, toMain)
      OBVIOUS
    <2>5. Then(taken, Then(toMain, mid)) = Then(sent, mid) /\ IsTrail(sent)
      <3>1. IsTrail(taken) /\ IsTrail(toMain)
        BY <1>2 DEF IsTrail
      <3> QED
        BY <2>2, <2>4, <3>1, ThenIs, ThenAssociative
    <2>6. toMain' = Then(toMain, mid)
      BY <1>2, <1>4, <2>1 DEF Then, ConfigEffect, Effect
    <2>7. taken' \o toMain' = sent \o mid /\ sent = taken \o toMain
      BY <1>1, <2>4, <2>5, <2>6 DEF Then
    <2>8. ToSet(sent \o mid) = ToSet(sent) \cup ToSet(mid)
      BY <2>2, <2>5, ThenIs DEF Then
    <2>9. TrailOK'
      <3>1. \A x \in ToSet(sent) : \A t : From(t, x) => t \in DOMAIN tasks
        BY <2>7 DEF CommandInv, TrailOK
      <3> QED
        BY <1>1, <1>2, <2>3, <2>7, <2>8, <3>1 DEF TrailOK
    <2>10. OutboxOK' /\ Unissued'
      BY <1>1 DEF CommandInv, OutboxOK, Unissued
    <2>11. ASSUME NEW t \in DOMAIN tasks
           PROVE  Whole(t, tasks[t].issued, (sent \o mid) \o Effects(outbox[tasks[t].gen]))
      <3>1. tasks[t].gen \in DOMAIN outbox
        BY DEF LuaTypes, TasksOK, ChannelsOK, RuntimesOK
      <3>2. PICK rest : rest = Effects(outbox[tasks[t].gen]) /\ rest \in Seq(Effect)
        <4>1. outbox[tasks[t].gen] \in Seq(Queueable)
          BY <3>1 DEF LuaTypes, ChannelsOK
        <4> QED
          BY <4>1, EffectsIs
      <3>3. PICK n : n = tasks[t].issued
        OBVIOUS
      <3>4. Whole(t, n, sent \o rest)
        BY <2>7, <3>2, <3>3 DEF CommandInv
      <3>5. sent \in Seq(Effect) /\ mid \in Seq(Effect)
        BY <2>2, <2>5 DEF IsTrail
      <3>6. Whole(t, n, (sent \o mid) \o rest)
        BY <2>3, <3>2, <3>4, <3>5, WholeInserted
      <3> QED
        BY <3>2, <3>3, <3>6
    <2> QED
      BY <1>1, <2>7, <2>9, <2>10, <2>11 DEF CommandInv
  <1> QED
    BY <1>3, <1>4 DEF Announce

LEMMA WorkerCommands ==
  ASSUME LuaTypes, CommandInv, Worker
  PROVE  CommandInv'
  <1>0. current \in DOMAIN outbox /\ current \in Nat
    BY DEF LuaTypes, RuntimesOK, ChannelsOK
  <1>1. CASE TakeEvents
    <2>1. UNCHANGED <<taken, toMain, outbox>>
      BY <1>1 DEF TakeEvents, main
    <2>2. PICK e \in Observable :
             \E n \in 0..On(Runtime, e) :
                tasks' = tasks \o [i \in 1..n |-> Task(Latest, 0, "spawned")]
      BY <1>1 DEF TakeEvents
    <2>3. PICK n \in 0..On(Runtime, e) :
             tasks' = tasks \o [i \in 1..n |-> Task(Latest, 0, "spawned")]
      BY <2>2
    <2>4. PICK r : r = Task(Latest, 0, "spawned")
      OBVIOUS
    <2>5. r \in TaskRecord /\ r.pc = "spawned" /\ r.issued = 0 /\ r.gen = current
      BY <1>0, <2>4 DEF Task, Latest, TaskRecord, Steps, Reads
    <2>6. n \in Nat
      <3>1. Runtime \in Scripts
        BY DEF LuaTypes, RuntimesOK, Runtime
      <3>2. On(Runtime, e) \in Nat
        BY <3>1, LuaAssumption DEF On
      <3> QED
        BY <3>2
    <2>7. PICK new \in Seq(TaskRecord) : /\ tasks' = tasks \o new
                                         /\ \A i \in DOMAIN new : new[i] = r
      <3> DEFINE new == [i \in 1..n |-> r]
      <3>1. new \in Seq(TaskRecord) /\ \A i \in DOMAIN new : new[i] = r
        BY <2>5, <2>6
      <3>2. tasks' = tasks \o new
        BY <2>3, <2>4
      <3> HIDE DEF new
      <3> QED
        BY <3>1, <3>2
    <2>8. \A i \in DOMAIN new : new[i].issued = 0 /\ new[i].pc # "ended" /\ new[i].gen \in DOMAIN outbox
      BY <1>0, <2>5, <2>7
    <2> QED
      BY <2>1, <2>7, <2>8, NewTasksCommands
  <1>2. CASE TakeBinds
    <2> DEFINE presses == Head(toLua).presses
               new == [i \in DOMAIN presses |-> Task(Latest, presses[i].gen, Callback(presses[i].id))]
    <2>1. /\ toLua # <<>> /\ Head(toLua).kind = "binds" /\ tasks' = tasks \o new
          /\ UNCHANGED <<taken, toMain, outbox>>
      BY <1>2 DEF TakeBinds, main
    <2>2. presses \in Seq(Pressed)
      <3>1. Head(toLua) \in Message
        BY <2>1 DEF LuaTypes, ChannelsOK
      <3> QED
        BY <2>1, <3>1 DEF Message
    <2>4. \A j \in DOMAIN presses :
             LET r == Task(Latest, presses[j].gen, Callback(presses[j].id))
             IN  r \in TaskRecord /\ r.pc # "ended" /\ r.issued = 0 /\ r.gen = current
      <3> TAKE j \in DOMAIN presses
      <3> HIDE DEF presses
      <3>1. presses[j].gen \in Nat
        BY <2>2, PressType
      <3>2. Callback(presses[j].id) \in {"spawned", "string", "unbound"}
        BY DEF Callback
      <3>3. PICK r : r = Task(Latest, presses[j].gen, Callback(presses[j].id))
        OBVIOUS
      <3>4. r \in TaskRecord /\ r.pc # "ended" /\ r.issued = 0 /\ r.gen = current
        BY <1>0, <3>1, <3>2, <3>3 DEF Task, Latest, TaskRecord, Reads, Steps
      <3> QED
        BY <3>3, <3>4
    <2>5. /\ new \in Seq(TaskRecord)
          /\ \A j \in DOMAIN new : new[j].issued = 0 /\ new[j].pc # "ended" /\ new[j].gen = current
      <3> HIDE DEF presses
      <3> QED
        BY <2>2, <2>4
    <2> HIDE DEF new
    <2>6. \A j \in DOMAIN new : new[j].issued = 0 /\ new[j].pc # "ended" /\ new[j].gen \in DOMAIN outbox
      BY <1>0, <2>5
    <2> QED
      BY <2>1, <2>5, <2>6, NewTasksCommands
  <1>3. CASE TakeBroken \/ Commit
    <2>1. UNCHANGED <<taken, toMain, outbox, tasks>> /\ taken' \in Seq(Effect)
      BY <1>3 DEF TakeBroken, Commit, main, dispatching, CommandInv, TrailOK
    <2> QED
      BY <2>1, CommandsStay
  <1>4. CASE TakeStop
    <2>1. UNCHANGED <<taken, toMain, outbox>> /\ taken' \in Seq(Effect)
      BY <1>4 DEF TakeStop, main, CommandInv, TrailOK
    <2>2. tasks' = [t \in DOMAIN tasks |->
                      [tasks[t] EXCEPT !.pc = IF @ = "ended" THEN @ ELSE "dropped"]]
      BY <1>4 DEF TakeStop
    <2>3. \A t \in DOMAIN tasks : /\ tasks'[t].gen = tasks[t].gen /\ tasks'[t].issued = tasks[t].issued
                                  /\ tasks'[t].pc \in {"ended", "string"} => tasks'[t].pc = tasks[t].pc
      <3> TAKE t \in DOMAIN tasks
      <3>1. PICK r \in TaskRecord : r = tasks[t]
        BY DEF LuaTypes, TasksOK
      <3>2. PICK pc : pc = (IF r.pc = "ended" THEN r.pc ELSE "dropped")
        OBVIOUS
      <3>3. tasks'[t] = [r EXCEPT !.pc = pc]
        BY <2>2, <3>1, <3>2 DEF TaskRecord
      <3>4. /\ tasks'[t].gen = r.gen /\ tasks'[t].issued = r.issued /\ tasks'[t].pc = pc
        BY <3>3 DEF TaskRecord
      <3> QED
        BY <3>1, <3>2, <3>4
    <2> QED
      BY <2>1, <2>2, <2>3, CommandsStay
  <1> QED
    BY <1>1, <1>2, <1>3, <1>4, ReloadCommands, AnnounceCommands DEF Worker

LEMMA PoolCommands ==
  ASSUME LuaTypes, CommandInv, JobsOK, Pool
  PROVE  CommandInv'
  <1>1. UNCHANGED <<taken, toMain, outbox>>
    BY DEF Pool, TakeJob, EndJob, main
  <1>2. ASSUME NEW u \in DOMAIN tasks, NEW pc \in {"executing", "woken"},
               tasks' = [tasks EXCEPT ![u].pc = pc]
        PROVE  CommandInv'
    <2>1. tasks[u] \in TaskRecord
      BY DEF LuaTypes, TasksOK
    <2>2. PICK r : r = [tasks[u] EXCEPT !.pc = pc]
      OBVIOUS
    <2>3. r.gen = tasks[u].gen /\ r.issued = tasks[u].issued /\ r.pc \notin {"ended", "string"}
      BY <2>1, <2>2 DEF TaskRecord
    <2>4. tasks' = [tasks EXCEPT ![u] = r]
      BY <1>2, <2>2
    <2> QED
      BY <1>1, <2>3, <2>4, GoesOnCommands
  <1>3. CASE TakeJob
    <2>1. PICK i \in DOMAIN jobs : tasks' = [tasks EXCEPT ![jobs[i]].pc = "executing"]
      BY <1>3 DEF TakeJob
    <2>2. jobs[i] \in DOMAIN tasks
      BY DEF JobsOK
    <2> QED
      BY <1>2, <2>1, <2>2
  <1>4. ASSUME NEW t \in DOMAIN tasks, EndJob(t)
        PROVE  CommandInv'
    <2>1. tasks' = [tasks EXCEPT ![t].pc = "woken"]
      BY <1>4 DEF EndJob
    <2> QED
      BY <1>2, <2>1
  <1> QED
    BY <1>3, <1>4 DEF Pool

LEMMA MainCommands ==
  ASSUME LuaTypes, CommandInv, User \/ Frame \/ Stop \/ UNCHANGED vars
  PROVE  CommandInv'
  <1>1. taken \in Seq(Effect) /\ toMain \in Seq(Effect)
    BY DEF CommandInv, TrailOK, LuaTypes, ChannelsOK
  <1>2. CASE Serve
    <2>1. UNCHANGED <<taken, toMain, outbox>>
      BY <1>2 DEF Serve, main
    <2>2. PICK answer \in [Reads -> {"ok", "failed"}] :
             tasks' = [t \in DOMAIN tasks |-> IF t \in ToSet(requests)
                   THEN [tasks[t] EXCEPT !.answer = answer[tasks[t].on]] ELSE tasks[t]]
      BY <1>2 DEF Serve
    <2>3. \A t \in DOMAIN tasks : /\ tasks'[t].gen = tasks[t].gen /\ tasks'[t].issued = tasks[t].issued
                                  /\ tasks'[t].pc = tasks[t].pc
      <3> TAKE t \in DOMAIN tasks
      <3>1. tasks[t] \in TaskRecord
        BY DEF LuaTypes, TasksOK
      <3>2. PICK a : a = answer[tasks[t].on]
        OBVIOUS
      <3>3. tasks'[t] = [tasks[t] EXCEPT !.answer = a] \/ tasks'[t] = tasks[t]
        BY <2>2, <3>2
      <3> QED
        BY <3>1, <3>3 DEF TaskRecord
    <2> QED
      BY <1>1, <2>1, <2>2, <2>3, CommandsStay
  <1>3. CASE Drain
    <2>1. taken' = Then(taken, toMain) /\ toMain' = <<>> /\ UNCHANGED <<tasks, outbox>>
      BY <1>3 DEF Drain, dispatching, Then
    <2>2. PICK sent : sent = Then(taken, toMain)
      OBVIOUS
    <2>3. IsTrail(sent) /\ Then(sent, <<>>) = sent
      <3>1. IsTrail(taken) /\ IsTrail(toMain)
        BY <1>1 DEF IsTrail
      <3>2. IsTrail(sent)
        BY <2>2, <3>1, ThenIs
      <3> QED
        BY <3>2, ThenIs
    <2>4. taken' \in Seq(Effect) /\ taken' \o toMain' = taken \o toMain
      BY <2>1, <2>2, <2>3 DEF IsTrail, Then
    <2> QED
      BY <2>1, <2>4, CommandsStay
  <1>4. CASE ~Serve /\ ~Drain
    <2>1. UNCHANGED <<taken, toMain, outbox, tasks>>
      BY <1>4 DEF User, Exit, Observe, Press, Edit, Frame, SendBinds, SendReload, Stop, Poll, Leave,
                  vars, main, dispatching
    <2> QED
      BY <1>1, <2>1, CommandsStay
  <1> QED
    BY <1>2, <1>3, <1>4

LEMMA InitCommands == Init => CommandInv
  <1> SUFFICES ASSUME Init PROVE CommandInv
    OBVIOUS
  <1>1. tasks = <<>> /\ outbox = <<<<>>>> /\ taken = <<>> /\ toMain = <<>>
    BY DEF Init
  <1>2. DOMAIN tasks = {} /\ DOMAIN outbox = {1} /\ outbox[1] = <<>>
    BY <1>1
  <1>3. taken \in Seq(Effect) /\ taken \o toMain = <<>> /\ ToSet(taken \o toMain) = {}
    BY <1>1 DEF ToSet
  <1> QED
    BY <1>2, <1>3 DEF CommandInv, TrailOK, OutboxOK, Unissued

LEMMA NextCommands == ChordInv /\ BatchInv /\ CommandInv /\ [Next]_vars => CommandInv'
  <1> SUFFICES ASSUME ChordInv, BatchInv, CommandInv, [Next]_vars PROVE CommandInv'
    OBVIOUS
  <1>1. LuaTypes
    BY DEF ChordInv
  <1>2. CASE Pool
    <2>1. UNCHANGED worker /\ worker # "done"
      BY <1>2 DEF Pool, TakeJob, EndJob, runtimes
    <2>2. JobsOK
      BY <2>1 DEF BatchInv
    <2> QED
      BY <1>1, <1>2, <2>2, PoolCommands
  <1> QED
    BY <1>1, <1>2, StepCommands, WorkerCommands, MainCommands DEF Next

\* Each command a handler queues is on its way to the bus or on it exactly once
\* and in the order of the handler, and none is left behind in an outbox that
\* nobody drains: for any scripts, handlers that overlap in any number, and
\* reloads between a dispatch and its end.
THEOREM CommandsArriveOnce == Spec => []CommandsOnce
  <1>1. CommandInv => CommandsOnce
    BY DEF CommandInv, OutboxOK, CommandsOnce, Path, Whole
  <1> QED
    BY <1>1, InitChords, NextChords, InitBatch, NextBatch, InitCommands, NextCommands, PTL DEF Spec
=============================================================================
