----------------------------- MODULE LuaWorker -----------------------------
(***************************************************************************)
(* The thread the Lua interpreter runs on and the main thread it talks to: *)
(* the queue of work (ToLua), the tasks that run one handler each and      *)
(* suspend on world reads and on programs they run, the caches shared by   *)
(* overlapping handlers, the outbox, the reload of an edited script, and   *)
(* the stop at exit.  The interpreter is single-threaded: a task runs from *)
(* one await to the next in one step (two where it only takes an answer),  *)
(* and no task runs during a reload.  The store of paneru.state is the     *)
(* module ScriptState.                                                     *)
(***************************************************************************)
EXTENDS Naturals, Sequences, FiniteSets, SequencesExt

CONSTANTS Scripts,      \* what the script file may hold, the empty script included
          Empty,        \* the script with nothing in it
          Broken,       \* a script file that does not load
          Events,       \* events of the window manager
          Observable,   \* those a script can listen to
          Listeners,    \* Listeners[s][e]: how many handlers s registers for e
          Binds,        \* Binds[s]: how many chords s binds, numbered from 1
          Strings,      \* Strings[s]: the chords bound to a command string
          Setup,        \* Setup[s]: the configuration s declares, or NoConfig
          NoConfig,
          MaxSends,     \* bound: events and key presses
          MaxEdits,     \* bound: edits of the script file
          MaxCommands,  \* bound: commands queued by one handler
          ExecWorkers,  \* threads of the paneru.exec pool of one runtime
          GracePolls    \* polls of the worker at exit

ASSUME LuaAssumption ==
  /\ Empty \in Scripts /\ Broken \notin Scripts /\ Observable \subseteq Events
  /\ Listeners \in [Scripts -> [Observable -> Nat]] /\ Binds \in [Scripts -> Nat]
  /\ ExecWorkers \in Nat \ {0} /\ GracePolls \in Nat
  /\ {MaxSends, MaxEdits, MaxCommands} \subseteq Nat

VARIABLES
  applied,    \* the configuration in force
  pressed,    \* Command::Lua messages not yet handed to the worker
  changed,    \* a change notice of the script file is unread
  taken,      \* the effects the main thread has taken, the commands for the bus
  phase,      \* "running", "stopping", "gone"
  polls,      \* polls of the worker since the stop
  toLua, toMain, requests,   \* the channels
  keybinds,   \* the runtime whose chords the event tap looks up
  hasHandlers, built,        \* the other shared cells
  disk,       \* the script file
  loaded,     \* the scripts of the runtimes built so far, oldest first
  current,    \* the runtime new work is run against
  worker,     \* "idle", "announcing", "committing", "stuck", "done"
  tasks, outbox, jobs,
  cache,      \* the kinds of reads an answer is kept of
  waiting,    \* per kind: the reader and who queues behind it
  sends, edits   \* counters of the bounds

main == <<applied, pressed, changed, taken, phase, polls, sends>>
shared == <<keybinds, hasHandlers, built>>
runtimes == <<disk, edits, loaded, current, worker>>
dispatching == <<tasks, outbox, cache, waiting, jobs>>
vars == <<main, toLua, toMain, requests, shared, runtimes, dispatching>>

-----------------------------------------------------------------------------
\* What a handler reads of the world, each kind cached and shared of its own.
Reads == {"set", "state"}

\* The messages to the worker.
EventWork(e) == [kind |-> "events", event |-> e]
BindWork(presses) == [kind |-> "binds", presses |-> presses]
ReloadWork == [kind |-> "reload"]
StopWork == [kind |-> "shutdown"]

\* The side effects on their way back.
CommandEffect(c) == [kind |-> "command", command |-> c]
ConfigEffect == [kind |-> "config"]
Effects(commands) == [i \in DOMAIN commands |-> CommandEffect(commands[i])]

\* A handler started for an event or a chord; `chord` is the runtime whose
\* chord was pressed, 0 for an event.
Task(g, chord, pc) == [gen |-> g, chord |-> chord, pc |-> pc, on |-> "set",
                       answer |-> "none", issued |-> 0]

\* The runtime a script builds: its handlers of an event, its configuration.
On(s, e) == Listeners[s][e]
SetupOf(s) == Setup[s]
Registers(s) == \E e \in Observable : On(s, e) > 0
Loads(s) == s # Broken
LoadedFirst(s) == IF Loads(s) THEN s ELSE Empty
Runtime == loaded[current]

\* Tasks that entered the dispatch world and have not left it.
Suspended == {t \in DOMAIN tasks : tasks[t].pc \in {"reading", "joined"}}
InFlight == Suspended
            \cup {t \in DOMAIN tasks : tasks[t].pc \in {"woken", "failed", "queued", "executing"}}

Running == phase = "running"
Free == worker = "idle"
-----------------------------------------------------------------------------
\* Task t asks for a read of kind k: the cached answer if there is one, else a
\* request if nobody is reading, else a place in the queue behind the reader.
Get(t, k, task) ==
  \/ /\ k \in cache
     /\ tasks' = [tasks EXCEPT ![t] = [task EXCEPT !.on = k, !.pc = "woken"]]
     /\ UNCHANGED <<waiting, requests>>
  \/ /\ k \notin cache /\ waiting[k] = {}
     /\ tasks' = [tasks EXCEPT ![t] = [task EXCEPT !.on = k, !.pc = "reading"]]
     /\ waiting' = [waiting EXCEPT ![k] = {t}]
     /\ requests' = Append(requests, t)
  \/ /\ k \notin cache /\ waiting[k] # {}
     /\ tasks' = [tasks EXCEPT ![t] = [task EXCEPT !.on = k, !.pc = "joined"]]
     /\ waiting' = [waiting EXCEPT ![k] = @ \cup {t}]
     /\ UNCHANGED requests

\* dispatch_event, dispatch_bind: a handler function enters and is handed a
\* window set first; a command string goes straight to the outbox.
Start(t) ==
  /\ Free /\ tasks[t].pc = "spawned"
  /\ Get(t, "set", tasks[t])
  /\ UNCHANGED <<main, toLua, toMain, shared, runtimes, outbox, cache, jobs>>

\* The reader takes the answer: a good one is cached, and whoever queued up
\* behind it is handed the same.
WokenReader(k) == {t \in waiting[k] : tasks[t].pc = "reading"}
Woken(k) == waiting[k]
Kept(k, answer) == IF answer = "ok" THEN cache \cup {k} ELSE cache

Deliver(t) ==
  LET k == tasks[t].on
      answer == tasks[t].answer
  IN /\ Free /\ tasks[t].pc = "reading" /\ answer # "none"
     /\ cache' = Kept(k, answer)
     /\ waiting' = [waiting EXCEPT ![k] = {}]
     /\ tasks' = [u \in DOMAIN tasks |->
                    IF u \in Woken(k)
                    THEN [tasks[u] EXCEPT !.pc = IF answer = "ok" THEN "woken" ELSE "failed",
                                           !.answer = "none"] ELSE tasks[u]]
     /\ UNCHANGED <<main, toLua, toMain, requests, shared, runtimes, outbox, jobs>>

\* The end of a dispatch.  Dropping the guard of the last one in flight drops
\* the reads of the batch; then what the outbox of its runtime holds goes to
\* the main thread, and the flag is published from that runtime.
ReleasedSet(t) == IF InFlight \subseteq {t} THEN cache \ {"set"} ELSE cache
Released(t) == IF InFlight \subseteq {t} THEN {} ELSE cache
Newest(g) == current
Own(g) == g

Ended(task, n) == [task EXCEPT !.pc = "ended", !.on = "set", !.issued = @ + n]

Finish(t, queued) ==
  LET g == tasks[t].gen
      out == [outbox EXCEPT ![g] = @ \o queued]
      from == Own(g)
  IN /\ tasks' = [tasks EXCEPT ![t] = Ended(@, Len(queued))]
     /\ cache' = Released(t)
     /\ toMain' = toMain \o Effects(out[from])
     /\ outbox' = [out EXCEPT ![from] = <<>>]
     /\ hasHandlers' = Registers(loaded[g])
     /\ UNCHANGED <<main, toLua, requests, keybinds, built, runtimes, waiting, jobs>>

\* A command string bound to a chord, and a chord the runtime does not have.
RunString(t) ==
  /\ Free /\ tasks[t].pc = "string"
  /\ Finish(t, <<<<t, 1>>>>)
NoHandler(t) ==
  /\ Free /\ tasks[t].pc = "unbound"
  /\ Finish(t, <<>>)

\* A handler runs on to its next await.  It queues commands and then reads the
\* query documents, or runs a program, or returns (the operations recorded on
\* the window set it returns are its last command) or fails.
Queued(t, n) == [i \in 1..n |-> <<t, tasks[t].issued + i>>]
Answered(t) == Free /\ tasks[t].pc = "woken"
Left(t) == 0..(MaxCommands - tasks[t].issued)

Return(t) == Answered(t) /\ \E n \in Left(t) : Finish(t, Queued(t, n))

\* A read that failed: the handler of a window set is not run, a query raises
\* an error that ends the handler.
Abort(t) ==
  /\ Free /\ tasks[t].pc = "failed"
  /\ Finish(t, <<>>)

\* A query is a suspension only when it is not cached yet.
Query(t) ==
  /\ Answered(t) /\ "state" \notin cache
  /\ \E n \in Left(t) :
       /\ Get(t, "state", [tasks[t] EXCEPT !.issued = @ + n])
       /\ outbox' = [outbox EXCEPT ![tasks[t].gen] = @ \o Queued(t, n)]
  /\ UNCHANGED <<main, toLua, toMain, shared, runtimes, cache, jobs>>

\* paneru.exec: a job for the pool of the runtime, whose threads take jobs in
\* order; the handler goes on when the program has ended.
Exec(t) ==
  /\ Answered(t)
  /\ tasks' = [tasks EXCEPT ![t].pc = "queued"]
  /\ jobs' = Append(jobs, t)
  /\ UNCHANGED <<main, toLua, toMain, requests, shared, runtimes, outbox, cache, waiting>>

Executing(g) == {t \in DOMAIN tasks : tasks[t].pc = "executing" /\ tasks[t].gen = g}
TakeJob ==
  /\ worker # "done" /\ phase # "gone"
  /\ \E i \in DOMAIN jobs :
       LET g == tasks[jobs[i]].gen
       IN /\ \A j \in 1..(i - 1) : tasks[jobs[j]].gen # g
          /\ Cardinality(Executing(g)) < ExecWorkers
          /\ tasks' = [tasks EXCEPT ![jobs[i]].pc = "executing"]
          /\ jobs' = RemoveAt(jobs, i)
  /\ UNCHANGED <<main, toLua, toMain, requests, shared, runtimes, outbox, cache, waiting>>

EndJob(t) ==
  /\ worker # "done" /\ phase # "gone"
  /\ tasks[t].pc = "executing"
  /\ tasks' = [tasks EXCEPT ![t].pc = "woken"]
  /\ UNCHANGED <<main, toLua, toMain, requests, shared, runtimes, outbox, cache, waiting, jobs>>

\* A handler that loops forever never gives the thread back.
Spin(t) ==
  /\ Answered(t)
  /\ worker' = "stuck"
  /\ UNCHANGED <<main, toLua, toMain, requests, shared, disk, edits, loaded, current, dispatching>>

-----------------------------------------------------------------------------
\* The worker takes the next message: a task for each handler whose filter lets
\* the event through, one for each chord, a reload, or the stop.
Captured == 1
Latest == current

Take(message) == Free /\ phase # "gone" /\ toLua # <<>> /\ Head(toLua) = message
                 /\ toLua' = Tail(toLua)

TakeEvents ==
  /\ \E e \in Observable :
       /\ Take(EventWork(e))
       /\ \E n \in 0..On(Runtime, e) :
            tasks' = tasks \o [i \in 1..n |-> Task(Latest, 0, "spawned")]
  /\ UNCHANGED <<main, toMain, requests, shared, runtimes, outbox, cache, waiting, jobs>>

\* The callback a chord runs is looked up by its number in the runtime that
\* runs it.
Callback(id) == IF id > Binds[Runtime] THEN "unbound"
                ELSE IF id \in Strings[Runtime] THEN "string" ELSE "spawned"

TakeBinds ==
  /\ toLua # <<>> /\ Head(toLua).kind = "binds"
  /\ Take(Head(toLua))
  /\ LET presses == Head(toLua).presses
     IN tasks' = tasks \o [i \in DOMAIN presses |->
                             Task(Latest, presses[i].gen, Callback(presses[i].id))]
  /\ UNCHANGED <<main, toMain, requests, shared, runtimes, outbox, cache, waiting, jobs>>

\* A reload builds a runtime from the file as it is now.  A file that does not
\* load changes nothing; one that does publishes its chords and its
\* configuration, announces the configuration, and then replaces the runtime.
TakeBroken ==
  /\ Take(ReloadWork) /\ ~Loads(disk)
  /\ hasHandlers' = Registers(Runtime)
  /\ UNCHANGED <<main, toMain, requests, keybinds, built, runtimes, dispatching>>

Unpublished(s) == built
Published(s) == IF SetupOf(s) = NoConfig THEN built ELSE SetupOf(s)
Built == Len(loaded) + 1

TakeReload ==
  /\ Take(ReloadWork) /\ Loads(disk)
  /\ loaded' = Append(loaded, disk)
  /\ outbox' = Append(outbox, <<>>)
  /\ keybinds' = Built
  /\ built' = Published(disk)
  /\ worker' = "announcing"
  /\ UNCHANGED <<main, toMain, requests, hasHandlers, disk, edits, current,
                 tasks, cache, waiting, jobs>>

Announce ==
  /\ worker = "announcing"
  /\ toMain' = IF SetupOf(Last(loaded)) = NoConfig THEN toMain ELSE Append(toMain, ConfigEffect)
  /\ worker' = "committing"
  /\ UNCHANGED <<main, toLua, requests, shared, disk, edits, loaded, current, dispatching>>

Commit ==
  /\ worker = "committing"
  /\ current' = Len(loaded)
  /\ hasHandlers' = Registers(Last(loaded))
  /\ worker' = "idle"
  /\ UNCHANGED <<main, toLua, toMain, requests, keybinds, built, disk, edits, loaded, dispatching>>

\* Shutdown ends the loop and drops the executor with every task in it.
TakeStop ==
  /\ Take(StopWork)
  /\ worker' = "done"
  /\ tasks' = [t \in DOMAIN tasks |-> [tasks[t] EXCEPT !.pc = IF @ = "ended" THEN @ ELSE "dropped"]]
  /\ cache' = {}
  /\ UNCHANGED <<main, toMain, requests, shared, disk, edits, loaded, current,
                 outbox, waiting, jobs>>
-----------------------------------------------------------------------------
\* The main thread.  serve_lua_queries answers what is waiting from one
\* extraction of each kind, or with the error of that extraction.
Serve ==
  /\ Running /\ requests # <<>>
  /\ \E answer \in [Reads -> {"ok", "failed"}] :
       tasks' = [t \in DOMAIN tasks |-> IF t \in ToSet(requests)
                   THEN [tasks[t] EXCEPT !.answer = answer[tasks[t].on]] ELSE tasks[t]]
  /\ requests' = <<>>
  /\ UNCHANGED <<main, toLua, toMain, shared, runtimes, outbox, cache, waiting, jobs>>

\* drain_lua_outbox: commands go to the bus; a changed configuration is read from
\* the shared cell and applied.
Drain ==
  /\ Running /\ toMain # <<>>
  /\ taken' = taken \o toMain
  /\ applied' = IF ConfigEffect \in ToSet(toMain) THEN built ELSE applied
  /\ toMain' = <<>>
  /\ UNCHANGED <<pressed, changed, phase, polls, sends, toLua, requests, shared,
                 runtimes, dispatching>>

\* dispatch_lua_events: nothing is sent for an event scripts cannot see, nor
\* while the flag says that nobody listens.
Visible(e) == e \in Observable
Forwards(e) == hasHandlers /\ Visible(e)

Observe(e) ==
  /\ Running /\ sends < MaxSends
  /\ sends' = sends + 1
  /\ toLua' = IF Forwards(e) THEN Append(toLua, EventWork(e)) ELSE toLua
  /\ UNCHANGED <<applied, pressed, changed, taken, phase, polls, toMain, requests, shared,
                 runtimes, dispatching>>

\* The event tap turns a chord into the number it has in the published table;
\* command_lua_handler hands the numbers of a frame to the worker.
Chords == 1..Binds[loaded[keybinds]]
Press(id) ==
  /\ Running /\ sends < MaxSends
  /\ sends' = sends + 1
  /\ pressed' = Append(pressed, [id |-> id, gen |-> keybinds])
  /\ UNCHANGED <<applied, changed, taken, phase, polls, toLua, toMain, requests, shared,
                 runtimes, dispatching>>

SendBinds ==
  /\ Running /\ pressed # <<>>
  /\ toLua' = Append(toLua, BindWork(pressed))
  /\ pressed' = <<>>
  /\ UNCHANGED <<applied, changed, taken, phase, polls, sends, toMain, requests, shared,
                 runtimes, dispatching>>

\* The user edits the script, and the watcher's notice asks for a reload.
Edit(s) ==
  /\ Running /\ edits < MaxEdits
  /\ disk' = s /\ edits' = edits + 1 /\ changed' = TRUE
  /\ UNCHANGED <<applied, pressed, taken, phase, polls, sends, toLua, toMain, requests,
                 shared, loaded, current, worker, dispatching>>

SendReload ==
  /\ Running /\ changed
  /\ changed' = FALSE
  /\ toLua' = Append(toLua, ReloadWork)
  /\ UNCHANGED <<applied, pressed, taken, phase, polls, sends, toMain, requests, shared,
                 runtimes, dispatching>>

\* Dropping the handle at exit: ask the worker to stop, poll it for a while,
\* join it if it ended and detach it if it did not;
\* the channels and what is in them go with the process.
Exit ==
  /\ Running
  /\ phase' = "stopping"
  /\ toLua' = Append(toLua, StopWork)
  /\ UNCHANGED <<applied, pressed, changed, taken, polls, sends, toMain, requests, shared,
                 runtimes, dispatching>>

NeverGivesUp == worker = "done"
Over == worker = "done" \/ polls >= GracePolls

Poll ==
  /\ phase = "stopping" /\ worker # "done" /\ polls < GracePolls
  /\ polls' = polls + 1
  /\ UNCHANGED <<applied, pressed, changed, taken, phase, sends, toLua, toMain, requests,
                 shared, runtimes, dispatching>>

Leave ==
  /\ phase = "stopping" /\ Over
  /\ phase' = "gone"
  /\ UNCHANGED <<applied, pressed, changed, taken, polls, sends, toLua, toMain, requests,
                 shared, runtimes, dispatching>>
-----------------------------------------------------------------------------
\* The first load: chords, configuration and flag are published before the
\* main thread goes on; a script that does not load leaves the empty one.
Init ==
  /\ disk \in Scripts \cup {Broken}
  /\ loaded = <<LoadedFirst(disk)>>
  /\ current = 1 /\ keybinds = 1 /\ worker = "idle"
  /\ hasHandlers = Registers(loaded[1]) /\ built = SetupOf(loaded[1])
  /\ applied = built
  /\ pressed = <<>> /\ changed = FALSE /\ taken = <<>>
  /\ phase = "running" /\ polls = 0
  /\ toLua = <<>> /\ toMain = <<>> /\ requests = <<>>
  /\ tasks = <<>> /\ outbox = <<<<>>>> /\ jobs = <<>>
  /\ cache = {} /\ waiting = [k \in Reads |-> {}]
  /\ sends = 0 /\ edits = 0

Step(t) == Start(t) \/ Deliver(t) \/ RunString(t) \/ NoHandler(t) \/ Return(t) \/ Abort(t)
           \/ Query(t) \/ Exec(t) \/ Spin(t)
Worker == TakeEvents \/ TakeBinds \/ TakeBroken \/ TakeReload \/ Announce \/ Commit \/ TakeStop
Pool == TakeJob \/ \E t \in DOMAIN tasks : EndJob(t)
User == Exit \/ (\E e \in Events : Observe(e)) \/ (\E id \in Chords : Press(id))
        \/ \E s \in Scripts \cup {Broken} : Edit(s)
Frame == Serve \/ Drain \/ SendBinds \/ SendReload
Stop == Poll \/ Leave

Next == (\E t \in DOMAIN tasks : Step(t)) \/ Worker \/ Pool \/ User \/ Frame \/ Stop

Spec == Init /\ [][Next]_vars

\* The main thread runs a frame while there is work for it and polls while it
\* stops; the worker's thread is scheduled, and its executor runs the tasks
\* that can run.  Nothing is assumed of the programs of paneru.exec, of
\* handlers that loop, nor of the user.
RunTask == \E t \in DOMAIN tasks : Start(t) \/ Deliver(t) \/ RunString(t) \/ NoHandler(t)
                                     \/ Return(t) \/ Abort(t)
FairSpec == Spec /\ WF_vars(Frame) /\ WF_vars(Stop) /\ WF_vars(Worker) /\ WF_vars(RunTask)
-----------------------------------------------------------------------------

\* Handlers overlap and share one outbox, yet each command a handler queued is
\* exactly once on its way to the bus or on it, in the order it was queued
\* (worker.rs, Task::finish), and an outbox no dispatch is left to drain is
\* empty.
Path(g) == taken \o toMain \o Effects(outbox[g])
From(t, effect) == effect.kind = "command" /\ effect.command[1] = t
InOrder(t, effects) ==
  \A i, j \in DOMAIN effects :
    i < j /\ From(t, effects[i]) /\ From(t, effects[j]) => effects[i].command[2] < effects[j].command[2]
CommandsOnce == phase # "gone" =>
  /\ \A t \in DOMAIN tasks :
       LET path == Path(tasks[t].gen)
       IN /\ InOrder(t, path)
          /\ {x \in ToSet(path) : From(t, x)} = {CommandEffect(<<t, i>>) : i \in 1..tasks[t].issued}
  /\ \A g \in DOMAIN outbox :
       (\A t \in DOMAIN tasks : tasks[t].gen = g => tasks[t].pc = "ended") => outbox[g] = <<>>

\* The reads handlers share belong to the batch of handlers in flight: an idle
\* interpreter keeps no answer of an earlier frame, and whoever queues behind
\* a read has a reader in flight whose answer will wake it (world.rs,
\* SharedRead and DispatchWorld).
Reading(k) == {t \in DOMAIN tasks : tasks[t].pc = "reading" /\ tasks[t].on = k}
Joined(k) == {t \in DOMAIN tasks : tasks[t].pc = "joined" /\ tasks[t].on = k}
BatchReads == worker # "done" =>
  /\ InFlight = {} => cache = {}
  /\ \A k \in Reads :
       /\ waiting[k] = Reading(k) \cup Joined(k)
       /\ waiting[k] # {} => Cardinality(Reading(k)) = 1 /\ k \notin cache
       /\ \A t \in Reading(k) : t \in ToSet(requests) <=> tasks[t].answer = "none"

\* A chord runs a callback of the runtime that published it or of a later one:
\* a reload never gets behind the presses that follow its chords.
BindsNotOlder == \A t \in DOMAIN tasks : tasks[t].gen >= tasks[t].chord

\* Once its announcement is drained the configuration in force is the one the
\* last script with a setup declared: an edit that drops the setup keeps it
\* (worker.rs, reload).
Declaring == {g \in DOMAIN loaded : Setup[loaded[g]] # NoConfig}
Declared == IF Declaring = {} THEN NoConfig ELSE Setup[loaded[Max(Declaring)]]
ConfigLands ==
  phase # "gone" /\ worker # "announcing" /\ ConfigEffect \notin ToSet(toMain) => applied = Declared

\* Every handler that waits for a read of the world goes on, whatever other
\* handlers wait for, unless a handler loops or the process ends.
TaskIds == 1..MaxSends
ReadsAnswered ==
  \A t \in TaskIds : (t \in Suspended) ~> (t \notin Suspended \/ worker = "stuck" \/ ~Running)

\* The exit is never held up by a script: the process goes away after the stop.
ExitEnds == phase = "stopping" ~> phase = "gone"
=============================================================================
