# A verification of paneru in TLA+

paneru is a tiling window manager for macOS, written in Rust on the Bevy entity
component system.  This directory holds TLA+ models of its core, the TLC
configurations that check them on small instances, and proofs that TLAPS checks
for every size.  Paths below are relative to the repository.

Contents: [the system](#the-system), [modules](#modules),
[how the models correspond to the code](#how-the-models-correspond-to-the-code),
[runs](#runs), [fairness](#fairness),
[what the code does not do](#what-the-code-does-not-do), [proofs](#proofs),
[not modelled](#not-modelled), [plan](#plan).

## The system

paneru runs as one Bevy app.  Its main thread repeats a frame: `PreUpdate`
(pump the event channel, run command handlers), `Update` (systems and observers
that change the layout), `PostUpdate` (commit positions to macOS, save state,
broadcast).  Every schedule runs on the `SingleThreadedExecutor`
(`src/ecs.rs:692`), yet two things are concurrent all the same:

- **Deferred commands.**  A system changes components in place, but spawning,
  despawning and adding or removing components goes through `Commands` and
  takes effect at a later synchronisation point.  Systems without an explicit
  order run in any order, so what one system decided may be stale when its
  commands are applied, and others act in between on the old picture.
- **The outside.**  macOS changes its spaces, windows, processes and displays at
  any time and tells later, in no fixed order; the Lua worker, the thread that
  names focused windows, socket clients and the input tap run on threads of
  their own.

| Component | State | Operations | Hard part | Correct when |
| --- | --- | --- | --- | --- |
| Layout strip (`src/ecs/layout.rs`) | columns of windows, stacks and tab groups; slots, sizes and positions | insert, append, group, stack, unstack, swap, remove; the layout chain | long sequences of calls over three kinds of column; a change made late in a frame is seen by the next | no window lost or displaced; columns well formed; at rest the windows are where the strip puts them |
| Virtual workspaces (`src/ecs/workspace.rs`) | rows per space, active and selected markers, window moves under way | switch, move, renumber, reap, space created, changed, destroyed | deferred commands, notification order | one row on screen, one selected per space, indices distinct, row 0 kept, windows in one row, view follows the OS, no row without a space |
| Window triggers and focus (`src/ecs/triggers.rs`, `src/ecs/focus.rs`) | `Unmanaged`, remembered row of a window, focused marker | discover, place, float, minimise, hide, close, focus, recover | events out of order; overlapping reasons to be unmanaged | each managed window is in one row, returns where it was, focus is that of macOS |
| Layout commands (`src/commands.rs`, `src/ecs/layout_ops.rs`) | none of their own | focus, swap, move, stack, float, resize, to next display; replay of scripted operations | operations on windows that have gone | what was asked for happens; no window is lost |
| Window set (`crates/shared_types/src/windowset.rs`) | a pure snapshot and its operations | transform, record | snapshot older than the layout | the replay gives the transformed layout where nothing interfered |
| Script state (`src/ecs/script_state.rs`, `src/lua/world.rs`) | key-value store, revision, worker's cached copy, file | get, set, mutate (compare-and-set), save, load | cache validity across threads; retries; exit | no lost update, no stale read, what is not saved is marked, every call returns |
| Lua worker (`src/lua/worker.rs`, `src/lua/runtime.rs`, `src/lua.rs`) | runtime, tasks in flight, caches of reads, outboxes, shared flags | load, reload, dispatch, read, exec, shutdown | reload with handlers in flight; shutdown with a read open | every command reaches the bus once; chords and configuration belong to the loaded script; waiting ends |
| Launch lifecycle (`src/ecs/systems.rs`, `src/manager/process.rs`) | fresh markers, timers, key-value observers | launched, ready, observed, scanned, timed out | two timers and two systems on the same entity | the start ends; windows are adopted; what ended leaves nothing |
| Displays, orphaned rows (`src/ecs/display.rs`, `src/ecs/workspace.rs`) | displays, timer of an orphaned row | add, remove, reparent, dissolve | timer against return; empty scans | rows follow their display; none that has one is despawned |
| Session restore (`src/ecs/restore.rs`, `src/ecs/state.rs`) | saved state, grace period | save, match, rebuild | windows arriving one by one; crash before a save | windows go back to their places, none is lost or doubled |
| Event pump (`src/ecs/systems.rs`) | channel, back-off | pump | budget, coalescing of mouse moves | order kept |
| Query and subscribe (`src/commands/query.rs`) | subscribers, cache of what was sent | subscribe, broadcast | slow and dead readers | changes reach every reader that keeps up |
| Mouse, overlays, configuration, IPC, menu bar, OS bindings | | | geometry, parsing and foreign-function code | see [not modelled](#not-modelled) |

How they interact: OS callbacks and socket requests enter one channel;
`pump_events` turns it into messages; handlers and observers change rows and
strips; the layout systems compute positions from the strips; commit systems
push them to macOS, which answers with further notifications.  The Lua worker
gets events over a channel and returns commands to the same message bus; its
handlers read a snapshot of the layout and hand back operations on it.

## Modules

| Module | What it is |
| --- | --- |
| `VirtualWorkspaces` | The rows, their markers, window moves, spaces and notifications, under the frame schedule with deferred commands, and the OS as environment. |
| `Filters` | What a filter leaves of a sequence, in a form that proofs can expand. |
| `Columns` | Pure operators: the operations of `LayoutStrip` on a sequence of columns. |
| `StripOrder` | The abstract promise of a strip: an order of windows in which a step places one block, releases one window or exchanges two blocks. |
| `LayoutStrip` | A strip under every call its users make; implements `StripOrder`. |
| `StripGeometry` | Pure operators: widths, stack heights and the slots of a strip. |
| `StripView` | One row of a display from a command to the frames macOS gets: the layout chain, scrolling and the animators. |
| `WindowLife` | The windows paneru knows, which are tiled, and the focus, against a macOS that tells late. |
| `WindowSet` | Pure operators: the window set of scripts and the operations it records. |
| `LayoutOps` | Snapshot, transformation and replay of a script's operations on a layout that has changed since. |
| `ScriptOps` | The calls of `paneru.state`, its values and its size limit. |
| `ScriptStore` | The abstract promise of `paneru.state`: one atomic store, saved now and then. |
| `ScriptState` | The store on the main thread, the channel and the copy of the Lua worker, retries, clients, saving and restart; implements `ScriptStore`. |
| `LuaWorker` | The interpreter's thread: queue, tasks, reads, programs, outboxes, reload and exit. |
| `Session` | Saving the layout, and matching and rebuilding it at the next start. |
| `Launch` | Processes, their applications and windows, from launch to end, with timeouts. |
| `Displays` | Displays that come and go, and the rows on them. |
| `Arrivals` | `Launch` and `Displays` under the one system that drives all timers. |

Composition: `LayoutStrip`, `StripGeometry`, `StripView`, `LayoutOps` and
`Session` are made of `Columns`; `Columns` and `WindowLife` filter with
`Retained` of `Filters`; `LayoutOps` takes the values of scripts from
`WindowSet`; `Arrivals` extends `Launch` and instantiates `Displays`, and joins
their ticker actions into one step of `timeout_ticker`.  `VirtualWorkspaces` and
`WindowLife` abstract the columns of a row (to its set, or its sequence, of
windows): which row a window is in is their question, the order inside is that
of `LayoutStrip`.  `ScriptState` and `LuaWorker` share the frame but no state.

`MCVirtualWorkspaces`, `MCLayoutStrip`, `MCStripView`, `MCWindowLife`,
`MCLayoutOps`, `MCScriptState`, `MCLuaWorker`, `MCSession` and `MCArrivals` give
the instances for TLC.  The theorems are in modules of their own:
`VirtualWorkspaces_proofs`; `LayoutStrip_proofs`, `WindowLife_proofs` and
`LayoutOps_proofs`, all on top of `Sequences_proofs`, the lemmas about
sequences, filters and folds of any length; `ScriptState_proofs`;
`LuaWorker_proofs`; `Arrivals_proofs`.

Operators named `Mutant_X` are `X` with a mistake a programmer could make.  No
definition uses them; putting one in the place of `X` must make the run named
in `PROJECT.json` fail, which shows that the property is able to fail.

## How the models correspond to the code

`PROJECT.json` maps each definition to its lines.  The main correspondences:

**Strip.**  `Column::Single`, `Column::Tabs` and `Column::Stack` are a sequence
of items; the kind is derived from it, and `Column::Fullscren` carries a mark.
Indices start from 1.  Each action of `LayoutStrip` is one public method as its
callers use it; a guard like `w \in Absent` comes from the caller (which takes
the window out first) and the map names that caller.

**Rows.**  `live`, `space`, `index` and `wins` are the entities with a
`LayoutStrip`, its id, its `virtual_index` and its windows.  `active`,
`selected`, `parked` and `home` are the components `ActiveWorkspaceMarker`,
`SelectedVirtualMarker`, `PreviousStripPosition` and `NativeFullscreenMarker`.
`marks` are the `VirtualMoveMarker`s.  `fresh` and `unnumbered` are Bevy's
change detection: the systems for which `Added<ActiveWorkspaceMarker>`, or
`Added<LayoutStrip>`, still matches.  A system that takes `Single<Entity,
Added<..>>` is skipped when nothing matches, and is not skipped before it has
seen the addition.

**Frame.**  `phase` is the schedule, `ran` the systems that have run in it.
`Run(x, phase)` gives system `x` its one run.  A handler that would find nothing
to do is not an action; `Pending` says which systems must have run before the
schedule ends.  `queue` holds the deferred commands; `Apply` applies one with
all the observers it sets off, which is what Bevy does before it takes the next.
`Sync` is a synchronisation point that Bevy inserts inside `Update` between
systems that are ordered: where it falls relative to the unordered ones depends
on the built schedule, so it may fall anywhere.  The systems that were idle
before it may already have had their run, which `excused` records.

**Environment.**  `osSpaces`, `osSpace` and `osWin` are the truth of the window
server.  `sent` are notifications on their way; `Pump` delivers any of them, so
they are reordered and delayed at will, and a notification sent twice before it
is delivered is one.  The focus is not a variable: macOS may move it at any
time, so a handler that reads the focused window finds any.

**Script state.**  `store`, `revision` and `dirty` are the fields of
`ScriptStateStore`, `file` is `script-state.json`, `cached` the stamped copy in
`DispatchWorld`.  `requests` is the channel of `StoreRequest`s, in order; an entry
is its caller, and `call` says what it asks for, at which stamp, and which
attempt it is.  A handler runs between two `await`s without interruption by
another handler, but the main thread may do anything meanwhile, so a call is
split at each `await` and at each read of what the main thread may change:
`Look` (the stamp is read, and with it the copy is used or a request made),
`Receive` (the copy is replaced), `Send`.  The read of the stamp and the sending
of the request are one step, since what falls between them could as well fall
before the request is served; so are the answer to a write and what the caller
makes of it, which reads nothing shared.  `phase` has the places where handlers
are served: before the pump (`"pre"`) and in `PostUpdate` (`"post"`), each until the
channel is found empty.  `Handle` answers a client; `script_state_handler` is in
`PreUpdate` with no order relative to the worker's place, so it may come in
`"pre"` or after it, before `Update`.  `Update` is the timed save, which may fail.
`Restart` is a crash or an exit: all is lost but the file.  A null stored by the
command line is nil in Lua; an embedded handler still compares with the null,
a client with nothing, and so loses its first attempt.

**Strip view.**  `slot`, `size` and `pos` are the `LayoutPosition`, `Bounds` and
`Position` of a window, `resize`, `move`, `around`, `ensure` and `wide` its
markers, `view` the position, goal, manual offset, parked place and scroll of the
strip.  A command leaves markers; `Frame` is one run of the layout chain and the
animators, in the order of the schedule.  `touched`, `resized` and `stray` are
what change detection sees in the next frame.  `astray` and `unseen` are
history: windows that something outside the chain moved and that no pass has
placed since.  Lengths are whole pixels; an animation takes one frame.

**Windows and focus.**  `os` is the truth: windows open, minimised, hidden, the
front application and the focus of each.  `naming` are the notifications the
resolver thread has yet to put a window to; `channel`, `inbox`, `todo` and `cmds`
are the event channel, the events of the frame, the systems still to run in it
and their deferred commands.  `Begin` starts a frame, `Run` runs one system on
the world as it was committed, `Sync` applies the commands with the observers
they fire, `Post` ends the frame.  `world` is the ECS: known and fresh windows,
rows, `Unmanaged`, `PreviousManagedStrip`, the focused marker and what was asked
of macOS.

**Scripted operations.**  `handler` is the window set a running handler holds,
`batches` the recorded operations on their way; `Replay` edits the strips at
once, while `cmds`, `marks`, `views` and `asking` take effect in steps of their
own.  `fresh` and `promise` say whether anything else happened since the
snapshot, which is when a prediction can be held against the result.

**Lua worker.**  `toLua`, `toMain` and `requests` are the channels; `tasks` one
record per handler with its place between two `await`s; `cache` and `waiting` the
answers handlers share and who queues behind a read under way; `outbox` one per
runtime; `keybinds`, `hasHandlers` and `built` the cells shared with the other
threads.  `worker` is where the thread is: a reload announces the configuration
and then commits, and no task runs during it.  `Frame` and `Stop` are the main
thread.

**Session.**  `phase` is down, `Initializing` or up; `rows`, `known`, `added` and
`aside` are the strips and the windows with an entity, with `Added<Window>` and
with `Unmanaged`; `file` is the state file, `state` and `session` the resources
read from it.  `Start` makes the rows of each space and tiles what the spaces
show, `FinishSetup` restores, `Discover` and `Place` take a late window and run
the restore again while the grace period lasts, `Save`, `Exit` and `Crash` are
what happens to the file.

**Launch and displays.**  `proc` and `app` are the entities of a process and its
application with their fresh marker and timer; `heard` and `watched` the
observers; `tasks` and `gate` the searches for windows on other spaces and their
permits; a despawn waits in `doomed` for `Flush`.  In `Displays`, `attached`,
`home` and `front` are what macOS has, `ents`, `active` and `parent` what the ECS
has, `timer` the `Timeout` of orphaned rows, `news` the unread events.  A timer
runs out at any time after it was set.

**Choices left open.**  Which of several equal rows comes first in an unstable
or unspecified order (query iteration); which window a remembered focus or
neighbour is; the position in a row where `VirtualWorkspaces` keeps a set;
which frame an input falls in.

## Runs

Each run gives TLC one instance.  `Inputs` (or `World`, `Asks`) selects what
reaches the program, so that each run can afford the sizes its question needs.

| Run | Bounds | Distinct states | Shows |
| --- | --- | --- | --- |
| `strip` | 3 windows | 283 | `ColumnShapes`, `WalkReachesNextColumn`, and the refinement `KeepsOrder` of `StripOrder`. Three windows give a stack of a tab group and a window, a stack of three, and a stack beside a column: the shapes the operations tell apart. |
| `rows` | 1 space, up to 3 rows, 2 windows, indices 0..2 | 546 420 | `NoSilentDuplicate`, `OneSelected`, `RowZeroKept` with rows made, renumbered and reaped; two moves to the same missing row fall in one frame. |
| `fixed_rows` | 2 spaces with 2 rows each, 1 window | 1 514 012 | `WindowsOnce`, `NoWindowLost` under scripted moves, drags between spaces, swipes and focus events. |
| `spaces` | up to 2 ordinary and 1 full-screen space, up to 3 rows, 1 window | 1 364 551 | `OneActive`, `NoGhostRows` when spaces are made and destroyed and the news comes in any order. |
| `swipes` | 2 spaces, up to 3 rows, 1 window | 46 084 | `FollowsTheSpace`: the row on screen ends up on the space macOS shows. |
| `script_state` | 2 handlers, 1 client, 1 key, 2 values of which one is over the limit, 2 attempts, writes begin at revision 0 | 142 thousand | `CopiesCurrent`, `CleanIsSaved`, the refinement `KeepsPromise` of `ScriptStore`, `CallsReturn`. |
| `lua_worker` | 2 events or presses, 1 edit, 1 command a handler, 1 exec thread, 1 poll at exit | 412 484 | `CommandsOnce`, `BatchReads`, `BindsNotOlder`, `ConfigLands`, `ReadsAnswered`, `ExitEnds`. Two handlers overlap, one of them across a reload. |
| `view` | 2 windows, a view of 4 by 5, 2 inputs; snapping only with a scroll that is not clamped | 193 315 | `RestIsTiled`, `ColumnsFill`, `AskedIsShown`, `ManualStays`: after any two commands, gestures or events the row comes to rest as the strip says. |
| `windows` | 3 windows of 2 applications, 2 rows, 3 inputs, 1 focus unnamed | 2 104 165 | `TiledOnce`, `FollowsOS`, `ReturnsToRow`. |
| `layout_ops` | 3 windows, 2 displays with a space of 2 rows each, 2 operations, 1 other event | 346 430 | `TiledOnce`, `Predicted`, `KeepsWindows`. |
| `session` | 3 windows, 2 spaces, 2 starts, 1 move or save | 221 641 | `TiledOnce`, `FrontRow`, `RestoresPlaces`, over the state files a session may leave. |
| `arrivals` | 1 process with 2 windows; 2 displays, 2 spaces, 2 changes | 70 762 | `ActiveAtRest`, `SetupEnds`, `Adopted`, `GoneIsGone`, `Settles`, `HousedNeverDies`. |

Why the bounds are enough.  Two rows of one index, the row on screen and one
that is not, and a row about to be spawned are all the kinds of row that a
handler distinguishes, hence three strips.  Entities are reused only after
nothing names them, which is how Bevy's generations behave.  In `script_state`
two writers are enough to overtake a third call once and twice, two attempts to
retry and to give up.  In `windows` and `view` the inputs bound the length of a
behaviour; three and two are what it takes for an event to meet the handling of
the one before in another frame.  In `arrivals` either processes or displays
come and go in one behaviour (`side` of `MCArrivals`): they share the ticker and
nothing else, and the proofs have no such bound.

Bounds in the models, by name: `Room` keeps an input of `VirtualWorkspaces` from
adding a row when all strips are taken (it never blocks a step of the program);
`"calm"` in `Inputs` lets macOS move the focus only while no move and no command
is under way (with it off, `fixed_rows` is too large for a run; the theorems
hold with and without it); `MaxIndex`, `MaxRevision`,
`MaxSends`, `MaxEdits`, `MaxCommands`, `MaxInputs`, `MaxNaming`, `MaxOps`,
`MaxEvents`, `MaxMoves`, `MaxStarts` and `MaxChanges` are counters.

Symmetry is used in safety runs only: windows and strips are interchangeable in
every step, and the initial states of the strips that `Startup` names are
reached for each permutation (`Symmetry`).  In `fixed_rows` the spaces are
interchangeable together with their rows (`FixedSymmetry`): there every strip
exists all the time, and no step depends on `Startup`.

`CHECK_DEADLOCK FALSE` is said in `arrivals`, `windows`, `lua_worker`,
`layout_ops` and `session`: there the bounds, or the exit of the program, end a
behaviour.

`WindowsOnce` and `NoWindowLost` are stated where rows are neither made nor
reaped, and `NoGhostRows` where an ordinary space has one row; with rows that
come and go the code breaks them, see [below](#what-the-code-does-not-do).

## Fairness

Nothing is assumed of the user, of macOS beyond what is said here, of the
programs a script runs, or of a handler that loops.

- `VirtualWorkspaces`: `WF(Frame)` and `WF(EndPhase)`, because the run loop goes
  on to the next system, schedule and frame whatever arrives (`EndPhase` is
  enabled again and again once the systems that have work have run), and
  `SF(Pump)`, because `pump_events` reads the channel in every frame and the
  channel is first in, first out.  `FollowsTheSpace` speaks of the case that
  macOS settles on a space.
- `ScriptState`: `WF(Frame)`; `WF(Work(w))` for each handler, since its code
  between two `await`s comes to its end; `WF(Ask(c) \/ Send(c))` for a client that
  has begun a call, and `SF(Handle(c))`, since the pump takes the events in order.
  A frame can only end when the channel is found empty, so a client is promised
  an answer while frames go on (`[]<>(phase = "update")`), and a handler without
  that condition.
- `LuaWorker`: `WF(Frame)` and `WF(Stop)` for the main thread, `WF(Worker)` for the
  interpreter's thread, `WF(RunTask)` for its executor, which runs any task that
  can run.  Answers of `paneru.exec` are not among them.
- `Arrivals`: weak fairness for each system of the schedule, since each runs in
  every frame (timers included: `timeout_ticker`), and that AX answers for a
  process in the end or the process is one it never answers for.

## What the code does not do

`PROJECT.json` lists 22 places where the code does something else than a
comment, a document or a test of the repository says.  No run expects a
violation; where a definition states what the text says, putting it into the
named configuration makes TLC show the counterexample:

| Definition | Module | How to see it | What happens |
| --- | --- | --- | --- |
| `ActiveIsSelected` | `VirtualWorkspaces` | `Rows.cfg` | A move to stay into a row that does not exist spawns it with `SelectedVirtualMarker`, which the row on screen loses; with two rows a space the startup does the same. |
| `ReapOnlyEmpty` | `VirtualWorkspaces` | `Rows.cfg` | The reaper finds a row empty, a move of the same frame puts a window into it, and the row goes with the window. |
| `MovedNotDetected` | `VirtualWorkspaces` | `Rows.cfg` | A window moved into a row still to be spawned is in no strip until commands are applied, and `detect_moved_windows` adds it elsewhere. |
| `FullscreenWindowsReturn` | `VirtualWorkspaces` | `Spaces.cfg` | When a full-screen space ends only one of its windows returns. |
| `StackKeepsWindows` | `LayoutStrip` | `Strip.cfg` with `FullscreenWindows <- OnlyA` | `stack` takes columns out before it finds it has nothing to do. |
| `HiddenStaysParked` | `StripView` | `View.cfg` with `HiddenToo = TRUE` | A scripted operation on a window of a hidden row moves the whole row on screen. |
| `FloatsOutside` | `LayoutOps` | `Ops.cfg` | A floating window that a script moves to another row is put into its strip and stays floating. |
| `TiledOnce` | `WindowLife` | `Life.cfg` with `Outlasting <- OnlyC` | Despawning a floating window whose `role()` still answers puts the entity back into a row. |
| `TiledOnce` | `Session` | `Session.cfg` with `DefaultRows = 2`, `Files <- NoFile` | `finish_setup` puts each window into every pre-created row of its space. |
| `NeverGivenUp` | `Launch` | `Arrivals.cfg` | An application that shows no window for ten seconds is despawned for good. |
| `NoWindowDropped` | `Displays`, `Arrivals` | `Arrivals.cfg` | Windows of a dissolved row, or sent to a display without a selected row, are in no strip. |

`FollowsTheSpace` too is stated for spaces with a row each and no focus events:
otherwise a focus event read with a space change may leave another row in front.

Found by reading, with no definition: `window virtualmove south` at the last row
makes a row although `create_workspace_automatically` is off; what a handler
writes in the frame of the exit is acknowledged and not saved; the first
reconciliation of displays announces a retry and schedules none; a process that
is slow to start is given up, and its observers with it; `animate_entities` snaps
at five pixels, not one; a task of the runtime before a reload overwrites
`hasHandlers`; reads of a batch stay cached as long as any handler waits for a
program; `stack_as` onto itself or onto a floating window loses the window;
`swap` leaves the `focused` flag behind; the replay of a scripted stack ignores
`onto` and `tabs`.

## Proofs

Each theorem holds for any values of the constants that satisfy the named
assumptions, which TLC evaluates in each run.

**Rows** (`VirtualWorkspaces_proofs`): `TypeCorrect`, `ActiveUnique`,
`SelectedUnique` and `DuplicatesAreNew` are `Spec => []TypeOK`, `[]OneActive`,
`[]OneSelected` and `[]NoSilentDuplicate`.  None of the four is inductive as it
stands.  A queued `activate` may name a strip that is despawned before it is
applied; a queued `spawn` could in principle name a strip that exists and change
its space under its markers; and `Apply` takes the head of the queue.  `IInv`
therefore adds `Applying` (commands are applied only while there are some) and
`SpawnsFresh` (a spawn names no strip that exists, and no two name the same one),
which rests on `Unused`: a system spawns only an entity that nothing names.
`Invariance` is `Spec => []IInv`: `InitInv` gives the initial states, `StepInv`
has a case for each action, grouped by what they can disturb.  `IndexAssumption`
says that `MaxIndex` is a natural number, `SpacesAssumption` that ordinary and
full-screen spaces differ, `StartupAssumption` that startup makes distinct rows
of ordinary spaces, and for each space with a row one at index 0
(`gather_displays`, `src/ecs/systems.rs:115`).

**Row 0** (the same module): `RowZeroStays` is `Spec => []RowZeroKept`: a space
macOS has, and that has rows, has one at index 0, whatever is reaped, renumbered,
moved or destroyed.  What could go wrong is between a decision and its commands:
a row is queued for an index above 0 and the row at 0 goes before it arrives.
`ZeroInv` excludes it: `RowsHoused` (a row on its way above 0 goes to a space that
has rows, but while the commands of that space's destruction are applied),
`ZerosSpared` (nothing queued takes the row at 0 of a space that is there, nor a
row yet to come) and `Mourned` (the end of a space is read before macOS has
another of its id).  Renumbering keeps it because it keeps a row
of every index it finds.

**Rows that stay** (the same module): `WindowsStayOnce` and `WindowsStayHeld`
are `Spec /\ FixedRows => []WindowsOnce` and `[]NoWindowLost`.  `FixedRows` says
that every index an input may ask for has a row in every space, that nothing
reaps one, and that no space is made or destroyed; without it the code breaks
both.  `FixedInv` adds that some row is on screen to take a window that comes,
and `Quiescent`: nothing queued makes or takes a row.

**Rows of spaces that go** (the same module): `NoRowOutlives` is
`Spec /\ OneRowSpaces => []NoGhostRows`, where `OneRowSpaces` says that startup
gives each space one row, and that no command switches rows or moves a window to
another (`default_workspaces = 1`, no row bindings, and no script that switches
rows or moves windows between them).  With two rows a
space the code leaves one behind.  The notifications of a space's creation, of
the change to it and of its destruction come in any order, and the first two may
each make its row; what keeps it single is `OneRowOf` (the row is there or on its
way, not both, and arrives in the schedule that queued it), `MadeOnce` (the
creation is told once, and before there is a row) and `Leaving` (a space that is
gone has its destruction still to be read, or its row doomed).

**Layout strip** (`LayoutStrip_proofs`), for any windows, ordinary and
full-screen:

- `StripHolds` is `Spec => []StripOk`: the strip is a sequence of `Cols`, the
  columns that have the shapes of `ColumnShapes`, and no window is in it twice.
  The two need each other: whether a removal takes a window out of a strip, and
  not only out of the first column that has it, depends on the second.
- `ColumnsShaped` is `Spec => []ColumnShapes`, `WalkReaches` is
  `Spec => []WalkReachesNextColumn`: the window that `Beside` finds is one of the
  next column (`AtOrLastIs`), and `index_of` finds it there and not in another
  column, because it is in one only (`FoundThere`).
- `OrderKeptButForStack`: each step is one of `StripOrder`, or leaves the reading
  order as it is, unless it is a `stack` in a strip with a full-screen column.
- `OrderKept` is the refinement `Spec => KeepsOrder` where no space is full-screen,
  as in the run.  With a full-screen column `stack` breaks it
  (`StackKeepsWindows`, [above](#what-the-code-does-not-do)); the theorem before
  says that nothing else does.

Every operation has a lemma named after it: the columns it makes are of the kind
(`Kinds`) of those it got, and the order of the windows `Follows`, which is a step
of `StripOrder` between two orders.  To show it, an operation is taken apart into
the columns before and after those it is about (`StripAround`, `ItemAround`,
`ColumnsParted`), and its effect on the windows is that blocks of a concatenation
move (`MovedIs`), go (`ReleasedIs`), come (`PlacedIs`) or trade places
(`SwappedIs`, `SwappedInside`).  `Sequences_proofs` has what the pieces need:
`Mapped` is what a function makes of the members of a sequence, one after the other,
and `MappedConcat`, `RetainedConcat` and `RetainedOfMapped` say that making and
filtering go piece by piece.  `RemoveAll` and `Deduped` are folds; their lemmas
are inductions over the stages of the fold.

**Script store** (`ScriptState_proofs`): `StoreTypeCorrect`, `CopiesNeverStale`,
`CleanStoreSaved` and `PromiseKept`, for any handlers, clients, keys, values,
size limit, function and number of attempts, from `StoreInvariance`.  Its
invariant `IInv` adds to the checked ones `WritesOnly`: only a call that writes
has a write to send, of a value that can be stored.  `CopiesCurrent` is about
more than the copy that is kept: the copy in a reply on its way, and the stamp of
a call that has not been answered, must not be newer than the revision either.
`Fine` states all this of one call, so that `OneCall` covers every step that
changes one call only, and `ApplyInv` the write that lands: it raises the
revision exactly when the store changes, which makes all copies old.

`PromiseKept` is the refinement of `ScriptStore`.  `PromisedCall` says how the
atomic store sees a call: a get takes effect when the main thread answers it or
when the copy is used, a write when it is applied, a refused `mutate` never.  A
get from the copy maps to a `Get` of the store only because of `CopiesCurrent`; a
`mutate` maps to a `Put` of its function of the present value because it was not
overtaken.  Steps of a read under way, of retries and of the frame are stutters.
The assumptions are that handlers and clients differ, that there is a key and an
attempt, that null, absence and refusal are no values, and that removing a key
never takes the store over its limit.

**Lua worker** (`LuaWorker_proofs`): four theorems, for any scripts, handlers,
chords and bounds (`LuaAssumption` gives the constants their types).

- `ChordsNotOlder` (`BindsNotOlder`): `ChordInv` adds the types of channels and
  tasks and `ChordsKnown`, that a chord on its way, in either queue, names a
  runtime that was built.  A reload is served in the order of the queue, so what
  follows its chords follows its commit.
- `ConfigurationLands` (`ConfigLands`): `ConfigInv` adds `Announced` and the place
  of the last declaration while its announcement is in the channel.
- `ReadsAreOfTheBatch` (`BatchReads`): `BatchInv` relates `waiting`, the tasks'
  places, the requests and the answers (`ReadsOK`), programs and their tasks
  (`JobsOK`), and empties the cache with the last task (`CacheOK`).
- `CommandsArriveOnce` (`CommandsOnce`): `CommandInv` has a trail for each task:
  its commands are, in order, what was taken, then what is in the channel, then
  what is in the outbox of its runtime, with no other copy (`TrailOK`), and an
  outbox with something in it has a task that will drain it (`OutboxOK`).  A
  string bound to a chord has issued nothing before it runs (`Unissued`).

**Displays** (`Arrivals_proofs`), of the composition, for any displays, spaces
and windows: `HousedUntimed` (a row that has a display carries no timer),
`HousedSurvives` (`HousedNeverDies`, an action property: it follows from the
former, because `timeout_ticker` only takes what a timer names), and
`ActiveIsFront` (`ActiveAtRest`).  For the last, `InStep` says what the news that
is unread excuses: displays and entities may differ only while a reconfiguration
is unread or to be scanned again, and the active display while its change is.

**Window sets** (`LayoutOps_proofs`), for any displays, workspaces, columns and
finitely many windows, where there is a display and the first has a space:
`TransformsKeepWindows` says that an operation of a script turns a value that
shows a workspace into one that shows a workspace, has recorded it and has lost
no window, except by stacking a window onto itself or onto one that is not
tiled; `HandlersKeepWindows` is `Spec => KeepsWindows`; `LayoutTypes` is `Spec
=> []TypeOK`. What an operation does is to take a window out of every column it
is in, and put it somewhere: `TakenHolds` says that all others are still there,
`PutHolds` and `EditJoins` that the place it is put to holds it, `SetWithHolds`
and `VisitedSet` that a visit of every window changes none of their identities,
and `StackedKeeps` has the exception. These need what `FlattenSeq` returns for
sequences of any length (`FlattenDefined`, `FlattenHolds` of `Sequences_proofs`);
the induction there is by a least counterexample: `LeastOf` gives every nonempty
set of naturals a least member.

What a handler holds shows a workspace because what it read did
(`SnapshotShows`), and that follows from types: the active row is a row, and its
strip a sequence of columns (`ReadShows`).  A strip is what folds over windows
and rows make of another, as `RemoveAll`, `Deduped`, `Replayed` and `Move` do, so
`TypeOK` needs what a fold returns: `FoldThere` that there is a value for any
sequence, `FoldStays` that it is in a set the step keeps.  `Columns` filters with
`Retained` of `Filters`, as the definition of `SelectSeq` is not one the prover has.

`LayoutTiledOnce` is `Spec => []TiledOnce`, from `Tidy(Start)`: when scripts start
to run no two rows share a window, no row has one twice, and none has the column
of a full-screen window, which `stack` loses (`StackKeepsWindows`,
[above](#what-the-code-does-not-do)); the run starts so.  The invariant `OnceInv`
says `Tidy` of the rows and that a managed window is in one of them, and drops the
condition of `TiledOnce` that no command is left: a command takes a window from
its row, or puts it into one, in the step that changes its `Unmanaged` component.
That rests on what each operation of `Columns` does to the windows a strip holds
(`Held`): `WithoutOnce`, `RemoveWindowOnce` and `RemoveAllOnce` that it loses those
and no others, `WindowOnce` and `AppendTabGroupOnce` that it gains those,
`ExchangeOnce`, `StackWindowOnce` and `UnstackWindowOnce` that it keeps all, and
each that no window is there twice afterwards.  The argument is the same for the
windows of an item, the items of a column, the columns of a strip and the strips
of the rows: `Apart` of `Sequences_proofs` says of a sequence that no two of its
members share anything, and `ApartConcat`, `FlattenApart`, `RetainedApart` and
`ReplacedApart` what joining, filtering and splicing make of it.  For the rows it
is `RowsLose` and `RowGains`: one row gains what all others lose.

**Windows** (`WindowLife_proofs`), for any windows, applications, rows, rules and
tab groups, any number of inputs and of notifications unnamed, and any order of
notifications, systems and commands; `LifeAssumption` only gives the constants
their types and says that windows and applications are finitely many:

- `InvariantHolds` is `Spec => []IInv`, `LifeTypes` is `[]TypeOK`.
- `AllTiledOnce` is `[]TiledOnce`: once all is handled each managed window is in
  one row and no other window is in any.
- `AllReturn` is `ReturnsToRow`, an action property: a window that was minimized
  or hidden comes back to the row it left.
- `OneInFocus`: at most one window has the focus marker, and it is one there is.
  This is the part of `FollowsOS` that holds in the middle of a frame too.

All five assume `Prompt`, which is also what the run assumes: macOS minimizes or
hides a window only after paneru has placed it (`Hasty` is false), and `role()`
of a closed window does not answer (`Outlasting` is empty).  With a window in
`Outlasting` the code breaks `TiledOnce`, see
[above](#what-the-code-does-not-do).

`TiledOnce` speaks of the moment when nothing is left to do; to get there the
invariant must say what is so in the middle of a frame, while one system has
decided on the world as it was and another has changed it since.  `Sound` says it
of one window: it is in one row at most; an open window that is not managed is in
none; one that is managed and placed is in a row *unless a queued command is to
unmanage it* (`Leaves`); only a window that was met, that is known and placed, or
closed (`Met`), has a row, the focus, or a state a row would contradict; and the
place it remembers is one.  `Keeping` adds that every queued command is `Fit` for
the windows it names, whatever the commands before it do, and that a window to be
floated for a rejected focus has left its row already.  `News` says what an event
on its way tells (a destruction that the window is closed, a hidden application
that its windows were met), `Doomed` that a closed window which is known has its
event or its despawn on the way, `Frames` that nothing is queued between frames.

A frame is three nested folds: each system over the events of the frame, each
event over the windows it is about, and the synchronisation point over the queue.
A state of a running system is `Working` when the invariant holds of the world
with its output added to the queue; each handler leads from one such state to
another and drops no command (`Onward`), which `HandledGoes` carries over the
events.  `AppliedKeeps` does so for each kind of command, with the observers it
fires, and `AllAppliedKeeps` for the queue.  For `AllReturn`, `HasPlace` says
that a window is in row `r`, or remembers it and is in none; each command keeps
that (`AppliedPlace`) for a window whose focus is not rejected, so a window that
is managed again is back in `r` (`AppliedBack`).

The attempt to prove `ReturnsToRow` as it was stated first failed, and rightly.
A behaviour of seven inputs, longer than the run allows, breaks it: a floating
window opens; the user clicks `a`, asks for the focus of `a` which has it
already, hides its application, focuses the floating window, switches to row 2,
and the application shows itself again.  In one frame `a` is then managed, floated
because its focus was rejected, and managed again, which puts it into the row on
screen and not into row 1 where it was.  TLC confirms the behaviour.  A window that
floats has no row to return to, so the property leaves out one with a rejection
in the queue (`Refloated`).

Only model-checked, and why:

- `FollowsTheSpace`, `CallsReturn`, `ReadsAnswered`, `ExitEnds`, `SetupEnds`,
  `Adopted`, `GoneIsGone`, `Settles`: liveness under fairness.
- `RestIsTiled`, `ColumnsFill`, `AskedIsShown`, `ManualStays`; `Predicted` of
  `layout_ops`; the three of `session`: they speak of what recursive functions and
  folds compute: sums of widths and heights along a strip, a row's content after
  the replay of a program of any length, a match of two lists of windows.  Each
  operator needs an induction of its own, as `FlattenSeq` and `FoldLeft` have in
  `Sequences_proofs`; where `SelectSeq` is left (`Session`) it cannot be expanded.
- `FollowsOS` of `windows`, as far as it says where the focus is at rest: that
  rests on which notifications the resolver still has to name, and in which
  order it and the events of the other queue arrive.

## Not modelled

Drawing, the indicator of a row, borders and dimming; hit tests and drags of the
mouse (the drop of a window on another space is an input); padding, gaps, title
bars and the physics of inertia; parsing of the configuration, of arguments and
of Lua values, which keeps no state; broadcast to subscribers; the menu bar.  The
bindings to AppKit, Accessibility and SkyLight are foreign-function code; what
they report is the environment of the models.  Options that change control are
constants.  Within the modelled parts: bounds of displays and the dock, restored
widths and floating frames, the time limits of handlers, the pump's budget and
its coalescing of mouse moves, and that each handler takes one command of a kind
a frame.  The components in `PROJECT.json` say what is left out of each.

## Plan

1. Type invariants of `StripView` and `Session` as theorems, and `FollowsOS` at rest.
2. The budget and coalescing of the event pump, and readers that take one
   command a frame from messages that live two frames.
