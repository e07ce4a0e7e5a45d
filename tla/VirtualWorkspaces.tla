-------------------------- MODULE VirtualWorkspaces --------------------------
(****************************************************************************)
(* The rows of virtual workspaces (src/ecs/workspace.rs).  Every native     *)
(* macOS space has rows, each a layout strip with a virtual index; one row  *)
(* is on screen (ActiveWorkspaceMarker) and one per space is the row to     *)
(* come back to (SelectedVirtualMarker).                                    *)
(*                                                                          *)
(* A frame runs the systems of PreUpdate ("input"), Update and PostUpdate   *)
(* ("post") one after the other, in an order the schedule leaves open.  A   *)
(* system changes the columns of a strip at once, but spawns, despawns and  *)
(* markers are commands: they wait in `queue` for the next synchronisation  *)
(* point, so the systems in between still see the strips as they were.      *)
(*                                                                          *)
(* Abstractions: a row holds a set of windows, a window standing for its    *)
(* column or tab group (Columns.tla has the order inside a strip); one      *)
(* display; positions and scrolling are left out.  Which window has the     *)
(* focus is left open: the OS may move it at any time.                      *)
(*                                                                          *)
(* Mutant_X is X with a mistake in it; no definition uses it.  README.md    *)
(* says which property notices.                                             *)
(****************************************************************************)
EXTENDS Naturals, Sequences, FiniteSets

CONSTANTS
    Windows,      \* windows known to the window manager
    Normal, Full, \* ids of ordinary and of full-screen spaces
    Strips,       \* strip entities; Bevy never reuses one, see Unused
    MaxIndex,     \* bound on the virtual indices that inputs ask for
    Startup,      \* rows made by gather_displays and initialise_workspaces:
                  \*   a function from strips to [space, index]
    AutoCreate,   \* config.create_workspace_automatically
    ReapEmpty,    \* config.reap_empty_workspaces
    Inputs        \* the kinds of input a run explores, see the input actions

Spaces == Normal \cup Full
NoRowSpace == CHOOSE s \in Normal : TRUE
Indices == 0 .. MaxIndex

ASSUME IndexAssumption == MaxIndex \in Nat
ASSUME SpacesAssumption == Normal \cap Full = {}
ASSUME StartupAssumption ==
    /\ DOMAIN Startup \subseteq Strips
    /\ \A r \in DOMAIN Startup : Startup[r] \in [space : Normal, index : Indices]
    /\ \A r, t \in DOMAIN Startup : Startup[r] = Startup[t] => r = t
    /\ \E r \in DOMAIN Startup : Startup[r].index = 0
    /\ \A r \in DOMAIN Startup : \E t \in DOMAIN Startup :
          Startup[t] = [space |-> Startup[r].space, index |-> 0]

VARIABLES
    live,         \* strip entities that exist
    space, index, \* LayoutStrip.id and .virtual_index of each
    wins,         \* the windows in its columns
    home,         \* NativeFullscreenMarker: {} or {[strip, space]} to return to
    active,       \* strips with ActiveWorkspaceMarker
    selected,     \* strips with SelectedVirtualMarker
    parked,       \* strips with PreviousStripPosition
    fresh,        \* systems whose Added<ActiveWorkspaceMarker> still matches
    unnumbered,   \* strips whose Added<LayoutStrip> renumber has not seen
    tiled,        \* windows without an Unmanaged marker
    marks,        \* VirtualMoveMarkers: [win, index, follow]
    todo,         \* marks the running handle_virtual_window_moves has yet to do
    queue,        \* deferred commands, in order
    phase,        \* schedule of the frame that is running
    ran,          \* systems that have had their run in this schedule
    excused,      \* systems that may be behind the last synchronisation point
    flush,        \* "no", or the commands are being applied ("sync", "end")
    osSpaces, osSpace, osWin, \* the OS: its spaces, the one shown, a window's
    sent, inbox   \* OS notifications on their way, and read by this frame

rows == <<live, space, index, wins, home, unnumbered>>
view == <<active, selected, parked, fresh>>
sched == <<queue, phase, ran, excused, flush>>
os == <<osSpaces, osSpace, osWin, sent>>
vars == <<rows, view, tiled, marks, todo, sched, os, inbox>>

WatchActive == {"show", "detect"} \cup {x \in {"reap"} : ReapEmpty} \* with Added<ActiveWorkspaceMarker>
Changed == <<"changed">>                      \* Event::SpaceChanged
Created(s) == <<"created", s>>                \* Event::SpaceCreated
Destroyed(s) == <<"destroyed", s>>            \* Event::SpaceDestroyed
Notices == {Changed} \cup {Created(s) : s \in Spaces} \cup {Destroyed(s) : s \in Spaces}
Mark == [win : Windows, index : Indices, follow : BOOLEAN]

------------------------------------------------------------------------------
(* Commands *)

\* What one call of a system or handler queues in one go is one command here.
Activate(t) == [op |-> "activate", strip |-> t, park |-> {}]
Follow(t, a) == [op |-> "activate", strip |-> t, park |-> {a}]
Shown(t, S, W) == [op |-> "shown", strip |-> t, park |-> S, focus |-> W]
Despawn(S) == [op |-> "despawn", strips |-> S]
Focus(w) == [op |-> "focus", win |-> w]
Leave(w) == [op |-> "leave", win |-> w]
\* spawn_layout_strip: mark is the marker it comes with.
Spawn(row, mark) == [op |-> "spawn", row |-> row, mark |-> mark]
NewRow(t, s, i, W) == [strip |-> t, space |-> s, index |-> i, wins |-> W, home |-> {}]

Homes == {{}} \cup {{h} : h \in [strip : Strips, space : Spaces]}
Row == [strip : Strips, space : Spaces, index : Indices, wins : SUBSET Windows, home : Homes]
Command ==
    [op : {"activate"}, strip : Strips, park : SUBSET Strips]
    \cup [op : {"shown"}, strip : Strips, park : SUBSET Strips, focus : SUBSET Windows]
    \cup [op : {"despawn"}, strips : SUBSET Strips]
    \cup [op : {"focus", "leave"}, win : Windows]
    \cup [op : {"spawn"}, row : Row, mark : {"active", "selected", "parked"}]

Commands(op) == {queue[k] : k \in {k \in DOMAIN queue : queue[k].op = op}}
Spawning == {c.row.strip : c \in Commands("spawn")}
Doomed == UNION {c.strips : c \in Commands("despawn")}

\* Entities `spawn` may hand out: never one that something still names.
Unused == Strips \ (live \cup Spawning \cup Doomed
                    \cup {c.strip : c \in Commands("activate")} \cup {h.strip : h \in UNION {home[t] : t \in live}})

Rows(s) == {t \in live : space[t] = s}
RowsAt(s, i) == {t \in Rows(s) : index[t] = i}
IndicesOf(s) == {index[t] : t \in Rows(s)}
Holders(w) == {t \in live : w \in wins[t]}

\* The rows once the windows W have left every strip for t.
Mutant_TakenTo_keeps(t, W) == [u \in Strips |-> IF u = t THEN wins[u] \cup W ELSE wins[u]]
Mutant_TakenTo_shown(t, W) == [u \in Strips |-> IF u = t /\ u \in active THEN wins[u] \cup W ELSE wins[u] \ W]
TakenTo(t, W) == [u \in Strips |-> IF u = t THEN wins[u] \cup W ELSE wins[u] \ W]

------------------------------------------------------------------------------
(* Applying one command, with the observers it sets off *)

\* On<Add, SelectedVirtualMarker>: t is the only selected row of its space sp.
Mutant_SelectedWith(t, sp) == selected \cup {t}
SelectedWith(t, sp) ==
    IF t \in selected THEN selected ELSE {u \in selected : space[u] # sp} \cup {t}

\* On<Add, ActiveWorkspaceMarker>: the only active strip, and selected.
Mutant_ShowRow(t) ==
    IF t \in live \ active
    THEN active' = active \cup {t} /\ selected' = SelectedWith(t, space[t]) /\ fresh' = WatchActive
    ELSE UNCHANGED <<active, selected, fresh>>
ShowRow(t) ==
    IF t \in live \ active
    THEN active' = {t} /\ selected' = SelectedWith(t, space[t]) /\ fresh' = WatchActive
    ELSE UNCHANGED <<active, selected, fresh>>

\* PreviousStripPosition, on the rows of S that still exist.
ParkedToo(S) == parked \cup (S \cap live)

ApplyActivate(c) ==
    /\ ShowRow(c.strip)
    /\ parked' = ParkedToo(c.park)
    /\ UNCHANGED <<rows, tiled>>

\* FocusedMarker on w: nothing when it has it already, otherwise
\* virtual_strip_activated brings its row on screen.
ShowHolder(w) ==
    \/ UNCHANGED <<active, selected, fresh>>
    \/ \E t \in Holders(w) \ active : ShowRow(t)

ApplyFocus(w) == ShowHolder(w) /\ UNCHANGED <<rows, parked, tiled>>

ApplyShown(c) ==
    /\ parked' = ParkedToo(c.park) \ {c.strip}
    /\ \/ c.focus = {} /\ UNCHANGED <<active, selected, fresh>>
       \/ \E w \in c.focus : ShowHolder(w)
    /\ UNCHANGED <<rows, tiled>>

\* spawn_layout_strip: the marker follows the spawn at once.
ApplySpawn(r, mark) ==
    /\ live' = live \cup {r.strip}
    /\ space' = [space EXCEPT ![r.strip] = r.space]
    /\ index' = [index EXCEPT ![r.strip] = r.index]
    /\ wins' = [wins EXCEPT ![r.strip] = r.wins]
    /\ home' = [home EXCEPT ![r.strip] = r.home]
    /\ unnumbered' = unnumbered \cup {r.strip}
    /\ selected' = SelectedWith(r.strip, r.space)
    /\ IF mark = "active" THEN active' = {r.strip} /\ fresh' = WatchActive
       ELSE UNCHANGED <<active, fresh>>
    /\ parked' = IF mark = "parked" THEN parked \cup {r.strip} ELSE parked
    /\ UNCHANGED tiled

\* The fields of a strip that does not exist have the values of Init.
Cleared(field, S, value) == [t \in Strips |-> IF t \in S THEN value ELSE field[t]]

ApplyDespawn(S) ==
    /\ live' = live \ S
    /\ space' = Cleared(space, S, NoRowSpace)
    /\ index' = Cleared(index, S, 0)
    /\ wins' = Cleared(wins, S, {})
    /\ home' = Cleared(home, S, {})
    /\ unnumbered' = unnumbered \ S
    /\ active' = active \ S
    /\ selected' = selected \ S
    /\ parked' = parked \ S
    /\ fresh' = IF active \subseteq S THEN {} ELSE fresh
    /\ UNCHANGED tiled

\* Unmanaged::Floating: window_unmanaged_trigger takes it out of every strip.
ApplyLeave(w) ==
    /\ wins' = [t \in Strips |-> wins[t] \ {w}]
    /\ tiled' = tiled \ {w}
    /\ UNCHANGED <<live, space, index, home, unnumbered, view>>

\* The schedule after this one; a frame follows the other without a gap.
After == [input |-> "update", update |-> "post", post |-> "input"]

\* The commands are all applied.
Flushed(kind) ==
    /\ flush' = "no"
    /\ IF kind = "sync" THEN UNCHANGED <<phase, ran, excused>>
       ELSE phase' = After[phase] /\ ran' = {} /\ excused' = {}

Apply ==
    /\ flush # "no"
    /\ LET c == Head(queue)
       IN  \/ c.op = "activate" /\ ApplyActivate(c)
           \/ c.op = "focus" /\ ApplyFocus(c.win)
           \/ c.op = "shown" /\ ApplyShown(c)
           \/ c.op = "spawn" /\ ApplySpawn(c.row, c.mark)
           \/ c.op = "despawn" /\ ApplyDespawn(c.strips)
           \/ c.op = "leave" /\ ApplyLeave(c.win)
    /\ queue' = Tail(queue)
    /\ IF Tail(queue) = <<>> THEN Flushed(flush) ELSE UNCHANGED <<flush, phase, ran, excused>>
    /\ UNCHANGED <<marks, todo, os, inbox>>

------------------------------------------------------------------------------
(* The frame *)

\* Systems that have something to do in the schedule that is running; the
\* others may have run already or not, nothing tells.
Pending ==
    CASE phase = "input"  -> {}
      [] phase = "update" ->
            {x \in {"renumber"} : unnumbered # {}}
            \cup {x \in {"change"} : Changed \in inbox}
            \cup {x \in {"created"} : \E s \in Spaces : Created(s) \in inbox}
            \cup {x \in {"moves"} : marks # {} /\ active # {}}
            \cup fresh
      [] phase = "post"   ->
            {x \in {"destroyed"} : \E s \in Spaces : Destroyed(s) \in inbox}

Idle == flush = "no" /\ todo = {}

\* A system has its one run of the schedule.
Run(system, schedule) ==
    /\ Idle /\ phase = schedule /\ system \notin ran
    /\ ran' = ran \cup {system}
    /\ UNCHANGED <<phase, flush, excused>>

\* A synchronisation point inside Update.  Where it falls between the systems
\* is open.  A system that was idle until then may be behind it already, and so
\* is excused from work that only the commands bring.
Sync ==
    /\ Idle /\ phase = "update" /\ queue # <<>>
    /\ excused' = excused \cup (({"renumber", "moves"} \cup WatchActive) \ Pending)
    /\ flush' = "sync"
    /\ UNCHANGED <<rows, view, tiled, marks, todo, queue, phase, ran, os, inbox>>

EndPhase ==
    /\ Idle /\ Pending \subseteq ran \cup excused
    /\ IF queue = <<>> THEN Flushed("end") ELSE flush' = "end" /\ UNCHANGED <<phase, ran, excused>>
    /\ UNCHANGED <<rows, view, tiled, marks, todo, queue, os, inbox>>

------------------------------------------------------------------------------
(* Input handlers (PreUpdate) *)

\* Bounds: inputs that may add a row are left out while the rows there are and
\* the ones already on their way would use up Strips.  They add none when every
\* row that an input can ask for exists and stays.
Claims == Cardinality(Strips \ Unused) + Cardinality(marks)
          + Cardinality({s \in Spaces : Created(s) \in sent \cup inbox})
          + Cardinality({s \in osSpaces \cap Full : Rows(s) = {}})
FixedRows == ~ReapEmpty /\ "destroy" \notin Inputs /\ \A s \in Spaces : IndicesOf(s) = Indices
Room(n) == FixedRows \/ Claims + n <= Cardinality(Strips)

Queue(cmds) == queue' = queue \o cmds

\* The handlers sort the rows of the space on screen by index; rows of equal
\* index come in any order, so each has the others before it or after it.
Lowest(S) == {t \in S : \A u \in S : index[t] <= index[u]}
Highest(S) == {t \in S : \A u \in S : index[t] >= index[u]}
Above(cur) == {t \in Rows(space[cur]) : index[t] < index[cur]}
Below(cur) == {t \in Rows(space[cur]) : index[t] > index[cur]}
Level(cur) == RowsAt(space[cur], index[cur]) \ {cur}
North(cur) == Level(cur) \cup Highest(Above(cur))
South(cur) == Level(cur) \cup Lowest(Below(cur))
Ends(cur) == Lowest(Rows(space[cur])) \cup Highest(Rows(space[cur]))

\* switch_virtual_workspace_bind.
SwitchTo(cur, t) == Queue(IF t = cur THEN <<>> ELSE <<Activate(t)>>)
SwitchNew(s, i) == /\ i \in Indices
                   /\ \E n \in Unused : Queue(<<Spawn(NewRow(n, s, i, {}), "active")>>)

SwitchBind ==
    /\ "switch" \in Inputs /\ Room(1)
    /\ Run("switch", "input")
    /\ \E cur \in active :
          LET s == space[cur]
          IN  \/ \E t \in North(cur) \cup South(cur) \cup Ends(cur) : SwitchTo(cur, t)
              \/ /\ AutoCreate /\ Below(cur) = {} /\ wins[cur] # {}           \* South, at the end
                 /\ SwitchNew(s, index[cur] + 1)
              \/ /\ "number" \in Inputs                                      \* VirtualNumber
                 /\ \E i \in Indices : IF RowsAt(s, i) = {} THEN SwitchNew(s, i)
                                        ELSE \E t \in RowsAt(s, i) : SwitchTo(cur, t)
              \/ /\ "number" \in Inputs                                      \* VirtualAdd
                 /\ \E t \in Highest(Rows(s)) : SwitchNew(s, index[t] + 1)
    /\ UNCHANGED <<rows, view, tiled, marks, todo, os, inbox>>

\* VirtualMoveMarker is inserted by a command; nothing reads it before the
\* commands of PreUpdate are applied, so it is there at once.
Marked(w, i, follow) ==
    {m \in marks : m.win # w} \cup {[win |-> w, index |-> i, follow |-> follow]}

\* The row move_virtual_workspace_bind aims at, by operation.
MoveTargets(cur) ==
    LET i     == index[cur]
        below == {index[t] : t \in {t \in South(cur) : AutoCreate}}
                 \cup {n \in {i + 1} : AutoCreate => Below(cur) = {}}
    IN  {n \in below : Cardinality(wins[cur]) > 1}                       \* South
        \cup {n \in {i - 1, 0} : i > 0}                                  \* North, First
        \cup {index[t] : t \in {t \in Highest(Rows(space[cur])) : index[t] # i}}   \* Last
        \cup {n \in Indices \ {i} : "number" \in Inputs}                 \* VirtualMoveNumber

\* The focus may be on a floating window as well.
Focusable == IF "float" \in Inputs THEN Windows ELSE tiled

MoveBind ==
    /\ "move" \in Inputs /\ Room(1)
    /\ Run("move", "input")
    /\ \E cur \in active, w \in Focusable, follow \in BOOLEAN :
          \E i \in MoveTargets(cur) \cap Indices : marks' = Marked(w, i, follow)
    /\ UNCHANGED <<rows, view, tiled, todo, queue, os, inbox>>

\* LayoutOp::MoveToWorkspace of a script: any window, any row.  Bound: one in a
\* frame.
ScriptMove(w, i, follow) ==
    /\ "script" \in Inputs /\ w \in Focusable /\ Room(1)
    /\ Run("script", "input")
    /\ marks' = Marked(w, i, follow)
    /\ UNCHANGED <<rows, view, tiled, todo, queue, os, inbox>>

\* manage_window and set_floating take a tiled window out of the layout.
Float(w) ==
    /\ "float" \in Inputs
    /\ Run("float", "input") /\ w \in tiled
    /\ Queue(<<Leave(w)>>)
    /\ UNCHANGED <<rows, view, tiled, marks, todo, os, inbox>>

\* pump_events: a notification reaches this frame's handlers.
Pump ==
    /\ Idle /\ phase = "input"
    /\ \E n \in sent : sent' = sent \ {n} /\ inbox' = inbox \cup {n}
    /\ UNCHANGED <<rows, view, tiled, marks, todo, sched, osSpaces, osSpace, osWin>>

------------------------------------------------------------------------------
(* Update *)

\* renumber_virtual_indexes: every duplicate of an index gets the lowest free
\* one, in row order; which of the equal rows counts as the duplicate is open.
Mutant_Renumbered(f) == \A t \in live : f[t] = index[t]
Renumbered(f) == \A s \in {space[t] : t \in unnumbered} :
    \E kept \in SUBSET Rows(s) :
        LET taken == {index[t] : t \in kept}
            dups  == Rows(s) \ kept
        IN  /\ taken = IndicesOf(s)
            /\ \A t, u \in kept : index[t] = index[u] => t = u
            /\ \A t \in kept : f[t] = index[t]
            /\ \A t, u \in Rows(s) : f[t] = f[u] => t = u
            /\ \A t, u \in dups : index[t] < index[u] => f[t] < f[u]
            /\ \A t \in dups : \A n \in 0 .. f[t] : n \in taken \cup {f[u] : u \in dups}

Renumber ==
    /\ unnumbered # {}
    /\ Run("renumber", "update")
    /\ \E f \in [live -> Indices] :
          /\ Renumbered(f)
          /\ \A t \in live : (\A u \in unnumbered : space[u] # space[t]) => f[t] = index[t]
          /\ index' = [t \in Strips |-> IF t \in live THEN f[t] ELSE index[t]]
    /\ unnumbered' = {}
    /\ UNCHANGED <<live, space, wins, home, view, tiled, marks, todo, queue, os, inbox>>

\* reap_empty_virtual_workspaces; a is the row that was activated.
Mutant_Reapable(a) == {t \in Rows(space[a]) \ {a} : wins[t] = {}}
Reapable(a) == {t \in Rows(space[a]) \ {a} : index[t] > 0 /\ wins[t] = {}}

Reap ==
    /\ "reap" \in fresh
    /\ Run("reap", "update")
    /\ \E a \in active :
          Queue(IF Reapable(a) = {} THEN <<>> ELSE <<Despawn(Reapable(a))>>)
    /\ fresh' = fresh \ {"reap"}
    /\ UNCHANGED <<rows, active, selected, parked, tiled, marks, todo, os, inbox>>

\* show_active_workspace: the other rows of the space are put away, and a row
\* that had been put away gets the focus it is remembered to have had, unless
\* one of its windows has the focus.
Show ==
    /\ "show" \in fresh
    /\ Run("show", "update")
    /\ \E a \in active :
          \E W \in {{}} \cup {{w} : w \in {w \in wins[a] : a \in parked}} :
             Queue(<<Shown(a, Rows(space[a]) \ {a}, W)>>)
    /\ fresh' = fresh \ {"show"}
    /\ UNCHANGED <<rows, active, selected, parked, tiled, marks, todo, os, inbox>>

\* detect_moved_windows: windows the OS reports on the space of the activated
\* row and no row of that space holds join it, full-screen ones excepted.
Detect ==
    /\ "detect" \in fresh
    /\ Run("detect", "update")
    /\ \E a \in active :
          LET moved == {w \in tiled : /\ osWin[w] = space[a]
                                      /\ \A t \in Holders(w) : space[t] # space[a] /\ home[t] = {}}
          IN  wins' = TakenTo(a, moved)
    /\ fresh' = fresh \ {"detect"}
    /\ UNCHANGED <<live, space, index, home, unnumbered, active, selected, parked,
                   tiled, marks, todo, queue, os, inbox>>

\* handle_virtual_window_moves: one run takes every marked window, in any order.
StartMoves ==
    /\ marks # {} /\ active # {}
    /\ Run("moves", "update")
    /\ todo' = marks
    /\ UNCHANGED <<rows, view, tiled, marks, queue, os, inbox>>

\* The window leaves every strip for the target row; a missing target is
\* spawned with the window in it.  A move to stay behind becomes one to follow
\* when the window has no neighbour in the row on screen: the row is not its
\* own, or the rest of that row is empty, or is all in its column (near = {}).
MoveOne(m) ==
    /\ flush = "no" /\ m \in todo
    /\ \E a \in active : \E near \in {{}} \cup {wins[a] \ {w} : w \in {m.win} \cap wins[a]} :
          LET s      == space[a]
              w      == m.win
              stay   == ~m.follow /\ near # {}
              shown(t)  == IF stay THEN {<<Focus(v)>> : v \in near}
                           ELSE {<<Follow(t, a), Focus(w)>>}
          IN  \/ \E t \in RowsAt(s, m.index) :
                    /\ wins' = TakenTo(t, {w})
                    /\ \E cmds \in shown(t) : Queue(cmds)
              \/ /\ RowsAt(s, m.index) = {}
                 /\ \E n \in Unused : \E cmds \in shown(n) :
                    /\ wins' = [TakenTo(n, {w}) EXCEPT ![n] = {}]
                    /\ Queue(<<Spawn(NewRow(n, s, m.index, {w}),
                                     IF stay THEN "parked" ELSE "selected")>> \o cmds)
    /\ todo' = todo \ {m}
    /\ marks' = marks \ {m}
    /\ UNCHANGED <<live, space, index, home, unnumbered, view, tiled,
                   phase, ran, excused, flush, os, inbox>>

\* workspace_change_handler: the row on screen is the selected one of the space
\* the OS now shows, failing that its lowest, failing that a full-screen strip
\* made for the window that went full-screen.
Mutant_SpaceShown == active # {}
SpaceShown == active \cap Rows(osSpace) # {}

FullscreenCandidates(a) ==
    LET there == {w \in wins[a] \cap tiled : osWin[w] = osSpace}
    IN  IF there # {} THEN there ELSE wins[a]

Change ==
    /\ Changed \in inbox
    /\ Run("change", "update")
    /\ LET here == Rows(osSpace)
           back == here \cap selected
       IN  \/ SpaceShown /\ UNCHANGED <<rows, queue>>
           \/ /\ ~SpaceShown /\ here # {}
              /\ \E t \in IF back # {} THEN back ELSE Lowest(here) : Queue(<<Activate(t)>>)
              /\ UNCHANGED rows
           \/ /\ here = {} /\ osSpace \in Full
              /\ \E a \in active : \E w \in FullscreenCandidates(a), n \in Unused :
                    /\ wins' = [wins EXCEPT ![a] = @ \ {w}]
                    /\ Queue(<<Spawn([NewRow(n, osSpace, 0, {w}) EXCEPT
                                         !.home = {[strip |-> a, space |-> space[a]]}], "active")>>)
              /\ UNCHANGED <<live, space, index, home, unnumbered>>
           \/ /\ here = {}
              /\ \A a \in active : \A w \in FullscreenCandidates(a) :
                    osSpace \in Full => osWin[w] # osSpace
              /\ UNCHANGED <<rows, queue>>
    /\ inbox' = inbox \ {Changed}
    /\ UNCHANGED <<view, tiled, marks, todo, os>>

\* workspace_created_handler.
CreatedSpace(s) ==
    /\ Idle /\ phase = "update" /\ Created(s) \in inbox
    /\ IF Rows(s) # {} THEN UNCHANGED queue
       ELSE \E n \in Unused : Queue(<<Spawn(NewRow(n, s, 0, {}), "selected")>>)
    /\ inbox' = inbox \ {Created(s)}
    /\ UNCHANGED <<rows, view, tiled, marks, todo, phase, ran, excused, flush, os>>

\* window_focused_trigger: the OS says w has the focus; its row is shown.
\* Bound: with "calm" among the inputs, only while nothing else is under way.
FocusEvent(w) ==
    /\ "focus" \in Inputs /\ ("calm" \in Inputs => marks = {} /\ queue = <<>>)
    /\ Run("focus", "update")
    /\ \E t \in Holders(w) :
          Queue((IF t \in active THEN <<>> ELSE <<Activate(t)>>) \o <<Focus(w)>>)
    /\ UNCHANGED <<rows, view, tiled, marks, todo, os, inbox>>

\* apply_window_positions of a new window, window_managed_trigger of one that
\* floated: it goes to the row on screen, if there is one.  A new window opens
\* on the space the OS shows.
Place(w) ==
    /\ "place" \in Inputs /\ w \notin tiled
    /\ Idle /\ phase = "update"
    /\ tiled' = tiled \cup {w}
    /\ IF active = {} THEN wins' = [t \in Strips |-> wins[t] \ {w}]
       ELSE \E a \in active : wins' = TakenTo(a, {w})
    /\ \E s \in {osSpace, osWin[w]} : osWin' = [osWin EXCEPT ![w] = s]
    /\ UNCHANGED <<live, space, index, home, unnumbered, view, marks, todo, sched,
                   osSpaces, osSpace, sent, inbox>>

------------------------------------------------------------------------------
(* PostUpdate *)

\* workspace_destroyed_handler: the first strip of the space goes.  If it was a
\* full-screen one, its first window returns to where it came from.
Mutant_Despawning(t) == Queue(IF t \in active THEN <<>> ELSE <<Despawn({t})>>)
Despawning(t) == Queue(<<Despawn({t})>>)

DestroyedSpace(s) ==
    /\ Idle /\ phase = "post" /\ Destroyed(s) \in inbox
    /\ IF Rows(s) = {} THEN UNCHANGED <<wins, queue>>
       ELSE \E t \in Rows(s) :
              LET goal(h) == IF h.strip \in live THEN {h.strip} ELSE Rows(h.space)
                  back    == UNION {goal(h) : h \in home[t]}
              IN  /\ Despawning(t)
                  /\ IF back = {} \/ wins[t] = {} THEN UNCHANGED wins
                     ELSE \E d \in back, w \in wins[t] :
                            wins' = [wins EXCEPT ![d] = @ \cup {w}]
    /\ inbox' = inbox \ {Destroyed(s)}
    /\ UNCHANGED <<live, space, index, home, unnumbered, view, tiled, marks, todo,
                   phase, ran, excused, flush, os>>

------------------------------------------------------------------------------
(* The OS: what the window server does, at any time between two systems *)

OSStep ==
    /\ Idle
    /\ UNCHANGED <<rows, view, tiled, marks, todo, sched, inbox>>

\* The user swipes to another space.
OSSwitch(s) ==
    /\ OSStep /\ "spaces" \in Inputs
    /\ s \in osSpaces \ {osSpace}
    /\ osSpace' = s /\ sent' = sent \cup {Changed}
    /\ UNCHANGED <<osSpaces, osWin>>

\* The user drags a window to another space in Mission Control.
OSDrag(w, s) ==
    /\ OSStep /\ "drag" \in Inputs
    /\ osWin[w] \notin Full /\ s \in (osSpaces \cap Normal) \ {osWin[w]}
    /\ osWin' = [osWin EXCEPT ![w] = s]
    /\ UNCHANGED <<osSpaces, osSpace, sent>>

\* A window goes full-screen: a space is made for it and shown.
OSFullscreen(w, f) ==
    /\ OSStep /\ "fullscreen" \in Inputs /\ Room(2)
    /\ osWin[w] = osSpace /\ osSpace \in Normal /\ w \in tiled
    /\ f \in Full \ osSpaces /\ Rows(f) = {} /\ Destroyed(f) \notin sent \cup inbox
    /\ osSpaces' = osSpaces \cup {f} /\ osSpace' = f
    /\ osWin' = [osWin EXCEPT ![w] = f]
    /\ \E told \in {{Changed}, {Changed, Created(f)}} : sent' = sent \cup told

\* A space goes away; its windows and the view return to an ordinary one.
OSDestroy(s) ==
    /\ OSStep /\ (IF s \in Full THEN "fullscreen" ELSE "destroy") \in Inputs
    /\ s \in osSpaces /\ Created(s) \notin sent \cup inbox
    /\ \E g \in (osSpaces \cap Normal) \ {s} :
          /\ osWin' = [w \in Windows |-> IF osWin[w] = s THEN g ELSE osWin[w]]
          /\ osSpace' = IF osSpace = s THEN g ELSE osSpace
    /\ osSpaces' = osSpaces \ {s}
    /\ sent' = sent \cup {Destroyed(s)} \cup {n \in {Changed} : osSpace = s}

\* The user makes an ordinary space.
OSCreate(s) ==
    /\ OSStep /\ "destroy" \in Inputs /\ Room(1)
    /\ s \in Normal \ osSpaces /\ Rows(s) = {} /\ Destroyed(s) \notin sent \cup inbox
    /\ osSpaces' = osSpaces \cup {s} /\ sent' = sent \cup {Created(s)}
    /\ UNCHANGED <<osSpace, osWin>>

------------------------------------------------------------------------------
Init ==
    /\ live = DOMAIN Startup
    /\ space = [t \in Strips |-> IF t \in live THEN Startup[t].space ELSE NoRowSpace]
    /\ index = [t \in Strips |-> IF t \in live THEN Startup[t].index ELSE 0]
    /\ wins = [t \in Strips |-> {}] /\ home = [t \in Strips |-> {}]
    /\ osSpaces = {space[t] : t \in live}
    /\ osSpace \in osSpaces /\ osWin = [w \in Windows |-> osSpace]
    /\ active = RowsAt(osSpace, 0)
    /\ selected = {t \in live : \A u \in Rows(space[t]) : index[u] <= index[t]}
    /\ parked = {} /\ fresh = WatchActive /\ unnumbered = live
    /\ tiled = {} /\ marks = {} /\ todo = {} /\ queue = <<>>
    /\ phase = "input" /\ ran = {} /\ excused = {} /\ flush = "no"
    /\ sent = {} /\ inbox = {}

\* What the program does by itself, and what reaches it from outside.
Frame ==
    \/ Apply \/ Sync \/ EndPhase \/ Pump
    \/ Renumber \/ Reap \/ Show \/ Detect \/ Change \/ StartMoves
    \/ \E m \in todo : MoveOne(m)
    \/ \E s \in Spaces : CreatedSpace(s) \/ DestroyedSpace(s)

Outside ==
    \/ SwitchBind \/ MoveBind
    \/ \E w \in Windows, i \in Indices, follow \in BOOLEAN : ScriptMove(w, i, follow)
    \/ \E w \in Windows : Float(w) \/ FocusEvent(w) \/ Place(w)
    \/ \E s \in Spaces : OSSwitch(s) \/ OSDestroy(s) \/ OSCreate(s)
    \/ \E w \in Windows, s \in Spaces : OSDrag(w, s) \/ OSFullscreen(w, s)

Next == Frame \/ Outside

Spec == Init /\ [][Next]_vars

\* Bevy runs every schedule of a frame, and the next frame after it, whatever
\* arrives meanwhile, and pump_events drains the channel in each.
FairSpec == Spec /\ WF_vars(Frame) /\ WF_vars(EndPhase) /\ SF_vars(Pump)

------------------------------------------------------------------------------
(* Properties *)

TypeOK ==
    /\ live \subseteq Strips
    /\ space \in [Strips -> Spaces] /\ index \in [Strips -> Indices]
    /\ wins \in [Strips -> SUBSET Windows] /\ home \in [Strips -> Homes]
    /\ active \subseteq live /\ selected \subseteq live /\ parked \subseteq live
    /\ unnumbered \subseteq live
    /\ fresh \subseteq WatchActive
    /\ tiled \subseteq Windows
    /\ marks \subseteq Mark /\ todo \subseteq marks
    /\ queue \in Seq(Command)
    /\ phase \in {"input", "update", "post"} /\ flush \in {"no", "sync", "end"}
    /\ osSpaces \subseteq Spaces /\ osSpace \in Spaces /\ osWin \in [Windows -> Spaces]
    /\ sent \subseteq Notices /\ inbox \subseteq Notices

\* One row on screen at most, and at most one row per space to come back to
\* (the observers cleanup_active_workspace_marker, cleanup_selected_space_marker).
OneActive == \A t, u \in active : t = u
OneSelected == \A t, u \in selected : space[t] = space[u] => t = u

\* Two rows of a space with the same index: one of them is new and will be
\* renumbered (the doc comment of renumber_virtual_indexes: Added<LayoutStrip>
\* is "the only event that can introduce a duplicate").
NoSilentDuplicate == \A t, u \in live :
    (t # u /\ space[t] = space[u] /\ index[t] = index[u]) => {t, u} \cap unnumbered # {}

\* The strips of a space that exists include one at index 0, which is never
\* reaped: leaving a space and coming back finds a row.
RowZeroKept == \A s \in osSpaces : Rows(s) # {} => RowsAt(s, 0) # {}

\* A window is in one row at most; a strip about to be despawned does not count.
WindowsOnce == \A w \in Windows : \A t, u \in Holders(w) \ Doomed : t = u

\* A tiled window stays in some row through every move, drag and switch.
NoWindowLost == \A w \in tiled :
    Holders(w) # {} \/ \E c \in Commands("spawn") : w \in c.row.wins

\* Why they hold: commands are applied only while there are some, and a strip
\* to be spawned is not there yet and is spawned once (Bevy hands out an entity
\* only once), so no strip that is there ever changes its space.
Applying == flush # "no" => queue # <<>>
FreshIn(q, S) ==
    /\ \A k \in DOMAIN q : q[k].op = "spawn" => q[k].row.strip \notin S
    /\ \A j, k \in DOMAIN q :
          (q[j].op = "spawn" /\ q[k].op = "spawn" /\ q[j].row.strip = q[k].row.strip) => j = k
SpawnsFresh == FreshIn(queue, live)
IInv == TypeOK /\ Applying /\ SpawnsFresh /\ OneActive /\ OneSelected /\ NoSilentDuplicate

\* Nothing is left to do.
Quiet == sent = {} /\ inbox = {} /\ queue = <<>> /\ marks = {} /\ fresh = {}

\* No row outlives its space by more than the frame that hears of it, in
\* whatever order the space's creation, its rows' focus, the change of space
\* and the destruction arrive (workspace_destroyed_handler).  Only where a
\* space has one row: the handler despawns one strip, and a full-screen space
\* may have two, when its creation and the change to it reach the same frame.
NoGhostRows == Quiet => \A t \in live : space[t] \in Normal => space[t] \in osSpaces

\* Once the OS stays on a space, the row on screen is one of that space, and
\* stays one (workspace_change_handler).
FollowsTheSpace == \A s \in Spaces :
    <>[](osSpace = s) => <>[](active # {} /\ active \subseteq Rows(s))

------------------------------------------------------------------------------
(* What the documentation says and the code does not do *)

\* "Mark the currently selected VW with selected marker" (the comment in
\* cleanup_active_workspace_marker), which ARCHITECTURE.md calls the workspace
\* "currently selected by the user": the row on screen is the selected one.
ActiveIsSelected == flush = "no" => active \subseteq selected

\* "only empty rows left behind should be removed" (the comment in
\* reap_empty_virtual_workspaces): a row to be reaped holds no window.
ReapOnlyEmpty == \A t \in Doomed : wins[t] = {}

\* "Move the window before moving markers to avoid being detected as a moved
\* window" (the comment in handle_virtual_window_moves): a window that is moved
\* is not taken into the row on screen as well.
MovedNotDetected == WindowsOnce

\* "Do not relocate fullscreen windows, this will happen during the destructino
\* of their workspace" (the comment in detect_moved_windows): when nothing is
\* left to do, every tiled window is in a row.
FullscreenWindowsReturn == Quiet => \A w \in tiled : Holders(w) # {}

==============================================================================
