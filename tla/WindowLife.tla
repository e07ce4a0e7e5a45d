------------------------------ MODULE WindowLife ------------------------------
(****************************************************************************)
(* The windows paneru knows, which of them are tiled, and which one has the *)
(* focus: the handlers of src/ecs/triggers.rs and src/ecs/focus.rs, the     *)
(* discovery of windows in src/ecs/systems.rs and the focus commands of     *)
(* src/commands.rs, against a macOS that acts on its own and tells later.   *)
(*                                                                          *)
(* OS events wait in `channel'.  Each frame the pump hands them over and    *)
(* the systems of Update run in some order, each reading all events of the  *)
(* frame and the world as it was committed; what they ask of `commands' is  *)
(* queued in `cmds' and applied, with the observers it fires, at a sync     *)
(* point between two systems or at the end.  Events they send are read in   *)
(* the next frame.  A row is the sequence of its windows (columns and       *)
(* stacks are LayoutStrip's); rows are neither made nor reaped here.        *)
(****************************************************************************)
EXTENDS Integers, FiniteSets, Filters

CONSTANTS Windows, Apps, NoWindow,
          Owner,       \* the app of a window
          Rows,        \* how many rows the space has
          Floating,    \* windows that a rule makes floating
          Background,  \* windows with the rule dont_focus
          Tabs,        \* the native tab groups: sets of windows
          Start,       \* the windows of the first row to begin with, the first in focus
          Outlasting,  \* windows whose role() still answers after they closed
          Hasty,       \* whether windows are minimized or hidden before they are placed
          MaxNaming,   \* focus notifications the resolver may be behind
          MaxInputs    \* acts of the user and of macOS in a behaviour

ASSUME LifeAssumption ==
    /\ IsFiniteSet(Windows) /\ NoWindow \notin Windows /\ Owner \in [Windows -> Apps]
    /\ IsFiniteSet(Apps) /\ Start \in Seq(Windows) \ {<<>>}
    /\ Rows \in Nat \ {0} /\ Hasty \in BOOLEAN /\ {MaxNaming, MaxInputs} \subseteq Nat
    /\ Floating \cup Background \cup Outlasting \cup UNION Tabs \subseteq Windows

VARIABLES
    os,       \* macOS: see Init
    naming,   \* windows of focus notifications the resolver thread has not named
    channel,  \* events the pump has not taken yet
    inbox,    \* the events of this frame
    todo,     \* systems that are to run in this frame; {} between frames
    cmds,     \* commands queued and not applied
    world,    \* the ECS world: see Init
    inputs,
    excused   \* a focus event was given up, or told of a focus that was over and
              \* its app did not say which of its windows has the focus

vars == <<os, naming, channel, inbox, todo, cmds, world, inputs, excused>>

Event(kind, about) == [kind |-> kind, about |-> about]
Command(op, on) == [op |-> op, on |-> on]

Idle == todo = {}

---------------------------------------------------------------------------
(* macOS. *)

Usable(w) == w \in os.open /\ w \notin os.minimized /\ Owner[w] \notin os.hidden
\* What focused_window_id of an app answers; NoWindow for an error.
Answer(app) == IF app \in os.busy THEN NoWindow ELSE os.focus[app]
\* Windows of which role() answers.
Answering == os.open \cup Outlasting

\* What is told of w becoming the key window of the front app: the focus to the
\* resolver, the rest at once.
FrontEvents(w) == IF os.front = Owner[w] THEN <<>> ELSE <<Event("fronted", Owner[w])>>
Focusing(w) == [os EXCEPT !.front = Owner[w], !.focus[Owner[w]] = w]

\* The app keeps a window in focus after it lost w, if it has one.
Yielding(o, w) ==
    LET left == {x \in o.open \ (o.minimized \cup {w}) : Owner[x] = Owner[w]}
    IN  IF o.focus[Owner[w]] # w THEN {o}
        ELSE IF left = {} THEN {[o EXCEPT !.focus[Owner[w]] = NoWindow]}
        ELSE {[o EXCEPT !.focus[Owner[w]] = x] : x \in left}
Yielded(o, w) ==
    naming' = IF o.focus # os.focus /\ o.focus[Owner[w]] # NoWindow
              THEN Append(naming, o.focus[Owner[w]]) ELSE naming

Settled(w) == Hasty \/ (w \in world.known \ world.fresh)
Input == inputs < MaxInputs /\ inputs' = inputs + 1
OfOS == Idle /\ Input /\ Len(naming) < MaxNaming /\ UNCHANGED <<inbox, todo, cmds, world, excused>>

\* A window is opened and takes the focus.
Open(w) ==
    /\ OfOS /\ w \notin os.open \cup os.closed /\ Owner[w] \notin os.hidden
    /\ Hasty \/ ~Contains(channel, Event("visible", Owner[w]))
    /\ os' = [Focusing(w) EXCEPT !.open = @ \cup {w}]
    /\ channel' \in {channel \o <<Event("created", w)>> \o FrontEvents(w),
                     channel \o FrontEvents(w) \o <<Event("created", w)>>}
    /\ naming' = Append(naming, w)

Click(w) ==
    /\ OfOS /\ Usable(w) /\ os.focus[os.front] # w
    /\ os' = Focusing(w) /\ channel' = channel \o FrontEvents(w)
    /\ naming' = Append(naming, w)

Minimize(w) ==
    /\ OfOS /\ Usable(w) /\ Settled(w)
    /\ \E o \in Yielding([os EXCEPT !.minimized = @ \cup {w}], w) :
          /\ os' = o
          /\ channel' = Append(channel, Event("minimized", w)) /\ Yielded(o, w)
Deminimize(w) ==
    /\ OfOS /\ w \in os.minimized
    /\ os' = [Focusing(w) EXCEPT !.minimized = @ \ {w}]
    /\ channel' = channel \o <<Event("deminimized", w)>> \o FrontEvents(w)
    /\ naming' = Append(naming, w)

Hide(app) ==
    /\ OfOS /\ app \notin os.hidden /\ \A w \in os.open : Owner[w] = app => Settled(w)
    /\ os' = [os EXCEPT !.hidden = @ \cup {app}]
    /\ channel' = Append(channel, Event("hidden", app)) /\ UNCHANGED naming
Show(app) ==
    /\ OfOS /\ app \in os.hidden
    /\ os' = [os EXCEPT !.hidden = @ \ {app}]
    /\ channel' = Append(channel, Event("visible", app)) /\ UNCHANGED naming

\* Both the accessibility element and the window server tell of a closed window.
Close(w) ==
    /\ OfOS /\ w \in os.open
    /\ \E o \in Yielding([os EXCEPT !.open = @ \ {w}, !.closed = @ \cup {w},
                                    !.minimized = @ \ {w}], w) :
          /\ os' = o
          /\ channel' = channel \o <<Event("destroyed", w), Event("leftSpace", w)>>
          /\ Yielded(o, w)
\* The window server also tells of a window that only went to another space.
Leave(w) ==
    /\ OfOS /\ Usable(w)
    /\ channel' = Append(channel, Event("leftSpace", w)) /\ UNCHANGED <<os, naming>>

\* An app stops answering accessibility calls for a while.
Stall(app) ==
    /\ OfOS /\ app \notin os.busy
    /\ os' = [os EXCEPT !.busy = @ \cup {app}] /\ UNCHANGED <<naming, channel>>
Resume(app) ==
    /\ Idle /\ app \in os.busy /\ os' = [os EXCEPT !.busy = @ \ {app}]
    /\ UNCHANGED <<naming, channel, inbox, todo, cmds, world, inputs, excused>>

\* WindowResolver asks the app which window the notification is about.
Name ==
    /\ Idle /\ naming # <<>> /\ naming' = Tail(naming)
    /\ IF Owner[Head(naming)] \in os.busy
       THEN excused' = TRUE /\ UNCHANGED channel
       ELSE channel' = Append(channel, Event("focused", Head(naming))) /\ UNCHANGED excused
    /\ UNCHANGED <<os, inbox, todo, cmds, world, inputs>>

---------------------------------------------------------------------------
(* What commands do to the world, and the observers they fire. *)

RowsWith(v, w) == {r \in 1 .. Rows : Contains(v.rows[r], w)}
Without(v, w) ==
    [v EXCEPT !.rows = [r \in 1 .. Rows |-> Retained(v.rows[r], Windows \ {w})]]
Active(v) == v.rows[v.active]
Sent(v, event) == [v EXCEPT !.sent = Append(@, event)]

\* FocusHistory
Recorded(v, w) ==
    CASE v.unmanaged[w] = "none" -> [v EXCEPT !.lastManaged = w]
      [] v.unmanaged[w] = "floating" -> [v EXCEPT !.lastFloating = w]
      [] OTHER -> v
Forgotten(v, w) ==
    [v EXCEPT !.pending = IF @ = w THEN NoWindow ELSE @,
              !.lastManaged = IF @ = w THEN NoWindow ELSE @,
              !.lastFloating = IF @ = w THEN NoWindow ELSE @]

\* The first row that has w and is not on screen comes on screen.
RowActivated(v, w) ==
    LET off == RowsWith(v, w) \ {v.active}
    IN  IF off = {} THEN v ELSE [v EXCEPT !.active = CHOOSE r \in off : \A s \in off : r <= s]
OnlyFocus(v, w) == {w}
\* FocusedMarker is inserted; its observers run if it was not there.
Marked(v, w) ==
    IF w \notin v.known \/ w \in v.focused THEN v
    ELSE RowActivated([v EXCEPT !.focused = OnlyFocus(v, w), !.added = TRUE], w)
FocusEntity(v, w) == IF w \in v.known THEN [Marked(v, w) EXCEPT !.asked = w] ELSE v

\* The window nearest the middle of the screen is near, if it may be taken.
Neighbour(v, w, near) ==
    LET others == Retained(Active(v), Windows \ {w})
    IN  IF others = <<>> THEN NoWindow
        ELSE IF Contains(others, near) THEN near ELSE Head(others)
Tabbed(v, w) == \E t \in Tabs : w \in t /\ Contains(Active(v), w)
                                /\ \E x \in t \ {w} : Contains(Active(v), x)
GiveAway(v, w, near) ==
    IF Tabbed(v, w) THEN NoWindow ELSE Neighbour(v, w, near)

Inserted(s, i, w) == InsertAt(s, IF i > Len(s) THEN Len(s) + 1 ELSE i, w)
Place(v, w) ==
    LET r == CHOOSE r \in RowsWith(v, w) : TRUE
    IN  [row |-> r, index |-> CHOOSE i \in DOMAIN v.rows[r] : v.rows[r][i] = w]
\* window_minimized_trigger
Stowed(v, w, near) ==
    LET heir == GiveAway(v, w, near)
        v1 == IF RowsWith(v, w) = {} THEN v
              ELSE [Without(v, w) EXCEPT !.previous[w] = {Place(v, w)}]
    IN  FocusEntity(v1, heir)
\* Unmanaged is inserted; the observers run only if there was none.
Unmanaging(v, w, as, near) ==
    LET v1 == [v EXCEPT !.unmanaged[w] = as]
    IN  IF w \notin v.known THEN v
        ELSE IF v.unmanaged[w] # "none" THEN v1
        ELSE IF as = "floating" THEN Without(v1, w) ELSE Stowed(v1, w, near)

\* Where a window goes that is managed again: its row, or the one on screen,
\* there before the first column to the right of its middle.
Column(v, near) == IF Contains(Active(v), near)
                   THEN CHOOSE i \in DOMAIN Active(v) : Active(v)[i] = near
                   ELSE Len(Active(v)) + 1
Mutant_Home(v, w, near) == [row |-> v.active, index |-> Column(v, near)]
Home(v, w, near) == IF v.previous[w] # {} THEN CHOOSE p \in v.previous[w] : TRUE
                    ELSE [row |-> v.active, index |-> Column(v, near)]
Returned(v, w, near) ==
    LET v1 == Without(v, w)
        home == Home(v1, w, near)
    IN  IF w \notin Answering THEN v
        ELSE [v1 EXCEPT !.rows[home.row] = Inserted(@, home.index, w), !.previous[w] = {}]
Managing(v, w, near) ==
    IF w \notin v.known \/ v.unmanaged[w] = "none" THEN v
    ELSE Returned([v EXCEPT !.unmanaged[w] = "none"], w, near)

\* The first row that has it loses a despawned window; then its other
\* components go, Unmanaged with its observer.
Mutant_Unrowed(v, w) == IF w \in v.focused THEN v ELSE Without(v, w)
Unrowed(v, w) ==
    LET rs == RowsWith(v, w)
    IN  IF rs = {} THEN v
        ELSE [v EXCEPT !.rows[CHOOSE r \in rs : \A s \in rs : r <= s] =
                  Retained(@, Windows \ {w})]
Despawned(v, w, near) ==
    IF w \notin v.known THEN v
    ELSE [Managing(Unrowed(v, w), w, near) EXCEPT
              !.known = @ \ {w}, !.focused = @ \ {w}, !.fresh = @ \ {w},
              !.unmanaged[w] = "none", !.previous[w] = {}]

\* spawn_window_trigger, and the stray focus event that waited for the window.
Requeued(v, w) ==
    IF w \notin v.strays THEN v
    ELSE Sent([v EXCEPT !.strays = @ \ {w}], Event("focused", w))
Spawned(v, w) ==
    IF w \in v.known \/ w \notin os.open THEN v
    ELSE Requeued([v EXCEPT !.known = @ \cup {w}, !.fresh = @ \cup {w}], w)

Applied(v, c, near) ==
    CASE c.op = "unmanage" -> Unmanaging(v, c.on.window, c.on.as, near)
      [] c.op = "manage" -> Managing(v, c.on, near)
      [] c.op = "focus" -> FocusEntity(v, c.on)
      [] c.op = "mark" -> Marked(v, c.on)
      [] c.op = "activate" -> [v EXCEPT !.active = c.on]
      [] c.op = "despawn" -> Despawned(v, c.on, near)
      [] c.op = "spawn" -> Spawned(v, c.on)
      [] c.op = "send" -> Sent(v, c.on)
      [] c.op = "stray" -> [v EXCEPT !.strays = @ \cup {c.on}]
      [] c.op = "retry" -> [v EXCEPT !.retries = @ \cup {c.on}]
      [] c.op = "settled" -> [v EXCEPT !.retries = @ \ {c.on}]
AllApplied(v, cs, near) == FoldLeft(LAMBDA x, c : Applied(x, c, near), v, cs)

---------------------------------------------------------------------------
(* The systems of Update.  A handler turns s, the world with what the system *)
(* wrote to it directly and the commands it queued, into the next such s.    *)

Queued(s, op, on) == [s EXCEPT !.out = Append(@, Command(op, on))]
Bare == [v |-> world, out |-> <<>>]
InOrder(set) == SetToSeq(set)

\* window_focused_trigger, for the window the app says has the focus.
Focused(s, w) ==
    LET owner == RowsWith(s.v, w)
        kept == [s EXCEPT !.v = Recorded(@, w)]
        shown == IF owner = {} \/ s.v.active \in owner THEN kept
                 ELSE Queued(kept, "activate", CHOOSE r \in owner : \A q \in owner : r <= q)
    IN  IF s.v.unmanaged[w] = "hidden"
        THEN Queued(Queued(s, "manage", w), "send", Event("focused", w))
        ELSE IF owner = {} /\ s.v.unmanaged[w] = "none" THEN s
        ELSE IF w \in s.v.focused THEN shown ELSE Queued(shown, "mark", w)
Mutant_Believed(w) == w
Believed(w) == IF Answer(Owner[w]) = NoWindow THEN w ELSE Answer(Owner[w])
OnFocused(s, e) ==
    IF e.about \notin s.v.known THEN Queued(s, "stray", e.about)
    ELSE IF os.front # Owner[e.about] \/ Believed(e.about) \notin s.v.known THEN s
    ELSE Focused(s, Believed(e.about))

\* dispatch_application_messages
Members(v, app, state) == {w \in v.known : Owner[w] = app /\ v.unmanaged[w] = state}
Unmanage(s, w, as) == Queued(s, "unmanage", [window |-> w, as |-> as])
OnState(s, e) ==
    CASE e.kind = "minimized" ->
             IF e.about \in s.v.known THEN Unmanage(s, e.about, "minimized") ELSE s
      [] e.kind = "deminimized" ->
             IF e.about \in s.v.known /\ s.v.unmanaged[e.about] = "minimized"
             THEN Queued(s, "manage", e.about) ELSE s
      [] e.kind = "hidden" ->
             LET ws == InOrder(Members(s.v, e.about, "none"))
             IN  [s EXCEPT !.out = @ \o [i \in DOMAIN ws |->
                     Command("unmanage", [window |-> ws[i], as |-> "hidden"])]]
      [] e.kind = "visible" ->
             LET ws == InOrder(Members(s.v, e.about, "hidden"))
             IN  [s EXCEPT !.out = @ \o [i \in DOMAIN ws |-> Command("manage", ws[i])]]

\* window_destroyed_trigger; only the accessibility element is taken at its word.
OnDestroyed(s, e, near) ==
    LET w == e.about
        heir == GiveAway(s.v, w, near)
        given == IF heir \in s.v.known THEN Queued(s, "focus", heir) ELSE s
    IN  IF w \notin s.v.known \/ (e.kind = "leftSpace" /\ w \in Answering) THEN s
        ELSE Queued([given EXCEPT !.v = Forgotten(@, w)], "despawn", w)

\* front_switched_trigger and retry_front_switch
OnFronted(s, e) ==
    IF Answer(e.about) = NoWindow THEN Queued(s, "retry", e.about)
    ELSE Queued(s, "send", Event("focused", Answer(e.about)))
Retried(s, app) ==
    IF os.front # app THEN Queued(s, "settled", app)
    ELSE IF Answer(app) = NoWindow THEN s
    ELSE Queued(Queued(s, "send", Event("focused", Answer(app))), "settled", app)

\* auto_discover_unmanaged_focused_windows
OnUnknown(s, e) ==
    LET w == e.about
    IN  IF w \in s.v.known \/ w \in s.v.barred THEN s
        ELSE IF w \in os.open /\ Owner[w] \notin os.busy THEN Queued(s, "spawn", w)
        ELSE [s EXCEPT !.v.barred = @ \cup {w}]

\* apply_window_positions: a new window goes behind the focused one.
Behind(v) ==
    LET at == {i \in DOMAIN Active(v) : Active(v)[i] \in v.focused}
    IN  IF at = {} THEN Len(Active(v)) + 1 ELSE 1 + CHOOSE i \in at : TRUE
Placed(v, w) == IF RowsWith(v, w) # {} THEN v
                ELSE [v EXCEPT !.rows[v.active] = Inserted(@, Behind(v), w)]
Introduced(s, w) ==
    IF w \notin Background THEN Queued(s, "send", Event("focused", w))
    ELSE IF s.v.focused = {} THEN s ELSE Queued(s, "focus", CHOOSE x \in s.v.focused : TRUE)
Admitted(s, w) ==
    IF Tabbed(s.v, w) THEN s
    ELSE IF w \in Floating THEN Unmanage([s EXCEPT !.v = Unrowed(@, w)], w, "floating")
    ELSE Introduced([s EXCEPT !.v = Placed(@, w)], w)

\* detect_focus_rejection: the focus went elsewhere than was asked for.
SharesTabs(x, y) == \E t \in Tabs : {x, y} \subseteq t
Refused(v) ==
    /\ v.pending # NoWindow /\ v.pending \notin v.focused
    /\ \A f \in v.focused : ~SharesTabs(v.pending, f)
Rejection(s) ==
    LET v1 == [s.v EXCEPT !.added = FALSE, !.pending = NoWindow]
    IN  IF Refused(s.v)
        THEN Unmanage([s EXCEPT !.v = Without(v1, s.v.pending)], s.v.pending, "floating")
        ELSE [s EXCEPT !.v = v1]

Kinds == [focused |-> {"focused"}, state |-> {"minimized", "deminimized", "hidden", "visible"},
          destroyed |-> {"destroyed", "leftSpace"}, fronted |-> {"fronted"},
          discover |-> {"focused"}]
Systems == DOMAIN Kinds \cup {"place", "reject", "retry"}
HasWork(sys) ==
    CASE sys = "place" -> world.fresh # {}
      [] sys = "reject" -> world.added /\ world.focused # {}
      [] sys = "retry" -> world.retries # {}
      [] OTHER -> {i \in DOMAIN inbox : inbox[i].kind \in Kinds[sys]} # {}

\* What a system goes through, and what it does with each.
Work(sys) ==
    CASE sys = "place" -> InOrder(world.fresh)
      [] sys = "retry" -> InOrder(world.retries)
      [] OTHER -> inbox
Handled(sys, s, x, near) ==
    CASE sys = "place" -> Admitted(s, x)
      [] sys = "retry" -> Retried(s, x)
      [] sys \in DOMAIN Kinds /\ x.kind \notin Kinds[sys] -> s
      [] sys = "focused" /\ x.kind \in Kinds[sys] -> OnFocused(s, x)
      [] sys = "state" /\ x.kind \in Kinds[sys] -> OnState(s, x)
      [] sys = "destroyed" /\ x.kind \in Kinds[sys] -> OnDestroyed(s, x, near)
      [] sys = "fronted" /\ x.kind \in Kinds[sys] -> OnFronted(s, x)
      [] sys = "discover" /\ x.kind \in Kinds[sys] -> OnUnknown(s, x)
\* Only the destruction of a window looks for a neighbour at once.
Nearby(sys) == IF sys = "destroyed" THEN Windows ELSE {NoWindow}
Result(sys, near) ==
    IF sys = "reject" THEN Rejection(Bare)
    ELSE FoldLeft(LAMBDA s, x : Handled(sys, s, x, near),
                  IF sys = "place" THEN [Bare EXCEPT !.v.fresh = {}] ELSE Bare, Work(sys))

---------------------------------------------------------------------------
(* Frames *)

LostFocus == world.focused = {} /\ Active(world) # <<>>
Awake == \/ channel # <<>> \/ world.sent # <<>> \/ LostFocus
         \/ \E sys \in {"place", "reject", "retry"} : HasWork(sys)
Begin ==
    /\ Idle /\ Awake
    /\ inbox' = world.sent \o channel /\ channel' = <<>>
    /\ world' = [world EXCEPT !.sent = <<>>]
    /\ todo' = Systems \cup {"post"}
    /\ UNCHANGED <<os, naming, cmds, inputs, excused>>

\* A focus that is over is told of, and the app does not say which window has it.
Stale == \E i \in DOMAIN inbox :
    /\ inbox[i].kind = "focused"
    /\ Answer(Owner[inbox[i].about]) = NoWindow
    /\ os.focus[Owner[inbox[i].about]] # inbox[i].about

Run(sys) ==
    /\ sys \in todo /\ HasWork(sys)
    /\ \E s \in {Result(sys, near) : near \in Nearby(sys)} :
          world' = s.v /\ cmds' = cmds \o s.out
    /\ todo' = todo \ {sys}
    /\ excused' = (excused \/ (sys = "focused" /\ Stale))
    /\ UNCHANGED <<os, naming, channel, inbox, inputs>>

\* Commands are applied at the end of Update, and before that where the chain
\* of apply_window_positions, if it has windows to place, waits for them.
Done == \A sys \in todo \ {"post"} : ~HasWork(sys)
Sync ==
    /\ cmds # <<>> /\ cmds' = <<>> /\ (Done \/ HasWork("place"))
    /\ world' \in {AllApplied(world, cmds, near) : near \in Windows}
    /\ UNCHANGED <<os, naming, channel, inbox, todo, inputs, excused>>

\* The end of Update, and PostUpdate with recover_lost_focus, once a second.
Recovered(v) == IF LostFocus THEN FocusEntity(v, Head(Active(v))) ELSE v
Post ==
    /\ "post" \in todo /\ cmds = <<>> /\ Done
    /\ todo' = {} /\ inbox' = <<>>
    /\ world' \in {world, Recovered(world)}
    /\ UNCHANGED <<os, naming, channel, cmds, inputs, excused>>

\* A stray focus event or a retry of a front switch is given up after two seconds.
GiveUp ==
    /\ Idle /\ excused' = TRUE
    /\ \/ \E w \in world.strays : world' = [world EXCEPT !.strays = @ \ {w}]
       \/ \E app \in world.retries : world' = [world EXCEPT !.retries = @ \ {app}]
    /\ UNCHANGED <<os, naming, channel, inbox, todo, cmds, inputs>>

\* window_creation_event, in PreUpdate; the event was in the channel.
Create(w) ==
    /\ Idle /\ Contains(channel, Event("created", w))
    /\ channel' = Retained(channel, Range(channel) \ {Event("created", w)})
    /\ world' = Spawned(world, w)
    /\ UNCHANGED <<os, naming, inbox, todo, cmds, inputs, excused>>

---------------------------------------------------------------------------
(* Commands of the user, read in PreUpdate and applied at its end. *)

OfUser == Idle /\ Input /\ UNCHANGED <<os, naming, channel, inbox, todo, cmds, excused>>
InFocus == CHOOSE w \in world.focused : TRUE
Floats == {w \in world.known : world.unmanaged[w] = "floating" /\ Usable(w)}

\* get_window_in_direction, and the way in from outside the row.
InDirection(dir) ==
    LET row == Active(world)
        i == CHOOSE k \in DOMAIN row : row[k] = InFocus
    IN  IF row = <<>> THEN NoWindow
        ELSE IF ~Contains(row, InFocus)
        THEN IF dir \in {"east", "first"} THEN Head(row) ELSE Last(row)
        ELSE CASE dir = "first" -> Head(row)
               [] dir = "last" -> Last(row)
               [] dir = "west" -> IF i = 1 THEN NoWindow ELSE row[i - 1]
               [] dir = "east" -> IF i = Len(row) THEN NoWindow ELSE row[i + 1]
Candidates(dir) ==
    IF world.unmanaged[InFocus] = "floating" THEN Floats \ {InFocus}
    ELSE {InDirection(dir)} \ {NoWindow}
Asked(v, w) == FocusEntity([v EXCEPT !.pending = w], w)
MoveFocus(dir) ==
    /\ OfUser /\ world.focused # {}
    /\ \E w \in Candidates(dir) : world' = Asked(world, w)

FloatingTargets == IF world.lastFloating \in Floats THEN {world.lastFloating} ELSE Floats
ManagedTargets ==
    IF Active(world) = <<>> THEN {}
    ELSE IF Contains(Active(world), world.lastManaged) THEN {world.lastManaged}
    ELSE {Head(Active(world))}
FocusFloating == OfUser /\ \E w \in FloatingTargets : world' = FocusEntity(world, w)
FocusManaged == OfUser /\ \E w \in ManagedTargets : world' = FocusEntity(world, w)
ToggleLayer ==
    /\ OfUser
    /\ LET v == [world EXCEPT !.floatsInFront = ~@]
           targets == IF v.floatsInFront THEN FloatingTargets ELSE ManagedTargets
       IN  \/ targets = {} /\ world' = v
           \/ \E w \in targets : world' = FocusEntity(v, w)

Manage ==
    /\ OfUser /\ world.focused # {}
    /\ \E near \in Windows :
         world' = IF world.unmanaged[InFocus] = "none"
                  THEN Unmanaging(world, InFocus, "floating", near)
                  ELSE Managing(Placed(world, InFocus), InFocus, near)

SwitchRow(r) ==
    /\ OfUser /\ r # world.active /\ world' = [world EXCEPT !.active = r]

---------------------------------------------------------------------------
(* macOS does what focus_entity asked, picks a tab of the group, or stays. *)

Answered == Idle /\ world.asked # NoWindow /\ Len(naming) < MaxNaming
            /\ world' = [world EXCEPT !.asked = NoWindow]
            /\ UNCHANGED <<inbox, todo, cmds, inputs, excused>>
Grant ==
    /\ Answered
    /\ \E w \in {x \in Windows : x = world.asked \/ SharesTabs(x, world.asked)} :
          /\ Usable(w) /\ os' = Focusing(w)
          /\ IF os = os' /\ w = world.asked THEN UNCHANGED <<naming, channel>>
             ELSE naming' = Append(naming, w) /\ channel' = channel \o FrontEvents(w)
Refuse ==
    /\ Answered /\ UNCHANGED <<os, channel>>
    /\ naming' = IF os.focus[os.front] = NoWindow THEN naming
                 ELSE Append(naming, os.focus[os.front])

Init ==
    /\ \E front \in {Owner[Start[1]]} :
         os = [open |-> Range(Start), closed |-> {}, minimized |-> {}, hidden |-> {},
               busy |-> {}, front |-> front,
               focus |-> [app \in Apps |->
                  LET own == Retained(Start, {w \in Windows : Owner[w] = app})
                  IN  IF own = <<>> THEN NoWindow ELSE Head(own)]]
    /\ world = [known |-> Range(Start), unmanaged |-> [w \in Windows |-> "none"],
                rows |-> [r \in 1 .. Rows |-> IF r = 1 THEN Start ELSE <<>>], active |-> 1,
                previous |-> [w \in Windows |-> {}],
                focused |-> {Start[1]}, added |-> FALSE, pending |-> NoWindow,
                lastManaged |-> Start[1], lastFloating |-> NoWindow, floatsInFront |-> TRUE,
                fresh |-> {}, strays |-> {}, retries |-> {}, barred |-> {},
                sent |-> <<>>, asked |-> NoWindow]
    /\ naming = <<>> /\ channel = <<>> /\ inbox = <<>> /\ todo = {} /\ cmds = <<>>
    /\ inputs = 0 /\ excused = FALSE

OSNext ==
    \/ \E w \in Windows : \/ Open(w) \/ Click(w) \/ Minimize(w) \/ Deminimize(w)
                          \/ Close(w) \/ Leave(w)
    \/ \E app \in Apps : Hide(app) \/ Show(app) \/ Stall(app) \/ Resume(app)
    \/ Grant \/ Refuse \/ Name
UserNext ==
    \/ \E dir \in {"west", "east", "first", "last"} : MoveFocus(dir)
    \/ FocusFloating \/ FocusManaged \/ ToggleLayer \/ Manage
    \/ \E r \in 1 .. Rows : SwitchRow(r)
FrameNext ==
    \/ Begin \/ (\E sys \in Systems : Run(sys)) \/ Sync \/ Post
    \/ \E w \in Windows : Create(w)
Next == OSNext \/ UserNext \/ FrameNext \/ GiveUp

Spec == Init /\ [][Next]_vars

---------------------------------------------------------------------------
Rest ==
    /\ Idle /\ naming = <<>> /\ channel = <<>> /\ world.sent = <<>> /\ world.asked = NoWindow
    /\ world.fresh = {} /\ world.strays = {} /\ world.retries = {}
    /\ ~HasWork("reject")

\* Once all is handled, a window is in one row if it is managed and in none if
\* it is floating, minimized or hidden, and rows hold only windows there are.
TiledOnce ==
    Rest => \A w \in Windows :
        Cardinality(RowsWith(world, w)) =
            (IF w \in world.known /\ world.unmanaged[w] = "none" THEN 1 ELSE 0)

\* At most one window has the focus, and it is one there is.  Once all is
\* handled it is the tiled window macOS has it on, unless an event was given up,
\* or the window is to open in the background.
FollowsOS ==
    LET w == os.focus[os.front]
    IN  /\ Cardinality(world.focused) <= 1 /\ world.focused \subseteq world.known
        /\ Rest /\ ~excused /\ w \in world.known \ Background /\ world.unmanaged[w] = "none"
            => world.focused = {w}

\* A rejected focus of w is to float it.
Refloated(w) == \E i \in DOMAIN cmds :
    cmds[i].op = "unmanage" /\ cmds[i].on = [window |-> w, as |-> "floating"]

\* A window that is minimized or hidden comes back to the row it left.
ReturnsToRow ==
    [][\A w \in Windows :
        LET away == {"minimized", "hidden"}
            left == world.unmanaged[w] \notin away /\ world'.unmanaged[w] \in away
            back == world.unmanaged[w] \in away /\ world'.unmanaged[w] = "none" /\ ~Refloated(w)
        IN  /\ left => \A r \in RowsWith(world, w) : \E p \in world'.previous[w] : p.row = r
            /\ back /\ w \in world'.known /\ w \in os.open =>
                   \A p \in world.previous[w] : RowsWith(world', w) = {p.row}]_vars

==============================================================================
