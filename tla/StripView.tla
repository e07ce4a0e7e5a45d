------------------------------ MODULE StripView ------------------------------
(****************************************************************************)
(* One row of a display from the calls that ask for a change to the frames  *)
(* the window server gets: the layout chain of src/ecs/layout.rs, the       *)
(* scroll of src/ecs/scroll.rs, the resize and placement commands of        *)
(* src/commands.rs and the animators of src/ecs/systems.rs.                 *)
(*                                                                          *)
(* A command or an event leaves markers and goals; Frame is one run of the  *)
(* schedule, which turns them into slots (LayoutPosition), sizes (Bounds)   *)
(* and positions.  A change made late in a frame is seen by the next one,   *)
(* so a single command takes several frames to come to rest.  Animations    *)
(* take one frame, as they do unless animation_speed is set.                *)
(****************************************************************************)
EXTENDS StripGeometry

CONSTANTS Windows, NoWindow,
          Widths, Heights,   \* preset_column_widths, preset_stack_heights, in pixels
          Configs,           \* the settings tried: records of booleans [auto, continuous]
          Layouts,           \* the strips a behaviour starts with
          MaxInputs,         \* commands, gestures and events of a behaviour
          HiddenToo          \* whether scripts touch windows of a hidden row

ASSUME ViewAssumption ==
    /\ NoWindow \notin Windows /\ MaxInputs \in Nat /\ HiddenToo \in BOOLEAN
    /\ Widths \subseteq 1 .. ViewWidth /\ Heights \subseteq 1 .. ViewHeight
    /\ Configs \subseteq [auto : BOOLEAN, continuous : BOOLEAN]

VARIABLES
    strip,     \* LayoutStrip.columns
    size,      \* Bounds of each window
    slot,      \* LayoutPosition
    pos,       \* Position
    resize,    \* ResizeMarker: a partial function to sizes
    move,      \* RepositionMarker of windows: a partial function to points
    wide,      \* FullWidthMarker: a partial function to the width to return to
    view,      \* the strip's entity: Position, markers and scroll; see Init
    around,    \* windows with ReshuffleAroundMarker
    ensure,    \* windows with EnsureVisibleMarker
    touched,   \* LayoutStrip, or a member's Bounds or Position, has changed
    resized,   \* windows that have just lost their ResizeMarker
    stray,     \* a window in no strip has a new LayoutPosition as well
    config,
    astray,    \* windows moved or resized from outside, or that a pass left where
               \* they were, and that no pass has placed since
    unseen,    \* a size of a tab was written behind change detection and no pass ran
    asked,     \* the last window asked for, and the layout it was asked in
    inputs

marks == <<resize, move, around, ensure>>
flags == <<touched, resized, stray>>
ghosts == <<astray, asked, unseen>>
vars == <<strip, size, slot, pos, wide, view, marks, flags, config, ghosts, inputs>>

Zero == Point(0, 0)
Parked == Point(ViewWidth - ParkedSliver, ViewHeight - ParkedSliver)
Nothing == <<>>   \* the empty partial function

\* Sets of at most one value stand for Option: goal is the RepositionMarker of
\* the strip, manual the signature of a ManualStripOffset, previous the
\* PreviousStripPosition of a hidden row, scroll its Scrolling component.
NewView == [at |-> Zero, goal |-> {}, manual |-> {}, previous |-> {}, scroll |-> {},
            slid |-> FALSE, shown |-> TRUE, fresh |-> FALSE, arriving |-> NoWindow]

Init ==
    /\ strip \in Layouts /\ view = NewView
    /\ size \in [Windows -> {[w |-> n, h |-> ViewHeight] : n \in Widths}]
    /\ slot = [w \in Windows |-> Zero] /\ pos = slot
    /\ resize = Nothing /\ move = Nothing /\ wide = Nothing
    /\ around = {} /\ ensure = {}
    /\ touched = TRUE /\ resized = {} /\ stray = FALSE
    /\ config \in Configs
    /\ astray = {} /\ unseen = FALSE /\ asked = [w |-> NoWindow, in |-> <<>>] /\ inputs = 0

Members == {w \in Windows : HasWindow(strip, w)}
Without_(f, S) == [w \in DOMAIN f \ S |-> f[w]]
Coming(w) == IF w \in DOMAIN resize THEN resize[w] ELSE size[w]
ComingSize == resize @@ size
MovingOrigin(w) == IF w \in DOMAIN move THEN move[w] ELSE pos[w]
Target(v) == IF v.goal = {} THEN v.at ELSE CHOOSE p \in v.goal : TRUE

Resting == /\ ~touched /\ resize = Nothing /\ move = Nothing
           /\ around = {} /\ ensure = {} /\ resized = {} /\ ~stray
           /\ view.goal = {} /\ ~view.slid /\ view.scroll = {} /\ ~view.fresh

------------------------------------------------------------------------------
(* Inputs. *)

Input == inputs < MaxInputs /\ inputs' = inputs + 1 /\ UNCHANGED config
Forget == asked' = [w |-> NoWindow, in |-> <<>>] /\ UNCHANGED unseen
Usable == view.shown \/ HiddenToo

\* The calls of LayoutStrip that Columns has; the caller asks for the window to
\* be shown, and the change of the component is seen by the next frame.
Rearrange(w, cols, show) ==
    /\ Input /\ Usable /\ strip' = cols /\ touched' = TRUE /\ Forget
    /\ around' = IF show THEN around \cup {w} ELSE around
    /\ UNCHANGED <<size, slot, pos, wide, view, resize, move, ensure, resized,
                   stray, astray>>

Enter(w) == w \notin Members /\
    \E i \in 1 .. Len(strip) + 1 : Rearrange(w, InsertWindow(strip, i, w), TRUE)
Leave(w) == w \in Members /\ Rearrange(w, RemoveWindow(strip, w), FALSE)
Stack(w) == w \in Members /\ Rearrange(w, StackWindow(strip, w), TRUE)
Unstack(w) == w \in Members /\ Rearrange(w, UnstackWindow(strip, w), TRUE)
GroupTabs(v, w) == v # w /\ {v, w} \subseteq Members /\
    Rearrange(v, ConvertToTabs(strip, v, w), TRUE)

\* command_swap_focus: the strip moves as little as will show the window.
Swap(w) == \E v \in InDirection(strip, w, "west") \cup InDirection(strip, w, "east") :
    /\ Input /\ Usable /\ touched' = TRUE /\ Forget
    /\ strip' = ShiftColumn(strip, IndexOf(strip, w), IndexOf(strip, v))
    /\ ensure' = ensure \cup {w}
    /\ UNCHANGED <<size, slot, pos, wide, view, resize, move, around, resized,
                   stray, astray>>

\* A focus event, or a command that focuses: reshuffle_around.  A strip that is
\* being scrolled takes its offset from the scroll, and of two windows asked for
\* in one frame either may come last: such a window is asked for in vain.
Ask(w) ==
    /\ Input /\ Usable /\ w \in Members /\ around' = around \cup {w}
    /\ asked' = IF view.scroll # {} \/ around \cup ensure # {} THEN [w |-> NoWindow, in |-> <<>>]
                ELSE [w |-> w, in |-> Signature(strip, ComingSize)]
    /\ UNCHANGED unseen
    /\ UNCHANGED <<strip, size, slot, pos, wide, view, resize, move, ensure, flags, astray>>

\* A window that floats gets its components: its new LayoutPosition is one of
\* those the next pass goes through.
Stray == /\ Input /\ stray' = TRUE
         /\ UNCHANGED <<strip, size, slot, pos, wide, view, marks, touched, resized,
                        ghosts>>

\* Center and Snap place the strip by hand: the first around the middle, the
\* second at the nearest edge.
PlaceByHand(w, origin) ==
    /\ Input /\ view.shown /\ w \in Members /\ Forget
    /\ view' = [view EXCEPT !.goal = {Minus(origin, slot[w])},
                            !.manual = {Signature(strip, ComingSize)}]
    /\ UNCHANGED <<strip, size, slot, pos, wide, marks, flags, astray>>

Center(w) == PlaceByHand(w, Point(ViewWidth \div 2 - size[w].w \div 2, pos[w].y))
Snap(w) == PlaceByHand(w, ClampOrigin(MovingOrigin(w), Coming(w)))

\* The preset after the current value; past the end it starts over
\* (window_resize_cycle).
NextPreset(now, presets, dir) ==
    LET after == {n \in presets : IF dir = "grow" THEN n > now ELSE n < now}
        S     == IF after = {} THEN presets ELSE after
    IN  IF dir = "grow" THEN Min(S) ELSE Max(S)

StackMates(w) == LET column == strip[IndexOf(strip, w)]
                 IN  IF IsStack(column) THEN ToSet(WindowsOf(column)) ELSE {w}

\* What the resize commands leave: new sizes to come, a place for the window, a
\* reshuffle around it.
Sizes(new, places, shows) ==
    /\ Input /\ view.shown /\ Forget
    /\ resize' = new @@ resize /\ move' = places @@ move
    /\ around' = around \cup shows
    /\ UNCHANGED <<size, slot, pos, view, ensure, resized, stray, astray>>

\* The width of a window, and of the ones stacked with it.
ResizeWindow(w, dir) ==
    LET width  == NextPreset(size[w].w, Widths, dir)
        frame  == [w |-> width, h |-> size[w].h]
        left   == pos[w].x + size[w].w \div 2 - width \div 2
    IN  /\ w \in Members
        /\ Sizes((w :> frame) @@ [v \in StackMates(w) |-> [size[v] EXCEPT !.w = width]],
                 w :> ClampOrigin(Point(left, pos[w].y), frame), {w})
        /\ wide' = Without_(wide, {w}) /\ UNCHANGED <<strip, touched>>

\* The height of a stacked window; its neighbour takes the difference.
ResizeVertical(w, dir) == \E i \in DOMAIN strip :
    LET items == strip[i].items
        k     == PositionOf(strip[i], w)
        m     == IF k < Len(items) THEN k + 1 ELSE k - 1
        pair  == Coming(items[k].ws[1]).h + Coming(items[m].ws[1]).h
        h     == Between(NextPreset(Coming(items[k].ws[1]).h, Heights, dir),
                         MinHeight, pair - MinHeight)
        tall(n) == [v \in ToSet(items[n].ws) |->
                       [size[v] EXCEPT !.h = IF n = k THEN h ELSE pair - h]]
    IN  /\ i = IndexOf(strip, w) /\ IsStack(strip[i]) /\ pair >= 2 * MinHeight
        /\ Sizes(tall(k) @@ tall(m), Nothing, {}) /\ UNCHANGED <<strip, wide, touched>>

EqualizeColumn(w) == \E i \in DOMAIN strip :
    /\ i = IndexOf(strip, w) /\ IsStack(strip[i])
    /\ Sizes([v \in ToSet(WindowsOf(strip[i])) |->
                 [size[v] EXCEPT !.h = ViewHeight \div Len(strip[i].items)]], Nothing, {})
    /\ UNCHANGED <<strip, wide, touched>>

BalanceStrip(w) ==
    /\ w \in Members
    /\ Sizes([v \in Members |-> [size[v] EXCEPT !.w = size[w].w]], Nothing, {w})
    /\ wide' = Without_(wide, Members) /\ UNCHANGED <<strip, touched>>

\* Full width: out of its stack and as wide as the view, or back.
FullWidthWindow(w) == w \in Members /\
    \/ /\ w \in DOMAIN wide
       /\ Sizes(w :> [w |-> wide[w], h |-> ViewHeight], Nothing, {})
       /\ wide' = Without_(wide, {w}) /\ UNCHANGED <<strip, touched>>
    \/ /\ w \notin DOMAIN wide
       /\ Sizes(w :> [w |-> ViewWidth, h |-> ViewHeight], w :> Zero, {w})
       /\ wide' = (w :> size[w].w) @@ wide
       /\ strip' = UnstackWindow(strip, w) /\ touched' = TRUE

\* window_resized_update_frame: an edge dragged by the user.  The strip gives
\* way on the left, the window above at the top; tabs are left to the layout.
\* window_moved_update_frame follows with the new origin.
UserResizes(w, frame, edge) ==
    LET dx    == size[w].w - frame.w
        dy    == frame.h - size[w].h
        tabs  == Tabbed(strip, w)
        gives == {v \in Above(strip, w) : edge = "top" /\ ~tabs /\ size[v].h - dy > MinHeight}
    IN  /\ Input /\ w \in Members /\ w \notin DOMAIN resize /\ frame # size[w]
        /\ \A s \in view.scroll : ~s.down
        /\ edge = "left" => dy = 0 /\ dx # 0
        /\ edge = "top" => dx = 0 /\ dy # 0
        /\ asked' = [w |-> NoWindow, in |-> <<>>]
        /\ unseen' = (unseen \/ tabs)
        /\ size' = [v \in Windows |-> IF v = w THEN frame
                                      ELSE IF v \in gives THEN [size[v] EXCEPT !.h = @ - dy]
                                      ELSE size[v]]
        /\ touched' = (touched \/ ~tabs \/ edge # "right")
        /\ view' = IF edge = "left" /\ ~tabs THEN [view EXCEPT !.at.x = @ + dx, !.slid = TRUE] ELSE view
        /\ pos' = CASE edge = "left" -> [pos EXCEPT ![w].x = @ + dx]
                    [] edge = "top"  -> [pos EXCEPT ![w].y = @ - dy]
                    [] edge = "right" -> pos
        /\ astray' = astray \cup {w} \cup gives
        /\ UNCHANGED <<strip, slot, wide, marks, resized, stray>>

UserMoves(w) ==
    /\ Input /\ w \in Members /\ w \notin DOMAIN move /\ pos[w] # Zero
    /\ \A s \in view.scroll : ~s.down
    /\ pos' = [pos EXCEPT ![w] = Zero] /\ touched' = TRUE /\ astray' = astray \cup {w}
    /\ Forget
    /\ UNCHANGED <<strip, size, slot, wide, view, marks, resized, stray>>

\* window_resize_verifier: the application took another size than it was asked
\* for.  A window that cannot shrink widens the others of its column.
Refuse(w, frame) ==
    LET now   == [size EXCEPT ![w] = frame]
        mates == ToSet(WindowsOf(strip[IndexOf(strip, w)])) \ {w}
        width == ColumnWidth(strip[IndexOf(strip, w)], now)
    IN  /\ Input /\ w \in resized /\ frame # size[w] /\ Forget
        /\ size' = now /\ touched' = TRUE
        /\ resize' = IF frame.w > size[w].w /\ w \in Members
                     THEN [v \in {m \in mates : size[m].w < width} |->
                              [w |-> width, h |-> frame.h]] @@ resize
                     ELSE resize
        /\ resized' = resized \ {w}
        /\ astray' = astray \cup {w}
        /\ UNCHANGED <<strip, slot, pos, wide, view, move, around, ensure, stray>>

\* swipe_gesture: fingers down, or a movement of them with its velocity.  A
\* placement by hand ends here.
Gesture(delta, speed) ==
    /\ Input /\ view.shown /\ Forget
    /\ LET s == CHOOSE s \in view.scroll : TRUE
           begun == view.scroll # {}
       IN  view' = [view EXCEPT !.manual = {}, !.scroll =
                       IF begun THEN {[pos |-> s.pos + delta, down |-> TRUE, speed |-> speed]}
                       ELSE IF delta = 0 THEN {}
                       ELSE {[pos |-> view.at.x + delta, down |-> TRUE, speed |-> speed]}]
    /\ UNCHANGED <<strip, size, slot, pos, wide, marks, flags, astray>>

\* Another row of the space comes on screen, or this one does, perhaps because
\* one of its windows took the focus (show_active_workspace).
Hide ==
    /\ Input /\ view.shown /\ Forget
    /\ view' = [view EXCEPT !.shown = FALSE, !.at = Parked, !.goal = {}, !.manual = {},
                            !.scroll = {}, !.slid = TRUE, !.fresh = FALSE,
                            !.previous = IF @ = {} THEN {Target(view)} ELSE @]
    /\ UNCHANGED <<strip, size, slot, pos, wide, marks, flags, astray>>

Show(w) ==
    /\ Input /\ ~view.shown /\ w \in Members \cup {NoWindow}
    /\ view' = [view EXCEPT !.shown = TRUE, !.fresh = TRUE, !.arriving = w]
    /\ Forget
    /\ UNCHANGED <<strip, size, slot, pos, wide, marks, flags, astray>>

------------------------------------------------------------------------------
(* The frame. *)

\* Mutant_X is X with a mistake in it; no definition uses it.
Mutant_Reshuffled(v, w, slots, sizes) ==
    LET moving == IF w \in DOMAIN resize THEN resize[w] ELSE sizes[w]
        coming == resize @@ sizes
        keeps  == \A m \in v.manual : SameShape(Signature(strip, coming), m)
        x      == ClampOrigin(MovingOrigin(w), moving).x - slots[w].x
        edges  == ~config.auto /\ ~config.continuous
    IN  CASE w \notin Members \/ v.fresh -> v
          [] w \in Members /\ ~v.fresh /\ v.manual # {} /\ keeps -> v
          [] OTHER -> [v EXCEPT !.manual = {},
                                !.goal = {Point(IF edges THEN NoGapOffset(strip, slots, coming, x)
                                                ELSE x, 0)}]

\* reshuffle_layout_strip for one marker: a placement by hand that still shows
\* the window is kept; otherwise the strip moves so that the window stays where
\* it is on screen, or comes on screen.
Reshuffled(v, w, slots, sizes) ==
    LET moving == IF w \in DOMAIN resize THEN resize[w] ELSE sizes[w]
        at     == Plus(slots[w], Target(v))
        coming == resize @@ sizes
        keeps  == /\ \A m \in v.manual : SameShape(Signature(strip, coming), m)
                  /\ ClampOrigin(at, moving) = at
        x      == ClampOrigin(MovingOrigin(w), moving).x - slots[w].x
        edges  == ~config.auto /\ ~config.continuous
    IN  CASE w \notin Members \/ v.fresh -> v
          [] w \in Members /\ ~v.fresh /\ v.manual # {} /\ keeps -> v
          [] OTHER -> [v EXCEPT !.manual = {},
                                !.goal = {Point(IF edges THEN NoGapOffset(strip, slots, coming, x)
                                                ELSE x, 0)}]

Mutant_Ensured(v, w, slots, sizes) ==
    LET at == Plus(slots[w], Target(v))
    IN  IF w \notin Members \/ v.fresh \/ ClampOrigin(at, sizes[w]) = at THEN v
        ELSE [v EXCEPT !.goal = {OriginExposing(slots[w], sizes[w], Target(v))}]

\* ensure_visible_in_strip for one marker.
Ensured(v, w, slots, sizes) ==
    LET at == Plus(slots[w], Target(v))
    IN  IF w \notin Members \/ v.fresh \/ ClampOrigin(at, sizes[w]) = at THEN v
        ELSE [v EXCEPT !.manual = {}, !.goal = {OriginExposing(slots[w], sizes[w], Target(v))}]

\* The scroll chain: inertia, the snap force, the integrator, the bounds of the
\* strip, and the end of the swipe some time after the fingers were lifted.
Scrolled(v, slots, sizes) ==
    LET s      == CHOOSE s \in v.scroll : TRUE
        centre == CentreOffset(strip, slots, sizes, v.at.x)
        snaps  == config.auto /\ ~s.down /\ 20 * Distance(v.at.x, centre) < 9 * ViewWidth
        step(speed, x, lifted) ==
            LET to == ScrollOffset(strip, slots, sizes, x + speed, config.continuous)
            IN  [v EXCEPT !.at.x = to, !.slid = TRUE,
                          !.scroll = IF lifted /\ speed = 0 THEN {}
                                     ELSE {[pos |-> to, down |-> ~lifted, speed |-> speed]}]
        halt(lifted) == [v EXCEPT !.scroll = IF lifted THEN {}
                                             ELSE {[s EXCEPT !.speed = 0]}]
        lifts == IF s.down THEN BOOLEAN ELSE {TRUE}
    IN  CASE v.scroll = {} \/ ~v.shown -> {v}
          [] v.scroll # {} /\ v.shown /\ strip = <<>> -> {halt(l) : l \in lifts}
          [] OTHER -> {step(speed, x, l) : l \in lifts,
                          speed \in IF s.down THEN {s.speed} ELSE {s.speed, 0},
                          x \in IF snaps /\ s.speed = 0 THEN {s.pos, centre} ELSE {s.pos}}

\* show_active_workspace for the row that comes back.
Restored(v, slots, sizes) ==
    LET p == CHOOSE p \in v.previous : TRUE
        w == v.arriving
    IN  IF ~v.fresh \/ v.previous = {} THEN [v EXCEPT !.fresh = FALSE, !.arriving = NoWindow]
        ELSE [v EXCEPT !.fresh = FALSE, !.arriving = NoWindow, !.previous = {}, !.slid = TRUE,
                       !.at = IF w \in Members THEN OriginExposing(slots[w], sizes[w], p)
                              ELSE p]

\* layout_strip_changed: the slots and sizes of a strip that has changed.
Laid == IF touched THEN RelativePositions(strip, size) ELSE Nothing

\* The animators reach the goal in one tick.
Moved(moves) == moves @@ pos
Grown(sizes) == resize @@ sizes

\* The windows a pass of position_layout_windows is for: those with a new slot,
\* and all of a strip that has moved.
Due(v, slots) == {w \in Members : slots[w] # slot[w]} \cup (IF v.slid THEN Members ELSE {})

\* Whether the next pass lays the strip out again: the layout wrote a size, or
\* an animator wrote its component, whatever the value was.
Mutant_Noticed(sizes, moves) == Members \cap (DOMAIN resize \cup DOMAIN moves) # {}
Noticed(sizes, moves) ==
    \E w \in Members : sizes[w] # size[w] \/ w \in DOMAIN resize \cup DOMAIN moves

\* The layout chain, the scroll before or after it, the return of a row, and in
\* PostUpdate the animators.  A window that is in no strip ends the loop of
\* position_layout_windows: any of the others may then not have had its turn.
Frame ==
    \E slots \in {[w \in DOMAIN Laid |-> Laid[w].slot] @@ slot},
       sizes \in {[w \in DOMAIN Laid |-> Laid[w].size] @@ size} :
        \E before \in BOOLEAN, arounds \in SetToSeqs(around), ensures \in SetToSeqs(ensure) :
        \E v1 \in IF before THEN Scrolled(view, slot, size) ELSE {view} :
        LET v2   == FoldLeft(LAMBDA v, w : Reshuffled(v, w, slots, sizes), v1, arounds)
            v3   == FoldLeft(LAMBDA v, w : Ensured(v, w, slots, sizes), v2, ensures)
            due  == Due(v3, slots)
        IN  \E v4 \in IF before THEN {[v3 EXCEPT !.slid = FALSE]}
                      ELSE Scrolled([v3 EXCEPT !.slid = FALSE], slots, sizes) :
            \E done \in IF stray THEN SUBSET due ELSE {due} :
            LET to(w) == FrameIn(v3.at, slots[w], sizes[w])
                moves == [w \in {u \in done : pos[u] # to(u)} |-> to(w)] @@ move
                v5    == Restored(v4, slots, sizes)
                \* Off screen at the left a window's place depends on its width,
                \* but a new width alone does not have it placed again.
                outgrown == {w \in Members :
                    /\ pos'[w] = FrameIn(view'.at, slots[w], size[w])
                    /\ pos'[w] # FrameIn(view'.at, slots[w], size'[w])}
            IN  /\ slot' = slots
                /\ size' = Grown(sizes) /\ pos' = Moved(moves)
                /\ view' = [v5 EXCEPT !.at = Target(v5), !.goal = {},
                                      !.slid = v5.slid \/ v5.goal # {}]
                /\ touched' = Noticed(sizes, moves)
                /\ astray' = (astray \ done) \cup (due \ done) \cup outgrown
                /\ unseen' = (unseen /\ ~touched)
                /\ ensure' = IF view.fresh /\ view.previous # {}
                             THEN {view.arriving} \cap Members ELSE {}
                /\ around' = {} /\ stray' = FALSE
                /\ resize' = Nothing /\ move' = Nothing /\ resized' = DOMAIN resize
                /\ UNCHANGED <<strip, wide, config, asked, inputs>>

Edges == {"left", "right", "top"}
SomeSizes == [w : Widths, h : Heights]
InputStep ==
    \/ \E w \in Windows : Enter(w) \/ Leave(w) \/ Stack(w) \/ Unstack(w) \/ Swap(w) \/ Ask(w)
    \/ \E v, w \in Windows : GroupTabs(v, w)
    \/ \E w \in Windows : Center(w) \/ Snap(w) \/ EqualizeColumn(w) \/ BalanceStrip(w)
                          \/ FullWidthWindow(w) \/ UserMoves(w)
    \/ \E w \in Windows, dir \in {"grow", "shrink"} : ResizeWindow(w, dir) \/ ResizeVertical(w, dir)
    \/ \E w \in Windows, frame \in SomeSizes, e \in Edges : UserResizes(w, frame, e)
    \/ \E w \in Windows, frame \in SomeSizes : Refuse(w, frame)
    \/ \E d, speed \in -1 .. 1 : Gesture(d, speed)
    \/ Hide \/ Stray \/ \E w \in Windows \cup {NoWindow} : Show(w)

Next == InputStep \/ Frame

Spec == Init /\ [][Next]_vars

------------------------------------------------------------------------------
(* Properties. *)

\* The slots and sizes are the ones the layout computes from the sizes there are.
SlotsAreLaidOut ==
    LET laid == RelativePositions(strip, size)
    IN  \A w \in DOMAIN laid : slot[w] = laid[w].slot /\ size[w] = laid[w].size

\* Every window is where its slot and the strip's offset put it, unless the
\* user moved it there or a pass never came to it (position_layout_windows).
PlacedInSlot == \A w \in Members \ astray : pos[w] = FrameIn(view.at, slot[w], size[w])

\* Wherever the strip is, each of its windows keeps a sliver on its own display:
\* one that left it would be adopted by the display it landed on.
KeepsSliver ==
    \A w \in Members \ astray :
        /\ pos[w].x + size[w].w >= SmallerOf(Sliver, ParkedSliver)
        /\ pos[w].x <= ViewWidth - SmallerOf(Sliver, ParkedSliver)
        /\ pos[w].y <= ViewHeight - ParkedSliver

\* Once nothing is pending the strip is tiled, and its windows stand where it
\* wants them.  A size changed by a command, the user, an application or the
\* layout itself (the width of a stack follows its top window) is noticed by a
\* later frame, whatever came in between.
RestIsTiled == Resting => (unseen \/ SlotsAreLaidOut) /\ PlacedInSlot /\ KeepsSliver

\* At rest the items of a column that fits fill the height of the view, from
\* top to bottom: no height is left over by the packing or handed out twice.
ColumnsFill == (Resting /\ ~unseen) =>
    \A i \in DOMAIN strip : HeightsOf(strip[i], size) # <<>> =>
        MapThenSumSet(LAMBDA k : size[strip[i].items[k].ws[1]].h, DOMAIN strip[i].items)
            = ViewHeight

\* The window last asked for is on screen when all has come to rest, if the
\* layout is still the one it was asked in (reshuffle_layout_strip).
AskedIsShown ==
    (Resting /\ view.shown /\ asked.w \in Members /\ asked.in = Signature(strip, size)) =>
        LET x == slot[asked.w].x + view.at.x
        IN  ClampOrigin(Point(x, 0), size[asked.w]).x = x

\* While the mark of a placement by hand stays, no frame moves the strip from
\* where it was put, whatever windows are asked for, unless it is scrolled.
ManualStays ==
    [][ (/\ inputs' = inputs /\ view.scroll = {}
         /\ view.manual # {} /\ view'.manual = view.manual)
        => Target(view') = Target(view) ]_vars

\* A hidden row stays in the corner of its display: "Hiding a workspace parks
\* its strip this many pixels inside the display's bottom-right corner"
\* (PARKED_STRIP_SLIVER).
HiddenStaysParked == view.shown \/ Target(view) = Parked

==============================================================================
