------------------------------ MODULE LayoutOps ------------------------------
(****************************************************************************)
(* A script's handler takes the layout as a value (extract_window_set in    *)
(* src/ecs/state.rs), transforms it (WindowSet), and the operations it      *)
(* recorded are replayed against the live layout a frame or more later      *)
(* (src/ecs/layout_ops.rs), when windows may be gone, minimized or moved.   *)
(*                                                                          *)
(* Edits of strips happen while the operations are replayed; the floating   *)
(* mark, the moves to another row, the view and the focus are commands or   *)
(* messages that take effect later, each in an action of its own.           *)
(****************************************************************************)
EXTENDS WindowSet, Columns

CONSTANTS
    Windows,
    DisplayOrder,        \* the displays, in the order of the query
    SpacesOf,            \* the native spaces of each display, one after the other
    OSSpace,             \* the native space macOS keeps each window on
    MaxIndex,            \* bound: the rows of a space have the indices 0 to MaxIndex
    Asks,                \* the operations a script may ask for, by name
    World,               \* what else happens: "close", "minimize", "switch"
    MaxOps,              \* bound: operations of all handlers together
    MaxEvents,           \* bound: what else happens
    Start                \* the columns of every row at the beginning

Spaces == UNION {ToSet(SpacesOf[d]) : d \in ToSet(DisplayOrder)}
Indices == 0 .. MaxIndex
Rows == Spaces \X Indices
Floating == "floating"
Minimized == "minimized"

\* The columns of a strip, none of them empty, and none of their items.
ItemRecs == [tabs : BOOLEAN, ws : Seq(Windows) \ {<<>>}]
ColumnRecs == [full : BOOLEAN, items : Seq(ItemRecs) \ {<<>>}]

\* Bound: every row that can be named is there, and stays (VirtualWorkspaces
\* has the creation and the reaping of rows).
ASSUME IndexAssumption == MaxIndex \in Nat
ASSUME StartAssumption == Start \in [Rows -> Seq(ColumnRecs)]
ASSUME WindowsAssumption == IsFiniteSet(Windows)

\* There is a display, and the first has a space.
ASSUME DisplaysAssumption ==
    /\ DisplayOrder \in Seq(ToSet(DisplayOrder)) \ {<<>>}
    /\ \A d \in ToSet(DisplayOrder) : SpacesOf[d] \in Seq(Spaces)
    /\ SpacesOf[DisplayOrder[1]] # <<>>

VARIABLES
    strips,       \* the columns of the LayoutStrip of each row
    active,       \* the row with ActiveWorkspaceMarker
    selected,     \* the rows with SelectedVirtualMarker, one for each space
    known,        \* the windows that have an entity
    unmanaged,    \* Unmanaged, "no" without the component
    previous,     \* PreviousManagedStrip: {} or {[row, at]}
    handler,      \* {} or the value the running handler holds
    fresh,        \* nothing changed since the handler read the layout
    batches,      \* Command::Layout events not yet read
    cmds,         \* commands of the replay that are not applied yet
    marks,        \* VirtualMoveMarker: [win, index, follow]
    views,        \* VirtualNumber commands not yet read
    asking,       \* windows whose focus was asked of macOS
    spent,        \* operations spent so far
    events,       \* what else happened so far
    promise       \* {} or the value whose prediction is under way

live == <<strips, active, selected, known, unmanaged, previous>>
asked == <<cmds, marks, views, asking>>
vars == <<live, handler, fresh, batches, asked, spent, events, promise>>

Settled == batches = <<>> /\ cmds = <<>> /\ marks = {} /\ views = <<>> /\ asking = {}

------------------------------------------------------------------------------
(* The live layout *)

RowsWith(w) == {r \in Rows : HasWindow(strips[r], w)}
Nowhere(w) == [r \in Rows |-> RemoveWindow(strips[r], w)]

\* The row becomes the active one, and the selected one of its space.
Activate(r) == /\ active' = r
               /\ selected' = {q \in selected : q[1] # r[1]} \cup {r}

\* Something else changed the layout: predictions are off.
Disturbed == fresh' = FALSE /\ promise' = {}
Happens == events < MaxEvents /\ events' = events + 1 /\ Disturbed

------------------------------------------------------------------------------
(* extract_window_set *)

\* column_kind.
KindOf(column) == CASE column.full           -> "fullscreen"
                    [] IsStack(column)       -> "stack"
                    [] column.items[1].tabs  -> "tabs"
                    [] OTHER                 -> "single"

\* window_record.
RecordOf(w) == Record(w, unmanaged[w] = Floating, unmanaged[w] = "no", FALSE)
Records(ws) == [i \in DOMAIN ws |-> RecordOf(ws[i])]

\* A column of the strip: the windows of it that do not float; none when all do.
ColumnsOf(r) ==
    LET tiled(column) == Retained(WindowsOf(column), {w \in known : unmanaged[w] # Floating})
        one(column) == LET top == At(Records(tiled(column)), TopOf(column))
                       IN  IF tiled(column) = <<>> THEN <<>>
                           ELSE <<ColumnSet(KindOf(column), IF top = 0 THEN 1 ELSE top,
                                            Records(tiled(column)))>>
    IN  FlattenSeq([i \in DOMAIN strips[r] |-> one(strips[r][i])])

\* Floating windows of the strip itself, then, on a row that is shown, the ones
\* macOS has on its space and the strip does not hold.
Listed(r) == r = active \/ (r \in selected /\ r[1] # active[1])
FloatingOf(r) ==
    LET held  == Retained(AllWindows(strips[r]), {w \in Windows : unmanaged[w] = Floating})
        loose == {w \in known : /\ Listed(r) /\ OSSpace[w] = r[1]
                                /\ unmanaged[w] = Floating /\ ~HasWindow(strips[r], w)}
    IN  Records(held \o SetToSeq(loose))

\* The rows of a display by number, which is the index counted from one; rows
\* with one number in the order of the spaces.
NumberOf(r) == r[2] + 1
RowsOf(d) ==
    FlattenSeq([n \in 1 .. MaxIndex + 1 |->
        [i \in DOMAIN SpacesOf[d] |-> <<SpacesOf[d][i], n - 1>>]])

WindowSetNow ==
    LET workspace(r) == WorkspaceSet(NumberOf(r), r[1], r = active, ColumnsOf(r), FloatingOf(r))
        display(d) == DisplaySet(d, active[1] \in ToSet(SpacesOf[d]),
                                 [k \in DOMAIN RowsOf(d) |-> workspace(RowsOf(d)[k])])
    IN  New([i \in DOMAIN DisplayOrder |-> display(DisplayOrder[i])], {})

\* Where a set has a window tiled.
TiledOn(s, w) ==
    {<<Workspace(s, p).space, Workspace(s, p).number>> :
        p \in {p \in Spots(s) : ColumnOf(Workspace(s, p), w) # 0}}

------------------------------------------------------------------------------
(* The handler *)

\* The main thread answers the handler's read of the layout.
Extract ==
    /\ handler = {} /\ cmds = <<>> /\ spent < MaxOps
    /\ handler' = {WindowSetNow}
    /\ fresh' = Settled
    /\ promise' = {}
    /\ UNCHANGED <<live, batches, asked, spent, events>>

\* What a script can ask of the value it holds, for a window of it or one that
\* it has lost, with what the value's own reads name as the other window.
Others(s, w) == UNION {LET ws == Workspace(s, p)
                       IN  East(ws, w) \cup West(ws, w)
                           \cup NextWindow(ws, w) \cup PrevWindow(ws, w)
                       : p \in WorkspaceOf(s, w)}
Menu(s) ==
    {ViewOp(n) : n \in 1 .. MaxIndex + 1}
    \cup UNION {{FocusOp(w), WidthOp(w), FrameOp(w), UnstackOp(w)}
               \cup {SwapOp(w, v) : v \in Others(s, w)}
               \cup {StackOp(w, v, tabs) : v \in Others(s, w), tabs \in BOOLEAN}
               \cup {ShiftOp(w, n, follow) : n \in 0 .. MaxIndex + 1, follow \in BOOLEAN}
               \cup {FloatOp(w, yes) : yes \in BOOLEAN}
               \cup {ManageOp(w, yes) : yes \in BOOLEAN}
               : w \in Windows}

Ask ==
    /\ \E s \in handler :
          /\ spent + Len(s.ops) < MaxOps
          /\ \/ \E op \in {op \in Menu(s) : op.op \in Asks} : handler' = {With(s, op)}
             \/ \E w \in Windows : "place" \in Asks /\ handler' = {FloatAt(s, w)}
    /\ UNCHANGED <<live, fresh, batches, asked, spent, events, promise>>

\* The prediction is held to for one operation on a tiled or floating window of
\* the row on screen, with another window of that row.  It is known to be wrong
\* for `unmanage`, which floats the window, for a window stacked onto itself,
\* for a number that more than one space has, and for a window that was
\* minimized, which has a row of its own to go back to.
Foreseen(s) ==
    LET op       == s.ops[1]
        tiled(w) == unmanaged[w] = "no" /\ HasWindow(strips[active], w)
        loose(w) == unmanaged[w] = Floating /\ RowsWith(w) = {}
    IN  /\ fresh /\ Len(s.ops) = 1
        /\ \A w \in Target(op) :
              /\ w \in known /\ previous[w] = {}
              /\ tiled(w) \/ (op.op \in {"focus", "float"} /\ loose(w))
        /\ op.op = "shift" => \A p \in Numbered(s, op.number) : Workspace(s, p).space = active[1]
        /\ op.op = "manage" => op.yes
        /\ op.op = "swap" => tiled(op.other)
        /\ op.op = "stack" => op.onto # op.win /\ tiled(op.onto)

\* The value comes back: its operations, if it has any, become an event.
Return ==
    /\ \E s \in handler :
          /\ s.ops # <<>>
          /\ batches' = Append(batches, s.ops)
          /\ promise' = {t \in {s} : Foreseen(t)}
          /\ spent' = spent + Len(s.ops)
    /\ handler' = {}
    /\ UNCHANGED <<live, fresh, asked, events>>

------------------------------------------------------------------------------
(* apply_layout_ops: the operations of every event that is there, in order.   *)
(* l is the world the replay has made so far.                                 *)

Now == [strips |-> strips, cmds |-> <<>>, marks |-> marks, views |-> views, asking |-> asking]

\* checked_sub(1): nothing for the number 0.
Mutant_IndexOfNumber(n) == {n}
IndexOfNumber(n) == {i \in Indices : i + 1 = n}

Together(l, v, w) == {r \in Rows : HasWindow(l.strips[r], v) /\ HasWindow(l.strips[r], w)}

\* The edit of the strip that holds both windows, if there is one.
Edited(l, R, edit(_)) == [l EXCEPT !.strips = [r \in Rows |-> IF r \in R THEN edit(@[r]) ELSE @[r]]]

\* LayoutOp::Swap: the columns of the two windows trade places.
Swap(l, v, w) ==
    Edited(l, Together(l, v, w), LAMBDA cols : Exchange(cols, IndexOf(cols, v), IndexOf(cols, w)))

\* LayoutOp::Stack: onto the column to the left, whatever `onto` is.
Stack(l, w, onto) == Edited(l, Together(l, w, onto), LAMBDA cols : StackWindow(cols, w))
Unstack(l, w) == Edited(l, Together(l, w, w), LAMBDA cols : UnstackWindow(cols, w))

\* LayoutOp::MoveToWorkspace and View.
MarkFor(l, w, number, follow) ==
    [l EXCEPT !.marks = {m \in @ : m.win # w \/ IndexOfNumber(number) = {}}
                        \cup {[win |-> w, index |-> i, follow |-> follow] : i \in IndexOfNumber(number)}]
View(l, number) == [l EXCEPT !.views = @ \o SetToSeq(IndexOfNumber(number))]

\* set_floating: the component is for later, the row for a window that has none
\* is the active one at once.
Mutant_Rowless(l, w) == Together(l, w, w) = {} \/ ~HasWindow(l.strips[active], w)
Rowless(l, w) == Together(l, w, w) = {}
SetFloating(l, w, floating) ==
    [l EXCEPT !.cmds = Append(@, [win |-> w, floating |-> floating]),
              !.strips = [r \in Rows |-> IF r = active /\ ~floating /\ Rowless(l, w)
                                         THEN AppendWindow(@[r], w) ELSE @[r]]]

\* `apply`: nothing for a window that is gone since, or gone as the other one.
Replayed(l, op) ==
    CASE ~(Target(op) \subseteq known) -> l
      [] op.op \in {"swap"} /\ op.other \notin known -> l
      [] op.op \in {"stack"} /\ op.onto \notin known -> l
      [] op.op = "focus"   -> [l EXCEPT !.asking = @ \cup {op.win}]
      [] op.op = "swap"    -> Swap(l, op.win, op.other)
      [] op.op = "shift"   -> MarkFor(l, op.win, op.number, op.follow)
      [] op.op = "view"    -> View(l, op.number)
      [] op.op = "float"   -> SetFloating(l, op.win, op.yes)
      [] op.op = "manage"  -> SetFloating(l, op.win, ~op.yes)
      [] op.op = "stack"   -> Stack(l, op.win, op.onto)
      [] op.op = "unstack" -> Unstack(l, op.win)
      [] OTHER             -> l

Replay ==
    /\ batches # <<>> /\ cmds = <<>>
    /\ \E l \in {FoldLeft(Replayed, Now, FlattenSeq(batches))} :
          /\ strips' = l.strips
          /\ cmds' = l.cmds
          /\ marks' = l.marks
          /\ views' = l.views
          /\ asking' = l.asking
    /\ batches' = <<>>
    /\ UNCHANGED <<active, selected, known, unmanaged, previous, handler, spent, events, promise>>
    /\ fresh' = FALSE

------------------------------------------------------------------------------
(* What the replay left to commands and messages *)

\* window_unmanaged_trigger runs when the component was not there before.
Float(w) ==
    /\ unmanaged' = [unmanaged EXCEPT ![w] = Floating]
    /\ strips' = IF unmanaged[w] = "no" THEN Nowhere(w) ELSE strips
    /\ UNCHANGED previous

\* window_managed_trigger: back to the row it was remembered in, failing that
\* into the active one, at a column its frame decides.
BackTo(w) == IF previous[w] # {} THEN previous[w]
             ELSE {[row |-> active, at |-> i] : i \in 1 .. Len(Nowhere(w)[active]) + 1}
Manage(w) ==
    /\ unmanaged' = [unmanaged EXCEPT ![w] = "no"]
    /\ \E place \in BackTo(w) :
          strips' = [Nowhere(w) EXCEPT ![place.row] = InsertWindow(@, place.at, w)]
    /\ previous' = [previous EXCEPT ![w] = {}]

Flush ==
    /\ cmds # <<>>
    /\ cmds' = Tail(cmds)
    /\ LET w == Head(cmds).win
       IN  IF Head(cmds).floating THEN Float(w)
           ELSE IF unmanaged[w] # "no" THEN Manage(w)
           ELSE UNCHANGED <<strips, unmanaged, previous>>
    /\ UNCHANGED <<active, selected, known, handler, fresh, batches, marks, views, asking,
                   spent, events, promise>>

\* switch_virtual_workspace_bind, one command a frame.
ShowView ==
    /\ views # <<>> /\ cmds = <<>>
    /\ Activate(<<active[1], Head(views)>>)
    /\ views' = Tail(views)
    /\ UNCHANGED <<strips, known, unmanaged, previous, handler, batches, cmds, marks, asking,
                   spent, events, promise>>
    /\ fresh' = FALSE

\* handle_virtual_window_moves for one mark.  What is on screen is the row that
\* was active before any of them, and the tabs of the window are looked for
\* there.  A move to stay behind becomes one to follow when the window has no
\* neighbour in that row.
TabGroup(cols, w) ==
    LET i == IndexOf(cols, w)
        item == cols[i].items[PositionOf(cols[i], w)]
    IN  IF i # 0 /\ item.tabs THEN item.ws ELSE <<w>>
Near(cols, w) ==
    LET i == IndexOf(cols, w)
        k == PositionOf(cols[i], w)
        left == IF i < 2 THEN {} ELSE Beside(cols, i - 1, k)
    IN  IF i = 0 THEN {} ELSE IF left # {} THEN left ELSE Beside(cols, i + 1, k)

Move(l, m) ==
    LET target == <<active[1], m.index>>
        group  == TabGroup(l.strips[active], m.win)
        near   == Near(l.strips[active], m.win)
        stay   == ~m.follow /\ near # {}
    IN  [strips |-> [r \in Rows |-> IF r = target THEN AppendTabGroup(l.strips[r], group)
                                    ELSE RemoveAll(l.strips[r], group)],
         asking |-> l.asking \cup (IF stay THEN near ELSE {m.win}),
         active |-> IF stay THEN l.active ELSE target]

Moves ==
    /\ marks # {} /\ cmds = <<>>
    /\ \E order \in SetToSeqs(marks) :
          \E l \in {FoldLeft(Move, [strips |-> strips, asking |-> asking, active |-> active], order)} :
             /\ strips' = l.strips
             /\ asking' = l.asking
             /\ Activate(l.active)
    /\ marks' = {}
    /\ UNCHANGED <<known, unmanaged, previous, handler, batches, cmds, views, spent, events, promise>>
    /\ fresh' = FALSE

\* macOS gives the window the focus, and virtual_strip_activated shows its row.
FocusArrives ==
    /\ cmds = <<>>
    /\ \E w \in asking :
          /\ asking' = asking \ {w}
          /\ IF RowsWith(w) \subseteq {active} THEN UNCHANGED <<active, selected>>
             ELSE \E r \in RowsWith(w) \ {active} : Activate(r)
    /\ UNCHANGED <<strips, known, unmanaged, previous, handler, batches, cmds, marks, views,
                   spent, events, promise>>
    /\ fresh' = FALSE

------------------------------------------------------------------------------
(* The rest of the world *)

Close ==
    /\ "close" \in World /\ cmds = <<>>
    /\ \E w \in known :
          /\ known' = known \ {w}
          /\ strips' = Nowhere(w)
          /\ unmanaged' = [unmanaged EXCEPT ![w] = "no"]
          /\ previous' = [previous EXCEPT ![w] = {}]
          /\ marks' = {m \in marks : m.win # w}
          /\ asking' = asking \ {w}
    /\ Happens
    /\ UNCHANGED <<active, selected, handler, batches, cmds, views, spent>>

\* window_minimized_trigger, when the component was not there before.
Minimize ==
    /\ "minimize" \in World /\ cmds = <<>>
    /\ \E w \in known :
          /\ unmanaged[w] # Minimized
          /\ unmanaged' = [unmanaged EXCEPT ![w] = Minimized]
          /\ strips' = IF unmanaged[w] = "no" THEN Nowhere(w) ELSE strips
          /\ previous' = IF unmanaged[w] # "no" THEN previous
                         ELSE [previous EXCEPT ![w] =
                                  {[row |-> r, at |-> IndexOf(strips[r], w)] : r \in RowsWith(w)}]
    /\ Happens
    /\ UNCHANGED <<active, selected, known, handler, batches, asked, spent>>

Deminimize ==
    /\ cmds = <<>>
    /\ \E w \in known : unmanaged[w] = Minimized /\ Manage(w)
    /\ Disturbed
    /\ UNCHANGED <<active, selected, known, handler, batches, asked, spent, events>>

SwitchRow ==
    /\ "switch" \in World /\ cmds = <<>>
    /\ \E i \in Indices \ {active[2]} : Activate(<<active[1], i>>)
    /\ Happens
    /\ UNCHANGED <<strips, known, unmanaged, previous, handler, batches, asked, spent>>

Init ==
    /\ strips = Start
    /\ active = <<SpacesOf[DisplayOrder[1]][1], 0>>
    /\ selected = Spaces \X {0}
    /\ known = Windows
    /\ unmanaged = [w \in Windows |->
                       IF \E r \in Rows : HasWindow(Start[r], w) THEN "no" ELSE Floating]
    /\ previous = [w \in Windows |-> {}]
    /\ handler = {} /\ fresh = FALSE
    /\ batches = <<>> /\ cmds = <<>> /\ marks = {} /\ views = <<>> /\ asking = {}
    /\ spent = 0 /\ events = 0 /\ promise = {}

Next ==
    \/ Extract \/ Ask \/ Return
    \/ Replay \/ Flush \/ ShowView \/ Moves \/ FocusArrives
    \/ Close \/ Minimize \/ Deminimize \/ SwitchRow

Spec == Init /\ [][Next]_vars

------------------------------------------------------------------------------
(* Properties *)

\* The values scripts hold.
WindowRecs == [id : Windows, floating : BOOLEAN, managed : BOOLEAN, focused : BOOLEAN]
ColumnSets == [kind : {"single", "stack", "tabs", "fullscreen"}, selected : Nat,
               windows : Seq(WindowRecs)]
WorkspaceSets == [number : Nat, space : Spaces, active : BOOLEAN,
                  columns : Seq(ColumnSets), floating : Seq(WindowRecs)]
DisplaySets == [id : ToSet(DisplayOrder), active : BOOLEAN, workspaces : Seq(WorkspaceSets)]
LayoutOp ==
    [op : {"focus", "width", "frame", "unstack"}, win : Windows]
    \cup [op : {"swap"}, win : Windows, other : Windows]
    \cup [op : {"stack"}, win : Windows, onto : Windows, tabs : BOOLEAN]
    \cup [op : {"shift"}, win : Windows, number : Nat, follow : BOOLEAN]
    \cup [op : {"view"}, number : Nat]
    \cup [op : {"float", "manage"}, win : Windows, yes : BOOLEAN]
WindowSets == [displays : Seq(DisplaySets), focused : SUBSET Windows, ops : Seq(LayoutOp)]
ShowingSets == {s \in WindowSets : Showing(s) # {}}

TypeOK ==
    /\ strips \in [Rows -> Seq(ColumnRecs)]
    /\ active \in Rows /\ selected \subseteq Rows
    /\ known \subseteq Windows
    /\ unmanaged \in [Windows -> {"no", Floating, Minimized}]
    /\ previous \in [Windows -> SUBSET [row : Rows, at : Nat \ {0}]]
    /\ handler \subseteq ShowingSets /\ \A s, t \in handler : s = t
    /\ fresh \in BOOLEAN
    /\ batches \in Seq(Seq(LayoutOp))
    /\ cmds \in Seq([win : Windows, floating : BOOLEAN])
    /\ marks \subseteq [win : Windows, index : Indices, follow : BOOLEAN]
    /\ IsFiniteSet(marks)
    /\ views \in Seq(Indices) /\ asking \subseteq Windows
    /\ spent \in Nat /\ events \in Nat
    /\ promise \subseteq WindowSets

\* Whatever layout extract_window_set reads is one of these, in which a workspace
\* shows: a transform that has nowhere to put a window would lose it.
SnapshotShows == WindowSetNow \in ShowingSets

\* Whatever scripts ask for, and however stale the layout they asked it of, a
\* window is in one strip at most and once there, and one that is managed is in
\* a strip (set_floating, the triggers and the moves each take it out of one
\* and put it into another).
TiledOnce ==
    cmds = <<>> =>
        /\ \A r \in Rows : Cardinality({w \in Windows : HasWindow(strips[r], w)})
                               = Len(AllWindows(strips[r]))
        /\ \A w \in Windows : Cardinality(RowsWith(w)) <= 1
        /\ \A w \in known : unmanaged[w] = "no" => RowsWith(w) # {}

\* A transform does not lose a window from the tree ("do not lift the window out
\* unless there is somewhere to put it"), except that stacking one onto itself
\* or onto a floating one does.
KeepsWindows ==
    [][\A s \in handler, t \in handler' :
          Everyone(s) = Everyone(t) \/ LET op == Last(t.ops)
                                       IN  /\ op.op = "stack"
                                           /\ op.win = op.onto \/ TiledOn(s, op.onto) = {}]_vars

\* The value a handler returns is a prediction: when it asked for one thing and
\* nothing else happened, every window is tiled in the workspace the value says
\* once the operation is replayed and its commands are done.
Predicted ==
    Settled => \A s \in promise : \A w \in Windows : TiledOn(s, w) = TiledOn(WindowSetNow, w)

\* "A floating window still reserves column space in the strip otherwise"
\* (window_unmanaged_trigger): a floating window is in no strip.
FloatsOutside == Settled => \A w \in Windows : unmanaged[w] = Floating => RowsWith(w) = {}

==============================================================================
