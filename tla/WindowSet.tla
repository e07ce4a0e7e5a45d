------------------------------ MODULE WindowSet ------------------------------
(****************************************************************************)
(* The layout as a value (crates/shared_types/src/windowset.rs): what a     *)
(* script reads, the transforms it calls, and the operations a value        *)
(* remembers for the host to replay.                                        *)
(*                                                                          *)
(* Frames, widths, titles and applications are left out: no transform       *)
(* decides anything from them.  Positions in a sequence start from 1.       *)
(****************************************************************************)
EXTENDS Naturals, Sequences, SequencesExt

Record(w, floating, managed, focused) ==
    [id |-> w, floating |-> floating, managed |-> managed, focused |-> focused]
ColumnSet(kind, selected, windows) == [kind |-> kind, selected |-> selected, windows |-> windows]
Single(rec) == ColumnSet("single", 1, <<rec>>)
WorkspaceSet(number, space, active, columns, floating) ==
    [number |-> number, space |-> space, active |-> active,
     columns |-> columns, floating |-> floating]
DisplaySet(d, active, workspaces) == [id |-> d, active |-> active, workspaces |-> workspaces]

\* An untransformed value; `focused` holds the focused window, if any.
New(displays, focused) == [displays |-> displays, focused |-> focused, ops |-> <<>>]

\* LayoutOp.  Width and frame are asked for and change nothing kept here.
FocusOp(w) == [op |-> "focus", win |-> w]
SwapOp(w, other) == [op |-> "swap", win |-> w, other |-> other]
ShiftOp(w, n, follow) == [op |-> "shift", win |-> w, number |-> n, follow |-> follow]
ViewOp(n) == [op |-> "view", number |-> n]
FloatOp(w, floating) == [op |-> "float", win |-> w, yes |-> floating]
ManageOp(w, managed) == [op |-> "manage", win |-> w, yes |-> managed]
WidthOp(w) == [op |-> "width", win |-> w]
FrameOp(w) == [op |-> "frame", win |-> w]
StackOp(w, onto, tabs) == [op |-> "stack", win |-> w, onto |-> onto, tabs |-> tabs]
UnstackOp(w) == [op |-> "unstack", win |-> w]

\* LayoutOp::target: {} for an operation on a workspace.
Target(op) == IF op.op = "view" THEN {} ELSE {op.win}

------------------------------------------------------------------------------
(* Reading *)

\* WorkspaceSet::windows: tiled, then floating.
WindowsOn(ws) == FlattenSeq([c \in DOMAIN ws.columns |-> ws.columns[c].windows]) \o ws.floating
Holds(windows, w) == \E i \in DOMAIN windows : windows[i].id = w
Lists(ws, w) == Holds(WindowsOn(ws), w)
Lowest(at) == IF at = {} THEN 0 ELSE Min(at)
At(windows, w) == Lowest({i \in DOMAIN windows : windows[i].id = w})

\* The place of a workspace in the set, and the first place with a property.
Spots(s) == UNION {{d} \X DOMAIN s.displays[d].workspaces : d \in DOMAIN s.displays}
Workspace(s, p) == s.displays[p[1]].workspaces[p[2]]
FirstOf(P) == {p \in P : \A q \in P : p[1] < q[1] \/ (p[1] = q[1] /\ p[2] <= q[2])}

Numbered(s, n) == FirstOf({p \in Spots(s) : Workspace(s, p).number = n})
WorkspaceOf(s, w) == FirstOf({p \in Spots(s) : Lists(Workspace(s, p), w)})
Showing(s) == FirstOf({p \in Spots(s) : Workspace(s, p).active})
WindowRec(s, w) ==
    {WindowsOn(Workspace(s, p))[At(WindowsOn(Workspace(s, p)), w)] : p \in WorkspaceOf(s, w)}
Everyone(s) == UNION {{rec.id : rec \in ToSet(WindowsOn(Workspace(s, p)))} : p \in Spots(s)}

ColumnOf(ws, w) == Lowest({c \in DOMAIN ws.columns : Holds(ws.columns[c].windows, w)})
Top(column) ==
    LET k == IF column.selected \in DOMAIN column.windows THEN column.selected ELSE 1
    IN  {column.windows[i].id : i \in DOMAIN column.windows \cap {k}}

\* neighbour and cycle, on the workspace that holds w; {} when there is none.
\* east and west are one column away, next and prev one window, wrapping.
Neighbour(ws, w, step(_)) ==
    LET i == ColumnOf(ws, w)
    IN  UNION {Top(ws.columns[j]) : j \in {j \in DOMAIN ws.columns : i # 0 /\ j = step(i)}}
Cycle(ws, w, ahead) ==
    LET ids == WindowsOn(ws)
        i   == At(ids, w)
    IN  IF i = 0 THEN {} ELSE {ids[((i - 1 + ahead) % Len(ids)) + 1].id}
East(ws, w) == Neighbour(ws, w, LAMBDA i : i + 1)
West(ws, w) == Neighbour(ws, w, LAMBDA i : i - 1)
NextWindow(ws, w) == Cycle(ws, w, 1)
PrevWindow(ws, w) == Cycle(ws, w, Len(WindowsOn(ws)) - 1)

------------------------------------------------------------------------------
(* The tree *)

EachWorkspace(s, f(_)) ==
    [s EXCEPT !.displays = [d \in DOMAIN s.displays |->
        [s.displays[d] EXCEPT !.workspaces =
            [k \in DOMAIN s.displays[d].workspaces |-> f(s.displays[d].workspaces[k])]]]]

EachWindow(s, f(_)) ==
    LET visit(windows) == [i \in DOMAIN windows |-> f(windows[i])]
    IN  EachWorkspace(s, LAMBDA ws :
            [ws EXCEPT !.columns = [c \in DOMAIN ws.columns |->
                                       [ws.columns[c] EXCEPT !.windows = visit(@)]],
                       !.floating = visit(@)])

Edit(s, p, ws) == [s EXCEPT !.displays[p[1]].workspaces[p[2]] = ws]

\* take_window: no empty column stays behind, and what is left keeps a
\* selected window.
Lessened(column, w) ==
    LET rest == RemoveAt(column.windows, At(column.windows, w))
    IN  CASE rest = <<>>     -> <<>>
          [] Len(rest) = 1   -> <<ColumnSet("single", 1, rest)>>
          [] OTHER           -> <<[column EXCEPT !.windows = rest,
                                     !.selected = IF @ > Len(rest) THEN Len(rest) ELSE @]>>

Lifted(ws, w) ==
    LET i == ColumnOf(ws, w)
    IN  IF i # 0
        THEN [ws EXCEPT !.columns = SubSeq(@, 1, i - 1) \o Lessened(@[i], w)
                                        \o SubSeq(@, i + 1, Len(@))]
        ELSE [ws EXCEPT !.floating = RemoveAt(@, At(@, w))]

\* Every value of these is a set with w taken out; none when w is nowhere.
Taken(s, w) == {Edit(s, p, Lifted(Workspace(s, p), w)) : p \in WorkspaceOf(s, w)}

\* The record goes to the end of the first workspace of P, tiled or floating.
Tile(s, P, rec) ==
    LET end(ws) == [ws EXCEPT !.columns = Append(@, Single(rec))]
    IN  IF P = {} THEN s ELSE CHOOSE t \in {Edit(s, p, end(Workspace(s, p))) : p \in P} : TRUE
LetFloat(s, P, rec) ==
    LET above(ws) == [ws EXCEPT !.floating = Append(@, rec)]
    IN  IF P = {} THEN s ELSE CHOOSE t \in {Edit(s, p, above(Workspace(s, p))) : p \in P} : TRUE

\* One transform: w leaves its place and `put` gives it another.
Moved(s, w, put(_, _)) ==
    IF WorkspaceOf(s, w) = {} THEN s
    ELSE put(CHOOSE t \in Taken(s, w) : TRUE, CHOOSE rec \in WindowRec(s, w) : TRUE)

------------------------------------------------------------------------------
(* The transforms, on the tree *)

Focused(s, w) ==
    [EachWindow(s, LAMBDA rec : [rec EXCEPT !.focused = (rec.id = w)]) EXCEPT !.focused = {w}]

\* The records trade places; the place keeps its `focused`.
Swapped(s, w, other) ==
    LET left  == CHOOSE rec \in WindowRec(s, w) : TRUE
        right == CHOOSE rec \in WindowRec(s, other) : TRUE
        turn(rec) == CASE rec.id = w     -> [right EXCEPT !.focused = rec.focused]
                       [] rec.id = other -> [left EXCEPT !.focused = rec.focused]
                       [] OTHER          -> rec
    IN  IF {w, other} \subseteq Everyone(s) THEN EachWindow(s, turn) ELSE s

\* The destination is looked for before the window is lifted out.
Mutant_Shifted(s, w, n) == Moved(s, w, LAMBDA t, rec : Tile(t, Numbered(t, n), rec))
Shifted(s, w, n) ==
    IF Numbered(s, n) = {} THEN s
    ELSE Moved(s, w, LAMBDA t, rec : Tile(t, Numbered(t, n), rec))

\* Every workspace of the first display with that number.
Viewed(s, n) ==
    LET there == {p[1] : p \in Numbered(s, n)}
        show(ws) == [k \in DOMAIN ws |-> [ws[k] EXCEPT !.active = (ws[k].number = n)]]
    IN  [s EXCEPT !.displays = [d \in DOMAIN @ |->
            IF d \in there THEN [s.displays[d] EXCEPT !.workspaces = show(@)]
            ELSE s.displays[d]]]

Floated(s, w, floating) ==
    Moved(s, w, LAMBDA t, rec :
        LET new == [rec EXCEPT !.floating = floating]
        IN  IF floating THEN LetFloat(t, Showing(t), new) ELSE Tile(t, Showing(t), new))

Managed(s, w, managed) ==
    EachWindow(s, LAMBDA rec : IF rec.id = w THEN [rec EXCEPT !.managed = managed] ELSE rec)

\* The first column left with `onto` takes the window; there may be none.
Stacked(s, w, onto, tabs) ==
    LET kind == IF tabs THEN "tabs" ELSE "stack"
        join(ws, rec) ==
            LET i == ColumnOf(ws, onto)
            IN  [ws EXCEPT !.columns[i] = ColumnSet(kind, @.selected, Append(@.windows, rec))]
        onColumn(t) == FirstOf({p \in Spots(t) : ColumnOf(Workspace(t, p), onto) # 0})
        put(t, rec) == IF onColumn(t) = {} THEN t
                       ELSE LET p == CHOOSE p \in onColumn(t) : TRUE
                            IN  Edit(t, p, join(Workspace(t, p), rec))
    IN  IF onto \in Everyone(s) THEN Moved(s, w, put) ELSE s

Unstacked(s, w) == Moved(s, w, LAMBDA t, rec : Tile(t, Showing(t), rec))

Transformed(s, op) ==
    CASE op.op = "focus"   -> Focused(s, op.win)
      [] op.op = "swap"    -> Swapped(s, op.win, op.other)
      [] op.op = "shift"   -> Shifted(s, op.win, op.number)
      [] op.op = "view"    -> Viewed(s, op.number)
      [] op.op = "float"   -> Floated(s, op.win, op.yes)
      [] op.op = "manage"  -> Managed(s, op.win, op.yes)
      [] op.op = "stack"   -> Stacked(s, op.win, op.onto, op.tabs)
      [] op.op = "unstack" -> Unstacked(s, op.win)
      [] OTHER             -> s

\* `with`: the operation is recorded, whatever became of the tree.
With(s, op) == [Transformed(s, op) EXCEPT !.ops = Append(@, op)]

\* float_at: two operations, and only the first without a display to resolve
\* the fractions of the rectangle against.
FloatAt(s, w) ==
    IF s.displays = <<>> THEN With(s, FloatOp(w, TRUE))
    ELSE With(With(s, FloatOp(w, TRUE)), FrameOp(w))

==============================================================================
