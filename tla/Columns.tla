------------------------------- MODULE Columns -------------------------------
(****************************************************************************)
(* The pure operations of LayoutStrip (src/ecs/layout.rs): a strip is a     *)
(* sequence of columns, a column a sequence of items from top to bottom,    *)
(* and an item a window or a group of native tabs.                          *)
(*                                                                          *)
(* StackItem::Single(w) is the item Alone(w) and StackItem::Tabs(ws) the    *)
(* item Grouped(ws).  A Column::Single or Column::Tabs holds one item of    *)
(* that kind, so the column's kind is derived from its items except for     *)
(* Column::Fullscren, which needs a mark of its own.                        *)
(****************************************************************************)
EXTENDS Naturals, Sequences, FiniteSets, Filters

Alone(w) == [tabs |-> FALSE, ws |-> <<w>>]
Grouped(ws) == [tabs |-> TRUE, ws |-> ws]

\* A column is its items, and whether it is the column of a full-screen space.
Column(items) == [full |-> FALSE, items |-> items]
FullscreenColumn(w) == [full |-> TRUE, items |-> <<Alone(w)>>]

IsStack(column) == Len(column.items) > 1

\* The windows of an item, a column and a strip (all_windows), in order.
ItemHolds(item, w) == Contains(item.ws, w)
WindowsOf(column) == FlattenSeq([k \in DOMAIN column.items |-> column.items[k].ws])
AllWindows(cols) == FlattenSeq([i \in DOMAIN cols |-> WindowsOf(cols[i])])

\* index_of and position_of: the first column (item) holding w; 0 when there
\* is none.  Indices start from 1 here and from 0 in the code.
InColumn(column, w) == \E k \in DOMAIN column.items : ItemHolds(column.items[k], w)
FirstAt(at) == IF at = {} THEN 0 ELSE Min(at)
IndexOf(cols, w) == FirstAt({i \in DOMAIN cols : InColumn(cols[i], w)})
PositionOf(column, w) == FirstAt({k \in DOMAIN column.items : ItemHolds(column.items[k], w)})
HasWindow(cols, w) == IndexOf(cols, w) # 0

TopOf(column) == column.items[1].ws[1]
AtOrLast(column, k) ==
    column.items[IF k \in DOMAIN column.items THEN k ELSE Len(column.items)].ws[1]

\* Columns at i..j (none when j < i) replaced by a sequence of columns.
Splice(cols, i, j, new) ==
    SubSeq(cols, 1, i - 1) \o new \o SubSeq(cols, j + 1, Len(cols))

\* VecDeque::insert clamped to the end, as insert_at and insert_tab_group_at do.
InsertColumn(cols, i, column) ==
    IF i > Len(cols) THEN Append(cols, column) ELSE Splice(cols, i, i - 1, <<column>>)

InsertWindow(cols, i, w) == InsertColumn(cols, i, Column(<<Alone(w)>>))

AppendWindow(cols, w) ==
    IF HasWindow(cols, w) THEN cols ELSE Append(cols, Column(<<Alone(w)>>))

\* retain(|id| *id != entity), and what is left of a column made a column again.
OtherThan(ws, w) == Retained(ws, ToSet(ws) \ {w})

\* Mutant_X is X with a mistake in it; no definition uses it.
Mutant_Without_item(column, w) ==
    LET rest == Retained(column.items, {it \in ToSet(column.items) : ~ItemHolds(it, w)})
    IN  IF rest = <<>> THEN <<>> ELSE <<Column(rest)>>
Mutant_Without_shell(column, w) ==
    <<Column([k \in DOMAIN column.items |->
                 [column.items[k] EXCEPT !.ws = OtherThan(@, w)]])>>

\* What `remove` leaves of a column: an emptied tab item goes, a tab *item* of
\* a stack keeps being a tab item whatever its size, a tab *column* with one
\* window left becomes a single window.
Remade(column, items) ==
    CASE items = <<>> -> <<>>
      [] items # <<>> /\ ~IsStack(column) /\ Len(items[1].ws) = 1 ->
            <<Column(<<Alone(items[1].ws[1])>>)>>
      [] OTHER -> <<Column(items)>>

Without(column, w) ==
    LET left == [k \in DOMAIN column.items |-> [column.items[k] EXCEPT !.ws = OtherThan(@, w)]]
    IN  Remade(column, Retained(left, {it \in ToSet(left) : it.ws # <<>>}))

RemoveWindow(cols, w) ==
    LET i == IndexOf(cols, w)
    IN  IF i = 0 THEN cols ELSE Splice(cols, i, i, Without(cols[i], w))

RemoveAll(cols, group) == FoldLeft(RemoveWindow, cols, group)

\* dedup_entities: the first occurrence of each window, in order.
Deduped(group) ==
    FoldLeft(LAMBDA acc, w : IF Contains(acc, w) THEN acc ELSE Append(acc, w), <<>>, group)

InsertTabGroup(cols, i, entities) ==
    LET group == Deduped(entities)
        rest  == RemoveAll(cols, group)
        new   == IF Len(group) = 1 THEN Alone(group[1]) ELSE Grouped(group)
    IN  IF group = <<>> THEN cols ELSE InsertColumn(rest, i, Column(<<new>>))

AppendTabGroup(cols, entities) ==
    LET at == {IndexOf(cols, w) : w \in ToSet(entities)} \ {0}
    IN  InsertTabGroup(cols, IF at = {} THEN Len(cols) + 1 ELSE Min(at), entities)

\* The follower leaves its place first; the Err of a leader that is nowhere
\* then comes too late to put it back.
ConvertToTabs(cols, leader, follower) ==
    LET rest == RemoveWindow(cols, follower)
        i    == IndexOf(rest, leader)
        k    == PositionOf(rest[i], leader)
        item == rest[i].items[k]
        new  == IF Contains(item.ws, follower) THEN item ELSE Grouped(<<follower>> \o item.ws)
    IN  IF i = 0 THEN rest
        ELSE [rest EXCEPT ![i] = Column([@.items EXCEPT ![k] = new])]

\* `stack`: the whole column joins the one to its left.  With a full-screen
\* column on either side the early `return Ok(())` comes after the removal.
StackWindow(cols, w) ==
    LET i == IndexOf(cols, w)
    IN  CASE i \in {0, 1} -> cols
          [] i > 1 /\ cols[i].full -> RemoveAt(cols, i)
          [] i > 1 /\ ~cols[i].full /\ cols[i - 1].full -> Splice(cols, i - 1, i, <<>>)
          [] OTHER -> Splice(cols, i - 1, i, <<Column(cols[i - 1].items \o cols[i].items)>>)

\* `unstack`: the item gets a column of its own to the right of what is left.
UnstackWindow(cols, w) ==
    LET i == IndexOf(cols, w)
        k == PositionOf(cols[i], w)
    IN  IF i = 0 \/ ~IsStack(cols[i]) THEN cols
        ELSE Splice(cols, i, i, <<Column(RemoveAt(cols[i].items, k)),
                                  Column(<<cols[i].items[k]>>)>>)

Exchange(s, i, j) == [s EXCEPT ![i] = s[j], ![j] = s[i]]

\* move_to_front: inside a tab group the window trades places with the first.
MoveToFront(cols, w) ==
    LET i == IndexOf(cols, w)
        k == PositionOf(cols[i], w)
        front(ws) == Exchange(ws, 1, FirstAt({j \in DOMAIN ws : ws[j] = w}))
    IN  IF i = 0 THEN cols ELSE [cols EXCEPT ![i].items[k].ws = front(@)]

\* Column i travels to j, the ones between shifting by one: the two runs of
\* adjacent swaps in command_swap_focus.
ShiftColumn(cols, i, j) == Splice(RemoveAt(cols, i), j, j - 1, <<cols[i]>>)

\* left_neighbour, right_neighbour: the item of column j that is level with
\* item k next to it, or its last.
Mutant_Beside(cols, j, k) ==
    IF j \in DOMAIN cols /\ k \in DOMAIN cols[j].items THEN {AtOrLast(cols[j], k)} ELSE {}
Beside(cols, j, k) == IF j \in DOMAIN cols THEN {AtOrLast(cols[j], k)} ELSE {}

\* The window a direction points at: get_window_in_direction;
\* {} when there is none.  First and Last are cases of Nth, whose index is any.
InDirection(cols, w, dir) ==
    LET i == IndexOf(cols, w)
        k == PositionOf(cols[i], w)
        item(m) == IF m \in DOMAIN cols[i].items THEN {cols[i].items[m].ws[1]} ELSE {}
    IN  IF i = 0 THEN {}
        ELSE CASE dir = "west"  -> Beside(cols, i - 1, k)
               [] dir = "east"  -> Beside(cols, i + 1, k)
               [] dir = "nth"   -> {TopOf(cols[n]) : n \in DOMAIN cols}
               [] dir = "north" -> item(k - 1)
               [] dir = "south" -> item(k + 1)

==============================================================================
