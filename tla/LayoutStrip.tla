----------------------------- MODULE LayoutStrip -----------------------------
(****************************************************************************)
(* One LayoutStrip (src/ecs/layout.rs) under the calls its users make: the  *)
(* placement of a new or returning window, the grouping of native tabs, the *)
(* stack, unstack and swap commands and their scripted forms, the focus     *)
(* that brings a tab to the front, and the removal of a window.             *)
(*                                                                          *)
(* A strip starts empty, or is the strip of a full-screen space, made by    *)
(* LayoutStrip::fullscreen around one of FullscreenWindows.                 *)
(****************************************************************************)
EXTENDS Columns

CONSTANTS Windows,            \* the window entities that may be in the strip
          FullscreenWindows   \* those whose space may be a full-screen one

ASSUME WindowsAssumption == FullscreenWindows \subseteq Windows

VARIABLE strip                \* LayoutStrip.columns

Init == strip \in {<<>>} \cup {<<FullscreenColumn(w)>> : w \in FullscreenWindows}

Places == 1 .. Len(strip) + 1
Present == {w \in Windows : HasWindow(strip, w)}
Absent == Windows \ Present

\* What move_virtual_workspace and detect_moved_windows move: a window or its
\* whole tab group, which is then in no other place of this strip.
Groups == {<<w>> : w \in Windows} \cup {<<v, w>> : v, w \in Windows}

Append_(w) == strip' = AppendWindow(strip, w)

\* The callers place only a window they have taken out of every strip.
InsertAt_(i, w) == w \in Absent /\ strip' = InsertWindow(strip, i, w)

AppendGroup(group) == strip' = AppendTabGroup(strip, group)
InsertGroup(i, group) == strip' = InsertTabGroup(strip, i, group)

\* detect_tabbed_windows and regroup_stray_native_tabs find the leader in the
\* strip; restore rebuilds a group from a leader it has just appended.
JoinTabs(leader, follower) ==
    /\ leader # follower /\ leader \in Present
    /\ strip' = ConvertToTabs(strip, leader, follower)

Remove_(w) == w \in Present /\ strip' = RemoveWindow(strip, w)

StackCommand(w) == w \in Present /\ strip' = StackWindow(strip, w)
UnstackCommand(w) == w \in Present /\ strip' = UnstackWindow(strip, w)

\* command_swap_focus: two items of a stack trade places, or the focused
\* window's column travels to the other's.
SwapCommand(w, dir) == \E other \in InDirection(strip, w, dir) :
    LET i == IndexOf(strip, w)
        j == IndexOf(strip, other)
    IN  strip' = IF i = j /\ IsStack(strip[i])
                 THEN [strip EXCEPT ![i].items =
                          Exchange(@, PositionOf(strip[i], w), PositionOf(strip[i], other))]
                 ELSE ShiftColumn(strip, i, j)

\* LayoutOp::Swap of a script: the two columns trade places.
SwapColumns(v, w) ==
    /\ {v, w} \subseteq Present
    /\ strip' = Exchange(strip, IndexOf(strip, v), IndexOf(strip, w))

FocusTab(w) == w \in Present /\ strip' = MoveToFront(strip, w)

Directions == {"west", "east", "nth", "north", "south"}

Next ==
    \/ \E w \in Windows : Append_(w) \/ \E i \in Places : InsertAt_(i, w)
    \/ \E g \in Groups : AppendGroup(g) \/ \E i \in Places : InsertGroup(i, g)
    \/ \E v, w \in Windows : JoinTabs(v, w) \/ SwapColumns(v, w)
    \/ \E w \in Windows : Remove_(w) \/ StackCommand(w) \/ UnstackCommand(w) \/ FocusTab(w)
    \/ \E w \in Windows, dir \in Directions : SwapCommand(w, dir)

Spec == Init /\ [][Next]_strip

------------------------------------------------------------------------------
\* The strip is a sequence of columns; a stack has at least two items and no
\* item is empty, whichever collapse a removal or an unstack took
\* (remove, unstack: a stack left with one item becomes a column of that item).
ColumnShapes == \A i \in DOMAIN strip :
    /\ strip[i].items # <<>>
    /\ strip[i].full => strip[i].items = <<Alone(TopOf(strip[i]))>>
    /\ \A k \in DOMAIN strip[i].items :
          LET it == strip[i].items[k]
          IN  it.ws \in Seq(Windows) /\ it.ws # <<>> /\ (~it.tabs => Len(it.ws) = 1)

\* The strip implements the promise of StripOrder: each call places a block,
\* lets one window go or exchanges two blocks, and no window is ever lost,
\* doubled or moved relative to the ones the call is not about.
Order == INSTANCE StripOrder WITH order <- AllWindows(strip)
KeepsOrder == Order!Spec

\* Walking never gets stuck or jumps: from any window of a column, whatever
\* the heights of the stacks, east and west lead into the adjacent column when
\* there is one (left_neighbour, right_neighbour, at_or_last).
WalkReachesNextColumn == \A w \in Present :
    LET i == IndexOf(strip, w)
        leads(dir, j) == j \in DOMAIN strip =>
            \E e \in InDirection(strip, w, dir) : IndexOf(strip, e) = j
    IN  leads("east", i + 1) /\ leads("west", i - 1)

\* The doc comment of `stack`: it returns "`Ok(())` if the stacking is
\* successful or not needed"; either way the strip still holds the windows it
\* held.
StackKeepsWindows == \A w \in Present :
    ToSet(AllWindows(StackWindow(strip, w))) = Present

==============================================================================
