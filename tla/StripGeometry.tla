---------------------------- MODULE StripGeometry ----------------------------
(****************************************************************************)
(* Where the windows of a strip go: the pure part of the layout             *)
(* (src/ecs/layout.rs) and the bounds of the scroll (src/ecs/scroll.rs).    *)
(*                                                                          *)
(* The display's usable area is the rectangle from (0, 0) to                *)
(* (ViewWidth, ViewHeight).  A point is [x, y] and a size [w, h]; a strip   *)
(* is a sequence of columns as in Columns.  Padding is zero, and a window   *)
(* off screen keeps its full height (sliver_height is 1 unless configured). *)
(****************************************************************************)
EXTENDS Columns, FiniteSetsExt, Integers

CONSTANTS ViewWidth, ViewHeight,
          MinHeight,     \* MIN_WINDOW_HEIGHT
          Sliver,        \* sliver_width: what an off-screen window keeps on screen
          ParkedSliver,  \* PARKED_STRIP_SLIVER: the same for a hidden row
          Tolerance      \* SIGNATURE_WIDTH_TOLERANCE

ASSUME GeometryAssumption ==
    /\ {ViewWidth, ViewHeight, MinHeight, Sliver, ParkedSliver} \subseteq Nat \ {0}
    /\ Tolerance \in Nat

Between(n, low, high) == IF n < low THEN low ELSE IF n > high THEN high ELSE n
SmallerOf(m, n) == IF m < n THEN m ELSE n
Distance(m, n) == IF m < n THEN n - m ELSE m - n

SumTo(seq, n) == MapThenSumSet(LAMBDA k : seq[k], 1 .. n)

Point(x, y) == [x |-> x, y |-> y]
Plus(p, q) == Point(p.x + q.x, p.y + q.y)
Minus(p, q) == Point(p.x - q.x, p.y - q.y)

\* A window wider than the view may pan over it, so its range is reversed.
ClampOrigin(p, size) ==
    LET axis(n, far) == Between(n, SmallerOf(0, far), IF far < 0 THEN 0 ELSE far)
    IN  Point(axis(p.x, ViewWidth - size.w), axis(p.y, ViewHeight - size.h))

\* The offset nearest to `at` at which all of a window in this slot is seen.
OriginExposing(slot, size, at) == Minus(ClampOrigin(Plus(slot, at), size), slot)

\* The columns' top windows with their widths: what a placement by hand is about.
Signature(cols, size) ==
    [i \in DOMAIN cols |-> <<TopOf(cols[i]), size[TopOf(cols[i])].w>>]

SameShape(now, before) ==
    /\ Len(now) = Len(before)
    /\ \A i \in DOMAIN now : /\ now[i][1] = before[i][1]
                             /\ Distance(now[i][2], before[i][2]) <= Tolerance

\* One pass of binpack_heights over the first `count` items: each keeps its
\* height while there is room, the last one takes what is left, and an item too
\* tall takes all that is left if the floor allows it for every item below.
Packing(heights, count, total) ==
    LET pack[i \in 0 .. count] ==
          IF i = 0 THEN [left |-> total, out |-> <<>>, fits |-> TRUE]
          ELSE LET acc == pack[i - 1]
               IN  CASE ~acc.fits -> acc
                     [] acc.fits /\ heights[i] < acc.left ->
                          [acc EXCEPT !.left = @ - heights[i],
                                      !.out = Append(@, IF i = count THEN acc.left
                                                        ELSE heights[i])]
                     [] acc.fits /\ heights[i] >= acc.left
                          /\ acc.left >= MinHeight * (Len(heights) - i + 1) ->
                          [acc EXCEPT !.left = 0, !.out = Append(@, acc.left)]
                     [] OTHER -> [acc EXCEPT !.fits = FALSE]
    IN  pack[count]

\* Mutant_X is X with a mistake in it; no definition uses it.
Mutant_BinpackHeights(heights, total) ==
    LET n     == Len(heights)
        count == Max({c \in 0 .. n : Packing(heights, c, total).fits})
        out   == Packing(heights, count, total).out
        kept  == SubSeq(out, 1, count - 1)
        share == (total - SumTo(kept, Len(kept))) \div (n - count)
    IN  CASE count = n -> out
          [] count < n /\ (count = 0 \/ share < MinHeight) -> <<>>
          [] OTHER -> kept \o [i \in 1 .. n - count + 1 |-> share]

\* The longest prefix that packs; the items after it share what its last one
\* was to get.  <<>> when there is no such prefix or the share is below the
\* floor: the column is then left out of the layout.
BinpackHeights(heights, total) ==
    LET n     == Len(heights)
        count == Max({c \in 0 .. n : Packing(heights, c, total).fits})
        out   == Packing(heights, count, total).out
        kept  == SubSeq(out, 1, count - 1)
        share == (total - SumTo(kept, Len(kept))) \div (n - count + 1)
    IN  CASE count = n -> out
          [] count < n /\ (count = 0 \/ share < MinHeight) -> <<>>
          [] OTHER -> kept \o [i \in 1 .. n - count + 1 |-> share]

\* The width of a column is that of its widest window; its left edge is the sum
\* of the ones before it.
ColumnWidth(column, size) == Max({size[w].w : w \in ToSet(WindowsOf(column))})
LeftEdge(cols, i, size) ==
    MapThenSumSet(LAMBDA j : ColumnWidth(cols[j], size), 1 .. i - 1)

HeightsOf(column, size) ==
    BinpackHeights([k \in DOMAIN column.items |-> size[column.items[k].ws[1]].h], ViewHeight)

\* relative_positions: the slot and size of every window of the columns that
\* fit.  The windows of a column take the width of its topmost one, and those
\* of a tab group one frame.
RelativePositions(cols, size) ==
    LET heights  == [i \in DOMAIN cols |-> HeightsOf(cols[i], size)]
        frame(w) == LET i == IndexOf(cols, w)
                        k == PositionOf(cols[i], w)
                        hs == heights[i]
                    IN  [slot |-> Point(LeftEdge(cols, i, size), SumTo(hs, k - 1)),
                         size |-> [w |-> size[TopOf(cols[i])].w, h |-> hs[k]]]
    IN  [w \in UNION {ToSet(WindowsOf(cols[i])) : i \in {i \in DOMAIN cols : heights[i] # <<>>}}
            |-> frame(w)]

\* The window over this one in its stack: `above`.
Above(cols, w) ==
    LET column == cols[IndexOf(cols, w)]
        k      == PositionOf(column, w)
    IN  IF k > 1 THEN {column.items[k - 1].ws[1]} ELSE {}

Tabbed(cols, w) ==
    LET i == IndexOf(cols, w) IN i # 0 /\ cols[i].items[PositionOf(cols[i], w)].tabs

\* The width of the whole strip, as the last column's slot has it.
TotalWidth(cols, slot, size) == LET w == TopOf(Last(cols)) IN slot[w].x + size[w].w

\* clamp_viewport_offset: a continuous strip may be scrolled until its first or
\* last column touches an edge of the view, another as far as there is more to
\* see.
ScrollOffset(cols, slot, size, x, continuous) ==
    LET total == TotalWidth(cols, slot, size)
    IN  CASE continuous -> Between(x, -slot[TopOf(Last(cols))].x,
                                      ViewWidth - slot[TopOf(Head(cols))].x)
          [] ~continuous /\ ViewWidth < total -> Between(x, ViewWidth - total, 0)
          [] OTHER -> Between(x, 0, ViewWidth - total)

\* The edge invariant of a reshuffle: no gap at either end of a strip that is
\* not scrolled freely.
NoGapOffset(cols, slot, size, x) ==
    LET total == TotalWidth(cols, slot, size)
    IN  IF ViewWidth < total THEN Between(x, ViewWidth - total, 0) ELSE 0

\* The offset that centres the column nearest to the centre: the target of the
\* snap force.
CentreOffset(cols, slot, size, x) ==
    LET offset(i) == LET w == TopOf(cols[i])
                     IN  ViewWidth \div 2 - (slot[w].x + size[w].w \div 2)
        near == CHOOSE i \in DOMAIN cols :
                   \A j \in DOMAIN cols : Distance(x, offset(i)) <= Distance(x, offset(j))
    IN  IF cols = <<>> THEN x ELSE offset(near)


\* Where position_layout_windows puts a window: its slot in the strip, pulled
\* back at the sides so that a sliver stays on screen, and at the bottom so that
\* no window of a hidden row lands on a display below.
FrameIn(at, slot, size) ==
    LET p == Plus(slot, at)
        x == IF p.x + size.w <= 0 THEN Sliver - size.w
             ELSE IF p.x >= ViewWidth THEN ViewWidth - Sliver ELSE p.x
    IN  Point(x, SmallerOf(p.y, ViewHeight - ParkedSliver))

==============================================================================
