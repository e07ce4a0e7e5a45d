------------------------- MODULE MCVirtualWorkspaces -------------------------
(****************************************************************************)
(* Small instances of VirtualWorkspaces.                                    *)
(****************************************************************************)
EXTENDS VirtualWorkspaces, TLC

CONSTANTS w2, w1, s1, s2, f1, r1, r2, r3, r4

OneWindow == {w1}
TwoWindows == {w2, w1}
OneSpace == {s1}
TwoSpaces == {s1, s2}
FullSpace == {f1}
NoSpace == {}
ThreeRows == {r1, r2, r3}
FourStrips == {r1, r2, r3, r4}

\* One row on each space, two on each, or one or two on the first
\* (default_workspaces = 2).
OneRowEach == (r1 :> [space |-> s1, index |-> 0]) @@ (r2 :> [space |-> s2, index |-> 0])
TwoRowsEach == OneRowEach @@ (r3 :> [space |-> s1, index |-> 1])
                          @@ (r4 :> [space |-> s2, index |-> 1])
OneRow == r1 :> [space |-> s1, index |-> 0]
TwoRows == (r1 :> [space |-> s1, index |-> 0]) @@ (r2 :> [space |-> s1, index |-> 1])

Symmetry == Permutations(Windows) \cup Permutations(Strips)
\* Two rows on each space that are never made or reaped: the spaces may trade
\* places, with their rows.
FixedSymmetry ==
    Permutations({s1, s2}) \cup Permutations({r1, r2}) \cup Permutations({r3, r4})

\* The kinds of input each run explores.
Keys == {"switch", "number", "move", "script", "place"}
Scripts == {"script", "spaces", "drag", "place", "focus", "calm"}
Swipes == {"switch", "number", "spaces", "float", "drag", "place"}
Desktops == {"destroy", "fullscreen", "place"}

==============================================================================
