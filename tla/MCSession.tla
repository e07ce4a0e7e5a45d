------------------------------ MODULE MCSession ------------------------------
(****************************************************************************)
(* A small instance of Session: two spaces on two displays, the file of an  *)
(* earlier run naming windows that may be gone by now.                      *)
(****************************************************************************)
EXTENDS Session, TLC

CONSTANTS a, b, c, s, t, none

Abc == {a, b, c}
St == {s, t}
InOrder == <<s, t>>
TwoDisplays == (s :> 1) @@ (t :> 2)
\* a and c have the same title, b has none.
Titles == (a :> "notes") @@ (b :> none) @@ (c :> "notes")
JustA == {a}
JustC == {c}
NoWindow == {}

Single(w) == Column(<<Alone(w)>>)
Saved(space, i, cols, active) == [Row(space, i, TwoDisplays[space], cols) EXCEPT !.active = active]
\* A tab group in row 1, and a window of full-screen space t.
Before == <<Saved(s, 1, <<Column(<<Grouped(<<a, b>>)>>)>>, TRUE),
            Saved(t, 0, <<FullscreenColumn(c)>>, FALSE)>>
AnyFile == {{}, {CHOOSE saved \in Extracts(Before) : TRUE}}
Mixed == {[w \in Abc |-> IF w = c THEN t ELSE s]}
NoFile == {{}}

==============================================================================
