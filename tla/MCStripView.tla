----------------------------- MODULE MCStripView -----------------------------
(****************************************************************************)
(* Small instances of StripView.                                            *)
(****************************************************************************)
EXTENDS StripView

CONSTANTS a, b, c

Two == {a, b}
Three == {a, b, c}
Side == <<Column(<<Alone(a)>>), Column(<<Alone(b)>>)>>
Stacked == <<Column(<<Alone(a), Alone(b)>>)>>
Tabs == <<Column(<<Grouped(<<a, b>>)>>)>>
TwoLayouts == {Side, Stacked, Tabs}
TwoOrThree == {2, 3}
\* Snapping is tried where the scroll is not clamped.
MostConfigs == [auto : BOOLEAN, continuous : BOOLEAN] \ {[auto |-> TRUE, continuous |-> FALSE]}

==============================================================================
