---------------------------- MODULE MCLayoutStrip ----------------------------
(****************************************************************************)
(* Small instances of LayoutStrip.                                          *)
(****************************************************************************)
EXTENDS LayoutStrip

CONSTANTS a, b, c

Three == {a, b, c}
OnlyA == {a}
NoWindow == {}

==============================================================================
