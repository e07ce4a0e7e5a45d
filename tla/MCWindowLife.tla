----------------------------- MODULE MCWindowLife -----------------------------
(****************************************************************************)
(* Small instances of WindowLife.                                           *)
(****************************************************************************)
EXTENDS WindowLife

CONSTANTS a, b, c, A, B

Two == {a, b}
Three == {a, b, c}
TwoApps == {A, B}
Own == (a :> A) @@ (b :> A) @@ (c :> B)
OnlyA == <<a>>
AThenB == <<a, b>>
None == {}
OnlyB == {b}
OnlyC == {c}
TabAB == {{a, b}}

==============================================================================
