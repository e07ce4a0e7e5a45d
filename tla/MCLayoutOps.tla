------------------------------ MODULE MCLayoutOps ------------------------------
(****************************************************************************)
(* Small instances of LayoutOps.                                            *)
(****************************************************************************)
EXTENDS LayoutOps

CONSTANTS a, b, c, D1, D2, S, T

Abc == {a, b, c}
TwoDisplays == <<D1, D2>>
Spaces2 == (D1 :> <<S>>) @@ (D2 :> <<T>>)
OnS == [w \in Windows |-> S]

\* a above b on screen, c on the other display.
Mixed ==
    [r \in Rows |-> CASE r = <<S, 0>> -> <<Column(<<Alone(a), Alone(b)>>)>>
                      [] r = <<T, 0>> -> <<Column(<<Alone(c)>>)>>
                      [] OTHER -> <<>>]

AllOps == {"focus", "swap", "shift", "view", "float", "place", "manage", "width", "frame",
           "stack", "unstack"}
Changes == {"close", "minimize", "switch"}
Nothing == {}

==============================================================================
