------------------------------ MODULE StripOrder ------------------------------
(****************************************************************************)
(* What a layout strip promises, columns, stacks and tabs forgotten: the    *)
(* reading order of its windows (left to right, top to bottom).  A step     *)
(* places a block of windows somewhere, lets one window go, or exchanges    *)
(* two blocks; every other window keeps its place relative to the rest, and *)
(* no window is ever in the order twice.                                    *)
(****************************************************************************)
EXTENDS Naturals, Sequences, Filters

CONSTANT Windows
VARIABLE order

OrderOk == LET o == order
           IN  o \in Seq(Windows) /\ \A i, j \in DOMAIN o : o[i] = o[j] => i = j

Without(o, S) == Retained(o, Windows \ S)

Init == order = <<>> \/ \E w \in Windows : order = <<w>>

\* A group of windows, new or already there, is placed as one block.
Place == LET o == order
             p == order'
         IN  \E i, j \in DOMAIN p : i <= j /\
                LET group == SubSeq(p, i, j)
                    rest  == Without(o, ToSet(group))
                IN  p = SubSeq(rest, 1, i - 1) \o group \o SubSeq(rest, i, Len(rest))

Release == LET o == order
           IN  \E w \in ToSet(o) : order' = Without(o, {w})

\* Two blocks, i..j and k..l, trade places.
Swap == LET o == order
            p == order'
        IN  \E i, j, k, l \in DOMAIN o :
                /\ i <= j /\ j < k /\ k <= l
                /\ p = SubSeq(o, 1, i - 1) \o SubSeq(o, k, l) \o SubSeq(o, j + 1, k - 1)
                       \o SubSeq(o, i, j) \o SubSeq(o, l + 1, Len(o))

Next == OrderOk' /\ (Place \/ Release \/ Swap)

Spec == Init /\ [][Next]_order

==============================================================================
