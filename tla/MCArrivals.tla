------------------------------ MODULE MCArrivals ------------------------------
(****************************************************************************)
(* A small instance of Arrivals.                                            *)
(****************************************************************************)
EXTENDS Arrivals, TLC

CONSTANTS p, v, w, d1, d2, s1, s2, w1

MCProcs == {p}
MCWins == {v, w}
MCOwner == (v :> p) @@ (w :> p)
MCForced == {}
MCScreens == {d1, d2}
MCSpaces == {s1, s2}
MCWindows == {w1}

\* The bounds: in one behaviour either processes or displays come and go, and
\* displays do so once the start is over.
VARIABLE side
MCInit ==
    /\ AllInit /\ front = d1 /\ at[w1][1] = s1 /\ rows[s2] = {0}
    /\ \/ side = "processes" /\ attached = {d1} /\ rows[s1] = {0}
       \/ side = "displays" /\ os[p] = "absent" /\ regular = {} /\ deaf = {} /\ gate = 0
MCNext ==
    /\ UNCHANGED side
    /\ \/ side = "processes" /\ UNCHANGED display_vars
       \/ side = "displays" /\ UNCHANGED os_vars /\ (phase = "up" \/ UNCHANGED display_vars)
    /\ AllNext
MCSpec == MCInit /\ [][MCNext]_<<all_vars, side>> /\ Systems /\ D!Systems

==============================================================================
