------------------------------- MODULE Displays -------------------------------
(****************************************************************************)
(* Displays that come and go, and the rows on them (ecs/display.rs,         *)
(* workspace.rs find_orphaned_workspaces, commands.rs to_next_display).     *)
(*                                                                          *)
(* macOS changes its displays and tells later; reconcile_displays compares  *)
(* what it reports by then with the Display entities.  The rows of a        *)
(* display that is gone are orphans with a timer of 30 seconds: they come   *)
(* back, or their windows float before timeout_ticker despawns them.        *)
(*                                                                          *)
(* Abstractions: all rows of a space have the same parent and timer, as     *)
(* every loop over strips below treats the strips of a space alike; a timer *)
(* runs out at any time after it was set; a system's commands take effect   *)
(* with it; the strip on screen belongs to the active display.              *)
(****************************************************************************)
EXTENDS Naturals, FiniteSets

CONSTANTS
    Screens,
    Spaces,
    Windows,
    MaxIndex,    \* the highest index of a row
    MaxChanges,  \* how often macOS changes its displays or the active one
    NoScreen     \* not one of Screens

VARIABLES
    attached,  \* the displays macOS reports
    home,      \* space -> the display macOS lists it on, or NoScreen
    front,     \* the active display of macOS, or NoScreen
    news,      \* unread: "displays" (any reconfiguration) and "active" (DisplayChanged)
    ents,      \* displays with an entity
    active,    \* those with ActiveDisplayMarker
    parent,    \* space -> display its rows are children of, or NoScreen
    timer,     \* space -> "off", "on" or "over": Timeout of its rows
    rows,      \* space -> indexes of its rows
    chosen,    \* space -> set of the index of its selected row, or {}
    at,        \* window -> <<space, index>>, Floating or Nowhere
    retries,   \* what is left of DISPLAY_RETRIES
    retry,     \* a scan is to be repeated
    changes

vars == <<attached, home, front, news, ents, active, parent, timer, rows, chosen, at,
          retries, retry, changes>>
macos == <<attached, home, front, changes>>
kept == <<retries, retry>>

Floating == <<"floating">>
Nowhere == <<"nowhere">>

Row(s, i) == {w \in Windows : at[w] = <<s, i>>}
Lodged(ss) == {w \in Windows : \E s \in ss : \E i \in rows[s] : at[w] = <<s, i>>}

\* gather_displays, initialise_workspaces, and some use since.
Init ==
    /\ attached \in SUBSET Screens \ {{}} /\ home \in [Spaces -> attached] /\ front \in attached
    /\ ents = attached /\ active = {front} /\ parent = home
    /\ timer = [s \in Spaces |-> "off"]
    /\ rows \in [Spaces -> {{0}, 0..MaxIndex}]
    /\ chosen \in [Spaces -> {{i} : i \in 0..MaxIndex}] /\ \A s \in Spaces : chosen[s] \subseteq rows[s]
    /\ at \in [Windows -> Spaces \X (0..MaxIndex)] /\ \A w \in Windows : at[w][2] \in rows[at[w][1]]
    /\ news = {} /\ retries = 0 /\ retry = FALSE /\ changes = 0

------------------------------------------------------------------------------
(* macOS                                                                    *)

\* Displays are attached or removed (DisplayHandler::display_handler).  A
\* space whose display is removed may be listed on none for a while.
OSChange ==
    /\ changes < MaxChanges /\ changes' = changes + 1
    /\ attached' \in SUBSET Screens \ {attached}
    /\ home' \in [Spaces -> attached' \cup {NoScreen}]
    /\ \A s \in Spaces : home'[s] = NoScreen => attached' \subseteq attached /\ home[s] \notin attached'
    /\ front' \in IF attached' = {} THEN {NoScreen} ELSE attached'
    /\ news' = news \cup {"displays"} \cup IF front' = front THEN {} ELSE {"active"}
    /\ UNCHANGED <<ents, active, parent, timer, rows, chosen, at, kept>>
OSList(s) ==
    /\ home[s] = NoScreen /\ \E d \in attached : home' = [home EXCEPT ![s] = d]
    /\ UNCHANGED <<attached, front, changes, news, ents, active, parent, timer, rows, chosen, at, kept>>
OSFront ==
    /\ changes < MaxChanges /\ changes' = changes + 1
    /\ front' \in attached \ {front} /\ news' = news \cup {"active"}
    /\ UNCHANGED <<attached, home, ents, active, parent, timer, rows, chosen, at, kept>>

------------------------------------------------------------------------------
(* Reconciliation                                                           *)

\* remove_display: its rows are orphans.
Orphaned(s) == parent[s] \in ents \ attached

\* reparent_existing_workspaces, for every display that is added or stays.
Mutant_Rehomed(s) == home[s] # NoScreen /\ parent[s] # home[s] /\ home[s] \notin ents
Rehomed(s) == home[s] # NoScreen /\ parent[s] # home[s]
Parent(s) == IF Rehomed(s) THEN home[s] ELSE IF Orphaned(s) THEN NoScreen ELSE parent[s]
Mutant_Timed(s) == IF Orphaned(s) /\ ~Rehomed(s) THEN "on" ELSE timer[s]
Timed(s) == IF Rehomed(s) THEN "off" ELSE IF Orphaned(s) THEN "on" ELSE timer[s]
Renewed(s) == home[s] # NoScreen /\ rows[s] = {}

\* A scan that finds no display is repeated while there are retries; then
\* the retries are set again.
Rescans == attached = {} /\ retries > 1

Mutant_Announced == {}
Announced == {"active"}

\* reconcile_displays
Reconcile ==
    /\ "displays" \in news /\ news' = (news \ {"displays"}) \cup Announced
    /\ retry' = (retry \/ Rescans) /\ retries' = 3
    /\ ents' = attached /\ active' = active \cap attached
    /\ parent' = [s \in Spaces |-> Parent(s)] /\ timer' = [s \in Spaces |-> Timed(s)]
    /\ rows' = [s \in Spaces |-> IF Renewed(s) THEN {0} ELSE rows[s]]
    /\ chosen' = [s \in Spaces |-> IF Renewed(s) THEN {0} ELSE chosen[s]]
    /\ UNCHANGED <<macos, at>>

\* display_change_handler, cleanup_active_display_marker
DisplayChange ==
    /\ "active" \in news /\ news' = news \ {"active"}
    /\ active' = IF front \in ents THEN {front} ELSE active
    /\ UNCHANGED <<macos, ents, parent, timer, rows, chosen, at, kept>>

------------------------------------------------------------------------------
(* Orphans                                                                  *)

Orphans == {s \in Spaces : timer[s] # "off"}
Empty(s) == {i \in rows[s] : i > 0 /\ Row(s, i) = {}}
\* Their time is over: the windows float.
Late(s) == parent[s] = NoScreen /\ timer[s] = "over"
\* The entity of the display macOS lists the space on, if there is one.
Found(s) == parent[s] = NoScreen /\ timer[s] = "on" /\ home[s] \in ents

\* find_orphaned_workspaces: once a second, while there is a display.
FindOrphans ==
    /\ ents # {} /\ Orphans # {}
    /\ rows' = [s \in Spaces |-> IF s \in Orphans THEN rows[s] \ Empty(s) ELSE rows[s]]
    /\ chosen' = [s \in Spaces |-> chosen[s] \cap rows'[s]]
    /\ at' = [w \in Windows |->
                IF w \in Lodged({s \in Orphans : Late(s)}) THEN Floating ELSE at[w]]
    /\ parent' = [s \in Spaces |-> IF s \in Orphans /\ Found(s) THEN home[s] ELSE parent[s]]
    /\ timer' = [s \in Spaces |->
                IF s \in Orphans /\ (Found(s) \/ parent[s] # NoScreen) THEN "off" ELSE timer[s]]
    /\ UNCHANGED <<macos, news, ents, active, kept>>

\* timeout_ticker: a timer that is over takes its rows, or repeats the scan.
Ticker ==
    LET over == {s \in Spaces : timer[s] = "over"}
    IN  \E due \in SUBSET {s \in Spaces : timer[s] = "on"}, scan \in {retry, FALSE} :
            /\ timer' = [s \in Spaces |->
                    IF s \in over THEN "off" ELSE IF s \in due THEN "over" ELSE timer[s]]
            /\ rows' = [s \in Spaces |-> IF s \in over THEN {} ELSE rows[s]]
            /\ chosen' = [s \in Spaces |-> chosen[s] \cap rows'[s]]
            /\ at' = [w \in Windows |-> IF w \in Lodged(over) THEN Nowhere ELSE at[w]]
            /\ retry' = (retry /\ ~scan)
            /\ news' = news \cup IF scan THEN {"displays"} ELSE {}
            /\ UNCHANGED <<macos, ents, active, parent, retries>>

------------------------------------------------------------------------------
(* Commands                                                                 *)

\* Where a window sent to display d goes: to the selected row of its space,
\* if macOS tells that space and it has such a row.
Target(d) ==
    LET shown == {s \in Spaces : d \in attached /\ home[s] = d}
        spots == {<<s, i>> : s \in shown, i \in 0..MaxIndex}
    IN  {spot \in spots : spot[2] \in chosen[spot[1]]}
        \cup (IF shown = {} \/ \E s \in shown : chosen[s] = {} THEN {Nowhere} ELSE {})

\* to_next_display
ToNextDisplay(w) ==
    /\ \E s \in Spaces : parent[s] \in active /\ \E i \in chosen[s] : at[w] = <<s, i>>
    /\ \E d \in ents \ active : \E spot \in Target(d) : at' = [at EXCEPT ![w] = spot]
    /\ UNCHANGED <<macos, news, ents, active, parent, timer, rows, chosen, kept>>

------------------------------------------------------------------------------

Work ==
    \/ OSChange \/ OSFront \/ \E s \in Spaces : OSList(s)
    \/ Reconcile \/ DisplayChange \/ FindOrphans
    \/ \E w \in Windows : ToNextDisplay(w)
Next == Work \/ Ticker

Spec == Init /\ [][Next]_vars

\* The systems run again and again.
Systems ==
    WF_vars(Reconcile) /\ WF_vars(DisplayChange) /\ WF_vars(FindOrphans) /\ WF_vars(Ticker)

------------------------------------------------------------------------------
(* Correctness                                                              *)

\* Once macOS lets its displays be, every row is a child of the display macOS
\* lists its space on, though displays may come and go before a change of
\* theirs is read, and spaces be listed late.
Settles ==
    \A s \in Spaces : <>[](rows[s] # {} /\ home[s] # NoScreen => parent[s] = home[s])

\* A row that has a display and windows is not despawned, as that of a
\* display that comes back while the timer of its rows runs.
HousedNeverDies ==
    [][\A s \in Spaces : parent[s] # NoScreen =>
          {i \in rows[s] : Row(s, i) # {}} \subseteq rows'[s]]_vars

\* When all is read, there is an entity for each display macOS has and no other,
\* and the active one is that of macOS, in whatever order its change and that
\* of the displays were noticed.
ActiveAtRest == news = {} => ents = attached /\ active = {front} \cap ents

\* Contrary to the code: a window of a row that is given up floats, and one
\* that is sent to another display arrives there.
NoWindowDropped == \A w \in Windows : at[w] # Nowhere

==============================================================================
