------------------------------- MODULE Arrivals -------------------------------
(****************************************************************************)
(* Processes and displays together: the timeouts of processes, applications *)
(* and orphaned rows, and the repeated scan for displays, are all timers of *)
(* one system, timeout_ticker, which looks at every Timeout in each frame.  *)
(****************************************************************************)
EXTENDS Launch

CONSTANTS Screens, Spaces, Windows, MaxIndex, MaxChanges, NoScreen

VARIABLES
    attached, home, front, news, ents, active, parent, timer, rows, chosen, at,
    retries, retry, changes

D == INSTANCE Displays

display_vars ==
    <<attached, home, front, news, ents, active, parent, timer, rows, chosen, at,
      retries, retry, changes>>
all_vars == <<vars, display_vars>>

\* timeout_ticker
TickAll ==
    /\ Ticker \/ UNCHANGED vars
    /\ D!Ticker \/ UNCHANGED display_vars

AllInit == Init /\ D!Init
AllNext ==
    \/ Work /\ UNCHANGED display_vars
    \/ D!Work /\ UNCHANGED vars
    \/ TickAll

AllSpec ==
    AllInit /\ [][AllNext]_all_vars /\ Systems /\ D!Systems

------------------------------------------------------------------------------
(* What Displays states, of the composition.                                *)

\* Once macOS lets its displays be, every row is a child of the display macOS
\* lists its space on (reconcile_displays, find_orphaned_workspaces).
Settles == D!Settles

\* A row that has a display and windows is not despawned by a timer it still
\* carries (timeout_ticker, reparent_existing_workspaces).
HousedNeverDies == D!HousedNeverDies

\* When all is read, the displays and the active one are those of macOS
\* (reconcile_displays, display_change_handler).
ActiveAtRest == D!ActiveAtRest

\* Contrary to the code, as Displays says.
NoWindowDropped == D!NoWindowDropped

==============================================================================
