------------------------------- MODULE Session -------------------------------
(****************************************************************************)
(* Session restore (src/ecs/restore.rs, state.rs): the layout is written to *)
(* the state file now and then and at exit; the next start reads it, tiles  *)
(* the windows it finds as the spaces show them, and then moves those the   *)
(* file names back to where they were.  For a grace period every further    *)
(* window makes the whole restore run again.                                *)
(*                                                                          *)
(* A window stands for its (window id, pid, bundle) key: a saved window and *)
(* an open one match hard when they are the same model value.  Title[w] is  *)
(* the title with the role and identifiers, all the second choice looks at. *)
(*                                                                          *)
(* Abstractions: positions and focus are left out, the writing of the file  *)
(* is one step (it is renamed into place), and what the user does with the  *)
(* layout is one move between rows (VirtualWorkspaces, LayoutOps have the   *)
(* rest).  Every display stays connected.                                   *)
(****************************************************************************)
EXTENDS Naturals, Sequences, FiniteSets, Columns, Functions

CONSTANTS
    Windows, Spaces,
    Title,          \* title of a window, Untitled for none
    Untitled,
    DisplayOf,      \* display of each space that exists
    ActiveSpace,    \* the space in front when the program starts
    OrderOfSpaces,  \* the order present_displays lists them in
    DefaultRows,    \* config.default_workspaces
    Floating,       \* windows a rule of the configuration floats
    Restores,       \* config.restore_enabled
    Files,          \* what the state file may hold at first
    Gone,           \* windows that may be missing after a restart
    Minimizable,    \* windows that may be minimized at a start
    Whereabouts,    \* the spaces the windows may be on at a start
    MaxIndex, MaxMoves, MaxStarts   \* bounds: row numbers, moves and saves, starts

ASSUME RowsAssumption == DefaultRows \in Nat \ {0}
ASSUME SpacesAssumption ==
    /\ ActiveSpace \in Spaces
    /\ ToSet(OrderOfSpaces) = Spaces /\ Len(OrderOfSpaces) = Cardinality(Spaces)
    /\ DOMAIN DisplayOf = Spaces
    /\ Whereabouts \subseteq [Windows -> Spaces]

VARIABLES
    phase,     \* "down", "init" (Initializing) or "up"
    rows,      \* the layout strips, oldest first
    known,     \* windows with an entity
    added,     \* of those, the ones Added<Window> still holds for
    aside,     \* windows with an Unmanaged marker
    open, at, minimized,  \* the window server's view
    file,      \* the state file
    state,     \* the PaneruState resource: {} or the file as it was read
    session,   \* the SessionRestore resource, likewise
    moves, starts

vars == <<phase, rows, known, added, aside, open, at, minimized, file, state, session,
          moves, starts>>
os == <<open, at, minimized>>

------------------------------------------------------------------------------
(* Rows and their markers                                                   *)

Row(s, i, d, cols) ==
    [space |-> s, index |-> i, display |-> d, cols |-> cols, active |-> FALSE, selected |-> FALSE]

\* cleanup_selected_space_marker, cleanup_active_workspace_marker: one row per
\* space is selected and one row of all is active, the newest marker winning.
Selecting(rs, n) ==
    [m \in DOMAIN rs |-> [rs[m] EXCEPT !.selected =
        m = n \/ (@ /\ rs[m].space # rs[n].space)]]
Activating(rs, n) == Selecting([m \in DOMAIN rs |-> [rs[m] EXCEPT !.active = m = n]], n)

\* spawn_layout_strip
Spawned(rs, row, active) ==
    LET new == Append(rs, row)
    IN  IF active THEN Activating(new, Len(new)) ELSE Selecting(new, Len(new))

\* gather_displays, then initialise_workspaces.
Baseline ==
    LET zero == FoldLeft(LAMBDA rs, s : Spawned(rs, Row(s, 0, DisplayOf[s], <<>>), s = ActiveSpace),
                         <<>>, OrderOfSpaces)
        more(rs, s) == FoldLeft(LAMBDA x, i : Spawned(x, Row(s, i, DisplayOf[s], <<>>), FALSE),
                                rs, [i \in 1 .. DefaultRows - 1 |-> i])
    IN  FoldLeft(more, zero, OrderOfSpaces)

\* LayoutStrip::is_fullscreen
IsFullscreen(cols) == cols # <<>> /\ cols[1].full

Managed == known \ aside
RowsWith(w) == {n \in DOMAIN rows : HasWindow(rows[n].cols, w)}

------------------------------------------------------------------------------
(* The state file                                                           *)

\* A saved window is the window and where in the file it stands.
SavedAt(row, n) ==
    LET item(c, k) == [row.cols[c].items[k] EXCEPT
            !.ws = [j \in DOMAIN @ |-> [win |-> @[j], at |-> <<n, c, k, j>>]]]
        column(c) == [row.cols[c] EXCEPT !.items = [k \in DOMAIN @ |-> item(c, k)]]
    IN  [index |-> row.index, cols |-> [c \in DOMAIN row.cols |-> column(c)]]

\* A workspace of the file: its strips by virtual index, and the active row
\* when the active row is one of them.
SavedSpace(rs, s) ==
    LET mine == {n \in DOMAIN rs : rs[n].space = s}
        before(m, n) == rs[m].index < rs[n].index \/ (rs[m].index = rs[n].index /\ m < n)
        order == SetToSortSeq(mine, before)
    IN  [space |-> s, display |-> rs[Min(mine)].display,
         active |-> {rs[n].index : n \in {m \in mine : rs[m].active}},
         strips |-> [i \in DOMAIN order |-> SavedAt(rs[order[i]], order[i])]]

\* PaneruState::extract; the workspaces come out of a hash map, in any order.
Extracts(rs) ==
    LET there == {rs[n].space : n \in DOMAIN rs}
    IN  {[i \in DOMAIN order |-> SavedSpace(rs, order[i])] : order \in SetToSeqs(there)}

\* saved_windows_in_state
EntriesOf(cols) == AllWindows(cols)
Entries(saved) ==
    FlattenSeq([i \in DOMAIN saved |->
        FlattenSeq([j \in DOMAIN saved[i].strips |-> EntriesOf(saved[i].strips[j].cols)])])
\* saved_hard_match_keys
HardKeys(saved) == {e.win : e \in ToSet(Entries(saved))}

------------------------------------------------------------------------------
(* RestorePlanner                                                           *)

\* Mutant_X is X with a mistake in it; no definition uses it.
SameTitle(e, w) == Title[e.win] # Untitled /\ Title[w] = Title[e.win]
Mutant_Fallback(e, w, keys) == SameTitle(e, w)
\* fallback_match, of windows no saved key is waiting for
\* (hydrate_fallback_identities).
Fallback(e, w, keys) == SameTitle(e, w) /\ w \notin keys

\* match_window, over all saved windows in the order of the file: a function
\* from the saved windows that were found to the windows they are now.
Matching(saved, current) ==
    LET keys == HardKeys(saved)
        match(m, e) ==
            LET free == current \ Range(m)
                hard == free \cap {e.win}
                like == {w \in free : Fallback(e, w, keys)}
            IN  IF hard # {} THEN m @@ (e :> e.win)
                ELSE IF Cardinality(like) = 1 THEN m @@ (e :> CHOOSE w \in like : TRUE)
                ELSE m
    IN  FoldLeft(match, [e \in {} |-> {}], Entries(saved))

\* compact_stack_tabs, compact_entities: a group of one is a window.
Compacted(item, ws) == IF Len(ws) = 1 THEN Alone(ws[1]) ELSE [item EXCEPT !.ws = ws]
\* plan_stack_item
PlannedItem(item, m) ==
    LET found == SelectSeq(item.ws, LAMBDA e : e \in DOMAIN m)
    IN  Compacted(item, [j \in DOMAIN found |-> m[found[j]]])
\* plan_column, compact_stack_items
PlannedColumn(column, m) ==
    [column EXCEPT !.items =
        SelectSeq([k \in DOMAIN @ |-> PlannedItem(@[k], m)], LAMBDA it : it.ws # <<>>)]
\* plan_strip
PlannedColumns(cols, m) ==
    SelectSeq([c \in DOMAIN cols |-> PlannedColumn(cols[c], m)], LAMBDA c : c.items # <<>>)

\* record_active_virtual: the first row left, or the one nearest to the saved
\* one, the lower of two.
Distance(i, j) == IF i < j THEN j - i ELSE i - j
ActiveIndex(saved, left) ==
    IF saved = {} THEN Min(left)
    ELSE LET i == Min(saved)
         IN  CHOOSE j \in left : \A k \in left :
                Distance(j, i) < Distance(k, i) \/ (Distance(j, i) = Distance(k, i) /\ j <= k)

\* plan, plan_workspace
Planned(saved, m) ==
    LET strips(ws) == SelectSeq([j \in DOMAIN ws.strips |->
                          [ws.strips[j] EXCEPT !.cols = PlannedColumns(@, m)]],
                          LAMBDA p : p.cols # <<>>)
        plan(ws) ==
            LET left == strips(ws)
                indices == {p.index : p \in ToSet(left)}
            IN  [j \in DOMAIN left |->
                    [space |-> ws.space, display |-> ws.display, index |-> left[j].index,
                     cols |-> left[j].cols,
                     active |-> left[j].index = ActiveIndex(ws.active, indices)]]
    IN  FlattenSeq([i \in DOMAIN saved |-> plan(saved[i])])

------------------------------------------------------------------------------
(* restore_window_state                                                     *)

\* append_tabs: the followers join in front of the leader, one by one.
AppendTabs(cols, ws) ==
    FoldLeft(LAMBDA cs, w : ConvertToTabs(cs, ws[1], w), AppendWindow(cols, ws[1]), Tail(ws))
\* append_stack_item, append_stack
AppendItem(cols, item, first) ==
    LET cs == AppendTabs(cols, item.ws)
    IN  IF first THEN cs ELSE StackWindow(cs, item.ws[1])
\* apply_planned_columns
AppendPlanned(cols, column) ==
    FoldLeft(LAMBDA cs, k : AppendItem(cs, column.items[k], k = 1), cols,
             [k \in DOMAIN column.items |-> k])
\* layout_strip_from_plan
StripFromPlan(planned) ==
    IF Len(planned) = 1 /\ planned[1].full THEN planned
    ELSE FoldLeft(AppendPlanned, <<>>, planned)

\* select_display: where the space is now, else where it was, else the active.
SelectDisplay(p, old) ==
    LET here == {n \in DOMAIN old : old[n].space = p.space}
    IN  CASE here # {} -> old[Min(here)].display
          [] here = {} /\ p.display \in Range(DisplayOf) -> p.display
          [] OTHER -> DisplayOf[ActiveSpace]

\* The rows without the consumed windows, and which of them that emptied.
Bare(old, consumed) ==
    [n \in DOMAIN old |-> [old[n] EXCEPT !.cols = RemoveAll(@, SetToSeq(consumed))]]
Mutant_Emptied(old, bare) == {n \in DOMAIN old : old[n].cols # <<>> /\ bare[n].cols = <<>>}
Emptied(old, bare) ==
    {n \in DOMAIN old : old[n].cols # bare[n].cols /\ bare[n].cols = <<>> /\ old[n].index > 0}

\* The row a planned strip takes over: it keeps the windows nobody claimed.
Takes(bare, gone, p) ==
    IF IsFullscreen(p.cols) THEN {}
    ELSE LET same == {n \in DOMAIN bare \ gone : /\ bare[n].space = p.space
                                                 /\ bare[n].index = p.index
                                                 /\ ~IsFullscreen(bare[n].cols)}
         IN  IF same = {} THEN {} ELSE {Min(same)}

Mutant_Merged(bare, taken, cols) == cols
Merged(bare, taken, cols) == cols \o FlattenSeq([i \in 1 .. Cardinality(taken) |-> bare[Min(taken)].cols])

\* One planned strip: acc is the rows (old ones in their places), which of the
\* old ones are to be despawned, and the strips to spawn.
Restoring(bare, acc, p) ==
    LET taken == Takes(bare, acc.gone, p)
        global == p.active /\ \E n \in DOMAIN bare : bare[n].active /\ bare[n].space = p.space
        row == Row(p.space, p.index, SelectDisplay(p, bare),
                   Merged(bare, taken, StripFromPlan(p.cols)))
        gone == acc.gone \cup taken
        marked == [n \in DOMAIN acc.rows |-> [acc.rows[n] EXCEPT !.active =
                      @ /\ ~(global /\ acc.rows[n].space = p.space /\ n \notin gone)]]
    IN  [rows |-> Spawned(marked, row, global), gone |-> gone]

Restored(old, plan, consumed) ==
    IF consumed = {} THEN old
    ELSE LET bare == Bare(old, consumed)
             end == FoldLeft(LAMBDA acc, p : Restoring(bare, acc, p),
                             [rows |-> bare, gone |-> Emptied(old, bare)], plan)
             kept == SelectSeq([n \in DOMAIN end.rows |-> n], LAMBDA n : n \notin end.gone)
         IN  [i \in DOMAIN kept |-> end.rows[kept[i]]]

\* current_window_identities: the managed windows, of which `low` are on their
\* way out and `new` on their way in.
Identities(low, new) == (Managed \ low) \cup new

\* What restore_window_state makes of the rows, given the windows it knows.
RestoredFrom(saved, old, current) ==
    LET m == Matching(saved, current)
    IN  Restored(old, Planned(saved, m), Range(m))

------------------------------------------------------------------------------
(* Starting up                                                              *)

Init ==
    /\ phase = "down" /\ rows = <<>> /\ known = {} /\ added = {} /\ aside = {}
    /\ open = Windows /\ at \in [Windows -> {ActiveSpace}] /\ minimized = {}
    /\ file \in Files /\ state = {} /\ session = {} /\ moves = 0 /\ starts = 0

\* A start, however the windows of the OS have changed in the meantime.
Start ==
    /\ phase = "down" /\ starts < MaxStarts
    /\ phase' = "init" /\ starts' = starts + 1
    /\ rows' = Baseline
    /\ \E gone \in SUBSET Gone : open' = Windows \ gone
    /\ at' \in Whereabouts
    /\ minimized' \in SUBSET (Minimizable \cap open')
    /\ state' = file
    /\ known' = {} /\ added' = {} /\ aside' = {} /\ session' = {}
    /\ UNCHANGED <<file, moves>>

\* spawn_window_trigger, for one new window.  After the start, and while the
\* session lasts, it makes the restore run again.
Discover(w) ==
    /\ phase # "down" /\ w \in open \ known /\ (phase = "up" => added = {})
    /\ known' = known \cup {w} /\ added' = added \cup {w}
    /\ rows' \in IF phase = "up" /\ session # {}
                 THEN {RestoredFrom(saved, rows, Identities({}, {w})) : saved \in session}
                 ELSE {rows}
    /\ UNCHANGED <<phase, aside, os, file, state, session, moves, starts>>

\* matches_startup_restore_state
AwaitsRestore(w) ==
    /\ Restores
    /\ \E saved \in (IF session # {} THEN session ELSE state) : w \in HardKeys(saved)

\* apply_window_positions, the rest of it: out of the strip and aside when a
\* rule floats the window, else into the active row if it has no place yet.
Tabbed(w) == \E n \in RowsWith(w) :
    \E k \in DOMAIN rows[n].cols[IndexOf(rows[n].cols, w)].items :
        LET item == rows[n].cols[IndexOf(rows[n].cols, w)].items[k]
        IN  item.tabs /\ ItemHolds(item, w)
Inserted(w, i) ==
    [n \in DOMAIN rows |->
        IF rows[n].active THEN [rows[n] EXCEPT !.cols = InsertWindow(@, i, w)] ELSE rows[n]]
Taken(w) ==
    [n \in DOMAIN rows |->
        IF RowsWith(w) # {} /\ n = Min(RowsWith(w))
        THEN [rows[n] EXCEPT !.cols = RemoveWindow(@, w)] ELSE rows[n]]

Place(w) ==
    /\ phase # "down" /\ w \in added
    /\ added' = added \ {w}
    /\ IF Tabbed(w) \/ AwaitsRestore(w) THEN UNCHANGED <<rows, aside>>
       ELSE IF w \in Floating THEN rows' = Taken(w) /\ aside' = aside \cup {w}
       ELSE /\ IF phase = "up" /\ RowsWith(w) = {}
               THEN \E i \in 1 .. Cardinality(Windows) : rows' = Inserted(w, i)
               ELSE UNCHANGED rows
            /\ UNCHANGED aside
    /\ UNCHANGED <<phase, known, os, file, state, session, moves, starts>>

\* finish_setup: every row gets the windows of its space that are not
\* minimized, those it has keeping their places, and loses the others.
Present(s) == {w \in Managed : w \in open \ minimized /\ at[w] = s}
Refreshed(order) ==
    [n \in DOMAIN rows |->
        LET here == Present(rows[n].space)
            kept == RemoveAll(rows[n].cols, SetToSeq(ToSet(AllWindows(rows[n].cols)) \ here))
        IN  [rows[n] EXCEPT !.cols =
                FoldLeft(AppendWindow, kept, SelectSeq(order, LAMBDA w : w \in here))]]

FinishSetup ==
    /\ phase = "init" /\ phase' = "up"
    /\ LET low == Managed \cap minimized
       IN  /\ aside' = aside \cup low
           /\ session' = IF Restores THEN state ELSE {}
           /\ state' = IF Restores THEN state ELSE {}
           /\ \E order \in SetToSeqs(Managed) :
                 LET old == Refreshed(order)
                 IN  rows' \in IF session' = {} THEN {old}
                               ELSE {RestoredFrom(saved, old, Identities(low, {})) : saved \in session'}
    /\ UNCHANGED <<known, added, os, file, moves, starts>>

\* tick_restore_grace
EndGrace ==
    /\ phase = "up" /\ session # {}
    /\ session' = {} /\ state' = {}
    /\ UNCHANGED <<phase, rows, known, added, aside, os, file, moves, starts>>

------------------------------------------------------------------------------
(* While it runs                                                            *)

Running == phase = "up" /\ added = {}

\* The user takes a window to another row of its space, as a column of its own
\* (handle_virtual_window_moves), or stacks it; or turns to another row.
MoveWindow(w, i) ==
    /\ Running /\ moves < MaxMoves /\ moves' = moves + 1 /\ RowsWith(w) # {}
    /\ LET n == Min(RowsWith(w))
           space == rows[n].space
           out == [rows EXCEPT ![n].cols = RemoveWindow(@, w)]
           there == {m \in DOMAIN rows : rows[m].space = space /\ rows[m].index = i}
       IN  /\ i # rows[n].index
           /\ rows' = IF there # {} THEN [out EXCEPT ![Min(there)].cols = AppendWindow(@, w)]
                      ELSE Spawned(out, Row(space, i, rows[n].display, AppendWindow(<<>>, w)), FALSE)
    /\ UNCHANGED <<phase, known, added, aside, os, file, state, session, starts>>

Stack(w) ==
    /\ Running /\ moves < MaxMoves /\ moves' = moves + 1 /\ RowsWith(w) # {}
    /\ rows' = [rows EXCEPT ![Min(RowsWith(w))].cols = StackWindow(@, w)]
    /\ UNCHANGED <<phase, known, added, aside, os, file, state, session, starts>>

SwitchRow(n) ==
    /\ Running /\ moves < MaxMoves /\ moves' = moves + 1
    /\ n \in DOMAIN rows /\ ~rows[n].active
    /\ rows' = Activating(rows, n)
    /\ UNCHANGED <<phase, known, added, aside, os, file, state, session, starts>>

\* window_removal_trigger
Close(w) ==
    /\ Running /\ w \in known \cap Gone
    /\ open' = open \ {w} /\ known' = known \ {w} /\ aside' = aside \ {w}
    /\ rows' = Taken(w)
    /\ UNCHANGED <<phase, added, at, minimized, file, state, session, moves, starts>>

\* periodic_state_save
Save ==
    /\ phase = "up" /\ moves < MaxMoves /\ moves' = moves + 1
    /\ \E saved \in Extracts(rows) : file' = {saved}
    /\ UNCHANGED <<phase, rows, known, added, aside, os, state, session, starts>>

\* cleanup_on_exit saves; a crash does not, and leaves the file whole.
Stopped ==
    /\ phase # "down" /\ phase' = "down"
    /\ rows' = <<>> /\ known' = {} /\ added' = {} /\ aside' = {} /\ state' = {} /\ session' = {}
    /\ UNCHANGED <<os, moves, starts>>
Exit == Stopped /\ \E saved \in Extracts(rows) : file' = {saved}
Crash == Stopped /\ UNCHANGED file

Next ==
    \/ Start \/ FinishSetup \/ EndGrace \/ Save \/ Exit \/ Crash
    \/ \E w \in Windows : Discover(w) \/ Place(w) \/ Stack(w) \/ Close(w)
    \/ \E w \in Windows, i \in 0 .. MaxIndex : MoveWindow(w, i)
    \/ \E n \in DOMAIN rows : SwitchRow(n)

Spec == Init /\ [][Next]_vars

------------------------------------------------------------------------------
(* Properties                                                               *)

\* A managed window is in the layout exactly once, and a window that is not
\* managed nowhere, once the start is over and new windows have been placed:
\* the restore, the setup and the placing of new windows each leave windows to
\* the others (restore.rs 406-560, triggers.rs 1194-1250).
TiledOnce ==
    Running =>
        LET tiled == FlattenSeq([n \in DOMAIN rows |-> AllWindows(rows[n].cols)])
        IN  ToSet(tiled) = Managed /\ Len(tiled) = Cardinality(Managed)

\* Whether rows rs have the windows of the strip `cols`, saved for row i of
\* space s, where they were: all in that row, the columns and the items of a
\* column in the saved order, only what shared a column sharing one.
SameOrder(i, j, x, y) == (i < j <=> x < y) /\ (i = j <=> x = y)
InPlace(rs, s, i, cols) ==
    \E n \in DOMAIN rs :
        /\ rs[n].space = s /\ rs[n].index = i
        /\ \A e, f \in {g \in ToSet(AllWindows(cols)) : g.win \in Managed'} :
              LET col(g) == IndexOf(rs[n].cols, g.win)
                  place(g) == PositionOf(rs[n].cols[col(g)], g.win)
              IN  /\ col(e) # 0 /\ col(f) # 0
                  /\ SameOrder(e.at[2], f.at[2], col(e), col(f))
                  /\ e.at[2] = f.at[2] => SameOrder(e.at[3], f.at[3], place(e), place(f))

\* A restore, at the start or when a window turns up late, brings every window
\* that still has its key back where the file has it, whatever else is open or
\* missing; a late one moves no window that the file does not know.
Restoration == session' # {} /\ (phase = "init" \/ (known' # known /\ known \subseteq known'))
RowKey(n) == <<rows[n].space, rows[n].index>>
RestoresPlaces ==
    [][Restoration =>
        \A saved \in session' :
            /\ \A i \in DOMAIN saved : \A j \in DOMAIN saved[i].strips :
                  LET strip == saved[i].strips[j]
                  IN  InPlace(rows', saved[i].space, strip.index, strip.cols)
                      \/ \A e \in ToSet(AllWindows(strip.cols)) : e.win \notin Managed'
            /\ phase = "up" => \A w \in Managed \ Range(Matching(saved, Managed')) :
                  {RowKey(n) : n \in RowsWith(w)} = {RowKey(n)' : n \in RowsWith(w)'}]_vars

\* Exactly one row is in front, and a space that was there at the start keeps row 0.
FrontRow ==
    phase # "down" =>
        /\ Cardinality({n \in DOMAIN rows : rows[n].active}) = 1
        /\ \A s \in Spaces : \E n \in DOMAIN rows : rows[n].space = s /\ rows[n].index = 0

==============================================================================
