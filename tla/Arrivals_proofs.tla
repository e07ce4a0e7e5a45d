---------------------------- MODULE Arrivals_proofs ----------------------------
(****************************************************************************)
(* Proofs about Arrivals: a row that has a display carries no timer, and    *)
(* for that reason it never dies of one, though the ticker of its timers is *)
(* the one of processes and applications; and the displays and the active   *)
(* one are those of macOS once all it tells is read.                        *)
(****************************************************************************)
EXTENDS Arrivals, TLAPS

\* Only rows without a display have a timer (reparent_existing_workspaces and
\* find_orphaned_workspaces take it off as they give the rows a display).
OnlyOrphansTimed == \A s \in Spaces : timer[s] = "off" \/ parent[s] = NoScreen

\* What a step keeps, where the rows of a space have a display.
RowsSurvive ==
    \A s \in Spaces : parent[s] # NoScreen =>
        {i \in rows[s] : D!Row(s, i) # {}} \subseteq rows'[s]

\* gather_displays and initialise_workspaces set no timer.
LEMMA InitTimed == D!Init => OnlyOrphansTimed
  BY DEF D!Init, OnlyOrphansTimed

\* reconcile_displays takes the timer off with every new parent, and sets it
\* only as the parent goes.
LEMMA ReconcileTimed == OnlyOrphansTimed /\ D!Reconcile => OnlyOrphansTimed'
<1> SUFFICES ASSUME OnlyOrphansTimed, D!Reconcile, NEW s \in Spaces
             PROVE  timer'[s] = "off" \/ parent'[s] = NoScreen
  BY DEF OnlyOrphansTimed
<1>1. parent'[s] = D!Parent(s) /\ timer'[s] = D!Timed(s)
  BY DEF D!Reconcile
<1>2. CASE D!Rehomed(s)
  BY <1>1, <1>2 DEF D!Timed
<1>3. CASE ~D!Rehomed(s) /\ D!Orphaned(s)
  BY <1>1, <1>3 DEF D!Parent
<1>4. CASE ~D!Rehomed(s) /\ ~D!Orphaned(s)
  <2>1. parent'[s] = parent[s] /\ timer'[s] = timer[s]
    BY <1>1, <1>4 DEF D!Parent, D!Timed
  <2> QED BY <2>1 DEF OnlyOrphansTimed
<1> QED BY <1>2, <1>3, <1>4

\* find_orphaned_workspaces takes the timer off the rows it gives a display.
LEMMA FindTimed == OnlyOrphansTimed /\ D!FindOrphans => OnlyOrphansTimed'
<1> SUFFICES ASSUME OnlyOrphansTimed, D!FindOrphans, NEW s \in Spaces
             PROVE  timer'[s] = "off" \/ parent'[s] = NoScreen
  BY DEF OnlyOrphansTimed
<1>1. CASE s \in D!Orphans /\ D!Found(s)
  BY <1>1 DEF D!FindOrphans
<1>2. CASE ~(s \in D!Orphans /\ D!Found(s))
  <2>1. parent'[s] = parent[s] /\ timer'[s] \in {timer[s], "off"}
    BY <1>2 DEF D!FindOrphans
  <2> QED BY <2>1 DEF OnlyOrphansTimed
<1> QED BY <1>1, <1>2

\* timeout_ticker starts no timer.
LEMMA TickerTimed == OnlyOrphansTimed /\ D!Ticker => OnlyOrphansTimed'
<1> SUFFICES ASSUME OnlyOrphansTimed, D!Ticker, NEW s \in Spaces
             PROVE  timer'[s] = "off" \/ parent'[s] = NoScreen
  BY DEF OnlyOrphansTimed
<1>1. parent' = parent
  BY DEF D!Ticker
<1>2. timer[s] = "off" => timer'[s] = "off"
  BY DEF D!Ticker
<1> QED BY <1>1, <1>2 DEF OnlyOrphansTimed

\* Every other step leaves parents and timers alone.
LEMMA StepTimed == OnlyOrphansTimed /\ [D!Next]_display_vars => OnlyOrphansTimed'
<1> SUFFICES ASSUME OnlyOrphansTimed, [D!Next]_display_vars PROVE OnlyOrphansTimed'
  OBVIOUS
<1>1. CASE D!Reconcile
  BY <1>1, ReconcileTimed
<1>2. CASE D!FindOrphans
  BY <1>2, FindTimed
<1>3. CASE D!Ticker
  BY <1>3, TickerTimed
<1>4. CASE D!OSChange \/ D!OSFront \/ (\E s \in Spaces : D!OSList(s)) \/ D!DisplayChange
           \/ (\E w \in Windows : D!ToNextDisplay(w)) \/ UNCHANGED display_vars
  <2>1. UNCHANGED <<parent, timer>>
    BY <1>4 DEF D!OSChange, D!OSFront, D!OSList, D!DisplayChange, D!ToNextDisplay, display_vars
  <2> QED BY <2>1 DEF OnlyOrphansTimed
<1> QED BY <1>1, <1>2, <1>3, <1>4 DEF D!Next, D!Work

\* The processes leave the displays alone, but for the frame in which the
\* ticker looks at the timers of both.
LEMMA DisplaySteps == [AllNext]_all_vars => [D!Next]_display_vars
<1> SUFFICES ASSUME [AllNext]_all_vars PROVE D!Next \/ UNCHANGED display_vars
  OBVIOUS
<1>1. CASE Work /\ UNCHANGED display_vars
  BY <1>1
<1>2. CASE D!Work /\ UNCHANGED vars
  BY <1>2 DEF D!Next
<1>3. CASE TickAll
  BY <1>3 DEF TickAll, D!Next
<1>4. CASE UNCHANGED all_vars
  BY <1>4 DEF all_vars
<1> QED BY <1>1, <1>2, <1>3, <1>4 DEF AllNext

\* A row that has a display carries no timer, whatever displays come and go
\* (remove_display, reparent_existing_workspaces, find_orphaned_workspaces).
THEOREM HousedUntimed == AllSpec => []OnlyOrphansTimed
<1>1. AllInit => OnlyOrphansTimed
  BY InitTimed DEF AllInit
<1>2. OnlyOrphansTimed /\ [AllNext]_all_vars => OnlyOrphansTimed'
  BY StepTimed, DisplaySteps
<1> QED BY <1>1, <1>2, PTL DEF AllSpec

\* What despawns rows is a timer, or their emptiness.
LEMMA StepSurvive == OnlyOrphansTimed /\ [D!Next]_display_vars => RowsSurvive
<1> SUFFICES ASSUME OnlyOrphansTimed, [D!Next]_display_vars, NEW s \in Spaces, parent[s] # NoScreen
             PROVE  {i \in rows[s] : D!Row(s, i) # {}} \subseteq rows'[s]
  BY DEF RowsSurvive
<1>1. timer[s] = "off"
  BY DEF OnlyOrphansTimed
<1>2. CASE D!Reconcile
  BY <1>2 DEF D!Reconcile, D!Renewed
<1>3. CASE D!FindOrphans
  BY <1>1, <1>3 DEF D!FindOrphans, D!Orphans
<1>4. CASE D!Ticker
  BY <1>1, <1>4 DEF D!Ticker
<1>5. CASE D!OSChange \/ D!OSFront \/ (\E t \in Spaces : D!OSList(t)) \/ D!DisplayChange
           \/ (\E w \in Windows : D!ToNextDisplay(w)) \/ UNCHANGED display_vars
  BY <1>5 DEF D!OSChange, D!OSFront, D!OSList, D!DisplayChange, D!ToNextDisplay, display_vars
<1> QED BY <1>2, <1>3, <1>4, <1>5 DEF D!Next, D!Work

\* A row that has a display and windows is not despawned: not by the timer of
\* a display that was away, nor by its siblings' (timeout_ticker).
THEOREM HousedSurvives == AllSpec => HousedNeverDies
<1>1. OnlyOrphansTimed /\ [AllNext]_all_vars =>
        [\A s \in Spaces : parent[s] # NoScreen =>
            {i \in rows[s] : D!Row(s, i) # {}} \subseteq rows'[s]]_D!vars
  BY StepSurvive, DisplaySteps DEF RowsSurvive
<1> QED BY HousedUntimed, <1>1, PTL DEF AllSpec, HousedNeverDies, D!HousedNeverDies

------------------------------------------------------------------------------
(* The displays and the active one *)

\* The news that macOS has, but for what it is not told of yet: displays are
\* behind only while a scan is to come, and the active one while either is.
InStep ==
    /\ news \subseteq {"displays", "active"}
    /\ front \notin attached => attached = {}
    /\ "displays" \notin news => ents = attached /\ active \subseteq ents
    /\ news = {} => active = {front} \cap ents

LEMMA InitInStep == D!Init => InStep
  BY DEF D!Init, InStep

\* reconcile_displays makes the displays those of macOS, and asks for the
\* active one to be looked up again.
LEMMA ReconcileInStep == InStep /\ D!Reconcile => InStep'
  BY DEF D!Reconcile, D!Announced, D!macos, InStep

\* display_change_handler: the active display is that of macOS if it has an
\* entity, which it lacks only while a scan is to come.
LEMMA ChangeInStep == InStep /\ D!DisplayChange => InStep'
<1> SUFFICES ASSUME InStep, D!DisplayChange PROVE InStep'
  OBVIOUS
<1>1. UNCHANGED <<attached, front, ents>> /\ news' = news \ {"active"}
      /\ active' = IF front \in ents THEN {front} ELSE active
  BY DEF D!DisplayChange, D!macos
<1>2. CASE front \in ents
  BY <1>1, <1>2 DEF InStep
<1>3. CASE front \notin ents
  BY <1>1, <1>3 DEF InStep
<1> QED BY <1>2, <1>3

\* What macOS does it tells.
LEMMA ChangesInStep == InStep /\ (D!OSChange \/ D!OSFront) => InStep'
<1> SUFFICES ASSUME InStep, D!OSChange \/ D!OSFront PROVE InStep'
  OBVIOUS
<1>1. CASE D!OSChange
  <2>1. "displays" \in news' /\ news' \subseteq {"displays", "active"}
    BY <1>1 DEF D!OSChange, InStep
  <2>2. front' \notin attached' => attached' = {}
    BY <1>1 DEF D!OSChange
  <2> QED BY <2>1, <2>2 DEF InStep
<1>2. CASE D!OSFront
  <2>1. news' = news \cup {"active"} /\ front' \in attached /\ UNCHANGED <<attached, ents, active>>
    BY <1>2 DEF D!OSFront
  <2> QED BY <2>1 DEF InStep
<1> QED BY <1>1, <1>2

LEMMA StepInStep == InStep /\ [D!Next]_display_vars => InStep'
<1> SUFFICES ASSUME InStep, [D!Next]_display_vars PROVE InStep'
  OBVIOUS
<1>1. CASE D!Reconcile
  BY <1>1, ReconcileInStep
<1>2. CASE D!DisplayChange
  BY <1>2, ChangeInStep
<1>3. CASE D!OSChange \/ D!OSFront
  BY <1>3, ChangesInStep
<1>4. CASE D!FindOrphans \/ D!Ticker \/ (\E s \in Spaces : D!OSList(s))
           \/ (\E w \in Windows : D!ToNextDisplay(w)) \/ UNCHANGED display_vars
  <2>1. UNCHANGED <<attached, front, ents, active>> /\ news' \in {news, news \cup {"displays"}}
    BY <1>4 DEF D!FindOrphans, D!Ticker, D!OSList, D!ToNextDisplay, D!macos, display_vars
  <2> QED BY <2>1 DEF InStep
<1> QED BY <1>1, <1>2, <1>3, <1>4 DEF D!Next, D!Work

\* When all is read, the displays are those of macOS and so is the active one,
\* though a display may go, come back or become active between the scan and
\* the handler, and a scan may be repeated (reconcile_displays,
\* display_change_handler).
THEOREM ActiveIsFront == AllSpec => []ActiveAtRest
<1>1. AllInit => InStep
  BY InitInStep DEF AllInit
<1>2. InStep /\ [AllNext]_all_vars => InStep'
  BY StepInStep, DisplaySteps
<1>3. InStep => ActiveAtRest
  BY DEF InStep, ActiveAtRest, D!ActiveAtRest
<1> QED BY <1>1, <1>2, <1>3, PTL DEF AllSpec

================================================================================
