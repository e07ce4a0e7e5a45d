-------------------------------- MODULE Launch --------------------------------
(****************************************************************************)
(* How the window manager takes on processes, their applications and their  *)
(* windows: those that run when it starts (platform/process.rs, systems.rs  *)
(* add_existing_process to finish_setup) and those launched later           *)
(* (application_event_trigger, add_launched_process), with the timeouts     *)
(* that give them up.                                                       *)
(*                                                                          *)
(* A system of Bevy is an action and its commands take effect with it, but  *)
(* for despawning: an entity is doomed until Flush, and other systems still *)
(* see it.  Which of two systems that do not depend on each other runs      *)
(* first is left open.  The events of a frame are read as one batch, as the *)
(* queries a system asks do not change while it reads them.                 *)
(*                                                                          *)
(* Abstractions: a timer runs out at any time after it was set; AX answers  *)
(* for a process or not at all, and from then on; windows are in the layout *)
(* as long as they are known.                                               *)
(****************************************************************************)
EXTENDS Naturals, FiniteSets

CONSTANTS
    Procs,
    Wins,
    Owner,      \* process of a window
    Running,    \* processes that may run already
    Forced,     \* processes the configuration wants managed, whatever their policy
    MaxScans    \* MAX_CONCURRENT_BRUTEFORCE

ASSUME OwnerAssumption == Owner \in [Wins -> Procs]
ASSUME ScansAssumption == MaxScans \in Nat \ {0}

VARIABLES
    os,       \* process -> "absent", "starting", "running" or "ended"
    regular,  \* processes with the regular activation policy
    deaf,     \* processes AX does not answer for
    place,    \* window -> "unborn", "here", "away" (on a space not shown) or "closed"
    phase,    \* "boot", "installing", "setup" (Initializing) or "up"
    listed,   \* the processes GetNextProcess gave
    mail,     \* events since the last frame
    proc,     \* process -> mark and timer of its BProcess entity
    app,      \* process -> mark, timer of its Application, and if it lost its parent
    heard,    \* processes whose Application has its AX observers registered
    watched,  \* process -> key paths observed for it
    tasks,    \* BruteforceWindows, by process: windows sought, stage, windows found
    gate,     \* permits of BruteforceGate that scans of further applications hold
    known,    \* windows with an entity
    doomed    \* despawns not applied yet

os_vars == <<os, regular, deaf, place>>
vars == <<os_vars, phase, listed, mail, proc, app, heard, watched, tasks, gate, known, doomed>>

Of(p) == {w \in Wins : Owner[w] = p}
Here(p) == {w \in Of(p) : place[w] = "here"}
Answers(p) == os[p] \in {"starting", "running"} /\ p \notin deaf

NoEntity == [mark |-> "none", timer |-> "off", orphan |-> FALSE]
Entity(mark, timer) == [mark |-> mark, timer |-> timer, orphan |-> FALSE]
Is(e, p, mark) == e[p].mark = mark
Kept(e) == [e EXCEPT !.mark = "kept"]

Init ==
    /\ os \in [Procs -> {"absent", "running"}]
    /\ \A p \in Procs \ Running : os[p] = "absent"
    /\ regular \in SUBSET Procs /\ deaf \in SUBSET Procs
    /\ place \in [Wins -> {"unborn", "here", "away"}]
    /\ \A w \in Wins : os[Owner[w]] = "absent" => place[w] = "unborn"
    /\ phase = "boot" /\ listed = {} /\ mail = {} /\ known = {} /\ doomed = {} /\ heard = {}
    /\ proc = [p \in Procs |-> NoEntity] /\ app = [p \in Procs |-> NoEntity]
    /\ watched = [p \in Procs |-> {}] /\ tasks = [p \in Procs |-> [stage |-> "none"]]
    /\ gate \in 0..MaxScans

------------------------------------------------------------------------------
(* macOS                                                                    *)

\* The handler of Carbon's process events, once it is installed.
Sent(what, p) == IF phase \in {"boot", "installing"} THEN {} ELSE {<<what, p>>}
\* WorkspaceObserver::observe_value_for_keypath
Noticed(path, p) ==
    /\ watched' = [watched EXCEPT ![p] = @ \ {path}]
    /\ mail' = mail \cup (IF path \in watched[p] THEN {<<"launched", p>>} ELSE {})

OSLaunch(p) ==
    /\ os[p] = "absent" /\ os' = [os EXCEPT ![p] = "starting"]
    /\ mail' = mail \cup Sent("launched", p)
    /\ UNCHANGED <<regular, deaf, place, watched>>
OSLaunched(p) ==
    /\ os[p] = "starting" /\ os' = [os EXCEPT ![p] = "running"]
    /\ Noticed("finishedLaunching", p)
    /\ UNCHANGED <<regular, deaf, place>>
OSRegular(p) ==
    /\ os[p] = "running" /\ p \notin regular /\ regular' = regular \cup {p}
    /\ Noticed("activationPolicy", p)
    /\ UNCHANGED <<os, deaf, place>>
OSAnswer(p) ==
    /\ p \in deaf /\ deaf' = deaf \ {p}
    /\ UNCHANGED <<os, regular, place, mail, watched>>
\* ObserverContext::notify_app, kAXCreatedNotification
OSShow(w) ==
    /\ os[Owner[w]] = "running" /\ place[w] = "unborn"
    /\ place' = [place EXCEPT ![w] = "here"]
    /\ mail' = mail \cup (IF Owner[w] \in heard THEN {<<"created", w>>} ELSE {})
    /\ UNCHANGED <<os, regular, deaf, watched>>
OSClose(w) ==
    /\ place[w] \in {"here", "away"} /\ place' = [place EXCEPT ![w] = "closed"]
    /\ UNCHANGED <<os, regular, deaf, mail, watched>>
OSEnd(p) ==
    /\ os[p] = "running" /\ os' = [os EXCEPT ![p] = "ended"]
    /\ place' = [w \in Wins |-> IF Owner[w] = p THEN "closed" ELSE place[w]]
    /\ mail' = mail \cup Sent("ended", p)
    /\ UNCHANGED <<regular, deaf, watched>>

OSStep ==
    /\ \/ \E p \in Procs : OSLaunch(p) \/ OSLaunched(p) \/ OSRegular(p) \/ OSAnswer(p) \/ OSEnd(p)
       \/ \E w \in Wins : OSShow(w) \/ OSClose(w)
    /\ UNCHANGED <<phase, listed, proc, app, heard, tasks, known, doomed, gate>>

------------------------------------------------------------------------------
(* Starting                                                                 *)

\* ProcessHandler::start: the processes there are, and then the handler.
Enumerate ==
    /\ phase = "boot" /\ phase' = "installing"
    /\ listed' = {p \in Procs : os[p] \in {"starting", "running"}}
    /\ UNCHANGED <<os_vars, mail, proc, app, heard, watched, tasks, known, doomed, gate>>

\* Process::is_observable, and force_manage by a rule of the configuration
Manageable(p) == p \in regular \cup Forced

\* gather_initial_processes
Gather ==
    /\ phase = "installing" /\ phase' = "setup"
    /\ proc' = [p \in Procs |->
            IF p \in listed /\ os[p] # "ended" /\ Manageable(p)
            THEN Entity("existing", "off") ELSE NoEntity]
    /\ UNCHANGED <<os_vars, listed, mail, app, heard, watched, tasks, known, doomed, gate>>

\* spawn_window_trigger
Spawned(ws) == known \cup {w \in ws : place[w] \in {"here", "away"} /\ app[Owner[w]].mark # "none"}

\* What becomes of an Application spawned under process entity p: when the
\* entity is on its way out, the new child goes with it or loses its parent.
Attached(p, e) ==
    IF <<"proc", p>> \in doomed THEN {NoEntity, [e EXCEPT !.orphan = TRUE]} ELSE {e}

\* add_existing_process: those in front of the first that fails.
AddExisting ==
    LET all == {p \in Procs : Is(proc, p, "existing")}
        good == {p \in all : Answers(p)}
    IN  /\ phase = "setup"
        /\ \E done \in (SUBSET good) \ {{}} :
            /\ all \subseteq good => done = all
            /\ \E new \in [done -> {NoEntity, Entity("existing", "off"),
                                    [Entity("existing", "off") EXCEPT !.orphan = TRUE]}] :
                 /\ \A p \in done : new[p] \in Attached(p, Entity("existing", "off"))
                 /\ app' = [p \in Procs |-> IF p \in done THEN new[p] ELSE app[p]]
            /\ proc' = [p \in Procs |-> IF p \in done THEN Kept(proc[p]) ELSE proc[p]]
    /\ UNCHANGED <<os_vars, phase, listed, mail, heard, watched, tasks, known, doomed, gate>>

\* AxObserverHandler::add_observer: all or none of the notifications.
Observed(p) == heard \cup {p}

\* The windows SkyLight lists and AX does not: those on spaces not shown.
Away(p) == {w \in Of(p) : place[w] = "away"}

\* add_existing_application, find_existing_application_windows
AddExistingApp(p) ==
    /\ phase = "setup" /\ Is(app, p, "existing")
    /\ app' = [app EXCEPT ![p] = Kept(@)]
    /\ IF Answers(p)
       THEN /\ heard' = Observed(p)
            /\ known' = Spawned(Here(p))
            /\ tasks' = IF Away(p) = {} THEN tasks
                        ELSE [tasks EXCEPT ![p] = [stage |-> "waiting", sought |-> Away(p)]]
       ELSE UNCHANGED <<heard, known, tasks>>
    /\ UNCHANGED <<os_vars, phase, listed, mail, proc, watched, doomed, gate>>

\* bruteforce_windows, behind the gate; it gives up after a while.
Scanning == {p \in Procs : tasks[p].stage = "scanning"}
Scan(p) ==
    /\ tasks[p].stage = "waiting" /\ gate + Cardinality(Scanning) < MaxScans
    /\ tasks' = [tasks EXCEPT ![p].stage = "scanning"]
    /\ UNCHANGED <<os_vars, phase, listed, mail, proc, app, heard, watched, known, doomed, gate>>
Freed ==
    /\ gate > 0 /\ gate' = gate - 1
    /\ UNCHANGED <<os_vars, phase, listed, mail, proc, app, heard, watched, tasks, known, doomed>>
Mutant_Found(p, ws) == [stage |-> "scanning", sought |-> ws]
Found(p, ws) == [stage |-> "done", sought |-> ws]
ScanEnds(p) ==
    /\ tasks[p].stage = "scanning"
    /\ \E ws \in SUBSET tasks[p].sought :
          /\ \A w \in ws : place[w] = "away" /\ p \notin deaf
          /\ tasks' = [tasks EXCEPT ![p] = Found(p, ws)]
    /\ UNCHANGED <<os_vars, phase, listed, mail, proc, app, heard, watched, known, doomed, gate>>

\* finish_setup: nothing while a process or an application is to be added;
\* then it collects the scans that ended, and waits for the others.
FinishSetup ==
    /\ phase = "setup"
    /\ \A p \in Procs : ~Is(proc, p, "existing") /\ ~Is(app, p, "existing")
    /\ LET done == {p \in Procs : tasks[p].stage = "done"}
       IN  IF \E p \in Procs : tasks[p].stage # "none"
           THEN /\ known' = Spawned(UNION {tasks[p].sought : p \in done})
                /\ tasks' = [p \in Procs |-> IF p \in done THEN [stage |-> "none"] ELSE tasks[p]]
                /\ done # {} /\ UNCHANGED phase
           ELSE phase' = "up" /\ UNCHANGED <<known, tasks>>
    /\ UNCHANGED <<os_vars, listed, mail, proc, app, heard, watched, doomed, gate>>

------------------------------------------------------------------------------
(* While it runs                                                            *)

Mutant_NewProcess == Entity("fresh", "off")
NewProcess == Entity("fresh", "on")

\* window_creation_event: a window that is gone by now is left out.
Created == {w \in Wins : <<"created", w>> \in mail /\ place[w] = "here"}

\* pump_events; then window_creation_event and application_event_trigger.
Pump ==
    /\ phase \in {"setup", "up"} /\ mail # {} /\ mail' = {}
    /\ known' = Spawned(Created)
    /\ proc' = [p \in Procs |->
          IF <<"launched", p>> \in mail /\ Is(proc, p, "none") THEN NewProcess ELSE proc[p]]
    /\ doomed' = doomed \cup
          {<<"proc", p>> : p \in {q \in Procs : <<"ended", q>> \in mail /\ ~Is(proc, q, "none")}}
    /\ UNCHANGED <<os_vars, phase, listed, app, heard, watched, tasks, gate>>

\* Process::ready
Ready(p) == os[p] = "running" /\ Manageable(p)
Watching(p) ==
    IF os[p] # "running" THEN watched[p] \cup {"finishedLaunching"}
    ELSE IF Ready(p) THEN {} ELSE {"activationPolicy"}

\* add_launched_process, for one process; a process whose application cannot
\* be made keeps those behind it waiting.
AddLaunched(p) ==
    /\ phase \in {"setup", "up"} /\ Is(proc, p, "fresh")
    /\ watched' = [watched EXCEPT ![p] = Watching(p)]
    /\ IF Ready(p) /\ ~Is(app, p, "none") /\ ~app[p].orphan
       THEN proc' = [proc EXCEPT ![p] = Kept(@)] /\ UNCHANGED <<app, heard>>
       ELSE /\ UNCHANGED proc
            /\ IF Ready(p) /\ Answers(p) /\ Is(app, p, "none")
               THEN \E e \in Attached(p, Entity("fresh", "on")) :
                       /\ app' = [app EXCEPT ![p] = e]
                       /\ heard' = IF e = NoEntity THEN heard ELSE Observed(p)
               ELSE UNCHANGED <<app, heard>>
    /\ UNCHANGED <<os_vars, phase, listed, mail, tasks, known, doomed, gate>>

\* add_launched_application
Mutant_Polled(p) == IF known \cap Of(p) # {} THEN {} ELSE Here(p) \ known
Polled(p) == Here(p) \ known
AddLaunchedApp(p) ==
    /\ phase \in {"setup", "up"} /\ Is(app, p, "fresh")
    /\ Polled(p) # {} \/ known \cap Of(p) # {}
    /\ app' = [app EXCEPT ![p] = Kept(@)]
    /\ known' = Spawned(Polled(p))
    /\ UNCHANGED <<os_vars, phase, listed, mail, proc, heard, watched, tasks, doomed, gate>>

\* fresh_marker_cleanup
Untimed(e) == IF e.mark = "kept" THEN [e EXCEPT !.timer = "off"] ELSE e
Cleanup ==
    /\ proc' = [p \in Procs |-> Untimed(proc[p])] /\ app' = [p \in Procs |-> Untimed(app[p])]
    /\ UNCHANGED <<os_vars, phase, listed, mail, heard, watched, tasks, known, doomed, gate>>

\* timeout_ticker: a timer that is over dooms its entity; others may run out.
Expired(e) == {p \in Procs : e[p].timer = "over"}
Timing(e) == {p \in Procs : e[p].timer = "on"}
Ticked(e, ps) == [p \in Procs |-> IF p \in ps THEN [e[p] EXCEPT !.timer = "over"] ELSE e[p]]
Ticker ==
    /\ doomed' = doomed \cup {<<"proc", p>> : p \in Expired(proc)}
                        \cup {<<"app", p>> : p \in Expired(app)}
    /\ \E ps \in SUBSET Timing(proc) : proc' = Ticked(proc, ps)
    /\ \E ps \in SUBSET Timing(app) : app' = Ticked(app, ps)
    /\ UNCHANGED <<os_vars, phase, listed, mail, heard, watched, tasks, known, gate>>

\* Process::drop
Unwatched(ps) == [p \in Procs |-> IF p \in ps THEN {} ELSE watched[p]]

\* The despawns: an entity goes with its children, and a process and an
\* application with their observers (Process::drop, AxObserverHandler::drop).
Flush ==
    /\ doomed # {} /\ doomed' = {}
    /\ LET procs == {p \in Procs : <<"proc", p>> \in doomed}
           apps == {p \in Procs : <<"app", p>> \in doomed
                                  \/ (p \in procs /\ ~app[p].orphan)}
       IN  /\ proc' = [p \in Procs |-> IF p \in procs THEN NoEntity ELSE proc[p]]
           /\ app' = [p \in Procs |-> IF p \in apps THEN NoEntity ELSE app[p]]
           /\ known' = {w \in known : Owner[w] \notin apps}
           /\ heard' = heard \ apps
           /\ watched' = Unwatched(procs)
    /\ UNCHANGED <<os_vars, phase, listed, mail, tasks, gate>>

\* cleanup_unordered_windows, and the AX notice that a window is gone.
Sweep ==
    /\ phase = "up" /\ \E w \in known : place[w] = "closed"
    /\ known' = {w \in known : place[w] # "closed"}
    /\ UNCHANGED <<os_vars, phase, listed, mail, proc, app, heard, watched, tasks, doomed, gate>>

Work ==
    \/ OSStep \/ Enumerate \/ Gather \/ AddExisting \/ FinishSetup
    \/ Freed \/ Pump \/ Cleanup \/ Flush \/ Sweep
    \/ \E p \in Procs : \/ AddExistingApp(p) \/ Scan(p) \/ ScanEnds(p)
                        \/ AddLaunched(p) \/ AddLaunchedApp(p)
Next == Work \/ Ticker

Spec == Init /\ [][Next]_vars

\* Every system runs again and again; AX answers for a process in the end.
Systems ==
    /\ WF_vars(Enumerate) /\ WF_vars(Gather) /\ WF_vars(AddExisting) /\ WF_vars(FinishSetup)
    /\ WF_vars(Freed)
    /\ WF_vars(Pump) /\ WF_vars(Cleanup) /\ WF_vars(Ticker) /\ WF_vars(Flush) /\ WF_vars(Sweep)
    /\ \A p \in Procs :
          /\ WF_vars(AddExistingApp(p)) /\ WF_vars(Scan(p)) /\ WF_vars(ScanEnds(p))
          /\ WF_vars(AddLaunched(p)) /\ WF_vars(AddLaunchedApp(p))
          /\ WF_vars(OSAnswer(p) /\ OSStep)

------------------------------------------------------------------------------
(* Correctness                                                              *)

\* The start comes to an end: finish_setup waits for every process,
\* application and scan, and each of them is done with or taken away.
SetupEnds == <>(phase = "up")

\* A window shown by an application that is observed gets its entity, whether
\* it was there before the observers or came after them, as long as it is
\* open and its application is not given up.
Adopted ==
    \A w \in Wins :
        (place[w] = "here" /\ Owner[w] \in heard)
            ~> (w \in known \/ place[w] # "here" \/ Owner[w] \notin heard)

\* A process that ended leaves nothing behind but an application that lost
\* its parent: neither entity nor window, in whatever order its launch, its
\* end and the timers are noticed.
GoneIsGone ==
    \A p \in Procs :
        (os[p] = "ended")
            ~> (proc[p].mark = "none" /\ (app[p].mark = "none" \/ app[p].orphan)
                /\ known \cap Of(p) = {})

\* Contrary to the code: no application that shows a window is given up while
\* its process runs (add_launched_process).
NeverGivenUp ==
    [][\A p \in Procs :
          (app[p].mark # "none" /\ os[p] = "running" /\ proc[p].mark = "kept"
            /\ <<"proc", p>> \notin doomed)
          => app'[p].mark # "none"]_vars

==============================================================================
