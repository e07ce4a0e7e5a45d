------------------------ MODULE VirtualWorkspaces_proofs ------------------------
(****************************************************************************)
(* Theorems about VirtualWorkspaces for any windows, spaces, strips, bounds *)
(* and inputs: the markers and the indices of rows; where no row comes or   *)
(* goes, every tiled window is in exactly one; a space with rows has one at *)
(* index 0, whatever is made, reaped, renumbered or destroyed in between;   *)
(* where an ordinary space has one row, no row outlives its space by more   *)
(* than the frame that hears of it.                                         *)
(****************************************************************************)
EXTENDS VirtualWorkspaces, TLAPS

\* What each call queues is a command.
Plain == {c \in Command : c.op # "spawn"}

\* Every command the handlers queue is a command of the type.
LEMMA CommandTypes ==
    /\ \A t \in Strips : Activate(t) \in Plain
    /\ \A t, a \in Strips : Follow(t, a) \in Plain
    /\ \A t \in Strips, S \in SUBSET Strips, W \in SUBSET Windows : Shown(t, S, W) \in Plain
    /\ \A S \in SUBSET Strips : Despawn(S) \in Plain
    /\ \A w \in Windows : Focus(w) \in Plain /\ Leave(w) \in Plain
    /\ \A r \in Row, mark \in {"active", "selected", "parked"} :
          Spawn(r, mark) \in Command /\ Spawn(r, mark).row = r
  <1>1. \A t \in Strips : Activate(t) \in Plain
    BY DEF Activate, Command, Plain
  <1>2. \A t, a \in Strips : Follow(t, a) \in Plain
    BY DEF Follow, Command, Plain
  <1>3. \A t \in Strips, S \in SUBSET Strips, W \in SUBSET Windows : Shown(t, S, W) \in Plain
    BY DEF Shown, Command, Plain
  <1>4. \A S \in SUBSET Strips : Despawn(S) \in Plain
    BY DEF Despawn, Command, Plain
  <1>5. \A w \in Windows : Focus(w) \in Plain /\ Leave(w) \in Plain
    BY DEF Focus, Leave, Command, Plain
  <1>6. \A r \in Row, mark \in {"active", "selected", "parked"} :
          Spawn(r, mark) \in Command /\ Spawn(r, mark).row = r
    BY DEF Spawn, Command
  <1> QED
    BY <1>1, <1>2, <1>3, <1>4, <1>5, <1>6

\* A new row without a way back to another one is a row.
LEMMA NewRowType ==
    ASSUME NEW t \in Strips, NEW s \in Spaces, NEW i \in Indices, NEW W \in SUBSET Windows
    PROVE  NewRow(t, s, i, W) \in Row /\ NewRow(t, s, i, W).strip = t
  BY DEF NewRow, Row, Homes

\* The strip, windows and so on of a command of each kind.
LEMMA CommandFields ==
    ASSUME NEW c \in Command
    PROVE  /\ c.op \in {"activate", "shown", "despawn", "focus", "leave", "spawn"}
           /\ c.op = "activate" => c.strip \in Strips /\ c.park \subseteq Strips
           /\ c.op = "shown" =>
                 c.strip \in Strips /\ c.park \subseteq Strips /\ c.focus \subseteq Windows
           /\ c.op = "despawn" => c.strips \subseteq Strips
           /\ c.op \in {"focus", "leave"} => c.win \in Windows
           /\ c.op = "spawn" => c.row \in Row
  BY DEF Command

\* What one call of a system may queue: a new strip comes first, and is unused.
Calls == {cmds \in Seq(Command) : \A k \in DOMAIN cmds :
             cmds[k].op = "spawn" => k = 1 /\ cmds[k].row.strip \in Unused}

\* What one call queues is a sequence of commands.
LEMMA CallTypes ==
    /\ <<>> \in Calls
    /\ \A c \in Plain : <<c>> \in Calls /\ <<c>> \in Seq(Plain)
    /\ \A c, d \in Plain : <<c, d>> \in Calls /\ <<c, d>> \in Seq(Plain)
    /\ \A cmds \in Seq(Plain) : cmds \in Calls
    /\ \A c, d \in Seq(Plain) : c \o d \in Seq(Plain)
  BY DEF Calls, Plain

\* A spawn of an unused entity is a call.
LEMMA SpawnCall ==
    \A r \in Row, mark \in {"active", "selected", "parked"} :
        r.strip \in Unused => <<Spawn(r, mark)>> \in Calls
  BY CommandTypes DEF Calls

\* So is such a spawn with other commands behind it.
LEMMA SpawnCalls ==
    ASSUME NEW r \in Row, r.strip \in Unused, NEW cmds \in Seq(Plain),
           NEW mark \in {"active", "selected", "parked"}
    PROVE  <<Spawn(r, mark)>> \o cmds \in Calls
  <1>1. Spawn(r, mark) \in Command /\ Spawn(r, mark).row.strip \in Unused
    BY CommandTypes
  <1>2. \A k \in DOMAIN cmds : cmds[k] \in Command /\ cmds[k].op # "spawn"
    BY DEF Plain
  <1> DEFINE both == <<Spawn(r, mark)>> \o cmds
  <1>3. both \in Seq(Command)
    BY <1>1, <1>2 DEF Plain
  <1>4. \A k \in DOMAIN both : both[k] = IF k = 1 THEN Spawn(r, mark) ELSE cmds[k - 1]
    OBVIOUS
  <1>5. \A k \in DOMAIN both : k # 1 => k - 1 \in DOMAIN cmds
    OBVIOUS
  <1> QED
    BY <1>1, <1>2, <1>3, <1>4, <1>5 DEF Calls

\* A queue that is grown by a call holds commands, and no strip twice.
QueueOk(q) == q \in Seq(Command) /\ FreshIn(q, live)

\* Queueing a call keeps the queue typed and its spawns fresh.
LEMMA QueueType ==
    ASSUME queue \in Seq(Command), SpawnsFresh, NEW cmds \in Calls, Queue(cmds)
    PROVE  QueueOk(queue')
  <1>1. cmds \in Seq(Command) /\ queue' \in Seq(Command)
    BY DEF Calls, Queue
  <1> DEFINE Spawns(q, k) == k \in DOMAIN q /\ q[k].op = "spawn"
  <1>2. \A k : Spawns(queue', k) =>
           \/ Spawns(queue, k) /\ queue'[k] = queue[k]
           \/ k = Len(queue) + 1 /\ Spawns(cmds, 1) /\ queue'[k] = cmds[1]
    BY <1>1 DEF Calls, Queue
  <1>3. Spawns(cmds, 1) => cmds[1].row.strip \notin live
    BY DEF Calls, Unused
  <1>4. \A k : Spawns(cmds, 1) /\ Spawns(queue, k) => cmds[1].row.strip # queue[k].row.strip
    BY DEF Calls, Unused, Spawning, Commands
  <1>5. \A k : Spawns(queue', k) => queue'[k].row.strip \notin live
    BY <1>2, <1>3 DEF SpawnsFresh, FreshIn
  <1>6. \A j, k : (Spawns(queue', j) /\ Spawns(queue', k)
                  /\ queue'[j].row.strip = queue'[k].row.strip) => j = k
    BY <1>2, <1>4 DEF SpawnsFresh, FreshIn
  <1> QED
    BY <1>1, <1>5, <1>6 DEF QueueOk, FreshIn

\* So does leaving the queue and the rows that exist alone.
LEMMA QueueSame ==
    ASSUME queue \in Seq(Command), SpawnsFresh, UNCHANGED queue
    PROVE  QueueOk(queue')
  BY DEF QueueOk, SpawnsFresh

\* The strips and windows the rows' fields are about.
LEMMA TakenToType ==
    ASSUME wins \in [Strips -> SUBSET Windows], NEW t, NEW W \in SUBSET Windows
    PROVE  TakenTo(t, W) \in [Strips -> SUBSET Windows]
  BY DEF TakenTo

\* Showing a row keeps the markers on rows that exist.
LEMMA ShowRowType ==
    ASSUME active \subseteq live, selected \subseteq live, fresh \subseteq WatchActive,
           NEW t, ShowRow(t)
    PROVE  /\ active' \subseteq live /\ selected' \subseteq live
           /\ fresh' \subseteq WatchActive
  BY DEF ShowRow, SelectedWith

\* A schedule follows the one whose commands are applied.
LEMMA FlushedType ==
    ASSUME phase \in {"input", "update", "post"}, NEW kind, Flushed(kind)
    PROVE  phase' \in {"input", "update", "post"} /\ flush' = "no"
  BY DEF Flushed, After

\* Only systems run and only their part of the schedule's state changes.
LEMMA RunType ==
    ASSUME NEW system, NEW schedule, Run(system, schedule)
    PROVE  UNCHANGED <<phase, flush>>
  BY DEF Run

------------------------------------------------------------------------------
(* Type correctness *)

LEMMA InitType == Init => TypeOK
  <1> SUFFICES ASSUME Init PROVE TypeOK
    OBVIOUS
  <1>1. NoRowSpace \in Spaces
    BY StartupAssumption DEF NoRowSpace, Spaces
  <1>2. live \subseteq Strips
    BY StartupAssumption DEF Init
  <1>3. \A t \in live : Startup[t].space \in Spaces /\ Startup[t].index \in Indices
    BY StartupAssumption DEF Init, Spaces
  <1>4. 0 \in Indices
    BY IndexAssumption DEF Indices
  <1>5. space \in [Strips -> Spaces] /\ index \in [Strips -> Indices]
    BY <1>1, <1>3, <1>4 DEF Init
  <1>6. wins \in [Strips -> SUBSET Windows] /\ home \in [Strips -> Homes]
    BY DEF Init, Homes
  <1>7. active \subseteq live /\ selected \subseteq live
    BY DEF Init, RowsAt, Rows
  <1>8. osSpaces \subseteq Spaces /\ osSpace \in Spaces /\ osWin \in [Windows -> Spaces]
    BY <1>2, <1>5 DEF Init
  <1>9. queue \in Seq(Command)
    BY DEF Init
  <1> QED
    BY <1>2, <1>5, <1>6, <1>7, <1>8, <1>9 DEF Init, TypeOK

\* Applying a command.
LEMMA ApplyType == TypeOK /\ Applying /\ Apply => TypeOK' /\ Applying'
  <1> SUFFICES ASSUME TypeOK, Applying, Apply PROVE TypeOK' /\ Applying'
    OBVIOUS
  <1> DEFINE c == Head(queue)
  <1>1. c \in Command /\ queue' \in Seq(Command) /\ queue' = Tail(queue)
    BY DEF Apply, Applying, TypeOK
  <1>2. /\ phase' \in {"input", "update", "post"} /\ flush' \in {"no", "sync", "end"}
        /\ Applying'
    BY FlushedType DEF Apply, Applying, TypeOK
  <1>3. UNCHANGED <<marks, todo, osSpaces, osSpace, osWin, sent, inbox>>
    BY DEF Apply, os
  <1> DEFINE RowTypes == /\ live' \subseteq Strips
                         /\ space' \in [Strips -> Spaces] /\ index' \in [Strips -> Indices]
                         /\ wins' \in [Strips -> SUBSET Windows]
                         /\ home' \in [Strips -> Homes]
                         /\ unnumbered' \subseteq live'
             ViewTypes == /\ active' \subseteq live' /\ selected' \subseteq live'
                          /\ parked' \subseteq live' /\ fresh' \subseteq WatchActive
  <1>4. RowTypes /\ ViewTypes /\ tiled' \subseteq Windows
    <2>1. CASE c.op = "activate" /\ ApplyActivate(c)
      <3>1. UNCHANGED <<live, space, index, wins, home, unnumbered, tiled>>
        BY <2>1 DEF ApplyActivate, rows
      <3>2. ShowRow(c.strip) /\ parked' \subseteq live
        BY <2>1 DEF ApplyActivate, ParkedToo, TypeOK
      <3> QED
        BY <3>1, <3>2, ShowRowType DEF TypeOK
    <2>2. CASE c.op = "focus" /\ ApplyFocus(c.win)
      <3>1. UNCHANGED <<live, space, index, wins, home, unnumbered, tiled, parked>>
        BY <2>2 DEF ApplyFocus, rows
      <3>2. UNCHANGED <<active, selected, fresh>> \/ \E t \in Strips : ShowRow(t)
        BY <2>2 DEF ApplyFocus, ShowHolder, Holders, TypeOK
      <3> QED
        BY <3>1, <3>2, ShowRowType DEF TypeOK
    <2>3. CASE c.op = "shown" /\ ApplyShown(c)
      <3>1. UNCHANGED <<live, space, index, wins, home, unnumbered, tiled>>
        BY <2>3 DEF ApplyShown, rows
      <3>2. parked' \subseteq live
        BY <2>3 DEF ApplyShown, ParkedToo, TypeOK
      <3>3. UNCHANGED <<active, selected, fresh>> \/ \E t \in Strips : ShowRow(t)
        BY <2>3 DEF ApplyShown, ShowHolder, Holders, TypeOK
      <3> QED
        BY <3>1, <3>2, <3>3, ShowRowType DEF TypeOK
    <2>4. CASE c.op = "spawn" /\ ApplySpawn(c.row, c.mark)
      <3>1. c.row \in Row
        BY <1>1, <2>4, CommandFields
      <3>2. RowTypes /\ tiled' = tiled
        BY <2>4, <3>1 DEF ApplySpawn, Row, TypeOK
      <3>3. ViewTypes
        BY <2>4, <3>1 DEF ApplySpawn, SelectedWith, TypeOK
      <3> QED
        BY <3>2, <3>3 DEF TypeOK
    <2>5. CASE c.op = "despawn" /\ ApplyDespawn(c.strips)
      <3>1. NoRowSpace \in Spaces /\ 0 \in Indices
        BY StartupAssumption, IndexAssumption DEF NoRowSpace, Spaces, Indices
      <3>2. RowTypes /\ tiled' = tiled
        BY <2>5, <3>1 DEF ApplyDespawn, Cleared, Homes, TypeOK
      <3>3. ViewTypes
        BY <2>5 DEF ApplyDespawn, TypeOK
      <3> QED
        BY <3>2, <3>3 DEF TypeOK
    <2>6. CASE c.op = "leave" /\ ApplyLeave(c.win)
      BY <2>6 DEF ApplyLeave, view, TypeOK
    <2> QED
      BY <2>1, <2>2, <2>3, <2>4, <2>5, <2>6 DEF Apply
  <1> QED
    BY <1>1, <1>2, <1>3, <1>4 DEF TypeOK

\* A synchronisation point, the end of a schedule and a notification read.
LEMMA FrameType == TypeOK /\ SpawnsFresh /\ (Sync \/ EndPhase \/ Pump) => TypeOK' /\ Applying' /\ SpawnsFresh'
  <1> SUFFICES ASSUME TypeOK, SpawnsFresh, Sync \/ EndPhase \/ Pump PROVE TypeOK' /\ Applying' /\ SpawnsFresh'
    OBVIOUS
  <1>1. CASE Sync
    BY <1>1 DEF Sync, TypeOK, Applying, SpawnsFresh, QueueOk, rows, view, os
  <1>2. CASE EndPhase
    <2>1. /\ phase' \in {"input", "update", "post"} /\ flush' \in {"no", "sync", "end"}
          /\ Applying'
      BY <1>2, FlushedType DEF EndPhase, Idle, TypeOK, Applying, SpawnsFresh, QueueOk
    <2> QED
      BY <1>2, <2>1 DEF EndPhase, TypeOK, SpawnsFresh, rows, view, os
  <1>3. CASE Pump
    BY <1>3 DEF Pump, Idle, TypeOK, Applying, SpawnsFresh, QueueOk, rows, view, sched
  <1> QED
    BY <1>1, <1>2, <1>3

\* The handlers of commands and scripts.
LEMMA InputType ==
    ASSUME TypeOK, SpawnsFresh, SwitchBind \/ MoveBind
                   \/ (\E w \in Windows, i \in Indices, follow \in BOOLEAN : ScriptMove(w, i, follow))
                   \/ (\E w \in Windows : Float(w))
    PROVE  TypeOK' /\ Applying' /\ SpawnsFresh'
  <1>1. CASE SwitchBind
    <2>1. QueueOk(queue')
      <3>1. \A cur \in active, t \in Strips : SwitchTo(cur, t) => QueueOk(queue')
        <4> SUFFICES ASSUME NEW cur \in active, NEW t \in Strips, SwitchTo(cur, t)
                     PROVE  QueueOk(queue')
          OBVIOUS
        <4>1. (IF t = cur THEN <<>> ELSE <<Activate(t)>>) \in Calls
          BY CommandTypes, CallTypes
        <4> QED
          BY <4>1, QueueType DEF SwitchTo, TypeOK
      <3>2. \A s \in Spaces : \A i : SwitchNew(s, i) => QueueOk(queue')
        <4> SUFFICES ASSUME NEW s \in Spaces, NEW i, SwitchNew(s, i)
                     PROVE  QueueOk(queue')
          OBVIOUS
        <4>1. PICK n \in Unused : Queue(<<Spawn(NewRow(n, s, i, {}), "active")>>)
          BY DEF SwitchNew
        <4>2. NewRow(n, s, i, {}) \in Row /\ NewRow(n, s, i, {}).strip \in Unused
          BY NewRowType DEF SwitchNew, Unused
        <4>3. <<Spawn(NewRow(n, s, i, {}), "active")>> \in Calls
          BY <4>2, SpawnCall
        <4> QED
          BY <4>1, <4>3, QueueType DEF TypeOK
      <3>3. PICK cur \in active :
              \/ \E t \in Strips : SwitchTo(cur, t)
              \/ \E i : SwitchNew(space[cur], i)
        BY <1>1 DEF SwitchBind, North, South, Ends, Level, Above, Below, Lowest, Highest,
                    Rows, RowsAt, TypeOK
      <3>4. space[cur] \in Spaces
        BY DEF TypeOK
      <3> QED
        BY <3>1, <3>2, <3>3, <3>4
    <2> QED
      BY <1>1, <2>1, RunType DEF SwitchBind, Run, Idle, TypeOK, Applying, SpawnsFresh, QueueOk, rows, view, os
  <1>2. ASSUME NEW w \in Windows, NEW i \in Indices, NEW follow \in BOOLEAN,
               marks' = Marked(w, i, follow)
        PROVE  marks' \subseteq Mark
    BY <1>2 DEF Marked, Mark, TypeOK
  <1>3. CASE MoveBind
    <2>1. Focusable \subseteq Windows
      BY DEF Focusable, TypeOK
    <2>2. marks' \subseteq Mark
      BY <1>2, <1>3, <2>1 DEF MoveBind
    <2>3. todo = {}
      BY <1>3 DEF MoveBind, Run, Idle
    <2> QED
      BY <1>3, <2>2, <2>3 DEF MoveBind, Run, Idle, TypeOK, Applying, SpawnsFresh, QueueOk, rows, view, os
  <1>4. CASE \E w \in Windows, i \in Indices, follow \in BOOLEAN : ScriptMove(w, i, follow)
    <2>1. marks' \subseteq Mark /\ todo = {}
      BY <1>2, <1>4 DEF ScriptMove, Run, Idle
    <2> QED
      BY <1>4, <2>1 DEF ScriptMove, Run, Idle, TypeOK, Applying, SpawnsFresh, QueueOk, rows, view, os
  <1>5. CASE \E w \in Windows : Float(w)
    <2>1. PICK w \in Windows : Float(w)
      BY <1>5
    <2>2. <<Leave(w)>> \in Calls
      BY CommandTypes, CallTypes
    <2>3. QueueOk(queue')
      BY <2>1, <2>2, QueueType DEF Float, TypeOK
    <2> QED
      BY <2>1, <2>3 DEF Float, Run, Idle, TypeOK, Applying, SpawnsFresh, QueueOk, rows, view, os
  <1> QED
    BY <1>1, <1>3, <1>4, <1>5

\* The systems of Update that the rows themselves set off.
LEMMA RowSystemType ==
    ASSUME TypeOK, SpawnsFresh, Renumber \/ Reap \/ Show \/ Detect
    PROVE  TypeOK' /\ Applying' /\ SpawnsFresh'
  <1>1. CASE Renumber
    <2>1. index' \in [Strips -> Indices]
      BY <1>1 DEF Renumber, TypeOK
    <2> QED
      BY <1>1, <2>1 DEF Renumber, Run, Idle, TypeOK, Applying, SpawnsFresh, QueueOk, view, os
  <1>2. CASE Reap
    <2>1. PICK a \in active :
            Queue(IF Reapable(a) = {} THEN <<>> ELSE <<Despawn(Reapable(a))>>)
      BY <1>2 DEF Reap
    <2>2. Reapable(a) \in SUBSET Strips
      BY DEF Reapable, Rows, TypeOK
    <2>3. (IF Reapable(a) = {} THEN <<>> ELSE <<Despawn(Reapable(a))>>) \in Calls
      BY <2>2, CommandTypes, CallTypes
    <2>4. QueueOk(queue')
      BY <2>1, <2>3, QueueType DEF TypeOK
    <2> QED
      BY <1>2, <2>4 DEF Reap, Run, Idle, TypeOK, Applying, SpawnsFresh, QueueOk, rows, os
  <1>3. CASE Show
    <2>1. PICK a \in active, W \in SUBSET Windows : Queue(<<Shown(a, Rows(space[a]) \ {a}, W)>>)
      BY <1>3 DEF Show, TypeOK
    <2>2. a \in Strips /\ Rows(space[a]) \ {a} \in SUBSET Strips
      BY DEF Rows, TypeOK
    <2>3. <<Shown(a, Rows(space[a]) \ {a}, W)>> \in Calls
      BY <2>2, CommandTypes, CallTypes
    <2>4. QueueOk(queue')
      BY <2>1, <2>3, QueueType DEF TypeOK
    <2> QED
      BY <1>3, <2>4 DEF Show, Run, Idle, TypeOK, Applying, SpawnsFresh, QueueOk, rows, os
  <1>4. CASE Detect
    <2>1. PICK a \in active, W \in SUBSET Windows : wins' = TakenTo(a, W)
      BY <1>4 DEF Detect, TypeOK
    <2>2. wins' \in [Strips -> SUBSET Windows]
      BY <2>1, TakenToType DEF TypeOK
    <2> QED
      BY <1>4, <2>2 DEF Detect, Run, Idle, TypeOK, Applying, SpawnsFresh, QueueOk, os
  <1> QED
    BY <1>1, <1>2, <1>3, <1>4

\* handle_virtual_window_moves.
LEMMA MovesType ==
    ASSUME TypeOK, SpawnsFresh, StartMoves \/ \E m \in todo : MoveOne(m)
    PROVE  TypeOK' /\ Applying' /\ SpawnsFresh'
  <1>1. CASE StartMoves
    BY <1>1 DEF StartMoves, Run, Idle, TypeOK, Applying, SpawnsFresh, QueueOk, rows, view, os
  <1>2. CASE \E m \in todo : MoveOne(m)
    <2>1. PICK m \in todo : MoveOne(m)
      BY <1>2
    <2>2. m \in Mark /\ m.win \in Windows /\ m.index \in Indices
      BY DEF Mark, TypeOK
    <2>3. PICK a \in active, near \in SUBSET Windows :
            LET s == space[a]
                w == m.win
                stay == ~m.follow /\ near # {}
                shown(t) == IF stay THEN {<<Focus(v)>> : v \in near}
                            ELSE {<<Follow(t, a), Focus(w)>>}
            IN  \/ \E t \in RowsAt(s, m.index) :
                      /\ wins' = TakenTo(t, {w})
                      /\ \E cmds \in shown(t) : Queue(cmds)
                \/ /\ RowsAt(s, m.index) = {}
                   /\ \E n \in Unused : \E cmds \in shown(n) :
                      /\ wins' = [TakenTo(n, {w}) EXCEPT ![n] = {}]
                      /\ Queue(<<Spawn(NewRow(n, s, m.index, {w}),
                                       IF stay THEN "parked" ELSE "selected")>> \o cmds)
      BY <2>1 DEF MoveOne, TypeOK
    <2> DEFINE stay == ~m.follow /\ near # {}
               shown(x) == IF stay THEN {<<Focus(v)>> : v \in near}
                           ELSE {<<Follow(x, a), Focus(m.win)>>}
    <2>4. a \in Strips /\ space[a] \in Spaces
      BY DEF TypeOK
    <2>5. \A t \in Strips : shown(t) \subseteq Seq(Plain)
      BY <2>2, <2>4, CommandTypes, CallTypes
    <2>6. wins' \in [Strips -> SUBSET Windows] /\ QueueOk(queue')
      <3>1. CASE \E t \in RowsAt(space[a], m.index) :
                    wins' = TakenTo(t, {m.win}) /\ \E cmds \in shown(t) : Queue(cmds)
        <4>3. PICK t \in Strips :
                 wins' = TakenTo(t, {m.win}) /\ \E cmds \in shown(t) : Queue(cmds)
          BY <3>1 DEF RowsAt, Rows, TypeOK
        <4>1. PICK cmds \in shown(t) : Queue(cmds)
          BY <4>3
        <4>2. cmds \in Calls /\ {m.win} \in SUBSET Windows
          BY <2>2, <2>5, CallTypes
        <4> QED
          BY <4>1, <4>2, <4>3, QueueType, TakenToType DEF TypeOK
      <3>2. CASE \E n \in Unused : \E cmds \in shown(n) :
                    /\ wins' = [TakenTo(n, {m.win}) EXCEPT ![n] = {}]
                    /\ Queue(<<Spawn(NewRow(n, space[a], m.index, {m.win}),
                                     IF stay THEN "parked" ELSE "selected")>> \o cmds)
        <4> DEFINE new(n) == Spawn(NewRow(n, space[a], m.index, {m.win}),
                                   IF stay THEN "parked" ELSE "selected")
        <4>1. PICK n \in Unused : \E cmds \in shown(n) :
                 wins' = [TakenTo(n, {m.win}) EXCEPT ![n] = {}] /\ Queue(<<new(n)>> \o cmds)
          BY <3>2
        <4>2. PICK cmds \in shown(n) :
                 wins' = [TakenTo(n, {m.win}) EXCEPT ![n] = {}] /\ Queue(<<new(n)>> \o cmds)
          BY <4>1
        <4>3. cmds \in Seq(Plain) /\ {m.win} \in SUBSET Windows
          BY <2>2, <2>5 DEF Unused
        <4>4. <<new(n)>> \o cmds \in Calls
          <5>1. NewRow(n, space[a], m.index, {m.win}) \in Row
            BY <2>2, <2>4, <4>3, NewRowType DEF Unused
          <5>2. NewRow(n, space[a], m.index, {m.win}).strip \in Unused
            BY DEF NewRow
          <5> QED
            BY <4>3, <5>1, <5>2, SpawnCalls
        <4>5. QueueOk(queue')
          BY <4>2, <4>4, QueueType DEF TypeOK
        <4>6. TakenTo(n, {m.win}) \in [Strips -> SUBSET Windows]
          BY <4>3, TakenToType DEF TypeOK
        <4> QED
          BY <4>2, <4>5, <4>6
      <3> QED
        BY <2>3, <3>1, <3>2
    <2>7. todo' \subseteq marks' /\ marks' \subseteq Mark
      BY <2>1 DEF MoveOne, TypeOK
    <2> QED
      BY <2>1, <2>6, <2>7 DEF MoveOne, TypeOK, Applying, SpawnsFresh, QueueOk, view, os
  <1> QED
    BY <1>1, <1>2

\* workspace_change_handler.
LEMMA ChangeType == TypeOK /\ SpawnsFresh /\ Change => TypeOK' /\ Applying' /\ SpawnsFresh'
  <1> SUFFICES ASSUME TypeOK, SpawnsFresh, Change PROVE TypeOK' /\ Applying' /\ SpawnsFresh'
    OBVIOUS
  <1>1. wins' \in [Strips -> SUBSET Windows] /\ QueueOk(queue')
    <2>1. CASE wins' = wins /\ queue' = queue
      BY <2>1, QueueSame DEF TypeOK
    <2>2. CASE wins' = wins /\ \E t \in Strips : Queue(<<Activate(t)>>)
      <3>1. PICK t \in Strips : Queue(<<Activate(t)>>)
        BY <2>2
      <3>2. <<Activate(t)>> \in Calls
        BY CommandTypes, CallTypes
      <3> QED
        BY <2>2, <3>1, <3>2, QueueType DEF TypeOK
    <2>3. CASE \E a \in active : \E w \in FullscreenCandidates(a), n \in Unused :
                  /\ wins' = [wins EXCEPT ![a] = @ \ {w}]
                  /\ Queue(<<Spawn([NewRow(n, osSpace, 0, {w}) EXCEPT
                                       !.home = {[strip |-> a, space |-> space[a]]}], "active")>>)
      <3>1. PICK a \in active : \E w \in FullscreenCandidates(a), n \in Unused :
                  /\ wins' = [wins EXCEPT ![a] = @ \ {w}]
                  /\ Queue(<<Spawn([NewRow(n, osSpace, 0, {w}) EXCEPT
                                       !.home = {[strip |-> a, space |-> space[a]]}], "active")>>)
        BY <2>3
      <3>2. a \in Strips /\ FullscreenCandidates(a) \subseteq Windows /\ space[a] \in Spaces
        BY DEF FullscreenCandidates, TypeOK
      <3>3. PICK w \in Windows, n \in Unused :
                  /\ wins' = [wins EXCEPT ![a] = @ \ {w}]
                  /\ Queue(<<Spawn([NewRow(n, osSpace, 0, {w}) EXCEPT
                                       !.home = {[strip |-> a, space |-> space[a]]}], "active")>>)
        BY <3>1, <3>2
      <3>4. [NewRow(n, osSpace, 0, {w}) EXCEPT !.home = {[strip |-> a, space |-> space[a]]}] \in {r \in Row : r.strip = n}
        <4>1. {[strip |-> a, space |-> space[a]]} \in Homes
          BY <3>2 DEF Homes
        <4>2. 0 \in Indices /\ osSpace \in Spaces /\ {w} \in SUBSET Windows
          BY IndexAssumption DEF Indices, TypeOK
        <4> QED
          BY <4>1, <4>2 DEF NewRow, Row, Unused
      <3>5. <<Spawn([NewRow(n, osSpace, 0, {w}) EXCEPT
                       !.home = {[strip |-> a, space |-> space[a]]}], "active")>> \in Calls
        BY <3>4, SpawnCall
      <3>6. QueueOk(queue')
        BY <3>3, <3>5, QueueType DEF TypeOK
      <3> QED
        BY <3>2, <3>3, <3>6 DEF TypeOK
    <2> QED
      BY <2>1, <2>2, <2>3 DEF Change, Rows, Lowest, rows, TypeOK
  <1> QED
    BY <1>1 DEF Change, Run, Idle, TypeOK, Applying, SpawnsFresh, QueueOk, rows, view, os

\* The handlers of a space's creation and destruction.
LEMMA SpaceHandlerType ==
    ASSUME TypeOK, SpawnsFresh, NEW s \in Spaces, CreatedSpace(s) \/ DestroyedSpace(s)
    PROVE  TypeOK' /\ Applying' /\ SpawnsFresh'
  <1>1. CASE CreatedSpace(s)
    <2>1. QueueOk(queue')
      <3>1. CASE \E n \in Unused : Queue(<<Spawn(NewRow(n, s, 0, {}), "selected")>>)
        <4>1. PICK n \in Unused : Queue(<<Spawn(NewRow(n, s, 0, {}), "selected")>>)
          BY <3>1
        <4>2. NewRow(n, s, 0, {}) \in Row /\ NewRow(n, s, 0, {}).strip \in Unused
          BY NewRowType, IndexAssumption DEF Indices, Unused
        <4>3. <<Spawn(NewRow(n, s, 0, {}), "selected")>> \in Calls
          BY <4>2, SpawnCall
        <4> QED
          BY <4>1, <4>3, QueueType DEF TypeOK
      <3> QED
        BY <1>1, <3>1, QueueSame DEF CreatedSpace, TypeOK
    <2> QED
      BY <1>1, <2>1 DEF CreatedSpace, Idle, TypeOK, Applying, SpawnsFresh, QueueOk, rows, view, os
  <1>2. CASE DestroyedSpace(s)
    <2>1. wins' \in [Strips -> SUBSET Windows] /\ QueueOk(queue')
      <3>1. CASE Rows(s) = {}
        BY <1>2, <3>1, QueueSame DEF DestroyedSpace, TypeOK
      <3>2. CASE Rows(s) # {}
        <4>1. PICK t \in Rows(s) :
                LET goal(h) == IF h.strip \in live THEN {h.strip} ELSE Rows(h.space)
                    back    == UNION {goal(h) : h \in home[t]}
                IN  /\ Despawning(t)
                    /\ IF back = {} \/ wins[t] = {} THEN UNCHANGED wins
                       ELSE \E d \in back, w \in wins[t] :
                              wins' = [wins EXCEPT ![d] = @ \cup {w}]
          BY <1>2, <3>2 DEF DestroyedSpace
        <4>2. t \in Strips /\ wins[t] \subseteq Windows
          BY DEF Rows, TypeOK
        <4>3. wins' \in [Strips -> SUBSET Windows]
          <5>1. CASE UNCHANGED wins
            BY <5>1 DEF TypeOK
          <5>2. CASE \E d, w : w \in wins[t] /\ wins' = [wins EXCEPT ![d] = @ \cup {w}]
            <6>1. PICK d, w : w \in wins[t] /\ wins' = [wins EXCEPT ![d] = @ \cup {w}]
              BY <5>2
            <6>2. w \in Windows
              BY <4>2, <6>1
            <6>3. \A u \in Strips : wins[u] \cup {w} \subseteq Windows
              BY <6>2 DEF TypeOK
            <6> QED
              BY <6>1, <6>3 DEF TypeOK
          <5> QED
            BY <4>1, <5>1, <5>2
        <4>4. <<Despawn({t})>> \in Calls
          BY <4>2, CommandTypes, CallTypes
        <4>5. QueueOk(queue')
          BY <4>1, <4>4, QueueType DEF Despawning, TypeOK
        <4> QED
          BY <4>3, <4>5
      <3> QED
        BY <3>1, <3>2
    <2> QED
      BY <1>2, <2>1 DEF DestroyedSpace, Idle, TypeOK, Applying, SpawnsFresh, QueueOk, view, os
  <1> QED
    BY <1>1, <1>2

\* The handlers of a focus and of a window to be placed.
LEMMA WindowHandlerType ==
    ASSUME TypeOK, SpawnsFresh, NEW w \in Windows, FocusEvent(w) \/ Place(w)
    PROVE  TypeOK' /\ Applying' /\ SpawnsFresh'
  <1>1. CASE FocusEvent(w)
    <2>1. PICK t \in Strips :
            Queue((IF t \in active THEN <<>> ELSE <<Activate(t)>>) \o <<Focus(w)>>)
      BY <1>1 DEF FocusEvent, Holders, TypeOK
    <2>2. (IF t \in active THEN <<>> ELSE <<Activate(t)>>) \in Seq(Plain)
      BY CommandTypes, CallTypes
    <2>3. <<Focus(w)>> \in Seq(Plain)
      BY CommandTypes, CallTypes
    <2>4. (IF t \in active THEN <<>> ELSE <<Activate(t)>>) \o <<Focus(w)>> \in Calls
      BY <2>2, <2>3, CallTypes
    <2>5. QueueOk(queue')
      BY <2>1, <2>4, QueueType DEF TypeOK
    <2> QED
      BY <1>1, <2>5 DEF FocusEvent, Run, Idle, TypeOK, Applying, SpawnsFresh, QueueOk, rows, view, os
  <1>2. CASE Place(w)
    <2>1. wins' \in [Strips -> SUBSET Windows]
      BY <1>2 DEF Place, TakenTo, TypeOK
    <2>2. osWin' \in [Windows -> Spaces]
      BY <1>2 DEF Place, TypeOK
    <2> QED
      BY <1>2, <2>1, <2>2 DEF Place, Idle, TypeOK, Applying, SpawnsFresh, QueueOk, view, sched
  <1> QED
    BY <1>1, <1>2

\* The window server.
LEMMA OSType ==
    ASSUME TypeOK, SpawnsFresh, NEW s \in Spaces,
           \/ OSSwitch(s) \/ OSDestroy(s) \/ OSCreate(s)
           \/ \E w \in Windows : OSDrag(w, s) \/ OSFullscreen(w, s)
    PROVE  TypeOK' /\ Applying' /\ SpawnsFresh'
  <1>1. /\ osSpaces' \subseteq Spaces /\ osSpace' \in Spaces /\ osWin' \in [Windows -> Spaces]
        /\ sent' \subseteq Notices
    <2>1. CASE OSSwitch(s)
      BY <2>1 DEF OSSwitch, Notices, TypeOK
    <2>2. CASE OSDestroy(s)
      BY <2>2 DEF OSDestroy, Notices, TypeOK
    <2>3. CASE OSCreate(s)
      BY <2>3 DEF OSCreate, Notices, TypeOK
    <2>4. CASE \E w \in Windows : OSDrag(w, s)
      BY <2>4 DEF OSDrag, TypeOK
    <2>5. CASE \E w \in Windows : OSFullscreen(w, s)
      BY <2>5 DEF OSFullscreen, Notices, TypeOK
    <2> QED
      BY <2>1, <2>2, <2>3, <2>4, <2>5
  <1>2. OSStep
    BY DEF OSSwitch, OSDestroy, OSCreate, OSDrag, OSFullscreen
  <1> QED
    BY <1>1, <1>2 DEF OSStep, Idle, TypeOK, Applying, SpawnsFresh, QueueOk, rows, view, sched

------------------------------------------------------------------------------
(* The markers and the indices *)

\* Applying a command does not make the strip of a later spawn exist.
LEMMA ApplyFresh == TypeOK /\ Applying /\ SpawnsFresh /\ Apply => SpawnsFresh'
  <1> SUFFICES ASSUME TypeOK, Applying, SpawnsFresh, Apply PROVE SpawnsFresh'
    OBVIOUS
  <1> DEFINE c == Head(queue)
  <1>1. /\ queue \in Seq(Command) /\ queue # <<>> /\ queue' = Tail(queue)
        /\ c = queue[1] /\ 1 \in DOMAIN queue
    BY DEF Apply, Applying, TypeOK
  <1>2. \A k \in DOMAIN queue' : k + 1 \in DOMAIN queue /\ k + 1 # 1 /\ queue'[k] = queue[k + 1]
    BY <1>1
  <1>3. live' \subseteq live \cup {u \in {c.row.strip} : c.op = "spawn"}
    BY DEF Apply, ApplyActivate, ApplyFocus, ApplyShown, ApplySpawn, ApplyDespawn, ApplyLeave, rows
  <1>4. \A k \in DOMAIN queue' : queue'[k].op = "spawn" => queue'[k].row.strip \notin live'
    BY <1>1, <1>2, <1>3 DEF SpawnsFresh, FreshIn
  <1>5. \A j, k \in DOMAIN queue' :
          (queue'[j].op = "spawn" /\ queue'[k].op = "spawn"
             /\ queue'[j].row.strip = queue'[k].row.strip) => j + 1 = k + 1
    BY <1>1, <1>2 DEF SpawnsFresh, FreshIn
  <1>6. \A j, k \in DOMAIN queue' : j + 1 = k + 1 => j = k
    BY <1>1
  <1> QED
    BY <1>4, <1>5, <1>6 DEF SpawnsFresh, FreshIn

\* A strip that is shown becomes the only active one, and the selected one of
\* its space.
LEMMA ShowRowMarkers ==
    ASSUME OneActive, OneSelected, NEW t, ShowRow(t), UNCHANGED space
    PROVE  OneActive' /\ OneSelected'
  BY DEF ShowRow, SelectedWith, OneActive, OneSelected

\* Applying a command leaves one active row, and one selected in each space.
LEMMA ApplyMarkers ==
    TypeOK /\ Applying /\ SpawnsFresh /\ OneActive /\ OneSelected /\ Apply => OneActive' /\ OneSelected'
  <1> SUFFICES ASSUME TypeOK, Applying, SpawnsFresh, OneActive, OneSelected, Apply
               PROVE  OneActive' /\ OneSelected'
    OBVIOUS
  <1> DEFINE c == Head(queue)
  <1>1. ASSUME UNCHANGED <<space, active, selected>> PROVE OneActive' /\ OneSelected'
    BY <1>1 DEF OneActive, OneSelected
  <1>2. CASE ApplyActivate(c)
    BY <1>2, ShowRowMarkers DEF ApplyActivate, rows
  <1>3. CASE ApplyFocus(c.win)
    BY <1>1, <1>3, ShowRowMarkers DEF ApplyFocus, ShowHolder, rows
  <1>4. CASE ApplyShown(c)
    BY <1>1, <1>4, ShowRowMarkers DEF ApplyShown, ShowHolder, rows
  <1>5. CASE c.op = "spawn" /\ ApplySpawn(c.row, c.mark)
    <2>1. c.row.strip \notin live
      <3>1. queue \in Seq(Command) /\ queue # <<>> /\ c = queue[1] /\ 1 \in DOMAIN queue
        BY DEF Apply, Applying, TypeOK
      <3> QED
        BY <1>5, <3>1 DEF SpawnsFresh, FreshIn
    <2>2. \A u \in selected : u # c.row.strip /\ space'[u] = space[u]
      BY <1>5, <2>1 DEF ApplySpawn, TypeOK
    <2>3. selected' = {u \in selected : space[u] # c.row.space} \cup {c.row.strip}
      BY <1>5, <2>1 DEF ApplySpawn, SelectedWith, TypeOK
    <2>4. c.row.strip \in Strips
      <3>1. c \in Command
        BY DEF Apply, Applying, TypeOK
      <3> QED
        BY <1>5, <3>1, CommandFields DEF Row
    <2>5. space'[c.row.strip] = c.row.space
      BY <1>5, <2>4 DEF ApplySpawn, TypeOK
    <2>6. OneSelected'
      BY <2>2, <2>3, <2>5 DEF OneSelected
    <2> QED
      BY <1>5, <2>6 DEF ApplySpawn, OneActive
  <1>6. CASE ApplyDespawn(c.strips)
    BY <1>6 DEF ApplyDespawn, Cleared, OneActive, OneSelected, TypeOK
  <1>7. CASE ApplyLeave(c.win)
    BY <1>1, <1>7 DEF ApplyLeave, view
  <1> QED
    BY <1>2, <1>3, <1>4, <1>5, <1>6, <1>7 DEF Apply

\* A spawned row is one renumber_virtual_indexes has not seen.
LEMMA ApplyIndices == TypeOK /\ NoSilentDuplicate /\ Apply => NoSilentDuplicate'
  <1> SUFFICES ASSUME TypeOK, NoSilentDuplicate, Apply PROVE NoSilentDuplicate'
    OBVIOUS
  <1> DEFINE c == Head(queue)
  <1>1. CASE UNCHANGED <<live, space, index, unnumbered>>
    BY <1>1 DEF NoSilentDuplicate
  <1>2. CASE ApplySpawn(c.row, c.mark)
    BY <1>2 DEF ApplySpawn, NoSilentDuplicate, TypeOK
  <1>3. CASE ApplyDespawn(c.strips)
    BY <1>3 DEF ApplyDespawn, Cleared, NoSilentDuplicate, TypeOK
  <1> QED
    BY <1>1, <1>2, <1>3
       DEF Apply, ApplyActivate, ApplyFocus, ApplyShown, ApplyLeave, rows

\* Renumbering leaves no two rows of a space with one index.
LEMMA RenumberIndices == TypeOK /\ NoSilentDuplicate /\ Renumber => NoSilentDuplicate'
  <1> SUFFICES ASSUME TypeOK, NoSilentDuplicate, Renumber,
                      NEW t \in live, NEW u \in live, t # u, space[t] = space[u],
                      index'[t] = index'[u]
               PROVE  FALSE
    BY DEF NoSilentDuplicate, Renumber, Run
  <1>1. PICK f \in [live -> Indices] :
          /\ Renumbered(f)
          /\ \A x \in live : (\A y \in unnumbered : space[y] # space[x]) => f[x] = index[x]
          /\ index' = [x \in Strips |-> IF x \in live THEN f[x] ELSE index[x]]
    BY DEF Renumber
  <1>2. f[t] = f[u]
    BY <1>1 DEF TypeOK
  <1>3. CASE \E y \in unnumbered : space[y] = space[t]
    <2>1. space[t] \in {space[y] : y \in unnumbered}
      BY <1>3
    <2>2. \A x, y \in Rows(space[t]) : f[x] = f[y] => x = y
      BY <1>1, <2>1 DEF Renumbered
    <2> QED
      BY <1>2, <2>2 DEF Rows
  <1>4. CASE \A y \in unnumbered : space[y] # space[t]
    BY <1>1, <1>2, <1>4 DEF NoSilentDuplicate
  <1> QED
    BY <1>3, <1>4

\* The other steps leave the markers alone, and the rows but for the windows in
\* them and, by renumber_virtual_indexes, their indices.
LEMMA OtherSteps ==
    ASSUME [Next]_vars
    PROVE  \/ Apply
           \/ /\ UNCHANGED <<live, space, active, selected>>
              /\ UNCHANGED <<index, unnumbered>> \/ Renumber
  <1> SUFFICES ASSUME ~Apply, ~Renumber
               PROVE  UNCHANGED <<live, space, active, selected, index, unnumbered>>
    BY DEF Renumber, Next, view, Run
  <1>1. CASE UNCHANGED vars
    BY <1>1 DEF vars, rows, view
  <1>2. CASE Frame
    <2>1. CASE Sync \/ EndPhase \/ Pump
      BY <2>1 DEF Sync, EndPhase, Pump, rows, view
    <2>2. CASE Reap \/ Show \/ Detect
      BY <2>2 DEF Reap, Show, Detect, rows
    <2>3. CASE Change
      BY <2>3 DEF Change, rows, view
    <2>4. CASE StartMoves \/ \E m \in todo : MoveOne(m)
      BY <2>4 DEF StartMoves, MoveOne, rows, view
    <2>5. CASE \E s \in Spaces : CreatedSpace(s) \/ DestroyedSpace(s)
      BY <2>5 DEF CreatedSpace, DestroyedSpace, rows, view
    <2> QED
      BY <1>2, <2>1, <2>2, <2>3, <2>4, <2>5 DEF Frame
  <1>3. CASE Outside
    <2>1. CASE SwitchBind \/ MoveBind
      BY <2>1 DEF SwitchBind, MoveBind, rows, view
    <2>2. CASE \E w \in Windows, i \in Indices, follow \in BOOLEAN : ScriptMove(w, i, follow)
      BY <2>2 DEF ScriptMove, rows, view
    <2>3. CASE \E w \in Windows : Float(w) \/ FocusEvent(w) \/ Place(w)
      BY <2>3 DEF Float, FocusEvent, Place, rows, view
    <2>4. CASE \E s \in Spaces : OSSwitch(s) \/ OSDestroy(s) \/ OSCreate(s)
      BY <2>4 DEF OSSwitch, OSDestroy, OSCreate, OSStep, rows, view
    <2>5. CASE \E w \in Windows, s \in Spaces : OSDrag(w, s) \/ OSFullscreen(w, s)
      BY <2>5 DEF OSDrag, OSFullscreen, OSStep, rows, view
    <2> QED
      BY <1>3, <2>1, <2>2, <2>3, <2>4, <2>5 DEF Outside
  <1> QED
    BY <1>1, <1>2, <1>3 DEF Next

\* Every step keeps the types, and the spawns fresh.
LEMMA StepType ==
    ASSUME TypeOK, Applying, SpawnsFresh, [Next]_vars
    PROVE  TypeOK' /\ Applying' /\ SpawnsFresh'
  <1>1. CASE UNCHANGED vars
    BY <1>1 DEF vars, rows, view, sched, os, TypeOK, Applying, SpawnsFresh
  <1>2. CASE Frame
    <2>1. CASE Apply
      BY <2>1, ApplyType, ApplyFresh
    <2>2. CASE Sync \/ EndPhase \/ Pump
      BY <2>2, FrameType
    <2>3. CASE Renumber \/ Reap \/ Show \/ Detect
      BY <2>3, RowSystemType
    <2>4. CASE Change
      BY <2>4, ChangeType
    <2>5. CASE StartMoves \/ \E m \in todo : MoveOne(m)
      BY <2>5, MovesType
    <2>6. CASE \E s \in Spaces : CreatedSpace(s) \/ DestroyedSpace(s)
      BY <2>6, SpaceHandlerType
    <2> QED
      BY <1>2, <2>1, <2>2, <2>3, <2>4, <2>5, <2>6 DEF Frame
  <1>3. CASE Outside
    <2>1. CASE SwitchBind \/ MoveBind
               \/ (\E w \in Windows, i \in Indices, follow \in BOOLEAN : ScriptMove(w, i, follow))
               \/ (\E w \in Windows : Float(w))
      BY <2>1, InputType
    <2>2. CASE \E w \in Windows : FocusEvent(w) \/ Place(w)
      BY <2>2, WindowHandlerType
    <2>3. CASE \E w \in Windows, s \in Spaces :
                  OSDrag(w, s) \/ OSFullscreen(w, s)
      BY <2>3, OSType
    <2>4. CASE \E s \in Spaces : OSSwitch(s) \/ OSDestroy(s) \/ OSCreate(s)
      BY <2>4, OSType
    <2> QED
      BY <1>3, <2>1, <2>2, <2>3, <2>4 DEF Outside
  <1> QED
    BY <1>1, <1>2, <1>3 DEF Next

------------------------------------------------------------------------------
(* The theorems *)

\* IInv holds of the rows that gather_displays and initialise_workspaces make.
LEMMA InitInv == Init => IInv
  <1> SUFFICES ASSUME Init PROVE IInv
    OBVIOUS
  <1>1. TypeOK
    BY InitType
  <1>2. Applying /\ SpawnsFresh /\ NoSilentDuplicate
    BY DEF Init, Applying, SpawnsFresh, FreshIn, NoSilentDuplicate
  <1>3. \A t, u \in live : (space[t] = space[u] /\ index[t] = index[u]) => t = u
    BY <1>1, StartupAssumption DEF Init, TypeOK
  <1>4. OneActive
    <2>1. active = {t \in live : space[t] = osSpace /\ index[t] = 0}
      BY DEF Init, RowsAt, Rows
    <2> QED
      BY <1>3, <2>1 DEF OneActive
  <1>5. OneSelected
    <2>1. \A t \in live : index[t] \in Nat
      BY <1>1, IndexAssumption DEF TypeOK, Indices
    <2>2. \A t, u \in selected : t \in live /\ (space[t] = space[u] => index[u] <= index[t])
      BY DEF Init, Rows
    <2>3. \A t, u \in selected : space[t] = space[u] => index[t] = index[u]
      BY <2>1, <2>2
    <2> QED
      BY <1>3, <2>2, <2>3 DEF OneSelected
  <1> QED
    BY <1>1, <1>2, <1>4, <1>5 DEF IInv

\* Every step keeps IInv.
LEMMA StepInv == IInv /\ [Next]_vars => IInv'
  <1> SUFFICES ASSUME IInv, [Next]_vars PROVE IInv'
    OBVIOUS
  <1> USE DEF IInv
  <1>1. TypeOK' /\ Applying' /\ SpawnsFresh'
    BY StepType
  <1>2. CASE Apply
    BY <1>1, <1>2, ApplyMarkers, ApplyIndices
  <1>3. CASE UNCHANGED <<live, space, active, selected>> /\ (UNCHANGED <<index, unnumbered>> \/ Renumber)
    <2>1. OneActive' /\ OneSelected'
      BY <1>3 DEF OneActive, OneSelected
    <2>2. NoSilentDuplicate'
      BY <1>3, RenumberIndices DEF NoSilentDuplicate
    <2> QED
      BY <1>1, <2>1, <2>2
  <1> QED
    BY <1>2, <1>3, OtherSteps

\* IInv is an invariant of the rows, whatever the constants: see VirtualWorkspaces
\* for why its parts need each other.
THEOREM Invariance == Spec => []IInv
  <1>1. Init => IInv
    BY InitInv
  <1>2. IInv /\ [Next]_vars => IInv'
    BY StepInv
  <1> QED
    BY <1>1, <1>2, PTL DEF Spec

\* Every variable keeps its type, whatever the handlers do in whatever order.
THEOREM TypeCorrect == Spec => []TypeOK
  BY Invariance, PTL DEF IInv

\* There is one row on screen at most, across every pending command (the
\* observer cleanup_active_workspace_marker).
THEOREM ActiveUnique == Spec => []OneActive
  BY Invariance, PTL DEF IInv

\* Each space has one row to come back to at most (the observer
\* cleanup_selected_space_marker); this is what needs SpawnsFresh: a strip that
\* exists stays in its space.
THEOREM SelectedUnique == Spec => []OneSelected
  BY Invariance, PTL DEF IInv

\* Two rows share an index only while one of them is new, so looking at
\* Added<LayoutStrip> is enough (renumber_virtual_indexes).
THEOREM DuplicatesAreNew == Spec => []NoSilentDuplicate
  BY Invariance, PTL DEF IInv

------------------------------------------------------------------------------
(* Rows that stay *)

\* The commands and notifications there are when no row comes or goes.
Harmless == {c \in Command : c.op \notin {"spawn", "despawn"}}
Quiescent == queue \in Seq(Harmless) /\ sent \subseteq {Changed} /\ inbox \subseteq {Changed}
OneHolder == \A w \in Windows : \A t, u \in Holders(w) : t = u
Held == \A w \in tiled : Holders(w) # {}

\* Why WindowsOnce and NoWindowLost hold: some row is on screen to take a
\* window that comes, every row that a move asks for is there, and nothing that
\* is queued takes a row away.
FixedInv == IInv /\ FixedRows /\ Full = {} /\ Quiescent /\ active # {} /\ OneHolder /\ Held

\* A space has the rows an input may ask for, one at index 0 included.
LEMMA RowsThere ==
    ASSUME TypeOK, FixedRows, NEW s \in Spaces
    PROVE  /\ \A i \in Indices : RowsAt(s, i) # {}
           /\ Rows(s) # {}
  <1>1. IndicesOf(s) = Indices /\ 0 \in Indices
    BY IndexAssumption DEF FixedRows, Indices
  <1> QED
    BY <1>1 DEF IndicesOf, RowsAt

\* Only the columns of rows change, and by one of the ways a window can go.
LEMMA WindowsMove ==
    ASSUME TypeOK, OneHolder, Held, UNCHANGED live,
           \/ UNCHANGED <<wins, tiled>>
           \/ \E t \in live, W \in SUBSET Windows :
                 wins' = TakenTo(t, W) /\ tiled' \subseteq tiled \cup W
           \/ \E w \in Windows : /\ wins' = [t \in Strips |-> wins[t] \ {w}]
                                 /\ tiled' = tiled \ {w}
    PROVE  OneHolder' /\ Held'
  <1>1. CASE UNCHANGED <<wins, tiled>>
    BY <1>1 DEF OneHolder, Held, Holders
  <1>2. ASSUME NEW t \in live, NEW W \in SUBSET Windows, wins' = TakenTo(t, W),
               tiled' \subseteq tiled \cup W
        PROVE  OneHolder' /\ Held'
    <2>1. \A w \in W : Holders(w)' = {t}
      BY <1>2 DEF TypeOK, TakenTo, Holders
    <2>2. \A w \in Windows \ W : Holders(w)' = Holders(w)
      BY <1>2 DEF TypeOK, TakenTo, Holders
    <2>3. OneHolder'
      BY <1>2, <2>1, <2>2 DEF OneHolder
    <2>4. Held'
      BY <1>2, <2>1, <2>2 DEF Held, TypeOK
    <2> QED
      BY <2>3, <2>4
  <1>3. ASSUME NEW w \in Windows, wins' = [t \in Strips |-> wins[t] \ {w}], tiled' = tiled \ {w}
        PROVE  OneHolder' /\ Held'
    <2>1. Holders(w)' = {}
      BY <1>3 DEF TypeOK, Holders
    <2>2. \A v \in Windows \ {w} : Holders(v)' = Holders(v)
      BY <1>3 DEF TypeOK, Holders
    <2>3. OneHolder'
      BY <2>1, <2>2 DEF OneHolder
    <2>4. Held'
      BY <1>3, <2>2 DEF Held, TypeOK
    <2> QED
      BY <2>3, <2>4
  <1> QED
    BY <1>1, <1>2, <1>3

\* The commands that show rows, move the focus and take windows out are harmless.
LEMMA HarmlessCalls ==
    /\ <<>> \in Seq(Harmless)
    /\ \A t \in Strips : <<Activate(t)>> \in Seq(Harmless)
    /\ \A t, a \in Strips, w \in Windows : <<Follow(t, a), Focus(w)>> \in Seq(Harmless)
    /\ \A t \in Strips, S \in SUBSET Strips, W \in SUBSET Windows :
          <<Shown(t, S, W)>> \in Seq(Harmless)
    /\ \A w \in Windows : <<Focus(w)>> \in Seq(Harmless) /\ <<Leave(w)>> \in Seq(Harmless)
    /\ \A t \in Strips, w \in Windows : <<Activate(t)>> \o <<Focus(w)>> \in Seq(Harmless)
  BY DEF Harmless, Command, Activate, Follow, Shown, Focus, Leave

\* Applying a harmless command changes no row but by a window that leaves.
LEMMA ApplyFixed ==
    ASSUME FixedInv, Apply
    PROVE  /\ UNCHANGED <<live, space, index>> /\ Quiescent' /\ active' # {}
           /\ OneHolder' /\ Held'
  <1> USE DEF FixedInv, IInv
  <1> DEFINE c == Head(queue)
  <1>1. queue # <<>> /\ c \in Harmless /\ Tail(queue) \in Seq(Harmless)
    BY DEF Apply, Applying, Quiescent
  <1>2. Quiescent'
    BY <1>1 DEF Apply, Quiescent, os
  <1>3. c \in Command /\ c.op \notin {"spawn", "despawn"}
    BY <1>1 DEF Harmless
  <1>4. ASSUME NEW t, ShowRow(t) PROVE active' # {}
    BY <1>4 DEF ShowRow
  <1>5. ASSUME NEW w, ShowHolder(w) PROVE active' # {}
    BY <1>5, <1>4 DEF ShowHolder
  <1>6. CASE c.op = "activate" /\ ApplyActivate(c)
    <2>1. UNCHANGED <<live, space, index, wins, tiled>> /\ active' # {}
      BY <1>6, <1>4 DEF ApplyActivate, rows
    <2> QED
      BY <1>2, <2>1, WindowsMove
  <1>7. CASE c.op = "focus" /\ ApplyFocus(c.win)
    <2>1. UNCHANGED <<live, space, index, wins, tiled>> /\ active' # {}
      BY <1>7, <1>5 DEF ApplyFocus, rows
    <2> QED
      BY <1>2, <2>1, WindowsMove
  <1>8. CASE c.op = "shown" /\ ApplyShown(c)
    <2>1. UNCHANGED <<live, space, index, wins, tiled>> /\ active' # {}
      BY <1>8, <1>5 DEF ApplyShown, rows
    <2> QED
      BY <1>2, <2>1, WindowsMove
  <1>9. CASE c.op = "leave" /\ ApplyLeave(c.win)
    <2>1. c.win \in Windows
      BY <1>3, <1>9, CommandFields
    <2>2. UNCHANGED <<live, space, index, active>>
      BY <1>9 DEF ApplyLeave, view
    <2>3. wins' = [t \in Strips |-> wins[t] \ {c.win}] /\ tiled' = tiled \ {c.win}
      BY <1>9 DEF ApplyLeave
    <2> QED
      BY <1>2, <2>1, <2>2, <2>3, WindowsMove
  <1> QED
    BY <1>3, <1>6, <1>7, <1>8, <1>9 DEF Apply

\* The frame itself moves nothing.
LEMMA FrameFixed ==
    ASSUME FixedInv, Sync \/ EndPhase \/ Pump \/ StartMoves \/ Reap \/ Show \/ Renumber
    PROVE  /\ UNCHANGED <<live, space, active, wins, tiled>> /\ Quiescent'
           /\ UNCHANGED index \/ Renumber
  <1> USE DEF FixedInv, IInv, Quiescent
  <1>1. CASE Sync \/ EndPhase \/ Pump
    BY <1>1 DEF Sync, EndPhase, Pump, rows, view, os, sched, Flushed
  <1>2. CASE StartMoves
    BY <1>2 DEF StartMoves, rows, view, os
  <1>3. CASE Renumber
    BY <1>3 DEF Renumber, view, os
  <1>4. CASE Reap
    <2>1. "reap" \notin fresh
      BY DEF FixedRows, TypeOK, WatchActive
    <2> QED
      BY <1>4, <2>1 DEF Reap
  <1>5. CASE Show
    <2>1. PICK a \in active : \E W \in {{}} \cup {{w} : w \in {w \in wins[a] : a \in parked}} :
             Queue(<<Shown(a, Rows(space[a]) \ {a}, W)>>)
      BY <1>5 DEF Show
    <2>2. PICK W \in SUBSET Windows : Queue(<<Shown(a, Rows(space[a]) \ {a}, W)>>)
      BY <2>1 DEF TypeOK
    <2>3. a \in Strips /\ Rows(space[a]) \ {a} \in SUBSET Strips
      BY DEF TypeOK, Rows
    <2>4. queue' \in Seq(Harmless)
      BY <2>2, <2>3, HarmlessCalls DEF Queue
    <2> QED
      BY <1>5, <2>4 DEF Show, rows, os
  <1> QED
    BY <1>1, <1>2, <1>3, <1>4, <1>5

\* Inputs mark windows and queue commands that show rows that are there.
LEMMA InputFixed ==
    ASSUME FixedInv,
           \/ SwitchBind \/ MoveBind
           \/ \E w \in Windows, i \in Indices, follow \in BOOLEAN : ScriptMove(w, i, follow)
           \/ \E w \in Windows : Float(w) \/ FocusEvent(w)
    PROVE  UNCHANGED <<live, space, index, active, wins, tiled>> /\ Quiescent'
  <1> USE DEF FixedInv, IInv, Quiescent
  <1>1. CASE SwitchBind
    <2>1. PICK cur \in active :
             \/ \E t \in North(cur) \cup South(cur) \cup Ends(cur) : SwitchTo(cur, t)
             \/ Below(cur) = {} /\ SwitchNew(space[cur], index[cur] + 1)
             \/ \E i \in Indices : IF RowsAt(space[cur], i) = {} THEN SwitchNew(space[cur], i)
                                   ELSE \E t \in RowsAt(space[cur], i) : SwitchTo(cur, t)
             \/ \E t \in Highest(Rows(space[cur])) : SwitchNew(space[cur], index[t] + 1)
      BY <1>1 DEF SwitchBind
    <2>2. cur \in Strips /\ space[cur] \in Spaces /\ cur \in Rows(space[cur])
      BY DEF TypeOK, Rows
    <2>3. ASSUME NEW t \in Strips, SwitchTo(cur, t) PROVE queue' \in Seq(Harmless)
      BY <2>3, HarmlessCalls DEF SwitchTo, Queue
    <2>4. \A t \in North(cur) \cup South(cur) \cup Ends(cur) : t \in Strips
      BY DEF North, South, Ends, Level, Highest, Lowest, Above, Below, RowsAt, Rows, TypeOK
    <2>5. \A i : \A t \in RowsAt(space[cur], i) : t \in Strips
      BY DEF RowsAt, Rows, TypeOK
    <2>6. ~SwitchNew(space[cur], index[cur] + 1) \/ Below(cur) # {}
      <3>1. ASSUME index[cur] + 1 \in Indices, Below(cur) = {} PROVE FALSE
        <4>1. PICK t \in Rows(space[cur]) : index[t] = index[cur] + 1
          BY <2>2, <3>1, RowsThere DEF RowsAt
        <4>2. index[cur] \in Nat
          BY <2>2, IndexAssumption DEF TypeOK, Indices
        <4> QED
          BY <3>1, <4>1, <4>2 DEF Below
      <3> QED
        BY <3>1 DEF SwitchNew
    <2>7. \A t \in Highest(Rows(space[cur])) : ~SwitchNew(space[cur], index[t] + 1)
      <3>1. ASSUME NEW t \in Highest(Rows(space[cur])), index[t] + 1 \in Indices PROVE FALSE
        <4>1. PICK u \in Rows(space[cur]) : index[u] = index[t] + 1
          BY <2>2, <3>1, RowsThere DEF RowsAt
        <4>2. index[t] \in Nat /\ index[t] >= index[u]
          BY <3>1, IndexAssumption DEF TypeOK, Indices, Highest, Rows
        <4> QED
          BY <4>1, <4>2
      <3> QED
        BY <3>1 DEF SwitchNew
    <2>8. queue' \in Seq(Harmless)
      BY <2>1, <2>2, <2>3, <2>4, <2>5, <2>6, <2>7, RowsThere
    <2> QED
      BY <1>1, <2>8 DEF SwitchBind, rows, view, os
  <1>2. CASE MoveBind
    BY <1>2 DEF MoveBind, rows, view, os
  <1>3. CASE \E w \in Windows, i \in Indices, follow \in BOOLEAN : ScriptMove(w, i, follow)
    BY <1>3 DEF ScriptMove, rows, view, os
  <1>4. ASSUME NEW w \in Windows, Float(w)
        PROVE  UNCHANGED <<live, space, index, active, wins, tiled>> /\ Quiescent'
    BY <1>4, HarmlessCalls DEF Float, Queue, rows, view, os
  <1>5. ASSUME NEW w \in Windows, FocusEvent(w)
        PROVE  UNCHANGED <<live, space, index, active, wins, tiled>> /\ Quiescent'
    <2>1. PICK t \in Holders(w) :
             Queue((IF t \in active THEN <<>> ELSE <<Activate(t)>>) \o <<Focus(w)>>)
      BY <1>5 DEF FocusEvent
    <2>2. t \in Strips
      BY DEF Holders, TypeOK
    <2>3. queue' \in Seq(Harmless)
      BY <2>1, <2>2, HarmlessCalls DEF Queue
    <2> QED
      BY <1>5, <2>3 DEF FocusEvent, rows, view, os
  <1> QED
    BY <1>1, <1>2, <1>3, <1>4, <1>5

\* A window that moves, or that comes, goes to a row that is there.
LEMMA MovesFixed ==
    ASSUME FixedInv, \/ \E m \in todo : MoveOne(m)
                     \/ Detect
                     \/ \E w \in Windows : Place(w)
    PROVE  /\ UNCHANGED <<live, space, index, active>> /\ Quiescent'
           /\ \E t \in live, W \in SUBSET Windows :
                 wins' = TakenTo(t, W) /\ tiled' \subseteq tiled \cup W
  <1> USE DEF FixedInv, IInv, Quiescent
  <1>1. ASSUME NEW m \in todo, MoveOne(m)
        PROVE  /\ UNCHANGED <<live, space, index, active>> /\ Quiescent'
               /\ \E t \in live, W \in SUBSET Windows :
                     wins' = TakenTo(t, W) /\ tiled' \subseteq tiled \cup W
    <2>1. m \in Mark /\ m.win \in Windows /\ m.index \in Indices
      BY DEF TypeOK, Mark
    <2> DEFINE shown(t, a, near) ==
                 IF ~m.follow /\ near # {} THEN {<<Focus(v)>> : v \in near}
                 ELSE {<<Follow(t, a), Focus(m.win)>>}
    <2>2. PICK a \in active, near \in SUBSET Windows :
             \/ \E t \in RowsAt(space[a], m.index) :
                   /\ wins' = TakenTo(t, {m.win})
                   /\ \E cmds \in shown(t, a, near) : Queue(cmds)
             \/ RowsAt(space[a], m.index) = {}
      <3>1. PICK a \in active :
               \E near \in {{}} \cup {wins[a] \ {w} : w \in {m.win} \cap wins[a]} :
                 \/ \E t \in RowsAt(space[a], m.index) :
                       /\ wins' = TakenTo(t, {m.win})
                       /\ \E cmds \in shown(t, a, near) : Queue(cmds)
                 \/ RowsAt(space[a], m.index) = {}
        BY <1>1 DEF MoveOne
      <3>2. \A near \in {{}} \cup {wins[a] \ {w} : w \in {m.win} \cap wins[a]} :
               near \in SUBSET Windows
        BY DEF TypeOK
      <3> QED
        BY <3>1, <3>2
    <2>3. a \in Strips /\ space[a] \in Spaces
      BY DEF TypeOK
    <2>4. PICK t \in RowsAt(space[a], m.index) :
             wins' = TakenTo(t, {m.win}) /\ \E cmds \in shown(t, a, near) : Queue(cmds)
      BY <2>1, <2>2, <2>3, RowsThere
    <2>5. t \in live /\ t \in Strips
      BY DEF RowsAt, Rows, TypeOK
    <2>6. \A cmds \in shown(t, a, near) : cmds \in Seq(Harmless)
      BY <2>1, <2>3, <2>5, HarmlessCalls
    <2>7. queue' \in Seq(Harmless)
      BY <2>4, <2>6 DEF Queue
    <2>8. {m.win} \in SUBSET Windows /\ tiled' \subseteq tiled \cup {m.win}
      BY <1>1, <2>1 DEF MoveOne
    <2>9. UNCHANGED <<live, space, index, active>> /\ Quiescent'
      BY <1>1, <2>7 DEF MoveOne, view, os
    <2> QED
      BY <2>4, <2>5, <2>8, <2>9
  <1>2. CASE Detect
    <2>1. PICK a \in active : \E W \in SUBSET tiled : wins' = TakenTo(a, W)
      BY <1>2 DEF Detect
    <2>2. a \in live /\ SUBSET tiled \subseteq SUBSET Windows
      BY DEF TypeOK
    <2> QED
      BY <1>2, <2>1, <2>2 DEF Detect, os
  <1>3. ASSUME NEW w \in Windows, Place(w)
        PROVE  /\ UNCHANGED <<live, space, index, active>> /\ Quiescent'
               /\ \E t \in live, W \in SUBSET Windows :
                     wins' = TakenTo(t, W) /\ tiled' \subseteq tiled \cup W
    <2>1. \E t \in live : wins' = TakenTo(t, {w})
      BY <1>3 DEF Place, TypeOK
    <2>2. {w} \in SUBSET Windows /\ tiled' = tiled \cup {w}
      BY <1>3 DEF Place
    <2> QED
      BY <1>3, <2>1, <2>2 DEF Place, view, sched
  <1>4. CASE Detect
    BY <1>2, <1>4
  <1>5. CASE \E m \in todo : MoveOne(m)
    BY <1>1, <1>5
  <1>6. CASE \E w \in Windows : Place(w)
    BY <1>3, <1>6
  <1> QED
    BY <1>4, <1>5, <1>6

\* The handlers of spaces find the rows of the space they hear of.
LEMMA SpacesFixed ==
    ASSUME FixedInv,
           \/ Change
           \/ \E s \in Spaces : CreatedSpace(s) \/ DestroyedSpace(s)
           \/ \E s \in Spaces : OSSwitch(s) \/ OSDestroy(s) \/ OSCreate(s)
           \/ \E w \in Windows, s \in Spaces : OSDrag(w, s) \/ OSFullscreen(w, s)
    PROVE  UNCHANGED <<live, space, index, active, wins, tiled>> /\ Quiescent'
  <1> USE DEF FixedInv, IInv, Quiescent
  <1>1. CASE Change
    <2>1. osSpace \in Spaces /\ Rows(osSpace) # {}
      BY RowsThere DEF TypeOK
    <2>2. UNCHANGED rows /\ (UNCHANGED queue \/ \E t \in Rows(osSpace) : Queue(<<Activate(t)>>))
      <3> DEFINE S == IF Rows(osSpace) \cap selected # {} THEN Rows(osSpace) \cap selected
                      ELSE Lowest(Rows(osSpace))
      <3>1. S \subseteq Rows(osSpace)
        BY DEF Lowest
      <3>2. UNCHANGED rows /\ (UNCHANGED queue \/ \E t \in S : Queue(<<Activate(t)>>))
        BY <1>1, <2>1 DEF Change, rows
      <3> HIDE DEF S
      <3> QED
        BY <3>1, <3>2
    <2>3. \A t \in Rows(osSpace) : <<Activate(t)>> \in Seq(Harmless)
      BY HarmlessCalls DEF Rows, TypeOK
    <2>4. queue' \in Seq(Harmless)
      <3>1. ASSUME NEW t \in Rows(osSpace), Queue(<<Activate(t)>>) PROVE queue' \in Seq(Harmless)
        <4> DEFINE cmds == <<Activate(t)>>
        <4>1. cmds \in Seq(Harmless) /\ queue' = queue \o cmds
          BY <2>3, <3>1 DEF Queue
        <4> HIDE DEF cmds
        <4> QED
          BY <4>1
      <3>2. CASE UNCHANGED queue
        BY <3>2
      <3> QED
        BY <2>2, <3>1, <3>2
    <2> QED
      BY <1>1, <2>2, <2>4 DEF Change, rows, view, os
  <1>2. \A s \in Spaces : ~CreatedSpace(s) /\ ~DestroyedSpace(s)
    BY DEF CreatedSpace, DestroyedSpace, Created, Destroyed, Changed
  <1>3. ASSUME NEW s \in Spaces, OSSwitch(s)
        PROVE  UNCHANGED <<live, space, index, active, wins, tiled>> /\ Quiescent'
    BY <1>3 DEF OSSwitch, OSStep, rows, view, sched
  <1>4. \A s \in Spaces : ~OSDestroy(s) /\ ~OSCreate(s)
    BY DEF OSDestroy, OSCreate, FixedRows, Spaces
  <1>5. ASSUME NEW w \in Windows, NEW s \in Spaces, OSDrag(w, s)
        PROVE  UNCHANGED <<live, space, index, active, wins, tiled>> /\ Quiescent'
    BY <1>5 DEF OSDrag, OSStep, rows, view, sched
  <1>6. \A w \in Windows, s \in Spaces : ~OSFullscreen(w, s)
    BY DEF OSFullscreen
  <1> QED
    BY <1>1, <1>2, <1>3, <1>4, <1>5, <1>6

\* Renumbering leaves a space all of its indices.
LEMMA RenumberFixed ==
    ASSUME TypeOK, FixedRows, UNCHANGED <<live, space>>, Renumber
    PROVE  FixedRows'
  <1>1. PICK f \in [live -> Indices] :
           /\ Renumbered(f)
           /\ \A t \in live : (\A u \in unnumbered : space[u] # space[t]) => f[t] = index[t]
           /\ index' = [t \in Strips |-> IF t \in live THEN f[t] ELSE index[t]]
    BY DEF Renumber
  <1>2. \A t \in live : index'[t] = f[t] /\ f[t] \in Indices
    BY <1>1 DEF TypeOK
  <1> SUFFICES ASSUME NEW s \in Spaces PROVE IndicesOf(s)' = Indices
    BY DEF FixedRows
  <1>3. IndicesOf(s) = Indices
    BY DEF FixedRows
  <1>4. IndicesOf(s)' = {f[t] : t \in Rows(s)}
    BY <1>2 DEF IndicesOf, Rows
  <1>5. \A t \in Rows(s) : f[t] \in Indices
    BY <1>2 DEF Rows
  <1>6. CASE \A u \in unnumbered : space[u] # s
    <2>1. \A t \in Rows(s) : f[t] = index[t]
      BY <1>1, <1>6 DEF Rows
    <2> QED
      BY <1>3, <1>4, <2>1 DEF IndicesOf
  <1>7. CASE \E u \in unnumbered : space[u] = s
    <2>1. PICK kept \in SUBSET Rows(s) :
             /\ {index[t] : t \in kept} = IndicesOf(s)
             /\ \A t \in kept : f[t] = index[t]
      BY <1>1, <1>7 DEF Renumbered
    <2>2. \A i \in Indices : \E t \in Rows(s) : f[t] = i
      BY <1>3, <2>1
    <2> QED
      BY <1>4, <1>5, <2>2
  <1> QED
    BY <1>6, <1>7

\* The rows that are made at the start.
LEMMA InitFixed == Init /\ FixedRows => FixedInv
  <1> SUFFICES ASSUME Init, FixedRows PROVE FixedInv
    OBVIOUS
  <1>1. IInv /\ TypeOK
    BY InitInv DEF IInv
  <1>2. Full = {}
    <2>1. \A t \in live : space[t] \in Normal
      BY StartupAssumption DEF Init
    <2>2. \A s \in Full : Rows(s) = {}
      BY <2>1, SpacesAssumption DEF Rows
    <2> QED
      BY <1>1, <2>2, RowsThere DEF Spaces
  <1>3. Quiescent
    BY HarmlessCalls DEF Init, Quiescent
  <1>4. Held /\ OneHolder
    <2>1. tiled = {} /\ wins = [t \in Strips |-> {}] /\ live \subseteq Strips
      BY <1>1 DEF Init, TypeOK
    <2> QED
      BY <2>1 DEF Held, OneHolder, Holders
  <1>5. active # {}
    <2>1. active = RowsAt(osSpace, 0) /\ osSpace \in Spaces /\ 0 \in Indices
      BY <1>1, IndexAssumption DEF Init, Indices, TypeOK
    <2> QED
      BY <1>1, <2>1, RowsThere
  <1> QED
    BY <1>1, <1>2, <1>3, <1>4, <1>5 DEF FixedInv

\* Every step keeps FixedInv.
LEMMA StepFixed == FixedInv /\ [Next]_vars => FixedInv'
  <1> SUFFICES ASSUME FixedInv, [Next]_vars PROVE FixedInv'
    OBVIOUS
  <1>1. IInv' /\ Full = {} /\ TypeOK /\ OneHolder /\ Held /\ FixedRows /\ active # {}
    BY StepInv DEF FixedInv, IInv
  <1>2. ASSUME UNCHANGED <<live, space>>, UNCHANGED index \/ Renumber PROVE FixedRows'
    <2>1. CASE UNCHANGED index
      BY <1>1, <1>2, <2>1 DEF FixedRows, IndicesOf, Rows
    <2> QED
      BY <1>1, <1>2, <2>1, RenumberFixed
  <1>3. ASSUME UNCHANGED <<live, space, active, wins, tiled>>, UNCHANGED index \/ Renumber,
               Quiescent'
        PROVE  FixedInv'
    BY <1>1, <1>2, <1>3, WindowsMove DEF FixedInv
  <1>4. CASE UNCHANGED vars
    BY <1>3, <1>4 DEF FixedInv, Quiescent, vars, rows, view, sched, os
  <1>5. CASE Apply
    BY <1>1, <1>2, <1>5, ApplyFixed DEF FixedInv
  <1>6. CASE Sync \/ EndPhase \/ Pump \/ StartMoves \/ Reap \/ Show \/ Renumber
    BY <1>3, <1>6, FrameFixed
  <1>7. CASE \/ SwitchBind \/ MoveBind
             \/ \E w \in Windows, i \in Indices, follow \in BOOLEAN : ScriptMove(w, i, follow)
             \/ \E w \in Windows : Float(w) \/ FocusEvent(w)
    BY <1>3, <1>7, InputFixed
  <1>8. CASE (\E m \in todo : MoveOne(m)) \/ Detect \/ \E w \in Windows : Place(w)
    BY <1>1, <1>2, <1>8, MovesFixed, WindowsMove DEF FixedInv
  <1>9. CASE \/ Change
             \/ \E s \in Spaces : CreatedSpace(s) \/ DestroyedSpace(s)
             \/ \E s \in Spaces : OSSwitch(s) \/ OSDestroy(s) \/ OSCreate(s)
             \/ \E w \in Windows, s \in Spaces : OSDrag(w, s) \/ OSFullscreen(w, s)
    BY <1>3, <1>9, SpacesFixed
  <1> QED
    BY <1>4, <1>5, <1>6, <1>7, <1>8, <1>9 DEF Next, Frame, Outside

\* FixedInv is an invariant of every behaviour that starts with fixed rows.
LEMMA FixedInvariance == Spec /\ FixedRows => []FixedInv
  <1>1. Init /\ FixedRows => FixedInv
    BY InitFixed
  <1>2. FixedInv /\ [Next]_vars => FixedInv'
    BY StepFixed
  <1> QED
    BY <1>1, <1>2, PTL DEF Spec

\* Where rows are fixed from the start, no interleaving of moves, drags, swipes,
\* focus events and deferred commands puts a window into two rows
\* (handle_virtual_window_moves, detect_moved_windows).
THEOREM WindowsStayOnce == Spec /\ FixedRows => []WindowsOnce
  <1>1. FixedInv => WindowsOnce
    BY DEF FixedInv, OneHolder, WindowsOnce
  <1> QED
    BY <1>1, FixedInvariance, PTL

\* Nor does one lose a tiled window from the rows.
THEOREM WindowsStayHeld == Spec /\ FixedRows => []NoWindowLost
  <1>1. FixedInv => NoWindowLost
    BY DEF FixedInv, Held, NoWindowLost
  <1> QED
    BY <1>1, FixedInvariance, PTL

------------------------------------------------------------------------------
(* Rows at index 0 *)

\* A row that is on its way to an index above 0 goes to a space that has rows;
\* while the commands of the destruction of a space are applied, its rows may
\* all be gone.
RowsHoused == \A c \in Commands("spawn") :
    c.row.index > 0 =>
        Rows(c.row.space) # {} \/ (flush # "no" /\ c.row.space \notin osSpaces)

\* Nothing that is queued takes away a row at index 0 of a space that is there,
\* nor a row that is yet to come.
ZerosSpared ==
    /\ Doomed \cap Spawning = {}
    /\ \A t \in Doomed \cap live : space[t] \in osSpaces => index[t] > 0

\* The destruction of a space is known before there is another of its id.
Mourned == \A s \in osSpaces : Destroyed(s) \notin sent \cup inbox

ZeroInv == RowZeroKept /\ RowsHoused /\ ZerosSpared /\ Mourned

\* Calls that keep this.
Sparing(cmds) == \A k \in DOMAIN cmds :
    /\ cmds[k].op = "spawn" =>
          /\ cmds[k].row.strip \in Unused
          /\ cmds[k].row.index > 0 => Rows(cmds[k].row.space) # {}
    /\ cmds[k].op = "despawn" =>
          \A t \in cmds[k].strips : t \in live /\ (space[t] \in osSpaces => index[t] > 0)

LEMMA NoticesDiffer ==
    \A s, t \in Spaces : Destroyed(s) # Changed /\ Destroyed(s) # Created(t)
  BY DEF Destroyed, Created, Changed

LEMMA MournedKept ==
    ASSUME TypeOK, Mourned, osSpaces' \subseteq osSpaces, NEW s \in Spaces,
           sent' \cup inbox' \subseteq sent \cup inbox \cup {Changed, Created(s)}
    PROVE  Mourned'
  BY NoticesDiffer DEF Mourned, TypeOK

\* Steps that leave the queue and the rows alone.
LEMMA RowsStay ==
    ASSUME ZeroInv, UNCHANGED <<live, space, index, queue, osSpaces>>,
           flush' = flush \/ flush = "no"
    PROVE  RowZeroKept' /\ RowsHoused' /\ ZerosSpared'
  BY DEF ZeroInv, RowZeroKept, RowsHoused, ZerosSpared, Rows, RowsAt, Commands, Doomed, Spawning

\* The commands there are once a call is queued.
LEMMA QueueHas ==
    ASSUME queue \in Seq(Command), NEW cmds \in Seq(Command), Queue(cmds), NEW op
    PROVE  Commands(op)' = Commands(op) \cup {cmds[k] : k \in {k \in DOMAIN cmds : cmds[k].op = op}}
  <1> DEFINE both == queue \o cmds
  <1>1. /\ Len(queue) \in Nat /\ Len(cmds) \in Nat /\ DOMAIN both = 1..(Len(queue) + Len(cmds))
        /\ DOMAIN queue = 1..Len(queue) /\ DOMAIN cmds = 1..Len(cmds)
    OBVIOUS
  <1>2. \A k \in DOMAIN both : \/ k \in DOMAIN queue /\ both[k] = queue[k]
                               \/ k - Len(queue) \in DOMAIN cmds /\ both[k] = cmds[k - Len(queue)]
    OBVIOUS
  <1>3. \A k \in DOMAIN queue : k \in DOMAIN both /\ both[k] = queue[k]
    OBVIOUS
  <1>4. \A k \in DOMAIN cmds : Len(queue) + k \in DOMAIN both /\ both[Len(queue) + k] = cmds[k]
    OBVIOUS
  <1>5. queue' = both
    BY DEF Queue
  <1> HIDE DEF both
  <1> QED
    BY <1>2, <1>3, <1>4, <1>5 DEF Commands

\* A system queues a call that spares the rows at index 0.
LEMMA QueueSpares ==
    ASSUME TypeOK, SpawnsFresh, ZeroInv, flush = "no", NEW cmds \in Seq(Command), Sparing(cmds),
           Queue(cmds), UNCHANGED <<live, space, index, osSpaces, flush>>
    PROVE  RowZeroKept' /\ RowsHoused' /\ ZerosSpared'
  <1>1. \A op : Commands(op)' = Commands(op)
                   \cup {cmds[k] : k \in {k \in DOMAIN cmds : cmds[k].op = op}}
    BY QueueHas DEF TypeOK
  <1>2. \A s : Rows(s)' = Rows(s) /\ RowsAt(s, 0)' = RowsAt(s, 0)
    BY DEF Rows, RowsAt
  <1>3. RowZeroKept'
    BY <1>2 DEF ZeroInv, RowZeroKept
  <1>4. \A c \in Commands("spawn")' : c.row.index > 0 => Rows(c.row.space) # {}
    BY <1>1 DEF ZeroInv, RowsHoused, Sparing
  <1>5. RowsHoused'
    BY <1>2, <1>4 DEF RowsHoused
  <1>6. \A t \in Doomed' : t \in Doomed \/ (t \in live /\ (space[t] \in osSpaces => index[t] > 0))
    <2> TAKE t \in Doomed'
    <2>1. PICK c \in Commands("despawn")' : t \in c.strips
      BY DEF Doomed
    <2>2. CASE c \in Commands("despawn")
      BY <2>1, <2>2 DEF Doomed
    <2>3. CASE c \notin Commands("despawn")
      BY <1>1, <2>1, <2>3 DEF Sparing
    <2> QED
      BY <2>2, <2>3
  <1>7. \A t \in Spawning' : t \in Spawning \/ t \in Unused
    <2> TAKE t \in Spawning'
    <2>1. PICK c \in Commands("spawn")' : t = c.row.strip
      BY DEF Spawning
    <2>2. CASE c \in Commands("spawn")
      BY <2>1, <2>2 DEF Spawning
    <2>3. CASE c \notin Commands("spawn")
      BY <1>1, <2>1, <2>3 DEF Sparing
    <2> QED
      BY <2>2, <2>3
  <1>8. Spawning \cap live = {} /\ Unused \cap (live \cup Doomed) = {}
    BY DEF SpawnsFresh, FreshIn, Spawning, Commands, Unused
  <1>9. ZerosSpared'
    <2>1. Doomed' \cap Spawning' = {}
      BY <1>6, <1>7, <1>8 DEF ZeroInv, ZerosSpared
    <2>2. \A t \in Doomed' \cap live' : space'[t] \in osSpaces' => index'[t] > 0
      BY <1>6 DEF ZeroInv, ZerosSpared
    <2> QED
      BY <2>1, <2>2 DEF ZerosSpared
  <1> QED
    BY <1>3, <1>5, <1>9

\* A call without rows.
LEMMA PlainSpares ==
    /\ Sparing(<<>>)
    /\ \A t : Sparing(<<Activate(t)>>) /\ Sparing(<<Focus(t)>>) /\ Sparing(<<Leave(t)>>)
    /\ \A t, S, W : Sparing(<<Shown(t, S, W)>>)
    /\ \A t, a, w : Sparing(<<Follow(t, a), Focus(w)>>) /\ Sparing(<<Activate(t), Focus(w)>>)
  BY DEF Sparing, Activate, Focus, Leave, Shown, Follow

\* A row that is made at index 0, or where there are rows.
LEMMA SpawnSpares ==
    ASSUME NEW t \in Unused, NEW s, NEW i, i > 0 => Rows(s) # {}, NEW W, NEW mark
    PROVE  Sparing(<<Spawn(NewRow(t, s, i, W), mark)>>)
  BY DEF Sparing, Spawn, NewRow

LEMMA DespawnSpares ==
    ASSUME NEW S \in SUBSET live, \A t \in S : space[t] \in osSpaces => index[t] > 0
    PROVE  Sparing(<<Despawn(S)>>)
  BY DEF Sparing, Despawn

\* One call behind another.
LEMMA BothSpare ==
    ASSUME NEW c \in Seq(Command), NEW d \in Seq(Command), Sparing(c), Sparing(d)
    PROVE  Sparing(c \o d)
  <1>1. \A k \in DOMAIN (c \o d) : \/ k \in DOMAIN c /\ (c \o d)[k] = c[k]
                                   \/ k - Len(c) \in DOMAIN d /\ (c \o d)[k] = d[k - Len(c)]
    OBVIOUS
  <1> QED
    BY <1>1 DEF Sparing

\* Applying a command: a row that comes at an index above 0 finds its space
\* with rows, and no row at index 0 goes.
LEMMA ApplyZero ==
    ASSUME TypeOK, Applying, SpawnsFresh, ZeroInv, Apply
    PROVE  ZeroInv'
  <1> DEFINE c == Head(queue)
  <1>1. /\ queue \in Seq(Command) /\ queue # <<>> /\ queue' = Tail(queue) /\ flush # "no"
        /\ c \in Command /\ c = queue[1] /\ 1 \in DOMAIN queue
        /\ \A k \in DOMAIN queue' : k + 1 \in DOMAIN queue /\ queue'[k] = queue[k + 1]
    BY DEF Apply, Applying, TypeOK
  <1>2. \A op : Commands(op)' \subseteq Commands(op)
    BY <1>1 DEF Commands
  <1>3. Doomed' \subseteq Doomed /\ Spawning' \subseteq Spawning
    BY <1>2 DEF Doomed, Spawning
  <1>4. flush' = flush \/ (flush' = "no" /\ \A op : Commands(op)' = {})
    <2>1. CASE Tail(queue) = <<>>
      BY <1>1, <2>1 DEF Apply, Flushed, Commands
    <2>2. CASE Tail(queue) # <<>>
      BY <2>2 DEF Apply
    <2> QED
      BY <2>1, <2>2
  <1>5. UNCHANGED <<osSpaces, sent, inbox>>
    BY DEF Apply, os
  <1>6. Mourned'
    BY <1>5 DEF ZeroInv, Mourned
  <1>7. CASE UNCHANGED <<live, space, index>>
    <2>1. RowZeroKept'
      BY <1>5, <1>7 DEF ZeroInv, RowZeroKept, Rows, RowsAt
    <2>2. \A s : Rows(s)' = Rows(s)
      BY <1>7 DEF Rows
    <2>3. RowsHoused'
      BY <1>2, <1>4, <1>5, <2>2 DEF ZeroInv, RowsHoused
    <2>4. ZerosSpared'
      BY <1>3, <1>5, <1>7 DEF ZeroInv, ZerosSpared
    <2> QED
      BY <1>6, <2>1, <2>3, <2>4 DEF ZeroInv
  <1>8. CASE c.op = "spawn" /\ ApplySpawn(c.row, c.mark)
    <2>1. PICK t, z : t = c.row.strip /\ z = c.row.space
      OBVIOUS
    <2>2. c \in Commands("spawn") /\ c.row \in Row
      BY <1>1, <1>8, CommandFields DEF Commands
    <2>3. t \notin live /\ t \in Strips /\ t \in Spawning
      BY <1>1, <1>8, <2>1, <2>2 DEF SpawnsFresh, FreshIn, Row, Spawning
    <2>4. live' = live \cup {t} /\ space' = [space EXCEPT ![t] = z]
          /\ index' = [index EXCEPT ![t] = c.row.index]
      BY <1>8, <2>1 DEF ApplySpawn
    <2>5. space'[t] = z /\ index'[t] = c.row.index /\ c.row.index \in Nat
      BY <2>2, <2>3, <2>4, IndexAssumption DEF TypeOK, Row, Indices
    <2>6. \A u \in live : u \in live' /\ space'[u] = space[u] /\ index'[u] = index[u]
      BY <2>3, <2>4 DEF TypeOK
    <2>7. \A s : Rows(s) \subseteq Rows(s)' /\ RowsAt(s, 0) \subseteq RowsAt(s, 0)'
      BY <2>6 DEF Rows, RowsAt
    <2>8. RowZeroKept'
      <3> SUFFICES ASSUME NEW s \in osSpaces, Rows(s)' # {}
                   PROVE  RowsAt(s, 0)' # {}
        BY <1>5 DEF RowZeroKept
      <3>1. CASE Rows(s) # {}
        BY <2>7, <3>1 DEF ZeroInv, RowZeroKept
      <3>2. CASE Rows(s) = {}
        <4>1. z = s
          BY <2>4, <2>5, <2>6, <3>2 DEF Rows
        <4>2. ~(c.row.index > 0)
          BY <2>1, <2>2, <3>2, <4>1 DEF ZeroInv, RowsHoused
        <4>3. index'[t] = 0
          BY <2>5, <4>2
        <4> QED
          BY <2>4, <2>5, <4>1, <4>3 DEF RowsAt, Rows
      <3> QED
        BY <3>1, <3>2
    <2>9. RowsHoused'
      BY <1>2, <1>4, <1>5, <2>7 DEF ZeroInv, RowsHoused
    <2>10. ZerosSpared'
      <3>1. \A u \in Doomed' \cap live' : u \in Doomed \cap live
        BY <1>3, <2>3, <2>4 DEF ZeroInv, ZerosSpared
      <3> QED
        BY <1>3, <1>5, <2>6, <3>1 DEF ZeroInv, ZerosSpared
    <2> QED
      BY <1>6, <2>8, <2>9, <2>10 DEF ZeroInv
  <1>9. CASE c.op = "despawn" /\ ApplyDespawn(c.strips)
    <2>1. PICK S : S = c.strips
      OBVIOUS
    <2>2. S \subseteq Doomed
      BY <1>1, <1>9, <2>1 DEF Doomed, Commands
    <2>3. live' = live \ S
          /\ \A u \in live \ S : space'[u] = space[u] /\ index'[u] = index[u]
      BY <1>9, <2>1 DEF ApplyDespawn, Cleared, TypeOK
    <2>4. \A s : Rows(s)' = Rows(s) \ S
      BY <2>3 DEF Rows
    <2>5. \A s \in osSpaces : RowsAt(s, 0)' = RowsAt(s, 0)
      <3> TAKE s \in osSpaces
      <3>1. \A u \in RowsAt(s, 0) : u \notin S
        BY <2>2, IndexAssumption DEF ZeroInv, ZerosSpared, RowsAt, Rows, TypeOK, Indices
      <3> QED
        BY <2>3, <2>4, <3>1 DEF RowsAt, Rows
    <2>6. \A s : Rows(s)' \subseteq Rows(s) /\ RowsAt(s, 0)' \subseteq Rows(s)'
      BY <2>4 DEF RowsAt
    <2>7. RowZeroKept'
      BY <1>5, <2>5, <2>6 DEF ZeroInv, RowZeroKept
    <2>8. RowsHoused'
      <3> SUFFICES ASSUME NEW d \in Commands("spawn")', d.row.index > 0, flush' # "no" => d.row.space \in osSpaces'
                   PROVE  Rows(d.row.space)' # {}
        BY DEF RowsHoused
      <3>1. d \in Commands("spawn") /\ flush' # "no"
        BY <1>1, <1>2, <1>4
      <3>2. d.row.space \in osSpaces
        BY <1>5, <3>1
      <3>3. Rows(d.row.space) # {}
        BY <3>1, <3>2 DEF ZeroInv, RowsHoused
      <3> QED
        BY <2>5, <2>6, <3>2, <3>3 DEF ZeroInv, RowZeroKept
    <2>9. ZerosSpared'
      BY <1>3, <1>5, <2>3 DEF ZeroInv, ZerosSpared
    <2> QED
      BY <1>6, <2>7, <2>8, <2>9 DEF ZeroInv
  <1> QED
    BY <1>7, <1>8, <1>9 DEF Apply, ApplyActivate, ApplyFocus, ApplyShown, ApplyLeave, rows

\* Renumbering keeps one of the rows at index 0, and moves no other there.
LEMMA RenumberZero ==
    ASSUME TypeOK, ZeroInv, Renumber
    PROVE  ZeroInv'
  <1>1. PICK f \in [live -> Indices] :
          /\ Renumbered(f)
          /\ \A t \in live : (\A u \in unnumbered : space[u] # space[t]) => f[t] = index[t]
          /\ index' = [t \in Strips |-> IF t \in live THEN f[t] ELSE index[t]]
    BY DEF Renumber
  <1>2. UNCHANGED <<live, space, queue, flush, osSpaces, sent, inbox>>
    BY DEF Renumber, Run, os
  <1>3. \A t \in live : index'[t] = f[t]
    BY <1>1 DEF TypeOK
  <1>4. ASSUME NEW s, Rows(s) # {}, RowsAt(s, 0) # {}
        PROVE  \E t \in RowsAt(s, 0) : f[t] = 0 /\ \A u \in Rows(s) : f[u] = 0 => index[u] = 0
    <2>1. CASE \E u \in unnumbered : space[u] = s
      <3>1. s \in {space[u] : u \in unnumbered}
        BY <2>1
      <3>2. PICK kept \in SUBSET Rows(s) :
              /\ {index[t] : t \in kept} = IndicesOf(s)
              /\ \A t \in kept : f[t] = index[t]
              /\ \A t, u \in Rows(s) : f[t] = f[u] => t = u
        BY <1>1, <3>1 DEF Renumbered
      <3>3. 0 \in IndicesOf(s)
        BY <1>4 DEF IndicesOf, RowsAt
      <3>4. PICK t \in kept : index[t] = 0
        BY <3>2, <3>3
      <3>5. f[t] = 0 /\ t \in RowsAt(s, 0)
        BY <3>2, <3>4 DEF RowsAt
      <3> QED
        BY <3>2, <3>4, <3>5
    <2>2. CASE \A u \in unnumbered : space[u] # s
      <3>1. \A t \in Rows(s) : f[t] = index[t]
        BY <1>1, <2>2 DEF Rows
      <3> QED
        BY <1>4, <3>1 DEF RowsAt
    <2> QED
      BY <2>1, <2>2
  <1>5. \A s : Rows(s)' = Rows(s)
    BY <1>2 DEF Rows
  <1>6. RowZeroKept'
    <2> SUFFICES ASSUME NEW s \in osSpaces, Rows(s) # {}
                 PROVE  RowsAt(s, 0)' # {}
      BY <1>2, <1>5 DEF RowZeroKept
    <2>1. RowsAt(s, 0) # {}
      BY DEF ZeroInv, RowZeroKept
    <2>2. PICK t \in RowsAt(s, 0) : f[t] = 0
      BY <1>4, <2>1
    <2>3. t \in Rows(s) /\ t \in live
      BY DEF RowsAt, Rows
    <2> QED
      BY <1>3, <1>5, <2>2, <2>3 DEF RowsAt
  <1>7. RowsHoused'
    BY <1>2, <1>5 DEF ZeroInv, RowsHoused, Commands
  <1>8. ZerosSpared'
    <2>1. Doomed' = Doomed /\ Spawning' = Spawning
      BY <1>2 DEF Doomed, Spawning, Commands
    <2>2. ASSUME NEW t \in Doomed \cap live, space[t] \in osSpaces
          PROVE  index'[t] > 0
      <3>1. index[t] > 0 /\ t \in Rows(space[t])
        BY <2>2 DEF ZeroInv, ZerosSpared, Rows
      <3>2. RowsAt(space[t], 0) # {}
        BY <2>2, <3>1 DEF ZeroInv, RowZeroKept
      <3>3. f[t] # 0
        BY <1>4, <3>1, <3>2
      <3>4. f[t] \in Nat
        BY IndexAssumption DEF Indices
      <3> QED
        BY <1>3, <3>3, <3>4
    <2> QED
      BY <1>2, <2>1, <2>2 DEF ZeroInv, ZerosSpared
  <1>9. Mourned'
    BY <1>2 DEF ZeroInv, Mourned
  <1> QED
    BY <1>6, <1>7, <1>8, <1>9 DEF ZeroInv

\* The systems and inputs that leave the queue alone.
LEMMA StillZero ==
    ASSUME TypeOK, ZeroInv,
           \/ Sync \/ EndPhase \/ Pump \/ Detect \/ StartMoves \/ MoveBind
           \/ (\E w \in Windows, i \in Indices, follow \in BOOLEAN : ScriptMove(w, i, follow))
           \/ (\E w \in Windows : Place(w))
           \/ (\E s \in Spaces : OSSwitch(s))
           \/ (\E w \in Windows, s \in Spaces : OSDrag(w, s))
           \/ UNCHANGED vars
    PROVE  ZeroInv'
  <1>1. PICK s \in Spaces : sent' \cup inbox' \subseteq sent \cup inbox \cup {Changed, Created(s)}
    <2>1. NoRowSpace \in Spaces
      BY StartupAssumption DEF NoRowSpace, Spaces
    <2>2. sent' \cup inbox' \subseteq sent \cup inbox \cup {Changed}
      BY DEF Sync, EndPhase, Pump, Detect, StartMoves, MoveBind, ScriptMove, Place, OSSwitch, OSDrag,
             OSStep, os, vars
    <2> QED
      BY <2>1, <2>2
  <1>2. UNCHANGED <<live, space, index, queue, osSpaces>> /\ (flush' = flush \/ flush = "no")
    <2>1. CASE Sync \/ EndPhase \/ Pump
      BY <2>1 DEF Sync, EndPhase, Pump, Idle, rows, sched, os
    <2>2. CASE Detect \/ StartMoves \/ MoveBind
                \/ \E w \in Windows, i \in Indices, follow \in BOOLEAN : ScriptMove(w, i, follow)
      BY <2>2 DEF Detect, StartMoves, MoveBind, ScriptMove, Run, rows, os
    <2>3. CASE (\E w \in Windows : Place(w)) \/ (\E s0 \in Spaces : OSSwitch(s0))
                \/ (\E w \in Windows, s0 \in Spaces : OSDrag(w, s0)) \/ UNCHANGED vars
      BY <2>3 DEF Place, OSSwitch, OSDrag, OSStep, rows, sched, os, vars
    <2> QED
      BY <2>1, <2>2, <2>3
  <1>3. Mourned'
    BY <1>1, <1>2, MournedKept DEF ZeroInv
  <1> QED
    BY <1>2, <1>3, RowsStay DEF ZeroInv

\* The spaces come and go between two systems.
LEMMA SpacesZero ==
    ASSUME TypeOK, ZeroInv, NEW s \in Spaces,
           OSDestroy(s) \/ OSCreate(s) \/ \E w \in Windows : OSFullscreen(w, s)
    PROVE  ZeroInv'
  <1>1. UNCHANGED <<live, space, index, queue, flush, inbox>> /\ flush = "no"
    BY DEF OSDestroy, OSCreate, OSFullscreen, OSStep, Idle, rows, sched
  <1>2. \A z : Rows(z)' = Rows(z) /\ RowsAt(z, 0)' = RowsAt(z, 0)
    BY <1>1 DEF Rows, RowsAt
  <1>3. Doomed' = Doomed /\ Spawning' = Spawning /\ Commands("spawn")' = Commands("spawn")
    BY <1>1 DEF Doomed, Spawning, Commands
  <1>4. RowsHoused'
    BY <1>1, <1>2, <1>3 DEF ZeroInv, RowsHoused
  <1>5. CASE OSDestroy(s)
    <2>1. osSpaces' = osSpaces \ {s} /\ sent' \subseteq sent \cup {Destroyed(s), Changed}
      BY <1>5 DEF OSDestroy
    <2>2. \A z \in Spaces : Destroyed(z) = Destroyed(s) => z = s
      BY DEF Destroyed
    <2>3. Mourned'
      BY <1>1, <2>1, <2>2, NoticesDiffer DEF ZeroInv, Mourned, TypeOK
    <2>4. RowZeroKept' /\ ZerosSpared'
      BY <1>1, <1>2, <1>3, <2>1 DEF ZeroInv, RowZeroKept, ZerosSpared
    <2> QED
      BY <1>4, <2>3, <2>4 DEF ZeroInv
  <1>6. CASE ~OSDestroy(s)
    <2>1. /\ osSpaces' = osSpaces \cup {s} /\ Rows(s) = {} /\ Destroyed(s) \notin sent \cup inbox
          /\ sent' \subseteq sent \cup {Changed, Created(s)}
      BY <1>6 DEF OSCreate, OSFullscreen
    <2>2. Mourned'
      BY <1>1, <2>1, NoticesDiffer DEF ZeroInv, Mourned, TypeOK
    <2>3. RowZeroKept'
      BY <1>2, <2>1 DEF ZeroInv, RowZeroKept
    <2>4. \A t \in live : space[t] # s
      BY <2>1 DEF Rows
    <2>5. ZerosSpared'
      BY <1>1, <1>3, <2>1, <2>4 DEF ZeroInv, ZerosSpared
    <2> QED
      BY <1>4, <2>2, <2>3, <2>5 DEF ZeroInv
  <1> QED
    BY <1>5, <1>6

\* The systems and inputs that queue a call.
Queueing(cmds) ==
    /\ cmds \in Seq(Command) /\ Sparing(cmds) /\ Queue(cmds) /\ flush = "no"
    /\ UNCHANGED <<live, space, index, osSpaces, flush>>
    /\ sent' \cup inbox' \subseteq sent \cup inbox

LEMMA QueueingZero ==
    ASSUME TypeOK, SpawnsFresh, ZeroInv, NEW cmds, Queueing(cmds)
    PROVE  ZeroInv'
  <1>1. RowZeroKept' /\ RowsHoused' /\ ZerosSpared'
    BY QueueSpares DEF Queueing
  <1>2. Mourned'
    BY DEF Queueing, ZeroInv, Mourned
  <1> QED
    BY <1>1, <1>2 DEF ZeroInv

\* The commands that are no rows, as sequences of commands.
LEMMA CallsAreCommands ==
    /\ <<>> \in Seq(Command)
    /\ \A c \in Command : <<c>> \in Seq(Command)
    /\ \A c, d \in Command : <<c, d>> \in Seq(Command)
    /\ \A c, d \in Seq(Command) : c \o d \in Seq(Command)
  OBVIOUS

\* The row on screen is there, and so are those of its space.
LEMMA OnScreen ==
    ASSUME TypeOK, NEW a \in active
    PROVE  a \in live /\ a \in Strips /\ space[a] \in Spaces /\ Rows(space[a]) # {}
           /\ Rows(space[a]) \subseteq live /\ Rows(space[a]) \subseteq Strips
  BY DEF TypeOK, Rows

LEMMA SwitchZero ==
    ASSUME TypeOK, SpawnsFresh, ZeroInv, SwitchBind
    PROVE  ZeroInv'
  <1>1. flush = "no" /\ UNCHANGED <<live, space, index, osSpaces, flush, sent, inbox>>
    BY DEF SwitchBind, Run, Idle, rows, os
  <1>2. ASSUME NEW cur \in active, NEW i, SwitchNew(space[cur], i)
        PROVE  ZeroInv'
    <2>1. PICK n \in Unused : Queue(<<Spawn(NewRow(n, space[cur], i, {}), "active")>>)
      BY <1>2 DEF SwitchNew
    <2>2. PICK cmds : cmds = <<Spawn(NewRow(n, space[cur], i, {}), "active")>>
      OBVIOUS
    <2>3. Sparing(cmds)
      BY <2>2, OnScreen, SpawnSpares
    <2>4. cmds \in Seq(Command)
      <3>1. NewRow(n, space[cur], i, {}) \in Row
        BY <1>2, OnScreen, NewRowType DEF SwitchNew, Unused
      <3> QED
        BY <2>2, <3>1, CommandTypes, CallsAreCommands
    <2> QED
      BY <1>1, <2>1, <2>2, <2>3, <2>4, QueueingZero DEF Queueing
  <1>3. ASSUME NEW cur, NEW t \in Strips, SwitchTo(cur, t)
        PROVE  ZeroInv'
    <2>1. PICK cmds \in {<<>>, <<Activate(t)>>} : Queue(cmds)
      BY <1>3 DEF SwitchTo
    <2>2. Sparing(<<>>) /\ Sparing(<<Activate(t)>>) /\ Activate(t) \in Command
      BY PlainSpares, CommandTypes DEF Plain
    <2>3. Sparing(cmds) /\ cmds \in Seq(Command)
      BY <2>1, <2>2, CallsAreCommands
    <2> QED
      BY <1>1, <2>1, <2>3, QueueingZero DEF Queueing
  <1>4. PICK cur \in active :
          \/ \E t \in Strips : SwitchTo(cur, t)
          \/ \E i : SwitchNew(space[cur], i)
    <2>1. PICK cur \in active :
             \/ \E t \in North(cur) \cup South(cur) \cup Ends(cur) : SwitchTo(cur, t)
             \/ SwitchNew(space[cur], index[cur] + 1)
             \/ \E i \in Indices : IF RowsAt(space[cur], i) = {} THEN SwitchNew(space[cur], i)
                                   ELSE \E t \in RowsAt(space[cur], i) : SwitchTo(cur, t)
             \/ \E t \in Highest(Rows(space[cur])) : SwitchNew(space[cur], index[t] + 1)
      BY DEF SwitchBind
    <2>2. /\ North(cur) \cup South(cur) \cup Ends(cur) \subseteq Strips
          /\ \A i : RowsAt(space[cur], i) \subseteq Strips
      BY DEF North, South, Ends, Level, Above, Below, Highest, Lowest, RowsAt, Rows, TypeOK
    <2> QED
      BY <2>1, <2>2
  <1> QED
    BY <1>2, <1>3, <1>4

LEMMA MoveZero ==
    ASSUME TypeOK, SpawnsFresh, ZeroInv, NEW m \in todo, MoveOne(m)
    PROVE  ZeroInv'
  <1>1. flush = "no" /\ UNCHANGED <<live, space, index, osSpaces, flush, sent, inbox>>
    BY DEF MoveOne, os
  <1>2. m.win \in Windows /\ m.index \in Indices
    BY DEF TypeOK, Mark
  <1>3. PICK a \in active, near \in SUBSET Windows :
          LET s      == space[a]
              w      == m.win
              stay   == ~m.follow /\ near # {}
              shown(t)  == IF stay THEN {<<Focus(v)>> : v \in near}
                           ELSE {<<Follow(t, a), Focus(w)>>}
          IN  \/ \E t \in RowsAt(s, m.index) : \E cmds \in shown(t) : Queue(cmds)
              \/ \E n \in Unused : \E cmds \in shown(n) :
                    Queue(<<Spawn(NewRow(n, s, m.index, {w}),
                                  IF stay THEN "parked" ELSE "selected")>> \o cmds)
    BY DEF MoveOne, TypeOK
  <1>4. PICK shown \in [Strips -> SUBSET Seq(Command)] :
          \A t \in Strips : shown[t] = IF ~m.follow /\ near # {} THEN {<<Focus(v)>> : v \in near}
                                       ELSE {<<Follow(t, a), Focus(m.win)>>}
    <2> DEFINE S(t) == IF ~m.follow /\ near # {} THEN {<<Focus(v)>> : v \in near}
                       ELSE {<<Follow(t, a), Focus(m.win)>>}
    <2>1. \A v \in Windows : <<Focus(v)>> \in Seq(Command)
      BY CommandTypes, CallsAreCommands DEF Plain
    <2>2. \A t \in Strips : <<Follow(t, a), Focus(m.win)>> \in Seq(Command)
      BY <1>2, CommandTypes, CallsAreCommands, OnScreen DEF Plain
    <2>3. \A t \in Strips : S(t) \in SUBSET Seq(Command)
      BY <2>1, <2>2
    <2> HIDE DEF S
    <2>4. [t \in Strips |-> S(t)] \in [Strips -> SUBSET Seq(Command)]
      BY <2>3
    <2> QED
      BY <2>4 DEF S
  <1>5. \A t \in Strips : \A cmds \in shown[t] : Sparing(cmds) /\ cmds \in Seq(Command)
    <2> TAKE t \in Strips
    <2> TAKE cmds \in shown[t]
    <2>1. (\E v : cmds = <<Focus(v)>>) \/ cmds = <<Follow(t, a), Focus(m.win)>>
      BY <1>4
    <2> QED
      BY <2>1, PlainSpares
  <1>6. \/ \E t \in RowsAt(space[a], m.index) : \E cmds \in shown[t] : Queue(cmds)
        \/ \E n \in Unused, mark \in {"parked", "selected"} : \E cmds \in shown[n] :
             Queue(<<Spawn(NewRow(n, space[a], m.index, {m.win}), mark)>> \o cmds)
    <2>1. RowsAt(space[a], m.index) \subseteq Strips /\ Unused \subseteq Strips
      BY DEF RowsAt, Rows, Unused, TypeOK
    <2> QED
      BY <1>3, <1>4, <2>1
  <1>7. CASE \E t \in RowsAt(space[a], m.index) : \E cmds \in shown[t] : Queue(cmds)
    <2>1. PICK t \in RowsAt(space[a], m.index) : \E cmds \in shown[t] : Queue(cmds)
      BY <1>7
    <2>2. t \in Strips
      BY DEF RowsAt, Rows, TypeOK
    <2>3. PICK cmds \in shown[t] : Queue(cmds)
      BY <2>1
    <2> QED
      BY <1>1, <1>5, <2>2, <2>3, QueueingZero DEF Queueing
  <1>8. CASE \E n \in Unused, mark \in {"parked", "selected"} : \E cmds \in shown[n] :
               Queue(<<Spawn(NewRow(n, space[a], m.index, {m.win}), mark)>> \o cmds)
    <2>1. PICK n \in Unused, mark \in {"parked", "selected"} : \E cmds \in shown[n] :
             Queue(<<Spawn(NewRow(n, space[a], m.index, {m.win}), mark)>> \o cmds)
      BY <1>8
    <2>2. PICK cmds \in shown[n] :
             Queue(<<Spawn(NewRow(n, space[a], m.index, {m.win}), mark)>> \o cmds)
      BY <2>1
    <2>3. PICK first : first = <<Spawn(NewRow(n, space[a], m.index, {m.win}), mark)>>
      OBVIOUS
    <2>4. n \in Strips /\ Sparing(cmds) /\ cmds \in Seq(Command)
      BY <1>5 DEF Unused
    <2>5. Sparing(first)
      BY <2>3, OnScreen, SpawnSpares
    <2>6. first \in Seq(Command)
      <3>1. NewRow(n, space[a], m.index, {m.win}) \in Row
        BY <1>2, <2>4, OnScreen, NewRowType
      <3> QED
        BY <2>3, <3>1, CommandTypes, CallsAreCommands
    <2>7. Sparing(first \o cmds) /\ first \o cmds \in Seq(Command)
      BY <2>4, <2>5, <2>6, BothSpare, CallsAreCommands
    <2> QED
      BY <1>1, <2>2, <2>3, <2>7, QueueingZero DEF Queueing
  <1> QED
    BY <1>6, <1>7, <1>8

LEMMA ChangeZero ==
    ASSUME TypeOK, SpawnsFresh, ZeroInv, Change
    PROVE  ZeroInv'
  <1>1. /\ flush = "no" /\ UNCHANGED <<live, space, index, osSpaces, flush>>
        /\ sent' \cup inbox' \subseteq sent \cup inbox
    BY DEF Change, Run, Idle, rows, os
  <1>2. CASE UNCHANGED queue
    BY <1>1, <1>2, RowsStay DEF ZeroInv, Mourned
  <1>3. ASSUME NEW t \in Strips, Queue(<<Activate(t)>>)
        PROVE  ZeroInv'
    <2>1. Sparing(<<Activate(t)>>) /\ <<Activate(t)>> \in Seq(Command)
      BY PlainSpares, CommandTypes, CallsAreCommands DEF Plain
    <2> QED
      BY <1>1, <1>3, <2>1, QueueingZero DEF Queueing
  <1>4. ASSUME NEW a \in active, NEW w \in wins[a], NEW n \in Unused,
               Queue(<<Spawn([NewRow(n, osSpace, 0, {w}) EXCEPT
                                 !.home = {[strip |-> a, space |-> space[a]]}], "active")>>)
        PROVE  ZeroInv'
    <2>1. PICK r : r = [NewRow(n, osSpace, 0, {w}) EXCEPT !.home = {[strip |-> a, space |-> space[a]]}]
      OBVIOUS
    <2>2. r \in Row /\ r.strip = n /\ r.index = 0
      <3>1. NewRow(n, osSpace, 0, {w}) \in Row
        BY OnScreen, NewRowType, IndexAssumption DEF TypeOK, Unused, Indices
      <3>2. {[strip |-> a, space |-> space[a]]} \in Homes
        BY OnScreen DEF Homes
      <3>3. r.strip = n /\ r.index = 0
        BY <2>1 DEF NewRow
      <3>4. r \in Row
        BY <2>1, <3>1, <3>2 DEF Row
      <3> QED
        BY <3>3, <3>4
    <2>3. Sparing(<<Spawn(r, "active")>>)
      BY <2>2 DEF Sparing, Spawn
    <2>4. <<Spawn(r, "active")>> \in Seq(Command)
      BY <2>2, CommandTypes, CallsAreCommands
    <2> QED
      BY <1>1, <1>4, <2>1, <2>3, <2>4, QueueingZero DEF Queueing
  <1>5. \/ UNCHANGED queue
        \/ \E t \in Strips : Queue(<<Activate(t)>>)
        \/ \E a \in active : \E w \in wins[a], n \in Unused :
              Queue(<<Spawn([NewRow(n, osSpace, 0, {w}) EXCEPT
                                 !.home = {[strip |-> a, space |-> space[a]]}], "active")>>)
    BY DEF Change, Rows, Lowest, TypeOK, FullscreenCandidates
  <1> QED
    BY <1>2, <1>3, <1>4, <1>5

LEMMA SpaceHandlerZero ==
    ASSUME TypeOK, SpawnsFresh, ZeroInv, NEW s \in Spaces, CreatedSpace(s) \/ DestroyedSpace(s)
    PROVE  ZeroInv'
  <1>1. /\ flush = "no" /\ UNCHANGED <<live, space, index, osSpaces, flush>>
        /\ sent' \cup inbox' \subseteq sent \cup inbox
    BY DEF CreatedSpace, DestroyedSpace, Idle, rows, os
  <1>2. CASE UNCHANGED queue
    BY <1>1, <1>2, RowsStay DEF ZeroInv, Mourned
  <1>3. ASSUME NEW n \in Unused, Queue(<<Spawn(NewRow(n, s, 0, {}), "selected")>>)
        PROVE  ZeroInv'
    <2>1. NewRow(n, s, 0, {}) \in Row
      BY NewRowType, IndexAssumption DEF Unused, Indices
    <2>2. PICK cmds : cmds = <<Spawn(NewRow(n, s, 0, {}), "selected")>>
      OBVIOUS
    <2>3. Sparing(cmds)
      <3>1. ~(0 > 0)
        OBVIOUS
      <3> QED
        BY <2>2, <3>1, SpawnSpares
    <2>4. cmds \in Seq(Command)
      BY <2>1, <2>2, CommandTypes, CallsAreCommands
    <2> QED
      BY <1>1, <1>3, <2>2, <2>3, <2>4, QueueingZero DEF Queueing
  <1>4. ASSUME NEW t \in Rows(s), Destroyed(s) \in inbox, Queue(<<Despawn({t})>>)
        PROVE  ZeroInv'
    <2>1. t \in live /\ t \in Strips /\ space[t] = s /\ s \notin osSpaces
      BY <1>4 DEF Rows, TypeOK, ZeroInv, Mourned
    <2>2. Sparing(<<Despawn({t})>>)
      BY <2>1, DespawnSpares
    <2>3. <<Despawn({t})>> \in Seq(Command)
      BY <2>1, CommandTypes, CallsAreCommands DEF Plain
    <2> QED
      BY <1>1, <1>4, <2>2, <2>3, QueueingZero DEF Queueing
  <1> QED
    BY <1>2, <1>3, <1>4 DEF CreatedSpace, DestroyedSpace, Despawning

LEMMA ReapZero ==
    ASSUME TypeOK, SpawnsFresh, ZeroInv, Reap
    PROVE  ZeroInv'
  <1>1. /\ flush = "no" /\ UNCHANGED <<live, space, index, osSpaces, flush, sent, inbox>>
    BY DEF Reap, Run, Idle, rows, os
  <1>2. PICK a \in active : Queue(IF Reapable(a) = {} THEN <<>> ELSE <<Despawn(Reapable(a))>>)
    BY DEF Reap
  <1>3. PICK S : S = Reapable(a)
    OBVIOUS
  <1>4. S \in SUBSET live /\ S \in SUBSET Strips /\ \A t \in S : index[t] > 0
    BY <1>3, OnScreen DEF Reapable
  <1>5. Sparing(<<>>) /\ Sparing(<<Despawn(S)>>) /\ Despawn(S) \in Command
    BY <1>4, PlainSpares, DespawnSpares, CommandTypes DEF Plain
  <1>6. PICK cmds \in {<<>>, <<Despawn(S)>>} : Queue(cmds)
    BY <1>2, <1>3
  <1>7. Sparing(cmds) /\ cmds \in Seq(Command)
    BY <1>5, <1>6, CallsAreCommands
  <1> QED
    BY <1>1, <1>6, <1>7, QueueingZero DEF Queueing

LEMMA ShowZero ==
    ASSUME TypeOK, SpawnsFresh, ZeroInv,
           Show \/ \E w \in Windows : Float(w) \/ FocusEvent(w)
    PROVE  ZeroInv'
  <1>1. /\ flush = "no" /\ UNCHANGED <<live, space, index, osSpaces, flush, sent, inbox>>
    BY DEF Show, Float, FocusEvent, Run, Idle, rows, os
  <1>2. CASE Show
    <2>1. PICK a \in active, S \in SUBSET Strips, W \in SUBSET Windows : Queue(<<Shown(a, S, W)>>)
      <3>1. PICK a \in active : \E W \in {{}} \cup {{w} : w \in {w \in wins[a] : a \in parked}} :
                Queue(<<Shown(a, Rows(space[a]) \ {a}, W)>>)
        BY <1>2 DEF Show
      <3>2. Rows(space[a]) \subseteq Strips /\ wins[a] \subseteq Windows
        BY OnScreen DEF TypeOK
      <3> QED
        BY <3>1, <3>2
    <2>2. Sparing(<<Shown(a, S, W)>>) /\ Shown(a, S, W) \in Command
      BY PlainSpares, CommandTypes, OnScreen DEF Plain
    <2> QED
      BY <1>1, <2>1, <2>2, CallsAreCommands, QueueingZero DEF Queueing
  <1>3. ASSUME NEW w \in Windows, Float(w) PROVE ZeroInv'
    <2>1. Queue(<<Leave(w)>>)
      BY <1>3 DEF Float
    <2>2. Sparing(<<Leave(w)>>) /\ Leave(w) \in Command
      BY PlainSpares, CommandTypes DEF Plain
    <2> QED
      BY <1>1, <2>1, <2>2, CallsAreCommands, QueueingZero DEF Queueing
  <1>4. ASSUME NEW w \in Windows, FocusEvent(w) PROVE ZeroInv'
    <2>1. PICK t \in Strips : Queue((IF t \in active THEN <<>> ELSE <<Activate(t)>>) \o <<Focus(w)>>)
      BY <1>4 DEF FocusEvent, Holders, TypeOK
    <2>2. /\ Sparing(<<>>) /\ Sparing(<<Activate(t)>>) /\ Sparing(<<Focus(w)>>)
          /\ Activate(t) \in Command /\ Focus(w) \in Command
      BY PlainSpares, CommandTypes DEF Plain
    <2>3. PICK first \in {<<>>, <<Activate(t)>>} : Queue(first \o <<Focus(w)>>)
      BY <2>1
    <2>4. first \in Seq(Command) /\ <<Focus(w)>> \in Seq(Command) /\ Sparing(first)
      BY <2>2, <2>3, CallsAreCommands
    <2>5. Sparing(first \o <<Focus(w)>>) /\ first \o <<Focus(w)>> \in Seq(Command)
      BY <2>2, <2>4, BothSpare, CallsAreCommands
    <2> QED
      BY <1>1, <2>3, <2>5, QueueingZero DEF Queueing
  <1> QED
    BY <1>2, <1>3, <1>4

------------------------------------------------------------------------------
(* The theorem *)

LEMMA InitZero == Init => ZeroInv
  <1> SUFFICES ASSUME Init PROVE ZeroInv
    OBVIOUS
  <1>1. Commands("spawn") = {} /\ Doomed = {} /\ Spawning = {} /\ sent \cup inbox = {}
    BY DEF Init, Commands, Doomed, Spawning
  <1>2. RowZeroKept
    <2> SUFFICES ASSUME NEW s \in osSpaces, NEW t \in Rows(s)
                 PROVE  RowsAt(s, 0) # {}
      BY DEF RowZeroKept
    <2>1. t \in DOMAIN Startup /\ Startup[t].space = s
      BY StartupAssumption DEF Init, Rows
    <2>2. PICK u \in DOMAIN Startup : Startup[u] = [space |-> s, index |-> 0]
      BY <2>1, StartupAssumption
    <2>3. u \in live /\ space[u] = s /\ index[u] = 0
      BY <2>2, StartupAssumption DEF Init
    <2> QED
      BY <2>3 DEF RowsAt, Rows
  <1> QED
    BY <1>1, <1>2 DEF ZeroInv, RowsHoused, ZerosSpared, Mourned

LEMMA NextZero == IInv /\ ZeroInv /\ [Next]_vars => ZeroInv'
  <1> SUFFICES ASSUME TypeOK, Applying, SpawnsFresh, ZeroInv, [Next]_vars PROVE ZeroInv'
    BY DEF IInv
  <1>1. CASE Frame
    BY <1>1, ApplyZero, RenumberZero, StillZero, ReapZero, ShowZero, ChangeZero, MoveZero,
       SpaceHandlerZero DEF Frame
  <1>2. CASE Outside
    BY <1>2, SwitchZero, StillZero, ShowZero, SpacesZero DEF Outside
  <1> QED
    BY <1>1, <1>2, StillZero DEF Next

\* A space that the OS has keeps a row at index 0 as long as it has rows, so
\* reap_empty_virtual_workspaces, renumber_virtual_indexes and the handlers of
\* spaces never leave it without the row that a return to it falls back on.
THEOREM RowZeroStays == Spec => []RowZeroKept
  <1>1. ZeroInv => RowZeroKept
    BY DEF ZeroInv
  <1> QED
    BY <1>1, InitZero, NextZero, InitInv, StepInv, PTL DEF Spec

------------------------------------------------------------------------------
(* One row in a space *)

\* Startup gives each space one row, and no command switches rows or moves a
\* window to another.
OneRowSpaces ==
    /\ \A t, u \in DOMAIN Startup : Startup[t].space = Startup[u].space => t = u
    /\ Inputs \cap {"switch", "move", "script"} = {}

\* The rows of s that are on their way, as places in the queue.
Coming(s) == {k \in DOMAIN queue : queue[k].op = "spawn" /\ queue[k].row.space = s}

\* A space has one row, there or on its way; a row on its way arrives before
\* the handlers of PostUpdate run.
OneRowOf(s) ==
    /\ \A t, u \in Rows(s) : t = u
    /\ \A j, k \in Coming(s) : j = k
    /\ Coming(s) # {} => Rows(s) = {} /\ phase = "update"

\* The creation of a space is told once, and before there is a row.
MadeOnce(s) ==
    /\ Created(s) \notin sent \cap inbox
    /\ Created(s) \in sent \cup inbox => s \in osSpaces /\ Rows(s) = {} /\ Coming(s) = {}

\* The destruction of a space is told, until its row is on its way out.
Leaving(s) ==
    s \notin osSpaces => \/ Destroyed(s) \in sent \cup inbox
                         \/ Coming(s) = {} /\ Rows(s) \subseteq Doomed

Sound(s) == OneRowOf(s) /\ MadeOnce(s) /\ Leaving(s)
GhostInv == marks = {} /\ \A s \in Normal : Sound(s)

\* What a step other than those of the life of s does to the news about it.
Told(s) ==
    /\ Created(s) \in sent' \cup inbox' => Created(s) \in sent \cup inbox
    /\ Created(s) \notin sent' \cap inbox'
    /\ Destroyed(s) \in sent \cup inbox => Destroyed(s) \in sent' \cup inbox'

LEMMA NewsDiffer ==
    \A s, t : /\ Created(s) = Created(t) => s = t
              /\ Destroyed(s) = Destroyed(t) => s = t
              /\ Created(s) # Destroyed(t) /\ Created(s) # Changed /\ Destroyed(s) # Changed
  BY DEF Created, Destroyed, Changed

\* Steps that bring s no row and take none away.
LEMMA SoundStays ==
    ASSUME NEW s, Sound(s), UNCHANGED <<live, space, osSpaces>>, Told(s),
           Coming(s)' = Coming(s), Doomed \subseteq Doomed',
           phase' = phase \/ Coming(s) = {}
    PROVE  Sound(s)'
  <1>1. Rows(s)' = Rows(s)
    BY DEF Rows
  <1>2. OneRowOf(s)'
    BY <1>1 DEF Sound, OneRowOf
  <1>3. MadeOnce(s)'
    BY <1>1 DEF Sound, MadeOnce, Told
  <1>4. Leaving(s)'
    BY <1>1 DEF Sound, Leaving, Told
  <1> QED
    BY <1>2, <1>3, <1>4 DEF Sound

\* Calls that bring no row to an ordinary space.
Barren(cmds) == \A k \in DOMAIN cmds : cmds[k].op = "spawn" => cmds[k].row.space \notin Normal

LEMMA BarrenCalls ==
    /\ Barren(<<>>)
    /\ \A t : Barren(<<Activate(t)>>) /\ Barren(<<Focus(t)>>) /\ Barren(<<Leave(t)>>)
    /\ \A t, S, W : Barren(<<Shown(t, S, W)>>)
    /\ \A S : Barren(<<Despawn(S)>>)
    /\ \A t, w : Barren(<<Activate(t)>> \o <<Focus(w)>>)
  BY DEF Barren, Activate, Focus, Leave, Shown, Despawn

\* What is on its way once a call is queued.
LEMMA QueueBrings ==
    ASSUME queue \in Seq(Command), NEW cmds \in Seq(Command), Queue(cmds), NEW s
    PROVE  Coming(s)' = Coming(s) \cup
              {Len(queue) + k : k \in {k \in DOMAIN cmds : cmds[k].op = "spawn" /\ cmds[k].row.space = s}}
  <1> DEFINE both == queue \o cmds
  <1>1. /\ Len(queue) \in Nat /\ Len(cmds) \in Nat /\ DOMAIN both = 1..(Len(queue) + Len(cmds))
        /\ DOMAIN queue = 1..Len(queue) /\ DOMAIN cmds = 1..Len(cmds)
    OBVIOUS
  <1>2. \A k \in DOMAIN both : \/ k \in DOMAIN queue /\ both[k] = queue[k]
                               \/ /\ k - Len(queue) \in DOMAIN cmds
                                  /\ both[k] = cmds[k - Len(queue)]
                                  /\ k = Len(queue) + (k - Len(queue))
    OBVIOUS
  <1>3. \A k \in DOMAIN queue : k \in DOMAIN both /\ both[k] = queue[k]
    OBVIOUS
  <1>4. \A k \in DOMAIN cmds : Len(queue) + k \in DOMAIN both /\ both[Len(queue) + k] = cmds[k]
    OBVIOUS
  <1>5. queue' = both
    BY DEF Queue
  <1> HIDE DEF both
  <1> QED
    BY <1>2, <1>3, <1>4, <1>5 DEF Coming

\* A call that brings s no row leaves it sound.
LEMMA QueueSound ==
    ASSUME TypeOK, NEW s, Sound(s), NEW cmds \in Seq(Command), Queue(cmds),
           \A k \in DOMAIN cmds : cmds[k].op = "spawn" => cmds[k].row.space # s,
           UNCHANGED <<live, space, osSpaces, phase>>, Told(s)
    PROVE  Sound(s)'
  <1>1. queue \in Seq(Command)
    BY DEF TypeOK
  <1>2. Coming(s)' = Coming(s)
    <2>1. PICK K : K = {k \in DOMAIN cmds : cmds[k].op = "spawn" /\ cmds[k].row.space = s}
      OBVIOUS
    <2>2. K = {}
      BY <2>1
    <2>3. Coming(s)' = Coming(s) \cup {Len(queue) + k : k \in K}
      BY <1>1, <2>1, QueueBrings
    <2> QED
      BY <2>2, <2>3
  <1>3. Commands("despawn") \subseteq Commands("despawn")'
    BY <1>1, QueueHas
  <1>4. Doomed \subseteq Doomed'
    BY <1>3 DEF Doomed
  <1> QED
    BY <1>2, <1>4, SoundStays

\* The systems that queue a call, with the notices they have read.
Calling(cmds) ==
    /\ cmds \in Seq(Command) /\ Barren(cmds) /\ Queue(cmds)
    /\ UNCHANGED <<live, space, osSpaces, phase, marks, sent>>
    /\ inbox' \in {inbox, inbox \ {Changed}}

LEMMA CallingGhost ==
    ASSUME TypeOK, GhostInv, NEW cmds, Calling(cmds)
    PROVE  GhostInv'
  <1> SUFFICES ASSUME NEW s \in Normal PROVE Sound(s)'
    BY DEF GhostInv, Calling
  <1>1. Sound(s)
    BY DEF GhostInv
  <1>2. Told(s)
    BY <1>1, NewsDiffer DEF Told, Sound, MadeOnce, Calling
  <1> QED
    BY <1>1, <1>2, QueueSound DEF Calling, Barren

\* Steps that leave the queue and the rows' lives alone.
LEMMA StillGhost ==
    ASSUME TypeOK, GhostInv, OneRowSpaces,
           \/ Sync \/ EndPhase \/ Pump \/ Renumber \/ Detect \/ StartMoves
           \/ (\E m \in todo : MoveOne(m))
           \/ SwitchBind \/ MoveBind
           \/ (\E w \in Windows, i \in Indices, follow \in BOOLEAN : ScriptMove(w, i, follow))
           \/ (\E w \in Windows : Place(w))
           \/ (\E s \in Spaces : OSSwitch(s))
           \/ (\E w \in Windows, s \in Spaces : OSDrag(w, s))
           \/ UNCHANGED vars
    PROVE  GhostInv'
  <1>1. ~SwitchBind /\ ~MoveBind /\ ~StartMoves /\ todo = {}
        /\ \A w, i, follow : ~ScriptMove(w, i, follow)
    BY DEF OneRowSpaces, SwitchBind, MoveBind, ScriptMove, StartMoves, GhostInv, TypeOK
  <1>2. /\ UNCHANGED <<live, space, queue, osSpaces, marks>>
        /\ phase' = phase \/ queue = <<>>
    <2>1. CASE Sync \/ EndPhase \/ Pump
      BY <2>1 DEF Sync, EndPhase, Flushed, Pump, rows, sched, os
    <2>2. CASE Renumber \/ Detect
      BY <2>2 DEF Renumber, Detect, Run, rows, os
    <2>3. CASE (\E w \in Windows : Place(w)) \/ (\E s \in Spaces : OSSwitch(s))
                \/ (\E w \in Windows, s \in Spaces : OSDrag(w, s)) \/ UNCHANGED vars
      BY <2>3 DEF Place, OSSwitch, OSDrag, OSStep, rows, sched, os, vars
    <2> QED
      BY <1>1, <2>1, <2>2, <2>3
  <1>3. \/ UNCHANGED <<sent, inbox>>
        \/ UNCHANGED inbox /\ sent' = sent \cup {Changed}
        \/ \E n \in sent : sent' = sent \ {n} /\ inbox' = inbox \cup {n}
    <2>1. CASE Sync \/ EndPhase
      BY <2>1 DEF Sync, EndPhase, os
    <2>2. CASE Pump
      BY <2>2 DEF Pump
    <2>3. CASE Renumber \/ Detect
      BY <2>3 DEF Renumber, Detect, os
    <2>4. CASE (\E w \in Windows : Place(w)) \/ (\E s \in Spaces : OSSwitch(s))
                \/ (\E w \in Windows, s \in Spaces : OSDrag(w, s)) \/ UNCHANGED vars
      BY <2>4 DEF Place, OSSwitch, OSDrag, OSStep, os, vars
    <2> QED
      BY <1>1, <2>1, <2>2, <2>3, <2>4
  <1> SUFFICES ASSUME NEW s \in Normal PROVE Sound(s)'
    BY <1>2 DEF GhostInv
  <1>4. Sound(s)
    BY DEF GhostInv
  <1>5. Told(s)
    BY <1>3, <1>4, NewsDiffer DEF Told, Sound, MadeOnce
  <1>6. Coming(s)' = Coming(s) /\ Doomed' = Doomed
    BY <1>2 DEF Coming, Doomed, Commands
  <1>7. queue = <<>> => Coming(s) = {}
    BY DEF Coming
  <1> QED
    BY <1>2, <1>4, <1>5, <1>6, <1>7, SoundStays

\* Applying a command: a row that comes is the first, and one that goes leaves
\* nothing behind that is not doomed.
LEMMA ApplyGhost ==
    ASSUME TypeOK, Applying, SpawnsFresh, GhostInv, Apply
    PROVE  GhostInv'
  <1> DEFINE c == Head(queue)
  <1>1. /\ queue \in Seq(Command) /\ queue # <<>> /\ queue' = Tail(queue)
        /\ c \in Command /\ c = queue[1] /\ 1 \in DOMAIN queue
        /\ \A k \in DOMAIN queue' : k \in Nat /\ k + 1 \in DOMAIN queue /\ queue'[k] = queue[k + 1]
        /\ \A k \in DOMAIN queue : k = 1 \/ (k - 1 \in DOMAIN queue' /\ queue'[k - 1] = queue[k])
    BY DEF Apply, Applying, TypeOK
  <1>2. UNCHANGED <<osSpaces, marks, sent, inbox>>
    BY DEF Apply, os
  <1>3. phase' = phase \/ queue' = <<>>
    BY <1>1 DEF Apply, Flushed
  <1> SUFFICES ASSUME NEW s \in Normal PROVE Sound(s)'
    BY <1>2 DEF GhostInv
  <1>4. Sound(s)
    BY DEF GhostInv
  <1>5. \A k \in Coming(s)' : k \in Nat /\ k + 1 \in Coming(s)
    BY <1>1 DEF Coming
  <1>6. \A j, k \in Coming(s)' : j = k
    <2> SUFFICES ASSUME NEW j \in Coming(s)', NEW k \in Coming(s)' PROVE j = k
      OBVIOUS
    <2>1. j + 1 = k + 1 /\ j \in Nat /\ k \in Nat
      BY <1>4, <1>5 DEF Sound, OneRowOf
    <2> QED
      BY <2>1
  <1>7. Coming(s)' # {} => Coming(s) # {} /\ phase' = "update"
    <2>1. queue' = <<>> => Coming(s)' = {}
      BY DEF Coming
    <2> QED
      BY <1>3, <1>4, <1>5, <2>1 DEF Sound, OneRowOf
  <1>9. CASE c.op = "spawn" /\ ApplySpawn(c.row, c.mark)
    <2>1. PICK t, z : t = c.row.strip /\ z = c.row.space
      OBVIOUS
    <2>2. t \notin live /\ t \in Strips
      <3>1. c.row \in Row
        BY <1>1, <1>9, CommandFields
      <3> QED
        BY <1>1, <1>9, <2>1, <3>1 DEF SpawnsFresh, FreshIn, Row
    <2>3. live' = live \cup {t} /\ space' = [space EXCEPT ![t] = z]
      BY <1>9, <2>1 DEF ApplySpawn
    <2>4. space'[t] = z /\ \A u \in live : space'[u] = space[u]
      BY <2>2, <2>3 DEF TypeOK
    <2>5. \A d \in Commands("despawn") : d \in Commands("despawn")'
      <3> TAKE d \in Commands("despawn")
      <3>1. PICK k \in DOMAIN queue : d = queue[k] /\ queue[k].op = "despawn"
        BY DEF Commands
      <3>2. k # 1
        BY <1>1, <1>9, <3>1
      <3> QED
        BY <1>1, <3>1, <3>2 DEF Commands
    <2>6. Doomed \subseteq Doomed'
      BY <2>5 DEF Doomed
    <2>7. CASE z = s
      <3>1. 1 \in Coming(s)
        BY <1>1, <1>9, <2>1, <2>7 DEF Coming
      <3>2. Rows(s) = {} /\ Coming(s)' = {}
        <4>1. \A k \in Coming(s)' : k = 0
          BY <1>4, <1>5, <3>1 DEF Sound, OneRowOf
        <4>2. \A k \in Coming(s)' : k \in 1..Len(queue')
          BY <1>1 DEF Coming
        <4> QED
          BY <1>4, <3>1, <4>1, <4>2 DEF Sound, OneRowOf
      <3>3. Rows(s)' = {t}
        BY <2>3, <2>4, <2>7, <3>2 DEF Rows
      <3>4. OneRowOf(s)'
        BY <3>2, <3>3 DEF OneRowOf
      <3>5. MadeOnce(s)'
        BY <1>2, <1>4, <3>1 DEF Sound, MadeOnce
      <3>6. Leaving(s)'
        BY <1>2, <1>4, <3>1 DEF Sound, Leaving
      <3> QED
        BY <3>4, <3>5, <3>6 DEF Sound
    <2>8. CASE z # s
      <3>1. Rows(s)' = Rows(s)
        BY <2>2, <2>3, <2>4, <2>8 DEF Rows
      <3>2. OneRowOf(s)'
        BY <1>4, <1>6, <1>7, <3>1 DEF Sound, OneRowOf
      <3>3. MadeOnce(s)'
        BY <1>2, <1>4, <1>7, <3>1 DEF Sound, MadeOnce
      <3>4. Leaving(s)'
        BY <1>2, <1>4, <1>7, <2>6, <3>1 DEF Sound, Leaving
      <3> QED
        BY <3>2, <3>3, <3>4 DEF Sound
    <2> QED
      BY <2>7, <2>8
  <1>10. CASE c.op = "despawn" /\ ApplyDespawn(c.strips)
    <2>1. PICK S : S = c.strips
      OBVIOUS
    <2>2. live' = live \ S /\ \A u \in live \ S : space'[u] = space[u]
      BY <1>10, <2>1 DEF ApplyDespawn, Cleared, TypeOK
    <2>3. Rows(s)' = Rows(s) \ S
      BY <2>2 DEF Rows
    <2>4. Doomed \subseteq S \cup Doomed'
      <3> SUFFICES ASSUME NEW t \in Doomed, t \notin S PROVE t \in Doomed'
        OBVIOUS
      <3>1. PICK k \in DOMAIN queue : queue[k].op = "despawn" /\ t \in queue[k].strips
        BY DEF Doomed, Commands
      <3>2. k # 1
        BY <1>1, <2>1, <3>1
      <3>3. queue[k] \in Commands("despawn")'
        BY <1>1, <3>1, <3>2 DEF Commands
      <3> QED
        BY <3>1, <3>3 DEF Doomed
    <2>5. OneRowOf(s)'
      BY <1>4, <1>6, <1>7, <2>3 DEF Sound, OneRowOf
    <2>6. MadeOnce(s)'
      BY <1>2, <1>4, <1>7, <2>3 DEF Sound, MadeOnce
    <2>7. Leaving(s)'
      BY <1>2, <1>4, <1>7, <2>3, <2>4 DEF Sound, Leaving
    <2> QED
      BY <2>5, <2>6, <2>7 DEF Sound
  <1>11. CASE c.op \notin {"spawn", "despawn"} /\ UNCHANGED <<live, space>>
    <2>1. Rows(s)' = Rows(s)
      BY <1>11 DEF Rows
    <2>2. \A d \in Commands("despawn") : d \in Commands("despawn")'
      <3> TAKE d \in Commands("despawn")
      <3>1. PICK k \in DOMAIN queue : d = queue[k] /\ queue[k].op = "despawn"
        BY DEF Commands
      <3>2. k # 1
        BY <1>1, <1>11, <3>1
      <3> QED
        BY <1>1, <3>1, <3>2 DEF Commands
    <2>3. Doomed \subseteq Doomed'
      BY <2>2 DEF Doomed
    <2>4. OneRowOf(s)'
      BY <1>4, <1>6, <1>7, <2>1 DEF Sound, OneRowOf
    <2>5. MadeOnce(s)'
      BY <1>2, <1>4, <1>7, <2>1 DEF Sound, MadeOnce
    <2>6. Leaving(s)'
      BY <1>2, <1>4, <1>7, <2>1, <2>3 DEF Sound, Leaving
    <2> QED
      BY <2>4, <2>5, <2>6 DEF Sound
  <1> QED
    BY <1>9, <1>10, <1>11 DEF Apply, ApplyActivate, ApplyFocus, ApplyShown, ApplyLeave, rows

\* The row of a space that is made.
LEMMA CreatedGhost ==
    ASSUME TypeOK, GhostInv, NEW z \in Spaces, CreatedSpace(z)
    PROVE  GhostInv'
  <1>1. UNCHANGED <<live, space, osSpaces, phase, marks, sent>> /\ inbox' = inbox \ {Created(z)}
        /\ phase = "update" /\ Created(z) \in inbox
    BY DEF CreatedSpace, rows, os
  <1> SUFFICES ASSUME NEW s \in Normal PROVE Sound(s)'
    BY <1>1 DEF GhostInv
  <1>2. Sound(s)
    BY DEF GhostInv
  <1>3. Told(s)
    BY <1>1, <1>2, NewsDiffer DEF Told, Sound, MadeOnce
  <1>4. CASE UNCHANGED queue
    <2>1. Coming(s)' = Coming(s) /\ Doomed' = Doomed
      BY <1>4 DEF Coming, Doomed, Commands
    <2> QED
      BY <1>1, <1>2, <1>3, <2>1, SoundStays
  <1>5. ASSUME NEW n \in Unused, Queue(<<Spawn(NewRow(n, z, 0, {}), "selected")>>)
        PROVE  Sound(s)'
    <2>1. PICK cmds : cmds = <<Spawn(NewRow(n, z, 0, {}), "selected")>>
      OBVIOUS
    <2>2. cmds \in Seq(Command)
      <3>1. NewRow(n, z, 0, {}) \in Row
        BY NewRowType, IndexAssumption DEF Unused, Indices
      <3> QED
        BY <2>1, <3>1, CommandTypes, CallsAreCommands
    <2>3. DOMAIN cmds = {1} /\ cmds[1].op = "spawn" /\ cmds[1].row.space = z
      BY <2>1 DEF Spawn, NewRow
    <2>4. CASE z # s
      BY <1>1, <1>2, <1>3, <1>5, <2>1, <2>2, <2>3, <2>4, QueueSound
    <2>5. CASE z = s
      <3>1. Rows(s) = {} /\ Coming(s) = {} /\ Created(s) \notin sent /\ s \in osSpaces
        BY <1>1, <1>2, <2>5 DEF Sound, MadeOnce
      <3>2. Coming(s)' = {Len(queue) + k : k \in {1}}
        <4>1. {k \in DOMAIN cmds : cmds[k].op = "spawn" /\ cmds[k].row.space = s} = {1}
          BY <2>3, <2>5
        <4>2. queue \in Seq(Command) /\ Queue(cmds)
          BY <1>5, <2>1 DEF TypeOK
        <4> QED
          BY <2>2, <3>1, <4>1, <4>2, QueueBrings
      <3>3. Rows(s)' = {}
        BY <1>1, <3>1 DEF Rows
      <3>4. OneRowOf(s)'
        BY <1>1, <3>2, <3>3 DEF OneRowOf
      <3>5. Created(s) \notin sent' \cup inbox'
        BY <1>1, <2>5, <3>1
      <3>6. MadeOnce(s)' /\ Leaving(s)'
        BY <1>1, <3>1, <3>5 DEF MadeOnce, Leaving
      <3> QED
        BY <3>4, <3>6 DEF Sound
    <2> QED
      BY <2>4, <2>5
  <1> QED
    BY <1>4, <1>5 DEF CreatedSpace

\* The row of a space that is gone.
LEMMA DestroyedGhost ==
    ASSUME TypeOK, GhostInv, NEW z \in Spaces, DestroyedSpace(z)
    PROVE  GhostInv'
  <1>1. UNCHANGED <<live, space, osSpaces, phase, marks, sent>> /\ inbox' = inbox \ {Destroyed(z)}
        /\ phase = "post"
    BY DEF DestroyedSpace, rows, os
  <1> SUFFICES ASSUME NEW s \in Normal PROVE Sound(s)'
    BY <1>1 DEF GhostInv
  <1>2. Sound(s)
    BY DEF GhostInv
  <1>3. Coming(s) = {} /\ Rows(s)' = Rows(s)
    BY <1>1, <1>2 DEF Sound, OneRowOf, Rows
  <1>4. Created(s) \in inbox' => Created(s) \in inbox
    BY <1>1
  <1>5. z # s => Told(s)
    BY <1>1, <1>2, <1>4, NewsDiffer DEF Told, Sound, MadeOnce
  <1>6. CASE Rows(z) = {}
    <2>1. Coming(s)' = Coming(s) /\ Doomed' = Doomed
      BY <1>6 DEF DestroyedSpace, Coming, Doomed, Commands
    <2>2. CASE z # s
      BY <1>1, <1>2, <1>5, <2>1, <2>2, SoundStays
    <2>3. CASE z = s
      <3>1. Rows(s)' = {} /\ Coming(s)' = {}
        BY <1>3, <1>6, <2>1, <2>3
      <3>2. OneRowOf(s)' /\ Leaving(s)'
        BY <3>1 DEF OneRowOf, Leaving
      <3>3. MadeOnce(s)'
        BY <1>1, <1>2, <1>4, <3>1 DEF Sound, MadeOnce
      <3> QED
        BY <3>2, <3>3 DEF Sound
    <2> QED
      BY <2>2, <2>3
  <1>7. ASSUME NEW t \in Rows(z), Queue(<<Despawn({t})>>)
        PROVE  Sound(s)'
    <2>1. PICK cmds : cmds = <<Despawn({t})>>
      OBVIOUS
    <2>2. cmds \in Seq(Command)
      <3>1. {t} \in SUBSET Strips
        BY DEF Rows, TypeOK
      <3> QED
        BY <2>1, <3>1, CommandTypes, CallsAreCommands DEF Plain
    <2>3. DOMAIN cmds = {1} /\ cmds[1].op = "despawn" /\ cmds[1].strips = {t}
      BY <2>1 DEF Despawn
    <2>4. queue \in Seq(Command) /\ Queue(cmds)
      BY <1>7, <2>1 DEF TypeOK
    <2>5. CASE z # s
      BY <1>1, <1>2, <1>5, <2>2, <2>3, <2>4, <2>5, QueueSound
    <2>6. CASE z = s
      <3>1. Coming(s)' = {}
        BY <1>3, <2>2, <2>3, <2>4, QueueBrings
      <3>2. cmds[1] \in Commands("despawn")'
        BY <2>2, <2>3, <2>4, QueueHas
      <3>3. t \in Doomed'
        BY <2>3, <3>2 DEF Doomed
      <3>4. Rows(s) \subseteq {t}
        BY <1>2, <1>7, <2>6 DEF Sound, OneRowOf
      <3>5. OneRowOf(s)'
        BY <1>2, <1>3, <3>1 DEF Sound, OneRowOf
      <3>6. Leaving(s)'
        BY <1>3, <3>1, <3>3, <3>4 DEF Leaving
      <3>7. MadeOnce(s)'
        BY <1>1, <1>2, <1>3, <1>4, <3>1 DEF Sound, MadeOnce
      <3> QED
        BY <3>5, <3>6, <3>7 DEF Sound
    <2> QED
      BY <2>5, <2>6
  <1> QED
    BY <1>6, <1>7 DEF DestroyedSpace, Despawning

\* The spaces come and go between two systems.
LEMMA SpacesGhost ==
    ASSUME TypeOK, GhostInv, NEW z \in Spaces,
           OSDestroy(z) \/ OSCreate(z) \/ \E w \in Windows : OSFullscreen(w, z)
    PROVE  GhostInv'
  <1>1. UNCHANGED <<live, space, queue, phase, marks, inbox>>
    BY DEF OSDestroy, OSCreate, OSFullscreen, OSStep, rows, sched
  <1> SUFFICES ASSUME NEW s \in Normal PROVE Sound(s)'
    BY <1>1 DEF GhostInv
  <1>2. Sound(s)
    BY DEF GhostInv
  <1>3. Rows(s)' = Rows(s) /\ Coming(s)' = Coming(s) /\ Doomed' = Doomed
    BY <1>1 DEF Rows, Coming, Doomed, Commands
  <1>4. OneRowOf(s)'
    BY <1>1, <1>2, <1>3 DEF Sound, OneRowOf
  <1>5. CASE OSDestroy(z)
    <2>1. /\ osSpaces' = osSpaces \ {z} /\ Created(z) \notin sent \cup inbox
          /\ Destroyed(z) \in sent' /\ sent \subseteq sent'
          /\ sent' \subseteq sent \cup {Destroyed(z), Changed}
      BY <1>5 DEF OSDestroy
    <2>2. MadeOnce(s)'
      BY <1>1, <1>2, <1>3, <2>1, NewsDiffer DEF Sound, MadeOnce
    <2>3. Leaving(s)'
      BY <1>1, <1>2, <1>3, <2>1 DEF Sound, Leaving
    <2> QED
      BY <1>4, <2>2, <2>3 DEF Sound
  <1>6. CASE ~OSDestroy(z)
    <2>1. /\ osSpaces' = osSpaces \cup {z} /\ z \notin osSpaces /\ Rows(z) = {}
          /\ Destroyed(z) \notin sent \cup inbox
          /\ sent \subseteq sent' /\ sent' \subseteq sent \cup {Created(z), Changed}
      BY <1>6 DEF OSCreate, OSFullscreen
    <2>2. CASE z = s
      <3>1. Coming(s) = {} /\ Rows(s) = {} /\ Created(s) \notin inbox
        BY <1>2, <2>1, <2>2 DEF Sound, Leaving, MadeOnce
      <3> QED
        BY <1>1, <1>3, <1>4, <2>1, <2>2, <3>1 DEF Sound, MadeOnce, Leaving
    <2>3. CASE z # s
      <3>1. MadeOnce(s)'
        BY <1>1, <1>2, <1>3, <2>1, <2>3, NewsDiffer DEF Sound, MadeOnce
      <3>2. Leaving(s)'
        BY <1>1, <1>2, <1>3, <2>1, <2>3 DEF Sound, Leaving
      <3> QED
        BY <1>4, <3>1, <3>2 DEF Sound
    <2> QED
      BY <2>2, <2>3
  <1> QED
    BY <1>5, <1>6

\* The systems that queue a call which brings no row to an ordinary space.
LEMMA SystemsGhost ==
    ASSUME TypeOK, GhostInv,
           Reap \/ Show \/ Change \/ \E w \in Windows : Float(w) \/ FocusEvent(w)
    PROVE  GhostInv'
  <1>1. /\ UNCHANGED <<live, space, osSpaces, phase, marks, sent>>
        /\ inbox' \in {inbox, inbox \ {Changed}}
    BY DEF Reap, Show, Change, Float, FocusEvent, Run, rows, os
  <1>2. CASE Reap
    <2>1. PICK a \in active : Queue(IF Reapable(a) = {} THEN <<>> ELSE <<Despawn(Reapable(a))>>)
      BY <1>2 DEF Reap
    <2>2. PICK S : S = Reapable(a)
      OBVIOUS
    <2>3. S \in SUBSET Strips
      BY <2>2, OnScreen DEF Reapable
    <2>4. Barren(<<>>) /\ Barren(<<Despawn(S)>>) /\ Despawn(S) \in Command
      BY <2>3, BarrenCalls, CommandTypes DEF Plain
    <2>5. PICK cmds \in {<<>>, <<Despawn(S)>>} : Queue(cmds)
      BY <2>1, <2>2
    <2>6. Barren(cmds) /\ cmds \in Seq(Command)
      BY <2>4, <2>5, CallsAreCommands
    <2> QED
      BY <1>1, <2>5, <2>6, CallingGhost DEF Calling
  <1>3. CASE Show
    <2>1. PICK a \in active, S \in SUBSET Strips, W \in SUBSET Windows : Queue(<<Shown(a, S, W)>>)
      <3>1. PICK a \in active : \E W \in {{}} \cup {{w} : w \in {w \in wins[a] : a \in parked}} :
                Queue(<<Shown(a, Rows(space[a]) \ {a}, W)>>)
        BY <1>3 DEF Show
      <3>2. Rows(space[a]) \subseteq Strips /\ wins[a] \subseteq Windows
        BY OnScreen DEF TypeOK
      <3> QED
        BY <3>1, <3>2
    <2>2. Barren(<<Shown(a, S, W)>>) /\ Shown(a, S, W) \in Command
      BY BarrenCalls, CommandTypes, OnScreen DEF Plain
    <2> QED
      BY <1>1, <2>1, <2>2, CallsAreCommands, CallingGhost DEF Calling
  <1>4. CASE Change
    <2>1. CASE UNCHANGED queue
      <3>1. Queue(<<>>)
        BY <2>1 DEF Queue, TypeOK
      <3> QED
        BY <1>1, <3>1, BarrenCalls, CallsAreCommands, CallingGhost DEF Calling
    <2>2. ASSUME NEW t \in Strips, Queue(<<Activate(t)>>)
          PROVE  GhostInv'
      <3>1. Barren(<<Activate(t)>>) /\ <<Activate(t)>> \in Seq(Command)
        BY BarrenCalls, CommandTypes, CallsAreCommands DEF Plain
      <3> QED
        BY <1>1, <2>2, <3>1, CallingGhost DEF Calling
    <2>3. ASSUME NEW a \in active, NEW w \in wins[a], NEW n \in Unused, osSpace \in Full,
                 Queue(<<Spawn([NewRow(n, osSpace, 0, {w}) EXCEPT
                                   !.home = {[strip |-> a, space |-> space[a]]}], "active")>>)
          PROVE  GhostInv'
      <3>1. PICK r : r = [NewRow(n, osSpace, 0, {w}) EXCEPT !.home = {[strip |-> a, space |-> space[a]]}]
        OBVIOUS
      <3>2. r \in Row /\ r.space = osSpace
        <4>1. NewRow(n, osSpace, 0, {w}) \in Row
          BY OnScreen, NewRowType, IndexAssumption DEF TypeOK, Unused, Indices
        <4>2. {[strip |-> a, space |-> space[a]]} \in Homes
          BY OnScreen DEF Homes
        <4>3. r.space = osSpace
          BY <3>1 DEF NewRow
        <4>4. r \in Row
          BY <3>1, <4>1, <4>2 DEF Row
        <4> QED
          BY <4>3, <4>4
      <3>3. osSpace \notin Normal
        BY <2>3, SpacesAssumption
      <3>4. Barren(<<Spawn(r, "active")>>)
        BY <3>2, <3>3 DEF Barren, Spawn
      <3>5. <<Spawn(r, "active")>> \in Seq(Command)
        BY <3>2, CommandTypes, CallsAreCommands
      <3> QED
        BY <1>1, <2>3, <3>1, <3>4, <3>5, CallingGhost DEF Calling
    <2>4. \/ UNCHANGED queue
          \/ \E t \in Strips : Queue(<<Activate(t)>>)
          \/ /\ osSpace \in Full
             /\ \E a \in active : \E w \in wins[a], n \in Unused :
                Queue(<<Spawn([NewRow(n, osSpace, 0, {w}) EXCEPT
                                   !.home = {[strip |-> a, space |-> space[a]]}], "active")>>)
      BY <1>4 DEF Change, Rows, Lowest, TypeOK, FullscreenCandidates
    <2> QED
      BY <2>1, <2>2, <2>3, <2>4
  <1>5. ASSUME NEW w \in Windows, Float(w) PROVE GhostInv'
    <2>1. Queue(<<Leave(w)>>)
      BY <1>5 DEF Float
    <2>2. Barren(<<Leave(w)>>) /\ Leave(w) \in Command
      BY BarrenCalls, CommandTypes DEF Plain
    <2> QED
      BY <1>1, <2>1, <2>2, CallsAreCommands, CallingGhost DEF Calling
  <1>6. ASSUME NEW w \in Windows, FocusEvent(w) PROVE GhostInv'
    <2>1. PICK t \in Strips : Queue((IF t \in active THEN <<>> ELSE <<Activate(t)>>) \o <<Focus(w)>>)
      BY <1>6 DEF FocusEvent, Holders, TypeOK
    <2>2. /\ Barren(<<Focus(w)>>) /\ Barren(<<Activate(t)>> \o <<Focus(w)>>)
          /\ Activate(t) \in Command /\ Focus(w) \in Command
      BY BarrenCalls, CommandTypes DEF Plain
    <2>3. <<Focus(w)>> \in Seq(Command) /\ <<Activate(t)>> \o <<Focus(w)>> \in Seq(Command)
          /\ <<>> \o <<Focus(w)>> = <<Focus(w)>>
      BY <2>2, CallsAreCommands
    <2>4. PICK cmds \in {<<Focus(w)>>, <<Activate(t)>> \o <<Focus(w)>>} : Queue(cmds)
      BY <2>1, <2>3
    <2>5. cmds \in Seq(Command) /\ Barren(cmds)
      BY <2>2, <2>3, <2>4
    <2> QED
      BY <1>1, <2>4, <2>5, CallingGhost DEF Calling
  <1> QED
    BY <1>2, <1>3, <1>4, <1>5, <1>6

------------------------------------------------------------------------------
(* The theorem *)

LEMMA InitGhost == Init /\ OneRowSpaces => GhostInv
  <1> SUFFICES ASSUME Init, OneRowSpaces, NEW s \in Normal PROVE Sound(s)
    BY DEF GhostInv, Init
  <1>1. Coming(s) = {} /\ sent = {} /\ inbox = {} /\ osSpaces = {space[t] : t \in live}
    BY DEF Init, Coming
  <1>2. \A t \in live : t \in DOMAIN Startup /\ Startup[t].space = space[t]
    BY StartupAssumption DEF Init
  <1>3. \A t, u \in Rows(s) : t = u
    BY <1>2 DEF Rows, OneRowSpaces
  <1>4. s \notin osSpaces => Rows(s) = {}
    BY <1>1 DEF Rows
  <1> QED
    BY <1>1, <1>3, <1>4 DEF Sound, OneRowOf, MadeOnce, Leaving

LEMMA NextGhost == IInv /\ GhostInv /\ OneRowSpaces /\ [Next]_vars => GhostInv'
  <1> SUFFICES ASSUME TypeOK, Applying, SpawnsFresh, GhostInv, OneRowSpaces, [Next]_vars
               PROVE  GhostInv'
    BY DEF IInv
  <1>1. CASE Frame
    BY <1>1, ApplyGhost, StillGhost, SystemsGhost, CreatedGhost, DestroyedGhost DEF Frame
  <1>2. CASE Outside
    BY <1>2, StillGhost, SystemsGhost, SpacesGhost DEF Outside
  <1> QED
    BY <1>1, <1>2, StillGhost DEF Next

\* Once nothing is left to do, every row of an ordinary space is one of a space
\* that exists, in whatever order its creation, its rows' focus, the change of
\* space and the destruction arrive (workspace_created_handler,
\* workspace_destroyed_handler).
THEOREM NoRowOutlives == Spec /\ OneRowSpaces => []NoGhostRows
  <1>1. GhostInv => NoGhostRows
    <2> SUFFICES ASSUME GhostInv, Quiet, NEW t \in live, space[t] \in Normal
                 PROVE  space[t] \in osSpaces
      BY DEF NoGhostRows
    <2>1. Leaving(space[t]) /\ t \in Rows(space[t])
      BY DEF GhostInv, Sound, Rows
    <2>2. Doomed = {}
      BY DEF Quiet, Doomed, Commands
    <2> QED
      BY <2>1, <2>2 DEF Leaving, Quiet
  <1>2. OneRowSpaces => OneRowSpaces'
    BY DEF OneRowSpaces
  <1> QED
    BY <1>1, <1>2, InitGhost, NextGhost, InitInv, StepInv, PTL DEF Spec

================================================================================
