----------------------------- MODULE LayoutOps_proofs -----------------------------
(****************************************************************************)
(* No transform of the window set loses a window, the layout keeps its      *)
(* types, and each window is tiled once, for any windows, workspaces,       *)
(* displays and operations.                                                 *)
(****************************************************************************)
EXTENDS LayoutOps, Sequences_proofs

------------------------------------------------------------------------------
(* Lookups *)

\* The least of a set of positive numbers is in it, and 0 stands for none.
LEMMA LowestIn ==
    ASSUME NEW T \in SUBSET (Nat \ {0})
    PROVE  (T = {} => Lowest(T) = 0) /\ (T # {} => Lowest(T) \in T /\ Lowest(T) # 0)
  <1>1. T \in SUBSET Nat
    OBVIOUS
  <1>2. T # {} => Min(T) \in T
    BY <1>1, MinIn
  <1> QED
    BY <1>2 DEF Lowest

\* The first place with a property, if there is one.
LEMMA FirstIn ==
    ASSUME NEW P \in SUBSET (Nat \X Nat)
    PROVE  FirstOf(P) \subseteq P /\ (P # {} => FirstOf(P) # {})
  <1>1. FirstOf(P) \subseteq P
    BY DEF FirstOf
  <1>2. ASSUME P # {} PROVE FirstOf(P) # {}
    <2> DEFINE firsts == {p[1] : p \in P}
    <2>1. PICK i \in firsts : \A j \in firsts : i <= j
      <3>1. firsts \in SUBSET Nat /\ firsts # {}
        BY <1>2
      <3> HIDE DEF firsts
      <3> QED
        BY <3>1, LeastOf
    <2> DEFINE seconds == {p[2] : p \in {p \in P : p[1] = i}}
    <2>2. PICK k \in seconds : \A j \in seconds : k <= j
      <3>1. seconds \in SUBSET Nat /\ seconds # {}
        BY <2>1
      <3> HIDE DEF seconds
      <3> QED
        BY <3>1, LeastOf
    <2>3. PICK p \in P : p[1] = i /\ p[2] = k
      BY <2>2
    <2>4. \A q \in P : i <= q[1] /\ (q[1] = i => k <= q[2])
      BY <2>1, <2>2
    <2>5. \A q \in P : q[1] \in Nat /\ q[2] \in Nat
      OBVIOUS
    <2>6. \A q \in P : p[1] < q[1] \/ (p[1] = q[1] /\ p[2] <= q[2])
      BY <2>3, <2>4, <2>5
    <2> QED
      BY <2>3, <2>6 DEF FirstOf
  <1> QED
    BY <1>1, <1>2

------------------------------------------------------------------------------
(* The values *)

\* The windows of a sequence of records and of a workspace.
Ids(windows) == {rec.id : rec \in ToSet(windows)}
Tiled(ws) == UNION {Ids(ws.columns[c].windows) : c \in DOMAIN ws.columns}
Members(ws) == Tiled(ws) \cup Ids(ws.floating)

\* What a workspace of a value is made of.
LEMMA WorkspaceParts ==
    ASSUME NEW ws \in WorkspaceSets
    PROVE  /\ ws.columns \in Seq(ColumnSets) /\ ws.floating \in Seq(WindowRecs)
           /\ DOMAIN ws.columns \in SUBSET (Nat \ {0})
           /\ \A c \in DOMAIN ws.columns :
                 ws.columns[c] \in ColumnSets /\ ws.columns[c].windows \in Seq(WindowRecs)
  <1>1. ws.columns \in Seq(ColumnSets) /\ ws.floating \in Seq(WindowRecs)
    BY DEF WorkspaceSets
  <1>2. \A c \in DOMAIN ws.columns : ws.columns[c] \in ColumnSets
    BY <1>1
  <1>3. \A column \in ColumnSets : column.windows \in Seq(WindowRecs)
    BY DEF ColumnSets
  <1> QED
    BY <1>1, <1>2, <1>3

LEMMA MembersListed ==
    ASSUME NEW ws \in WorkspaceSets
    PROVE  /\ WindowsOn(ws) \in Seq(WindowRecs)
           /\ Ids(WindowsOn(ws)) = Members(ws)
  <1> DEFINE parts == [c \in DOMAIN ws.columns |-> ws.columns[c].windows]
             listed == UNION {ToSet(ws.columns[c].windows) : c \in DOMAIN ws.columns}
  <1>1. parts \in Seq(Seq(WindowRecs)) /\ ws.floating \in Seq(WindowRecs)
    BY WorkspaceParts
  <1>2. /\ FlattenSeq(parts) \in Seq(WindowRecs)
        /\ ToSet(FlattenSeq(parts)) = UNION {ToSet(parts[c]) : c \in DOMAIN parts}
    <2> HIDE DEF parts
    <2> QED
      BY <1>1, FlattenHolds
  <1>3. WindowsOn(ws) = FlattenSeq(parts) \o ws.floating
    BY DEF WindowsOn
  <1>4. ToSet(FlattenSeq(parts)) = listed
    <2>1. UNION {ToSet(parts[c]) : c \in DOMAIN parts} = listed
      OBVIOUS
    <2> QED
      BY <1>2, <2>1
  <1> HIDE DEF parts, listed
  <1>5. /\ WindowsOn(ws) \in Seq(WindowRecs)
        /\ ToSet(WindowsOn(ws)) = listed \cup ToSet(ws.floating)
    BY <1>1, <1>2, <1>3, <1>4, ToSetConcat
  <1>6. \A w : (\E rec \in listed : rec.id = w) <=> w \in Tiled(ws)
    BY DEF listed, Tiled, Ids
  <1>7. \A w : w \in Ids(WindowsOn(ws)) <=> w \in Members(ws)
    <2>1. \A w : w \in Ids(WindowsOn(ws)) <=> \E rec \in listed \cup ToSet(ws.floating) : rec.id = w
      BY <1>5 DEF Ids
    <2>2. \A w : w \in Ids(ws.floating) <=> \E rec \in ToSet(ws.floating) : rec.id = w
      BY DEF Ids
    <2> QED
      BY <1>6, <2>1, <2>2 DEF Members
  <1> QED
    BY <1>5, <1>7

\* Where a window is in a sequence of records.
LEMMA Placed ==
    ASSUME NEW windows \in Seq(WindowRecs), NEW w
    PROVE  /\ Holds(windows, w) <=> w \in Ids(windows)
           /\ w \in Ids(windows) =>
                /\ At(windows, w) \in DOMAIN windows
                /\ windows[At(windows, w)].id = w
                /\ windows[At(windows, w)] \in WindowRecs
  <1> DEFINE at == {i \in DOMAIN windows : windows[i].id = w}
  <1>1. Holds(windows, w) <=> w \in Ids(windows)
    BY DEF Holds, Ids, ToSet
  <1>2. at \in SUBSET (Nat \ {0})
    OBVIOUS
  <1>3. w \in Ids(windows) => at # {}
    BY DEF Ids, ToSet
  <1>4. w \in Ids(windows) => Lowest(at) \in at
    <2> HIDE DEF at
    <2> QED
      BY <1>2, <1>3, LowestIn
  <1>5. w \in Ids(windows) => At(windows, w) \in at
    BY <1>4 DEF At
  <1> QED
    BY <1>1, <1>5

LEMMA ColumnFound ==
    ASSUME NEW ws \in WorkspaceSets, NEW w
    PROVE  /\ ColumnOf(ws, w) # 0 <=> w \in Tiled(ws)
           /\ ColumnOf(ws, w) # 0 => /\ ColumnOf(ws, w) \in DOMAIN ws.columns
                                     /\ w \in Ids(ws.columns[ColumnOf(ws, w)].windows)
  <1> DEFINE at == {c \in DOMAIN ws.columns : Holds(ws.columns[c].windows, w)}
  <1>1. /\ DOMAIN ws.columns \in SUBSET (Nat \ {0})
        /\ \A c \in DOMAIN ws.columns : ws.columns[c].windows \in Seq(WindowRecs)
    BY WorkspaceParts
  <1>2. at = {c \in DOMAIN ws.columns : w \in Ids(ws.columns[c].windows)}
    BY <1>1, Placed
  <1>3. at \in SUBSET (Nat \ {0})
    BY <1>1
  <1>4. ColumnOf(ws, w) = Lowest(at)
    BY DEF ColumnOf
  <1>5. at # {} <=> w \in Tiled(ws)
    BY <1>2 DEF Tiled
  <1> HIDE DEF at
  <1>6. (at = {} => Lowest(at) = 0) /\ (at # {} => Lowest(at) \in at /\ Lowest(at) # 0)
    BY <1>3, LowestIn
  <1> QED
    BY <1>2, <1>4, <1>5, <1>6

\* The columns of a sequence hold these windows.
InColumns(columns) == UNION {Ids(column.windows) : column \in ToSet(columns)}

LEMMA TiledInColumns ==
    ASSUME NEW ws
    PROVE  Tiled(ws) = InColumns(ws.columns)
  BY DEF Tiled, InColumns, ToSet

\* A column of records with one record less.
LEMMA LessenedHolds ==
    ASSUME NEW column \in ColumnSets, NEW w \in Ids(column.windows)
    PROVE  /\ Lessened(column, w) \in Seq(ColumnSets)
           /\ InColumns(Lessened(column, w)) \cup {w} = Ids(column.windows)
  <1> DEFINE rest == RemoveAt(column.windows, At(column.windows, w))
             less == [column EXCEPT !.windows = rest,
                                    !.selected = IF @ > Len(rest) THEN Len(rest) ELSE @]
  <1>1. /\ column.windows \in Seq(WindowRecs) /\ column.selected \in Nat
        /\ column = [kind |-> column.kind, selected |-> column.selected,
                     windows |-> column.windows]
        /\ column.kind \in {"single", "stack", "tabs", "fullscreen"}
    BY DEF ColumnSets
  <1>2. /\ At(column.windows, w) \in DOMAIN column.windows
        /\ column.windows[At(column.windows, w)].id = w
    BY <1>1, Placed
  <1>3. /\ rest \in Seq(WindowRecs)
        /\ ToSet(rest) \cup {column.windows[At(column.windows, w)]} = ToSet(column.windows)
    BY <1>1, <1>2, RemovedAt
  <1> HIDE DEF rest
  <1>4. Ids(rest) \cup {w} = Ids(column.windows)
    BY <1>2, <1>3 DEF Ids
  <1>5. ASSUME NEW c \in ColumnSets
        PROVE  <<c>> \in Seq(ColumnSets) /\ InColumns(<<c>>) = Ids(c.windows)
    <2>1. ToSet(<<c>>) = {c}
      BY DEF ToSet
    <2> QED
      BY <2>1 DEF InColumns
  <1>6. Lessened(column, w) = CASE rest = <<>>   -> <<>>
                                [] Len(rest) = 1 -> <<ColumnSet("single", 1, rest)>>
                                [] OTHER         -> <<less>>
    BY DEF Lessened, rest, less
  <1>7. CASE rest = <<>>
    <2>1. Lessened(column, w) = <<>>
      BY <1>6, <1>7
    <2>2. Ids(rest) = {} /\ InColumns(<<>>) = {}
      BY <1>7 DEF Ids, InColumns, ToSet
    <2> QED
      BY <1>4, <2>1, <2>2
  <1>8. CASE rest # <<>> /\ Len(rest) = 1
    <2>1. Lessened(column, w) = <<ColumnSet("single", 1, rest)>>
      BY <1>6, <1>8
    <2>2. ColumnSet("single", 1, rest) \in ColumnSets /\ ColumnSet("single", 1, rest).windows = rest
      BY <1>3 DEF ColumnSets, ColumnSet
    <2> QED
      BY <1>4, <1>5, <2>1, <2>2
  <1>9. CASE rest # <<>> /\ Len(rest) # 1
    <2>1. Lessened(column, w) = <<less>>
      BY <1>6, <1>9
    <2>2. \A k \in Nat : (IF k > Len(rest) THEN Len(rest) ELSE k) \in Nat
      BY <1>3
    <2> DEFINE k == IF column.selected > Len(rest) THEN Len(rest) ELSE column.selected
    <2>3. less = [[column EXCEPT !.windows = rest] EXCEPT !.selected = k] /\ k \in Nat
      BY <1>1, <2>2
    <2> HIDE DEF k, less
    <2>4. less \in ColumnSets /\ less.windows = rest
      BY <1>3, <2>3 DEF ColumnSets
    <2> QED
      BY <1>4, <1>5, <2>1, <2>4
  <1> QED
    BY <1>7, <1>8, <1>9

\* A workspace with one window taken out.
LEMMA LiftedHolds ==
    ASSUME NEW ws \in WorkspaceSets, NEW w \in Members(ws)
    PROVE  /\ Lifted(ws, w) \in WorkspaceSets
           /\ Members(Lifted(ws, w)) \cup {w} = Members(ws)
           /\ Tiled(Lifted(ws, w)) \cup {w} = Tiled(ws) \cup {w}
           /\ Lifted(ws, w).active = ws.active /\ Lifted(ws, w).number = ws.number
  <1> DEFINE i == ColumnOf(ws, w)
  <1>1. /\ ws.columns \in Seq(ColumnSets) /\ ws.floating \in Seq(WindowRecs)
        /\ ws.number \in Nat /\ ws.space \in Spaces /\ ws.active \in BOOLEAN
        /\ ws = [number |-> ws.number, space |-> ws.space, active |-> ws.active,
                 columns |-> ws.columns, floating |-> ws.floating]
    BY DEF WorkspaceSets
  <1>2. CASE i # 0
    <2> DEFINE left  == SubSeq(ws.columns, 1, i - 1)
               right == SubSeq(ws.columns, i + 1, Len(ws.columns))
               less  == Lessened(ws.columns[i], w)
               all   == left \o less \o right
    <2>1. /\ i \in DOMAIN ws.columns /\ w \in Ids(ws.columns[i].windows)
          /\ w \in Tiled(ws)
      BY <1>2, ColumnFound
    <2>2. ws.columns[i] \in ColumnSets
      BY <1>1, <2>1
    <2>3. /\ less \in Seq(ColumnSets)
          /\ InColumns(less) \cup {w} = Ids(ws.columns[i].windows)
      BY <2>1, <2>2, LessenedHolds
    <2>4. /\ left \in Seq(ColumnSets) /\ right \in Seq(ColumnSets)
          /\ ToSet(ws.columns) = ToSet(left) \cup {ws.columns[i]} \cup ToSet(right)
      BY <1>1, <2>1, Around
    <2>5. Lifted(ws, w) = [ws EXCEPT !.columns = all]
      BY <1>2 DEF Lifted
    <2> HIDE DEF left, right, less, i
    <2>6. left \o less \in Seq(ColumnSets) /\ ToSet(left \o less) = ToSet(left) \cup ToSet(less)
      BY <2>3, <2>4, ToSetConcat
    <2>7. all \in Seq(ColumnSets) /\ ToSet(all) = ToSet(left) \cup ToSet(less) \cup ToSet(right)
      <3> DEFINE front == left \o less
      <3> HIDE DEF front
      <3>1. front \in Seq(ColumnSets) /\ ToSet(front) = ToSet(left) \cup ToSet(less)
        BY <2>6 DEF front
      <3>2. front \o right \in Seq(ColumnSets) /\ ToSet(front \o right) = ToSet(front) \cup ToSet(right)
        BY <2>4, <3>1, ToSetConcat
      <3>3. all = front \o right
        BY DEF front
      <3> QED
        BY <3>1, <3>2, <3>3
    <2> HIDE DEF all
    <2>8. InColumns(all) = InColumns(left) \cup InColumns(less) \cup InColumns(right)
      BY <2>7 DEF InColumns
    <2>9. InColumns(ws.columns) = InColumns(left) \cup Ids(ws.columns[i].windows) \cup InColumns(right)
      BY <2>4 DEF InColumns
    <2>10. InColumns(all) \cup {w} = InColumns(ws.columns)
      BY <2>3, <2>8, <2>9
    <2>11. /\ Lifted(ws, w) \in WorkspaceSets /\ Lifted(ws, w).columns = all
           /\ Lifted(ws, w).floating = ws.floating /\ Lifted(ws, w).active = ws.active
           /\ Lifted(ws, w).number = ws.number
      BY <1>1, <2>5, <2>7 DEF WorkspaceSets
    <2> QED
      BY <2>1, <2>10, <2>11, TiledInColumns DEF Members
  <1>3. CASE i = 0
    <2> DEFINE rest == RemoveAt(ws.floating, At(ws.floating, w))
    <2>1. w \notin Tiled(ws) /\ w \in Ids(ws.floating)
      BY <1>3, ColumnFound DEF Members
    <2>2. /\ At(ws.floating, w) \in DOMAIN ws.floating
          /\ ws.floating[At(ws.floating, w)].id = w
      BY <1>1, <2>1, Placed
    <2>3. /\ rest \in Seq(WindowRecs)
          /\ ToSet(rest) \cup {ws.floating[At(ws.floating, w)]} = ToSet(ws.floating)
      BY <1>1, <2>2, RemovedAt
    <2>4. Lifted(ws, w) = [ws EXCEPT !.floating = rest]
      BY <1>3 DEF Lifted
    <2> HIDE DEF rest, i
    <2>5. Ids(rest) \cup {w} = Ids(ws.floating)
      BY <2>2, <2>3 DEF Ids
    <2>6. /\ Lifted(ws, w) \in WorkspaceSets /\ Lifted(ws, w).columns = ws.columns
          /\ Lifted(ws, w).floating = rest /\ Lifted(ws, w).active = ws.active
          /\ Lifted(ws, w).number = ws.number
      BY <1>1, <2>3, <2>4 DEF WorkspaceSets
    <2> QED
      BY <2>5, <2>6, TiledInColumns DEF Members
  <1> QED
    BY <1>2, <1>3

\* What a value is made of.
LEMMA SetParts ==
    ASSUME NEW s \in WindowSets
    PROVE  /\ s.displays \in Seq(DisplaySets)
           /\ \A d \in DOMAIN s.displays :
                 /\ s.displays[d] \in DisplaySets
                 /\ s.displays[d].workspaces \in Seq(WorkspaceSets)
           /\ Spots(s) \in SUBSET (Nat \X Nat)
           /\ \A p : p \in Spots(s) <=> /\ p = <<p[1], p[2]>>
                                        /\ p[1] \in DOMAIN s.displays
                                        /\ p[2] \in DOMAIN s.displays[p[1]].workspaces
           /\ \A p \in Spots(s) : Workspace(s, p) \in WorkspaceSets
           /\ s.focused \in SUBSET Windows /\ s.ops \in Seq(LayoutOp)
           /\ s = [displays |-> s.displays, focused |-> s.focused, ops |-> s.ops]
  <1>1. /\ s.displays \in Seq(DisplaySets)
        /\ s.focused \in SUBSET Windows /\ s.ops \in Seq(LayoutOp)
        /\ s = [displays |-> s.displays, focused |-> s.focused, ops |-> s.ops]
    BY DEF WindowSets
  <1>2. \A d \in DOMAIN s.displays : s.displays[d] \in DisplaySets
    BY <1>1
  <1>3. \A display \in DisplaySets : display.workspaces \in Seq(WorkspaceSets)
    BY DEF DisplaySets
  <1>4. \A p : p \in Spots(s) <=> /\ p = <<p[1], p[2]>>
                                  /\ p[1] \in DOMAIN s.displays
                                  /\ p[2] \in DOMAIN s.displays[p[1]].workspaces
    BY DEF Spots
  <1>5. \A p \in Spots(s) : p \in Nat \X Nat /\ Workspace(s, p) \in WorkspaceSets
    <2> TAKE p \in Spots(s)
    <2>1. /\ p = <<p[1], p[2]>>
          /\ p[1] \in DOMAIN s.displays
          /\ p[2] \in DOMAIN s.displays[p[1]].workspaces
      BY <1>4
    <2>2. s.displays[p[1]].workspaces \in Seq(WorkspaceSets)
      BY <1>2, <1>3, <2>1
    <2>3. p[1] \in Nat /\ p[2] \in Nat
      BY <1>1, <2>1, <2>2
    <2>4. s.displays[p[1]].workspaces[p[2]] \in WorkspaceSets
      BY <2>1, <2>2
    <2> QED
      BY <2>1, <2>3, <2>4 DEF Workspace
  <1> QED
    BY <1>1, <1>2, <1>3, <1>4, <1>5

\* The windows of a value are those of its workspaces.
LEMMA EveryoneIs ==
    ASSUME NEW s \in WindowSets
    PROVE  /\ Everyone(s) = UNION {Members(Workspace(s, p)) : p \in Spots(s)}
           /\ \A p \in Spots(s) : \A w : Lists(Workspace(s, p), w) <=> w \in Members(Workspace(s, p))
  <1>1. ASSUME NEW p \in Spots(s)
        PROVE  /\ WindowsOn(Workspace(s, p)) \in Seq(WindowRecs)
               /\ Ids(WindowsOn(Workspace(s, p))) = Members(Workspace(s, p))
    BY SetParts, MembersListed
  <1>2. \A p \in Spots(s) : \A w : Lists(Workspace(s, p), w) <=> w \in Members(Workspace(s, p))
    BY <1>1, Placed DEF Lists
  <1>3. Everyone(s) = UNION {Ids(WindowsOn(Workspace(s, p))) : p \in Spots(s)}
    BY DEF Everyone, Ids
  <1> QED
    BY <1>1, <1>2, <1>3

LEMMA EveryoneWindows ==
    ASSUME NEW s \in WindowSets
    PROVE  Everyone(s) \subseteq Windows
  <1>1. \A windows \in Seq(WindowRecs) : Ids(windows) \subseteq Windows
    <2> TAKE windows \in Seq(WindowRecs)
    <2>1. \A i \in DOMAIN windows : windows[i] \in WindowRecs
      OBVIOUS
    <2>2. \A rec \in WindowRecs : rec.id \in Windows
      BY DEF WindowRecs
    <2> QED
      BY <2>1, <2>2 DEF Ids, ToSet
  <1>2. \A p \in Spots(s) : Members(Workspace(s, p)) \subseteq Windows
    BY <1>1, SetParts, MembersListed
  <1> QED
    BY <1>2, EveryoneIs

\* The first workspace that lists a window is one that does, and there is one
\* for a window of the set; its record there is one of that window.
LEMMA FoundIn ==
    ASSUME NEW s \in WindowSets, NEW w
    PROVE  /\ \A p \in WorkspaceOf(s, w) : p \in Spots(s) /\ w \in Members(Workspace(s, p))
           /\ w \in Everyone(s) <=> WorkspaceOf(s, w) # {}
           /\ \A rec \in WindowRec(s, w) : rec \in WindowRecs /\ rec.id = w
           /\ w \in Everyone(s) => WindowRec(s, w) # {}
  <1> DEFINE there == {p \in Spots(s) : Lists(Workspace(s, p), w)}
  <1>1. there \in SUBSET (Nat \X Nat) /\ there = {p \in Spots(s) : w \in Members(Workspace(s, p))}
    BY SetParts, EveryoneIs
  <1>2. there # {} <=> w \in Everyone(s)
    BY <1>1, EveryoneIs
  <1>3. WorkspaceOf(s, w) \subseteq there /\ (there # {} => WorkspaceOf(s, w) # {})
    <2> HIDE DEF there
    <2>1. FirstOf(there) \subseteq there /\ (there # {} => FirstOf(there) # {})
      BY <1>1, FirstIn
    <2> QED
      BY <2>1 DEF WorkspaceOf, there
  <1> HIDE DEF there
  <1>4. \A p \in WorkspaceOf(s, w) : p \in Spots(s) /\ w \in Members(Workspace(s, p))
    BY <1>1, <1>3
  <1>5. w \in Everyone(s) <=> WorkspaceOf(s, w) # {}
    BY <1>2, <1>3
  <1>6. ASSUME NEW p \in WorkspaceOf(s, w)
        PROVE  LET list == WindowsOn(Workspace(s, p))
               IN  list[At(list, w)] \in WindowRecs /\ list[At(list, w)].id = w
    <2>1. /\ WindowsOn(Workspace(s, p)) \in Seq(WindowRecs)
          /\ Ids(WindowsOn(Workspace(s, p))) = Members(Workspace(s, p))
          /\ w \in Members(Workspace(s, p))
      BY <1>4, SetParts, MembersListed
    <2> QED
      BY <2>1, Placed
  <1> QED
    BY <1>4, <1>5, <1>6 DEF WindowRec

\* A set with one workspace replaced.
LEMMA EditHolds ==
    ASSUME NEW s \in WindowSets, NEW p \in Spots(s), NEW ws \in WorkspaceSets
    PROVE  /\ Edit(s, p, ws) \in WindowSets
           /\ Spots(Edit(s, p, ws)) = Spots(s)
           /\ Workspace(Edit(s, p, ws), p) = ws
           /\ \A q \in Spots(s) : q # p => Workspace(Edit(s, p, ws), q) = Workspace(s, q)
           /\ Edit(s, p, ws).ops = s.ops
  <1> DEFINE d == p[1]
             k == p[2]
             inner == [s.displays[d].workspaces EXCEPT ![k] = ws]
             disp == [s.displays[d] EXCEPT !.workspaces = inner]
             all == [s.displays EXCEPT ![d] = disp]
             t == [s EXCEPT !.displays = all]
  <1>1. /\ s.displays \in Seq(DisplaySets) /\ d \in DOMAIN s.displays
        /\ s.displays[d] \in DisplaySets
        /\ s.displays[d].workspaces \in Seq(WorkspaceSets)
        /\ k \in DOMAIN s.displays[d].workspaces
        /\ p = <<d, k>>
    BY SetParts
  <1>2. inner \in Seq(WorkspaceSets) /\ DOMAIN inner = DOMAIN s.displays[d].workspaces
    BY <1>1
  <1>3. /\ disp \in DisplaySets /\ disp.workspaces = inner
    <2> HIDE DEF inner
    <2> QED
      BY <1>1, <1>2 DEF DisplaySets
  <1>4. all \in Seq(DisplaySets) /\ DOMAIN all = DOMAIN s.displays
    <2> HIDE DEF disp
    <2> QED
      BY <1>1, <1>3
  <1>5. all[d] = disp /\ \A e \in DOMAIN s.displays : e # d => all[e] = s.displays[e]
    <2> HIDE DEF disp
    <2> QED
      BY <1>1
  <1>6. t \in WindowSets /\ t.displays = all /\ t.ops = s.ops
    <2> HIDE DEF all
    <2> QED
      BY <1>4, SetParts DEF WindowSets
  <1>7. Edit(s, p, ws) = t
    BY DEF Edit
  <1>8. inner[k] = ws /\ \A m \in DOMAIN inner : m # k => inner[m] = s.displays[d].workspaces[m]
    BY <1>1
  <1> HIDE DEF t, all, disp, inner
  <1>9. \A q : q \in Spots(t) <=> q \in Spots(s)
    <2>1. \A e \in DOMAIN s.displays :
              DOMAIN t.displays[e].workspaces = DOMAIN s.displays[e].workspaces
      BY <1>2, <1>3, <1>5, <1>6
    <2> QED
      BY <1>4, <1>6, <2>1, SetParts
  <1>10. Workspace(t, p) = ws
    BY <1>3, <1>5, <1>6, <1>8 DEF Workspace
  <1>11. ASSUME NEW q \in Spots(s), q # p
         PROVE  Workspace(t, q) = Workspace(s, q)
    <2>1. /\ q = <<q[1], q[2]>> /\ q[1] \in DOMAIN s.displays
          /\ q[2] \in DOMAIN s.displays[q[1]].workspaces
      BY SetParts
    <2>2. CASE q[1] # d
      BY <1>5, <1>6, <2>1, <2>2 DEF Workspace
    <2>3. CASE q[1] = d
      <3>1. q[2] # k /\ q[2] \in DOMAIN inner
        BY <1>1, <1>2, <1>11, <2>1, <2>3
      <3> QED
        BY <1>3, <1>5, <1>6, <1>8, <2>3, <3>1 DEF Workspace
    <2> QED
      BY <2>2, <2>3
  <1> QED
    BY <1>6, <1>7, <1>9, <1>10, <1>11

LEMMA EditedMembers ==
    ASSUME NEW s \in WindowSets, NEW p \in Spots(s), NEW ws \in WorkspaceSets
    PROVE  LET others == UNION {Members(Workspace(s, q)) : q \in Spots(s) \ {p}}
           IN  /\ Everyone(Edit(s, p, ws)) = Members(ws) \cup others
               /\ Everyone(s) = Members(Workspace(s, p)) \cup others
  <1> DEFINE t == Edit(s, p, ws)
             others == UNION {Members(Workspace(s, q)) : q \in Spots(s) \ {p}}
  <1>1. /\ t \in WindowSets /\ Spots(t) = Spots(s) /\ Workspace(t, p) = ws
        /\ \A q \in Spots(s) : q # p => Workspace(t, q) = Workspace(s, q)
    BY EditHolds
  <1> HIDE DEF t
  <1>2. /\ Everyone(t) = UNION {Members(Workspace(t, q)) : q \in Spots(s)}
        /\ Everyone(s) = UNION {Members(Workspace(s, q)) : q \in Spots(s)}
    BY <1>1, EveryoneIs
  <1>3. Everyone(s) = Members(Workspace(s, p)) \cup others
    BY <1>2
  <1>4. UNION {Members(Workspace(t, q)) : q \in Spots(s) \ {p}} = others
    BY <1>1
  <1>5. Everyone(t) = Members(ws) \cup UNION {Members(Workspace(t, q)) : q \in Spots(s) \ {p}}
    BY <1>1, <1>2
  <1> QED
    BY <1>3, <1>4, <1>5 DEF t

\* Which workspace shows, or has a number, is a matter of these.
SameMarks(s, t) ==
    /\ Spots(t) = Spots(s)
    /\ \A p \in Spots(s) : /\ Workspace(t, p).active = Workspace(s, p).active
                           /\ Workspace(t, p).number = Workspace(s, p).number

LEMMA ShowingSame ==
    ASSUME NEW s, NEW t, SameMarks(s, t)
    PROVE  Showing(t) = Showing(s) /\ \A n : Numbered(t, n) = Numbered(s, n)
  <1>1. {p \in Spots(t) : Workspace(t, p).active} = {p \in Spots(s) : Workspace(s, p).active}
    BY DEF SameMarks
  <1>2. \A n : {p \in Spots(t) : Workspace(t, p).number = n}
                 = {p \in Spots(s) : Workspace(s, p).number = n}
    BY DEF SameMarks
  <1> QED
    BY <1>1, <1>2 DEF Showing, Numbered

\* The workspace that shows is one of the value.
LEMMA ShowingIn ==
    ASSUME NEW s \in WindowSets
    PROVE  /\ Showing(s) \subseteq Spots(s)
           /\ Showing(s) # {} <=> \E p \in Spots(s) : Workspace(s, p).active
           /\ \A n : Numbered(s, n) \subseteq {p \in Spots(s) : Workspace(s, p).number = n}
  <1>1. ASSUME NEW P \in SUBSET Spots(s)
        PROVE  FirstOf(P) \subseteq P /\ (P # {} => FirstOf(P) # {})
    <2>1. P \in SUBSET (Nat \X Nat)
      BY SetParts
    <2> QED
      BY <2>1, FirstIn
  <1> DEFINE shown == {p \in Spots(s) : Workspace(s, p).active}
             some(n) == {p \in Spots(s) : Workspace(s, p).number = n}
  <1>2. FirstOf(shown) \subseteq shown /\ (shown # {} => FirstOf(shown) # {})
    <2>1. shown \in SUBSET Spots(s)
      OBVIOUS
    <2> HIDE DEF shown
    <2> QED
      BY <1>1, <2>1
  <1>3. \A n : FirstOf(some(n)) \subseteq some(n)
    <2>1. \A n : some(n) \in SUBSET Spots(s)
      OBVIOUS
    <2> HIDE DEF some
    <2> QED
      BY <1>1, <2>1
  <1> QED
    BY <1>2, <1>3 DEF Showing, Numbered

\* A set with a window taken out of it.
LEMMA TakenHolds ==
    ASSUME NEW s \in WindowSets, NEW w \in Everyone(s), NEW t \in Taken(s, w)
    PROVE  /\ t \in WindowSets /\ SameMarks(s, t) /\ t.ops = s.ops
           /\ Everyone(t) \cup {w} = Everyone(s)
           /\ \A p \in Spots(s) :
                 Tiled(Workspace(t, p)) \cup {w} = Tiled(Workspace(s, p)) \cup {w}
  <1>1. PICK p \in WorkspaceOf(s, w) : t = Edit(s, p, Lifted(Workspace(s, p), w))
    BY DEF Taken
  <1> DEFINE old == Workspace(s, p)
             new == Lifted(old, w)
  <1>2. p \in Spots(s) /\ w \in Members(old) /\ old \in WorkspaceSets
    BY FoundIn, SetParts
  <1>3. /\ new \in WorkspaceSets
        /\ Members(new) \cup {w} = Members(old)
        /\ Tiled(new) \cup {w} = Tiled(old) \cup {w}
        /\ new.active = old.active /\ new.number = old.number
    BY <1>2, LiftedHolds
  <1> HIDE DEF new, old
  <1>4. /\ t \in WindowSets /\ Spots(t) = Spots(s) /\ Workspace(t, p) = new /\ t.ops = s.ops
        /\ \A q \in Spots(s) : q # p => Workspace(t, q) = Workspace(s, q)
    BY <1>1, <1>2, <1>3, EditHolds DEF new, old
  <1>5. Everyone(t) \cup {w} = Everyone(s)
    <2> DEFINE others == UNION {Members(Workspace(s, q)) : q \in Spots(s) \ {p}}
    <2>1. Everyone(t) = Members(new) \cup others /\ Everyone(s) = Members(old) \cup others
      BY <1>1, <1>2, <1>3, EditedMembers DEF new, old
    <2> QED
      BY <1>3, <2>1
  <1>6. SameMarks(s, t)
    BY <1>3, <1>4 DEF SameMarks, old
  <1>7. \A q \in Spots(s) : Tiled(Workspace(t, q)) \cup {w} = Tiled(Workspace(s, q)) \cup {w}
    BY <1>3, <1>4 DEF old
  <1> QED
    BY <1>4, <1>5, <1>6, <1>7

\* A workspace with a record more, tiled or floating or in a column it has.
LEMMA AppendedIds ==
    ASSUME NEW windows \in Seq(WindowRecs), NEW rec \in WindowRecs
    PROVE  /\ Append(windows, rec) \in Seq(WindowRecs)
           /\ Ids(Append(windows, rec)) = Ids(windows) \cup {rec.id}
  <1>1. Append(windows, rec) \in Seq(WindowRecs)
    OBVIOUS
  <1>2. ToSet(Append(windows, rec)) = ToSet(windows) \cup {rec}
    <2>1. <<rec>> \in Seq(WindowRecs) /\ ToSet(<<rec>>) = {rec}
      BY DEF ToSet
    <2>2. ToSet(windows \o <<rec>>) = ToSet(windows) \cup ToSet(<<rec>>)
      BY <2>1, ToSetConcat
    <2>3. Append(windows, rec) = windows \o <<rec>>
      OBVIOUS
    <2> QED
      BY <2>1, <2>2, <2>3
  <1> QED
    BY <1>1, <1>2 DEF Ids

LEMMA TiledAlso ==
    ASSUME NEW ws \in WorkspaceSets, NEW rec \in WindowRecs
    PROVE  LET end == [ws EXCEPT !.columns = Append(@, Single(rec))]
           IN  /\ end \in WorkspaceSets /\ end.active = ws.active /\ end.number = ws.number
               /\ Members(end) = Members(ws) \cup {rec.id}
  <1> DEFINE all == Append(ws.columns, Single(rec))
             end == [ws EXCEPT !.columns = all]
  <1>1. ws.columns \in Seq(ColumnSets)
    BY DEF WorkspaceSets
  <1>2. Single(rec) \in ColumnSets /\ Ids(Single(rec).windows) = {rec.id}
    <2>1. <<rec>> \in Seq(WindowRecs) /\ ToSet(<<rec>>) = {rec}
      BY DEF ToSet
    <2>2. Single(rec).windows = <<rec>> /\ Single(rec) \in ColumnSets
      BY <2>1 DEF Single, ColumnSet, ColumnSets
    <2> QED
      BY <2>1, <2>2 DEF Ids
  <1>3. all \in Seq(ColumnSets) /\ ToSet(all) = ToSet(ws.columns) \cup {Single(rec)}
    <2> DEFINE one == <<Single(rec)>>
               old == ws.columns
    <2>1. one \in Seq(ColumnSets) /\ ToSet(one) = {Single(rec)}
      BY <1>2 DEF ToSet
    <2>2. all = old \o one /\ all \in Seq(ColumnSets)
      BY <1>1, <1>2
    <2>3. old \in Seq(ColumnSets)
      BY <1>1
    <2>4. ToSet(old \o one) = ToSet(old) \cup ToSet(one)
      <3> HIDE DEF one, old
      <3> QED
        BY <2>1, <2>3, ToSetConcat
    <2> QED
      BY <2>1, <2>2, <2>4
  <1> HIDE DEF all
  <1>4. /\ end \in WorkspaceSets /\ end.active = ws.active /\ end.number = ws.number
        /\ end.columns = all /\ end.floating = ws.floating
    BY <1>3 DEF WorkspaceSets
  <1>5. InColumns(all) = InColumns(ws.columns) \cup {rec.id}
    BY <1>2, <1>3 DEF InColumns
  <1> QED
    BY <1>4, <1>5, TiledInColumns DEF Members, all

LEMMA FloatingAlso ==
    ASSUME NEW ws \in WorkspaceSets, NEW rec \in WindowRecs
    PROVE  LET above == [ws EXCEPT !.floating = Append(@, rec)]
           IN  /\ above \in WorkspaceSets /\ above.active = ws.active /\ above.number = ws.number
               /\ Members(above) = Members(ws) \cup {rec.id}
  <1> DEFINE all == Append(ws.floating, rec)
             above == [ws EXCEPT !.floating = all]
  <1>1. all \in Seq(WindowRecs) /\ Ids(all) = Ids(ws.floating) \cup {rec.id}
    BY WorkspaceParts, AppendedIds
  <1> HIDE DEF all
  <1>2. /\ above \in WorkspaceSets /\ above.active = ws.active /\ above.number = ws.number
        /\ above.columns = ws.columns /\ above.floating = all
    BY <1>1 DEF WorkspaceSets
  <1> QED
    BY <1>1, <1>2, TiledInColumns DEF Members, all

\* t is the set s with w in it, too.
Joined(s, t, w) == /\ t \in WindowSets /\ SameMarks(s, t) /\ t.ops = s.ops
                   /\ Everyone(t) = Everyone(s) \cup {w}

\* A set with a workspace that has w, too.
LEMMA EditJoins ==
    ASSUME NEW s \in WindowSets, NEW p \in Spots(s), NEW more \in WorkspaceSets, NEW w,
           more.active = Workspace(s, p).active, more.number = Workspace(s, p).number,
           Members(more) = Members(Workspace(s, p)) \cup {w}
    PROVE  Joined(s, Edit(s, p, more), w)
  <1> DEFINE t == Edit(s, p, more)
             others == UNION {Members(Workspace(s, q)) : q \in Spots(s) \ {p}}
  <1>1. /\ t \in WindowSets /\ Spots(t) = Spots(s) /\ Workspace(t, p) = more /\ t.ops = s.ops
        /\ \A q \in Spots(s) : q # p => Workspace(t, q) = Workspace(s, q)
    BY EditHolds
  <1>2. Everyone(t) = Members(more) \cup others /\ Everyone(s) = Members(Workspace(s, p)) \cup others
    BY EditedMembers
  <1> QED
    BY <1>1, <1>2 DEF SameMarks, Joined

\* The end of a workspace of P has the record.
LEMMA PutHolds ==
    ASSUME NEW s \in WindowSets, NEW P \in SUBSET Spots(s), P # {}, NEW rec \in WindowRecs
    PROVE  Joined(s, Tile(s, P, rec), rec.id) /\ Joined(s, LetFloat(s, P, rec), rec.id)
  <1> SUFFICES ASSUME NEW t, t = Tile(s, P, rec) \/ t = LetFloat(s, P, rec)
               PROVE  Joined(s, t, rec.id)
    OBVIOUS
  <1> DEFINE end(ws) == [ws EXCEPT !.columns = Append(@, Single(rec))]
             above(ws) == [ws EXCEPT !.floating = Append(@, rec)]
             More(ws) == {end(ws), above(ws)}
  <1>1. \A ws \in WorkspaceSets : \A more : more \in More(ws) =>
            /\ more \in WorkspaceSets /\ more.active = ws.active /\ more.number = ws.number
            /\ Members(more) = Members(ws) \cup {rec.id}
    <2> TAKE ws \in WorkspaceSets
    <2>1. /\ end(ws) \in WorkspaceSets /\ end(ws).active = ws.active /\ end(ws).number = ws.number
          /\ Members(end(ws)) = Members(ws) \cup {rec.id}
      BY TiledAlso
    <2>2. /\ above(ws) \in WorkspaceSets /\ above(ws).active = ws.active
          /\ above(ws).number = ws.number
          /\ Members(above(ws)) = Members(ws) \cup {rec.id}
      BY FloatingAlso
    <2> HIDE DEF end, above
    <2> QED
      BY <2>1, <2>2
  <1>2. \E p \in P : \E more \in More(Workspace(s, p)) : t = Edit(s, p, more)
    <2> DEFINE tiles == {Edit(s, p, end(Workspace(s, p))) : p \in P}
               floats == {Edit(s, p, above(Workspace(s, p))) : p \in P}
    <2>1. tiles # {} /\ floats # {}
      OBVIOUS
    <2>2. t = (CHOOSE x \in tiles : TRUE) \/ t = (CHOOSE x \in floats : TRUE)
      BY DEF Tile, LetFloat
    <2>3. t \in tiles \/ t \in floats
      <3> HIDE DEF tiles, floats
      <3> QED
        BY <2>1, <2>2
    <2> QED
      BY <2>3
  <1> HIDE DEF More
  <1>0. PICK p \in P : \E more \in More(Workspace(s, p)) : t = Edit(s, p, more)
    BY <1>2
  <1>3. PICK more \in More(Workspace(s, p)) : t = Edit(s, p, more)
    BY <1>0
  <1>4. /\ p \in Spots(s) /\ more \in WorkspaceSets
        /\ more.active = Workspace(s, p).active /\ more.number = Workspace(s, p).number
        /\ Members(more) = Members(Workspace(s, p)) \cup {rec.id}
    BY <1>1, <1>3, SetParts
  <1> QED
    BY <1>3, <1>4, EditJoins

------------------------------------------------------------------------------
(* The transforms *)

\* What a transform does to the set s.
Sound(s, t) == /\ t \in WindowSets /\ t.ops = s.ops
               /\ Showing(t) # {}
Kept(s, t) == Sound(s, t) /\ Everyone(t) = Everyone(s)

\* A value that stays as it is keeps its windows.
LEMMA StaysKept ==
    ASSUME NEW s \in WindowSets, Showing(s) # {}
    PROVE  Kept(s, s)
  BY DEF Kept, Sound

\* The two halves of a move: w is taken out, and put back with its record.
LEMMA LiftedOut ==
    ASSUME NEW s \in WindowSets, NEW w, WorkspaceOf(s, w) # {}
    PROVE  /\ w \in Everyone(s)
           /\ (CHOOSE t \in Taken(s, w) : TRUE) \in Taken(s, w)
           /\ (CHOOSE rec \in WindowRec(s, w) : TRUE) \in WindowRec(s, w)
           /\ \A rec \in WindowRec(s, w) : rec \in WindowRecs /\ rec.id = w
  <1>1. w \in Everyone(s) /\ WindowRec(s, w) # {}
    BY FoundIn
  <1>2. Taken(s, w) # {}
    BY DEF Taken
  <1>3. \A rec \in WindowRec(s, w) : rec \in WindowRecs /\ rec.id = w
    BY FoundIn
  <1> QED
    BY <1>1, <1>2, <1>3

LEMMA PutBack ==
    ASSUME NEW s \in WindowSets, Showing(s) # {}, NEW w \in Everyone(s), NEW t \in Taken(s, w),
           NEW P \in SUBSET Spots(t), P # {}, NEW rec \in WindowRecs, rec.id = w,
           NEW u \in {Tile(t, P, rec), LetFloat(t, P, rec)}
    PROVE  Kept(s, u)
  <1>1. /\ t \in WindowSets /\ SameMarks(s, t) /\ t.ops = s.ops
        /\ Everyone(t) \cup {w} = Everyone(s)
    BY TakenHolds
  <1>2. Joined(t, u, rec.id)
    BY <1>1, PutHolds
  <1>3. Showing(t) = Showing(s) /\ Showing(u) = Showing(t)
    BY <1>1, <1>2, ShowingSame DEF Joined
  <1> QED
    BY <1>1, <1>2, <1>3 DEF Kept, Sound, Joined

\* A shift to another workspace.
LEMMA ShiftedKeeps ==
    ASSUME NEW s \in WindowSets, Showing(s) # {}, NEW w, NEW n
    PROVE  Kept(s, Shifted(s, w, n))
  <1> DEFINE t == CHOOSE t \in Taken(s, w) : TRUE
             rec == CHOOSE rec \in WindowRec(s, w) : TRUE
  <1>1. CASE Numbered(s, n) = {} \/ WorkspaceOf(s, w) = {}
    <2>1. Shifted(s, w, n) = s
      BY <1>1 DEF Shifted, Moved
    <2> QED
      BY <2>1, StaysKept
  <1>2. CASE Numbered(s, n) # {} /\ WorkspaceOf(s, w) # {}
    <2>1. Shifted(s, w, n) = Tile(t, Numbered(t, n), rec)
      BY <1>2 DEF Shifted, Moved
    <2>2. w \in Everyone(s) /\ t \in Taken(s, w) /\ rec \in WindowRecs /\ rec.id = w
      BY <1>2, LiftedOut
    <2> HIDE DEF t, rec
    <2>3. t \in WindowSets /\ SameMarks(s, t)
      BY <2>2, TakenHolds
    <2>4. Numbered(t, n) = Numbered(s, n) /\ Numbered(t, n) \subseteq Spots(t)
      BY <2>3, ShowingSame, ShowingIn
    <2> QED
      BY <1>2, <2>1, <2>2, <2>4, PutBack
  <1> QED
    BY <1>1, <1>2

\* A window that floats or is tiled again, and one that leaves its stack.
LEMMA FloatedKeeps ==
    ASSUME NEW s \in WindowSets, Showing(s) # {}, NEW w, NEW yes \in BOOLEAN
    PROVE  Kept(s, Floated(s, w, yes)) /\ Kept(s, Unstacked(s, w))
  <1> DEFINE t == CHOOSE t \in Taken(s, w) : TRUE
             rec == CHOOSE rec \in WindowRec(s, w) : TRUE
             new == [rec EXCEPT !.floating = yes]
  <1>1. CASE WorkspaceOf(s, w) = {}
    <2>1. Floated(s, w, yes) = s /\ Unstacked(s, w) = s
      BY <1>1 DEF Floated, Unstacked, Moved
    <2> QED
      BY <2>1, StaysKept
  <1>2. CASE WorkspaceOf(s, w) # {}
    <2>1. /\ Floated(s, w, yes) = IF yes THEN LetFloat(t, Showing(t), new) ELSE Tile(t, Showing(t), new)
          /\ Unstacked(s, w) = Tile(t, Showing(t), rec)
      BY <1>2 DEF Floated, Unstacked, Moved
    <2>2. w \in Everyone(s) /\ t \in Taken(s, w) /\ rec \in WindowRecs /\ rec.id = w
      BY <1>2, LiftedOut
    <2> HIDE DEF t, rec
    <2>3. new \in WindowRecs /\ new.id = w
      BY <2>2 DEF WindowRecs
    <2>4. t \in WindowSets /\ SameMarks(s, t)
      BY <2>2, TakenHolds
    <2>5. Showing(t) = Showing(s) /\ Showing(t) \subseteq Spots(t)
      BY <2>4, ShowingSame, ShowingIn
    <2> HIDE DEF new
    <2>6. \A u \in {Tile(t, Showing(t), new), LetFloat(t, Showing(t), new),
                    Tile(t, Showing(t), rec)} : Kept(s, u)
      BY <2>2, <2>3, <2>5, PutBack
    <2> QED
      BY <2>1, <2>6
  <1> QED
    BY <1>1, <1>2

\* A column that takes one more window.
OnColumn(ws, i, kind, rec) ==
    [ws EXCEPT !.columns[i] = ColumnSet(kind, @.selected, Append(@.windows, rec))]

LEMMA StackedOn ==
    ASSUME NEW ws \in WorkspaceSets, NEW i \in DOMAIN ws.columns, NEW rec \in WindowRecs,
           NEW kind \in {"stack", "tabs"}
    PROVE  LET more == OnColumn(ws, i, kind, rec)
           IN  /\ more \in WorkspaceSets /\ more.active = ws.active /\ more.number = ws.number
               /\ Members(more) = Members(ws) \cup {rec.id}
  <1> DEFINE windows == Append(ws.columns[i].windows, rec)
             column  == ColumnSet(kind, ws.columns[i].selected, windows)
             all     == [ws.columns EXCEPT ![i] = column]
             more    == OnColumn(ws, i, kind, rec)
  <1>1. ws.columns \in Seq(ColumnSets) /\ ws.columns[i] \in ColumnSets
    BY WorkspaceParts
  <1>2. ws.columns[i].windows \in Seq(WindowRecs)
    BY WorkspaceParts
  <1>3. windows \in Seq(WindowRecs) /\ Ids(windows) = Ids(ws.columns[i].windows) \cup {rec.id}
    BY <1>2, AppendedIds
  <1>4. column \in ColumnSets /\ column.windows = windows
    <2> HIDE DEF windows
    <2> QED
      BY <1>1, <1>3 DEF ColumnSets, ColumnSet
  <1>5. /\ all \in Seq(ColumnSets) /\ DOMAIN all = DOMAIN ws.columns
        /\ all[i] = column /\ \A j \in DOMAIN ws.columns : j # i => all[j] = ws.columns[j]
    <2> HIDE DEF column
    <2> QED
      BY <1>1, <1>4
  <1>6. /\ more \in WorkspaceSets /\ more.active = ws.active /\ more.number = ws.number
        /\ more.columns = all /\ more.floating = ws.floating
    <2>1. more = [ws EXCEPT !.columns = all]
      BY DEF OnColumn
    <2> HIDE DEF all, more
    <2> QED
      BY <1>5, <2>1 DEF WorkspaceSets
  <1>7. Members(more) = Members(ws) \cup {rec.id}
    <2> HIDE DEF more, all, column, windows
    <2>1. Tiled(more) = Tiled(ws) \cup {rec.id}
      <3> DEFINE others == UNION {Ids(ws.columns[j].windows) : j \in DOMAIN ws.columns \ {i}}
      <3>1. Tiled(ws) = Ids(ws.columns[i].windows) \cup others
        BY DEF Tiled
      <3>2. Tiled(more) = Ids(windows) \cup UNION {Ids(all[j].windows) : j \in DOMAIN all \ {i}}
        BY <1>4, <1>5, <1>6 DEF Tiled
      <3>3. UNION {Ids(all[j].windows) : j \in DOMAIN all \ {i}} = others
        BY <1>5
      <3> QED
        BY <1>3, <3>1, <3>2, <3>3
    <2> QED
      BY <1>6, <2>1 DEF Members
  <1> QED
    BY <1>6, <1>7

\* Stacking loses the window only when there is no column to stack it onto.
LEMMA StackedKeeps ==
    ASSUME NEW s \in WindowSets, Showing(s) # {}, NEW w, NEW onto, NEW tabs \in BOOLEAN
    PROVE  LET u == Stacked(s, w, onto, tabs)
           IN  Sound(s, u) /\ (Kept(s, u) \/ w = onto \/ TiledOn(s, onto) = {})
  <1> DEFINE t == CHOOSE t \in Taken(s, w) : TRUE
             rec == CHOOSE rec \in WindowRec(s, w) : TRUE
             kind == IF tabs THEN "tabs" ELSE "stack"
             at(x) == {p \in Spots(x) : ColumnOf(Workspace(x, p), onto) # 0}
             more(ws) == LET i == ColumnOf(ws, onto)
                         IN  [ws EXCEPT !.columns[i] =
                                 ColumnSet(kind, @.selected, Append(@.windows, rec))]
             u == Stacked(s, w, onto, tabs)
  <1>1. CASE onto \notin Everyone(s) \/ WorkspaceOf(s, w) = {}
    <2>1. u = s
      BY <1>1 DEF Stacked, Moved
    <2> QED
      BY <2>1, StaysKept DEF Kept
  <1>2. CASE onto \in Everyone(s) /\ WorkspaceOf(s, w) # {}
    <2>1. u = IF FirstOf(at(t)) = {} THEN t
              ELSE LET p == CHOOSE p \in FirstOf(at(t)) : TRUE
                   IN  Edit(t, p, more(Workspace(t, p)))
      BY <1>2 DEF Stacked, Moved
    <2>2. w \in Everyone(s) /\ t \in Taken(s, w) /\ rec \in WindowRecs /\ rec.id = w
      BY <1>2, LiftedOut
    <2>0. kind \in {"stack", "tabs"}
      OBVIOUS
    <2> HIDE DEF t, rec, kind
    <2>3. /\ t \in WindowSets /\ SameMarks(s, t) /\ t.ops = s.ops
          /\ Everyone(t) \cup {w} = Everyone(s)
          /\ \A p \in Spots(s) :
                Tiled(Workspace(t, p)) \cup {w} = Tiled(Workspace(s, p)) \cup {w}
      BY <2>2, TakenHolds
    <2>4. Showing(t) = Showing(s)
      BY <2>3, ShowingSame
    <2>5. FirstOf(at(t)) \subseteq at(t) /\ (at(t) # {} => FirstOf(at(t)) # {})
      <3>1. at(t) \in SUBSET (Nat \X Nat)
        BY <2>3, SetParts
      <3> HIDE DEF at
      <3> QED
        BY <3>1, FirstIn
    <2>6. CASE FirstOf(at(t)) = {}
      <3>1. Sound(s, u)
        BY <2>1, <2>3, <2>4, <2>6 DEF Sound
      <3>2. ASSUME w # onto, TiledOn(s, onto) # {}
            PROVE  FALSE
        <4>1. PICK p \in Spots(s) : ColumnOf(Workspace(s, p), onto) # 0
          BY <3>2 DEF TiledOn
        <4>2. onto \in Tiled(Workspace(s, p))
          BY <4>1, SetParts, ColumnFound
        <4>3. onto \in Tiled(Workspace(t, p)) /\ p \in Spots(t)
          BY <2>3, <3>2, <4>2 DEF SameMarks
        <4>4. ColumnOf(Workspace(t, p), onto) # 0
          BY <2>3, <4>3, SetParts, ColumnFound
        <4> QED
          BY <2>5, <2>6, <4>3, <4>4
      <3> QED
        BY <3>1, <3>2
    <2>7. CASE FirstOf(at(t)) # {}
      <3> DEFINE p == CHOOSE p \in FirstOf(at(t)) : TRUE
      <3>1. p \in FirstOf(at(t))
        <4> HIDE DEF at
        <4> QED
          BY <2>7
      <3>2. u = Edit(t, p, more(Workspace(t, p)))
        BY <2>1, <2>7
      <3> HIDE DEF p
      <3>3. p \in Spots(t) /\ ColumnOf(Workspace(t, p), onto) # 0
        BY <2>5, <3>1
      <3>4. Workspace(t, p) \in WorkspaceSets
        BY <2>3, <3>3, SetParts
      <3>5. ColumnOf(Workspace(t, p), onto) \in DOMAIN Workspace(t, p).columns
        BY <3>3, <3>4, ColumnFound
      <3>6. LET ws == Workspace(t, p)
            IN  /\ more(ws) \in WorkspaceSets /\ more(ws).active = ws.active
                /\ more(ws).number = ws.number
                /\ Members(more(ws)) = Members(ws) \cup {w}
        <4> DEFINE ws == Workspace(t, p)
                   i  == ColumnOf(ws, onto)
                   on == OnColumn(ws, i, kind, rec)
        <4>1. ws \in WorkspaceSets /\ i \in DOMAIN ws.columns
          BY <3>4, <3>5
        <4>2. more(ws) = on
          BY DEF OnColumn
        <4> HIDE DEF i, ws, more
        <4>3. /\ on \in WorkspaceSets /\ on.active = ws.active /\ on.number = ws.number
              /\ Members(on) = Members(ws) \cup {rec.id}
          BY <2>0, <2>2, <4>1, StackedOn
        <4> HIDE DEF on
        <4> QED
          BY <2>2, <4>2, <4>3 DEF ws
      <3> HIDE DEF more
      <3>7. Joined(t, u, w)
        BY <2>3, <3>2, <3>3, <3>6, EditJoins
      <3>8. Showing(u) = Showing(t)
        BY <3>7, ShowingSame DEF Joined
      <3> QED
        BY <2>3, <2>4, <3>7, <3>8 DEF Joined, Kept, Sound
    <2> QED
      BY <2>6, <2>7
  <1> QED
    BY <1>1, <1>2

\* A set with the workspaces W[d] for those of each display d.
SetWith(s, W) ==
    [s EXCEPT !.displays = [d \in DOMAIN s.displays |->
        [s.displays[d] EXCEPT !.workspaces = W[d]]]]

LEMMA SetWithHolds ==
    ASSUME NEW s \in WindowSets, NEW W,
           \A d \in DOMAIN s.displays :
               /\ W[d] \in Seq(WorkspaceSets)
               /\ DOMAIN W[d] = DOMAIN s.displays[d].workspaces
    PROVE  LET t == SetWith(s, W)
           IN  /\ t \in WindowSets /\ Spots(t) = Spots(s) /\ t.ops = s.ops
               /\ \A p \in Spots(s) : Workspace(t, p) = W[p[1]][p[2]]
  <1> DEFINE all == [d \in DOMAIN s.displays |-> [s.displays[d] EXCEPT !.workspaces = W[d]]]
             t == SetWith(s, W)
  <1>1. /\ s.displays \in Seq(DisplaySets)
        /\ \A d \in DOMAIN s.displays : s.displays[d] \in DisplaySets
    BY SetParts
  <1> DEFINE new(d) == [s.displays[d] EXCEPT !.workspaces = W[d]]
  <1>2. \A d \in DOMAIN s.displays : new(d) \in DisplaySets /\ new(d).workspaces = W[d]
    BY <1>1 DEF DisplaySets
  <1>3. /\ all \in Seq(DisplaySets) /\ DOMAIN all = DOMAIN s.displays
        /\ \A d \in DOMAIN s.displays : all[d].workspaces = W[d]
    <2>1. DOMAIN s.displays = 1 .. Len(s.displays) /\ Len(s.displays) \in Nat
      BY <1>1
    <2>2. all = [d \in 1 .. Len(s.displays) |-> new(d)]
      BY <2>1
    <2> HIDE DEF all, new
    <2>3. all \in [1 .. Len(s.displays) -> DisplaySets]
      BY <1>2, <2>1, <2>2
    <2>4. all \in Seq(DisplaySets)
      BY <2>1, <2>3, SeqDef
    <2> QED
      BY <1>2, <2>1, <2>2, <2>4
  <1>4. t \in WindowSets /\ t.displays = all /\ t.ops = s.ops
    <2>1. t = [s EXCEPT !.displays = all]
      BY DEF SetWith
    <2> HIDE DEF t, all
    <2> QED
      BY <1>3, <2>1, SetParts DEF WindowSets
  <1> HIDE DEF t, all
  <1>5. \A q : q \in Spots(t) <=> q \in Spots(s)
    <2>1. \A d \in DOMAIN s.displays :
              DOMAIN t.displays[d].workspaces = DOMAIN s.displays[d].workspaces
      BY <1>3, <1>4
    <2> QED
      BY <1>3, <1>4, <2>1, SetParts
  <1>6. ASSUME NEW p \in Spots(s)
        PROVE  Workspace(t, p) = W[p[1]][p[2]]
    <2>1. p[1] \in DOMAIN s.displays
      BY SetParts
    <2> QED
      BY <1>3, <1>4, <2>1 DEF Workspace
  <1> QED
    BY <1>4, <1>5, <1>6 DEF t

\* Looking at a workspace of a display that has the number.
LEMMA ViewedKeeps ==
    ASSUME NEW s \in WindowSets, Showing(s) # {}, NEW n
    PROVE  Kept(s, Viewed(s, n))
  <1> DEFINE there == {p[1] : p \in Numbered(s, n)}
             show(ws) == [k \in DOMAIN ws |-> [ws[k] EXCEPT !.active = (ws[k].number = n)]]
             W == [d \in DOMAIN s.displays |->
                      IF d \in there THEN show(s.displays[d].workspaces)
                      ELSE s.displays[d].workspaces]
             t == SetWith(s, W)
  <1>1. /\ s.displays \in Seq(DisplaySets)
        /\ \A d \in DOMAIN s.displays : /\ s.displays[d] \in DisplaySets
                                        /\ s.displays[d].workspaces \in Seq(WorkspaceSets)
    BY SetParts
  <1>2. Viewed(s, n) = t
    <2>1. \A d \in DOMAIN s.displays :
            (IF d \in there THEN [s.displays[d] EXCEPT !.workspaces = show(@)] ELSE s.displays[d])
                = [s.displays[d] EXCEPT !.workspaces = W[d]]
      <3> TAKE d \in DOMAIN s.displays
      <3>1. CASE d \in there
        BY <3>1
      <3>2. CASE d \notin there
        <4>1. s.displays[d] = [s.displays[d] EXCEPT !.workspaces = s.displays[d].workspaces]
          BY <1>1 DEF DisplaySets
        <4> QED
          BY <3>2, <4>1
      <3> QED
        BY <3>1, <3>2
    <2> QED
      BY <2>1 DEF Viewed, SetWith
  <1>3. \A ws \in WorkspaceSets : LET new == [ws EXCEPT !.active = (ws.number = n)]
                                  IN  /\ new \in WorkspaceSets
                                      /\ new.columns = ws.columns /\ new.floating = ws.floating
                                      /\ new.number = ws.number
                                      /\ new.active = (ws.number = n)
    BY DEF WorkspaceSets
  <1>4. ASSUME NEW w \in Seq(WorkspaceSets)
        PROVE  show(w) \in Seq(WorkspaceSets) /\ DOMAIN show(w) = DOMAIN w
    <2>1. Len(w) \in Nat /\ DOMAIN w = 1 .. Len(w)
      OBVIOUS
    <2>2. \A k \in 1 .. Len(w) : [w[k] EXCEPT !.active = (w[k].number = n)] \in WorkspaceSets
      BY <1>3
    <2> QED
      BY <2>1, <2>2
  <1>5. \A d \in DOMAIN s.displays : /\ W[d] \in Seq(WorkspaceSets)
                                     /\ DOMAIN W[d] = DOMAIN s.displays[d].workspaces
    <2> HIDE DEF show
    <2> QED
      BY <1>1, <1>4
  <1>6. \A p \in Spots(s) :
            /\ W[p[1]][p[2]] \in WorkspaceSets
            /\ W[p[1]][p[2]].columns = Workspace(s, p).columns
            /\ W[p[1]][p[2]].floating = Workspace(s, p).floating
            /\ p[1] \in there => W[p[1]][p[2]].active = (Workspace(s, p).number = n)
            /\ p[1] \notin there => W[p[1]][p[2]] = Workspace(s, p)
    <2> TAKE p \in Spots(s)
    <2>1. /\ p[1] \in DOMAIN s.displays /\ p[2] \in DOMAIN s.displays[p[1]].workspaces
          /\ Workspace(s, p) \in WorkspaceSets
          /\ Workspace(s, p) = s.displays[p[1]].workspaces[p[2]]
      BY SetParts DEF Workspace
    <2>2. CASE p[1] \in there
      <3>1. W[p[1]][p[2]] = [Workspace(s, p) EXCEPT !.active = (Workspace(s, p).number = n)]
        BY <2>1, <2>2
      <3> HIDE DEF W
      <3> QED
        BY <1>3, <2>1, <2>2, <3>1
    <2>3. CASE p[1] \notin there
      BY <2>1, <2>3
    <2> QED
      BY <2>2, <2>3
  <1> HIDE DEF W, show
  <1>7. /\ t \in WindowSets /\ Spots(t) = Spots(s) /\ t.ops = s.ops
        /\ \A p \in Spots(s) : Workspace(t, p) = W[p[1]][p[2]]
    BY <1>5, SetWithHolds
  <1>8. \A p \in Spots(s) : Members(Workspace(t, p)) = Members(Workspace(s, p))
    BY <1>6, <1>7, TiledInColumns DEF Members
  <1>9. Everyone(t) = Everyone(s)
    <2>1. /\ Everyone(t) = UNION {Members(Workspace(t, p)) : p \in Spots(t)}
          /\ Everyone(s) = UNION {Members(Workspace(s, p)) : p \in Spots(s)}
      BY <1>7, EveryoneIs
    <2> QED
      BY <1>7, <1>8, <2>1
  <1>10. \E p \in Spots(s) : Workspace(t, p).active
    <2>1. CASE Numbered(s, n) = {}
      <3>1. there = {}
        BY <2>1
      <3>2. PICK p \in Spots(s) : Workspace(s, p).active
        BY ShowingIn
      <3> QED
        BY <1>6, <1>7, <3>1, <3>2
    <2>2. CASE Numbered(s, n) # {}
      <3>1. PICK p \in Numbered(s, n) : TRUE
        BY <2>2
      <3>2. p \in Spots(s) /\ Workspace(s, p).number = n /\ p[1] \in there
        BY <3>1, ShowingIn
      <3> QED
        BY <1>6, <1>7, <3>2
    <2> QED
      BY <2>1, <2>2
  <1>11. Showing(t) # {}
    BY <1>7, <1>10, ShowingIn
  <1> QED
    BY <1>2, <1>7, <1>9, <1>11 DEF Kept, Sound

\* A visit of every window with the function g on records.
Visit(windows, g) == [i \in DOMAIN windows |-> g[windows[i]]]
Turned(ws, g) ==
    [ws EXCEPT !.columns = [c \in DOMAIN ws.columns |->
                               [ws.columns[c] EXCEPT !.windows = Visit(ws.columns[c].windows, g)]],
               !.floating = Visit(ws.floating, g)]
TurnedIn(s, g) ==
    [d \in DOMAIN s.displays |->
        [k \in DOMAIN s.displays[d].workspaces |-> Turned(s.displays[d].workspaces[k], g)]]

LEMMA VisitHolds ==
    ASSUME NEW windows \in Seq(WindowRecs), NEW g \in [WindowRecs -> WindowRecs], NEW names,
           \A rec \in WindowRecs : g[rec].id = names[rec.id]
    PROVE  /\ Visit(windows, g) \in Seq(WindowRecs)
           /\ Ids(Visit(windows, g)) = {names[w] : w \in Ids(windows)}
  <1>1. Len(windows) \in Nat /\ DOMAIN windows = 1 .. Len(windows)
    OBVIOUS
  <1>2. \A i \in DOMAIN windows : windows[i] \in WindowRecs
    OBVIOUS
  <1>3. Visit(windows, g) \in [1 .. Len(windows) -> WindowRecs]
    BY <1>1, <1>2 DEF Visit
  <1>4. Visit(windows, g) \in Seq(WindowRecs)
    BY <1>1, <1>3, SeqDef
  <1>5. Ids(Visit(windows, g)) = {g[windows[i]].id : i \in DOMAIN windows}
    BY DEF Ids, ToSet, Visit
  <1>6. Ids(windows) = {windows[i].id : i \in DOMAIN windows}
    BY DEF Ids, ToSet
  <1>7. {g[windows[i]].id : i \in DOMAIN windows} = {names[w] : w \in Ids(windows)}
    BY <1>2, <1>6
  <1> QED
    BY <1>4, <1>5, <1>7

LEMMA TurnedHolds ==
    ASSUME NEW ws \in WorkspaceSets, NEW g \in [WindowRecs -> WindowRecs], NEW names,
           \A rec \in WindowRecs : g[rec].id = names[rec.id]
    PROVE  /\ Turned(ws, g) \in WorkspaceSets
           /\ Turned(ws, g).active = ws.active /\ Turned(ws, g).number = ws.number
           /\ Members(Turned(ws, g)) = {names[w] : w \in Members(ws)}
  <1> DEFINE new(c) == [ws.columns[c] EXCEPT !.windows = Visit(ws.columns[c].windows, g)]
             columns == [c \in DOMAIN ws.columns |-> new(c)]
             floating == Visit(ws.floating, g)
  <1>1. /\ ws.columns \in Seq(ColumnSets) /\ ws.floating \in Seq(WindowRecs)
        /\ \A c \in DOMAIN ws.columns :
              ws.columns[c] \in ColumnSets /\ ws.columns[c].windows \in Seq(WindowRecs)
    BY WorkspaceParts
  <1>2. /\ floating \in Seq(WindowRecs)
        /\ Ids(floating) = {names[w] : w \in Ids(ws.floating)}
    BY <1>1, VisitHolds
  <1>3. ASSUME NEW c \in DOMAIN ws.columns
        PROVE  /\ new(c) \in ColumnSets
               /\ Ids(new(c).windows) = {names[w] : w \in Ids(ws.columns[c].windows)}
    <2> DEFINE windows == Visit(ws.columns[c].windows, g)
    <2>1. /\ windows \in Seq(WindowRecs)
          /\ Ids(windows) = {names[w] : w \in Ids(ws.columns[c].windows)}
      BY <1>1, <1>3, VisitHolds
    <2> HIDE DEF windows
    <2>2. new(c) \in ColumnSets /\ new(c).windows = windows
      BY <1>1, <1>3, <2>1 DEF ColumnSets, windows
    <2> QED
      BY <2>1, <2>2
  <1> HIDE DEF new
  <1>4. /\ columns \in Seq(ColumnSets) /\ DOMAIN columns = DOMAIN ws.columns
        /\ \A c \in DOMAIN ws.columns : columns[c] = new(c)
    <2>1. Len(ws.columns) \in Nat /\ DOMAIN ws.columns = 1 .. Len(ws.columns)
      BY <1>1
    <2>2. columns \in [1 .. Len(ws.columns) -> ColumnSets]
      BY <1>3, <2>1
    <2> QED
      BY <2>1, <2>2, SeqDef
  <1>5. Turned(ws, g) = [[ws EXCEPT !.columns = columns] EXCEPT !.floating = floating]
    BY DEF Turned, new
  <1> HIDE DEF columns, floating
  <1>6. /\ Turned(ws, g) \in WorkspaceSets
        /\ Turned(ws, g).active = ws.active /\ Turned(ws, g).number = ws.number
        /\ Turned(ws, g).columns = columns /\ Turned(ws, g).floating = floating
    BY <1>2, <1>4, <1>5 DEF WorkspaceSets
  <1>7. Tiled(Turned(ws, g)) = UNION {Ids(new(c).windows) : c \in DOMAIN ws.columns}
    BY <1>4, <1>6 DEF Tiled
  <1>8. UNION {Ids(new(c).windows) : c \in DOMAIN ws.columns} = {names[w] : w \in Tiled(ws)}
    <2> DEFINE ids(c) == Ids(ws.columns[c].windows)
               turned(c) == Ids(new(c).windows)
    <2>1. \A c \in DOMAIN ws.columns : turned(c) = {names[w] : w \in ids(c)}
      BY <1>3
    <2>2. Tiled(ws) = UNION {ids(c) : c \in DOMAIN ws.columns}
      BY DEF Tiled
    <2> HIDE DEF ids, turned
    <2>3. ASSUME NEW x \in UNION {turned(c) : c \in DOMAIN ws.columns}
          PROVE  x \in {names[w] : w \in Tiled(ws)}
      <3>1. PICK c \in DOMAIN ws.columns : x \in turned(c)
        BY <2>3
      <3>2. PICK v \in ids(c) : x = names[v]
        BY <2>1, <3>1
      <3> QED
        BY <2>2, <3>2
    <2>4. ASSUME NEW x \in {names[w] : w \in Tiled(ws)}
          PROVE  x \in UNION {turned(c) : c \in DOMAIN ws.columns}
      <3>1. PICK v \in Tiled(ws) : x = names[v]
        BY <2>4
      <3>2. PICK c \in DOMAIN ws.columns : v \in ids(c)
        BY <2>2, <3>1
      <3>3. x \in turned(c)
        BY <2>1, <3>1, <3>2
      <3> QED
        BY <3>3
    <2>5. UNION {turned(c) : c \in DOMAIN ws.columns} = {names[w] : w \in Tiled(ws)}
      BY <2>3, <2>4
    <2> QED
      BY <2>5 DEF turned
  <1>9. {names[w] : w \in Tiled(ws) \cup Ids(ws.floating)}
            = {names[w] : w \in Tiled(ws)} \cup {names[w] : w \in Ids(ws.floating)}
    OBVIOUS
  <1> QED
    BY <1>2, <1>6, <1>7, <1>8, <1>9 DEF Members

LEMMA VisitedSet ==
    ASSUME NEW s \in WindowSets, NEW g \in [WindowRecs -> WindowRecs], NEW names,
           \A rec \in WindowRecs : g[rec].id = names[rec.id]
    PROVE  LET t == SetWith(s, TurnedIn(s, g))
           IN  /\ t \in WindowSets /\ t.ops = s.ops /\ SameMarks(s, t)
               /\ Everyone(t) = {names[w] : w \in Everyone(s)}
  <1> DEFINE t == SetWith(s, TurnedIn(s, g))
  <1>1. \A d \in DOMAIN s.displays : s.displays[d].workspaces \in Seq(WorkspaceSets)
    BY SetParts
  <1>2. \A ws \in WorkspaceSets :
            /\ Turned(ws, g) \in WorkspaceSets
            /\ Turned(ws, g).active = ws.active /\ Turned(ws, g).number = ws.number
            /\ Members(Turned(ws, g)) = {names[w] : w \in Members(ws)}
    BY TurnedHolds
  <1>3. ASSUME NEW d \in DOMAIN s.displays
        PROVE  /\ TurnedIn(s, g)[d] \in Seq(WorkspaceSets)
               /\ DOMAIN TurnedIn(s, g)[d] = DOMAIN s.displays[d].workspaces
               /\ \A k \in DOMAIN s.displays[d].workspaces :
                     TurnedIn(s, g)[d][k] = Turned(s.displays[d].workspaces[k], g)
    <2> DEFINE rows == s.displays[d].workspaces
               new == [k \in DOMAIN rows |-> Turned(rows[k], g)]
    <2>1. rows \in Seq(WorkspaceSets) /\ Len(rows) \in Nat /\ DOMAIN rows = 1 .. Len(rows)
      BY <1>1
    <2>2. \A k \in DOMAIN rows : rows[k] \in WorkspaceSets
      BY <2>1
    <2>3. TurnedIn(s, g)[d] = new
      BY DEF TurnedIn
    <2> HIDE DEF rows
    <2>4. new \in [1 .. Len(rows) -> WorkspaceSets]
      BY <1>2, <2>1, <2>2
    <2>5. new \in Seq(WorkspaceSets)
      BY <2>1, <2>4, SeqDef
    <2> QED
      BY <2>3, <2>5 DEF rows
  <1>4. /\ t \in WindowSets /\ Spots(t) = Spots(s) /\ t.ops = s.ops
        /\ \A p \in Spots(s) : Workspace(t, p) = TurnedIn(s, g)[p[1]][p[2]]
    BY <1>3, SetWithHolds
  <1>5. \A p \in Spots(s) : /\ Workspace(t, p) = Turned(Workspace(s, p), g)
                            /\ Workspace(s, p) \in WorkspaceSets
    <2> TAKE p \in Spots(s)
    <2>1. /\ p[1] \in DOMAIN s.displays /\ p[2] \in DOMAIN s.displays[p[1]].workspaces
          /\ Workspace(s, p) \in WorkspaceSets
      BY SetParts
    <2> QED
      BY <1>3, <1>4, <2>1 DEF Workspace
  <1> HIDE DEF t
  <1>6. SameMarks(s, t)
    BY <1>2, <1>4, <1>5 DEF SameMarks
  <1>7. /\ Everyone(t) = UNION {Members(Workspace(t, p)) : p \in Spots(s)}
        /\ Everyone(s) = UNION {Members(Workspace(s, p)) : p \in Spots(s)}
    BY <1>4, EveryoneIs
  <1>8. \A p \in Spots(s) : Members(Workspace(t, p)) = {names[w] : w \in Members(Workspace(s, p))}
    BY <1>2, <1>5
  <1>9. Everyone(t) = {names[w] : w \in Everyone(s)}
    BY <1>7, <1>8
  <1> QED
    BY <1>4, <1>6, <1>9 DEF t

\* A window that gets the focus.
LEMMA FocusedKeeps ==
    ASSUME NEW s \in WindowSets, Showing(s) # {}, NEW w \in Windows
    PROVE  Kept(s, Focused(s, w))
  <1> DEFINE g == [rec \in WindowRecs |-> [rec EXCEPT !.focused = (rec.id = w)]]
             names == [v \in Windows |-> v]
             t == SetWith(s, TurnedIn(s, g))
             u == [t EXCEPT !.focused = {w}]
  <1>1. g \in [WindowRecs -> WindowRecs] /\ \A rec \in WindowRecs : g[rec].id = names[rec.id]
    BY DEF WindowRecs
  <1>2. \A windows \in Seq(WindowRecs) :
            [i \in DOMAIN windows |-> [windows[i] EXCEPT !.focused = (windows[i].id = w)]]
                = Visit(windows, g)
    BY DEF Visit
  <1> DEFINE visit(windows) ==
                 [i \in DOMAIN windows |-> [windows[i] EXCEPT !.focused = (windows[i].id = w)]]
             each(ws) == [ws EXCEPT !.columns = [c \in DOMAIN ws.columns |->
                                       [ws.columns[c] EXCEPT !.windows = visit(@)]],
                       !.floating = visit(@)]
  <1>3. \A ws \in WorkspaceSets : each(ws) = Turned(ws, g)
    <2> TAKE ws \in WorkspaceSets
    <2>1. /\ visit(ws.floating) = Visit(ws.floating, g)
          /\ \A c \in DOMAIN ws.columns : visit(ws.columns[c].windows) = Visit(ws.columns[c].windows, g)
      BY <1>2, WorkspaceParts
    <2> HIDE DEF visit, g
    <2> QED
      BY <2>1 DEF Turned
  <1> HIDE DEF each, g, visit, names
  <1>4. [d \in DOMAIN s.displays |-> [s.displays[d] EXCEPT !.workspaces =
            [k \in DOMAIN s.displays[d].workspaces |-> each(s.displays[d].workspaces[k])]]]
        = [d \in DOMAIN s.displays |-> [s.displays[d] EXCEPT !.workspaces = TurnedIn(s, g)[d]]]
    <2>1. \A d \in DOMAIN s.displays :
              [k \in DOMAIN s.displays[d].workspaces |-> each(s.displays[d].workspaces[k])]
                  = TurnedIn(s, g)[d]
      <3> TAKE d \in DOMAIN s.displays
      <3>1. s.displays[d].workspaces \in Seq(WorkspaceSets)
        BY SetParts
      <3>2. \A k \in DOMAIN s.displays[d].workspaces :
                each(s.displays[d].workspaces[k]) = Turned(s.displays[d].workspaces[k], g)
        BY <1>3, <3>1
      <3> QED
        BY <3>2 DEF TurnedIn
    <2> QED
      BY <2>1
  <1>5. Focused(s, w) = u
    BY <1>4 DEF Focused, EachWindow, EachWorkspace, SetWith, each, visit
  <1>6. /\ t \in WindowSets /\ t.ops = s.ops /\ SameMarks(s, t)
        /\ Everyone(t) = {names[v] : v \in Everyone(s)}
    BY <1>1, VisitedSet
  <1> HIDE DEF t
  <1>7. Everyone(s) \subseteq Windows
    BY EveryoneWindows
  <1>8. Everyone(t) = Everyone(s)
    BY <1>6, <1>7 DEF names
  <1>9. u \in WindowSets /\ u.displays = t.displays /\ u.ops = t.ops
    BY <1>6 DEF WindowSets
  <1> HIDE DEF u
  <1>10. Showing(u) = Showing(t) /\ Everyone(u) = Everyone(t)
    <2>1. \A p : Workspace(u, p) = Workspace(t, p)
      BY <1>9 DEF Workspace
    <2>2. Spots(u) = Spots(t)
      BY <1>9 DEF Spots
    <2>3. {p \in Spots(u) : Workspace(u, p).active} = {p \in Spots(t) : Workspace(t, p).active}
      BY <2>1, <2>2
    <2>4. Everyone(u) = Everyone(t)
      <3>1. /\ Everyone(u) = UNION {Members(Workspace(u, p)) : p \in Spots(u)}
            /\ Everyone(t) = UNION {Members(Workspace(t, p)) : p \in Spots(t)}
        BY <1>6, <1>9, EveryoneIs
      <3>2. {Members(Workspace(u, p)) : p \in Spots(t)} = {Members(Workspace(t, p)) : p \in Spots(t)}
        BY <2>1
      <3> QED
        BY <2>2, <3>1, <3>2
    <2> QED
      BY <2>3, <2>4 DEF Showing
  <1> QED
    BY <1>5, <1>6, <1>8, <1>9, <1>10, ShowingSame DEF Kept, Sound

\* A window that is managed, or no longer.
LEMMA ManagedKeeps ==
    ASSUME NEW s \in WindowSets, Showing(s) # {}, NEW w \in Windows, NEW yes \in BOOLEAN
    PROVE  Kept(s, Managed(s, w, yes))
  <1> DEFINE one(rec) == IF rec.id = w THEN [rec EXCEPT !.managed = yes] ELSE rec
             g == [rec \in WindowRecs |-> one(rec)]
             names == [v \in Windows |-> v]
             t == SetWith(s, TurnedIn(s, g))
             visit(windows) == [i \in DOMAIN windows |-> one(windows[i])]
             each(ws) == [ws EXCEPT !.columns = [c \in DOMAIN ws.columns |->
                                       [ws.columns[c] EXCEPT !.windows = visit(@)]],
                                    !.floating = visit(@)]
  <1>1. g \in [WindowRecs -> WindowRecs] /\ \A rec \in WindowRecs : g[rec].id = names[rec.id]
    BY DEF WindowRecs
  <1>2. \A windows \in Seq(WindowRecs) : visit(windows) = Visit(windows, g)
    <2>1. \A rec \in WindowRecs : g[rec] = one(rec)
      OBVIOUS
    <2> HIDE DEF one, g
    <2> QED
      BY <2>1 DEF Visit
  <1> HIDE DEF visit, g
  <1>3. \A ws \in WorkspaceSets : each(ws) = Turned(ws, g)
    <2> TAKE ws \in WorkspaceSets
    <2>1. /\ visit(ws.floating) = Visit(ws.floating, g)
          /\ \A c \in DOMAIN ws.columns : visit(ws.columns[c].windows) = Visit(ws.columns[c].windows, g)
      BY <1>2, WorkspaceParts
    <2> QED
      BY <2>1 DEF Turned
  <1> HIDE DEF each, names
  <1>4. Managed(s, w, yes) = t
    <2> DEFINE all(ws) == [k \in DOMAIN ws |-> each(ws[k])]
    <2>1. \A d \in DOMAIN s.displays : all(s.displays[d].workspaces) = TurnedIn(s, g)[d]
      <3> TAKE d \in DOMAIN s.displays
      <3>1. s.displays[d].workspaces \in Seq(WorkspaceSets)
        BY SetParts
      <3>2. \A k \in DOMAIN s.displays[d].workspaces :
                each(s.displays[d].workspaces[k]) = Turned(s.displays[d].workspaces[k], g)
        BY <1>3, <3>1
      <3> QED
        BY <3>2 DEF TurnedIn
    <2>2. [s EXCEPT !.displays = [d \in DOMAIN s.displays |->
              [s.displays[d] EXCEPT !.workspaces = all(s.displays[d].workspaces)]]] = t
      <3> HIDE DEF all
      <3> QED
        BY <2>1 DEF SetWith
    <2> QED
      BY <2>2 DEF Managed, EachWindow, EachWorkspace, each, visit
  <1>6. /\ t \in WindowSets /\ t.ops = s.ops /\ SameMarks(s, t)
        /\ Everyone(t) = {names[v] : v \in Everyone(s)}
    BY <1>1, VisitedSet
  <1> HIDE DEF t
  <1>7. Everyone(t) = Everyone(s)
    BY <1>6, EveryoneWindows DEF names
  <1> QED
    BY <1>4, <1>6, <1>7, ShowingSame DEF Kept, Sound

\* Two windows that trade names.
Traded(v, w) == [x \in Windows |-> IF x = v THEN w ELSE IF x = w THEN v ELSE x]

\* A swap of two windows.
LEMMA SwappedKeeps ==
    ASSUME NEW s \in WindowSets, Showing(s) # {}, NEW w, NEW other
    PROVE  Kept(s, Swapped(s, w, other))
  <1> DEFINE left  == CHOOSE rec \in WindowRec(s, w) : TRUE
             right == CHOOSE rec \in WindowRec(s, other) : TRUE
             one(rec) == CASE rec.id = w     -> [right EXCEPT !.focused = rec.focused]
                           [] rec.id = other -> [left EXCEPT !.focused = rec.focused]
                           [] OTHER          -> rec
             g == [rec \in WindowRecs |-> one(rec)]
             names == Traded(w, other)
             t == SetWith(s, TurnedIn(s, g))
             visit(windows) == [i \in DOMAIN windows |-> one(windows[i])]
             each(ws) == [ws EXCEPT !.columns = [c \in DOMAIN ws.columns |->
                                       [ws.columns[c] EXCEPT !.windows = visit(@)]],
                                    !.floating = visit(@)]
  <1>1. CASE ~({w, other} \subseteq Everyone(s))
    <2>1. Swapped(s, w, other) = s
      BY <1>1 DEF Swapped
    <2> QED
      BY <2>1, StaysKept
  <1>2. CASE {w, other} \subseteq Everyone(s)
    <2>1. /\ left \in WindowRecs /\ left.id = w /\ right \in WindowRecs /\ right.id = other
          /\ w \in Windows /\ other \in Windows
      BY <1>2, FoundIn, EveryoneWindows
    <2> HIDE DEF left, right
    <2>2. \A rec \in WindowRecs : one(rec) \in WindowRecs /\ one(rec).id = names[rec.id]
      <3> TAKE rec \in WindowRecs
      <3>1. rec.id \in Windows /\ rec.focused \in BOOLEAN
        BY DEF WindowRecs
      <3>2. \A r \in WindowRecs : /\ [r EXCEPT !.focused = rec.focused] \in WindowRecs
                                  /\ [r EXCEPT !.focused = rec.focused].id = r.id
        BY <3>1 DEF WindowRecs
      <3>3. CASE rec.id = w
        BY <2>1, <3>1, <3>2, <3>3 DEF Traded
      <3>4. CASE rec.id # w /\ rec.id = other
        BY <2>1, <3>1, <3>2, <3>4 DEF Traded
      <3>5. CASE rec.id # w /\ rec.id # other
        BY <3>1, <3>5 DEF Traded
      <3> QED
        BY <3>3, <3>4, <3>5
    <2>3. \A rec \in WindowRecs : g[rec] = one(rec)
      OBVIOUS
    <2> HIDE DEF one, g
    <2>4. g \in [WindowRecs -> WindowRecs] /\ \A rec \in WindowRecs : g[rec].id = names[rec.id]
      <3>1. g = [rec \in WindowRecs |-> one(rec)]
        BY DEF g
      <3> QED
        BY <2>2, <2>3, <3>1
    <2>5. \A windows \in Seq(WindowRecs) : visit(windows) = Visit(windows, g)
      BY <2>3 DEF Visit
    <2> HIDE DEF visit
    <2>6. \A ws \in WorkspaceSets : each(ws) = Turned(ws, g)
      <3> TAKE ws \in WorkspaceSets
      <3>1. /\ visit(ws.floating) = Visit(ws.floating, g)
            /\ \A c \in DOMAIN ws.columns : visit(ws.columns[c].windows) = Visit(ws.columns[c].windows, g)
        BY <2>5, WorkspaceParts
      <3> QED
        BY <3>1 DEF Turned
    <2> HIDE DEF each, names
    <2>7. Swapped(s, w, other) = t
      <3> DEFINE all(ws) == [k \in DOMAIN ws |-> each(ws[k])]
      <3>1. \A d \in DOMAIN s.displays : all(s.displays[d].workspaces) = TurnedIn(s, g)[d]
        <4> TAKE d \in DOMAIN s.displays
        <4>1. s.displays[d].workspaces \in Seq(WorkspaceSets)
          BY SetParts
        <4>2. \A k \in DOMAIN s.displays[d].workspaces :
                  each(s.displays[d].workspaces[k]) = Turned(s.displays[d].workspaces[k], g)
          BY <2>6, <4>1
        <4> QED
          BY <4>2 DEF TurnedIn
      <3>2. [s EXCEPT !.displays = [d \in DOMAIN s.displays |->
                [s.displays[d] EXCEPT !.workspaces = all(s.displays[d].workspaces)]]] = t
        <4> HIDE DEF all
        <4> QED
          BY <3>1 DEF SetWith
      <3> QED
        BY <1>2, <3>2 DEF Swapped, EachWindow, EachWorkspace, each, visit, one, left, right
    <2>8. /\ t \in WindowSets /\ t.ops = s.ops /\ SameMarks(s, t)
          /\ Everyone(t) = {names[v] : v \in Everyone(s)}
      BY <2>4, VisitedSet
    <2> HIDE DEF t
    <2>9. Everyone(t) = Everyone(s)
      <3>1. {names[v] : v \in Everyone(s)} = Everyone(s)
        <4> DEFINE S == Everyone(s)
        <4>1. S \subseteq Windows /\ w \in S /\ other \in S
          BY <1>2, EveryoneWindows
        <4> HIDE DEF S
        <4>2. \A y \in S : names[y] \in S /\ names[names[y]] = y
          BY <4>1 DEF Traded, names
        <4>3. {names[v] : v \in S} = S
          BY <4>2
        <4> QED
          BY <4>3 DEF S
      <3> QED
        BY <2>8, <3>1
    <2> QED
      BY <2>7, <2>8, <2>9, ShowingSame DEF Kept, Sound
  <1> QED
    BY <1>1, <1>2

\* The operation is recorded, whatever became of the tree.
LEMMA Recorded ==
    ASSUME NEW t \in WindowSets, NEW op \in LayoutOp
    PROVE  LET u == [t EXCEPT !.ops = Append(@, op)]
           IN  /\ u \in WindowSets /\ u.ops = Append(t.ops, op)
               /\ Showing(u) = Showing(t) /\ Everyone(u) = Everyone(t)
  <1> DEFINE ops == Append(t.ops, op)
             u == [t EXCEPT !.ops = ops]
  <1>1. ops \in Seq(LayoutOp)
    BY SetParts
  <1> HIDE DEF ops
  <1>2. u \in WindowSets /\ u.displays = t.displays /\ u.ops = ops
    BY <1>1 DEF WindowSets
  <1> HIDE DEF u
  <1>3. (\A p : Workspace(u, p) = Workspace(t, p)) /\ Spots(u) = Spots(t)
    BY <1>2 DEF Workspace, Spots
  <1>4. {p \in Spots(u) : Workspace(u, p).active} = {p \in Spots(t) : Workspace(t, p).active}
    BY <1>3
  <1>5. {Members(Workspace(u, p)) : p \in Spots(t)} = {Members(Workspace(t, p)) : p \in Spots(t)}
    BY <1>3
  <1>6. Everyone(u) = Everyone(t)
    BY <1>2, <1>3, <1>5, EveryoneIs
  <1> QED
    BY <1>2, <1>4, <1>6 DEF Showing, u, ops

\* WindowSet.with: from a value that shows a workspace, any operation of a script
\* gives a value again, which still shows one, has recorded the operation, and
\* has lost no window ("do not lift the window out unless there is somewhere to
\* put it"), except that stacking a window onto itself or onto one that is not
\* tiled does.  For any number of displays, workspaces, columns and windows.
THEOREM TransformsKeepWindows ==
    ASSUME NEW s \in WindowSets, Showing(s) # {}, NEW op \in LayoutOp
    PROVE  LET t == With(s, op)
           IN  /\ t \in WindowSets /\ Showing(t) # {} /\ t.ops = Append(s.ops, op)
               /\ \/ Everyone(t) = Everyone(s)
                  \/ op.op = "stack" /\ (op.win = op.onto \/ TiledOn(s, op.onto) = {})
  <1> DEFINE u == Transformed(s, op)
             unmade == op.op = "stack" /\ (op.win = op.onto \/ TiledOn(s, op.onto) = {})
  <1>1. Sound(s, u) /\ (Kept(s, u) \/ unmade)
    <2>1. CASE op \in [op : {"focus", "width", "frame", "unstack"}, win : Windows]
      <3>1. u \in {Focused(s, op.win), Unstacked(s, op.win), s}
        BY <2>1 DEF Transformed
      <3> QED
        <4>1. op.win \in Windows /\ TRUE \in BOOLEAN
          BY <2>1
        <4>2. Kept(s, Focused(s, op.win)) /\ Kept(s, s)
          BY <4>1, FocusedKeeps, StaysKept
        <4>3. Kept(s, Unstacked(s, op.win))
          BY <4>1, FloatedKeeps
        <4> QED
          BY <3>1, <4>2, <4>3 DEF Kept
    <2>2. CASE op \in [op : {"swap"}, win : Windows, other : Windows]
      <3>1. u = Swapped(s, op.win, op.other)
        BY <2>2 DEF Transformed
      <3> QED
        BY <3>1, SwappedKeeps DEF Kept
    <2>3. CASE op \in [op : {"stack"}, win : Windows, onto : Windows, tabs : BOOLEAN]
      <3>1. u = Stacked(s, op.win, op.onto, op.tabs) /\ op.tabs \in BOOLEAN /\ op.op = "stack"
        BY <2>3 DEF Transformed
      <3> QED
        BY <3>1, StackedKeeps DEF Kept
    <2>4. CASE op \in [op : {"shift"}, win : Windows, number : Nat, follow : BOOLEAN]
      <3>1. u = Shifted(s, op.win, op.number)
        BY <2>4 DEF Transformed
      <3> QED
        BY <3>1, ShiftedKeeps DEF Kept
    <2>5. CASE op \in [op : {"view"}, number : Nat]
      <3>1. u = Viewed(s, op.number)
        BY <2>5 DEF Transformed
      <3> QED
        BY <3>1, ViewedKeeps DEF Kept
    <2>6. CASE op \in [op : {"float", "manage"}, win : Windows, yes : BOOLEAN]
      <3>1. u \in {Floated(s, op.win, op.yes), Managed(s, op.win, op.yes)}
        BY <2>6 DEF Transformed
      <3> QED
        BY <2>6, <3>1, FloatedKeeps, ManagedKeeps DEF Kept
    <2> QED
      BY <2>1, <2>2, <2>3, <2>4, <2>5, <2>6 DEF LayoutOp
  <1>2. With(s, op) = [u EXCEPT !.ops = Append(@, op)]
    BY DEF With
  <1> HIDE DEF u
  <1>3. /\ With(s, op) \in WindowSets /\ With(s, op).ops = Append(u.ops, op)
        /\ Showing(With(s, op)) = Showing(u) /\ Everyone(With(s, op)) = Everyone(u)
    BY <1>1, <1>2, Recorded DEF Sound
  <1> QED
    BY <1>1, <1>3 DEF Kept, Sound

------------------------------------------------------------------------------
(* The handlers of a script *)

\* The windows that the reads of a value name are windows.
LEMMA OthersAreWindows ==
    ASSUME NEW s \in WindowSets, NEW w
    PROVE  Others(s, w) \subseteq Windows
  <1>1. \A windows \in Seq(WindowRecs) : \A i \in DOMAIN windows : windows[i].id \in Windows
    <2>1. \A rec \in WindowRecs : rec.id \in Windows
      BY DEF WindowRecs
    <2> QED
      BY <2>1
  <1> SUFFICES ASSUME NEW p \in WorkspaceOf(s, w)
               PROVE  LET ws == Workspace(s, p)
                      IN  East(ws, w) \cup West(ws, w) \cup NextWindow(ws, w)
                              \cup PrevWindow(ws, w) \subseteq Windows
    BY DEF Others
  <1> DEFINE ws == Workspace(s, p)
             ids == WindowsOn(ws)
  <1>2. ws \in WorkspaceSets
    BY FoundIn, SetParts
  <1>3. ids \in Seq(WindowRecs) /\ w \in Ids(ids)
    BY <1>2, FoundIn, MembersListed
  <1>4. /\ At(ids, w) \in DOMAIN ids /\ DOMAIN ids = 1 .. Len(ids) /\ Len(ids) \in Nat \ {0}
    BY <1>3, Placed
  <1> HIDE DEF ids, ws
  <1>5. \A c \in DOMAIN ws.columns : Top(ws.columns[c]) \subseteq Windows
    BY <1>1, <1>2, WorkspaceParts DEF Top
  <1>6. East(ws, w) \subseteq Windows /\ West(ws, w) \subseteq Windows
    BY <1>5 DEF East, West, Neighbour
  <1>7. ASSUME NEW ahead \in Nat
        PROVE  Cycle(ws, w, ahead) \subseteq Windows
    <2> DEFINE i == At(ids, w)
               k == (i - 1 + ahead) % Len(ids)
    <2>1. i - 1 + ahead \in Nat
      BY <1>4
    <2> HIDE DEF i
    <2>2. k + 1 \in DOMAIN ids
      BY <1>4, <2>1
    <2>3. ids[k + 1].id \in Windows
      BY <1>1, <1>3, <2>2
    <2> QED
      BY <2>3 DEF Cycle, ids, i
  <1>8. Len(WindowsOn(ws)) - 1 \in Nat
    BY <1>4 DEF ids
  <1>9. NextWindow(ws, w) \subseteq Windows /\ PrevWindow(ws, w) \subseteq Windows
    BY <1>7, <1>8 DEF NextWindow, PrevWindow
  <1> QED
    BY <1>6, <1>9 DEF ws

\* What a script may ask for are operations.
LEMMA MenuIsTyped ==
    ASSUME NEW s \in WindowSets, NEW op \in Menu(s)
    PROVE  op \in LayoutOp
  <1>1. \A w : Others(s, w) \subseteq Windows
    BY OthersAreWindows
  <1>2. 0 .. MaxIndex + 1 \subseteq Nat /\ 1 .. MaxIndex + 1 \subseteq Nat
    BY IndexAssumption
  <1>3. CASE \E w \in Windows :
                 op \in {FocusOp(w), WidthOp(w), FrameOp(w), UnstackOp(w)}
    BY <1>3 DEF LayoutOp, FocusOp, WidthOp, FrameOp, UnstackOp
  <1>4. CASE \E w \in Windows : \E v \in Others(s, w) : op = SwapOp(w, v)
    BY <1>1, <1>4 DEF LayoutOp, SwapOp
  <1>5. CASE \E w \in Windows : \E v \in Others(s, w) : \E tabs \in BOOLEAN : op = StackOp(w, v, tabs)
    BY <1>1, <1>5 DEF LayoutOp, StackOp
  <1>6. CASE \E w \in Windows : \E n \in 0 .. MaxIndex + 1 : \E follow \in BOOLEAN :
                 op = ShiftOp(w, n, follow)
    BY <1>2, <1>6 DEF LayoutOp, ShiftOp
  <1>7. CASE \E w \in Windows : \E yes \in BOOLEAN : op \in {FloatOp(w, yes), ManageOp(w, yes)}
    BY <1>7 DEF LayoutOp, FloatOp, ManageOp
  <1>8. CASE \E n \in 1 .. MaxIndex + 1 : op = ViewOp(n)
    BY <1>2, <1>8 DEF LayoutOp, ViewOp
  <1> QED
    <2> DEFINE ofWindow(w) ==
                   {FocusOp(w), WidthOp(w), FrameOp(w), UnstackOp(w)}
                   \cup {SwapOp(w, v) : v \in Others(s, w)}
                   \cup {StackOp(w, v, tabs) : v \in Others(s, w), tabs \in BOOLEAN}
                   \cup {ShiftOp(w, n, follow) : n \in 0 .. MaxIndex + 1, follow \in BOOLEAN}
                   \cup {FloatOp(w, yes) : yes \in BOOLEAN}
                   \cup {ManageOp(w, yes) : yes \in BOOLEAN}
    <2>1. \/ op \in UNION {ofWindow(w) : w \in Windows}
          \/ op \in {ViewOp(n) : n \in 1 .. MaxIndex + 1}
      <3>1. op \in Menu(s)
        OBVIOUS
      <3> QED
        BY <3>1 DEF Menu
    <2>2. ASSUME NEW w \in Windows, op \in ofWindow(w)
          PROVE  op \in LayoutOp
      BY <2>2, <1>3, <1>4, <1>5, <1>6, <1>7
    <2> QED
      BY <2>1, <2>2, <1>8

\* What KeepsWindows says of the values a handler holds before and after a step.
KeptIn(s, t) ==
    Everyone(s) = Everyone(t) \/ LET op == Last(t.ops)
                                 IN  /\ op.op = "stack"
                                     /\ op.win = op.onto \/ TiledOn(s, op.onto) = {}

LEMMA OneAsked ==
    ASSUME NEW s \in ShowingSets, NEW op \in LayoutOp
    PROVE  /\ With(s, op) \in ShowingSets
           /\ KeptIn(s, With(s, op))
           /\ op.op # "stack" => Everyone(With(s, op)) = Everyone(s)
  <1> DEFINE t == With(s, op)
  <1>1. /\ t \in WindowSets /\ Showing(t) # {} /\ t.ops = Append(s.ops, op)
        /\ \/ Everyone(t) = Everyone(s)
           \/ op.op = "stack" /\ (op.win = op.onto \/ TiledOn(s, op.onto) = {})
    BY TransformsKeepWindows DEF ShowingSets
  <1> HIDE DEF t
  <1>2. s.ops \in Seq(LayoutOp)
    BY SetParts DEF ShowingSets
  <1>3. Last(t.ops) = op
    <2>1. Len(Append(s.ops, op)) = Len(s.ops) + 1 /\ Append(s.ops, op)[Len(s.ops) + 1] = op
      BY <1>2
    <2> QED
      BY <1>1, <2>1 DEF Last
  <1> QED
    BY <1>1, <1>3 DEF KeptIn, ShowingSets, t

LEMMA FloatAtKeeps ==
    ASSUME NEW s \in ShowingSets, NEW w \in Windows
    PROVE  FloatAt(s, w) \in ShowingSets /\ KeptIn(s, FloatAt(s, w))
  <1>1. /\ FloatOp(w, TRUE) \in LayoutOp /\ FloatOp(w, TRUE).op # "stack"
        /\ FrameOp(w) \in LayoutOp /\ FrameOp(w).op # "stack"
    BY DEF LayoutOp, FloatOp, FrameOp
  <1> DEFINE t == With(s, FloatOp(w, TRUE))
  <1>2. t \in ShowingSets /\ Everyone(t) = Everyone(s)
    BY <1>1, OneAsked
  <1> HIDE DEF t
  <1>3. With(t, FrameOp(w)) \in ShowingSets /\ Everyone(With(t, FrameOp(w))) = Everyone(t)
    BY <1>1, <1>2, OneAsked
  <1>4. FloatAt(s, w) \in {t, With(t, FrameOp(w))}
    BY DEF FloatAt, t
  <1> QED
    BY <1>2, <1>3, <1>4 DEF KeptIn

\* The values of handlers: at most one, and one in which a workspace shows.
HandlerShows == handler \subseteq ShowingSets /\ \A s, t \in handler : s = t

LEMMA StepShows ==
    ASSUME HandlerShows, SnapshotShows, [Next]_vars
    PROVE  HandlerShows' /\ \A s \in handler, t \in handler' : KeptIn(s, t)
  <1>1. CASE Extract
    BY <1>1 DEF Extract, HandlerShows, SnapshotShows
  <1>2. CASE Ask
    <2>1. PICK s \in handler : \/ \E op \in Menu(s) : handler' = {With(s, op)}
                               \/ \E w \in Windows : handler' = {FloatAt(s, w)}
      BY <1>2 DEF Ask
    <2>2. s \in ShowingSets /\ s \in WindowSets /\ \A r \in handler : r = s
      BY DEF HandlerShows, ShowingSets
    <2>3. CASE \E op \in Menu(s) : handler' = {With(s, op)}
      <3>1. PICK op \in Menu(s) : handler' = {With(s, op)}
        BY <2>3
      <3>2. op \in LayoutOp
        BY <2>2, <3>1, MenuIsTyped
      <3>3. With(s, op) \in ShowingSets /\ KeptIn(s, With(s, op))
        BY <2>2, <3>2, OneAsked
      <3> QED
        BY <2>2, <3>1, <3>3 DEF HandlerShows
    <2>4. CASE \E w \in Windows : handler' = {FloatAt(s, w)}
      <3>1. PICK w \in Windows : handler' = {FloatAt(s, w)}
        BY <2>4
      <3>2. FloatAt(s, w) \in ShowingSets /\ KeptIn(s, FloatAt(s, w))
        BY <2>2, <3>1, FloatAtKeeps
      <3> QED
        BY <2>2, <3>1, <3>2 DEF HandlerShows
    <2> QED
      BY <2>1, <2>3, <2>4
  <1>3. CASE Return
    BY <1>3 DEF Return, HandlerShows
  <1>4. CASE UNCHANGED handler
    BY <1>4 DEF HandlerShows, KeptIn
  <1> QED
    BY <1>1, <1>2, <1>3, <1>4
    DEF Next, vars, Replay, Flush, ShowView, Moves, FocusArrives, Close, Minimize, Deminimize,
        SwitchRow

------------------------------------------------------------------------------
(* Columns *)

\* Where a window is in a strip, and in a column that has it.
LEMMA PlacesFound ==
    ASSUME NEW cols \in Seq(ColumnRecs), NEW w
    PROVE  /\ IndexOf(cols, w) \in Nat
           /\ IndexOf(cols, w) # 0 => /\ IndexOf(cols, w) \in DOMAIN cols
                                      /\ InColumn(cols[IndexOf(cols, w)], w)
           /\ \A column \in ColumnRecs :
                 /\ PositionOf(column, w) \in Nat
                 /\ InColumn(column, w) => PositionOf(column, w) \in DOMAIN column.items
  <1>1. \A at \in SUBSET (Nat \ {0}) : /\ FirstAt(at) \in Nat
                                       /\ FirstAt(at) # 0 => FirstAt(at) \in at
                                       /\ at # {} => FirstAt(at) \in at
    <2> TAKE at \in SUBSET (Nat \ {0})
    <2>1. at \in SUBSET Nat
      OBVIOUS
    <2>2. at # {} => Min(at) \in at
      BY <2>1, MinIn
    <2> QED
      BY <2>2 DEF FirstAt
  <1>2. /\ IndexOf(cols, w) \in Nat
        /\ IndexOf(cols, w) # 0 => /\ IndexOf(cols, w) \in DOMAIN cols
                                   /\ InColumn(cols[IndexOf(cols, w)], w)
    <2> DEFINE at == {i \in DOMAIN cols : InColumn(cols[i], w)}
    <2>1. at \in SUBSET (Nat \ {0}) /\ at \subseteq DOMAIN cols
      OBVIOUS
    <2>2. IndexOf(cols, w) = FirstAt(at)
      BY DEF IndexOf
    <2>3. \A i \in at : i \in DOMAIN cols /\ InColumn(cols[i], w)
      OBVIOUS
    <2> HIDE DEF at
    <2> QED
      BY <2>1, <2>2, <2>3, <1>1
  <1>3. ASSUME NEW column \in ColumnRecs
        PROVE  /\ PositionOf(column, w) \in Nat
               /\ InColumn(column, w) => PositionOf(column, w) \in DOMAIN column.items
    <2> DEFINE at == {k \in DOMAIN column.items : ItemHolds(column.items[k], w)}
    <2>1. column.items \in Seq(ItemRecs)
      BY DEF ColumnRecs
    <2>2. at \in SUBSET (Nat \ {0}) /\ at \subseteq DOMAIN column.items
      BY <2>1
    <2>3. PositionOf(column, w) = FirstAt(at)
      BY DEF PositionOf
    <2>4. InColumn(column, w) => at # {}
      BY DEF InColumn
    <2> HIDE DEF at
    <2> QED
      BY <2>2, <2>3, <2>4, <1>1
  <1> QED
    BY <1>2, <1>3

\* Cutting and joining sequences.
LEMMA SpliceIn ==
    ASSUME NEW S, NEW s \in Seq(S), NEW new \in Seq(S), NEW i \in Nat \ {0}, NEW j \in Nat,
           i <= Len(s) + 1, j <= Len(s)
    PROVE  Splice(s, i, j, new) \in Seq(S)
  <1>1. Len(s) \in Nat
    OBVIOUS
  <1>2. SubSeq(s, 1, i - 1) \in Seq(S)
    BY <1>1
  <1>3. SubSeq(s, j + 1, Len(s)) \in Seq(S)
    BY <1>1
  <1> QED
    BY <1>2, <1>3 DEF Splice

\* Columns that are made.
LEMMA ColumnsMade ==
    /\ \A w \in Windows : Alone(w) \in ItemRecs
    /\ \A ws \in Seq(Windows) \ {<<>>} : Grouped(ws) \in ItemRecs
    /\ \A items \in Seq(ItemRecs) \ {<<>>} : Column(items) \in ColumnRecs
    /\ \A item \in ItemRecs : Column(<<item>>) \in ColumnRecs
  <1>1. \A w \in Windows : Alone(w) \in ItemRecs
    BY DEF Alone, ItemRecs
  <1>2. \A ws \in Seq(Windows) \ {<<>>} : Grouped(ws) \in ItemRecs
    BY DEF Grouped, ItemRecs
  <1>3. \A items \in Seq(ItemRecs) \ {<<>>} : Column(items) \in ColumnRecs
    BY DEF Column, ColumnRecs
  <1>4. \A item \in ItemRecs : <<item>> \in Seq(ItemRecs) \ {<<>>}
    OBVIOUS
  <1> QED
    BY <1>1, <1>2, <1>3, <1>4

\* What `remove` leaves of a column: no column, or one.
LEMMA WithoutIn ==
    ASSUME NEW column \in ColumnRecs, NEW w
    PROVE  Without(column, w) \in Seq(ColumnRecs)
  <1> DEFINE Loose == [tabs : BOOLEAN, ws : Seq(Windows)]
             left == [k \in DOMAIN column.items |->
                         [column.items[k] EXCEPT !.ws = OtherThan(@, w)]]
             rest == Retained(left, {it \in ToSet(left) : it.ws # <<>>})
  <1>1. \A ws \in Seq(Windows) : OtherThan(ws, w) \in Seq(Windows)
    <2> TAKE ws \in Seq(Windows)
    <2>1. OtherThan(ws, w) \in Seq(Windows \cap (ToSet(ws) \ {w}))
      BY RetainedIn DEF OtherThan
    <2> QED
      BY <2>1
  <1>2. column.items \in Seq(ItemRecs) /\ column.items # <<>>
    BY DEF ColumnRecs
  <1>3. left \in Seq(Loose)
    <2>1. ASSUME NEW k \in DOMAIN column.items
          PROVE  [column.items[k] EXCEPT !.ws = OtherThan(@, w)] \in Loose
      <3>1. column.items[k] \in ItemRecs
        BY <1>2
      <3>2. OtherThan(column.items[k].ws, w) \in Seq(Windows)
        BY <3>1, <1>1 DEF ItemRecs
      <3> QED
        BY <3>1, <3>2 DEF ItemRecs
    <2>2. DOMAIN column.items = 1 .. Len(column.items) /\ Len(column.items) \in Nat
      BY <1>2
    <2> HIDE DEF Loose
    <2> QED
      BY <2>1, <2>2
  <1>4. rest \in Seq(ItemRecs)
    <2> HIDE DEF left
    <2> DEFINE some == {it \in ToSet(left) : it.ws # <<>>}
    <2>1. Loose \cap some \subseteq ItemRecs
      BY DEF ItemRecs
    <2> HIDE DEF Loose, some
    <2>2. Retained(left, some) \in Seq(Loose \cap some)
      BY <1>3, RetainedIn
    <2>3. rest = Retained(left, some)
      BY DEF some
    <2> HIDE DEF rest
    <2> QED
      BY <2>1, <2>2, <2>3
  <1>5. Without(column, w) =
            CASE rest = <<>> -> <<>>
              [] rest # <<>> /\ ~IsStack(column) /\ Len(rest[1].ws) = 1 ->
                    <<Column(<<Alone(rest[1].ws[1])>>)>>
              [] OTHER -> <<Column(rest)>>
    BY DEF Without, Remade
  <1> HIDE DEF rest
  <1>6. CASE rest = <<>>
    BY <1>5, <1>6
  <1>7. CASE rest # <<>> /\ ~IsStack(column) /\ Len(rest[1].ws) = 1
    <2>1. rest[1] \in ItemRecs
      BY <1>4, <1>7
    <2>2. rest[1].ws[1] \in Windows
      BY <2>1 DEF ItemRecs
    <2>3. Column(<<Alone(rest[1].ws[1])>>) \in ColumnRecs
      BY <2>2, ColumnsMade
    <2>4. Without(column, w) = <<Column(<<Alone(rest[1].ws[1])>>)>>
      BY <1>5, <1>7
    <2> QED
      BY <2>3, <2>4
  <1>8. CASE rest # <<>> /\ ~(~IsStack(column) /\ Len(rest[1].ws) = 1)
    <2>1. Column(rest) \in ColumnRecs
      BY <1>4, <1>8, ColumnsMade
    <2>2. Without(column, w) = <<Column(rest)>>
      BY <1>5, <1>8
    <2> QED
      BY <2>1, <2>2
  <1> QED
    BY <1>6, <1>7, <1>8

LEMMA RemoveWindowIn ==
    ASSUME NEW cols \in Seq(ColumnRecs), NEW w
    PROVE  RemoveWindow(cols, w) \in Seq(ColumnRecs)
  <1> DEFINE i == IndexOf(cols, w)
  <1>1. CASE i = 0
    BY <1>1 DEF RemoveWindow
  <1>2. CASE i # 0
    <2>1. i \in DOMAIN cols
      BY <1>2, PlacesFound
    <2> HIDE DEF i
    <2>2. /\ i \in Nat \ {0} /\ i \in Nat /\ i <= Len(cols) + 1 /\ i <= Len(cols)
          /\ cols[i] \in ColumnRecs
      BY <2>1
    <2>3. Without(cols[i], w) \in Seq(ColumnRecs)
      BY <2>2, WithoutIn
    <2>4. Splice(cols, i, i, Without(cols[i], w)) \in Seq(ColumnRecs)
      BY <2>2, <2>3, SpliceIn
    <2> QED
      BY <1>2, <2>4 DEF RemoveWindow, i
  <1> QED
    BY <1>1, <1>2

\* One window after the other is removed.
LEMMA RemoveAllSteps ==
    ASSUME NEW cols \in Seq(ColumnRecs), NEW group \in Seq(Windows)
    PROVE  \E g : /\ g[0] = cols /\ g[Len(group)] = RemoveAll(cols, group)
                  /\ \A i \in 1..Len(group) : g[i] = RemoveWindow(g[i - 1], group[i])
  <1> DEFINE n == Len(group)
             A == Seq(ColumnRecs)
             Rule(f, s) == IF s = {} THEN cols ELSE RemoveWindow(f[s \ {Max(s)}], group[Max(s)])
             Solves(f) == f = [s \in SUBSET DOMAIN group |-> Rule(f, s)]
  <1>1. n \in Nat /\ DOMAIN group = 1..n
    OBVIOUS
  <1>2. \E f : Solves(f)
    <2> DEFINE step == [p \in (SUBSET (1..n)) \X A |-> RemoveWindow(p[2], group[Max(p[1])])]
    <2>1. step \in [(SUBSET (1..n)) \X A -> A]
      <3>1. \A p \in (SUBSET (1..n)) \X A : RemoveWindow(p[2], group[Max(p[1])]) \in A
        BY RemoveWindowIn
      <3> HIDE DEF A
      <3> QED
        BY <3>1
    <2> HIDE DEF A, n
    <2>2. cols \in A
      BY DEF A
    <2>3. PICK f : Folds(f, A, cols, n, step)
      <3> HIDE DEF step
      <3> QED
        BY <1>1, <2>1, <2>2, FoldThere
    <2>4. ASSUME NEW s \in SUBSET (1..n) PROVE f[s] = Rule(f, s)
      <3>1. f[s \ {Max(s)}] \in A
        BY <2>3 DEF Folds
      <3>2. step[<<s, f[s \ {Max(s)}]>>] = RemoveWindow(f[s \ {Max(s)}], group[Max(s)])
        BY <3>1
      <3> QED
        BY <2>3, <3>2 DEF Folds
    <2> HIDE DEF Rule
    <2>5. f = [s \in SUBSET (1..n) |-> Rule(f, s)]
      BY <2>3, <2>4 DEF Folds
    <2> QED
      BY <2>5, <1>1
  <1>3. PICK f : Solves(f) /\ RemoveAll(cols, group) = f[DOMAIN group]
    BY <1>2, Zenon DEF RemoveAll, FoldLeft, MapThenFoldSet
  <1>4. \A s \in SUBSET (1..n) : f[s] = Rule(f, s)
    <2> HIDE DEF Rule, n
    <2> QED
      BY <1>1, <1>3
  <1> DEFINE g == [i \in 0..n |-> f[1..i]]
  <1> HIDE DEF n
  <1>5. g[0] = cols
    <2>1. 1..0 = {} /\ {} \in SUBSET (1..n) /\ 0 \in 0..n
      BY <1>1
    <2> QED
      BY <2>1, <1>4
  <1>6. ASSUME NEW i \in 1..n PROVE g[i] = RemoveWindow(g[i - 1], group[i])
    <2>1. /\ 1..i \in SUBSET (1..n) /\ 1..i # {} /\ Max(1..i) = i /\ (1..i) \ {i} = 1..(i - 1)
          /\ i \in 0..n /\ i - 1 \in 0..n
      BY <1>1, Stages
    <2>2. f[1..i] = RemoveWindow(f[1..(i - 1)], group[i])
      BY <2>1, <1>4
    <2> QED
      BY <2>1, <2>2
  <1>7. g[n] = RemoveAll(cols, group)
    BY <1>1, <1>3
  <1> HIDE DEF g
  <1> QED
    BY <1>5, <1>6, <1>7 DEF n

\* Strips stay strips when windows are removed.
LEMMA RemoveAllIn ==
    ASSUME NEW cols \in Seq(ColumnRecs), NEW group \in Seq(Windows)
    PROVE  RemoveAll(cols, group) \in Seq(ColumnRecs)
  <1> DEFINE n == Len(group)
  <1>1. PICK g : /\ g[0] = cols /\ g[n] = RemoveAll(cols, group)
                 /\ \A i \in 1..n : g[i] = RemoveWindow(g[i - 1], group[i])
    BY RemoveAllSteps
  <1> DEFINE T == {i \in 0..n : g[i] \in Seq(ColumnRecs)}
  <1>2. n \in Nat
    OBVIOUS
  <1> HIDE DEF n
  <1>3. 0 \in T
    BY <1>1, <1>2
  <1>4. \A i \in 1..n : i - 1 \in T => i \in T
    BY <1>1, <1>2, RemoveWindowIn
  <1> HIDE DEF T
  <1>5. n \in T
    <2>1. 0..n \subseteq T
      BY <1>2, <1>3, <1>4, UpTo
    <2> QED
      BY <1>2, <2>1
  <1> QED
    BY <1>1, <1>5 DEF T

\* One entity after the other is added, if it is new.
LEMMA DedupedSteps ==
    ASSUME NEW group \in Seq(Windows)
    PROVE  \E g : /\ g[0] = <<>> /\ g[Len(group)] = Deduped(group)
                  /\ \A i \in 1..Len(group) :
                         g[i] = IF Contains(g[i - 1], group[i]) THEN g[i - 1]
                                ELSE Append(g[i - 1], group[i])
  <1> DEFINE n == Len(group)
             A == Seq(Windows)
             Add(acc, w) == IF Contains(acc, w) THEN acc ELSE Append(acc, w)
             Rule(f, s) == IF s = {} THEN <<>> ELSE Add(f[s \ {Max(s)}], group[Max(s)])
             Solves(f) == f = [s \in SUBSET DOMAIN group |-> Rule(f, s)]
  <1>1. n \in Nat /\ DOMAIN group = 1..n
    OBVIOUS
  <1>2. \A acc \in A, w \in Windows : Add(acc, w) \in A
    OBVIOUS
  <1>3. \A s \in SUBSET (1..n) : s # {} => group[Max(s)] \in Windows
    <2>1. \A s \in SUBSET (1..n) : s # {} => Max(s) \in 1..n
      BY <1>1, MaxIn
    <2> QED
      BY <1>1, <2>1
  <1> HIDE DEF Add
  <1>4. \E f : Solves(f)
    <2> DEFINE step == [p \in (SUBSET (1..n)) \X A |->
                           IF p[1] = {} THEN <<>> ELSE Add(p[2], group[Max(p[1])])]
    <2>0. <<>> \in A
      OBVIOUS
    <2> HIDE DEF A, n
    <2>1. step \in [(SUBSET (1..n)) \X A -> A]
      <3>1. \A p \in (SUBSET (1..n)) \X A :
                (IF p[1] = {} THEN <<>> ELSE Add(p[2], group[Max(p[1])])) \in A
        BY <1>2, <1>3, <2>0
      <3> QED
        BY <3>1
    <2>3. PICK f : Folds(f, A, <<>>, n, step)
      <3> HIDE DEF step
      <3> QED
        BY <1>1, <2>0, <2>1, FoldThere
    <2>4. ASSUME NEW s \in SUBSET (1..n) PROVE f[s] = Rule(f, s)
      <3>1. f[s \ {Max(s)}] \in A
        BY <2>3 DEF Folds
      <3>2. s # {} => step[<<s, f[s \ {Max(s)}]>>] = Add(f[s \ {Max(s)}], group[Max(s)])
        BY <3>1
      <3> QED
        BY <2>3, <3>2 DEF Folds
    <2> HIDE DEF Rule
    <2>5. f = [s \in SUBSET (1..n) |-> Rule(f, s)]
      BY <2>3, <2>4 DEF Folds
    <2> QED
      BY <2>5, <1>1
  <1>5. PICK f : Solves(f) /\ Deduped(group) = f[DOMAIN group]
    BY <1>4, Zenon DEF Deduped, FoldLeft, MapThenFoldSet, Add
  <1>6. \A s \in SUBSET (1..n) : f[s] = Rule(f, s)
    <2> HIDE DEF Rule, n
    <2> QED
      BY <1>1, <1>5
  <1> DEFINE g == [i \in 0..n |-> f[1..i]]
  <1> HIDE DEF n
  <1>7. g[0] = <<>>
    <2>1. 1..0 = {} /\ {} \in SUBSET (1..n) /\ 0 \in 0..n
      BY <1>1
    <2> QED
      BY <2>1, <1>6
  <1>8. ASSUME NEW i \in 1..n PROVE g[i] = Add(g[i - 1], group[i])
    <2>1. /\ 1..i \in SUBSET (1..n) /\ 1..i # {} /\ Max(1..i) = i /\ (1..i) \ {i} = 1..(i - 1)
          /\ i \in 0..n /\ i - 1 \in 0..n
      BY <1>1, Stages
    <2>2. f[1..i] = Add(f[1..(i - 1)], group[i])
      BY <2>1, <1>6
    <2> QED
      BY <2>1, <2>2
  <1>9. g[n] = Deduped(group)
    BY <1>1, <1>5
  <1> HIDE DEF g
  <1> QED
    BY <1>7, <1>8, <1>9 DEF n, Add

\* What is left has the same entities, each of them once.
LEMMA DedupedOnce ==
    ASSUME NEW group \in Seq(Windows)
    PROVE  /\ Deduped(group) \in Seq(Windows) /\ IsInjective(Deduped(group))
           /\ ToSet(Deduped(group)) = ToSet(group)
  <1> DEFINE n == Len(group)
  <1>2. PICK g : /\ g[0] = <<>> /\ g[n] = Deduped(group)
                 /\ \A i \in 1..n : g[i] = IF Contains(g[i - 1], group[i]) THEN g[i - 1]
                                           ELSE Append(g[i - 1], group[i])
    BY DedupedSteps
  <1> DEFINE seen(i) == {group[k] : k \in 1..i}
             T == {i \in 0..n : g[i] \in Seq(Windows) /\ IsInjective(g[i]) /\ ToSet(g[i]) = seen(i)}
  <1>3. n \in Nat /\ DOMAIN group = 1..n /\ \A i \in 1..n : group[i] \in Windows
    OBVIOUS
  <1> HIDE DEF n
  <1>4. 0 \in T
    <2>1. seen(0) = {} /\ 0 \in 0..n
      BY <1>3
    <2>2. <<>> \in Seq(Windows) /\ IsInjective(<<>>) /\ ToSet(<<>>) = {}
      BY DEF IsInjective, ToSet
    <2> QED
      BY <2>1, <2>2, <1>2
  <1>5. ASSUME NEW i \in 1..n, i - 1 \in T PROVE i \in T
    <2> DEFINE acc == g[i - 1]
               w == group[i]
    <2>1. acc \in Seq(Windows) /\ IsInjective(acc) /\ ToSet(acc) = seen(i - 1) /\ w \in Windows
      BY <1>3, <1>5
    <2>2. g[i] = IF Contains(acc, w) THEN acc ELSE Append(acc, w)
      BY <1>2
    <2>3. seen(i) = seen(i - 1) \cup {w} /\ i \in 0..n
      <3>1. 1..i = (1..(i - 1)) \cup {i} /\ i \in 0..n
        BY <1>3
      <3> QED
        BY <3>1
    <2> HIDE DEF acc, w, seen
    <2>4. Contains(acc, w) <=> w \in ToSet(acc)
      <3>1. DOMAIN acc = 1 .. Len(acc)
        BY <2>1
      <3> QED
        BY <3>1 DEF Contains, ToSet
    <2>5. CASE Contains(acc, w)
      BY <2>1, <2>2, <2>3, <2>4, <2>5
    <2>6. CASE ~Contains(acc, w)
      <3> DEFINE more == Append(acc, w)
      <3>1. /\ more \in Seq(Windows) /\ DOMAIN more = 1..(Len(acc) + 1)
            /\ \A k \in DOMAIN more : more[k] = IF k <= Len(acc) THEN acc[k] ELSE w
            /\ DOMAIN acc = 1..Len(acc) /\ Len(acc) \in Nat
        BY <2>1
      <3> HIDE DEF more
      <3>2. \A k \in DOMAIN more : \/ k \in DOMAIN acc /\ more[k] = acc[k]
                                   \/ k = Len(acc) + 1 /\ more[k] = w
        BY <3>1
      <3>3. /\ \A k \in DOMAIN acc : k \in DOMAIN more /\ more[k] = acc[k]
            /\ Len(acc) + 1 \in DOMAIN more /\ more[Len(acc) + 1] = w
        BY <3>1
      <3>4. \A k \in DOMAIN acc : acc[k] # w
        BY <2>4, <2>6 DEF ToSet
      <3>5. IsInjective(more)
        BY <3>2, <3>4, <2>1 DEF IsInjective
      <3>6. ToSet(more) = ToSet(acc) \cup {w}
        <4>1. ASSUME NEW x \in ToSet(more) PROVE x \in ToSet(acc) \cup {w}
          BY <3>2, <4>1 DEF ToSet
        <4>2. ASSUME NEW x \in ToSet(acc) \cup {w} PROVE x \in ToSet(more)
          BY <3>3, <4>2 DEF ToSet
        <4> QED
          BY <4>1, <4>2
      <3>7. g[i] = more
        BY <2>2, <2>6 DEF more
      <3> QED
        BY <2>1, <2>3, <3>1, <3>5, <3>6, <3>7
    <2> QED
      BY <2>5, <2>6
  <1> HIDE DEF T
  <1>6. 0..n \subseteq T
    BY <1>3, <1>4, <1>5, UpTo
  <1>7. n \in T
    BY <1>3, <1>6
  <1>8. seen(n) = ToSet(group)
    BY <1>3 DEF ToSet
  <1> QED
    BY <1>2, <1>7, <1>8 DEF T

\* A column that comes to a strip which has none of its windows.
\* What a command makes of a strip is a strip.
LEMMA InsertColumnIn ==
    ASSUME NEW cols \in Seq(ColumnRecs), NEW i \in Nat \ {0}, NEW column \in ColumnRecs
    PROVE  InsertColumn(cols, i, column) \in Seq(ColumnRecs)
  <1>1. CASE i > Len(cols)
    <2>1. Append(cols, column) \in Seq(ColumnRecs)
      OBVIOUS
    <2> QED
      BY <1>1, <2>1 DEF InsertColumn
  <1>2. CASE ~(i > Len(cols))
    <2> DEFINE new == <<column>>
    <2>1. new \in Seq(ColumnRecs)
      OBVIOUS
    <2>2. i - 1 \in Nat /\ i <= Len(cols) + 1 /\ i - 1 <= Len(cols)
      BY <1>2
    <2> HIDE DEF new
    <2>3. Splice(cols, i, i - 1, new) \in Seq(ColumnRecs)
      BY <2>1, <2>2, SpliceIn
    <2> QED
      BY <1>2, <2>3 DEF InsertColumn, new
  <1> QED
    BY <1>1, <1>2

LEMMA InsertWindowIn ==
    ASSUME NEW cols \in Seq(ColumnRecs), NEW i \in Nat \ {0}, NEW w \in Windows
    PROVE  InsertWindow(cols, i, w) \in Seq(ColumnRecs)
  <1>1. Column(<<Alone(w)>>) \in ColumnRecs
    BY ColumnsMade
  <1> QED
    BY <1>1, InsertColumnIn DEF InsertWindow

LEMMA AppendWindowIn ==
    ASSUME NEW cols \in Seq(ColumnRecs), NEW w \in Windows
    PROVE  AppendWindow(cols, w) \in Seq(ColumnRecs)
  <1>1. Column(<<Alone(w)>>) \in ColumnRecs
    BY ColumnsMade
  <1>2. Append(cols, Column(<<Alone(w)>>)) \in Seq(ColumnRecs)
    BY <1>1
  <1> QED
    BY <1>2 DEF AppendWindow

LEMMA AppendTabGroupIn ==
    ASSUME NEW cols \in Seq(ColumnRecs), NEW entities \in Seq(Windows)
    PROVE  AppendTabGroup(cols, entities) \in Seq(ColumnRecs)
  <1>1. ASSUME NEW i \in Nat \ {0}
        PROVE  InsertTabGroup(cols, i, entities) \in Seq(ColumnRecs)
    <2> DEFINE group == Deduped(entities)
               rest  == RemoveAll(cols, group)
               new   == IF Len(group) = 1 THEN Alone(group[1]) ELSE Grouped(group)
    <2>1. group \in Seq(Windows)
      BY DedupedOnce
    <2> HIDE DEF group
    <2>2. rest \in Seq(ColumnRecs)
      BY <2>1, RemoveAllIn
    <2>3. ASSUME group # <<>> PROVE Column(<<new>>) \in ColumnRecs
      <3>1. group[1] \in Windows
        BY <2>1, <2>3
      <3>2. new \in ItemRecs
        BY <2>1, <2>3, <3>1, ColumnsMade
      <3> HIDE DEF new
      <3> QED
        BY <3>2, ColumnsMade
    <2> HIDE DEF rest, new
    <2>4. group # <<>> => InsertColumn(rest, i, Column(<<new>>)) \in Seq(ColumnRecs)
      BY <2>2, <2>3, InsertColumnIn
    <2>5. InsertTabGroup(cols, i, entities) =
              IF group = <<>> THEN cols ELSE InsertColumn(rest, i, Column(<<new>>))
      BY DEF InsertTabGroup, group, rest, new
    <2> QED
      BY <2>4, <2>5
  <1> DEFINE at == {IndexOf(cols, w) : w \in ToSet(entities)} \ {0}
  <1>2. at \in SUBSET Nat /\ 0 \notin at
    BY PlacesFound
  <1>3. AppendTabGroup(cols, entities) =
            InsertTabGroup(cols, IF at = {} THEN Len(cols) + 1 ELSE Min(at), entities)
    BY DEF AppendTabGroup
  <1> HIDE DEF at
  <1>4. (IF at = {} THEN Len(cols) + 1 ELSE Min(at)) \in Nat \ {0}
    <2>1. at # {} => Min(at) \in at
      BY <1>2, MinIn
    <2>2. Len(cols) + 1 \in Nat \ {0}
      OBVIOUS
    <2> QED
      BY <1>2, <2>1, <2>2
  <1> QED
    BY <1>1, <1>3, <1>4

LEMMA ExchangeIn ==
    ASSUME NEW cols \in Seq(ColumnRecs), NEW i \in DOMAIN cols, NEW j \in DOMAIN cols
    PROVE  Exchange(cols, i, j) \in Seq(ColumnRecs)
  BY DEF Exchange

LEMMA StackWindowIn ==
    ASSUME NEW cols \in Seq(ColumnRecs), NEW w
    PROVE  StackWindow(cols, w) \in Seq(ColumnRecs)
  <1> DEFINE i == IndexOf(cols, w)
  <1>1. i \in Nat /\ (i # 0 => i \in DOMAIN cols)
    BY PlacesFound
  <1>2. StackWindow(cols, w) =
            CASE i \in {0, 1} -> cols
              [] i > 1 /\ cols[i].full -> RemoveAt(cols, i)
              [] i > 1 /\ ~cols[i].full /\ cols[i - 1].full -> Splice(cols, i - 1, i, <<>>)
              [] OTHER -> Splice(cols, i - 1, i, <<Column(cols[i - 1].items \o cols[i].items)>>)
    BY DEF StackWindow
  <1> HIDE DEF i
  <1>3. CASE i \in {0, 1}
    BY <1>2, <1>3
  <1>4. CASE ~(i \in {0, 1})
    <2>1. /\ i \in DOMAIN cols /\ i - 1 \in DOMAIN cols /\ i > 1
          /\ i - 1 \in Nat \ {0} /\ i \in Nat /\ i - 1 <= Len(cols) + 1 /\ i <= Len(cols)
      BY <1>1, <1>4
    <2>2. /\ cols[i] \in ColumnRecs /\ cols[i - 1] \in ColumnRecs
      BY <2>1
    <2>3. RemoveAt(cols, i) \in Seq(ColumnRecs)
      BY <2>1, RemoveAtIn
    <2>4. \A new \in Seq(ColumnRecs) : Splice(cols, i - 1, i, new) \in Seq(ColumnRecs)
      BY <2>1, SpliceIn
    <2> DEFINE upper == cols[i - 1].items
               lower == cols[i].items
               joined == <<Column(upper \o lower)>>
    <2>5. upper \in Seq(ItemRecs) \ {<<>>} /\ lower \in Seq(ItemRecs) \ {<<>>}
      BY <2>2 DEF ColumnRecs
    <2>6. upper \o lower \in Seq(ItemRecs) \ {<<>>}
      <3> HIDE DEF upper, lower
      <3>1. upper \o lower \in Seq(ItemRecs) /\ Len(upper \o lower) = Len(upper) + Len(lower)
        BY <2>5
      <3>2. Len(upper) \in Nat \ {0} /\ Len(lower) \in Nat
        BY <2>5
      <3> QED
        BY <3>1, <3>2
    <2>7. Column(upper \o lower) \in ColumnRecs
      <3> HIDE DEF upper, lower
      <3> QED
        BY <2>6, ColumnsMade
    <2>8. joined \in Seq(ColumnRecs) /\ <<>> \in Seq(ColumnRecs)
      BY <2>7
    <2>9. Splice(cols, i - 1, i, joined) \in Seq(ColumnRecs)
          /\ Splice(cols, i - 1, i, <<>>) \in Seq(ColumnRecs)
      BY <2>4, <2>8
    <2> QED
      BY <1>2, <1>4, <2>1, <2>3, <2>9
  <1> QED
    BY <1>3, <1>4

LEMMA UnstackWindowIn ==
    ASSUME NEW cols \in Seq(ColumnRecs), NEW w
    PROVE  UnstackWindow(cols, w) \in Seq(ColumnRecs)
  <1> DEFINE i == IndexOf(cols, w)
             k == PositionOf(cols[i], w)
  <1>1. CASE i = 0 \/ ~IsStack(cols[i])
    BY <1>1 DEF UnstackWindow
  <1>2. CASE i # 0 /\ IsStack(cols[i])
    <2>1. i \in DOMAIN cols /\ InColumn(cols[i], w)
      BY <1>2, PlacesFound
    <2>2. cols[i] \in ColumnRecs
      BY <2>1
    <2>3. k \in DOMAIN cols[i].items
      BY <2>1, <2>2, PlacesFound
    <2> DEFINE items == cols[i].items
    <2>4. items \in Seq(ItemRecs) /\ Len(items) > 1
      BY <1>2, <2>2 DEF ColumnRecs, IsStack
    <2> HIDE DEF i, k, items
    <2>5. RemoveAt(items, k) \in Seq(ItemRecs) \ {<<>>} /\ items[k] \in ItemRecs
      <3>1. k \in DOMAIN items
        BY <2>3 DEF items
      <3>2. RemoveAt(items, k) \in Seq(ItemRecs) /\ Len(RemoveAt(items, k)) = Len(items) - 1
        BY <3>1, <2>4, RemoveAtIn
      <3> QED
        BY <3>1, <3>2, <2>4
    <2> DEFINE left == Column(RemoveAt(items, k))
               right == Column(<<items[k]>>)
    <2>6. left \in ColumnRecs /\ right \in ColumnRecs
      BY <2>5, ColumnsMade
    <2>7. UnstackWindow(cols, w) = Splice(cols, i, i, <<left, right>>)
      BY <1>2 DEF UnstackWindow, i, k, items
    <2> HIDE DEF left, right
    <2> DEFINE new == <<left, right>>
    <2>8. new \in Seq(ColumnRecs)
      BY <2>6
    <2>9. i \in Nat \ {0} /\ i \in Nat /\ i <= Len(cols) + 1 /\ i <= Len(cols)
      BY <2>1
    <2> HIDE DEF new
    <2>10. Splice(cols, i, i, new) \in Seq(ColumnRecs)
      BY <2>8, <2>9, SpliceIn
    <2> QED
      BY <2>7, <2>10 DEF new
  <1> QED
    BY <1>1, <1>2

\* The tabs of a window, and the windows next to it.
LEMMA TabGroupIn ==
    ASSUME NEW cols \in Seq(ColumnRecs), NEW w \in Windows
    PROVE  TabGroup(cols, w) \in Seq(Windows)
  <1> DEFINE i == IndexOf(cols, w)
             k == PositionOf(cols[i], w)
             item == cols[i].items[k]
  <1>1. TabGroup(cols, w) = IF i # 0 /\ item.tabs THEN item.ws ELSE <<w>>
    BY DEF TabGroup
  <1>2. ASSUME i # 0 PROVE item.ws \in Seq(Windows)
    <2>1. i \in DOMAIN cols /\ InColumn(cols[i], w)
      BY <1>2, PlacesFound
    <2>2. cols[i] \in ColumnRecs
      BY <2>1
    <2>3. k \in DOMAIN cols[i].items /\ cols[i].items \in Seq(ItemRecs)
      BY <2>1, <2>2, PlacesFound DEF ColumnRecs
    <2>4. item \in ItemRecs
      BY <2>3
    <2> QED
      BY <2>4 DEF ItemRecs
  <1> HIDE DEF i, item
  <1>3. <<w>> \in Seq(Windows)
    OBVIOUS
  <1> QED
    BY <1>1, <1>2, <1>3

LEMMA NearIn ==
    ASSUME NEW cols \in Seq(ColumnRecs), NEW w
    PROVE  Near(cols, w) \subseteq Windows
  <1>1. ASSUME NEW j, NEW k PROVE Beside(cols, j, k) \subseteq Windows
    <2>1. CASE j \in DOMAIN cols
      <3> DEFINE items == cols[j].items
                 m == IF k \in DOMAIN items THEN k ELSE Len(items)
      <3>1. cols[j] \in ColumnRecs
        BY <2>1
      <3>2. items \in Seq(ItemRecs) /\ items # <<>>
        BY <3>1 DEF ColumnRecs
      <3>3. m \in DOMAIN items
        <4> HIDE DEF items
        <4> QED
          BY <3>2
      <3>4. items[m] \in ItemRecs
        <4> HIDE DEF items, m
        <4> QED
          BY <3>2, <3>3
      <3>5. items[m].ws[1] \in Windows
        <4> HIDE DEF items, m
        <4> QED
          BY <3>4 DEF ItemRecs
      <3>6. AtOrLast(cols[j], k) = items[m].ws[1]
        BY DEF AtOrLast
      <3> QED
        BY <2>1, <3>5, <3>6 DEF Beside
    <2>2. CASE j \notin DOMAIN cols
      BY <2>2 DEF Beside
    <2> QED
      BY <2>1, <2>2
  <1> DEFINE i == IndexOf(cols, w)
             k == PositionOf(cols[i], w)
             left == IF i < 2 THEN {} ELSE Beside(cols, i - 1, k)
  <1>2. Near(cols, w) = IF i = 0 THEN {} ELSE IF left # {} THEN left ELSE Beside(cols, i + 1, k)
    BY DEF Near
  <1> HIDE DEF i, k
  <1>3. Beside(cols, i - 1, k) \subseteq Windows /\ Beside(cols, i + 1, k) \subseteq Windows
    BY <1>1
  <1> QED
    BY <1>2, <1>3

------------------------------------------------------------------------------
(* The value a handler reads *)

LEMMA WindowsOfIn ==
    ASSUME NEW column \in ColumnRecs
    PROVE  WindowsOf(column) \in Seq(Windows)
  <1> DEFINE parts == [k \in DOMAIN column.items |-> column.items[k].ws]
  <1>1. column.items \in Seq(ItemRecs)
    BY DEF ColumnRecs
  <1>2. ASSUME NEW k \in DOMAIN column.items PROVE column.items[k].ws \in Seq(Windows)
    <2>1. column.items[k] \in ItemRecs
      BY <1>1
    <2> QED
      BY <2>1 DEF ItemRecs
  <1>3. DOMAIN column.items = 1 .. Len(column.items) /\ Len(column.items) \in Nat
    BY <1>1
  <1>4. parts \in Seq(Seq(Windows))
    BY <1>2, <1>3
  <1> HIDE DEF parts
  <1>5. FlattenSeq(parts) \in Seq(Windows)
    BY <1>4, FlattenHolds
  <1> QED
    BY <1>5 DEF WindowsOf, parts

LEMMA AllWindowsIn ==
    ASSUME NEW cols \in Seq(ColumnRecs)
    PROVE  AllWindows(cols) \in Seq(Windows)
  <1> DEFINE parts == [i \in DOMAIN cols |-> WindowsOf(cols[i])]
  <1>1. \A i \in DOMAIN cols : WindowsOf(cols[i]) \in Seq(Windows)
    BY WindowsOfIn
  <1>2. parts \in Seq(Seq(Windows))
    BY <1>1
  <1> HIDE DEF parts
  <1>3. FlattenSeq(parts) \in Seq(Windows)
    BY <1>2, FlattenHolds
  <1> QED
    BY <1>3 DEF AllWindows, parts

LEMMA RecordsIn ==
    ASSUME NEW ws \in Seq(Windows)
    PROVE  Records(ws) \in Seq(WindowRecs)
  <1>1. \A w \in Windows : RecordOf(w) \in WindowRecs
    BY DEF RecordOf, Record, WindowRecs
  <1> QED
    BY <1>1 DEF Records

LEMMA ColumnsOfIn ==
    ASSUME NEW r \in Rows, strips[r] \in Seq(ColumnRecs), known \subseteq Windows
    PROVE  ColumnsOf(r) \in Seq(ColumnSets)
  <1> DEFINE tiled(column) == Retained(WindowsOf(column), {w \in known : unmanaged[w] # Floating})
             top(column) == At(Records(tiled(column)), TopOf(column))
             one(column) == IF tiled(column) = <<>> THEN <<>>
                            ELSE <<ColumnSet(KindOf(column),
                                             IF top(column) = 0 THEN 1 ELSE top(column),
                                             Records(tiled(column)))>>
  <1>1. ASSUME NEW column \in ColumnRecs
        PROVE  tiled(column) \in Seq(Windows)
    <2> DEFINE managed == {w \in known : unmanaged[w] # Floating}
    <2> HIDE DEF managed
    <2>1. WindowsOf(column) \in Seq(Windows)
      BY WindowsOfIn
    <2>2. Retained(WindowsOf(column), managed) \in Seq(Windows \cap managed)
      BY <2>1, RetainedIn
    <2>3. Retained(WindowsOf(column), managed) \in Seq(Windows)
      BY <2>2
    <2> QED
      BY <2>3 DEF managed
  <1>2. ASSUME NEW column \in ColumnRecs
        PROVE  one(column) \in Seq(ColumnSets)
    <2> HIDE DEF tiled
    <2>1. Records(tiled(column)) \in Seq(WindowRecs)
      BY <1>1, RecordsIn
    <2>2. top(column) \in Nat
      <3> DEFINE at == {i \in DOMAIN Records(tiled(column)) :
                            Records(tiled(column))[i].id = TopOf(column)}
      <3>1. at \in SUBSET (Nat \ {0})
        BY <2>1
      <3>2. top(column) = Lowest(at)
        BY DEF At
      <3> HIDE DEF at, top
      <3>3. at = {} => Lowest(at) = 0
        BY <3>1, LowestIn
      <3>4. at # {} => Lowest(at) \in Nat
        BY <3>1, LowestIn
      <3> QED
        BY <3>2, <3>3, <3>4
    <2>3. KindOf(column) \in {"single", "stack", "tabs", "fullscreen"}
      <3>1. column.full \in BOOLEAN /\ column.items \in Seq(ItemRecs) /\ column.items # <<>>
        BY DEF ColumnRecs
      <3>2. column.items[1] \in ItemRecs
        BY <3>1
      <3>3. column.items[1].tabs \in BOOLEAN
        BY <3>2 DEF ItemRecs
      <3>4. IsStack(column) \in BOOLEAN
        BY DEF IsStack
      <3> QED
        BY <3>1, <3>3, <3>4 DEF KindOf
    <2> HIDE DEF top
    <2>4. ColumnSet(KindOf(column), IF top(column) = 0 THEN 1 ELSE top(column),
                    Records(tiled(column))) \in ColumnSets
      BY <2>1, <2>2, <2>3 DEF ColumnSet, ColumnSets
    <2> QED
      BY <2>4
  <1> DEFINE parts == [i \in DOMAIN strips[r] |-> one(strips[r][i])]
  <1>3. ColumnsOf(r) = FlattenSeq(parts)
    BY DEF ColumnsOf
  <1> HIDE DEF one
  <1>4. /\ DOMAIN strips[r] = 1 .. Len(strips[r]) /\ Len(strips[r]) \in Nat
        /\ \A i \in DOMAIN strips[r] : strips[r][i] \in ColumnRecs
    OBVIOUS
  <1>5. parts \in Seq(Seq(ColumnSets))
    BY <1>2, <1>4
  <1> HIDE DEF parts
  <1> QED
    BY <1>3, <1>5, FlattenHolds

LEMMA FloatingOfIn ==
    ASSUME NEW r \in Rows, strips[r] \in Seq(ColumnRecs), known \subseteq Windows
    PROVE  FloatingOf(r) \in Seq(WindowRecs)
  <1> DEFINE ws == AllWindows(strips[r])
             held == Retained(ws, {w \in Windows : unmanaged[w] = Floating})
             loose == {w \in known : /\ Listed(r) /\ OSSpace[w] = r[1]
                                     /\ unmanaged[w] = Floating /\ ~HasWindow(strips[r], w)}
  <1>1. held \in Seq(Windows)
    <2> DEFINE floating == {w \in Windows : unmanaged[w] = Floating}
    <2> HIDE DEF floating
    <2>1. ws \in Seq(Windows)
      BY AllWindowsIn
    <2> HIDE DEF ws
    <2>2. Retained(ws, floating) \in Seq(Windows \cap floating)
      BY <2>1, RetainedIn
    <2>3. Retained(ws, floating) \in Seq(Windows)
      BY <2>2
    <2> QED
      BY <2>3 DEF floating
  <1>2. loose \in SUBSET Windows
    OBVIOUS
  <1>3. FloatingOf(r) = Records(held \o SetToSeq(loose))
    BY DEF FloatingOf
  <1> HIDE DEF held, loose
  <1>4. IsFiniteSet(loose)
    BY <1>2, WindowsAssumption, FS_Subset
  <1>5. SetToSeq(loose) \in Seq(Windows)
    <2>1. SetToSeq(loose) \in Seq(loose)
      BY <1>4, SetToSeqIn
    <2> QED
      BY <1>2, <2>1
  <1>6. held \o SetToSeq(loose) \in Seq(Windows)
    BY <1>1, <1>5
  <1> QED
    BY <1>3, <1>6, RecordsIn

\* The rows of a display are those of its spaces.
LEMMA RowsOfIn ==
    ASSUME NEW d \in ToSet(DisplayOrder)
    PROVE  /\ RowsOf(d) \in Seq(Rows)
           /\ \A r \in Rows : r[1] \in ToSet(SpacesOf[d]) => r \in ToSet(RowsOf(d))
  <1> DEFINE spaces == SpacesOf[d]
             level(n) == [i \in DOMAIN spaces |-> <<spaces[i], n - 1>>]
             parts == [n \in 1 .. MaxIndex + 1 |-> level(n)]
  <1>1. spaces \in Seq(Spaces) /\ DOMAIN spaces = 1 .. Len(spaces) /\ Len(spaces) \in Nat
    BY DisplaysAssumption
  <1>2. MaxIndex \in Nat
    BY IndexAssumption
  <1>3. \A n \in 1 .. MaxIndex + 1 : n - 1 \in Indices
    BY <1>2 DEF Indices
  <1> HIDE DEF spaces
  <1>4. \A n \in 1 .. MaxIndex + 1 : level(n) \in Seq(Rows)
    <2>1. \A n \in 1 .. MaxIndex + 1, i \in DOMAIN spaces : <<spaces[i], n - 1>> \in Rows
      BY <1>1, <1>3 DEF Rows
    <2> QED
      BY <1>1, <2>1
  <1>5. parts \in Seq(Seq(Rows)) /\ DOMAIN parts = 1 .. MaxIndex + 1
    BY <1>2, <1>4
  <1>6. RowsOf(d) = FlattenSeq(parts)
    BY DEF RowsOf, spaces
  <1>7. ASSUME NEW r \in Rows, r[1] \in ToSet(spaces)
        PROVE  \E n \in DOMAIN parts : r \in ToSet(parts[n])
    <2>1. r[2] \in 0 .. MaxIndex /\ r = <<r[1], r[2]>>
      BY DEF Rows, Indices
    <2>2. PICK i \in DOMAIN spaces : r[1] = spaces[i]
      BY <1>7 DEF ToSet
    <2> DEFINE n == r[2] + 1
    <2>3. n \in DOMAIN parts /\ n - 1 = r[2]
      BY <2>1, <1>2, <1>5
    <2>4. level(n)[i] = r /\ i \in DOMAIN level(n) /\ parts[n] = level(n)
      BY <2>1, <2>2, <2>3
    <2>5. r \in ToSet(level(n))
      BY <2>4 DEF ToSet
    <2> QED
      BY <2>3, <2>4, <2>5
  <1> HIDE DEF parts
  <1>8. /\ RowsOf(d) \in Seq(Rows)
        /\ ToSet(RowsOf(d)) = UNION {ToSet(parts[n]) : n \in DOMAIN parts}
    BY <1>5, <1>6, FlattenHolds
  <1> QED
    BY <1>7, <1>8 DEF spaces

\* What a handler reads is a value in which a workspace shows.
LEMMA ReadShows ==
    ASSUME strips \in [Rows -> Seq(ColumnRecs)], known \subseteq Windows, active \in Rows
    PROVE  SnapshotShows
  <1> DEFINE workspace(r) == WorkspaceSet(NumberOf(r), r[1], r = active, ColumnsOf(r), FloatingOf(r))
             listed(d) == [k \in DOMAIN RowsOf(d) |-> workspace(RowsOf(d)[k])]
             display(d) == DisplaySet(d, active[1] \in ToSet(SpacesOf[d]), listed(d))
             displays == [i \in DOMAIN DisplayOrder |-> display(DisplayOrder[i])]
  <1>1. WindowSetNow = New(displays, {})
    BY DEF WindowSetNow
  <1>2. \A r \in Rows : workspace(r) \in WorkspaceSets /\ workspace(r).active = (r = active)
    <2> TAKE r \in Rows
    <2>1. ColumnsOf(r) \in Seq(ColumnSets) /\ FloatingOf(r) \in Seq(WindowRecs)
      BY ColumnsOfIn, FloatingOfIn
    <2>2. r[1] \in Spaces /\ NumberOf(r) \in Nat
      BY IndexAssumption DEF Rows, Indices, NumberOf
    <2> QED
      BY <2>1, <2>2 DEF WorkspaceSet, WorkspaceSets
  <1> HIDE DEF workspace
  <1>3. ASSUME NEW d \in ToSet(DisplayOrder)
        PROVE  /\ listed(d) \in Seq(WorkspaceSets)
               /\ display(d) \in DisplaySets /\ display(d).workspaces = listed(d)
    <2>1. RowsOf(d) \in Seq(Rows)
      BY RowsOfIn
    <2>2. DOMAIN RowsOf(d) = 1 .. Len(RowsOf(d)) /\ Len(RowsOf(d)) \in Nat
      BY <2>1
    <2>3. \A k \in DOMAIN RowsOf(d) : RowsOf(d)[k] \in Rows
      BY <2>1
    <2>4. listed(d) \in Seq(WorkspaceSets)
      BY <2>2, <2>3, <1>2
    <2> HIDE DEF listed
    <2> QED
      BY <2>4 DEF DisplaySet, DisplaySets
  <1> HIDE DEF display
  <1>4. /\ DisplayOrder \in Seq(ToSet(DisplayOrder))
        /\ DOMAIN DisplayOrder = 1 .. Len(DisplayOrder) /\ Len(DisplayOrder) \in Nat
        /\ \A i \in DOMAIN DisplayOrder : DisplayOrder[i] \in ToSet(DisplayOrder)
    BY DisplaysAssumption
  <1>5. displays \in Seq(DisplaySets)
    <2>1. \A i \in DOMAIN DisplayOrder : display(DisplayOrder[i]) \in DisplaySets
      BY <1>3, <1>4
    <2> QED
      BY <2>1, <1>4
  <1>6. WindowSetNow \in WindowSets /\ WindowSetNow.displays = displays
    <2> HIDE DEF displays
    <2>1. <<>> \in Seq(LayoutOp)
      OBVIOUS
    <2> QED
      BY <1>1, <1>5, <2>1 DEF New, WindowSets
  <1>7. PICK i \in DOMAIN DisplayOrder : active[1] \in ToSet(SpacesOf[DisplayOrder[i]])
    <2>1. active[1] \in Spaces
      BY DEF Rows
    <2>2. PICK d \in ToSet(DisplayOrder) : active[1] \in ToSet(SpacesOf[d])
      BY <2>1 DEF Spaces
    <2> QED
      BY <2>2 DEF ToSet
  <1> DEFINE d == DisplayOrder[i]
  <1>8. d \in ToSet(DisplayOrder)
    BY <1>4
  <1>9. PICK k \in DOMAIN RowsOf(d) : RowsOf(d)[k] = active
    <2>1. active \in ToSet(RowsOf(d))
      BY <1>7, <1>8, RowsOfIn
    <2> QED
      BY <2>1 DEF ToSet
  <1>10. <<i, k>> \in Spots(WindowSetNow) /\ Workspace(WindowSetNow, <<i, k>>) = workspace(active)
    <2>1. displays[i] = display(d) /\ i \in DOMAIN displays
      OBVIOUS
    <2>2. display(d).workspaces = listed(d)
      BY <1>3, <1>8
    <2>3. listed(d)[k] = workspace(active) /\ k \in DOMAIN listed(d)
      BY <1>9
    <2>4. WindowSetNow.displays[i].workspaces = listed(d) /\ i \in DOMAIN WindowSetNow.displays
      BY <1>6, <2>1, <2>2
    <2>5. Workspace(WindowSetNow, <<i, k>>) = listed(d)[k]
      <3> HIDE DEF listed, d
      <3> QED
        BY <2>4 DEF Workspace
    <2>6. <<i, k>> \in {i} \X DOMAIN WindowSetNow.displays[i].workspaces
      <3> HIDE DEF listed, d
      <3> QED
        BY <2>3, <2>4
    <2>7. <<i, k>> \in Spots(WindowSetNow)
      <3> HIDE DEF listed, d
      <3> QED
        BY <2>4, <2>6 DEF Spots
    <2> QED
      BY <2>3, <2>5, <2>7
  <1>11. Workspace(WindowSetNow, <<i, k>>).active
    BY <1>10, <1>2
  <1>12. Showing(WindowSetNow) # {}
    <2> DEFINE P == {p \in Spots(WindowSetNow) : Workspace(WindowSetNow, p).active}
    <2>1. <<i, k>> \in P
      BY <1>10, <1>11
    <2>2. P \in SUBSET (Nat \X Nat)
      BY <1>6, SetParts
    <2> HIDE DEF P
    <2>3. FirstOf(P) # {}
      BY <2>1, <2>2, FirstIn
    <2> QED
      BY <2>3 DEF Showing, P
  <1> QED
    BY <1>6, <1>12 DEF SnapshotShows, ShowingSets

------------------------------------------------------------------------------
(* The replay *)

Commands == [win : Windows, floating : BOOLEAN]
Marks == [win : Windows, index : Indices, follow : BOOLEAN]

\* The worlds a replay makes.
Worlds == {l \in [strips : [Rows -> Seq(ColumnRecs)], cmds : Seq(Commands),
                  marks : SUBSET Marks, views : Seq(Indices), asking : SUBSET Windows] :
              IsFiniteSet(l.marks)}

\* The edit of the rows of R, of which each gives a strip.
LEMMA EditedIn ==
    ASSUME NEW l \in Worlds, NEW new \in [Rows -> Seq(ColumnRecs)]
    PROVE  [l EXCEPT !.strips = new] \in Worlds
  BY DEF Worlds

\* Windows that a strip holds together have places in it.
LEMMA TogetherIn ==
    ASSUME NEW l \in Worlds, NEW v, NEW w, NEW r \in Together(l, v, w)
    PROVE  /\ r \in Rows /\ l.strips[r] \in Seq(ColumnRecs)
           /\ IndexOf(l.strips[r], v) \in DOMAIN l.strips[r]
           /\ IndexOf(l.strips[r], w) \in DOMAIN l.strips[r]
  <1>1. r \in Rows /\ HasWindow(l.strips[r], v) /\ HasWindow(l.strips[r], w)
    BY DEF Together
  <1>2. l.strips[r] \in Seq(ColumnRecs)
    BY <1>1 DEF Worlds
  <1> QED
    BY <1>1, <1>2, PlacesFound DEF HasWindow

LEMMA SwapIn ==
    ASSUME NEW l \in Worlds, NEW v, NEW w
    PROVE  Swap(l, v, w) \in Worlds
  <1> DEFINE R == Together(l, v, w)
             traded(cols) == Exchange(cols, IndexOf(cols, v), IndexOf(cols, w))
             new == [r \in Rows |-> IF r \in R THEN traded(l.strips[r]) ELSE l.strips[r]]
  <1>1. ASSUME NEW r \in R PROVE traded(l.strips[r]) \in Seq(ColumnRecs)
    BY TogetherIn, ExchangeIn
  <1>2. \A r \in Rows : l.strips[r] \in Seq(ColumnRecs)
    BY DEF Worlds
  <1>3. new \in [Rows -> Seq(ColumnRecs)]
    <2> HIDE DEF R, traded
    <2> QED
      BY <1>1, <1>2
  <1>4. Swap(l, v, w) = [l EXCEPT !.strips = new]
    BY DEF Swap, Edited
  <1> HIDE DEF new
  <1> QED
    BY <1>3, <1>4, EditedIn

LEMMA StackIn ==
    ASSUME NEW l \in Worlds, NEW w, NEW onto
    PROVE  Stack(l, w, onto) \in Worlds
  <1> DEFINE R == Together(l, w, onto)
             new == [r \in Rows |-> IF r \in R THEN StackWindow(l.strips[r], w) ELSE l.strips[r]]
  <1>1. \A r \in Rows : l.strips[r] \in Seq(ColumnRecs)
    BY DEF Worlds
  <1>2. new \in [Rows -> Seq(ColumnRecs)]
    <2> HIDE DEF R
    <2> QED
      BY <1>1, StackWindowIn
  <1>3. Stack(l, w, onto) = [l EXCEPT !.strips = new]
    BY DEF Stack, Edited
  <1> HIDE DEF new
  <1> QED
    BY <1>2, <1>3, EditedIn

LEMMA UnstackIn ==
    ASSUME NEW l \in Worlds, NEW w
    PROVE  Unstack(l, w) \in Worlds
  <1> DEFINE R == Together(l, w, w)
             new == [r \in Rows |-> IF r \in R THEN UnstackWindow(l.strips[r], w) ELSE l.strips[r]]
  <1>1. \A r \in Rows : l.strips[r] \in Seq(ColumnRecs)
    BY DEF Worlds
  <1>2. new \in [Rows -> Seq(ColumnRecs)]
    <2> HIDE DEF R
    <2> QED
      BY <1>1, UnstackWindowIn
  <1>3. Unstack(l, w) = [l EXCEPT !.strips = new]
    BY DEF Unstack, Edited
  <1> HIDE DEF new
  <1> QED
    BY <1>2, <1>3, EditedIn

\* The index of a number, if there is one.
LEMMA IndexOfNumberIn ==
    ASSUME NEW n \in Nat
    PROVE  /\ IndexOfNumber(n) \subseteq Indices /\ IsFiniteSet(IndexOfNumber(n))
           /\ IndexOfNumber(n) = {} \/ \E i \in Indices : IndexOfNumber(n) = {i}
  <1>1. IndexOfNumber(n) = {} \/ \E i \in Indices : IndexOfNumber(n) = {i}
    BY IndexAssumption DEF IndexOfNumber, Indices
  <1>2. IndexOfNumber(n) \subseteq Indices
    BY DEF IndexOfNumber
  <1> QED
    BY <1>1, <1>2, FS_EmptySet, FS_Singleton

LEMMA MarkForIn ==
    ASSUME NEW l \in Worlds, NEW w \in Windows, NEW number \in Nat, NEW follow \in BOOLEAN
    PROVE  MarkFor(l, w, number, follow) \in Worlds
  <1> DEFINE old == {m \in l.marks : m.win # w \/ IndexOfNumber(number) = {}}
             new == {[win |-> w, index |-> i, follow |-> follow] : i \in IndexOfNumber(number)}
  <1>1. old \in SUBSET l.marks /\ l.marks \in SUBSET Marks /\ IsFiniteSet(l.marks)
    BY DEF Worlds
  <1>2. IsFiniteSet(old)
    BY <1>1, FS_Subset
  <1>3. IndexOfNumber(number) = {} \/ \E i \in Indices : IndexOfNumber(number) = {i}
    BY IndexOfNumberIn
  <1>4. new = {} \/ \E m \in Marks : new = {m}
    BY <1>3 DEF Marks
  <1>5. MarkFor(l, w, number, follow) = [l EXCEPT !.marks = old \cup new]
    BY DEF MarkFor
  <1> HIDE DEF old, new
  <1>6. old \cup new \in SUBSET Marks
    BY <1>1, <1>4
  <1>7. IsFiniteSet(old \cup new)
    <2>1. CASE new = {}
      <3>1. old \cup new = old
        BY <2>1
      <3> QED
        BY <3>1, <1>2
    <2>2. CASE \E m \in Marks : new = {m}
      BY <2>2, <1>2, FS_AddElement
    <2> QED
      BY <1>4, <2>1, <2>2
  <1> DEFINE marked == old \cup new
  <1> HIDE DEF marked
  <1>8. [l EXCEPT !.marks = marked] \in Worlds
    BY <1>6, <1>7 DEF Worlds, marked
  <1> QED
    BY <1>5, <1>8 DEF marked

LEMMA ViewIn ==
    ASSUME NEW l \in Worlds, NEW number \in Nat
    PROVE  View(l, number) \in Worlds
  <1> DEFINE more == SetToSeq(IndexOfNumber(number))
             new == l.views \o more
  <1>1. more \in Seq(Indices)
    <2>1. more \in Seq(IndexOfNumber(number)) /\ IndexOfNumber(number) \subseteq Indices
      BY IndexOfNumberIn, SetToSeqIn
    <2> QED
      BY <2>1
  <1> HIDE DEF more
  <1>2. new \in Seq(Indices)
    BY <1>1 DEF Worlds
  <1>3. View(l, number) = [l EXCEPT !.views = new]
    BY DEF View, more
  <1> HIDE DEF new
  <1> QED
    BY <1>2, <1>3 DEF Worlds

LEMMA SetFloatingIn ==
    ASSUME NEW l \in Worlds, NEW w \in Windows, NEW floating \in BOOLEAN
    PROVE  SetFloating(l, w, floating) \in Worlds
  <1> DEFINE late == Append(l.cmds, [win |-> w, floating |-> floating])
             new == [r \in Rows |-> IF r = active /\ ~floating /\ Rowless(l, w)
                                    THEN AppendWindow(l.strips[r], w) ELSE l.strips[r]]
  <1>1. late \in Seq(Commands)
    <2>1. [win |-> w, floating |-> floating] \in Commands /\ l.cmds \in Seq(Commands)
      BY DEF Commands, Worlds
    <2> QED
      BY <2>1
  <1>2. \A r \in Rows : l.strips[r] \in Seq(ColumnRecs)
    BY DEF Worlds
  <1>3. new \in [Rows -> Seq(ColumnRecs)]
    BY <1>2, AppendWindowIn
  <1>4. SetFloating(l, w, floating) = [l EXCEPT !.cmds = late, !.strips = new]
    BY DEF SetFloating
  <1> HIDE DEF late, new
  <1> QED
    BY <1>1, <1>3, <1>4 DEF Worlds

\* Each operation gives a world.
LEMMA ReplayedIn ==
    ASSUME NEW l \in Worlds, NEW op \in LayoutOp, known \subseteq Windows
    PROVE  Replayed(l, op) \in Worlds
  <1>1. CASE op \in [op : {"focus"}, win : Windows]
    <2>1. Replayed(l, op) \in {l, [l EXCEPT !.asking = @ \cup {op.win}]}
      BY <1>1 DEF Replayed
    <2>2. [l EXCEPT !.asking = @ \cup {op.win}] \in Worlds
      BY <1>1 DEF Worlds
    <2> QED
      BY <2>1, <2>2
  <1>2. CASE op \in [op : {"width", "frame"}, win : Windows]
    BY <1>2 DEF Replayed
  <1>3. CASE op \in [op : {"unstack"}, win : Windows]
    <2>1. Replayed(l, op) \in {l, Unstack(l, op.win)}
      BY <1>3 DEF Replayed
    <2> QED
      BY <2>1, UnstackIn
  <1>4. CASE op \in [op : {"swap"}, win : Windows, other : Windows]
    <2>1. Replayed(l, op) \in {l, Swap(l, op.win, op.other)}
      BY <1>4 DEF Replayed
    <2> QED
      BY <2>1, SwapIn
  <1>5. CASE op \in [op : {"stack"}, win : Windows, onto : Windows, tabs : BOOLEAN]
    <2>1. Replayed(l, op) \in {l, Stack(l, op.win, op.onto)}
      BY <1>5 DEF Replayed
    <2> QED
      BY <2>1, StackIn
  <1>6. CASE op \in [op : {"shift"}, win : Windows, number : Nat, follow : BOOLEAN]
    <2>1. Replayed(l, op) \in {l, MarkFor(l, op.win, op.number, op.follow)}
      BY <1>6 DEF Replayed
    <2> QED
      BY <1>6, <2>1, MarkForIn
  <1>7. CASE op \in [op : {"view"}, number : Nat]
    <2>1. Replayed(l, op) \in {l, View(l, op.number)}
      BY <1>7 DEF Replayed
    <2> QED
      BY <1>7, <2>1, ViewIn
  <1>8. CASE op \in [op : {"float", "manage"}, win : Windows, yes : BOOLEAN]
    <2>1. Replayed(l, op) \in {l, SetFloating(l, op.win, op.yes), SetFloating(l, op.win, ~op.yes)}
      BY <1>8 DEF Replayed
    <2>2. op.win \in Windows /\ op.yes \in BOOLEAN /\ (~op.yes) \in BOOLEAN
      BY <1>8
    <2> QED
      BY <2>1, <2>2, SetFloatingIn
  <1> QED
    BY <1>1, <1>2, <1>3, <1>4, <1>5, <1>6, <1>7, <1>8 DEF LayoutOp

\* One operation after the other keeps what each keeps.
LEMMA ReplayStays ==
    ASSUME NEW A, NEW l \in A, NEW ops \in Seq(LayoutOp),
           \A m \in A, op \in LayoutOp : Replayed(m, op) \in A
    PROVE  FoldLeft(Replayed, l, ops) \in A
  <1> DEFINE n == Len(ops)
             Rule(f, s) == IF s = {} THEN l ELSE Replayed(f[s \ {Max(s)}], ops[Max(s)])
             Solves(f) == f = [s \in SUBSET DOMAIN ops |-> Rule(f, s)]
  <1>1. n \in Nat /\ DOMAIN ops = 1..n
    OBVIOUS
  <1>2. \A m \in A, op \in LayoutOp : Replayed(m, op) \in A
    OBVIOUS
  <1>3. \A s \in SUBSET (1..n) : s # {} => ops[Max(s)] \in LayoutOp
    <2>1. \A s \in SUBSET (1..n) : s # {} => Max(s) \in 1..n
      BY <1>1, MaxIn
    <2> QED
      BY <1>1, <2>1
  <1> HIDE DEF n
  <1>4. l \in A
    OBVIOUS
  <1>5. \E f : Solves(f)
    <2> DEFINE step == [p \in (SUBSET (1..n)) \X A |->
                           IF p[1] = {} THEN l ELSE Replayed(p[2], ops[Max(p[1])])]
    <2>1. step \in [(SUBSET (1..n)) \X A -> A]
      <3>1. \A p \in (SUBSET (1..n)) \X A :
                (IF p[1] = {} THEN l ELSE Replayed(p[2], ops[Max(p[1])])) \in A
        BY <1>2, <1>3, <1>4
      <3> QED
        BY <3>1
    <2>2. PICK f : Folds(f, A, l, n, step)
      <3> HIDE DEF step
      <3> QED
        BY <1>1, <1>4, <2>1, FoldThere
    <2>3. ASSUME NEW s \in SUBSET (1..n) PROVE f[s] = Rule(f, s)
      <3>1. f[s \ {Max(s)}] \in A
        BY <2>2 DEF Folds
      <3>2. s # {} => step[<<s, f[s \ {Max(s)}]>>] = Replayed(f[s \ {Max(s)}], ops[Max(s)])
        BY <3>1
      <3> QED
        BY <2>2, <3>2 DEF Folds
    <2> HIDE DEF Rule
    <2>4. f = [s \in SUBSET (1..n) |-> Rule(f, s)]
      BY <2>2, <2>3 DEF Folds
    <2> QED
      BY <2>4, <1>1
  <1>6. PICK f : Solves(f) /\ FoldLeft(Replayed, l, ops) = f[DOMAIN ops]
    BY <1>5, Zenon DEF FoldLeft, MapThenFoldSet
  <1>7. f[1..n] \in A
    <2>1. \A s \in SUBSET (1..n) : f[s] = Rule(f, s)
      <3> HIDE DEF Rule
      <3> QED
        BY <1>1, <1>6
    <2>2. f[{}] \in A
      <3>1. {} \in SUBSET (1..n)
        OBVIOUS
      <3> QED
        BY <2>1, <3>1, <1>4
    <2>3. \A s \in SUBSET (1..n) : s # {} /\ f[s \ {Max(s)}] \in A => f[s] \in A
      BY <2>1, <1>2, <1>3
    <2> QED
      BY <1>1, <2>2, <2>3, FoldStays
  <1> QED
    BY <1>1, <1>6, <1>7

LEMMA ReplayIn ==
    ASSUME NEW l \in Worlds, NEW ops \in Seq(LayoutOp), known \subseteq Windows
    PROVE  FoldLeft(Replayed, l, ops) \in Worlds
  <1>1. \A m \in Worlds, op \in LayoutOp : Replayed(m, op) \in Worlds
    BY ReplayedIn
  <1> QED
    BY <1>1, ReplayStays

\* Moves of windows from row to row.
Moving == [strips : [Rows -> Seq(ColumnRecs)], asking : SUBSET Windows, active : Rows]

LEMMA MoveIn ==
    ASSUME NEW l \in Moving, NEW m \in Marks, active \in Rows
    PROVE  Move(l, m) \in Moving
  <1> DEFINE target == <<active[1], m.index>>
             group  == TabGroup(l.strips[active], m.win)
             near   == Near(l.strips[active], m.win)
             stay   == ~m.follow /\ near # {}
  <1>1. m.win \in Windows /\ m.index \in Indices
    BY DEF Marks
  <1>2. \A r \in Rows : l.strips[r] \in Seq(ColumnRecs)
    BY DEF Moving
  <1>3. l.asking \in SUBSET Windows /\ l.active \in Rows
    BY DEF Moving
  <1>4. target \in Rows
    BY <1>1 DEF Rows
  <1>5. group \in Seq(Windows) /\ near \subseteq Windows
    BY <1>1, <1>2, TabGroupIn, NearIn
  <1>6. Move(l, m) =
            [strips |-> [r \in Rows |-> IF r = target THEN AppendTabGroup(l.strips[r], group)
                                        ELSE RemoveAll(l.strips[r], group)],
             asking |-> l.asking \cup (IF stay THEN near ELSE {m.win}),
             active |-> IF stay THEN l.active ELSE target]
    BY DEF Move
  <1> HIDE DEF target, group, near, stay
  <1>7. \A r \in Rows : /\ AppendTabGroup(l.strips[r], group) \in Seq(ColumnRecs)
                        /\ RemoveAll(l.strips[r], group) \in Seq(ColumnRecs)
    BY <1>2, <1>5, AppendTabGroupIn, RemoveAllIn
  <1> QED
    BY <1>1, <1>3, <1>4, <1>5, <1>6, <1>7 DEF Moving

\* One mark after the other keeps what each keeps.
LEMMA MovesStay ==
    ASSUME NEW A, NEW l \in A, NEW order \in Seq(Marks),
           \A m \in A, mark \in Marks : Move(m, mark) \in A
    PROVE  FoldLeft(Move, l, order) \in A
  <1> DEFINE n == Len(order)
             Rule(f, s) == IF s = {} THEN l ELSE Move(f[s \ {Max(s)}], order[Max(s)])
             Solves(f) == f = [s \in SUBSET DOMAIN order |-> Rule(f, s)]
  <1>1. n \in Nat /\ DOMAIN order = 1..n
    OBVIOUS
  <1>2. \A m \in A, mark \in Marks : Move(m, mark) \in A
    OBVIOUS
  <1>3. \A s \in SUBSET (1..n) : s # {} => order[Max(s)] \in Marks
    <2>1. \A s \in SUBSET (1..n) : s # {} => Max(s) \in 1..n
      BY <1>1, MaxIn
    <2> QED
      BY <1>1, <2>1
  <1> HIDE DEF n
  <1>4. l \in A
    OBVIOUS
  <1>5. \E f : Solves(f)
    <2> DEFINE step == [p \in (SUBSET (1..n)) \X A |->
                           IF p[1] = {} THEN l ELSE Move(p[2], order[Max(p[1])])]
    <2>1. step \in [(SUBSET (1..n)) \X A -> A]
      <3>1. \A p \in (SUBSET (1..n)) \X A :
                (IF p[1] = {} THEN l ELSE Move(p[2], order[Max(p[1])])) \in A
        BY <1>2, <1>3, <1>4
      <3> QED
        BY <3>1
    <2>2. PICK f : Folds(f, A, l, n, step)
      <3> HIDE DEF step
      <3> QED
        BY <1>1, <1>4, <2>1, FoldThere
    <2>3. ASSUME NEW s \in SUBSET (1..n) PROVE f[s] = Rule(f, s)
      <3>1. f[s \ {Max(s)}] \in A
        BY <2>2 DEF Folds
      <3>2. s # {} => step[<<s, f[s \ {Max(s)}]>>] = Move(f[s \ {Max(s)}], order[Max(s)])
        BY <3>1
      <3> QED
        BY <2>2, <3>2 DEF Folds
    <2> HIDE DEF Rule
    <2>4. f = [s \in SUBSET (1..n) |-> Rule(f, s)]
      BY <2>2, <2>3 DEF Folds
    <2> QED
      BY <2>4, <1>1
  <1>6. PICK f : Solves(f) /\ FoldLeft(Move, l, order) = f[DOMAIN order]
    BY <1>5, Zenon DEF FoldLeft, MapThenFoldSet
  <1>7. f[1..n] \in A
    <2>1. \A s \in SUBSET (1..n) : f[s] = Rule(f, s)
      <3> HIDE DEF Rule
      <3> QED
        BY <1>1, <1>6
    <2>2. f[{}] \in A
      <3>1. {} \in SUBSET (1..n)
        OBVIOUS
      <3> QED
        BY <2>1, <3>1, <1>4
    <2>3. \A s \in SUBSET (1..n) : s # {} /\ f[s \ {Max(s)}] \in A => f[s] \in A
      BY <2>1, <1>2, <1>3
    <2> QED
      BY <1>1, <2>2, <2>3, FoldStays
  <1> QED
    BY <1>1, <1>6, <1>7

LEMMA MovesIn ==
    ASSUME NEW l \in Moving, NEW order \in Seq(Marks), active \in Rows
    PROVE  FoldLeft(Move, l, order) \in Moving
  <1>1. \A m \in Moving, mark \in Marks : Move(m, mark) \in Moving
    BY MoveIn
  <1> QED
    BY <1>1, MovesStay

------------------------------------------------------------------------------
(* Types *)

\* TypeOK, but for the values of handlers.
LayoutOK ==
    /\ strips \in [Rows -> Seq(ColumnRecs)]
    /\ active \in Rows /\ selected \subseteq Rows
    /\ known \subseteq Windows
    /\ unmanaged \in [Windows -> {"no", Floating, Minimized}]
    /\ previous \in [Windows -> SUBSET [row : Rows, at : Nat \ {0}]]
AskedOK ==
    /\ fresh \in BOOLEAN
    /\ batches \in Seq(Seq(LayoutOp))
    /\ cmds \in Seq(Commands)
    /\ marks \subseteq Marks /\ IsFiniteSet(marks)
    /\ views \in Seq(Indices) /\ asking \subseteq Windows
    /\ spent \in Nat /\ events \in Nat
    /\ promise \subseteq WindowSets

\* The parts of the type invariant.
LEMMA TypeParts == TypeOK <=> LayoutOK /\ AskedOK /\ HandlerShows
  BY DEF TypeOK, LayoutOK, AskedOK, HandlerShows, Commands, Marks

LEMMA NowhereIn ==
    ASSUME LayoutOK, NEW w
    PROVE  Nowhere(w) \in [Rows -> Seq(ColumnRecs)]
  <1>1. \A r \in Rows : strips[r] \in Seq(ColumnRecs)
    BY DEF LayoutOK
  <1> QED
    BY <1>1, RemoveWindowIn DEF Nowhere

LEMMA ActivateIn ==
    ASSUME LayoutOK, NEW r \in Rows, Activate(r)
    PROVE  active' \in Rows /\ selected' \subseteq Rows
  BY DEF LayoutOK, Activate

LEMMA HappensIn ==
    ASSUME AskedOK, Happens
    PROVE  events' \in Nat /\ promise' = {} /\ fresh' \in BOOLEAN
  <1>1. fresh' = FALSE /\ promise' = {}
    BY DEF Happens, Disturbed
  <1>2. events' = events + 1
    BY DEF Happens
  <1>3. events \in Nat
    BY DEF AskedOK
  <1>4. fresh' \in BOOLEAN
    BY <1>1, Zenon
  <1>5. events' \in Nat
    BY <1>2, <1>3
  <1> QED
    BY <1>1, <1>4, <1>5, Zenon

LEMMA ManageIn ==
    ASSUME LayoutOK, NEW w \in Windows, Manage(w)
    PROVE  /\ strips' \in [Rows -> Seq(ColumnRecs)]
           /\ unmanaged' \in [Windows -> {"no", Floating, Minimized}]
           /\ previous' \in [Windows -> SUBSET [row : Rows, at : Nat \ {0}]]
  <1>1. PICK place \in BackTo(w) :
                strips' = [Nowhere(w) EXCEPT ![place.row] = InsertWindow(@, place.at, w)]
    BY DEF Manage
  <1>2. Nowhere(w) \in [Rows -> Seq(ColumnRecs)]
    BY NowhereIn
  <1>3. place.row \in Rows /\ place.at \in Nat \ {0}
    <2>1. CASE previous[w] # {}
      <3>1. place \in previous[w] /\ previous[w] \in SUBSET [row : Rows, at : Nat \ {0}]
        BY <2>1 DEF BackTo, LayoutOK
      <3> QED
        BY <3>1
    <2>2. CASE previous[w] = {}
      <3>1. place \in {[row |-> active, at |-> i] : i \in 1 .. Len(Nowhere(w)[active]) + 1}
        BY <2>2 DEF BackTo
      <3>2. active \in Rows
        BY DEF LayoutOK
      <3>3. Len(Nowhere(w)[active]) \in Nat
        BY <1>2, <3>2
      <3> QED
        BY <3>1, <3>2, <3>3
    <2> QED
      BY <2>1, <2>2
  <1>4. InsertWindow(Nowhere(w)[place.row], place.at, w) \in Seq(ColumnRecs)
    BY <1>2, <1>3, InsertWindowIn
  <1>5. strips' \in [Rows -> Seq(ColumnRecs)]
    BY <1>1, <1>2, <1>4
  <1>6. unmanaged' \in [Windows -> {"no", Floating, Minimized}]
    BY DEF LayoutOK, Manage
  <1>7. previous' \in [Windows -> SUBSET [row : Rows, at : Nat \ {0}]]
    BY DEF LayoutOK, Manage
  <1> QED
    BY <1>5, <1>6, <1>7

LEMMA ReturnTypes ==
    ASSUME TypeOK, Return
    PROVE  LayoutOK' /\ AskedOK'
  <1>1. LayoutOK /\ AskedOK /\ HandlerShows
    BY TypeParts
  <1>2. LayoutOK'
    BY <1>1 DEF LayoutOK, Return, live
  <1>3. PICK s \in handler : /\ batches' = Append(batches, s.ops)
                             /\ promise' = {t \in {s} : Foreseen(t)}
                             /\ spent' = spent + Len(s.ops)
    BY DEF Return
  <1>4. s \in WindowSets
    BY <1>1 DEF HandlerShows, ShowingSets
  <1>5. s.ops \in Seq(LayoutOp)
    BY <1>4, SetParts
  <1>6. batches' \in Seq(Seq(LayoutOp))
    BY <1>1, <1>3, <1>5 DEF AskedOK
  <1>7. spent' \in Nat
    BY <1>1, <1>3, <1>5 DEF AskedOK
  <1>8. promise' \subseteq WindowSets
    BY <1>3, <1>4
  <1> QED
    BY <1>1, <1>2, <1>6, <1>7, <1>8 DEF AskedOK, Return, asked

LEMMA ReplayTypes ==
    ASSUME TypeOK, Replay
    PROVE  LayoutOK' /\ AskedOK'
  <1>1. LayoutOK /\ AskedOK
    BY TypeParts
  <1> DEFINE ops == FlattenSeq(batches)
             l == FoldLeft(Replayed, Now, ops)
  <1>2. Now \in Worlds
    BY <1>1 DEF Now, Worlds, LayoutOK, AskedOK
  <1>3. ops \in Seq(LayoutOp)
    BY <1>1, FlattenHolds DEF AskedOK
  <1>4. l \in Worlds
    <2> HIDE DEF ops
    <2> QED
      BY <1>1, <1>2, <1>3, ReplayIn DEF LayoutOK
  <1>5. /\ strips' = l.strips /\ cmds' = l.cmds /\ marks' = l.marks
        /\ views' = l.views /\ asking' = l.asking
    BY DEF Replay
  <1> HIDE DEF l
  <1>6. /\ strips' \in [Rows -> Seq(ColumnRecs)] /\ cmds' \in Seq(Commands)
        /\ marks' \subseteq Marks /\ IsFiniteSet(marks')
        /\ views' \in Seq(Indices) /\ asking' \subseteq Windows
    BY <1>4, <1>5 DEF Worlds
  <1>7. batches' = <<>> /\ <<>> \in Seq(Seq(LayoutOp))
    BY DEF Replay
  <1>8. LayoutOK'
    BY <1>1, <1>6 DEF LayoutOK, Replay
  <1> QED
    BY <1>1, <1>6, <1>7, <1>8 DEF AskedOK, Replay

LEMMA FlushTypes ==
    ASSUME TypeOK, Flush
    PROVE  LayoutOK' /\ AskedOK'
  <1>1. LayoutOK /\ AskedOK
    BY TypeParts
  <1> DEFINE w == Head(cmds).win
  <1>2. cmds \in Seq(Commands) /\ cmds # <<>>
    BY <1>1 DEF AskedOK, Flush
  <1>3. w \in Windows /\ cmds' \in Seq(Commands)
    <2>1. Head(cmds) \in Commands /\ Tail(cmds) \in Seq(Commands)
      BY <1>2
    <2> QED
      BY <2>1 DEF Commands, Flush
  <1>4. AskedOK'
    BY <1>1, <1>3 DEF AskedOK, Flush
  <1>5. UNCHANGED <<active, selected, known>>
    BY DEF Flush
  <1>6. Float(w) \/ Manage(w) \/ UNCHANGED <<strips, unmanaged, previous>>
    BY DEF Flush
  <1> HIDE DEF w
  <1>7. CASE Float(w)
    <2>1. Nowhere(w) \in [Rows -> Seq(ColumnRecs)]
      BY <1>1, NowhereIn
    <2> QED
      BY <1>1, <1>3, <1>4, <1>5, <1>7, <2>1 DEF LayoutOK, Float
  <1>8. CASE Manage(w)
    BY <1>1, <1>3, <1>4, <1>5, <1>8, ManageIn DEF LayoutOK
  <1>9. CASE UNCHANGED <<strips, unmanaged, previous>>
    BY <1>1, <1>4, <1>5, <1>9 DEF LayoutOK
  <1> QED
    BY <1>6, <1>7, <1>8, <1>9

LEMMA ShowViewTypes ==
    ASSUME TypeOK, ShowView
    PROVE  LayoutOK' /\ AskedOK'
  <1>1. LayoutOK /\ AskedOK
    BY TypeParts
  <1>2. views \in Seq(Indices) /\ views # <<>>
    BY <1>1 DEF AskedOK, ShowView
  <1>3. Head(views) \in Indices /\ views' \in Seq(Indices)
    BY <1>2 DEF ShowView
  <1>4. <<active[1], Head(views)>> \in Rows
    BY <1>1, <1>3 DEF LayoutOK, Rows
  <1>5. active' \in Rows /\ selected' \subseteq Rows
    BY <1>1, <1>4, ActivateIn DEF ShowView
  <1> QED
    BY <1>1, <1>3, <1>5 DEF LayoutOK, AskedOK, ShowView

LEMMA MovesTypes ==
    ASSUME TypeOK, Moves
    PROVE  LayoutOK' /\ AskedOK'
  <1>1. LayoutOK /\ AskedOK
    BY TypeParts
  <1> DEFINE start == [strips |-> strips, asking |-> asking, active |-> active]
  <1>2. PICK order \in SetToSeqs(marks) :
            LET l == FoldLeft(Move, start, order)
            IN  strips' = l.strips /\ asking' = l.asking /\ Activate(l.active)
    BY DEF Moves
  <1>3. order \in Seq(Marks)
    <2>1. Cardinality(marks) \in Nat /\ marks \subseteq Marks
      BY <1>1, FS_CardinalityType DEF AskedOK
    <2>2. order \in [1 .. Cardinality(marks) -> marks]
      BY <1>2 DEF SetToSeqs
    <2> QED
      BY <2>1, <2>2
  <1>4. start \in Moving
    BY <1>1 DEF Moving, LayoutOK, AskedOK
  <1> DEFINE l == FoldLeft(Move, start, order)
  <1> HIDE DEF start
  <1>5. l \in Moving
    BY <1>1, <1>3, <1>4, MovesIn DEF LayoutOK
  <1>6. strips' = l.strips /\ asking' = l.asking /\ Activate(l.active)
    BY <1>2
  <1> HIDE DEF l
  <1>7. strips' \in [Rows -> Seq(ColumnRecs)] /\ asking' \subseteq Windows /\ l.active \in Rows
    BY <1>5, <1>6 DEF Moving
  <1>8. active' \in Rows /\ selected' \subseteq Rows
    BY <1>1, <1>6, <1>7, ActivateIn
  <1>9. marks' \subseteq Marks /\ IsFiniteSet(marks')
    BY FS_EmptySet DEF Moves
  <1> QED
    BY <1>1, <1>7, <1>8, <1>9 DEF LayoutOK, AskedOK, Moves

LEMMA FocusTypes ==
    ASSUME TypeOK, FocusArrives
    PROVE  LayoutOK' /\ AskedOK'
  <1>1. LayoutOK /\ AskedOK
    BY TypeParts
  <1>2. active' \in Rows /\ selected' \subseteq Rows
    <2>1. PICK w \in asking : IF RowsWith(w) \subseteq {active} THEN UNCHANGED <<active, selected>>
                              ELSE \E r \in RowsWith(w) \ {active} : Activate(r)
      BY DEF FocusArrives
    <2>2. CASE UNCHANGED <<active, selected>>
      BY <1>1, <2>2 DEF LayoutOK
    <2>3. CASE \E r \in RowsWith(w) : Activate(r)
      BY <1>1, <2>3, ActivateIn DEF RowsWith
    <2> QED
      BY <2>1, <2>2, <2>3
  <1>3. asking' \subseteq Windows
    BY <1>1 DEF AskedOK, FocusArrives
  <1> QED
    BY <1>1, <1>2, <1>3 DEF LayoutOK, AskedOK, FocusArrives

LEMMA CloseTypes ==
    ASSUME TypeOK, Close
    PROVE  LayoutOK' /\ AskedOK'
  <1>1. LayoutOK /\ AskedOK
    BY TypeParts
  <1>2. PICK w \in known : /\ known' = known \ {w}
                           /\ strips' = Nowhere(w)
                           /\ unmanaged' = [unmanaged EXCEPT ![w] = "no"]
                           /\ previous' = [previous EXCEPT ![w] = {}]
                           /\ marks' = {m \in marks : m.win # w}
                           /\ asking' = asking \ {w}
    BY DEF Close
  <1>3. strips' \in [Rows -> Seq(ColumnRecs)]
    BY <1>1, <1>2, NowhereIn
  <1>4. IsFiniteSet(marks')
    <2>1. marks' \in SUBSET marks /\ IsFiniteSet(marks)
      BY <1>1, <1>2 DEF AskedOK
    <2> QED
      BY <2>1, FS_Subset
  <1>5. events' \in Nat /\ promise' = {} /\ fresh' \in BOOLEAN
    <2>1. Happens
      BY DEF Close
    <2> QED
      BY <1>1, <2>1, HappensIn
  <1>6. LayoutOK'
    BY <1>1, <1>2, <1>3 DEF LayoutOK, Close
  <1> QED
    BY <1>1, <1>2, <1>4, <1>5, <1>6 DEF AskedOK, Close

LEMMA MinimizeTypes ==
    ASSUME TypeOK, Minimize
    PROVE  LayoutOK' /\ AskedOK'
  <1>1. LayoutOK /\ AskedOK
    BY TypeParts
  <1>2. PICK w \in known :
            /\ unmanaged' = [unmanaged EXCEPT ![w] = Minimized]
            /\ strips' = IF unmanaged[w] = "no" THEN Nowhere(w) ELSE strips
            /\ previous' = IF unmanaged[w] # "no" THEN previous
                           ELSE [previous EXCEPT ![w] =
                                    {[row |-> r, at |-> IndexOf(strips[r], w)] : r \in RowsWith(w)}]
    BY DEF Minimize
  <1>3. strips' \in [Rows -> Seq(ColumnRecs)]
    BY <1>1, <1>2, NowhereIn DEF LayoutOK
  <1> DEFINE places == {[row |-> r, at |-> IndexOf(strips[r], w)] : r \in RowsWith(w)}
  <1>4. places \in SUBSET [row : Rows, at : Nat \ {0}]
    <2>1. ASSUME NEW r \in RowsWith(w) PROVE r \in Rows /\ IndexOf(strips[r], w) \in Nat \ {0}
      <3>1. r \in Rows /\ IndexOf(strips[r], w) # 0
        BY DEF RowsWith, HasWindow
      <3>2. strips[r] \in Seq(ColumnRecs)
        BY <1>1, <3>1 DEF LayoutOK
      <3> QED
        BY <3>1, <3>2, PlacesFound
    <2> QED
      BY <2>1
  <1>5. previous' \in {previous, [previous EXCEPT ![w] = places]}
    BY <1>2
  <1> HIDE DEF places
  <1>6. previous' \in [Windows -> SUBSET [row : Rows, at : Nat \ {0}]]
    BY <1>1, <1>4, <1>5 DEF LayoutOK
  <1>7. events' \in Nat /\ promise' = {} /\ fresh' \in BOOLEAN
    <2>1. Happens
      BY DEF Minimize
    <2> QED
      BY <1>1, <2>1, HappensIn
  <1>8. unmanaged' \in [Windows -> {"no", Floating, Minimized}]
    BY <1>1, <1>2 DEF LayoutOK
  <1> QED
    BY <1>1, <1>3, <1>6, <1>7, <1>8 DEF LayoutOK, AskedOK, Minimize, asked

LEMMA DeminimizeTypes ==
    ASSUME TypeOK, Deminimize
    PROVE  LayoutOK' /\ AskedOK'
  <1>1. LayoutOK /\ AskedOK
    BY TypeParts
  <1>2. PICK w \in known : Manage(w)
    BY DEF Deminimize
  <1>3. w \in Windows
    BY <1>1 DEF LayoutOK
  <1>4. fresh' \in BOOLEAN /\ promise' = {}
    BY DEF Deminimize, Disturbed
  <1> QED
    BY <1>1, <1>2, <1>3, <1>4, ManageIn DEF LayoutOK, AskedOK, Deminimize, asked

LEMMA SwitchTypes ==
    ASSUME TypeOK, SwitchRow
    PROVE  LayoutOK' /\ AskedOK'
  <1>1. LayoutOK /\ AskedOK
    BY TypeParts
  <1>2. PICK i \in Indices : Activate(<<active[1], i>>)
    BY DEF SwitchRow
  <1>3. <<active[1], i>> \in Rows
    BY <1>1 DEF LayoutOK, Rows
  <1>4. active' \in Rows /\ selected' \subseteq Rows
    BY <1>1, <1>2, <1>3, ActivateIn
  <1>5. events' \in Nat /\ promise' = {} /\ fresh' \in BOOLEAN
    <2>1. Happens
      BY DEF SwitchRow
    <2> QED
      BY <1>1, <2>1, HappensIn
  <1> QED
    BY <1>1, <1>4, <1>5 DEF LayoutOK, AskedOK, SwitchRow, asked

LEMMA TypedShows == TypeOK => SnapshotShows
  BY ReadShows DEF TypeOK

LEMMA StepTypes == TypeOK /\ [Next]_vars => TypeOK'
  <1> SUFFICES ASSUME TypeOK, [Next]_vars PROVE TypeOK'
    OBVIOUS
  <1>1. LayoutOK /\ AskedOK /\ HandlerShows /\ SnapshotShows
    BY TypeParts, TypedShows
  <1>2. HandlerShows'
    BY <1>1, StepShows
  <1>3. LayoutOK' /\ AskedOK'
    <2>1. CASE Extract
      BY <1>1, <2>1 DEF LayoutOK, AskedOK, Extract, live, asked, Settled
    <2>2. CASE Ask
      BY <1>1, <2>2 DEF LayoutOK, AskedOK, Ask, live, asked
    <2>3. CASE UNCHANGED vars
      BY <1>1, <2>3 DEF LayoutOK, AskedOK, vars, live, asked
    <2> QED
      BY <2>1, <2>2, <2>3, ReturnTypes, ReplayTypes, FlushTypes, ShowViewTypes, MovesTypes,
         FocusTypes, CloseTypes, MinimizeTypes, DeminimizeTypes, SwitchTypes DEF Next
  <1>4. TypeOK' <=> LayoutOK' /\ AskedOK' /\ HandlerShows'
    BY TypeParts, PTL
  <1> QED
    BY <1>2, <1>3, <1>4

LEMMA InitTypes == Init => TypeOK
  <1> SUFFICES ASSUME Init PROVE TypeOK
    OBVIOUS
  <1>1. strips \in [Rows -> Seq(ColumnRecs)]
    BY StartAssumption DEF Init
  <1>2. active \in Rows
    <2> DEFINE d == DisplayOrder[1]
    <2>1. d \in ToSet(DisplayOrder)
      BY DisplaysAssumption DEF ToSet
    <2>2. SpacesOf[d] \in Seq(Spaces) /\ SpacesOf[d] # <<>>
      BY <2>1, DisplaysAssumption
    <2> HIDE DEF d
    <2>3. SpacesOf[d][1] \in Spaces
      BY <2>2
    <2>4. 0 \in Indices
      BY IndexAssumption DEF Indices
    <2> QED
      BY <2>3, <2>4 DEF Init, Rows, d
  <1>3. selected \subseteq Rows
    <2>1. 0 \in Indices
      BY IndexAssumption DEF Indices
    <2> QED
      BY <2>1 DEF Init, Rows
  <1>4. LayoutOK
    BY <1>1, <1>2, <1>3 DEF Init, LayoutOK
  <1>5. AskedOK
    <2>1. batches \in Seq(Seq(LayoutOp)) /\ cmds \in Seq(Commands) /\ views \in Seq(Indices)
      BY DEF Init
    <2>2. fresh \in BOOLEAN /\ spent \in Nat /\ events \in Nat
      BY DEF Init
    <2>3. /\ marks \subseteq Marks /\ IsFiniteSet(marks) /\ asking \subseteq Windows
          /\ promise \subseteq WindowSets
      BY FS_EmptySet DEF Init
    <2> QED
      BY <2>1, <2>2, <2>3 DEF AskedOK
  <1>6. HandlerShows
    BY DEF Init, HandlerShows
  <1> QED
    BY <1>4, <1>5, <1>6, TypeParts

\* Every variable stays in its type, and a handler holds at most one value, in
\* which a workspace shows, for any windows, displays, spaces and rows, whatever
\* scripts ask for (extract_window_set, apply_layout_ops and the triggers and
\* handlers that do what the replay left to them).
THEOREM LayoutTypes == Spec => []TypeOK
  BY InitTypes, StepTypes, PTL DEF Spec

\* WindowSet.with, as the handlers of scripts call it: no step of a handler loses
\* a window of the value it holds, except by stacking it onto itself or onto one
\* that is not tiled, for any number of windows, displays and rows and any
\* operations in any number.
THEOREM HandlersKeepWindows == Spec => KeepsWindows
  <1>1. TypeOK /\ [Next]_vars =>
            [\A s \in handler, t \in handler' :
                Everyone(s) = Everyone(t) \/ LET op == Last(t.ops)
                                             IN  /\ op.op = "stack"
                                                 /\ op.win = op.onto \/ TiledOn(s, op.onto) = {}]_vars
    BY TypeParts, TypedShows, StepShows DEF KeptIn
  <1> QED
    BY <1>1, LayoutTypes, PTL DEF Spec, KeepsWindows

------------------------------------------------------------------------------
(* Strips with each window once *)

\* The windows of an item and of a column.
ItemF == [item \in [tabs : BOOLEAN, ws : Seq(Windows)] |-> ToSet(item.ws)]
ColF == [column \in ColumnRecs |-> Covered(column.items, ItemF)]

\* Each window is in them once, and no column is that of a full-screen space.
OnceItems == {item \in ItemRecs : IsInjective(item.ws)}
OnceColumns == {column \in ColumnRecs : /\ ~column.full /\ column.items \in Seq(OnceItems)
                                        /\ Apart(column.items, ItemF)}
OnceStrips == {cols \in Seq(OnceColumns) : Apart(cols, ColF)}

\* The windows of a strip.
Held(cols) == Covered(cols, ColF)

\* The windows of an item: some of Windows, one at least.
LEMMA ItemIs ==
    ASSUME NEW item \in ItemRecs
    PROVE  ItemF[item] = ToSet(item.ws) /\ ItemF[item] \subseteq Windows /\ ItemF[item] # {}
  <1>1. item \in [tabs : BOOLEAN, ws : Seq(Windows)] /\ item.ws \in Seq(Windows) /\ item.ws # <<>>
    BY DEF ItemRecs
  <1>2. ItemF[item] = ToSet(item.ws)
    BY <1>1 DEF ItemF
  <1>3. item.ws[1] \in ToSet(item.ws) /\ ToSet(item.ws) \subseteq Windows
    BY <1>1 DEF ToSet
  <1> QED
    BY <1>2, <1>3

\* The first of the places at which something is.
LEMMA FirstIs ==
    ASSUME NEW at \in SUBSET (Nat \ {0})
    PROVE  FirstAt(at) # 0 <=> at # {}
  <1>1. at \in SUBSET Nat
    OBVIOUS
  <1>2. at # {} => Min(at) \in at
    BY <1>1, MinIn
  <1> QED
    BY <1>2 DEF FirstAt

\* An item, a column and a strip hold the windows that are theirs.
LEMMA HoldsIs ==
    ASSUME NEW item \in ItemRecs, NEW w
    PROVE  ItemHolds(item, w) <=> w \in ItemF[item]
  <1>1. item.ws \in Seq(Windows)
    BY DEF ItemRecs
  <1>2. Contains(item.ws, w) <=> w \in ToSet(item.ws)
    <2>1. DOMAIN item.ws = 1 .. Len(item.ws)
      BY <1>1
    <2> QED
      BY <2>1 DEF Contains, ToSet
  <1> QED
    BY <1>2, ItemIs DEF ItemHolds

LEMMA ColumnIs ==
    ASSUME NEW column \in ColumnRecs, NEW w
    PROVE  /\ InColumn(column, w) <=> w \in ColF[column]
           /\ ColF[column] = Covered(column.items, ItemF) /\ ColF[column] \subseteq Windows
           /\ InColumn(column, w) => w \in ItemF[column.items[PositionOf(column, w)]]
  <1>1. column.items \in Seq(ItemRecs)
    BY DEF ColumnRecs
  <1>2. \A k \in DOMAIN column.items : column.items[k] \in ItemRecs
    BY <1>1
  <1>3. ColF[column] = Covered(column.items, ItemF)
    BY DEF ColF
  <1>4. InColumn(column, w) <=> w \in ColF[column]
    BY <1>2, <1>3, HoldsIs DEF InColumn, Covered
  <1>5. ColF[column] \subseteq Windows
    BY <1>2, <1>3, ItemIs DEF Covered
  <1>6. ASSUME InColumn(column, w) PROVE w \in ItemF[column.items[PositionOf(column, w)]]
    <2> DEFINE at == {k \in DOMAIN column.items : ItemHolds(column.items[k], w)}
    <2>1. at \in SUBSET Nat /\ at # {}
      <3>1. DOMAIN column.items \subseteq Nat
        BY <1>1
      <3> QED
        BY <3>1, <1>6 DEF InColumn
    <2>2. Min(at) \in at
      <3> HIDE DEF at
      <3> QED
        BY <2>1, MinIn
    <2>3. PositionOf(column, w) = Min(at)
      BY <2>1 DEF PositionOf, FirstAt
    <2>4. /\ PositionOf(column, w) \in DOMAIN column.items
          /\ ItemHolds(column.items[PositionOf(column, w)], w)
      BY <2>2, <2>3
    <2> QED
      BY <2>4, <1>2, HoldsIs
  <1> QED
    BY <1>3, <1>4, <1>5, <1>6

LEMMA HeldIs ==
    ASSUME NEW cols \in Seq(ColumnRecs), NEW w
    PROVE  /\ HasWindow(cols, w) <=> w \in Held(cols)
           /\ HasWindow(cols, w) <=> IndexOf(cols, w) # 0
           /\ Held(cols) \subseteq Windows
  <1>1. \A i \in DOMAIN cols : cols[i] \in ColumnRecs
    OBVIOUS
  <1> DEFINE at == {i \in DOMAIN cols : InColumn(cols[i], w)}
  <1>2. at \in SUBSET (Nat \ {0})
    OBVIOUS
  <1>3. IndexOf(cols, w) # 0 <=> at # {}
    <2>1. IndexOf(cols, w) = FirstAt(at)
      BY DEF IndexOf
    <2> HIDE DEF at
    <2> QED
      BY <2>1, <1>2, FirstIs
  <1>4. at # {} <=> w \in Held(cols)
    BY <1>1, ColumnIs DEF Held, Covered
  <1>5. Held(cols) \subseteq Windows
    BY <1>1, ColumnIs DEF Held, Covered
  <1> QED
    BY <1>3, <1>4, <1>5 DEF HasWindow

\* Columns that are made.
LEMMA OnceMade ==
    /\ \A w \in Windows : Alone(w) \in OnceItems /\ ItemF[Alone(w)] = {w}
    /\ \A ws \in Seq(Windows) \ {<<>>} :
           IsInjective(ws) => Grouped(ws) \in OnceItems /\ ItemF[Grouped(ws)] = ToSet(ws)
    /\ \A items \in Seq(OnceItems) \ {<<>>} :
           Apart(items, ItemF) => /\ Column(items) \in OnceColumns
                                  /\ ColF[Column(items)] = Covered(items, ItemF)
    /\ \A item \in OnceItems : /\ Column(<<item>>) \in OnceColumns
                               /\ ColF[Column(<<item>>)] = ItemF[item]
  <1>1. ASSUME NEW w \in Windows PROVE Alone(w) \in OnceItems /\ ItemF[Alone(w)] = {w}
    <2>1. Alone(w) \in ItemRecs /\ Alone(w).ws = <<w>>
      BY ColumnsMade DEF Alone
    <2>2. IsInjective(<<w>>) /\ ToSet(<<w>>) = {w}
      BY DEF IsInjective, ToSet
    <2> QED
      BY <2>1, <2>2, ItemIs DEF OnceItems
  <1>2. ASSUME NEW ws \in Seq(Windows) \ {<<>>}, IsInjective(ws)
        PROVE  Grouped(ws) \in OnceItems /\ ItemF[Grouped(ws)] = ToSet(ws)
    <2>1. Grouped(ws) \in ItemRecs /\ Grouped(ws).ws = ws
      BY ColumnsMade DEF Grouped
    <2> QED
      BY <1>2, <2>1, ItemIs DEF OnceItems
  <1>3. ASSUME NEW items \in Seq(OnceItems) \ {<<>>}, Apart(items, ItemF)
        PROVE  Column(items) \in OnceColumns /\ ColF[Column(items)] = Covered(items, ItemF)
    <2>1. items \in Seq(ItemRecs) \ {<<>>}
      BY DEF OnceItems
    <2>2. Column(items) \in ColumnRecs /\ Column(items).items = items /\ ~Column(items).full
      BY <2>1, ColumnsMade DEF Column
    <2> QED
      BY <1>3, <2>2, ColumnIs DEF OnceColumns
  <1>4. ASSUME NEW item \in OnceItems
        PROVE  Column(<<item>>) \in OnceColumns /\ ColF[Column(<<item>>)] = ItemF[item]
    <2> DEFINE items == <<item>>
    <2>1. items \in Seq(OnceItems) \ {<<>>}
      OBVIOUS
    <2>2. Apart(items, ItemF) /\ Covered(items, ItemF) = ItemF[item]
      BY FewApart
    <2> HIDE DEF items
    <2> QED
      BY <1>3, <2>1, <2>2 DEF items
  <1> QED
    BY <1>1, <1>2, <1>3, <1>4

\* What `remove` leaves of a column.
LEMMA WithoutOnce ==
    ASSUME NEW column \in OnceColumns, NEW w
    PROVE  Without(column, w) \in OnceStrips /\ Held(Without(column, w)) = ColF[column] \ {w}
  <1> DEFINE Loose == [tabs : BOOLEAN, ws : Seq(Windows)]
             less(item) == [item EXCEPT !.ws = OtherThan(@, w)]
             left == [k \in DOMAIN column.items |-> less(column.items[k])]
             some == {it \in ToSet(left) : it.ws # <<>>}
             rest == Retained(left, some)
  <1>1. /\ column \in ColumnRecs /\ column.items \in Seq(OnceItems) /\ column.items # <<>>
        /\ Apart(column.items, ItemF) /\ OnceItems \subseteq ItemRecs
    BY DEF OnceColumns, ColumnRecs, OnceItems
  <1>2. ASSUME NEW item \in OnceItems
        PROVE  /\ less(item) \in Loose /\ ItemF[less(item)] = ItemF[item] \ {w}
               /\ less(item).ws # <<>> => less(item) \in OnceItems
               /\ less(item).ws = <<>> <=> ItemF[item] \ {w} = {}
    <2>1. item \in ItemRecs /\ item.ws \in Seq(Windows) /\ item.tabs \in BOOLEAN /\ IsInjective(item.ws)
      BY DEF OnceItems, ItemRecs
    <2> DEFINE ws == OtherThan(item.ws, w)
    <2>2. ws \in Seq(Windows) /\ ToSet(ws) = ToSet(item.ws) \ {w}
      <3>1. /\ ws \in Seq(Windows)
            /\ ToSet(ws) = ToSet(item.ws) \cap (ToSet(item.ws) \ {w})
        BY <2>1, RetainedHolds DEF OtherThan
      <3> QED
        BY <3>1
    <2>3. IsInjective(ws)
      <3> DEFINE F == [x \in Windows |-> {x}]
                 T == ToSet(item.ws) \ {w}
      <3> DEFINE s == item.ws
      <3>1. s \in Seq(Windows) /\ IsInjective(s)
        BY <2>1
      <3>2. ws = Retained(s, T)
        BY DEF OtherThan
      <3> HIDE DEF s, T
      <3>3. \A i \in DOMAIN s : F[s[i]] = {s[i]}
        BY <3>1
      <3> HIDE DEF F
      <3>4. \A i, j \in DOMAIN s : s[i] \in T /\ s[j] \in T /\ F[s[i]] \cap F[s[j]] # {} => i = j
        BY <3>1, <3>3 DEF IsInjective
      <3>5. Apart(Retained(s, T), F)
        BY <3>1, <3>4, RetainedApart
      <3>6. Apart(ws, F)
        BY <3>2, <3>5
      <3> HIDE DEF ws
      <3> QED
        BY <2>2, <3>6, SelfApart DEF F
    <2>4. less(item) \in Loose /\ less(item).ws = ws
      BY <2>1, <2>2 DEF ItemRecs
    <2>5. ItemF[less(item)] = ItemF[item] \ {w}
      BY <2>1, <2>2, <2>4, ItemIs DEF ItemF
    <2>6. ws # <<>> => less(item) \in OnceItems
      BY <2>2, <2>3, <2>4 DEF OnceItems, ItemRecs
    <2>7. ws = <<>> <=> ToSet(ws) = {}
      <3> HIDE DEF ws
      <3> QED
        BY <2>2 DEF ToSet
    <2> QED
      BY <2>1, <2>2, <2>4, <2>5, <2>6, <2>7, ItemIs
  <1>3. \A k \in DOMAIN column.items : column.items[k] \in OnceItems
    BY <1>1
  <1> HIDE DEF less, Loose
  <1>4. /\ left \in Seq(Loose) /\ DOMAIN left = DOMAIN column.items
        /\ \A k \in DOMAIN left : left[k] = less(column.items[k])
    <2>1. DOMAIN column.items = 1 .. Len(column.items) /\ Len(column.items) \in Nat
      BY <1>1
    <2> QED
      BY <1>2, <1>3, <2>1
  <1> HIDE DEF left
  <1>5. \A k \in DOMAIN left : ItemF[left[k]] = ItemF[column.items[k]] \ {w}
    BY <1>2, <1>3, <1>4
  <1>6. rest \in Seq(OnceItems)
    <2>1. \A it \in some : it \in OnceItems
      <3> TAKE it \in some
      <3>1. PICK k \in DOMAIN left : it = left[k]
        BY DEF ToSet
      <3> QED
        BY <1>2, <1>3, <1>4, <3>1
    <2>2. Loose \cap some \subseteq OnceItems
      BY <2>1
    <2> HIDE DEF some
    <2>3. Retained(left, some) \in Seq(Loose \cap some)
      BY <1>4, RetainedIn
    <2> HIDE DEF rest
    <2> QED
      BY <2>2, <2>3 DEF rest
  <1>7. Apart(rest, ItemF)
    <2>1. \A i, j \in DOMAIN left :
             left[i] \in some /\ left[j] \in some /\ ItemF[left[i]] \cap ItemF[left[j]] # {} => i = j
      BY <1>1, <1>4, <1>5 DEF Apart
    <2> HIDE DEF some
    <2> QED
      BY <2>1, <1>4, RetainedApart
  <1>8. Covered(rest, ItemF) = ColF[column] \ {w}
    <2>1. Covered(rest, ItemF) = UNION {ItemF[x] : x \in ToSet(rest)}
      BY CoveredIs
    <2>2. ToSet(rest) = some
      <3>1. ToSet(rest) = ToSet(left) \cap some
        <4> HIDE DEF some
        <4> QED
          BY <1>4, RetainedHolds
      <3> QED
        BY <3>1
    <2>3. \A x : x \in UNION {ItemF[y] : y \in some} <=> \E k \in DOMAIN left : left[k].ws # <<>> /\ x \in ItemF[left[k]]
      BY DEF ToSet
    <2>4. \A k \in DOMAIN left : left[k].ws = <<>> => ItemF[left[k]] = {}
      BY <1>2, <1>3, <1>4, <1>5
    <2>7. Covered(rest, ItemF) = UNION {ItemF[y] : y \in some}
      BY <2>1, <2>2
    <2> HIDE DEF some, rest
    <2>8. \A x : x \in Covered(rest, ItemF) <=> \E k \in DOMAIN left : x \in ItemF[left[k]]
      BY <2>3, <2>4, <2>7
    <2>5. \A x : x \in Covered(rest, ItemF) <=> \E k \in DOMAIN column.items : x \in ItemF[column.items[k]] \ {w}
      BY <2>8, <1>4, <1>5
    <2>6. ColF[column] = Covered(column.items, ItemF)
      BY <1>1, ColumnIs
    <2> QED
      BY <2>5, <2>6 DEF Covered
  <1>9. Without(column, w) =
            CASE rest = <<>> -> <<>>
              [] rest # <<>> /\ ~IsStack(column) /\ Len(rest[1].ws) = 1 ->
                    <<Column(<<Alone(rest[1].ws[1])>>)>>
              [] OTHER -> <<Column(rest)>>
    BY DEF Without, Remade, left, less
  <1>10. ASSUME ~IsStack(column), rest # <<>> PROVE Covered(rest, ItemF) = ItemF[rest[1]]
    <2>1. DOMAIN column.items = {1}
      <3> DEFINE n == Len(column.items)
      <3>1. n \in Nat /\ ~(n > 1) /\ n # 0 /\ DOMAIN column.items = 1..n
        BY <1>1, <1>10 DEF IsStack
      <3> HIDE DEF n
      <3>2. n = 1
        BY <3>1
      <3> QED
        BY <3>1, <3>2
    <2>2. ToSet(left) = {left[1]}
      BY <2>1, <1>4 DEF ToSet
    <2>3. ToSet(rest) \subseteq ToSet(left)
      <3> HIDE DEF some
      <3> QED
        BY <1>4, RetainedHolds
    <2>4. rest[1] \in ToSet(rest)
      <3> HIDE DEF rest
      <3> QED
        BY <1>6, <1>10 DEF ToSet
    <2> HIDE DEF rest
    <2>5. ToSet(rest) = {rest[1]}
      BY <2>2, <2>3, <2>4
    <2> QED
      BY <2>5, CoveredIs
  <1> HIDE DEF rest, some
  <1>11. ASSUME NEW c \in OnceColumns PROVE <<c>> \in OnceStrips /\ Held(<<c>>) = ColF[c]
    <2>1. <<c>> \in Seq(OnceColumns)
      OBVIOUS
    <2> QED
      BY <2>1, FewApart DEF OnceStrips, Held
  <1>12. CASE rest = <<>>
    <2>1. Without(column, w) = <<>>
      BY <1>9, <1>12
    <2>2. <<>> \in OnceStrips /\ Held(<<>>) = {}
      BY FewApart DEF OnceStrips, Held
    <2>3. Covered(rest, ItemF) = {}
      BY <1>12, FewApart
    <2> QED
      BY <2>1, <2>2, <2>3, <1>8
  <1>13. CASE rest # <<>> /\ ~IsStack(column) /\ Len(rest[1].ws) = 1
    <2> DEFINE x == rest[1].ws[1]
    <2>1. Without(column, w) = <<Column(<<Alone(x)>>)>>
      BY <1>9, <1>13
    <2>2. rest[1] \in OnceItems
      BY <1>6, <1>13
    <2>3. rest[1] \in ItemRecs /\ rest[1].ws \in Seq(Windows)
      BY <2>2 DEF OnceItems, ItemRecs
    <2>4. x \in Windows /\ ToSet(rest[1].ws) = {x}
      BY <2>3, <1>13 DEF ToSet
    <2>5. ItemF[rest[1]] = {x}
      BY <2>3, <2>4, ItemIs
    <2> HIDE DEF x
    <2>6. Alone(x) \in OnceItems /\ ItemF[Alone(x)] = {x}
      BY <2>4, OnceMade
    <2>7. Column(<<Alone(x)>>) \in OnceColumns /\ ColF[Column(<<Alone(x)>>)] = {x}
      BY <2>6, OnceMade
    <2> QED
      BY <2>1, <2>5, <2>7, <1>8, <1>10, <1>11, <1>13
  <1>14. CASE rest # <<>> /\ ~(~IsStack(column) /\ Len(rest[1].ws) = 1)
    <2>1. Without(column, w) = <<Column(rest)>>
      BY <1>9, <1>14
    <2>2. Column(rest) \in OnceColumns /\ ColF[Column(rest)] = Covered(rest, ItemF)
      BY <1>6, <1>7, <1>14, OnceMade
    <2> QED
      BY <2>1, <2>2, <1>8, <1>11
  <1> QED
    BY <1>12, <1>13, <1>14

\* Columns at i..j replaced by others.
LEMMA SpliceOnce ==
    ASSUME NEW cols \in OnceStrips, NEW new \in OnceStrips, NEW i \in Nat \ {0}, NEW j \in Nat,
           i <= j + 1, j <= Len(cols),
           Held(new) \cap (Held(cols) \ Held(SubSeq(cols, i, j))) = {}
    PROVE  /\ Splice(cols, i, j, new) \in OnceStrips
           /\ Held(Splice(cols, i, j, new)) = (Held(cols) \ Held(SubSeq(cols, i, j))) \cup Held(new)
  <1>1. cols \in Seq(OnceColumns) /\ new \in Seq(OnceColumns) /\ Apart(cols, ColF) /\ Apart(new, ColF)
    BY DEF OnceStrips
  <1>2. Covered(new, ColF) \cap (Covered(cols, ColF) \ Covered(SubSeq(cols, i, j), ColF)) = {}
    BY DEF Held
  <1> DEFINE t == SubSeq(cols, 1, i - 1) \o new \o SubSeq(cols, j + 1, Len(cols))
  <1>3. /\ t \in Seq(OnceColumns) /\ Apart(t, ColF)
        /\ Covered(t, ColF) = (Covered(cols, ColF) \ Covered(SubSeq(cols, i, j), ColF))
                                  \cup Covered(new, ColF)
    BY <1>1, <1>2, ReplacedApart
  <1>4. Splice(cols, i, j, new) = t
    BY DEF Splice
  <1> HIDE DEF t
  <1> QED
    BY <1>3, <1>4 DEF OnceStrips, Held

\* A window that is removed is the only one to go.
LEMMA RemoveWindowOnce ==
    ASSUME NEW cols \in OnceStrips, NEW w
    PROVE  RemoveWindow(cols, w) \in OnceStrips /\ Held(RemoveWindow(cols, w)) = Held(cols) \ {w}
  <1> DEFINE i == IndexOf(cols, w)
  <1>1. cols \in Seq(OnceColumns) /\ cols \in Seq(ColumnRecs) /\ Apart(cols, ColF)
    BY DEF OnceStrips, OnceColumns
  <1>2. i # 0 <=> w \in Held(cols)
    BY <1>1, HeldIs
  <1>3. CASE i = 0
    BY <1>2, <1>3 DEF RemoveWindow
  <1>4. CASE i # 0
    <2>1. i \in DOMAIN cols /\ InColumn(cols[i], w)
      BY <1>1, <1>4, PlacesFound
    <2> HIDE DEF i
    <2> DEFINE new == Without(cols[i], w)
    <2>2. i \in Nat \ {0} /\ i \in Nat /\ i <= i + 1 /\ i <= Len(cols) /\ cols[i] \in OnceColumns
      BY <1>1, <2>1
    <2>3. new \in OnceStrips /\ Held(new) = ColF[cols[i]] \ {w}
      BY <2>2, WithoutOnce
    <2>4. Held(SubSeq(cols, i, i)) = ColF[cols[i]] /\ ColF[cols[i]] \subseteq Held(cols)
      BY <1>1, <2>1, PartsOfOne DEF Held, Covered
    <2>5. w \in ColF[cols[i]]
      BY <2>1, <2>2, ColumnIs DEF OnceColumns
    <2> HIDE DEF new
    <2>6. /\ Splice(cols, i, i, new) \in OnceStrips
          /\ Held(Splice(cols, i, i, new)) = (Held(cols) \ Held(SubSeq(cols, i, i))) \cup Held(new)
      BY <2>2, <2>3, <2>4, SpliceOnce
    <2>7. RemoveWindow(cols, w) = Splice(cols, i, i, new)
      BY <1>4 DEF RemoveWindow, i, new
    <2> QED
      BY <2>3, <2>4, <2>5, <2>6, <2>7
  <1> QED
    BY <1>3, <1>4

\* So are windows that are removed one after the other.
LEMMA RemoveAllOnce ==
    ASSUME NEW cols \in OnceStrips, NEW group \in Seq(Windows)
    PROVE  /\ RemoveAll(cols, group) \in OnceStrips
           /\ Held(RemoveAll(cols, group)) = Held(cols) \ ToSet(group)
  <1> DEFINE n == Len(group)
  <1>1. cols \in Seq(ColumnRecs)
    BY DEF OnceStrips, OnceColumns
  <1>2. PICK g : /\ g[0] = cols /\ g[n] = RemoveAll(cols, group)
                 /\ \A i \in 1..n : g[i] = RemoveWindow(g[i - 1], group[i])
    BY <1>1, RemoveAllSteps
  <1> DEFINE gone(i) == {group[k] : k \in 1..i}
             T == {i \in 0..n : g[i] \in OnceStrips /\ Held(g[i]) = Held(cols) \ gone(i)}
  <1>3. n \in Nat /\ DOMAIN group = 1..n
    OBVIOUS
  <1> HIDE DEF n
  <1>4. 0 \in T
    <2>1. gone(0) = {} /\ 0 \in 0..n
      BY <1>3
    <2> QED
      BY <2>1, <1>2
  <1>5. ASSUME NEW i \in 1..n, i - 1 \in T PROVE i \in T
    <2>1. g[i - 1] \in OnceStrips /\ Held(g[i - 1]) = Held(cols) \ gone(i - 1)
      BY <1>5
    <2>2. g[i] \in OnceStrips /\ Held(g[i]) = Held(g[i - 1]) \ {group[i]}
      BY <1>2, <2>1, RemoveWindowOnce
    <2>3. gone(i) = gone(i - 1) \cup {group[i]} /\ i \in 0..n
      <3>1. 1..i = (1..(i - 1)) \cup {i} /\ i \in 0..n
        BY <1>3
      <3> QED
        BY <3>1
    <2> HIDE DEF gone
    <2> QED
      BY <2>1, <2>2, <2>3
  <1> HIDE DEF T
  <1>6. 0..n \subseteq T
    BY <1>3, <1>4, <1>5, UpTo
  <1>7. n \in T
    BY <1>3, <1>6
  <1>8. gone(n) = ToSet(group)
    BY <1>3 DEF ToSet
  <1> QED
    BY <1>2, <1>7, <1>8 DEF T

\* A strip of one column, and a column at the end of a strip.
LEMMA OneColumn ==
    ASSUME NEW column \in OnceColumns
    PROVE  <<column>> \in OnceStrips /\ Held(<<column>>) = ColF[column]
  <1>1. <<column>> \in Seq(OnceColumns)
    OBVIOUS
  <1> QED
    BY <1>1, FewApart DEF OnceStrips, Held

LEMMA AppendOnce ==
    ASSUME NEW cols \in OnceStrips, NEW column \in OnceColumns, ColF[column] \cap Held(cols) = {}
    PROVE  /\ Append(cols, column) \in OnceStrips
           /\ Held(Append(cols, column)) = Held(cols) \cup ColF[column]
  <1> DEFINE new == <<column>>
             t == cols \o new
  <1>1. cols \in Seq(OnceColumns) /\ Apart(cols, ColF)
    BY DEF OnceStrips
  <1>2. new \in Seq(OnceColumns) /\ Apart(new, ColF) /\ Covered(new, ColF) = ColF[column]
    BY OneColumn DEF OnceStrips, Held
  <1>3. Append(cols, column) = t
    BY <1>1
  <1> HIDE DEF new
  <1>4. /\ Covered(t, ColF) = Covered(cols, ColF) \cup Covered(new, ColF)
        /\ Apart(t, ColF) <=> /\ Apart(cols, ColF) /\ Apart(new, ColF)
                              /\ Covered(cols, ColF) \cap Covered(new, ColF) = {}
    BY <1>1, <1>2, ApartConcat
  <1>5. t \in Seq(OnceColumns)
    BY <1>1, <1>2
  <1> HIDE DEF t
  <1> QED
    BY <1>1, <1>2, <1>3, <1>4, <1>5 DEF OnceStrips, Held

\* A column of new windows at any place.
LEMMA InsertColumnOnce ==
    ASSUME NEW cols \in OnceStrips, NEW i \in Nat \ {0}, NEW column \in OnceColumns,
           ColF[column] \cap Held(cols) = {}
    PROVE  /\ InsertColumn(cols, i, column) \in OnceStrips
           /\ Held(InsertColumn(cols, i, column)) = Held(cols) \cup ColF[column]
  <1>1. CASE i > Len(cols)
    BY <1>1, AppendOnce DEF InsertColumn
  <1>2. CASE ~(i > Len(cols))
    <2> DEFINE new == <<column>>
    <2>1. new \in OnceStrips /\ Held(new) = ColF[column]
      BY OneColumn
    <2>2. i - 1 \in Nat /\ i <= (i - 1) + 1 /\ i - 1 <= Len(cols)
      <3>1. Len(cols) \in Nat
        BY DEF OnceStrips
      <3> QED
        BY <1>2, <3>1
    <2>3. Held(SubSeq(cols, i, i - 1)) = {}
      <3>1. cols \in Seq(OnceColumns)
        BY DEF OnceStrips
      <3> QED
        BY <3>1, PartsOfOne DEF Held
    <2> HIDE DEF new
    <2>4. /\ Splice(cols, i, i - 1, new) \in OnceStrips
          /\ Held(Splice(cols, i, i - 1, new)) =
                 (Held(cols) \ Held(SubSeq(cols, i, i - 1))) \cup Held(new)
      BY <2>1, <2>2, <2>3, SpliceOnce
    <2>5. InsertColumn(cols, i, column) = Splice(cols, i, i - 1, new)
      BY <1>2 DEF InsertColumn, new
    <2> QED
      BY <2>1, <2>3, <2>4, <2>5
  <1> QED
    BY <1>1, <1>2

\* A window that comes to a strip.
LEMMA WindowOnce ==
    ASSUME NEW cols \in OnceStrips, NEW w \in Windows
    PROVE  /\ AppendWindow(cols, w) \in OnceStrips
           /\ Held(AppendWindow(cols, w)) = Held(cols) \cup {w}
           /\ \A i \in Nat \ {0} : w \notin Held(cols) =>
                  /\ InsertWindow(cols, i, w) \in OnceStrips
                  /\ Held(InsertWindow(cols, i, w)) = Held(cols) \cup {w}
  <1> DEFINE column == Column(<<Alone(w)>>)
  <1>1. column \in OnceColumns /\ ColF[column] = {w}
    BY OnceMade
  <1>2. HasWindow(cols, w) <=> w \in Held(cols)
    BY HeldIs DEF OnceStrips, OnceColumns
  <1>3. AppendWindow(cols, w) = IF HasWindow(cols, w) THEN cols ELSE Append(cols, column)
    BY DEF AppendWindow
  <1>4. \A i : InsertWindow(cols, i, w) = InsertColumn(cols, i, column)
    BY DEF InsertWindow
  <1> HIDE DEF column
  <1> QED
    BY <1>1, <1>2, <1>3, <1>4, AppendOnce, InsertColumnOnce

\* A group of tabs that comes to a strip, from that strip or another.
LEMMA AppendTabGroupOnce ==
    ASSUME NEW cols \in OnceStrips, NEW entities \in Seq(Windows)
    PROVE  /\ AppendTabGroup(cols, entities) \in OnceStrips
           /\ Held(AppendTabGroup(cols, entities)) = Held(cols) \cup ToSet(entities)
  <1>1. ASSUME NEW i \in Nat \ {0}
        PROVE  /\ InsertTabGroup(cols, i, entities) \in OnceStrips
               /\ Held(InsertTabGroup(cols, i, entities)) = Held(cols) \cup ToSet(entities)
    <2> DEFINE group == Deduped(entities)
               rest  == RemoveAll(cols, group)
               new   == IF Len(group) = 1 THEN Alone(group[1]) ELSE Grouped(group)
    <2>1. group \in Seq(Windows) /\ IsInjective(group) /\ ToSet(group) = ToSet(entities)
      BY DedupedOnce
    <2>2. InsertTabGroup(cols, i, entities) =
              IF group = <<>> THEN cols ELSE InsertColumn(rest, i, Column(<<new>>))
      BY DEF InsertTabGroup
    <2> HIDE DEF group
    <2>3. rest \in OnceStrips /\ Held(rest) = Held(cols) \ ToSet(group)
      BY <2>1, RemoveAllOnce
    <2>4. CASE group = <<>>
      <3>1. ToSet(group) = {}
        BY <2>4 DEF ToSet
      <3> QED
        BY <2>1, <2>2, <2>4, <3>1
    <2>5. CASE group # <<>>
      <3>1. group[1] \in Windows
        BY <2>1, <2>5
      <3>2. Len(group) = 1 => ToSet(group) = {group[1]}
        BY <2>1 DEF ToSet
      <3>3. new \in OnceItems /\ ItemF[new] = ToSet(group)
        BY <2>1, <2>5, <3>1, <3>2, OnceMade
      <3> HIDE DEF new, rest
      <3>4. Column(<<new>>) \in OnceColumns /\ ColF[Column(<<new>>)] = ToSet(group)
        BY <3>3, OnceMade
      <3>5. /\ InsertColumn(rest, i, Column(<<new>>)) \in OnceStrips
            /\ Held(InsertColumn(rest, i, Column(<<new>>))) = Held(rest) \cup ToSet(group)
        BY <2>3, <3>4, InsertColumnOnce
      <3> QED
        BY <2>1, <2>2, <2>3, <2>5, <3>5
    <2> QED
      BY <2>4, <2>5
  <1> DEFINE at == {IndexOf(cols, w) : w \in ToSet(entities)} \ {0}
  <1>2. at \in SUBSET Nat /\ 0 \notin at
    BY PlacesFound DEF OnceStrips, OnceColumns
  <1>3. AppendTabGroup(cols, entities) =
            InsertTabGroup(cols, IF at = {} THEN Len(cols) + 1 ELSE Min(at), entities)
    BY DEF AppendTabGroup
  <1> HIDE DEF at
  <1>4. (IF at = {} THEN Len(cols) + 1 ELSE Min(at)) \in Nat \ {0}
    <2>1. at # {} => Min(at) \in at
      BY <1>2, MinIn
    <2>2. Len(cols) + 1 \in Nat \ {0}
      BY DEF OnceStrips
    <2> QED
      BY <1>2, <2>1, <2>2
  <1> QED
    BY <1>1, <1>3, <1>4

\* Two columns trade places.
LEMMA ExchangeOnce ==
    ASSUME NEW cols \in OnceStrips, NEW i \in DOMAIN cols, NEW j \in DOMAIN cols
    PROVE  Exchange(cols, i, j) \in OnceStrips /\ Held(Exchange(cols, i, j)) = Held(cols)
  <1> DEFINE t == Exchange(cols, i, j)
             other(k) == IF k = i THEN j ELSE IF k = j THEN i ELSE k
  <1>1. cols \in Seq(OnceColumns) /\ Apart(cols, ColF)
    BY DEF OnceStrips
  <1>2. /\ t \in Seq(OnceColumns) /\ DOMAIN t = DOMAIN cols
        /\ \A k \in DOMAIN cols : t[k] = cols[other(k)]
    BY <1>1 DEF Exchange
  <1>3. /\ \A k \in DOMAIN cols : other(k) \in DOMAIN cols /\ other(other(k)) = k
    OBVIOUS
  <1> HIDE DEF t, other
  <1>4. Apart(t, ColF)
    <2> SUFFICES ASSUME NEW k \in DOMAIN t, NEW l \in DOMAIN t, ColF[t[k]] \cap ColF[t[l]] # {}
                 PROVE  k = l
      BY DEF Apart
    <2>1. other(k) = other(l)
      BY <1>1, <1>2, <1>3 DEF Apart
    <2> QED
      BY <1>2, <1>3, <2>1
  <1>5. Covered(t, ColF) = Covered(cols, ColF)
    <2>1. ASSUME NEW x \in Covered(t, ColF) PROVE x \in Covered(cols, ColF)
      BY <1>2, <1>3 DEF Covered
    <2>2. ASSUME NEW x \in Covered(cols, ColF) PROVE x \in Covered(t, ColF)
      <3>1. PICK k \in DOMAIN cols : x \in ColF[cols[k]]
        BY <2>2 DEF Covered
      <3>2. other(k) \in DOMAIN t /\ t[other(k)] = cols[k]
        BY <1>2, <1>3
      <3> QED
        BY <3>1, <3>2 DEF Covered
    <2> QED
      BY <2>1, <2>2
  <1> QED
    BY <1>2, <1>4, <1>5 DEF OnceStrips, Held, t

\* A column joins the one to its left.
LEMMA StackWindowOnce ==
    ASSUME NEW cols \in OnceStrips, NEW w
    PROVE  StackWindow(cols, w) \in OnceStrips /\ Held(StackWindow(cols, w)) = Held(cols)
  <1> DEFINE i == IndexOf(cols, w)
  <1>0. cols \in Seq(OnceColumns) /\ cols \in Seq(ColumnRecs) /\ Apart(cols, ColF)
    BY DEF OnceStrips, OnceColumns
  <1>1. i \in Nat /\ (i # 0 => i \in DOMAIN cols)
    BY <1>0, PlacesFound
  <1>2. StackWindow(cols, w) =
            CASE i \in {0, 1} -> cols
              [] i > 1 /\ cols[i].full -> RemoveAt(cols, i)
              [] i > 1 /\ ~cols[i].full /\ cols[i - 1].full -> Splice(cols, i - 1, i, <<>>)
              [] OTHER -> Splice(cols, i - 1, i, <<Column(cols[i - 1].items \o cols[i].items)>>)
    BY DEF StackWindow
  <1> HIDE DEF i
  <1>3. CASE i \in {0, 1}
    BY <1>2, <1>3
  <1>4. CASE ~(i \in {0, 1})
    <2> DEFINE upper == cols[i - 1].items
               lower == cols[i].items
               items == upper \o lower
               new == <<Column(items)>>
    <2>1. /\ i \in DOMAIN cols /\ i - 1 \in DOMAIN cols /\ i > 1
          /\ i - 1 \in Nat \ {0} /\ i \in Nat /\ i - 1 <= i + 1 /\ i <= Len(cols)
      BY <1>0, <1>1, <1>4
    <2>2. cols[i] \in OnceColumns /\ cols[i - 1] \in OnceColumns
      BY <1>0, <2>1
    <2>3. ~cols[i].full /\ ~cols[i - 1].full
      BY <2>2 DEF OnceColumns
    <2>4. /\ upper \in Seq(OnceItems) /\ upper # <<>> /\ Apart(upper, ItemF)
          /\ lower \in Seq(OnceItems) /\ lower # <<>> /\ Apart(lower, ItemF)
          /\ ColF[cols[i - 1]] = Covered(upper, ItemF) /\ ColF[cols[i]] = Covered(lower, ItemF)
      BY <2>2, ColumnIs DEF OnceColumns, ColumnRecs
    <2>5. ColF[cols[i - 1]] \cap ColF[cols[i]] = {}
      <3>1. i - 1 # i
        BY <2>1
      <3> QED
        BY <3>1, <2>1, <1>0 DEF Apart
    <2>6. StackWindow(cols, w) = Splice(cols, i - 1, i, new)
      BY <1>2, <1>4, <2>1, <2>3
    <2> HIDE DEF upper, lower
    <2>7. /\ items \in Seq(OnceItems) \ {<<>>}
          /\ Apart(items, ItemF)
          /\ Covered(items, ItemF) = Covered(upper, ItemF) \cup Covered(lower, ItemF)
      <3>1. items \in Seq(OnceItems) /\ Len(items) = Len(upper) + Len(lower)
        BY <2>4
      <3>2. Len(upper) \in Nat \ {0} /\ Len(lower) \in Nat
        BY <2>4
      <3>3. items # <<>>
        BY <3>1, <3>2
      <3> QED
        BY <2>4, <2>5, <3>1, <3>3, ApartConcat
    <2> HIDE DEF items
    <2>8. /\ Column(items) \in OnceColumns
          /\ ColF[Column(items)] = ColF[cols[i - 1]] \cup ColF[cols[i]]
      BY <2>4, <2>7, OnceMade
    <2>9. new \in OnceStrips /\ Held(new) = ColF[cols[i - 1]] \cup ColF[cols[i]]
      BY <2>8, OneColumn
    <2> HIDE DEF new
    <2>10. Held(SubSeq(cols, i - 1, i)) = ColF[cols[i - 1]] \cup ColF[cols[i]]
      <3> DEFINE two == SubSeq(cols, i - 1, i)
      <3>1. DOMAIN two = {1, 2} /\ two[1] = cols[i - 1] /\ two[2] = cols[i]
        <4>1. Len(two) = 2 /\ two \in Seq(OnceColumns)
          BY <1>0, <2>1
        <4>2. two[1] = cols[i - 1] /\ two[2] = cols[i]
          BY <1>0, <2>1
        <4>3. DOMAIN two = {1, 2}
          <5> HIDE DEF two
          <5>1. DOMAIN two = 1..2
            BY <4>1
          <5>2. 1..2 = {1, 2}
            OBVIOUS
          <5> QED
            BY <5>1, <5>2
        <4> QED
          BY <4>2, <4>3
      <3> HIDE DEF two
      <3>2. Held(two) = ColF[two[1]] \cup ColF[two[2]]
        BY <3>1 DEF Held, Covered
      <3>3. Held(two) = ColF[cols[i - 1]] \cup ColF[cols[i]]
        BY <3>1, <3>2
      <3> QED
        BY <3>3 DEF two
    <2>11. ColF[cols[i - 1]] \cup ColF[cols[i]] \subseteq Held(cols)
      BY <2>1 DEF Held, Covered
    <2>12. /\ Splice(cols, i - 1, i, new) \in OnceStrips
           /\ Held(Splice(cols, i - 1, i, new)) =
                  (Held(cols) \ Held(SubSeq(cols, i - 1, i))) \cup Held(new)
      BY <2>1, <2>9, <2>10, SpliceOnce
    <2> QED
      BY <2>6, <2>9, <2>10, <2>11, <2>12
  <1> QED
    BY <1>3, <1>4

\* An item of a stack gets a column of its own.
LEMMA UnstackWindowOnce ==
    ASSUME NEW cols \in OnceStrips, NEW w
    PROVE  UnstackWindow(cols, w) \in OnceStrips /\ Held(UnstackWindow(cols, w)) = Held(cols)
  <1> DEFINE i == IndexOf(cols, w)
             k == PositionOf(cols[i], w)
             items == cols[i].items
  <1>0. cols \in Seq(OnceColumns) /\ cols \in Seq(ColumnRecs) /\ Apart(cols, ColF)
    BY DEF OnceStrips, OnceColumns
  <1>1. CASE i = 0 \/ ~IsStack(cols[i])
    BY <1>1 DEF UnstackWindow
  <1>2. CASE i # 0 /\ IsStack(cols[i])
    <2>1. i \in DOMAIN cols /\ InColumn(cols[i], w)
      BY <1>0, <1>2, PlacesFound
    <2>2. cols[i] \in OnceColumns /\ cols[i] \in ColumnRecs
      BY <1>0, <2>1
    <2>3. k \in DOMAIN items
      BY <1>0, <2>1, <2>2, PlacesFound
    <2>4. /\ items \in Seq(OnceItems) /\ Len(items) > 1 /\ Apart(items, ItemF)
          /\ ColF[cols[i]] = Covered(items, ItemF)
      BY <1>2, <2>2, ColumnIs DEF OnceColumns, IsStack
    <2>5. UnstackWindow(cols, w) =
              Splice(cols, i, i, <<Column(RemoveAt(items, k)), Column(<<items[k]>>)>>)
      BY <1>2 DEF UnstackWindow
    <2> HIDE DEF i, k, items
    <2> DEFINE rest == RemoveAt(items, k)
               left == Column(rest)
               right == Column(<<items[k]>>)
               new == <<left, right>>
    <2>6. /\ rest \in Seq(OnceItems) \ {<<>>} /\ Apart(rest, ItemF)
          /\ Covered(rest, ItemF) = Covered(items, ItemF) \ ItemF[items[k]]
      <3>1. rest \in Seq(OnceItems) /\ Len(rest) = Len(items) - 1
        BY <2>3, <2>4, RemoveAtIn
      <3>2. Len(items) \in Nat
        BY <2>4
      <3>3. rest # <<>>
        BY <2>4, <3>1, <3>2
      <3> QED
        BY <2>3, <2>4, <3>1, <3>3, RemovedApart
    <2>7. items[k] \in OnceItems /\ ItemF[items[k]] \subseteq Covered(items, ItemF)
      BY <2>3, <2>4 DEF Covered
    <2> HIDE DEF rest
    <2>8. /\ left \in OnceColumns /\ ColF[left] = Covered(items, ItemF) \ ItemF[items[k]]
          /\ right \in OnceColumns /\ ColF[right] = ItemF[items[k]]
      BY <2>6, <2>7, OnceMade
    <2> HIDE DEF left, right
    <2>9. new \in OnceStrips /\ Held(new) = ColF[cols[i]]
      <3>1. new \in Seq(OnceColumns)
        BY <2>8
      <3>2. ColF[left] \cap ColF[right] = {}
        BY <2>8
      <3>3. Apart(new, ColF) /\ Covered(new, ColF) = ColF[left] \cup ColF[right]
        BY <3>2, FewApart
      <3>4. ColF[left] \cup ColF[right] = ColF[cols[i]]
        BY <2>4, <2>7, <2>8
      <3> QED
        BY <3>1, <3>3, <3>4 DEF OnceStrips, Held
    <2> HIDE DEF new
    <2>10. i \in Nat \ {0} /\ i \in Nat /\ i <= i + 1 /\ i <= Len(cols)
      BY <1>0, <2>1
    <2>11. Held(SubSeq(cols, i, i)) = ColF[cols[i]] /\ ColF[cols[i]] \subseteq Held(cols)
      BY <1>0, <2>1, PartsOfOne DEF Held, Covered
    <2>12. /\ Splice(cols, i, i, new) \in OnceStrips
           /\ Held(Splice(cols, i, i, new)) = (Held(cols) \ Held(SubSeq(cols, i, i))) \cup Held(new)
      BY <2>9, <2>10, <2>11, SpliceOnce
    <2> QED
      BY <2>5, <2>9, <2>11, <2>12 DEF new, left, right, rest
  <1> QED
    BY <1>1, <1>2

------------------------------------------------------------------------------
(* Rows with each window once *)

\* Rows of which no two share a window, and the windows of all of them.
Tidy(rows) == /\ rows \in [Rows -> OnceStrips]
              /\ \A r, q \in Rows : Held(rows[r]) \cap Held(rows[q]) # {} => r = q
Somewhere(rows) == UNION {Held(rows[r]) : r \in Rows}

\* Rows that lose the same windows, or none, stay tidy.
LEMMA RowsLose ==
    ASSUME NEW old, Tidy(old), NEW new \in [Rows -> OnceStrips], NEW G,
           \A r \in Rows : Held(new[r]) = Held(old[r]) \ G
    PROVE  Tidy(new) /\ Somewhere(new) = Somewhere(old) \ G
  <1> HIDE DEF Held
  <1>1. \A r, q \in Rows : Held(new[r]) \cap Held(new[q]) # {} => r = q
    BY Zenon DEF Tidy
  <1>2. Somewhere(new) = Somewhere(old) \ G
    BY DEF Somewhere
  <1> QED
    BY <1>1, <1>2 DEF Tidy

\* Rows of which one gets windows that all the others lose stay tidy.
LEMMA RowGains ==
    ASSUME NEW old, Tidy(old), NEW new \in [Rows -> OnceStrips], NEW G, NEW x \in Rows,
           Held(new[x]) = Held(old[x]) \cup G,
           \A r \in Rows \ {x} : Held(new[r]) = Held(old[r]) \ G
    PROVE  Tidy(new) /\ Somewhere(new) = Somewhere(old) \cup G
  <1>1. ASSUME NEW r \in Rows, NEW q \in Rows, Held(new[r]) \cap Held(new[q]) # {} PROVE r = q
    <2>1. PICK w : w \in Held(new[r]) /\ w \in Held(new[q])
      BY <1>1
    <2>2. CASE w \in G
      BY <2>1, <2>2
    <2>3. CASE w \notin G
      <3>1. w \in Held(old[r]) /\ w \in Held(old[q])
        BY <2>1, <2>3
      <3> QED
        BY <3>1 DEF Tidy
    <2> QED
      BY <2>2, <2>3
  <1>2. ASSUME NEW w PROVE w \in Somewhere(new) <=> w \in Somewhere(old) \/ w \in G
    <2>1. ASSUME w \in Somewhere(new) PROVE w \in Somewhere(old) \/ w \in G
      <3>1. PICK r \in Rows : w \in Held(new[r])
        BY <2>1 DEF Somewhere
      <3>2. w \in Held(old[r]) \/ w \in G
        BY <3>1
      <3> QED
        BY <3>2 DEF Somewhere
    <2>2. ASSUME w \in Somewhere(old) \/ w \in G PROVE w \in Somewhere(new)
      <3>1. CASE w \in G
        BY <3>1 DEF Somewhere
      <3>2. CASE w \notin G
        <4>1. PICK r \in Rows : w \in Held(old[r])
          BY <2>2, <3>2 DEF Somewhere
        <4>2. w \in Held(new[r])
          BY <3>2, <4>1
        <4> QED
          BY <4>2 DEF Somewhere
      <3> QED
        BY <3>1, <3>2
    <2> QED
      BY <2>1, <2>2
  <1>3. Somewhere(new) = Somewhere(old) \cup G
    BY <1>2
  <1> QED
    BY <1>1, <1>3 DEF Tidy

\* What it says of the rows in the terms of the model.
LEMMA TidyIs ==
    ASSUME NEW rows, Tidy(rows), NEW w
    PROVE  /\ \A r \in Rows : HasWindow(rows[r], w) <=> w \in Held(rows[r])
           /\ w \in Somewhere(rows) <=> \E r \in Rows : HasWindow(rows[r], w)
           /\ Somewhere(rows) \subseteq Windows
  <1>1. ASSUME NEW r \in Rows PROVE rows[r] \in Seq(ColumnRecs)
    <2>1. rows[r] \in OnceStrips
      BY DEF Tidy
    <2> QED
      BY <2>1 DEF OnceStrips, OnceColumns
  <1>2. \A r \in Rows : /\ HasWindow(rows[r], w) <=> w \in Held(rows[r])
                        /\ Held(rows[r]) \subseteq Windows
    BY <1>1, HeldIs
  <1> QED
    BY <1>2 DEF Somewhere

\* A window leaves all rows, and no other does.
LEMMA NowhereOnce ==
    ASSUME Tidy(strips), NEW w
    PROVE  Tidy(Nowhere(w)) /\ Somewhere(Nowhere(w)) = Somewhere(strips) \ {w}
  <1> DEFINE new == Nowhere(w)
  <1>1. \A r \in Rows : strips[r] \in OnceStrips
    BY DEF Tidy
  <1>2. \A r \in Rows : /\ RemoveWindow(strips[r], w) \in OnceStrips
                        /\ Held(RemoveWindow(strips[r], w)) = Held(strips[r]) \ {w}
    BY <1>1, RemoveWindowOnce
  <1>3. new \in [Rows -> OnceStrips] /\ \A r \in Rows : Held(new[r]) = Held(strips[r]) \ {w}
    BY <1>2 DEF Nowhere
  <1> DEFINE gone == {w}
  <1>4. \A r \in Rows : Held(new[r]) = Held(strips[r]) \ gone
    BY <1>3
  <1> HIDE DEF new, gone
  <1>5. Tidy(new) /\ Somewhere(new) = Somewhere(strips) \ gone
    BY <1>3, <1>4, RowsLose
  <1> QED
    BY <1>5 DEF new, gone

\* A window that is managed again is in one row, the others are as before.
LEMMA ManageOnce ==
    ASSUME LayoutOK, Tidy(strips), NEW w \in Windows, Manage(w)
    PROVE  Tidy(strips') /\ Somewhere(strips') = Somewhere(strips) \cup {w}
  <1> DEFINE old == Nowhere(w)
  <1>1. PICK place \in BackTo(w) : strips' = [old EXCEPT ![place.row] = InsertWindow(@, place.at, w)]
    BY DEF Manage
  <1>2. place.row \in Rows /\ place.at \in Nat \ {0}
    <2>1. CASE previous[w] # {}
      <3>1. place \in previous[w] /\ previous[w] \in SUBSET [row : Rows, at : Nat \ {0}]
        BY <2>1 DEF BackTo, LayoutOK
      <3> QED
        BY <3>1
    <2>2. CASE previous[w] = {}
      <3>1. place \in {[row |-> active, at |-> i] : i \in 1 .. Len(Nowhere(w)[active]) + 1}
        BY <2>2 DEF BackTo
      <3>2. active \in Rows /\ Nowhere(w) \in [Rows -> Seq(ColumnRecs)]
        BY NowhereIn DEF LayoutOK
      <3>3. Len(Nowhere(w)[active]) \in Nat
        BY <3>2
      <3> QED
        BY <3>1, <3>2, <3>3
    <2> QED
      BY <2>1, <2>2
  <1>3. Tidy(old) /\ Somewhere(old) = Somewhere(strips) \ {w}
    BY NowhereOnce
  <1> HIDE DEF old
  <1>4. old \in [Rows -> OnceStrips] /\ \A r \in Rows : w \notin Held(old[r])
    BY <1>3 DEF Tidy, Somewhere
  <1>5. /\ InsertWindow(old[place.row], place.at, w) \in OnceStrips
        /\ Held(InsertWindow(old[place.row], place.at, w)) = Held(old[place.row]) \cup {w}
    BY <1>2, <1>4, WindowOnce
  <1>6. /\ strips' \in [Rows -> OnceStrips]
        /\ Held(strips'[place.row]) = Held(old[place.row]) \cup {w}
        /\ \A r \in Rows \ {place.row} : strips'[r] = old[r]
    BY <1>1, <1>2, <1>4, <1>5
  <1> DEFINE back == {w}
  <1>7. /\ Held(strips'[place.row]) = Held(old[place.row]) \cup back
        /\ \A r \in Rows \ {place.row} : Held(strips'[r]) = Held(old[r]) \ back
    BY <1>4, <1>6
  <1> HIDE DEF back
  <1>8. Tidy(strips') /\ Somewhere(strips') = Somewhere(old) \cup back
    BY <1>2, <1>3, <1>6, <1>7, RowGains
  <1> QED
    BY <1>3, <1>8 DEF back

------------------------------------------------------------------------------
(* What the replay and the moves do to the rows *)

\* The rows of a world that the strips of this state lead to: tidy, and no
\* window of them is lost.
Keeping(rows) == Tidy(rows) /\ Somewhere(strips) \subseteq Somewhere(rows)
KeptWorlds == {l \in Worlds : Keeping(l.strips)}

\* An edit of one row that holds the same windows afterwards.
LEMMA EditedOnce ==
    ASSUME NEW l \in KeptWorlds, NEW new \in [Rows -> OnceStrips],
           [l EXCEPT !.strips = new] \in Worlds,
           \A r \in Rows : Held(new[r]) = Held(l.strips[r])
    PROVE  [l EXCEPT !.strips = new] \in KeptWorlds
  <1> DEFINE none == {}
             old == l.strips
             m == [l EXCEPT !.strips = new]
  <1>1. l \in Worlds /\ Tidy(old) /\ Somewhere(strips) \subseteq Somewhere(old)
    BY DEF KeptWorlds, Keeping
  <1>2. \A r \in Rows : Held(new[r]) = Held(old[r]) \ none
    OBVIOUS
  <1>3. m.strips = new
    BY <1>1 DEF Worlds
  <1>4. Somewhere(old) \ none = Somewhere(old)
    OBVIOUS
  <1> HIDE DEF none, old
  <1>5. Tidy(new) /\ Somewhere(new) = Somewhere(old) \ none
    BY <1>1, <1>2, RowsLose
  <1>6. Keeping(new)
    BY <1>1, <1>4, <1>5 DEF Keeping
  <1> QED
    BY <1>3, <1>6 DEF KeptWorlds

\* Swap, Stack and Unstack keep the windows of each row.
LEMMA SwapOnce ==
    ASSUME NEW l \in KeptWorlds, NEW v, NEW w
    PROVE  Swap(l, v, w) \in KeptWorlds
  <1> DEFINE edit(cols) == Exchange(cols, IndexOf(cols, v), IndexOf(cols, w))
             R == Together(l, v, w)
             new == [r \in Rows |-> IF r \in R THEN edit(l.strips[r]) ELSE l.strips[r]]
  <1>1. l \in Worlds /\ Tidy(l.strips)
    BY DEF KeptWorlds, Keeping
  <1>2. Swap(l, v, w) = [l EXCEPT !.strips = new]
    BY <1>1, Zenon DEF Swap, Edited
  <1>0. Swap(l, v, w) \in Worlds
    BY <1>1, SwapIn
  <1>3. ASSUME NEW r \in Rows
        PROVE  new[r] \in OnceStrips /\ Held(new[r]) = Held(l.strips[r])
    <2>1. l.strips[r] \in OnceStrips
      BY <1>1 DEF Tidy
    <2>2. CASE r \in R
      <3> DEFINE cols == l.strips[r]
      <3>1. HasWindow(cols, v) /\ HasWindow(cols, w) /\ cols \in Seq(ColumnRecs)
        BY <2>1, <2>2 DEF Together, OnceStrips, OnceColumns
      <3> HIDE DEF cols
      <3>2. IndexOf(cols, v) \in DOMAIN cols /\ IndexOf(cols, w) \in DOMAIN cols
        BY <3>1, PlacesFound DEF HasWindow
      <3>3. edit(cols) \in OnceStrips /\ Held(edit(cols)) = Held(cols)
        BY <2>1, <3>2, ExchangeOnce DEF cols
      <3> QED
        BY <2>2, <3>3 DEF cols
    <2> QED
      BY <2>1, <2>2
  <1>4. new \in [Rows -> OnceStrips]
    BY <1>3
  <1> HIDE DEF new
  <1> QED
    BY <1>0, <1>2, <1>3, <1>4, EditedOnce

LEMMA StackOnce ==
    ASSUME NEW l \in KeptWorlds, NEW w, NEW onto
    PROVE  Stack(l, w, onto) \in KeptWorlds
  <1> DEFINE R == Together(l, w, onto)
             new == [r \in Rows |-> IF r \in R THEN StackWindow(l.strips[r], w) ELSE l.strips[r]]
  <1>1. l \in Worlds /\ \A r \in Rows : l.strips[r] \in OnceStrips
    BY DEF KeptWorlds, Keeping, Tidy
  <1>2. Stack(l, w, onto) = [l EXCEPT !.strips = new]
    BY <1>1, Zenon DEF Stack, Edited
  <1>0. Stack(l, w, onto) \in Worlds
    BY <1>1, StackIn
  <1>3. new \in [Rows -> OnceStrips] /\ \A r \in Rows : Held(new[r]) = Held(l.strips[r])
    BY <1>1, StackWindowOnce
  <1> HIDE DEF new
  <1> QED
    BY <1>0, <1>2, <1>3, EditedOnce

LEMMA UnstackOnce ==
    ASSUME NEW l \in KeptWorlds, NEW w
    PROVE  Unstack(l, w) \in KeptWorlds
  <1> DEFINE R == Together(l, w, w)
             new == [r \in Rows |-> IF r \in R THEN UnstackWindow(l.strips[r], w) ELSE l.strips[r]]
  <1>1. l \in Worlds /\ \A r \in Rows : l.strips[r] \in OnceStrips
    BY DEF KeptWorlds, Keeping, Tidy
  <1>2. Unstack(l, w) = [l EXCEPT !.strips = new]
    BY <1>1, Zenon DEF Unstack, Edited
  <1>0. Unstack(l, w) \in Worlds
    BY <1>1, UnstackIn
  <1>3. new \in [Rows -> OnceStrips] /\ \A r \in Rows : Held(new[r]) = Held(l.strips[r])
    BY <1>1, UnstackWindowOnce
  <1> HIDE DEF new
  <1> QED
    BY <1>0, <1>2, <1>3, EditedOnce

\* A window gets a place of its own in the active row only when no row has it.
LEMMA SetFloatingOnce ==
    ASSUME NEW l \in KeptWorlds, NEW w \in Windows, NEW floating \in BOOLEAN, active \in Rows
    PROVE  SetFloating(l, w, floating) \in KeptWorlds
  <1> DEFINE placed == ~floating /\ Rowless(l, w)
             old == l.strips
             new == [r \in Rows |-> IF r = active /\ placed THEN AppendWindow(old[r], w) ELSE old[r]]
             m == SetFloating(l, w, floating)
             back == {w}
  <1>1. l \in Worlds /\ Tidy(old) /\ Somewhere(strips) \subseteq Somewhere(old)
        /\ \A r \in Rows : old[r] \in OnceStrips
    BY DEF KeptWorlds, Keeping, Tidy
  <1>2. m \in Worlds
    BY <1>1, SetFloatingIn
  <1>3. m.strips = new
    BY <1>1 DEF SetFloating, Worlds
  <1>4. CASE placed
    <2>1. ASSUME NEW r \in Rows PROVE w \notin Held(old[r])
      <3>1. ~HasWindow(old[r], w)
        BY <1>4 DEF Rowless, Together
      <3> QED
        BY <3>1, <1>1, TidyIs
    <2>2. new \in [Rows -> OnceStrips] /\ Held(new[active]) = Held(old[active]) \cup back
      BY <1>1, <1>4, WindowOnce
    <2>3. \A r \in Rows \ {active} : Held(new[r]) = Held(old[r]) \ back
      BY <2>1
    <2> HIDE DEF new, old, back
    <2>4. Tidy(new) /\ Somewhere(new) = Somewhere(old) \cup back
      BY <1>1, <2>2, <2>3, RowGains
    <2> QED
      BY <1>1, <1>2, <1>3, <2>4 DEF KeptWorlds, Keeping
  <1>5. CASE ~placed
    <2>1. new = old
      <3>1. old \in [Rows -> OnceStrips]
        BY <1>1 DEF Tidy
      <3> HIDE DEF old, placed
      <3> QED
        BY <1>5, <3>1
    <2> HIDE DEF new, m
    <2>2. m.strips = l.strips /\ Keeping(l.strips)
      BY <1>3, <2>1 DEF KeptWorlds
    <2> QED
      BY <1>2, <2>2 DEF KeptWorlds, m
  <1> QED
    BY <1>4, <1>5

\* What an operation is for, or it leaves the rows alone.
LEMMA ReplayedOnce ==
    ASSUME NEW l \in KeptWorlds, NEW op \in LayoutOp, LayoutOK
    PROVE  Replayed(l, op) \in KeptWorlds
  <1> DEFINE m == Replayed(l, op)
  <1>1. l \in Worlds /\ active \in Rows /\ known \subseteq Windows
    BY DEF KeptWorlds, LayoutOK
  <1>2. m \in Worlds
    BY <1>1, ReplayedIn
  <1>3. ASSUME m.strips = l.strips PROVE m \in KeptWorlds
    BY <1>2, <1>3 DEF KeptWorlds
  <1>4. CASE op \in [op : {"focus", "width", "frame"}, win : Windows]
    <2>1. m \in {l, [l EXCEPT !.asking = @ \cup {op.win}]}
      BY <1>4 DEF Replayed
    <2>2. m.strips = l.strips
      BY <1>1, <2>1 DEF Worlds
    <2> QED
      BY <1>3, <2>2
  <1>5. CASE op \in [op : {"unstack"}, win : Windows]
    <2>1. m \in {l, Unstack(l, op.win)}
      BY <1>5 DEF Replayed
    <2> QED
      BY <2>1, UnstackOnce
  <1>6. CASE op \in [op : {"swap"}, win : Windows, other : Windows]
    <2>1. m \in {l, Swap(l, op.win, op.other)}
      BY <1>6 DEF Replayed
    <2> QED
      BY <2>1, SwapOnce
  <1>7. CASE op \in [op : {"stack"}, win : Windows, onto : Windows, tabs : BOOLEAN]
    <2>1. m \in {l, Stack(l, op.win, op.onto)}
      BY <1>7 DEF Replayed
    <2> QED
      BY <2>1, StackOnce
  <1>8. CASE op \in [op : {"shift"}, win : Windows, number : Nat, follow : BOOLEAN]
    <2>1. m \in {l, MarkFor(l, op.win, op.number, op.follow)}
      BY <1>8 DEF Replayed
    <2>2. m.strips = l.strips
      BY <1>1, <2>1 DEF Worlds, MarkFor
    <2> QED
      BY <1>3, <2>2
  <1>9. CASE op \in [op : {"view"}, number : Nat]
    <2>1. m \in {l, View(l, op.number)}
      BY <1>9 DEF Replayed
    <2>2. m.strips = l.strips
      BY <1>1, <2>1 DEF Worlds, View
    <2> QED
      BY <1>3, <2>2
  <1>10. CASE op \in [op : {"float", "manage"}, win : Windows, yes : BOOLEAN]
    <2>1. m \in {l, SetFloating(l, op.win, op.yes), SetFloating(l, op.win, ~op.yes)}
      BY <1>10 DEF Replayed
    <2>2. op.win \in Windows /\ op.yes \in BOOLEAN /\ (~op.yes) \in BOOLEAN
      BY <1>10
    <2> QED
      BY <1>1, <2>1, <2>2, SetFloatingOnce
  <1> QED
    BY <1>4, <1>5, <1>6, <1>7, <1>8, <1>9, <1>10 DEF LayoutOp

\* The row a window is marked for gets its tab group, and all others lose it.
KeptMoving == {l \in Moving : Keeping(l.strips)}

LEMMA MoveOnce ==
    ASSUME NEW l \in KeptMoving, NEW m \in Marks, active \in Rows
    PROVE  Move(l, m) \in KeptMoving
  <1> DEFINE target == <<active[1], m.index>>
             group == TabGroup(l.strips[active], m.win)
             old == l.strips
             new == [r \in Rows |-> IF r = target THEN AppendTabGroup(old[r], group)
                                    ELSE RemoveAll(old[r], group)]
             G == ToSet(group)
  <1>1. l \in Moving /\ Tidy(old) /\ Somewhere(strips) \subseteq Somewhere(old)
    BY DEF KeptMoving, Keeping
  <1>2. Move(l, m) \in Moving /\ Move(l, m).strips = new
    BY <1>1, MoveIn DEF Move
  <1>3. target \in Rows
    BY DEF Rows, Marks
  <1>4. group \in Seq(Windows)
    <2>1. m.win \in Windows /\ l.strips[active] \in Seq(ColumnRecs)
      BY <1>1 DEF Marks, Moving
    <2> QED
      BY <2>1, TabGroupIn
  <1> HIDE DEF target, group
  <1>5. \A r \in Rows : old[r] \in OnceStrips
    BY <1>1 DEF Tidy
  <1>6. /\ \A r \in Rows : /\ AppendTabGroup(old[r], group) \in OnceStrips
                           /\ Held(AppendTabGroup(old[r], group)) = Held(old[r]) \cup G
        /\ \A r \in Rows : /\ RemoveAll(old[r], group) \in OnceStrips
                           /\ Held(RemoveAll(old[r], group)) = Held(old[r]) \ G
    BY <1>4, <1>5, AppendTabGroupOnce, RemoveAllOnce
  <1>7. /\ new \in [Rows -> OnceStrips] /\ Held(new[target]) = Held(old[target]) \cup G
        /\ \A r \in Rows \ {target} : Held(new[r]) = Held(old[r]) \ G
    BY <1>3, <1>6
  <1> HIDE DEF new, old, G
  <1>8. Tidy(new) /\ Somewhere(new) = Somewhere(old) \cup G
    BY <1>1, <1>3, <1>7, RowGains
  <1>9. Keeping(new)
    BY <1>1, <1>8 DEF Keeping
  <1> QED
    BY <1>2, <1>9 DEF KeptMoving

------------------------------------------------------------------------------
(* Each window in its row *)

\* TiledOnce of the rows, and that the windows that are managed are in them,
\* whether or not commands of the replay are still to be applied: a command
\* takes a window from its row, or puts it into one, in the step that changes
\* its Unmanaged component.
OnceInv == /\ Tidy(strips)
           /\ \A w \in known : unmanaged[w] = "no" => w \in Somewhere(strips)

\* The replay of all operations there are, and all moves.
LEMMA ReplayKeeps ==
    ASSUME TypeOK, Tidy(strips), Replay
    PROVE  Keeping(strips')
  <1>1. LayoutOK /\ AskedOK
    BY TypeParts
  <1> DEFINE ops == FlattenSeq(batches)
             l == FoldLeft(Replayed, Now, ops)
  <1>2. Now \in KeptWorlds
    <2>1. Now \in Worlds
      BY <1>1 DEF Now, Worlds, LayoutOK, AskedOK
    <2>2. Now.strips = strips
      BY DEF Now
    <2> QED
      BY <2>1, <2>2 DEF KeptWorlds, Keeping
  <1>3. ops \in Seq(LayoutOp)
    BY <1>1, FlattenHolds DEF AskedOK
  <1> HIDE DEF ops
  <1>4. \A m \in KeptWorlds, op \in LayoutOp : Replayed(m, op) \in KeptWorlds
    BY <1>1, ReplayedOnce
  <1>5. l \in KeptWorlds
    BY <1>2, <1>3, <1>4, ReplayStays
  <1>6. strips' = l.strips
    BY DEF Replay, ops
  <1> HIDE DEF l
  <1> QED
    BY <1>5, <1>6 DEF KeptWorlds

LEMMA MovesKeep ==
    ASSUME TypeOK, Tidy(strips), Moves
    PROVE  Keeping(strips')
  <1>1. LayoutOK /\ AskedOK
    BY TypeParts
  <1> DEFINE start == [strips |-> strips, asking |-> asking, active |-> active]
  <1>2. PICK order \in SetToSeqs(marks) : strips' = FoldLeft(Move, start, order).strips
    BY DEF Moves
  <1>3. order \in Seq(Marks)
    <2>1. Cardinality(marks) \in Nat /\ marks \subseteq Marks
      BY <1>1, FS_CardinalityType DEF AskedOK
    <2>2. order \in [1 .. Cardinality(marks) -> marks]
      BY <1>2 DEF SetToSeqs
    <2> QED
      BY <2>1, <2>2
  <1>4. start \in KeptMoving
    BY <1>1 DEF KeptMoving, Keeping, Moving, LayoutOK, AskedOK
  <1> DEFINE l == FoldLeft(Move, start, order)
  <1> HIDE DEF start
  <1>5. \A m \in KeptMoving, mark \in Marks : Move(m, mark) \in KeptMoving
    BY <1>1, MoveOnce DEF LayoutOK
  <1>6. l \in KeptMoving
    BY <1>3, <1>4, <1>5, MovesStay
  <1>7. strips' = l.strips
    BY <1>2
  <1> HIDE DEF l
  <1> QED
    BY <1>6, <1>7 DEF KeptMoving

\* Every step keeps OnceInv.
LEMMA StepOnce ==
    ASSUME TypeOK, OnceInv, [Next]_vars
    PROVE  OnceInv'
  <1>1. LayoutOK /\ Tidy(strips) /\ \A w \in known : unmanaged[w] = "no" => w \in Somewhere(strips)
    BY TypeParts DEF OnceInv
  <1>2. unmanaged \in [Windows -> {"no", Floating, Minimized}] /\ known \subseteq Windows
    BY <1>1 DEF LayoutOK
  <1>3. CASE UNCHANGED <<strips, known, unmanaged>>
    BY <1>1, <1>3 DEF OnceInv, Tidy, Somewhere
  \* What keeps the windows, and changes no component.
  <1>4. ASSUME Keeping(strips'), UNCHANGED <<known, unmanaged>> PROVE OnceInv'
    <2>1. Tidy(strips') /\ Somewhere(strips) \subseteq Somewhere(strips')
      BY <1>4 DEF Keeping
    <2> QED
      BY <1>1, <1>4, <2>1 DEF OnceInv
  \* What takes a window from its row, and leaves it unmanaged or unknown.
  <1>5. ASSUME NEW w \in Windows, strips' = Nowhere(w), known' \subseteq known,
               w \in known' => unmanaged'[w] # "no",
               \A v \in Windows \ {w} : unmanaged'[v] = unmanaged[v]
        PROVE  OnceInv'
    <2>1. Tidy(strips') /\ Somewhere(strips') = Somewhere(strips) \ {w}
      BY <1>1, <1>5, NowhereOnce
    <2>2. ASSUME NEW v \in known', unmanaged'[v] = "no" PROVE v \in Somewhere(strips')
      <3>1. v # w /\ v \in known /\ v \in Windows
        BY <1>2, <1>5, <2>2
      <3>2. v \in Somewhere(strips)
        BY <1>1, <1>5, <2>2, <3>1
      <3> QED
        BY <2>1, <3>1, <3>2
    <2> QED
      BY <2>1, <2>2 DEF OnceInv
  <1>6. ASSUME NEW w \in Windows, Manage(w), UNCHANGED known PROVE OnceInv'
    <2>1. Tidy(strips') /\ Somewhere(strips') = Somewhere(strips) \cup {w}
      BY <1>1, <1>6, ManageOnce
    <2>2. unmanaged' = [unmanaged EXCEPT ![w] = "no"]
      BY <1>6 DEF Manage
    <2>3. ASSUME NEW v \in known', unmanaged'[v] = "no" PROVE v \in Somewhere(strips')
      <3>1. CASE v = w
        BY <2>1, <3>1
      <3>2. CASE v # w
        BY <1>1, <1>2, <1>6, <2>1, <2>2, <2>3, <3>2
      <3> QED
        BY <3>1, <3>2
    <2> QED
      BY <2>1, <2>3 DEF OnceInv
  \* What marks a window, and takes it from its row unless it was marked before.
  <1>7. ASSUME NEW w \in Windows, NEW mark \in {Floating, Minimized}, UNCHANGED known,
               unmanaged' = [unmanaged EXCEPT ![w] = mark],
               strips' = IF unmanaged[w] = "no" THEN Nowhere(w) ELSE strips
        PROVE  OnceInv'
    <2>1. unmanaged'[w] # "no" /\ \A v \in Windows \ {w} : unmanaged'[v] = unmanaged[v]
      BY <1>2, <1>7 DEF Floating, Minimized
    <2>2. CASE unmanaged[w] = "no"
      BY <1>5, <1>7, <2>1, <2>2
    <2>3. CASE unmanaged[w] # "no"
      <3>1. strips' = strips
        BY <1>7, <2>3
      <3>2. \A v \in known' : unmanaged'[v] = "no" => v \in known /\ unmanaged[v] = "no"
        BY <1>2, <1>7, <2>1
      <3>3. \A v \in known' : unmanaged'[v] = "no" => v \in Somewhere(strips)
        BY <1>1, <3>2
      <3> QED
        BY <1>1, <3>1, <3>3 DEF OnceInv, Tidy, Somewhere
    <2> QED
      BY <2>2, <2>3
  <1>8. CASE Replay
    <2>1. UNCHANGED <<known, unmanaged>>
      BY <1>8 DEF Replay
    <2> QED
      BY <1>1, <1>4, <1>8, <2>1, ReplayKeeps
  <1>9. CASE Moves
    <2>1. UNCHANGED <<known, unmanaged>>
      BY <1>9 DEF Moves
    <2> QED
      BY <1>1, <1>4, <1>9, <2>1, MovesKeep
  <1>10. CASE Flush
    <2> DEFINE w == Head(cmds).win
    <2>1. w \in Windows
      <3>1. cmds \in Seq(Commands) /\ cmds # <<>>
        BY <1>10, TypeParts DEF AskedOK, Flush
      <3>2. Head(cmds) \in Commands
        BY <3>1
      <3> QED
        BY <3>2 DEF Commands
    <2>2. UNCHANGED known /\ (Float(w) \/ Manage(w) \/ UNCHANGED <<strips, unmanaged, previous>>)
      BY <1>10 DEF Flush
    <2> HIDE DEF w
    <2>3. CASE Float(w)
      BY <1>7, <2>1, <2>2, <2>3 DEF Float
    <2>4. CASE Manage(w)
      BY <1>6, <2>1, <2>2, <2>4
    <2> QED
      BY <1>3, <2>2, <2>3, <2>4
  <1>11. CASE Close
    <2>1. PICK w \in known : /\ known' = known \ {w} /\ strips' = Nowhere(w)
                             /\ unmanaged' = [unmanaged EXCEPT ![w] = "no"]
      BY <1>11 DEF Close
    <2> QED
      BY <1>2, <1>5, <2>1
  <1>12. CASE Minimize
    <2>1. PICK w \in known : /\ unmanaged' = [unmanaged EXCEPT ![w] = Minimized]
                             /\ strips' = IF unmanaged[w] = "no" THEN Nowhere(w) ELSE strips
      BY <1>12 DEF Minimize
    <2>2. UNCHANGED known
      BY <1>12 DEF Minimize
    <2> QED
      BY <1>2, <1>7, <2>1, <2>2
  <1>13. CASE Deminimize
    <2>1. UNCHANGED known /\ \E w \in known : Manage(w)
      BY <1>13 DEF Deminimize
    <2> QED
      BY <1>2, <1>6, <2>1
  <1>14. CASE Extract \/ Ask \/ Return \/ ShowView \/ FocusArrives \/ SwitchRow \/ UNCHANGED vars
    <2>1. UNCHANGED <<strips, known, unmanaged>>
      BY <1>14 DEF Extract, Ask, Return, ShowView, FocusArrives, SwitchRow, vars, live
    <2> QED
      BY <1>3, <2>1
  <1> QED
    BY <1>8, <1>9, <1>10, <1>11, <1>12, <1>13, <1>14 DEF Next

\* The windows of a strip are listed once each.
LEMMA ListedOnce ==
    ASSUME NEW cols \in OnceStrips
    PROVE  Cardinality({w \in Windows : HasWindow(cols, w)}) = Len(AllWindows(cols))
  <1> DEFINE F == [w \in Windows |-> {w}]
  <1>1. ASSUME NEW column \in OnceColumns
        PROVE  /\ WindowsOf(column) \in Seq(Windows) /\ Apart(WindowsOf(column), F)
               /\ Covered(WindowsOf(column), F) = ColF[column]
    <2> DEFINE items == column.items
               seqs == [k \in DOMAIN items |-> items[k].ws]
    <2>1. column \in ColumnRecs /\ items \in Seq(OnceItems) /\ Apart(items, ItemF)
      BY DEF OnceColumns
    <2>2. ColF[column] = Covered(items, ItemF)
      BY <2>1, ColumnIs
    <2>3. WindowsOf(column) = FlattenSeq(seqs)
      BY DEF WindowsOf
    <2> HIDE DEF items
    <2>4. ASSUME NEW k \in DOMAIN items
          PROVE  /\ seqs[k] \in Seq(Windows) /\ Apart(seqs[k], F)
                 /\ Covered(seqs[k], F) = ItemF[items[k]]
      <3>1. items[k] \in OnceItems /\ items[k] \in ItemRecs
        BY <2>1 DEF OnceItems
      <3>2. items[k].ws \in Seq(Windows) /\ IsInjective(items[k].ws)
        BY <3>1 DEF OnceItems, ItemRecs
      <3>3. ItemF[items[k]] = ToSet(items[k].ws)
        BY <3>1, ItemIs
      <3> QED
        BY <3>2, <3>3, SelfApart
    <2>5. DOMAIN seqs = DOMAIN items /\ DOMAIN items = 1 .. Len(items) /\ Len(items) \in Nat
      BY <2>1
    <2> HIDE DEF seqs, F
    <2>6. seqs \in Seq(Seq(Windows))
      <3>1. seqs = [k \in 1 .. Len(items) |-> items[k].ws]
        BY <2>5 DEF seqs
      <3>2. \A k \in 1 .. Len(items) : items[k].ws \in Seq(Windows)
        BY <2>4, <2>5 DEF seqs
      <3> QED
        BY <2>5, <3>1, <3>2
    <2>7. \A i, j \in DOMAIN seqs : Covered(seqs[i], F) \cap Covered(seqs[j], F) # {} => i = j
      BY <2>1, <2>4, <2>5 DEF Apart
    <2>8. /\ Apart(FlattenSeq(seqs), F)
          /\ Covered(FlattenSeq(seqs), F) = UNION {Covered(seqs[i], F) : i \in DOMAIN seqs}
      BY <2>4, <2>5, <2>6, <2>7, FlattenApart
    <2>9. UNION {Covered(seqs[i], F) : i \in DOMAIN seqs} = Covered(items, ItemF)
      BY <2>4, <2>5 DEF Covered
    <2>10. FlattenSeq(seqs) \in Seq(Windows)
      BY <2>6, FlattenHolds
    <2> QED
      BY <2>2, <2>3, <2>8, <2>9, <2>10
  <1> DEFINE seqs == [i \in DOMAIN cols |-> WindowsOf(cols[i])]
             all == AllWindows(cols)
  <1>2. cols \in Seq(OnceColumns) /\ Apart(cols, ColF)
    BY DEF OnceStrips
  <1>3. all = FlattenSeq(seqs)
    BY DEF AllWindows
  <1>4. DOMAIN seqs = DOMAIN cols /\ DOMAIN cols = 1 .. Len(cols) /\ Len(cols) \in Nat
    BY <1>2
  <1>5. \A i \in DOMAIN cols : /\ seqs[i] \in Seq(Windows) /\ Apart(seqs[i], F)
                               /\ Covered(seqs[i], F) = ColF[cols[i]]
    BY <1>1, <1>2
  <1>6. seqs \in Seq(Seq(Windows))
    <2>1. \A i \in 1 .. Len(cols) : WindowsOf(cols[i]) \in Seq(Windows)
      BY <1>4, <1>5
    <2> QED
      BY <1>4, <2>1
  <1> HIDE DEF seqs, F, all
  <1>7. \A i, j \in DOMAIN seqs : Covered(seqs[i], F) \cap Covered(seqs[j], F) # {} => i = j
    BY <1>2, <1>4, <1>5 DEF Apart
  <1>8. /\ Apart(FlattenSeq(seqs), F)
        /\ Covered(FlattenSeq(seqs), F) = UNION {Covered(seqs[i], F) : i \in DOMAIN seqs}
    BY <1>4, <1>5, <1>6, <1>7, FlattenApart
  <1>9. UNION {Covered(seqs[i], F) : i \in DOMAIN seqs} = Held(cols)
    BY <1>4, <1>5 DEF Covered, Held
  <1>10. all \in Seq(Windows) /\ Apart(all, F) /\ Covered(all, F) = Held(cols)
    BY <1>3, <1>6, <1>8, <1>9, FlattenHolds
  <1>11. IsInjective(all) /\ ToSet(all) = Held(cols)
    BY <1>10, SelfApart DEF F
  <1>12. {w \in Windows : HasWindow(cols, w)} = Held(cols)
    <2>1. cols \in Seq(ColumnRecs)
      BY DEF OnceStrips, OnceColumns
    <2> QED
      BY <2>1, HeldIs
  <1> QED
    BY <1>10, <1>11, <1>12, OnceListed DEF all

\* What OnceInv says of the rows as the model reads them.
LEMMA OnceTiled == OnceInv => TiledOnce
  <1> SUFFICES ASSUME OnceInv PROVE TiledOnce
    OBVIOUS
  <1>1. Tidy(strips) /\ \A w \in known : unmanaged[w] = "no" => w \in Somewhere(strips)
    BY DEF OnceInv
  <1>2. \A r \in Rows : Cardinality({w \in Windows : HasWindow(strips[r], w)})
                            = Len(AllWindows(strips[r]))
    BY <1>1, ListedOnce DEF Tidy
  <1>3. ASSUME NEW w PROVE Cardinality(RowsWith(w)) <= 1
    <2>1. ASSUME NEW r \in RowsWith(w), NEW q \in RowsWith(w) PROVE r = q
      <3>1. r \in Rows /\ q \in Rows /\ w \in Held(strips[r]) /\ w \in Held(strips[q])
        BY <1>1, TidyIs DEF RowsWith
      <3> QED
        BY <1>1, <3>1 DEF Tidy
    <2>2. CASE RowsWith(w) = {}
      BY <2>2, FS_EmptySet
    <2>3. ASSUME NEW r \in RowsWith(w) PROVE Cardinality(RowsWith(w)) = 1
      <3>1. RowsWith(w) = {r}
        BY <2>1, <2>3
      <3> QED
        BY <3>1, FS_Singleton
    <2> QED
      BY <2>2, <2>3
  <1>4. ASSUME NEW w \in known, unmanaged[w] = "no" PROVE RowsWith(w) # {}
    <2>1. w \in Somewhere(strips)
      BY <1>1, <1>4
    <2>2. \E r \in Rows : HasWindow(strips[r], w)
      BY <1>1, <2>1, TidyIs
    <2> QED
      BY <2>2 DEF RowsWith
  <1> QED
    BY <1>2, <1>3, <1>4 DEF TiledOnce

\* It holds of the rows there are at the beginning.
LEMMA InitOnce ==
    ASSUME Tidy(Start), Init
    PROVE  OnceInv
  <1>1. strips = Start /\ Tidy(strips)
    BY DEF Init
  <1>2. ASSUME NEW w \in known, unmanaged[w] = "no" PROVE w \in Somewhere(strips)
    <2>1. w \in Windows /\ unmanaged = [v \in Windows |->
              IF \E r \in Rows : HasWindow(Start[r], v) THEN "no" ELSE Floating]
      BY DEF Init
    <2>2. \E r \in Rows : HasWindow(Start[r], w)
      BY <1>2, <2>1 DEF Floating
    <2> QED
      BY <1>1, <2>2, TidyIs
  <1> QED
    BY <1>1, <1>2 DEF OnceInv

\* Every window is in one strip at most and once there, and a managed one is in a
\* strip, whenever no command of a replay is left, for any windows, displays,
\* spaces and rows, whatever scripts ask for and however stale the layout they
\* asked it of (apply_layout_ops, the triggers of Unmanaged and
\* handle_virtual_window_moves), if it is so when scripts start to run and no
\* window is full screen, whose columns `stack` loses.
THEOREM LayoutTiledOnce ==
    ASSUME Tidy(Start)
    PROVE  Spec => []TiledOnce
  <1>1. Init => OnceInv
    BY InitOnce
  <1>2. TypeOK /\ OnceInv /\ [Next]_vars => OnceInv'
    BY StepOnce
  <1> QED
    BY <1>1, <1>2, OnceTiled, LayoutTypes, PTL DEF Spec

==============================================================================
