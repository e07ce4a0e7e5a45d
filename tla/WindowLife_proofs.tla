--------------------------- MODULE WindowLife_proofs ---------------------------
(****************************************************************************)
(* Which windows are tiled, for any windows, apps, rows, rules and events:  *)
(* where windows are placed before they are minimized or hidden, and        *)
(* nothing answers for a closed window, each managed window is in one row   *)
(* and no other window is in any, once all is handled; a window that was    *)
(* away comes back to the row it left; and one window at most has focus.    *)
(****************************************************************************)
EXTENDS WindowLife, Sequences_proofs

\* What is assumed of macOS: as in the run.
Prompt == ~Hasty /\ Outlasting = {}

------------------------------------------------------------------------------
(* Types *)

Away == {"minimized", "hidden"}
Maybe == Windows \cup {NoWindow}
Homes == [row : 1 .. Rows, index : Nat \ {0}]
Focusings == [kind : {"focused"}, about : Windows]
Events == [kind : {"created", "focused", "minimized", "deminimized", "destroyed", "leftSpace"},
           about : Windows] \cup [kind : {"fronted", "hidden", "visible"}, about : Apps]
Commands ==
    [op : {"unmanage"}, on : [window : Windows, as : Away \cup {"floating"}]]
        \cup [op : {"manage", "focus", "mark", "despawn", "spawn", "stray"}, on : Windows]
        \cup [op : {"activate"}, on : 1 .. Rows] \cup [op : {"send"}, on : Focusings]
        \cup [op : {"retry", "settled"}, on : Apps]
Worlds ==
    [known : SUBSET Windows, unmanaged : [Windows -> Away \cup {"none", "floating"}],
     rows : [1 .. Rows -> Seq(Windows)], active : 1 .. Rows,
     previous : [Windows -> SUBSET Homes],
     focused : SUBSET Windows, added : BOOLEAN, pending : Maybe,
     lastManaged : Maybe, lastFloating : Maybe, floatsInFront : BOOLEAN,
     fresh : SUBSET Windows, strays : SUBSET Windows, retries : SUBSET Apps,
     barred : SUBSET Windows, sent : Seq(Focusings), asked : Maybe]
OSes ==
    [open : SUBSET Windows, closed : SUBSET Windows, minimized : SUBSET Windows,
     hidden : SUBSET Apps, busy : SUBSET Apps, front : Apps, focus : [Apps -> Maybe]]
TypeOK ==
    /\ os \in OSes /\ naming \in Seq(Windows)
    /\ channel \in Seq(Events) /\ inbox \in Seq(Events)
    /\ todo \subseteq Systems \cup {"post"} /\ cmds \in Seq(Commands) /\ world \in Worlds
    /\ inputs \in Nat /\ excused \in BOOLEAN

------------------------------------------------------------------------------
(* Rows *)

LEMMA ContainsIn ==
    ASSUME NEW S, NEW s \in Seq(S), NEW e
    PROVE  Contains(s, e) <=> e \in ToSet(s)
  <1>1. DOMAIN s = 1 .. Len(s)
    OBVIOUS
  <1> QED
    BY <1>1 DEF Contains, ToSet

LEMMA RowsWithIn ==
    ASSUME NEW v \in Worlds, NEW w
    PROVE  RowsWith(v, w) = {r \in 1 .. Rows : w \in ToSet(v.rows[r])}
  <1>1. \A r \in 1 .. Rows : v.rows[r] \in Seq(Windows)
    BY DEF Worlds
  <1>2. \A r \in 1 .. Rows : Contains(v.rows[r], w) <=> w \in ToSet(v.rows[r])
    BY <1>1, ContainsIn
  <1> QED
    BY <1>2 DEF RowsWith

\* The rows of a world are only its rows.
LEMMA RowsOnly ==
    ASSUME NEW v, NEW u, v.rows = u.rows
    PROVE  \A w : RowsWith(v, w) = RowsWith(u, w)
  BY DEF RowsWith

LEMMA WithoutRows ==
    ASSUME NEW v \in Worlds, NEW w \in Windows
    PROVE  \E rows \in [1 .. Rows -> Seq(Windows)] :
               /\ Without(v, w) = [v EXCEPT !.rows = rows]
               /\ Without(v, w) \in Worlds
               /\ RowsWith(Without(v, w), w) = {}
               /\ \A x \in Windows \ {w} : RowsWith(Without(v, w), x) = RowsWith(v, x)
  <1> DEFINE rows == [r \in 1 .. Rows |-> Retained(v.rows[r], Windows \ {w})]
             u == [v EXCEPT !.rows = rows]
  <1>1. \A r \in 1 .. Rows : v.rows[r] \in Seq(Windows)
    BY DEF Worlds
  <1>2. \A r \in 1 .. Rows : /\ Retained(v.rows[r], Windows \ {w}) \in Seq(Windows)
                             /\ ToSet(Retained(v.rows[r], Windows \ {w}))
                                    = ToSet(v.rows[r]) \cap (Windows \ {w})
    BY <1>1, RetainedHolds
  <1>3. rows \in [1 .. Rows -> Seq(Windows)]
    BY <1>2
  <1>4. \A r \in 1 .. Rows : ToSet(rows[r]) = ToSet(v.rows[r]) \cap (Windows \ {w})
    BY <1>2
  <1>5. Without(v, w) = u
    BY DEF Without
  <1> HIDE DEF rows
  <1>6. u \in Worlds /\ u.rows = rows
    BY <1>3 DEF Worlds
  <1> HIDE DEF u
  <1>7. \A x : RowsWith(u, x) = {r \in 1 .. Rows : x \in ToSet(rows[r])}
    BY <1>6, RowsWithIn
  <1>8. \A x : RowsWith(v, x) = {r \in 1 .. Rows : x \in ToSet(v.rows[r])}
    BY RowsWithIn
  <1>9. RowsWith(u, w) = {}
    BY <1>4, <1>7
  <1>10. \A x \in Windows \ {w} : RowsWith(u, x) = RowsWith(v, x)
    BY <1>4, <1>7, <1>8
  <1> QED
    BY <1>3, <1>5, <1>6, <1>9, <1>10 DEF u

LEMMA InsertedRows ==
    ASSUME NEW v \in Worlds, NEW r \in 1 .. Rows, NEW i \in Nat \ {0}, NEW w \in Windows,
           NEW u, u = [v EXCEPT !.rows[r] = Inserted(v.rows[r], i, w)]
    PROVE  /\ u \in Worlds /\ u = [v EXCEPT !.rows = u.rows]
           /\ RowsWith(u, w) = RowsWith(v, w) \cup {r}
           /\ \A x \in Windows \ {w} : RowsWith(u, x) = RowsWith(v, x)
  <1> DEFINE s == v.rows[r]
             new == Inserted(s, i, w)
             rows == [v.rows EXCEPT ![r] = new]
  <1>1. v.rows \in [1 .. Rows -> Seq(Windows)]
    BY DEF Worlds
  <1>2. s \in Seq(Windows) /\ Len(s) \in Nat
    <2>1. s \in Seq(Windows)
      BY <1>1
    <2> HIDE DEF s
    <2> QED
      BY <2>1
  <1> DEFINE k == IF i > Len(s) THEN Len(s) + 1 ELSE i
  <1>3. k \in 1 .. (Len(s) + 1) /\ new = InsertAt(s, k, w)
    BY <1>2 DEF Inserted
  <1> HIDE DEF s, new, k
  <1>4. new \in Seq(Windows) /\ ToSet(new) = ToSet(s) \cup {w}
    BY <1>2, <1>3, InsertedAt
  <1>5. rows \in [1 .. Rows -> Seq(Windows)]
    BY <1>1, <1>4
  <1>6. \A q \in 1 .. Rows : ToSet(rows[q]) = IF q = r THEN ToSet(s) \cup {w} ELSE ToSet(v.rows[q])
    BY <1>1, <1>4
  <1>7. u = [v EXCEPT !.rows = rows]
    BY DEF new, s
  <1> HIDE DEF rows
  <1>8. u \in Worlds /\ u.rows = rows
    BY <1>5, <1>7 DEF Worlds
  <1>9. \A x : RowsWith(u, x) = {q \in 1 .. Rows : x \in ToSet(rows[q])}
    BY <1>8, RowsWithIn
  <1>10. \A x : RowsWith(v, x) = {q \in 1 .. Rows : x \in ToSet(v.rows[q])}
    BY RowsWithIn
  <1>11. RowsWith(u, w) = RowsWith(v, w) \cup {r}
    BY <1>6, <1>9, <1>10 DEF s
  <1>12. \A x \in Windows \ {w} : RowsWith(u, x) = RowsWith(v, x)
    BY <1>6, <1>9, <1>10 DEF s
  <1> QED
    BY <1>7, <1>8, <1>11, <1>12

\* The members of the row on screen have a row.
LEMMA ActiveIn ==
    ASSUME NEW v \in Worlds
    PROVE  /\ Active(v) \in Seq(Windows) /\ v.active \in 1 .. Rows
           /\ \A i \in DOMAIN Active(v) : Active(v)[i] \in Windows /\ v.active \in RowsWith(v, Active(v)[i])
           /\ \A x : Contains(Active(v), x) <=> v.active \in RowsWith(v, x)
  <1>1. v.active \in 1 .. Rows /\ v.rows[v.active] \in Seq(Windows)
    BY DEF Worlds
  <1>2. \A x : Contains(Active(v), x) <=> v.active \in RowsWith(v, x)
    BY <1>1 DEF Active, RowsWith
  <1>3. \A i \in DOMAIN Active(v) : Active(v)[i] \in Windows /\ Contains(Active(v), Active(v)[i])
    BY <1>1 DEF Active, Contains
  <1> QED
    BY <1>1, <1>2, <1>3 DEF Active

\* The least of the rows of a window.
LEMMA LeastRow ==
    ASSUME NEW R \in SUBSET (1 .. Rows), R # {}
    PROVE  (CHOOSE r \in R : \A s \in R : r <= s) \in R
  <1>1. R \in SUBSET Nat
    OBVIOUS
  <1>2. \E r \in R : \A s \in R : r <= s
    BY <1>1, LeastOf
  <1> QED
    BY <1>2, Zenon

\* Where a window is.
LEMMA PlaceIn ==
    ASSUME NEW v \in Worlds, NEW w, RowsWith(v, w) # {}
    PROVE  Place(v, w) \in Homes /\ Place(v, w).row \in RowsWith(v, w)
  <1> DEFINE r == CHOOSE r \in RowsWith(v, w) : TRUE
             i == CHOOSE i \in DOMAIN v.rows[r] : v.rows[r][i] = w
  <1>1. r \in RowsWith(v, w)
    OBVIOUS
  <1>2. Place(v, w) = [row |-> r, index |-> i]
    BY DEF Place
  <1> HIDE DEF r
  <1>3. r \in 1 .. Rows /\ v.rows[r] \in Seq(Windows) /\ w \in ToSet(v.rows[r])
    BY <1>1, RowsWithIn DEF Worlds
  <1>4. \E k \in DOMAIN v.rows[r] : v.rows[r][k] = w
    BY <1>3 DEF ToSet
  <1>5. i \in DOMAIN v.rows[r]
    BY <1>4
  <1> HIDE DEF i
  <1>6. i \in Nat \ {0}
    BY <1>3, <1>5
  <1> QED
    BY <1>1, <1>2, <1>3, <1>6 DEF Homes

\* A window that takes the focus over is in the row on screen.
LEMMA HeirIn ==
    ASSUME NEW v \in Worlds, NEW w \in Windows, NEW near
    PROVE  LET heir == GiveAway(v, w, near)
           IN  heir \in Maybe /\ (heir \in Windows => heir # w /\ RowsWith(v, heir) # {})
  <1> DEFINE others == Retained(Active(v), Windows \ {w})
             heir == GiveAway(v, w, near)
  <1>1. Active(v) \in Seq(Windows)
    BY ActiveIn
  <1>2. others \in Seq(Windows) /\ ToSet(others) = ToSet(Active(v)) \cap (Windows \ {w})
    BY <1>1, RetainedHolds
  <1>3. heir = NoWindow \/ (others # <<>> /\ (heir = Head(others)
                                                    \/ (heir = near /\ Contains(others, near))))
    BY Zenon DEF GiveAway, Neighbour
  <1> HIDE DEF others, heir
  <1>4. heir = NoWindow \/ heir \in ToSet(others)
    <2>1. Contains(others, near) => near \in ToSet(others)
      BY <1>2, ContainsIn
    <2>2. others # <<>> => Head(others) \in ToSet(others)
      BY <1>2 DEF ToSet
    <2> QED
      BY <1>3, <2>1, <2>2
  <1>5. \A x \in ToSet(others) : x \in Windows /\ x # w /\ RowsWith(v, x) # {}
    <2> TAKE x \in ToSet(others)
    <2>1. x \in ToSet(Active(v)) /\ x \in Windows /\ x # w
      BY <1>2
    <2>2. Contains(Active(v), x)
      BY <1>1, <2>1, ContainsIn
    <2> QED
      BY <2>1, <2>2, ActiveIn
  <1> QED
    BY <1>4, <1>5, LifeAssumption DEF heir, Maybe

------------------------------------------------------------------------------
(* What the commands do *)

\* The windows there are, and those to be placed, stay.
Alike(v, u) == u.known = v.known /\ u.fresh = v.fresh /\ u.pending = v.pending
\* So does what is known of the place of a window.
Untouched(v, u, x) ==
    /\ RowsWith(u, x) = RowsWith(v, x)
    /\ u.unmanaged[x] = v.unmanaged[x] /\ u.previous[x] = v.previous[x]

\* The focus goes to a window there is, or stays.
LEMMA FocusIn ==
    ASSUME NEW v \in Worlds, NEW w, NEW u \in {Marked(v, w), FocusEntity(v, w)}
    PROVE  /\ u \in Worlds /\ Alike(v, u) /\ \A x \in Windows : Untouched(v, u, x)
           /\ u.unmanaged = v.unmanaged /\ u.rows = v.rows /\ u.previous = v.previous
           /\ u.focused = v.focused \/ (w \in v.known /\ u.focused = {w})
  <1> DEFINE Like(m) == /\ m \in Worlds /\ Alike(v, m) /\ m.unmanaged = v.unmanaged
                        /\ m.rows = v.rows /\ m.previous = v.previous
                        /\ m.focused = v.focused \/ (w \in v.known /\ m.focused = {w})
  <1>1. ASSUME w \in v.known PROVE RowActivated([v EXCEPT !.focused = {w}, !.added = TRUE], w) = 
            [v EXCEPT !.focused = {w}, !.added = TRUE]
            \/ \E r \in 1 .. Rows : RowActivated([v EXCEPT !.focused = {w}, !.added = TRUE], w) = 
            [v EXCEPT !.focused = {w}, !.added = TRUE, !.active = r]
    <2> DEFINE m == [v EXCEPT !.focused = {w}, !.added = TRUE]
               off == RowsWith(m, w) \ {m.active}
    <2>1. off \in SUBSET (1 .. Rows)
      BY DEF RowsWith
    <2>2. RowActivated(m, w) = IF off = {} THEN m ELSE [m EXCEPT !.active = CHOOSE r \in off : \A s \in off : r <= s]
      BY DEF RowActivated
    <2> HIDE DEF off, m
    <2>3. RowActivated(m, w) = m \/ \E r \in 1 .. Rows : RowActivated(m, w) = [m EXCEPT !.active = r]
      BY <2>1, <2>2, LeastRow
    <2> QED
      BY <2>3 DEF m
  <1>2. Like(v)
    BY DEF Alike
  <1>3. Like(Marked(v, w))
    <2>1. CASE Marked(v, w) = v
      BY <1>2, <2>1
    <2>2. CASE w \in v.known /\ Marked(v, w) = RowActivated([v EXCEPT !.focused = {w}, !.added = TRUE], w)
      <3>1. w \in Windows
        BY <2>2 DEF Worlds
      <3>2. Like([v EXCEPT !.focused = {w}, !.added = TRUE])
        BY <2>2, <3>1 DEF Worlds, Alike
      <3>3. ASSUME NEW r \in 1 .. Rows PROVE Like([v EXCEPT !.focused = {w}, !.added = TRUE, !.active = r])
        BY <2>2, <3>1 DEF Worlds, Alike
      <3> HIDE DEF Like
      <3> QED
        BY <1>1, <2>2, <3>2, <3>3
    <2> QED
      BY <2>1, <2>2, Zenon DEF Marked, OnlyFocus
  <1>4. Like(FocusEntity(v, w))
    <2>1. CASE w \in v.known
      <3> DEFINE m == Marked(v, w)
      <3>1. FocusEntity(v, w) = [m EXCEPT !.asked = w] /\ w \in Maybe
        BY <2>1 DEF FocusEntity, Maybe, Worlds
      <3>2. Like(m)
        BY <1>3
      <3> HIDE DEF m
      <3>3. Like([m EXCEPT !.asked = w])
        BY <3>1, <3>2 DEF Worlds, Alike
      <3> QED
        BY <3>1, <3>3
    <2>2. CASE w \notin v.known
      <3>1. FocusEntity(v, w) = v
        BY <2>2 DEF FocusEntity
      <3> QED
        BY <1>2, <3>1
    <2> QED
      BY <2>1, <2>2
  <1> HIDE DEF Like
  <1>5. Like(u)
    BY <1>3, <1>4
  <1>6. \A x \in Windows : Untouched(v, u, x)
    BY <1>5, RowsOnly DEF Untouched, Like
  <1> QED
    BY <1>5, <1>6 DEF Like

\* From v to u, w is unmanaged: it leaves its row, and where it was put away
\* the place is kept.
Leaving(v, u, w, as) ==
    /\ u \in Worlds /\ Alike(v, u)
    /\ \A x \in Windows \ {w} : Untouched(v, u, x)
    /\ u.unmanaged[w] = as
    /\ v.unmanaged[w] # "none" =>
          RowsWith(u, w) = RowsWith(v, w) /\ u.previous[w] = v.previous[w]
    /\ v.unmanaged[w] = "none" => RowsWith(u, w) = {}
    /\ as = "floating" \/ RowsWith(v, w) = {} => u.previous[w] = v.previous[w]
    /\ v.unmanaged[w] = "none" /\ as # "floating" /\ RowsWith(v, w) # {} =>
          \E p \in Homes : u.previous[w] = {p} /\ p.row \in RowsWith(v, w)
    /\ \/ u.focused = v.focused
       \/ \E h \in v.known : h # w /\ RowsWith(v, h) # {} /\ u.focused = {h}

LEMMA UnmanagingIs ==
    ASSUME NEW v \in Worlds, NEW w \in v.known, NEW as \in Away \cup {"floating"}, NEW near,
           NEW u, u = Unmanaging(v, w, as, near)
    PROVE  Leaving(v, u, w, as)
  <1> DEFINE v1 == [v EXCEPT !.unmanaged[w] = as]
  <1>1. w \in Windows /\ v.unmanaged \in [Windows -> Away \cup {"none", "floating"}]
    BY DEF Worlds
  <1>2. /\ v1 \in Worlds /\ Alike(v, v1) /\ v1.rows = v.rows /\ v1.previous = v.previous
        /\ v1.focused = v.focused /\ v1.unmanaged[w] = as
        /\ \A x \in Windows \ {w} : v1.unmanaged[x] = v.unmanaged[x]
    BY <1>1 DEF Worlds, Alike
  <1>3. \A x : RowsWith(v1, x) = RowsWith(v, x)
    BY <1>2, RowsOnly
  <1>4. u = IF v.unmanaged[w] # "none" THEN v1
            ELSE IF as = "floating" THEN Without(v1, w) ELSE Stowed(v1, w, near)
    BY DEF Unmanaging
  <1> HIDE DEF v1
  <1>5. CASE v.unmanaged[w] # "none"
    <2>1. u = v1
      BY <1>4, <1>5
    <2>2. \A x \in Windows \ {w} : Untouched(v, u, x)
      BY <1>2, <1>3, <2>1 DEF Untouched
    <2> QED
      BY <1>2, <1>3, <1>5, <2>1, <2>2 DEF Leaving
  <1>6. PICK rows \in [1 .. Rows -> Seq(Windows)] :
               /\ Without(v1, w) = [v1 EXCEPT !.rows = rows]
               /\ Without(v1, w) \in Worlds
               /\ RowsWith(Without(v1, w), w) = {}
               /\ \A x \in Windows \ {w} : RowsWith(Without(v1, w), x) = RowsWith(v1, x)
    BY <1>1, <1>2, WithoutRows
  <1> DEFINE m == Without(v1, w)
  <1>7. /\ m \in Worlds /\ Alike(v1, m) /\ m.unmanaged = v1.unmanaged
        /\ m.previous = v1.previous /\ m.focused = v1.focused
    BY <1>2, <1>6 DEF Worlds, Alike
  <1> HIDE DEF m
  <1>8. CASE v.unmanaged[w] = "none" /\ as = "floating"
    <2>1. u = m
      BY <1>4, <1>8 DEF m
    <2>2. \A x \in Windows \ {w} : Untouched(v, u, x)
      BY <1>2, <1>3, <1>6, <1>7, <2>1 DEF Untouched, m
    <2> QED
      BY <1>2, <1>6, <1>7, <1>8, <2>1, <2>2 DEF m, Alike, Leaving
  <1>9. CASE v.unmanaged[w] = "none" /\ as # "floating"
    <2> DEFINE heir == GiveAway(v1, w, near)
               k == IF RowsWith(v1, w) = {} THEN v1 ELSE [m EXCEPT !.previous[w] = {Place(v1, w)}]
    <2>1. u = FocusEntity(k, heir)
      BY <1>4, <1>9 DEF Stowed, m
    <2>2. heir \in Maybe /\ (heir \in Windows => heir # w /\ RowsWith(v1, heir) # {})
      BY <1>1, <1>2, HeirIn
    <2> HIDE DEF heir
    <2>3. /\ k \in Worlds /\ Alike(v, k) /\ k.unmanaged = v1.unmanaged /\ k.focused = v.focused
          /\ RowsWith(k, w) = {} /\ \A x \in Windows \ {w} : Untouched(v, k, x)
          /\ RowsWith(v, w) = {} => k.previous[w] = v.previous[w]
          /\ RowsWith(v, w) # {} =>
                 \E p \in Homes : k.previous[w] = {p} /\ p.row \in RowsWith(v, w)
      <3>1. CASE RowsWith(v, w) = {}
        <4>1. k = v1
          BY <1>3, <3>1
        <4>2. \A x \in Windows \ {w} : Untouched(v, k, x)
          BY <1>2, <1>3, <4>1 DEF Untouched
        <4> QED
          BY <1>2, <1>3, <3>1, <4>1, <4>2
      <3>2. CASE RowsWith(v, w) # {}
        <4> DEFINE p == Place(v1, w)
        <4>1. k = [m EXCEPT !.previous[w] = {p}]
          BY <1>3, <3>2
        <4>2. p \in Homes /\ p.row \in RowsWith(v, w)
          BY <1>2, <1>3, <3>2, PlaceIn
        <4> HIDE DEF p, k
        <4>3. /\ k \in Worlds /\ Alike(m, k) /\ k.unmanaged = m.unmanaged /\ k.focused = m.focused
              /\ k.rows = m.rows /\ k.previous = [m.previous EXCEPT ![w] = {p}]
          <5> DEFINE before == [m.previous EXCEPT ![w] = {p}]
          <5>1. m.previous \in [Windows -> SUBSET Homes] /\ {p} \in SUBSET Homes
            BY <1>7, <4>2 DEF Worlds
          <5>2. before \in [Windows -> SUBSET Homes]
            BY <5>1
          <5>3. k = [m EXCEPT !.previous = before]
            BY <4>1
          <5> HIDE DEF before
          <5>4. /\ k \in Worlds /\ Alike(m, k) /\ k.unmanaged = m.unmanaged
                /\ k.focused = m.focused /\ k.rows = m.rows /\ k.previous = before
            BY <1>7, <5>2, <5>3 DEF Worlds, Alike
          <5> QED
            BY <5>4 DEF before
        <4>4. m.previous \in [Windows -> SUBSET Homes]
          BY <1>7 DEF Worlds
        <4>5. \A x : RowsWith(k, x) = RowsWith(m, x)
          BY <4>3, RowsOnly
        <4>6. \A x \in Windows \ {w} : Untouched(v, k, x)
          BY <1>2, <1>3, <1>6, <1>7, <4>3, <4>4, <4>5 DEF Untouched, m
        <4>7. k.previous[w] = {p} /\ RowsWith(k, w) = {} /\ Alike(v, k)
          BY <1>1, <1>2, <1>6, <1>7, <4>3, <4>4, <4>5 DEF m, Alike
        <4> QED
          BY <1>2, <1>7, <3>2, <4>2, <4>3, <4>6, <4>7
      <3> QED
        BY <3>1, <3>2
    <2> HIDE DEF k
    <2>4. /\ u \in Worlds /\ Alike(k, u) /\ \A x \in Windows : Untouched(k, u, x)
          /\ u.unmanaged = k.unmanaged
          /\ u.focused = k.focused \/ (heir \in k.known /\ u.focused = {heir})
      BY <2>1, <2>3, FocusIn
    <2>5. \A x \in Windows \ {w} : Untouched(v, u, x)
      BY <2>3, <2>4 DEF Untouched
    <2>6. /\ u.unmanaged[w] = as /\ RowsWith(u, w) = {} /\ u.previous[w] = k.previous[w] /\ Alike(v, u)
      BY <1>1, <1>2, <2>3, <2>4 DEF Untouched, Alike
    <2>7. \/ u.focused = v.focused
          \/ \E h \in v.known : h # w /\ RowsWith(v, h) # {} /\ u.focused = {h}
      <3>1. CASE u.focused = k.focused
        BY <2>3, <3>1
      <3>2. CASE heir \in k.known /\ u.focused = {heir}
        <4>1. heir \in v.known /\ heir \in Windows
          BY <2>3, <3>2 DEF Alike, Worlds
        <4> QED
          BY <1>3, <2>2, <3>2, <4>1
      <3> QED
        BY <2>4, <3>1, <3>2
    <2> QED
      BY <1>9, <2>3, <2>4, <2>5, <2>6, <2>7 DEF Leaving
  <1> QED
    BY <1>1, <1>5, <1>8, <1>9

\* A window without a row gets one.
LEMMA PlacedIs ==
    ASSUME NEW v \in Worlds, NEW w \in Windows
    PROVE  LET u == Placed(v, w)
           IN  /\ u \in Worlds /\ u = [v EXCEPT !.rows = u.rows]
               /\ \A x \in Windows \ {w} : RowsWith(u, x) = RowsWith(v, x)
               /\ RowsWith(v, w) # {} => RowsWith(u, w) = RowsWith(v, w)
               /\ RowsWith(v, w) = {} => \E r \in 1 .. Rows : RowsWith(u, w) = {r}
  <1> DEFINE u == Placed(v, w)
             i == Behind(v)
  <1>1. i \in Nat \ {0}
    <2> DEFINE at == {k \in DOMAIN Active(v) : Active(v)[k] \in v.focused}
    <2>1. Active(v) \in Seq(Windows)
      BY ActiveIn
    <2>2. Len(Active(v)) + 1 \in Nat \ {0} /\ at \subseteq Nat \ {0}
      BY <2>1
    <2>3. i = IF at = {} THEN Len(Active(v)) + 1 ELSE 1 + CHOOSE k \in at : TRUE
      BY DEF Behind
    <2> HIDE DEF at, i
    <2> DEFINE j == CHOOSE k \in at : TRUE
    <2>4. at # {} => j \in at
      OBVIOUS
    <2>5. i = IF at = {} THEN Len(Active(v)) + 1 ELSE 1 + j
      BY <2>3
    <2> HIDE DEF j
    <2>6. at # {} => j \in Nat
      BY <2>2, <2>4
    <2> QED
      BY <2>2, <2>5, <2>6
  <1> HIDE DEF i
  <1>2. CASE RowsWith(v, w) # {}
    <2>1. u = v
      BY <1>2 DEF Placed
    <2>2. v = [v EXCEPT !.rows = v.rows]
      BY DEF Worlds
    <2> HIDE DEF u
    <2>3. /\ u \in Worlds /\ u = [v EXCEPT !.rows = u.rows]
          /\ \A x \in Windows : RowsWith(u, x) = RowsWith(v, x)
      BY <2>1, <2>2
    <2> QED
      BY <1>2, <2>3 DEF u
  <1>3. CASE RowsWith(v, w) = {}
    <2>1. v.active \in 1 .. Rows
      BY DEF Worlds
    <2>2. u = [v EXCEPT !.rows[v.active] = Inserted(v.rows[v.active], i, w)]
      BY <1>3 DEF Placed, i
    <2> HIDE DEF u
    <2>3. /\ u \in Worlds /\ u = [v EXCEPT !.rows = u.rows]
          /\ RowsWith(u, w) = {} \cup {v.active}
          /\ \A x \in Windows \ {w} : RowsWith(u, x) = RowsWith(v, x)
      BY <1>1, <1>3, <2>1, <2>2, InsertedRows
    <2> QED
      BY <1>3, <2>1, <2>3 DEF u
  <1> QED
    BY <1>2, <1>3

\* Where a window returns to.
LEMMA HomeIn ==
    ASSUME NEW v \in Worlds, NEW w \in Windows, NEW near
    PROVE  Home(v, w, near) \in Homes
           /\ (v.previous[w] # {} => Home(v, w, near) \in v.previous[w])
  <1>1. v.previous[w] \in SUBSET Homes
    BY DEF Worlds
  <1>2. CASE v.previous[w] # {}
    BY <1>1, <1>2 DEF Home
  <1>3. CASE v.previous[w] = {}
    <2> DEFINE k == Column(v, near)
               at == {i \in DOMAIN Active(v) : Active(v)[i] = near}
    <2>1. Active(v) \in Seq(Windows) /\ v.active \in 1 .. Rows
      BY ActiveIn
    <2>2. DOMAIN Active(v) = 1 .. Len(Active(v)) /\ Len(Active(v)) \in Nat
      BY <2>1
    <2>3. Contains(Active(v), near) => \E i \in DOMAIN Active(v) : Active(v)[i] = near
      BY <2>2 DEF Contains
    <2>4. Contains(Active(v), near) => k \in DOMAIN Active(v)
      BY <2>3 DEF Column
    <2>5. ~Contains(Active(v), near) => k = Len(Active(v)) + 1
      BY DEF Column
    <2> HIDE DEF k
    <2>6. k \in Nat \ {0}
      BY <2>2, <2>4, <2>5
    <2>7. Home(v, w, near) = [row |-> v.active, index |-> k]
      BY <1>3 DEF Home, k
    <2> QED
      BY <1>3, <2>1, <2>6, <2>7 DEF Homes
  <1> QED
    BY <1>2, <1>3

\* From v to u, w is managed again: if it answers, it goes to its place.
Returning(v, u, w) ==
    /\ u \in Worlds /\ Alike(v, u) /\ u.focused = v.focused
    /\ \A x \in Windows \ {w} : Untouched(v, u, x)
    /\ u.unmanaged[w] = "none"
    /\ w \notin Answering => RowsWith(u, w) = RowsWith(v, w) /\ u.previous[w] = v.previous[w]
    /\ w \in Answering =>
          /\ u.previous[w] = {}
          /\ \E p \in Homes : RowsWith(u, w) = {p.row} /\ (v.previous[w] # {} => p \in v.previous[w])

LEMMA ManagingIs ==
    ASSUME NEW v \in Worlds, NEW w \in v.known, NEW near, v.unmanaged[w] # "none"
    PROVE  Returning(v, Managing(v, w, near), w)
  <1> DEFINE v1 == [v EXCEPT !.unmanaged[w] = "none"]
             u == Managing(v, w, near)
  <1>1. w \in Windows /\ v.unmanaged \in [Windows -> Away \cup {"none", "floating"}]
    BY DEF Worlds
  <1>2. /\ v1 \in Worlds /\ Alike(v, v1) /\ v1.rows = v.rows /\ v1.previous = v.previous
        /\ v1.focused = v.focused /\ v1.unmanaged[w] = "none"
        /\ \A x \in Windows \ {w} : v1.unmanaged[x] = v.unmanaged[x]
    BY <1>1 DEF Worlds, Alike
  <1>3. \A x : RowsWith(v1, x) = RowsWith(v, x)
    BY <1>2, RowsOnly
  <1>4. u = Returned(v1, w, near)
    BY DEF Managing
  <1> HIDE DEF u, v1
  <1>5. CASE w \notin Answering
    <2>1. u = v1
      BY <1>4, <1>5 DEF Returned
    <2>2. \A x \in Windows \ {w} : Untouched(v, u, x)
      BY <1>2, <1>3, <2>1 DEF Untouched
    <2> QED
      BY <1>2, <1>3, <1>5, <2>1, <2>2 DEF u, Returning
  <1>6. CASE w \in Answering
    <2> DEFINE m == Without(v1, w)
               p == Home(m, w, near)
               k == [m EXCEPT !.rows[p.row] = Inserted(m.rows[p.row], p.index, w)]
               row == p.row
               index == p.index
    <2>1. PICK rows \in [1 .. Rows -> Seq(Windows)] :
               /\ m = [v1 EXCEPT !.rows = rows]
               /\ m \in Worlds
               /\ RowsWith(m, w) = {}
               /\ \A x \in Windows \ {w} : RowsWith(m, x) = RowsWith(v1, x)
      BY <1>1, <1>2, WithoutRows
    <2> HIDE DEF m
    <2>2. /\ Alike(v1, m) /\ m.unmanaged = v1.unmanaged
          /\ m.previous = v1.previous /\ m.focused = v1.focused
      BY <1>2, <2>1 DEF Worlds, Alike
    <2>3. p \in Homes /\ (m.previous[w] # {} => p \in m.previous[w])
      BY <1>1, <2>1, HomeIn
    <2>4. u = [k EXCEPT !.previous[w] = {}]
      BY <1>4, <1>6 DEF Returned, m
    <2> HIDE DEF p
    <2>5. row \in 1 .. Rows /\ index \in Nat \ {0}
      BY <2>3 DEF Homes
    <2>6. /\ k \in Worlds /\ k = [m EXCEPT !.rows = k.rows]
          /\ RowsWith(k, w) = {} \cup {p.row}
          /\ \A x \in Windows \ {w} : RowsWith(k, x) = RowsWith(m, x)
      <3>1. k = [m EXCEPT !.rows[row] = Inserted(m.rows[row], index, w)]
        OBVIOUS
      <3> HIDE DEF k, row, index
      <3>0. m \in Worlds /\ w \in Windows
        BY <1>1, <2>1
      <3>2. /\ k \in Worlds /\ k = [m EXCEPT !.rows = k.rows]
            /\ RowsWith(k, w) = RowsWith(m, w) \cup {row}
            /\ \A x \in Windows \ {w} : RowsWith(k, x) = RowsWith(m, x)
        BY <2>5, <3>0, <3>1, InsertedRows
      <3> QED
        BY <2>1, <3>2 DEF row
    <2> HIDE DEF k
    <2>7. /\ Alike(m, k) /\ k.unmanaged = m.unmanaged
          /\ k.previous = m.previous /\ k.focused = m.focused
      BY <2>1, <2>6 DEF Worlds, Alike
    <2>8. k.previous \in [Windows -> SUBSET Homes]
      BY <2>6 DEF Worlds
    <2> DEFINE before == [k.previous EXCEPT ![w] = {}]
    <2>9. /\ before \in [Windows -> SUBSET Homes] /\ before[w] = {}
          /\ \A x \in Windows \ {w} : before[x] = k.previous[x]
      BY <1>1, <2>8
    <2>10. u = [k EXCEPT !.previous = before]
      BY <2>4
    <2> HIDE DEF before
    <2>11. /\ u \in Worlds /\ Alike(k, u) /\ u.unmanaged = k.unmanaged
           /\ u.previous = before /\ u.focused = k.focused /\ u.rows = k.rows
      BY <2>6, <2>9, <2>10 DEF Worlds, Alike
    <2>12. \A x : RowsWith(u, x) = RowsWith(k, x)
      BY <2>11, RowsOnly
    <2>13. \A x \in Windows \ {w} : Untouched(v, u, x)
      BY <1>2, <1>3, <2>1, <2>2, <2>6, <2>7, <2>9, <2>11, <2>12 DEF Untouched
    <2>14. RowsWith(u, w) = {p.row} /\ u.previous[w] = {} /\ u.unmanaged[w] = "none"
      BY <1>2, <2>2, <2>6, <2>7, <2>9, <2>11, <2>12
    <2>15. Alike(v, u) /\ u.focused = v.focused
      BY <1>2, <2>2, <2>7, <2>11 DEF Alike
    <2>16. v.previous[w] # {} => p \in v.previous[w]
      BY <1>2, <2>2, <2>3
    <2> QED
      BY <1>6, <2>3, <2>11, <2>13, <2>14, <2>15, <2>16 DEF u, Returning
  <1> QED
    BY <1>5, <1>6

\* The first row that has a window loses it.
LEMMA UnrowedIs ==
    ASSUME NEW v \in Worlds, NEW w \in Windows
    PROVE  LET u == Unrowed(v, w)
           IN  /\ u \in Worlds /\ u = [v EXCEPT !.rows = u.rows]
               /\ RowsWith(u, w) \subseteq RowsWith(v, w)
               /\ (\A r, s \in RowsWith(v, w) : r = s) => RowsWith(u, w) = {}
               /\ \A x \in Windows \ {w} : RowsWith(u, x) = RowsWith(v, x)
  <1> DEFINE u == Unrowed(v, w)
             r == CHOOSE r \in RowsWith(v, w) : \A s \in RowsWith(v, w) : r <= s
  <1>1. CASE RowsWith(v, w) = {}
    <2>1. u = v
      BY <1>1 DEF Unrowed
    <2>2. v = [v EXCEPT !.rows = v.rows]
      BY DEF Worlds
    <2> HIDE DEF u
    <2> QED
      BY <1>1, <2>1, <2>2 DEF u
  <1>2. CASE RowsWith(v, w) # {}
    <2>1. RowsWith(v, w) \in SUBSET (1 .. Rows)
      BY DEF RowsWith
    <2>2. r \in RowsWith(v, w)
      BY <1>2, <2>1, LeastRow
    <2> DEFINE new == Retained(v.rows[r], Windows \ {w})
               rows == [v.rows EXCEPT ![r] = new]
    <2>3. u = [v EXCEPT !.rows = rows]
      BY <1>2 DEF Unrowed
    <2> HIDE DEF r
    <2>4. v.rows \in [1 .. Rows -> Seq(Windows)] /\ r \in 1 .. Rows
      BY <2>1, <2>2 DEF Worlds
    <2>5. v.rows[r] \in Seq(Windows)
      BY <2>4
    <2>6. new \in Seq(Windows) /\ ToSet(new) = ToSet(v.rows[r]) \cap (Windows \ {w})
      BY <2>5, RetainedHolds
    <2> HIDE DEF new
    <2>7. /\ rows \in [1 .. Rows -> Seq(Windows)]
          /\ \A q \in 1 .. Rows : ToSet(rows[q]) = IF q = r THEN ToSet(v.rows[q]) \cap (Windows \ {w})
                                                            ELSE ToSet(v.rows[q])
      BY <2>4, <2>6
    <2> HIDE DEF rows, u
    <2>8. u \in Worlds /\ u.rows = rows
      BY <2>3, <2>7 DEF Worlds
    <2>9. \A x : RowsWith(u, x) = {q \in 1 .. Rows : x \in ToSet(rows[q])}
      BY <2>8, RowsWithIn
    <2>10. \A x : RowsWith(v, x) = {q \in 1 .. Rows : x \in ToSet(v.rows[q])}
      BY RowsWithIn
    <2>11. /\ RowsWith(u, w) \subseteq RowsWith(v, w)
           /\ (\A q, s \in RowsWith(v, w) : q = s) => RowsWith(u, w) = {}
      <3>1. RowsWith(u, w) = RowsWith(v, w) \ {r}
        BY <2>7, <2>9, <2>10
      <3> QED
        BY <2>2, <3>1
    <2>12. \A x \in Windows \ {w} : RowsWith(u, x) = RowsWith(v, x)
      <3>1. \A x \in Windows \ {w}, q \in 1 .. Rows : x \in ToSet(rows[q]) <=> x \in ToSet(v.rows[q])
        BY <2>7
      <3> QED
        BY <2>9, <2>10, <3>1
    <2> QED
      BY <2>3, <2>8, <2>11, <2>12 DEF u
  <1> QED
    BY <1>1, <1>2

\* From v to u, w goes with all that it had.
Going(v, u, w) ==
    /\ u \in Worlds
    /\ u.known = v.known \ {w} /\ u.fresh = v.fresh \ {w} /\ u.pending = v.pending
    /\ u.focused = v.focused \ {w}
    /\ \A x \in Windows \ {w} : Untouched(v, u, x)
    /\ RowsWith(u, w) = {} /\ u.unmanaged[w] = "none" /\ u.previous[w] = {}

LEMMA DespawnedIs ==
    ASSUME NEW v \in Worlds, NEW w \in v.known, NEW near,
           w \notin Answering, \A r, s \in RowsWith(v, w) : r = s
    PROVE  Going(v, Despawned(v, w, near), w)
  <1> DEFINE m == Unrowed(v, w)
             k == Managing(m, w, near)
             u == Despawned(v, w, near)
  <1>1. w \in Windows
    BY DEF Worlds
  <1>2. /\ m \in Worlds /\ m = [v EXCEPT !.rows = m.rows]
        /\ RowsWith(m, w) = {}
        /\ \A x \in Windows \ {w} : RowsWith(m, x) = RowsWith(v, x)
    BY <1>1, UnrowedIs
  <1> HIDE DEF m
  <1>3. Alike(v, m) /\ m.unmanaged = v.unmanaged /\ m.previous = v.previous /\ m.focused = v.focused
    BY <1>2 DEF Alike, Worlds
  <1>4. \A x \in Windows \ {w} : Untouched(v, m, x)
    BY <1>2, <1>3 DEF Untouched
  <1>5. /\ k \in Worlds /\ Alike(m, k) /\ k.focused = m.focused
        /\ \A x \in Windows \ {w} : Untouched(m, k, x)
        /\ RowsWith(k, w) = {}
    <2>1. CASE m.unmanaged[w] = "none"
      <3>1. k = m
        BY <2>1 DEF Managing
      <3> QED
        BY <1>2, <3>1 DEF Alike, Untouched
    <2>2. CASE m.unmanaged[w] # "none"
      <3>1. w \in m.known
        BY <1>3 DEF Alike
      <3> QED
        BY <1>2, <2>2, <3>1, ManagingIs DEF Returning, Alike
    <2> QED
      BY <2>1, <2>2
  <1> DEFINE states == [k.unmanaged EXCEPT ![w] = "none"]
             before == [k.previous EXCEPT ![w] = {}]
  <1>6. u = [k EXCEPT !.known = k.known \ {w}, !.focused = k.focused \ {w},
                      !.fresh = k.fresh \ {w}, !.unmanaged = states, !.previous = before]
    BY DEF Despawned, m
  <1> HIDE DEF k
  <1>7. /\ k.unmanaged \in [Windows -> Away \cup {"none", "floating"}]
        /\ k.previous \in [Windows -> SUBSET Homes]
    BY <1>5 DEF Worlds
  <1>8. /\ states \in [Windows -> Away \cup {"none", "floating"}] /\ states[w] = "none"
        /\ before \in [Windows -> SUBSET Homes] /\ before[w] = {}
        /\ \A x \in Windows \ {w} : states[x] = k.unmanaged[x] /\ before[x] = k.previous[x]
    BY <1>1, <1>7
  <1> HIDE DEF states, before, u
  <1>9. /\ u \in Worlds /\ u.rows = k.rows /\ u.unmanaged = states /\ u.previous = before
        /\ u.known = k.known \ {w} /\ u.fresh = k.fresh \ {w} /\ u.pending = k.pending
        /\ u.focused = k.focused \ {w}
    BY <1>5, <1>6, <1>8 DEF Worlds
  <1>10. \A x : RowsWith(u, x) = RowsWith(k, x)
    BY <1>9, RowsOnly
  <1>11. \A x \in Windows \ {w} : Untouched(v, u, x)
    BY <1>4, <1>5, <1>8, <1>9, <1>10 DEF Untouched
  <1>12. RowsWith(u, w) = {} /\ u.unmanaged[w] = "none" /\ u.previous[w] = {}
    BY <1>5, <1>8, <1>9, <1>10
  <1> QED
    BY <1>3, <1>5, <1>9, <1>11, <1>12 DEF u, Alike, Going

\* From v to u, w comes if it is open and was not known, and is to be placed.
Coming(v, u, w) ==
    /\ u \in Worlds /\ u.pending = v.pending /\ u.focused = v.focused
    /\ u.rows = v.rows /\ u.unmanaged = v.unmanaged /\ u.previous = v.previous
    /\ \A x \in Windows : Untouched(v, u, x)
    /\ \/ Alike(v, u)
       \/ /\ w \notin v.known /\ w \in os.open
          /\ u.known = v.known \cup {w} /\ u.fresh = v.fresh \cup {w}

LEMMA SpawnedIs ==
    ASSUME NEW v \in Worlds, NEW w \in Windows
    PROVE  Coming(v, Spawned(v, w), w)
  <1> DEFINE u == Spawned(v, w)
             m == [v EXCEPT !.known = @ \cup {w}, !.fresh = @ \cup {w}]
             k == [m EXCEPT !.strays = @ \ {w}]
             news == Append(k.sent, Event("focused", w))
  <1>1. CASE w \in v.known \/ w \notin os.open
    <2>1. u = v
      BY <1>1 DEF Spawned
    <2> QED
      BY <2>1 DEF Alike, Untouched, Coming
  <1>2. CASE ~(w \in v.known \/ w \notin os.open)
    <2>1. u = m \/ u = [k EXCEPT !.sent = news]
      BY <1>2 DEF Spawned, Requeued, Sent
    <2>2. /\ m \in Worlds /\ k \in Worlds
          /\ k.known = v.known \cup {w} /\ k.fresh = v.fresh \cup {w}
          /\ m.known = v.known \cup {w} /\ m.fresh = v.fresh \cup {w}
          /\ k.pending = v.pending /\ k.focused = v.focused
          /\ m.pending = v.pending /\ m.focused = v.focused
          /\ k.rows = v.rows /\ k.unmanaged = v.unmanaged /\ k.previous = v.previous
          /\ m.rows = v.rows /\ m.unmanaged = v.unmanaged /\ m.previous = v.previous
      BY DEF Worlds
    <2> HIDE DEF k, m
    <2>3. k.sent \in Seq(Focusings) /\ Event("focused", w) \in Focusings
      BY <2>2 DEF Worlds, Focusings, Event
    <2>4. news \in Seq(Focusings)
      BY <2>3
    <2> HIDE DEF news, u
    <2>5. /\ u \in Worlds /\ u.known = v.known \cup {w} /\ u.fresh = v.fresh \cup {w}
          /\ u.pending = v.pending /\ u.focused = v.focused
          /\ u.rows = v.rows /\ u.unmanaged = v.unmanaged /\ u.previous = v.previous
      BY <2>1, <2>2, <2>4 DEF Worlds
    <2>6. \A x \in Windows : Untouched(v, u, x)
      BY <2>5, RowsOnly DEF Untouched
    <2> QED
      BY <1>2, <2>5, <2>6 DEF u, Coming
  <1> QED
    BY <1>1, <1>2

------------------------------------------------------------------------------
(* What holds of the windows, at any time *)

\* A window that was met is known, and placed, or closed: no event of it is
\* ahead of its creation.
Met(o, v, w) == w \notin v.fresh /\ (w \in v.known \/ w \in o.closed)
There(o, v) ==
    /\ o.open \cap o.closed = {} /\ v.known \subseteq o.open \cup o.closed
    /\ v.fresh \subseteq v.known
OneFocus(v) == \A x, y \in v.focused : x = y

\* Of the commands cs, one is to unmanage w.
Leaves(cs, w) == \E c \in cs : c.op = "unmanage" /\ c.on.window = w
\* One is to float it.
Rejected(cs, w) == \E c \in cs : c.op = "unmanage" /\ c.on.window = w /\ c.on.as = "floating"
\* A window that has not been placed has no row and no focus, and no state that
\* a row would contradict; an open window is in one row if it is managed, unless
\* it is to be placed or to leave, and in none if it is not.
Sound(o, v, cs, w) ==
    /\ \/ RowsWith(v, w) # {} \/ v.unmanaged[w] \in {"minimized", "floating"}
       \/ w \in v.focused \/ w = v.pending
       => Met(o, v, w)
    /\ v.unmanaged[w] = "hidden" => Met(o, v, w) \/ w \in o.closed
    /\ w \notin v.known => /\ RowsWith(v, w) = {} /\ v.unmanaged[w] = "none"
                           /\ w \notin v.focused
    /\ \A r, s \in RowsWith(v, w) : r = s
    /\ w \in o.open /\ v.unmanaged[w] # "none" => RowsWith(v, w) = {}
    /\ w \in o.open /\ w \in v.known /\ w \notin v.fresh /\ v.unmanaged[w] = "none"
          => RowsWith(v, w) # {} \/ Leaves(cs, w)
    /\ v.unmanaged[w] = "floating" => RowsWith(v, w) = {}
    /\ Rejected(cs, w) => v.unmanaged[w] = "none" \/ RowsWith(v, w) = {}
    /\ \A p, q \in v.previous[w] : p = q
Standing(o, v, cs) ==
    v \in Worlds /\ There(o, v) /\ OneFocus(v) /\ \A w \in Windows : Sound(o, v, cs, w)

\* A command finds the windows it is about as it may change them.
Fit(o, v, c) ==
    /\ c.op = "despawn" => c.on \in o.closed
    /\ c.op = "unmanage" =>
           Met(o, v, c.on.window) \/ (c.on.as = "hidden" /\ c.on.window \in o.closed)
    /\ c.op \in {"focus", "mark"} => Met(o, v, c.on)

\* From v to u no window goes back to be placed, and none but open ones come.
Later(o, v, u) ==
    /\ \A w \in Windows : Met(o, v, w) => Met(o, u, w)
    /\ u.known \subseteq v.known \cup o.open

LEMMA SoundStays ==
    ASSUME NEW o, NEW v, NEW u, NEW c1, NEW c2, NEW w,
           Sound(o, v, c1, w), Untouched(v, u, w),
           w \in u.known <=> w \in v.known, w \in u.fresh <=> w \in v.fresh,
           w \in u.focused => w \in v.focused \/ (w \in v.known /\ Met(o, v, w)),
           w = u.pending => w = v.pending,
           Leaves(c1, w) => Leaves(c2, w), Rejected(c2, w) => Rejected(c1, w)
    PROVE  Sound(o, u, c2, w)
  BY DEF Sound, Untouched, Met

\* A window that is met takes the focus.
LEMMA FocusKeeps ==
    ASSUME NEW o, NEW v, NEW cs, Standing(o, v, cs), NEW w,
           w \in v.known => Met(o, v, w),
           NEW u \in {Marked(v, w), FocusEntity(v, w)}
    PROVE  Standing(o, u, cs) /\ Later(o, v, u)
  <1>1. /\ u \in Worlds /\ Alike(v, u) /\ \A x \in Windows : Untouched(v, u, x)
        /\ u.focused = v.focused \/ (w \in v.known /\ u.focused = {w})
    BY FocusIn DEF Standing
  <1>2. ASSUME NEW x \in Windows PROVE Sound(o, u, cs, x)
    <2>1. x \in u.focused => x \in v.focused \/ (x \in v.known /\ Met(o, v, x))
      BY <1>1
    <2> QED
      BY <1>1, <2>1, SoundStays DEF Standing, Alike
  <1>3. There(o, u) /\ OneFocus(u) /\ Later(o, v, u)
    BY <1>1 DEF Standing, There, OneFocus, Later, Met, Alike
  <1> QED
    BY <1>1, <1>2, <1>3 DEF Standing

LEMMA UnmanageKeeps ==
    ASSUME NEW o, NEW v, NEW c1, NEW c2, NEW w \in Windows, NEW as \in Away \cup {"floating"},
           Standing(o, v, c1), Met(o, v, w) \/ (as = "hidden" /\ w \in o.closed),
           \A x \in Windows \ {w} : Leaves(c1, x) => Leaves(c2, x),
           \A x \in Windows : Rejected(c2, x) => Rejected(c1, x),
           as = "floating" => Rejected(c1, w),
           NEW near, NEW u, u = Unmanaging(v, w, as, near)
    PROVE  Standing(o, u, c2) /\ Later(o, v, u)
  <1>1. v \in Worlds /\ Sound(o, v, c1, w)
    BY DEF Standing
  <1>2. CASE w \notin v.known
    <2>1. u = v
      BY <1>2 DEF Unmanaging
    <2>2. ASSUME NEW x \in Windows PROVE Sound(o, u, c2, x)
      <3>1. Sound(o, v, c1, x)
        BY DEF Standing
      <3>2. CASE x = w
        BY <1>2, <2>1, <3>1, <3>2 DEF Sound, Met
      <3>3. CASE x # w
        BY <2>1, <3>1, <3>3 DEF Sound
      <3> QED
        BY <3>2, <3>3
    <2> QED
      BY <2>1, <2>2 DEF Standing, Later
  <1>3. CASE w \in v.known
    <2>1. Leaving(v, u, w, as)
      BY <1>1, <1>3, UnmanagingIs
    <2>2. v.known \subseteq Windows
      BY <1>1 DEF Worlds
    <2>3. \A x \in u.focused : x \in v.focused \/ (x \in v.known /\ Met(o, v, x))
      <3>1. \A h \in v.known : RowsWith(v, h) # {} => Met(o, v, h)
        BY <2>2 DEF Standing, Sound
      <3> QED
        BY <2>1, <3>1 DEF Leaving
    <2>4. There(o, u) /\ Later(o, v, u)
      BY <2>1 DEF Leaving, Standing, There, Later, Met, Alike
    <2>5. OneFocus(u)
      BY <2>1 DEF Leaving, Standing, OneFocus
    <2>6. ASSUME NEW x \in Windows \ {w} PROVE Sound(o, u, c2, x)
      BY <2>1, <2>3, SoundStays DEF Leaving, Standing, Alike
    <2>7. Sound(o, u, c2, w)
      <3>1. as # "none" /\ RowsWith(u, w) \subseteq RowsWith(v, w)
        BY <2>1 DEF Leaving, Away
      <3>2. \A p, q \in u.previous[w] : p = q
        BY <1>1, <2>1 DEF Leaving, Sound
      <3>3. w \in o.open => RowsWith(u, w) = {}
        BY <1>1, <2>1 DEF Leaving, Sound
      <3>4. as = "floating" => RowsWith(u, w) = {}
        BY <1>1, <2>1 DEF Leaving, Sound
      <3>5. Met(o, v, w) => Met(o, u, w)
        BY <2>1 DEF Leaving, Met, Alike
      <3>6. w \in u.known
        BY <1>3, <2>1 DEF Leaving, Alike
      <3>7. w \in o.closed => as = "hidden" \/ Met(o, u, w)
        BY <3>5
      <3>8. \A r, s \in RowsWith(u, w) : r = s
        BY <1>1, <3>1 DEF Sound
      <3>9. \/ RowsWith(u, w) # {} \/ as \in {"minimized", "floating"}
            \/ w \in u.focused \/ w = u.pending
            => Met(o, u, w)
        <4>1. w \in u.focused \/ RowsWith(u, w) # {} => Met(o, v, w)
          BY <1>1, <2>3, <3>1 DEF Sound
        <4>2. w = u.pending => Met(o, v, w)
          BY <1>1, <2>1 DEF Leaving, Sound, Alike
        <4> QED
          BY <3>5, <4>1, <4>2
      <3>10. Rejected(c2, w) => RowsWith(u, w) = {}
        BY <1>1, <2>1, <3>1 DEF Leaving, Sound
      <3> QED
        BY <2>1, <3>1, <3>2, <3>3, <3>4, <3>5, <3>6, <3>8, <3>9, <3>10 DEF Leaving, Sound
    <2> QED
      BY <2>1, <2>4, <2>5, <2>6, <2>7 DEF Leaving, Standing
  <1> QED
    BY <1>2, <1>3

LEMMA ManageKeeps ==
    ASSUME NEW v, NEW c1, NEW c2, NEW w \in Windows, Outlasting = {},
           Standing(os, v, c1),
           \A x \in Windows : Leaves(c1, x) => Leaves(c2, x),
           \A x \in Windows : Rejected(c2, x) => Rejected(c1, x),
           NEW near, NEW u, u = Managing(v, w, near)
    PROVE  Standing(os, u, c2) /\ Later(os, v, u)
  <1>1. v \in Worlds /\ Sound(os, v, c1, w) /\ There(os, v) /\ Answering = os.open
    BY DEF Standing, Answering
  <1>2. CASE w \notin v.known \/ v.unmanaged[w] = "none"
    <2>1. u = v
      BY <1>2 DEF Managing
    <2>2. ASSUME NEW x \in Windows PROVE Sound(os, u, c2, x)
      <3>1. Sound(os, v, c1, x)
        BY DEF Standing
      <3> QED
        BY <2>1, <3>1 DEF Sound
    <2> QED
      BY <2>1, <2>2 DEF Standing, Later
  <1>3. CASE w \in v.known /\ v.unmanaged[w] # "none"
    <2>1. Returning(v, u, w)
      BY <1>1, <1>3, ManagingIs
    <2>2. There(os, u) /\ Later(os, v, u) /\ OneFocus(u)
      BY <2>1 DEF Returning, Standing, There, OneFocus, Later, Met, Alike
    <2>3. ASSUME NEW x \in Windows \ {w} PROVE Sound(os, u, c2, x)
      <3>1. x \in u.focused => x \in v.focused \/ (x \in v.known /\ Met(os, v, x))
        BY <2>1 DEF Returning
      <3> QED
        BY <2>1, <3>1, SoundStays DEF Returning, Standing, Alike
    <2>4. Sound(os, u, c2, w)
      <3>1. w \in os.open => Met(os, v, w)
        <4>1. v.unmanaged[w] \in Away \cup {"floating", "none"}
          BY <1>1 DEF Worlds
        <4> QED
          BY <1>1, <1>3, <4>1 DEF Sound, There, Away
      <3>2. Met(os, v, w) => Met(os, u, w)
        BY <2>1 DEF Returning, Met, Alike
      <3>3. w \notin os.open => RowsWith(u, w) = RowsWith(v, w) /\ u.previous[w] = v.previous[w]
        BY <1>1, <2>1 DEF Returning
      <3>4. \A r, s \in RowsWith(u, w) : r = s
        BY <1>1, <2>1, <3>3 DEF Returning, Sound
      <3>5. \A p, q \in u.previous[w] : p = q
        BY <1>1, <2>1, <3>3 DEF Returning, Sound
      <3>6. RowsWith(u, w) # {} \/ w \in u.focused \/ w = u.pending => Met(os, u, w)
        BY <1>1, <2>1, <3>1, <3>2, <3>3 DEF Returning, Sound, Alike
      <3>7. w \in u.known
        BY <1>3, <2>1 DEF Returning, Alike
      <3>8. w \in os.open => RowsWith(u, w) # {}
        BY <1>1, <2>1 DEF Returning
      <3> QED
        BY <2>1, <3>4, <3>5, <3>6, <3>7, <3>8 DEF Returning, Sound
    <2> QED
      BY <2>1, <2>2, <2>3, <2>4 DEF Returning, Standing
  <1> QED
    BY <1>2, <1>3

LEMMA DespawnKeeps ==
    ASSUME NEW v, NEW c1, NEW c2, NEW w \in os.closed, Outlasting = {},
           Standing(os, v, c1),
           \A x \in Windows : Leaves(c1, x) => Leaves(c2, x),
           \A x \in Windows : Rejected(c2, x) => Rejected(c1, x),
           NEW near, NEW u, u = Despawned(v, w, near)
    PROVE  Standing(os, u, c2) /\ Later(os, v, u) /\ w \notin u.known
  <1>1. v \in Worlds /\ There(os, v) /\ Answering = os.open
    BY DEF Standing, Answering
  <1>2. CASE w \notin v.known
    <2>1. u = v
      BY <1>2 DEF Despawned
    <2>2. ASSUME NEW x \in Windows PROVE Sound(os, u, c2, x)
      <3>1. Sound(os, v, c1, x)
        BY DEF Standing
      <3> QED
        BY <2>1, <3>1 DEF Sound
    <2> QED
      BY <1>2, <2>1, <2>2 DEF Standing, Later
  <1>3. CASE w \in v.known
    <2>1. w \in Windows
      BY <1>1, <1>3 DEF Worlds
    <2>2. \A r, s \in RowsWith(v, w) : r = s
      BY <2>1 DEF Standing, Sound
    <2>3. w \notin Answering
      BY <1>1 DEF There
    <2>4. Going(v, u, w)
      BY <1>1, <1>3, <2>2, <2>3, DespawnedIs
    <2>5. There(os, u) /\ OneFocus(u)
      BY <2>4 DEF Going, Standing, There, OneFocus
    <2>6. Later(os, v, u)
      <3>1. \A x \in Windows : Met(os, v, x) => Met(os, u, x)
        BY <2>4 DEF Going, Met
      <3> QED
        BY <2>4, <3>1 DEF Going, Later
    <2>7. ASSUME NEW x \in Windows \ {w} PROVE Sound(os, u, c2, x)
      <3>1. x \in u.focused => x \in v.focused \/ (x \in v.known /\ Met(os, v, x))
        BY <2>4 DEF Going
      <3>2. (x \in u.known <=> x \in v.known) /\ (x \in u.fresh <=> x \in v.fresh)
        BY <2>4 DEF Going
      <3> QED
        BY <2>4, <3>1, <3>2, SoundStays DEF Going, Standing
    <2>8. Sound(os, u, c2, w)
      <3>1. Met(os, u, w)
        BY <2>4 DEF Going, Met
      <3> QED
        BY <2>4, <3>1 DEF Going, Sound
    <2> QED
      BY <2>4, <2>5, <2>6, <2>7, <2>8 DEF Going, Standing
  <1> QED
    BY <1>2, <1>3

LEMMA SpawnKeeps ==
    ASSUME NEW v, NEW c1, NEW c2, NEW w \in Windows,
           Standing(os, v, c1),
           \A x \in Windows : Leaves(c1, x) => Leaves(c2, x),
           \A x \in Windows : Rejected(c2, x) => Rejected(c1, x),
           NEW u, u = Spawned(v, w)
    PROVE  Standing(os, u, c2) /\ Later(os, v, u)
  <1>1. v \in Worlds /\ There(os, v)
    BY DEF Standing
  <1>2. Coming(v, u, w)
    BY <1>1, SpawnedIs
  <1>3. OneFocus(u) /\ There(os, u)
    BY <1>1, <1>2 DEF Coming, Standing, There, OneFocus, Alike
  <1>4. w \notin v.known /\ w \in os.open => ~Met(os, v, w)
    BY <1>1 DEF There, Met
  <1>5. Later(os, v, u)
    <2>1. \A x \in Windows : Met(os, v, x) => Met(os, u, x)
      BY <1>2, <1>4 DEF Coming, Met, Alike
    <2> QED
      BY <1>2, <2>1 DEF Coming, Later, Alike
  <1>6. ASSUME NEW x \in Windows \ {w} PROVE Sound(os, u, c2, x)
    <2>1. x \in u.focused => x \in v.focused \/ (x \in v.known /\ Met(os, v, x))
      BY <1>2 DEF Coming
    <2>2. (x \in u.known <=> x \in v.known) /\ (x \in u.fresh <=> x \in v.fresh)
      BY <1>2 DEF Coming, Alike
    <2> QED
      BY <1>2, <2>1, <2>2, SoundStays DEF Coming, Standing
  <1>7. Sound(os, u, c2, w)
    <2>1. Sound(os, v, c1, w)
      BY DEF Standing
    <2>2. CASE Alike(v, u)
      <3>1. w \in u.focused => w \in v.focused \/ (w \in v.known /\ Met(os, v, w))
        BY <1>2 DEF Coming
      <3> QED
        BY <1>2, <2>1, <2>2, <3>1, SoundStays DEF Coming, Alike
    <2>3. CASE w \notin v.known /\ w \in os.open /\ w \in u.known /\ w \in u.fresh
      <3>1. RowsWith(v, w) = {} /\ v.unmanaged[w] = "none" /\ w \notin v.focused /\ w # v.pending
        BY <1>4, <2>1, <2>3 DEF Sound
      <3> QED
        BY <1>2, <2>1, <2>3, <3>1 DEF Coming, Sound, Untouched
    <2> QED
      BY <1>2, <2>2, <2>3 DEF Coming
  <1> QED
    BY <1>2, <1>3, <1>5, <1>6, <1>7 DEF Coming, Standing

LEMMA DespawnedIn ==
    ASSUME NEW v \in Worlds, NEW w \in Windows, NEW near
    PROVE  Despawned(v, w, near) \in Worlds
  <1> DEFINE m == Unrowed(v, w)
             k == Managing(m, w, near)
             u == [k EXCEPT !.known = k.known \ {w}, !.focused = k.focused \ {w},
                            !.fresh = k.fresh \ {w},
                            !.unmanaged = [k.unmanaged EXCEPT ![w] = "none"],
                            !.previous = [k.previous EXCEPT ![w] = {}]]
  <1>1. m \in Worlds
    BY UnrowedIs
  <1>2. Despawned(v, w, near) = v \/ Despawned(v, w, near) = u
    BY DEF Despawned
  <1> HIDE DEF m
  <1>3. k \in Worlds
    <2>1. CASE w \notin m.known \/ m.unmanaged[w] = "none"
      BY <1>1, <2>1 DEF Managing
    <2>2. CASE w \in m.known /\ m.unmanaged[w] # "none"
      BY <1>1, <2>2, ManagingIs DEF Returning
    <2> QED
      BY <2>1, <2>2
  <1> HIDE DEF k
  <1> DEFINE states == [k.unmanaged EXCEPT ![w] = "none"]
             before == [k.previous EXCEPT ![w] = {}]
  <1>4. /\ k.unmanaged \in [Windows -> Away \cup {"none", "floating"}]
        /\ k.previous \in [Windows -> SUBSET Homes]
    BY <1>3 DEF Worlds
  <1>5. /\ states \in [Windows -> Away \cup {"none", "floating"}]
        /\ before \in [Windows -> SUBSET Homes]
    BY <1>4
  <1> HIDE DEF states, before
  <1>6. u = [k EXCEPT !.known = k.known \ {w}, !.focused = k.focused \ {w},
                      !.fresh = k.fresh \ {w}, !.unmanaged = states, !.previous = before]
    BY DEF states, before
  <1> HIDE DEF u
  <1>7. u \in Worlds
    BY <1>3, <1>5, <1>6 DEF Worlds
  <1> QED
    BY <1>2, <1>7

\* What the commands are about.
LEMMA CommandIs ==
    ASSUME NEW c \in Commands
    PROVE  /\ c.op = "unmanage" =>
                  /\ c.on \in [window : Windows, as : Away \cup {"floating"}]
                  /\ c.on.window \in Windows /\ c.on.as \in Away \cup {"floating"}
           /\ c.op \in {"manage", "focus", "mark", "despawn", "spawn", "stray"} => c.on \in Windows
           /\ c.op = "activate" => c.on \in 1 .. Rows
           /\ c.op = "send" => c.on \in Focusings
           /\ c.op \in {"retry", "settled"} => c.on \in Apps
           /\ c.op \in {"unmanage", "manage", "focus", "mark", "activate", "despawn", "spawn",
                        "send", "stray", "retry", "settled"}
  BY DEF Commands

\* Commands that change neither which windows there are nor their places.
LEMMA AsideIs ==
    ASSUME NEW v \in Worlds, NEW c \in Commands, NEW near,
           c.op \in {"activate", "send", "stray", "retry", "settled"},
           NEW u, u = Applied(v, c, near)
    PROVE  /\ u \in Worlds /\ Alike(v, u) /\ u.focused = v.focused
           /\ \A x \in Windows : Untouched(v, u, x)
  <1> DEFINE Like == /\ u \in Worlds /\ Alike(v, u) /\ u.focused = v.focused
                     /\ u.rows = v.rows /\ u.unmanaged = v.unmanaged /\ u.previous = v.previous
  <1>0. SUFFICES Like
    BY RowsOnly DEF Untouched
  <1>1. CASE c.op = "activate"
    <2>1. u = [v EXCEPT !.active = c.on] /\ c.on \in 1 .. Rows
      BY <1>1, CommandIs DEF Applied
    <2> QED
      BY <2>1 DEF Worlds, Alike
  <1>2. CASE c.op = "send"
    <2> DEFINE sent == Append(v.sent, c.on)
    <2>1. u = [v EXCEPT !.sent = sent] /\ c.on \in Focusings
      BY <1>2, CommandIs DEF Applied, Sent
    <2>2. v.sent \in Seq(Focusings)
      BY DEF Worlds
    <2>3. sent \in Seq(Focusings)
      BY <2>1, <2>2
    <2> HIDE DEF sent
    <2> QED
      BY <2>1, <2>3 DEF Worlds, Alike
  <1>3. CASE c.op = "stray"
    <2> DEFINE new == v.strays \cup {c.on}
    <2>1. u = [v EXCEPT !.strays = new] /\ c.on \in Windows
      BY <1>3, CommandIs DEF Applied
    <2>2. v.strays \in SUBSET Windows
      BY DEF Worlds
    <2>3. new \in SUBSET Windows
      BY <2>1, <2>2
    <2> HIDE DEF new
    <2> QED
      BY <2>1, <2>3 DEF Worlds, Alike
  <1>4. CASE c.op = "retry"
    <2> DEFINE new == v.retries \cup {c.on}
    <2>1. u = [v EXCEPT !.retries = new] /\ c.on \in Apps
      BY <1>4, CommandIs DEF Applied
    <2>2. v.retries \in SUBSET Apps
      BY DEF Worlds
    <2>3. new \in SUBSET Apps
      BY <2>1, <2>2
    <2> HIDE DEF new
    <2> QED
      BY <2>1, <2>3 DEF Worlds, Alike
  <1>5. CASE c.op = "settled"
    <2>1. u = [v EXCEPT !.retries = v.retries \ {c.on}]
      BY <1>5 DEF Applied
    <2> QED
      BY <2>1 DEF Worlds, Alike
  <1> QED
    BY <1>1, <1>2, <1>3, <1>4, <1>5

LEMMA AppliedIn ==
    ASSUME NEW v \in Worlds, NEW c \in Commands, NEW near
    PROVE  Applied(v, c, near) \in Worlds
  <1>1. CASE c.op = "unmanage"
    <2> DEFINE w == c.on.window
               as == c.on.as
    <2>1. w \in Windows /\ as \in Away \cup {"floating"}
      BY <1>1, CommandIs
    <2>2. Applied(v, c, near) = Unmanaging(v, w, as, near)
      BY <1>1 DEF Applied
    <2> HIDE DEF w, as
    <2>3. CASE w \notin v.known
      BY <2>2, <2>3 DEF Unmanaging
    <2>4. CASE w \in v.known
      <3>1. Leaving(v, Unmanaging(v, w, as, near), w, as)
        BY <2>1, <2>4, UnmanagingIs
      <3> QED
        BY <2>2, <3>1 DEF Leaving
    <2> QED
      BY <2>3, <2>4
  <1>2. CASE c.op = "manage"
    <2>1. Applied(v, c, near) = Managing(v, c.on, near)
      BY <1>2 DEF Applied
    <2>2. CASE c.on \notin v.known \/ v.unmanaged[c.on] = "none"
      BY <2>1, <2>2 DEF Managing
    <2>3. CASE c.on \in v.known /\ v.unmanaged[c.on] # "none"
      BY <2>1, <2>3, ManagingIs DEF Returning
    <2> QED
      BY <2>2, <2>3
  <1>3. CASE c.op = "focus"
    <2>1. Applied(v, c, near) = FocusEntity(v, c.on)
      BY <1>3 DEF Applied
    <2> QED
      BY <2>1, FocusIn
  <1>4. CASE c.op = "mark"
    <2>1. Applied(v, c, near) = Marked(v, c.on)
      BY <1>4 DEF Applied
    <2> QED
      BY <2>1, FocusIn
  <1>5. CASE c.op = "despawn"
    <2>1. Applied(v, c, near) = Despawned(v, c.on, near) /\ c.on \in Windows
      BY <1>5, CommandIs DEF Applied
    <2> QED
      BY <2>1, DespawnedIn
  <1>6. CASE c.op = "spawn"
    <2>1. Applied(v, c, near) = Spawned(v, c.on) /\ c.on \in Windows
      BY <1>6, CommandIs DEF Applied
    <2> QED
      BY <2>1, SpawnedIs DEF Coming
  <1>7. CASE c.op \in {"activate", "send", "stray", "retry", "settled"}
    BY <1>7, AsideIs
  <1> QED
    BY <1>1, <1>2, <1>3, <1>4, <1>5, <1>6, <1>7, CommandIs

\* A command that fits keeps what holds of the windows.
LEMMA AppliedKeeps ==
    ASSUME NEW v, NEW c \in Commands, NEW cs, NEW near, Outlasting = {},
           Standing(os, v, cs \cup {c}), Fit(os, v, c),
           NEW u, u = Applied(v, c, near)
    PROVE  /\ Standing(os, u, cs) /\ Later(os, v, u)
           /\ c.op = "despawn" => c.on \notin u.known
  <1>1. v \in Worlds
    BY DEF Standing
  <1>2. \A x \in Windows : Rejected(cs, x) => Rejected(cs \cup {c}, x)
    BY DEF Rejected
  <1>3. ASSUME c.op # "unmanage"
        PROVE  \A x \in Windows : Leaves(cs \cup {c}, x) => Leaves(cs, x)
    BY <1>3 DEF Leaves
  <1>4. CASE c.op = "unmanage"
    <2> DEFINE w == c.on.window
               as == c.on.as
    <2>1. w \in Windows /\ as \in Away \cup {"floating"}
      BY <1>4, CommandIs
    <2>2. u = Unmanaging(v, w, as, near)
      BY <1>4 DEF Applied
    <2>3. Met(os, v, w) \/ (as = "hidden" /\ w \in os.closed)
      BY <1>4 DEF Fit
    <2>4. \A x \in Windows \ {w} : Leaves(cs \cup {c}, x) => Leaves(cs, x)
      BY DEF Leaves
    <2>5. as = "floating" => Rejected(cs \cup {c}, w)
      BY <1>4 DEF Rejected
    <2> HIDE DEF w, as
    <2> QED
      BY <1>2, <1>4, <2>1, <2>2, <2>3, <2>4, <2>5, UnmanageKeeps
  <1>5. CASE c.op = "manage"
    <2>1. u = Managing(v, c.on, near) /\ c.on \in Windows
      BY <1>5, CommandIs DEF Applied
    <2> QED
      BY <1>2, <1>3, <1>5, <2>1, ManageKeeps
  <1>6. CASE c.op \in {"focus", "mark"}
    <2>1. u \in {Marked(v, c.on), FocusEntity(v, c.on)}
      BY <1>6 DEF Applied
    <2>2. Met(os, v, c.on)
      BY <1>6 DEF Fit
    <2>3. Standing(os, u, cs \cup {c}) /\ Later(os, v, u)
      BY <2>1, <2>2, FocusKeeps
    <2>4. ASSUME NEW x \in Windows PROVE Sound(os, u, cs, x)
      <3>1. Sound(os, u, cs \cup {c}, x)
        BY <2>3 DEF Standing
      <3> QED
        BY <1>2, <1>3, <1>6, <3>1 DEF Sound
    <2> QED
      BY <1>6, <2>3, <2>4 DEF Standing
  <1>7. CASE c.op = "despawn"
    <2>1. u = Despawned(v, c.on, near) /\ c.on \in os.closed
      BY <1>7 DEF Applied, Fit
    <2> QED
      BY <1>2, <1>3, <1>7, <2>1, DespawnKeeps
  <1>8. CASE c.op = "spawn"
    <2>1. u = Spawned(v, c.on) /\ c.on \in Windows
      BY <1>8, CommandIs DEF Applied
    <2> QED
      BY <1>2, <1>3, <1>8, <2>1, SpawnKeeps
  <1>9. CASE c.op \in {"activate", "send", "stray", "retry", "settled"}
    <2>1. /\ u \in Worlds /\ Alike(v, u) /\ u.focused = v.focused
          /\ \A x \in Windows : Untouched(v, u, x)
      BY <1>1, <1>9, AsideIs
    <2>2. There(os, u) /\ OneFocus(u) /\ Later(os, v, u)
      BY <2>1 DEF Standing, There, OneFocus, Later, Met, Alike
    <2>3. ASSUME NEW x \in Windows PROVE Sound(os, u, cs, x)
      BY <1>2, <1>3, <1>9, <2>1, SoundStays DEF Standing, Alike
    <2> QED
      BY <1>9, <2>1, <2>2, <2>3 DEF Standing
  <1> QED
    BY <1>4, <1>5, <1>6, <1>7, <1>8, <1>9, CommandIs

------------------------------------------------------------------------------
(* All the commands of a sync point *)

\* The worlds the commands go through.
LEMMA AllAppliedGoes ==
    ASSUME NEW v \in Worlds, NEW cs \in Seq(Commands), NEW near
    PROVE  \E tr \in [0 .. Len(cs) -> Worlds] :
               /\ tr[0] = v /\ tr[Len(cs)] = AllApplied(v, cs, near)
               /\ \A i \in 1 .. Len(cs) : tr[i] = Applied(tr[i - 1], cs[i], near)
  <1> DEFINE n == Len(cs)
             A == Worlds
             Rule(f, s) == IF s = {} THEN v ELSE Applied(f[s \ {Max(s)}], cs[Max(s)], near)
             Solves(f) == f = [s \in SUBSET DOMAIN cs |-> Rule(f, s)]
  <1>1. n \in Nat /\ DOMAIN cs = 1 .. n
    OBVIOUS
  <1>2. \A m \in A, c \in Commands : Applied(m, c, near) \in A
    BY AppliedIn
  <1>3. \A s \in SUBSET (1 .. n) : s # {} => Max(s) \in 1 .. n /\ cs[Max(s)] \in Commands
    <2>1. \A s \in SUBSET (1 .. n) : s # {} => Max(s) \in 1 .. n
      BY <1>1, MaxIn
    <2> QED
      BY <1>1, <2>1
  <1> HIDE DEF A, n
  <1>4. v \in A
    BY DEF A
  <1>5. \E f : Solves(f)
    <2> DEFINE step == [p \in (SUBSET (1 .. n)) \X A |->
                           IF p[1] = {} THEN v ELSE Applied(p[2], cs[Max(p[1])], near)]
    <2>1. step \in [(SUBSET (1 .. n)) \X A -> A]
      <3>1. \A p \in (SUBSET (1 .. n)) \X A :
                (IF p[1] = {} THEN v ELSE Applied(p[2], cs[Max(p[1])], near)) \in A
        BY <1>2, <1>3, <1>4
      <3> QED
        BY <3>1
    <2>2. PICK f : Folds(f, A, v, n, step)
      <3> HIDE DEF step
      <3> QED
        BY <1>1, <1>4, <2>1, FoldThere
    <2>3. ASSUME NEW s \in SUBSET (1 .. n) PROVE f[s] = Rule(f, s)
      <3>1. f[s \ {Max(s)}] \in A
        BY <2>2 DEF Folds
      <3>2. s # {} => step[<<s, f[s \ {Max(s)}]>>] = Applied(f[s \ {Max(s)}], cs[Max(s)], near)
        BY <3>1
      <3> QED
        BY <2>2, <3>2 DEF Folds
    <2> HIDE DEF Rule
    <2>4. f = [s \in SUBSET (1 .. n) |-> Rule(f, s)]
      BY <2>2, <2>3 DEF Folds
    <2> QED
      BY <2>4, <1>1
  <1>6. PICK f : Solves(f) /\ AllApplied(v, cs, near) = f[DOMAIN cs]
    BY <1>5, Zenon DEF AllApplied, FoldLeft, MapThenFoldSet
  <1>7. \A s \in SUBSET (1 .. n) : f[s] = Rule(f, s)
    <2> HIDE DEF Rule
    <2> QED
      BY <1>1, <1>6
  <1>8. f[1 .. 0] = v
    <2>1. 1 .. 0 = {} /\ {} \in SUBSET (1 .. n)
      OBVIOUS
    <2> QED
      BY <1>7, <2>1
  <1>9. ASSUME NEW i \in 1 .. n PROVE f[1 .. i] = Applied(f[1 .. (i - 1)], cs[i], near)
    <2>1. /\ 1 .. i \in SUBSET (1 .. n) /\ 1 .. i # {}
          /\ Max(1 .. i) = i /\ (1 .. i) \ {i} = 1 .. (i - 1)
      BY <1>1, Stages
    <2> QED
      BY <1>7, <2>1
  <1> DEFINE T == {i \in 0 .. n : f[1 .. i] \in A}
             tr == [i \in 0 .. n |-> f[1 .. i]]
  <1>10. 0 .. n \subseteq T
    <2>1. 0 \in T
      BY <1>1, <1>4, <1>8
    <2>2. ASSUME NEW i \in 1 .. n, i - 1 \in T PROVE i \in T
      BY <1>1, <1>2, <1>9, <2>2
    <2> HIDE DEF T
    <2> QED
      BY <1>1, <2>1, <2>2, UpTo
  <1>11. tr \in [0 .. n -> A]
    BY <1>10
  <1>12. tr[0] = v /\ tr[n] = f[DOMAIN cs]
    BY <1>1, <1>8
  <1>13. \A i \in 1 .. n : tr[i] = Applied(tr[i - 1], cs[i], near)
    BY <1>1, <1>9
  <1> HIDE DEF tr
  <1> QED
    BY <1>6, <1>11, <1>12, <1>13 DEF A, n

\* A command fits as long as windows that were met are not to be placed again.
LEMMA FitStays ==
    ASSUME NEW v, NEW u, NEW c \in Commands, Fit(os, v, c), Later(os, v, u)
    PROVE  Fit(os, u, c)
  <1>1. c.op = "unmanage" => c.on.window \in Windows
    BY CommandIs
  <1>2. c.op \in {"focus", "mark"} => c.on \in Windows
    BY CommandIs
  <1> QED
    BY <1>1, <1>2 DEF Fit, Later

LEMMA LaterOn ==
    ASSUME NEW v, NEW u, NEW m, Later(os, v, u), Later(os, u, m)
    PROVE  Later(os, v, m)
  BY DEF Later

\* Row r is where w is, or where it goes back to, or it is gone.
HasPlace(v, w, r) ==
    \/ w \notin v.known /\ w \in os.closed
    \/ v.unmanaged[w] = "none" /\ RowsWith(v, w) = {r}
    \/ /\ v.unmanaged[w] # "floating" /\ RowsWith(v, w) = {}
       /\ \E p \in Homes : v.previous[w] = {p} /\ p.row = r

LEMMA PlaceStays ==
    ASSUME NEW v, NEW u, NEW w \in Windows, NEW r, HasPlace(v, w, r),
           Untouched(v, u, w), w \notin v.known /\ w \in os.closed => w \notin u.known
    PROVE  HasPlace(u, w, r)
  BY DEF HasPlace, Untouched

\* A window has its place as long as it is not floated.
LEMMA AppliedPlace ==
    ASSUME NEW v, NEW c \in Commands, NEW cs, NEW near, Outlasting = {},
           Standing(os, v, cs), Fit(os, v, c), NEW u, u = Applied(v, c, near),
           NEW w \in Windows, NEW r, ~Rejected({c}, w), HasPlace(v, w, r)
    PROVE  HasPlace(u, w, r)
  <1>1. v \in Worlds /\ There(os, v) /\ Answering = os.open
    BY DEF Standing, Answering
  <1>2. CASE c.op = "unmanage"
    <2> DEFINE x == c.on.window
               as == c.on.as
    <2>1. x \in Windows /\ as \in Away \cup {"floating"}
      BY <1>2, CommandIs
    <2>2. u = Unmanaging(v, x, as, near)
      BY <1>2 DEF Applied
    <2>3. x = w => as # "floating"
      BY <1>2 DEF Rejected
    <2> HIDE DEF x, as
    <2>4. CASE x \notin v.known
      BY <2>2, <2>4 DEF Unmanaging
    <2>5. CASE x \in v.known
      <3>1. Leaving(v, Unmanaging(v, x, as, near), x, as)
        BY <1>1, <2>1, <2>5, UnmanagingIs
      <3>2. Leaving(v, u, x, as)
        BY <2>2, <3>1
      <3>3. CASE x # w
        BY <3>2, <3>3, PlaceStays DEF Leaving, Alike
      <3>4. CASE x = w
        <4>1. as # "floating" /\ u.unmanaged[w] # "floating"
          BY <2>3, <3>2, <3>4 DEF Leaving
        <4>2. CASE v.unmanaged[w] = "none" /\ RowsWith(v, w) = {r}
          <5>1. \E p \in Homes : u.previous[w] = {p} /\ p.row \in RowsWith(v, w)
            BY <3>2, <3>4, <4>1, <4>2 DEF Leaving
          <5>2. RowsWith(u, w) = {}
            BY <3>2, <3>4, <4>2 DEF Leaving
          <5> QED
            BY <4>1, <4>2, <5>1, <5>2 DEF HasPlace
        <4>3. CASE RowsWith(v, w) = {} /\ \E p \in Homes : v.previous[w] = {p} /\ p.row = r
          <5>1. u.previous[w] = v.previous[w] /\ RowsWith(u, w) = {}
            BY <3>2, <3>4, <4>3 DEF Leaving
          <5> QED
            BY <4>1, <4>3, <5>1 DEF HasPlace
        <4> QED
          BY <2>5, <3>4, <4>2, <4>3 DEF HasPlace
      <3> QED
        BY <3>3, <3>4
    <2> QED
      BY <2>4, <2>5
  <1>3. CASE c.op = "manage"
    <2> DEFINE x == c.on
    <2>1. x \in Windows /\ u = Managing(v, x, near)
      BY <1>3, CommandIs DEF Applied
    <2> HIDE DEF x
    <2>2. CASE x \notin v.known \/ v.unmanaged[x] = "none"
      BY <2>1, <2>2 DEF Managing
    <2>3. CASE x \in v.known /\ v.unmanaged[x] # "none"
      <3>1. Returning(v, u, x)
        BY <1>1, <2>1, <2>3, ManagingIs
      <3>2. CASE x # w
        BY <3>1, <3>2, PlaceStays DEF Returning, Alike
      <3>3. CASE x = w
        <4>1. PICK p \in Homes : v.previous[w] = {p} /\ p.row = r /\ RowsWith(v, w) = {}
          BY <2>3, <3>3 DEF HasPlace
        <4>2. CASE w \in Answering
          <5>1. RowsWith(u, w) = {r} /\ u.unmanaged[w] = "none"
            BY <3>1, <3>3, <4>1, <4>2 DEF Returning
          <5> QED
            BY <5>1 DEF HasPlace
        <4>3. CASE w \notin Answering
          <5>1. RowsWith(u, w) = {} /\ u.previous[w] = {p} /\ u.unmanaged[w] = "none"
            BY <3>1, <3>3, <4>1, <4>3 DEF Returning
          <5> QED
            BY <4>1, <5>1 DEF HasPlace
        <4> QED
          BY <4>2, <4>3
      <3> QED
        BY <3>2, <3>3
    <2> QED
      BY <2>2, <2>3
  <1>4. CASE c.op \in {"focus", "mark"}
    <2>1. u \in {Marked(v, c.on), FocusEntity(v, c.on)}
      BY <1>4 DEF Applied
    <2>2. Alike(v, u) /\ Untouched(v, u, w)
      BY <1>1, <2>1, FocusIn
    <2> QED
      BY <2>2, PlaceStays DEF Alike
  <1>5. CASE c.op = "despawn"
    <2> DEFINE x == c.on
    <2>1. x \in Windows /\ u = Despawned(v, x, near) /\ x \in os.closed
      BY <1>5, CommandIs DEF Applied, Fit
    <2> HIDE DEF x
    <2>2. CASE x \notin v.known
      BY <2>1, <2>2 DEF Despawned
    <2>3. CASE x \in v.known
      <3>1. \A q, s \in RowsWith(v, x) : q = s
        BY <2>1 DEF Standing, Sound
      <3>2. Going(v, u, x)
        BY <1>1, <2>1, <2>3, <3>1, DespawnedIs DEF There
      <3>3. CASE x # w
        BY <3>2, <3>3, PlaceStays DEF Going
      <3>4. CASE x = w
        BY <2>1, <3>2, <3>4 DEF Going, HasPlace
      <3> QED
        BY <3>3, <3>4
    <2> QED
      BY <2>2, <2>3
  <1>6. CASE c.op = "spawn"
    <2>1. c.on \in Windows /\ u = Spawned(v, c.on)
      BY <1>6, CommandIs DEF Applied
    <2>2. Coming(v, u, c.on)
      BY <1>1, <2>1, SpawnedIs
    <2>3. w \notin v.known /\ w \in os.closed => w \notin u.known
      BY <1>1, <2>2 DEF Coming, Alike, There
    <2> QED
      BY <2>2, <2>3, PlaceStays DEF Coming
  <1>7. CASE c.op \in {"activate", "send", "stray", "retry", "settled"}
    <2>1. Alike(v, u) /\ Untouched(v, u, w)
      BY <1>1, <1>7, AsideIs
    <2> QED
      BY <2>1, PlaceStays DEF Alike
  <1> QED
    BY <1>2, <1>3, <1>4, <1>5, <1>6, <1>7, CommandIs

LEMMA AllAppliedKeeps ==
    ASSUME NEW v, NEW cs \in Seq(Commands), NEW near, Outlasting = {},
           Standing(os, v, ToSet(cs)), \A i \in DOMAIN cs : Fit(os, v, cs[i]),
           NEW u, u = AllApplied(v, cs, near)
    PROVE  /\ Standing(os, u, {}) /\ Later(os, v, u)
           /\ \A i \in DOMAIN cs : cs[i].op = "despawn" => cs[i].on \notin u.known
           /\ \A w \in Windows, r \in 1 .. Rows :
                  HasPlace(v, w, r) /\ ~Rejected(ToSet(cs), w) => HasPlace(u, w, r)
  <1> DEFINE n == Len(cs)
             rest(i) == {cs[j] : j \in (i + 1) .. n}
  <1>1. n \in Nat /\ DOMAIN cs = 1 .. n /\ \A i \in 1 .. n : cs[i] \in Commands
    OBVIOUS
  <1>2. v \in Worlds
    BY DEF Standing
  <1>3. PICK tr \in [0 .. n -> Worlds] :
            /\ tr[0] = v /\ tr[n] = u
            /\ \A i \in 1 .. n : tr[i] = Applied(tr[i - 1], cs[i], near)
    BY <1>2, AllAppliedGoes
  <1> HIDE DEF n
  <1> DEFINE Good(i) == /\ Standing(os, tr[i], rest(i)) /\ Later(os, v, tr[i])
                        /\ \A j \in 1 .. i : cs[j].op = "despawn" => cs[j].on \notin tr[i].known
                        /\ \A w \in Windows, r \in 1 .. Rows :
                              HasPlace(v, w, r) /\ ~Rejected(ToSet(cs), w) => HasPlace(tr[i], w, r)
             T == {i \in 0 .. n : Good(i)}
  <1>4. 0 \in T
    <2>1. rest(0) = ToSet(cs)
      BY <1>1 DEF ToSet
    <2> HIDE DEF rest
    <2>2. Later(os, v, v)
      BY DEF Later
    <2> QED
      BY <1>1, <1>3, <2>1, <2>2
  <1>5. ASSUME NEW i \in 1 .. n, i - 1 \in T PROVE i \in T
    <2> DEFINE k == i - 1
               m == tr[k]
    <2>1. k \in 0 .. n /\ i \in 0 .. n /\ cs[i] \in Commands /\ Good(k)
      <3>1. k \in 0 .. n /\ i \in 0 .. n /\ cs[i] \in Commands
        BY <1>1
      <3> HIDE DEF Good
      <3> QED
        BY <1>5, <3>1
    <2>2. rest(k) = rest(i) \cup {cs[i]}
      <3>1. (k + 1) .. n = ((i + 1) .. n) \cup {i}
        BY <1>1
      <3> QED
        BY <3>1
    <2> HIDE DEF rest
    <2>3. Standing(os, m, rest(i) \cup {cs[i]}) /\ Later(os, v, m)
      BY <2>1, <2>2
    <2>4. Fit(os, v, cs[i])
      BY <1>1
    <2>5. Fit(os, m, cs[i])
      BY <2>1, <2>3, <2>4, FitStays
    <2>6. tr[i] = Applied(m, cs[i], near)
      BY <1>3
    <2>7. /\ \A j \in 1 .. k : cs[j].op = "despawn" => cs[j].on \notin m.known
          /\ \A w \in Windows, r \in 1 .. Rows :
                HasPlace(v, w, r) /\ ~Rejected(ToSet(cs), w) => HasPlace(m, w, r)
      BY <2>1
    <2> HIDE DEF m, k
    <2>8. /\ Standing(os, tr[i], rest(i)) /\ Later(os, m, tr[i])
          /\ cs[i].op = "despawn" => cs[i].on \notin tr[i].known
      BY <2>1, <2>3, <2>5, <2>6, AppliedKeeps
    <2>9. Later(os, v, tr[i])
      BY <2>3, <2>8, LaterOn
    <2>10. ASSUME NEW j \in 1 .. i, cs[j].op = "despawn" PROVE cs[j].on \notin tr[i].known
      <3>1. CASE j = i
        BY <2>8, <2>10, <3>1
      <3>2. CASE j # i
        <4>1. j \in 1 .. k
          BY <1>1, <3>2 DEF k
        <4>2. cs[j].on \notin m.known
          BY <2>7, <2>10, <4>1
        <4>3. cs[j].on \in os.closed
          <5>1. j \in DOMAIN cs
            BY <1>1
          <5> QED
            BY <2>10, <5>1 DEF Fit
        <4>4. os.open \cap os.closed = {}
          BY DEF Standing, There
        <4> QED
          BY <2>8, <4>2, <4>3, <4>4 DEF Later
      <3> QED
        BY <3>1, <3>2
    <2>11. ASSUME NEW w \in Windows, NEW r \in 1 .. Rows, HasPlace(v, w, r), ~Rejected(ToSet(cs), w)
           PROVE  HasPlace(tr[i], w, r)
      <3>1. cs[i] \in ToSet(cs)
        BY <1>1 DEF ToSet
      <3>2. ~Rejected({cs[i]}, w)
        BY <2>11, <3>1 DEF Rejected
      <3>3. HasPlace(m, w, r)
        BY <2>7, <2>11
      <3> QED
        BY <2>1, <2>3, <2>5, <2>6, <3>2, <3>3, AppliedPlace
    <2> QED
      BY <2>1, <2>8, <2>9, <2>10, <2>11
  <1>6. n \in T
    <2> HIDE DEF T
    <2>1. 0 .. n \subseteq T
      BY <1>1, <1>4, <1>5, UpTo
    <2> QED
      BY <1>1, <2>1
  <1>7. rest(n) = {}
    BY <1>1
  <1> HIDE DEF rest
  <1> QED
    BY <1>1, <1>3, <1>6, <1>7

------------------------------------------------------------------------------
(* What the systems do *)

\* The commands cs find all as they may change it, and those to be floated
\* have left their rows.
Keeping(o, v, cs) ==
    /\ Standing(o, v, cs) /\ \A c \in cs : Fit(o, v, c)
    /\ \A w \in Windows : Rejected(cs, w) => RowsWith(v, w) = {}

States == [v : Worlds, out : Seq(Commands)]
Same(v, u) == u.known = v.known /\ u.unmanaged = v.unmanaged /\ u.previous = v.previous
\* A system has come to s, and from there on to t.
Working(s) ==
    /\ s \in States /\ Keeping(os, s.v, ToSet(cmds) \cup ToSet(s.out))
    /\ Same(world, s.v) /\ Later(os, world, s.v)
Onward(s, t) == Working(t) /\ ToSet(s.out) \subseteq ToSet(t.out)

LEMMA CommandsIn ==
    /\ \A w \in Windows : \A op \in {"manage", "focus", "mark", "despawn", "spawn", "stray"} :
          Command(op, w) \in Commands
    /\ \A w \in Windows, as \in Away \cup {"floating"} :
          Command("unmanage", [window |-> w, as |-> as]) \in Commands
    /\ \A r \in 1 .. Rows : Command("activate", r) \in Commands
    /\ \A w \in Windows : Command("send", Event("focused", w)) \in Commands
    /\ \A app \in Apps : /\ Command("retry", app) \in Commands
                         /\ Command("settled", app) \in Commands
  BY DEF Command, Commands, Event, Focusings

LEMMA EventIs ==
    ASSUME NEW e \in Events
    PROVE  /\ e.kind \in {"focused", "minimized", "deminimized", "destroyed", "leftSpace"} =>
                  e.about \in Windows
           /\ e.kind \in {"fronted", "hidden", "visible"} => e.about \in Apps
           /\ e = Event(e.kind, e.about)
  BY DEF Events, Event

\* More commands that fit, none of which floats a window.
LEMMA MoreKeeps ==
    ASSUME NEW o, NEW v, NEW cs, NEW more, Keeping(o, v, cs),
           \A c \in more : Fit(o, v, c) /\ (c.op = "unmanage" => c.on.as # "floating")
    PROVE  Keeping(o, v, cs \cup more)
  <1>1. \A w : Rejected(cs \cup more, w) => Rejected(cs, w)
    BY DEF Rejected
  <1>2. \A w : Leaves(cs, w) => Leaves(cs \cup more, w)
    BY DEF Leaves
  <1>3. ASSUME NEW w \in Windows PROVE Sound(o, v, cs \cup more, w)
    <2>1. Sound(o, v, cs, w)
      BY DEF Keeping, Standing
    <2> QED
      BY <1>1, <1>2, <2>1 DEF Sound
  <1> QED
    BY <1>1, <1>3 DEF Keeping, Standing

\* As a sequence.
LEMMA AddedKeeps ==
    ASSUME NEW s, Working(s), NEW new \in Seq(Commands),
           \A c \in ToSet(new) : Fit(os, s.v, c) /\ (c.op = "unmanage" => c.on.as # "floating"),
           NEW t, t = [s EXCEPT !.out = s.out \o new]
    PROVE  /\ Onward(s, t) /\ t.v = s.v
           /\ ToSet(t.out) = ToSet(s.out) \cup ToSet(new)
  <1>1. s \in States /\ s.out \in Seq(Commands)
    BY DEF Working, States
  <1> DEFINE out == s.out \o new
  <1>2. out \in Seq(Commands) /\ ToSet(out) = ToSet(s.out) \cup ToSet(new)
    BY <1>1, ToSetConcat
  <1>3. t = [s EXCEPT !.out = out]
    OBVIOUS
  <1> HIDE DEF out
  <1>4. t \in States /\ t.v = s.v /\ t.out = out
    BY <1>1, <1>2, <1>3 DEF States
  <1> DEFINE now == ToSet(cmds) \cup ToSet(s.out)
  <1>5. Keeping(os, s.v, now \cup ToSet(new))
    <2>1. Keeping(os, s.v, now)
      BY DEF Working
    <2> HIDE DEF now
    <2> QED
      BY <2>1, MoreKeeps
  <1>6. ToSet(cmds) \cup ToSet(t.out) = now \cup ToSet(new)
    BY <1>2, <1>4
  <1> HIDE DEF now
  <1>7. Working(t)
    BY <1>4, <1>5, <1>6 DEF Working
  <1> QED
    BY <1>2, <1>4, <1>7 DEF Onward

LEMMA QueuedKeeps ==
    ASSUME NEW s, Working(s), NEW op, NEW on, Command(op, on) \in Commands,
           Fit(os, s.v, Command(op, on)), op # "unmanage" \/ on.as # "floating",
           NEW t, t = Queued(s, op, on)
    PROVE  /\ Onward(s, t) /\ t.v = s.v
           /\ Command(op, on) \in ToSet(t.out)
  <1> DEFINE c == Command(op, on)
             new == <<c>>
  <1>1. c.op = op /\ c.on = on
    BY DEF Command
  <1>2. s.out \in Seq(Commands)
    BY DEF Working, States
  <1>3. t = [s EXCEPT !.out = Append(s.out, c)]
    BY DEF Queued
  <1>4. c \in Commands /\ Fit(os, s.v, c)
    OBVIOUS
  <1> HIDE DEF c
  <1>5. new \in Seq(Commands) /\ ToSet(new) = {c} /\ Append(s.out, c) = s.out \o new
    BY <1>2, <1>4 DEF ToSet
  <1> HIDE DEF new
  <1>6. t = [s EXCEPT !.out = s.out \o new]
    BY <1>3, <1>5
  <1>7. \A x \in ToSet(new) : Fit(os, s.v, x) /\ (x.op = "unmanage" => x.on.as # "floating")
    BY <1>1, <1>4, <1>5
  <1>8. /\ Onward(s, t) /\ t.v = s.v
        /\ ToSet(t.out) = ToSet(s.out) \cup ToSet(new)
    BY <1>5, <1>6, <1>7, AddedKeeps
  <1> QED
    BY <1>5, <1>8 DEF c

\* What a system changes in the world without the windows' places.
LEMMA AsideKeeps ==
    ASSUME NEW s, Working(s), NEW u \in Worlds,
           u.known = s.v.known, u.fresh = s.v.fresh, u.rows = s.v.rows,
           u.unmanaged = s.v.unmanaged, u.previous = s.v.previous, u.focused = s.v.focused,
           u.pending \in {s.v.pending, NoWindow}, NEW t, t = [s EXCEPT !.v = u]
    PROVE  Onward(s, t) /\ t.v = u
  <1> DEFINE v == s.v
             cs == ToSet(cmds) \cup ToSet(s.out)
  <1>1. t \in States /\ t.v = u /\ t.out = s.out
    BY DEF Working, States
  <1>2. Keeping(os, v, cs) /\ Same(world, v) /\ Later(os, world, v)
    BY DEF Working
  <1>3. \A w : RowsWith(u, w) = RowsWith(v, w)
    BY RowsOnly
  <1>4. /\ u.known = v.known /\ u.fresh = v.fresh /\ u.unmanaged = v.unmanaged
        /\ u.previous = v.previous /\ u.focused = v.focused /\ u.pending \in {v.pending, NoWindow}
    OBVIOUS
  <1> HIDE DEF v
  <1>5. \A w : Met(os, v, w) <=> Met(os, u, w)
    BY <1>4 DEF Met
  <1>6. ASSUME NEW w \in Windows PROVE Sound(os, u, cs, w)
    <2>1. Sound(os, v, cs, w) /\ Untouched(v, u, w)
      BY <1>2, <1>3, <1>4 DEF Keeping, Standing, Untouched
    <2>2. w = u.pending => w = v.pending
      BY <1>4, LifeAssumption
    <2> HIDE DEF cs
    <2> QED
      BY <1>4, <2>1, <2>2, SoundStays
  <1>7. \A c \in cs : Fit(os, u, c)
    BY <1>2, <1>5 DEF Keeping, Fit
  <1>8. There(os, u) /\ OneFocus(u) /\ Same(world, u) /\ Later(os, world, u)
    BY <1>2, <1>4, <1>5 DEF Keeping, Standing, There, OneFocus, Same, Later
  <1>9. Keeping(os, u, cs)
    BY <1>2, <1>3, <1>6, <1>7, <1>8 DEF Keeping, Standing
  <1> QED
    BY <1>1, <1>8, <1>9 DEF Working, Onward

LEMMA OnwardOn ==
    ASSUME NEW s, NEW t, NEW q, Onward(s, t), Onward(t, q)
    PROVE  Onward(s, q)
  BY DEF Onward

LEMMA OnwardHere ==
    ASSUME NEW s, Working(s)
    PROVE  Onward(s, s)
  BY DEF Onward

\* What is known of the windows in such a state.
LEMMA WorkingIs ==
    ASSUME NEW s, Working(s)
    PROVE  /\ s \in States /\ s.v \in Worlds /\ There(os, s.v) /\ OneFocus(s.v)
           /\ \A w \in Windows : Sound(os, s.v, ToSet(cmds) \cup ToSet(s.out), w)
           /\ \A w \in Windows : Met(os, world, w) => Met(os, s.v, w)
           /\ s.v.known = world.known
  BY DEF Working, States, Keeping, Standing, Same, Later

LEMMA RecordedIn ==
    ASSUME NEW v \in Worlds, NEW w \in Windows
    PROVE  LET u == Recorded(v, w)
           IN  /\ u \in Worlds /\ u.known = v.known /\ u.fresh = v.fresh /\ u.rows = v.rows
               /\ u.unmanaged = v.unmanaged /\ u.previous = v.previous
               /\ u.focused = v.focused /\ u.pending = v.pending
  <1> DEFINE u == Recorded(v, w)
  <1>1. \/ u = v \/ u = [v EXCEPT !.lastManaged = w] \/ u = [v EXCEPT !.lastFloating = w]
    BY Zenon DEF Recorded
  <1> HIDE DEF u
  <1>2. w \in Maybe
    BY DEF Maybe
  <1>3. CASE u = v
    BY <1>3 DEF u
  <1>4. CASE u = [v EXCEPT !.lastManaged = w]
    <2>1. /\ u \in Worlds /\ u.known = v.known /\ u.fresh = v.fresh /\ u.rows = v.rows
          /\ u.unmanaged = v.unmanaged /\ u.previous = v.previous
          /\ u.focused = v.focused /\ u.pending = v.pending
      BY <1>2, <1>4 DEF Worlds
    <2> QED
      BY <2>1 DEF u
  <1>5. CASE u = [v EXCEPT !.lastFloating = w]
    <2>1. /\ u \in Worlds /\ u.known = v.known /\ u.fresh = v.fresh /\ u.rows = v.rows
          /\ u.unmanaged = v.unmanaged /\ u.previous = v.previous
          /\ u.focused = v.focused /\ u.pending = v.pending
      BY <1>2, <1>5 DEF Worlds
    <2> QED
      BY <2>1 DEF u
  <1> QED
    BY <1>1, <1>3, <1>4, <1>5

LEMMA FocusedKeeps ==
    ASSUME NEW s, Working(s), NEW w \in s.v.known, NEW t, t = Focused(s, w)
    PROVE  Onward(s, t)
  <1> DEFINE owner == RowsWith(s.v, w)
             new == Recorded(s.v, w)
             kept == [s EXCEPT !.v = new]
             r == CHOOSE r \in owner : \A q \in owner : r <= q
             shown == IF owner = {} \/ s.v.active \in owner THEN kept ELSE Queued(kept, "activate", r)
  <1>1. s \in States /\ s.v \in Worlds /\ w \in Windows
    BY WorkingIs DEF Worlds
  <1>2. Sound(os, s.v, ToSet(cmds) \cup ToSet(s.out), w)
    BY <1>1, WorkingIs
  <1>3. CASE s.v.unmanaged[w] = "hidden"
    <2> DEFINE m == Queued(s, "manage", w)
    <2>1. t = Queued(m, "send", Event("focused", w))
      BY <1>3 DEF Focused
    <2>2. Onward(s, m) /\ m.v = s.v
      <3>1. Command("manage", w) \in Commands /\ Fit(os, s.v, Command("manage", w))
        BY <1>1, CommandsIn DEF Fit, Command
      <3> QED
        BY <3>1, QueuedKeeps
    <2> HIDE DEF m
    <2>3. Onward(m, t)
      <3>1. /\ Command("send", Event("focused", w)) \in Commands
            /\ Fit(os, m.v, Command("send", Event("focused", w)))
        BY <1>1, CommandsIn DEF Fit, Command
      <3> QED
        BY <2>1, <2>2, <3>1, QueuedKeeps DEF Onward
    <2> QED
      BY <2>2, <2>3, OnwardOn
  <1>4. CASE s.v.unmanaged[w] # "hidden" /\ owner = {} /\ s.v.unmanaged[w] = "none"
    <2>1. t = s
      BY <1>4 DEF Focused
    <2> QED
      BY <2>1, OnwardHere
  <1>5. CASE s.v.unmanaged[w] # "hidden" /\ (owner # {} \/ s.v.unmanaged[w] # "none")
    <2>1. t = IF w \in s.v.focused THEN shown ELSE Queued(shown, "mark", w)
      BY <1>5 DEF Focused
    <2>2. Met(os, s.v, w)
      <3>1. s.v.unmanaged[w] \in Away \cup {"none", "floating"}
        BY <1>1 DEF Worlds
      <3> QED
        BY <1>2, <1>5, <3>1 DEF Sound, Away
    <2>3. owner \in SUBSET (1 .. Rows)
      BY DEF RowsWith
    <2>4. owner # {} => r \in 1 .. Rows
      <3> HIDE DEF owner
      <3>1. owner # {} => r \in owner
        BY <2>3, LeastRow
      <3> QED
        BY <2>3, <3>1
    <2>5. /\ new \in Worlds /\ new.known = s.v.known /\ new.fresh = s.v.fresh /\ new.rows = s.v.rows
          /\ new.unmanaged = s.v.unmanaged /\ new.previous = s.v.previous
          /\ new.focused = s.v.focused /\ new.pending = s.v.pending
      BY <1>1, RecordedIn
    <2> HIDE DEF new
    <2>6. Onward(s, kept) /\ kept.v = new
      BY <2>5, AsideKeeps
    <2> HIDE DEF kept, r, owner
    <2>7. Onward(s, shown) /\ shown.v = new
      <3>1. CASE owner = {} \/ s.v.active \in owner
        BY <2>6, <3>1
      <3>2. CASE ~(owner = {} \/ s.v.active \in owner)
        <4>1. Command("activate", r) \in Commands /\ Fit(os, kept.v, Command("activate", r))
          BY <2>4, <3>2, CommandsIn DEF Fit, Command
        <4>2. shown = Queued(kept, "activate", r) /\ Working(kept)
          BY <2>6, <3>2 DEF Onward
        <4> HIDE DEF shown
        <4>3. Onward(kept, shown) /\ shown.v = kept.v
          BY <4>1, <4>2, QueuedKeeps
        <4> QED
          BY <2>6, <4>3, OnwardOn
      <3> QED
        BY <3>1, <3>2
    <2> HIDE DEF shown
    <2>8. CASE w \in s.v.focused
      BY <2>1, <2>7, <2>8
    <2>9. CASE w \notin s.v.focused
      <3>1. Met(os, new, w)
        BY <2>2, <2>5 DEF Met
      <3>2. Command("mark", w) \in Commands /\ Fit(os, shown.v, Command("mark", w))
        BY <1>1, <2>7, <3>1, CommandsIn DEF Fit, Command
      <3>3. Onward(shown, t)
        BY <2>1, <2>7, <2>9, <3>2, QueuedKeeps DEF Onward
      <3> QED
        BY <2>7, <3>3, OnwardOn
    <2> QED
      BY <2>8, <2>9
  <1> QED
    BY <1>3, <1>4, <1>5

LEMMA OnFocusedKeeps ==
    ASSUME NEW s, Working(s), NEW e \in Events, e.kind = "focused", NEW t, t = OnFocused(s, e)
    PROVE  Onward(s, t)
  <1> DEFINE w == Believed(e.about)
  <1>1. e.about \in Windows
    BY EventIs
  <1>2. CASE e.about \notin s.v.known
    <2>1. t = Queued(s, "stray", e.about)
      BY <1>2 DEF OnFocused
    <2>2. Command("stray", e.about) \in Commands /\ Fit(os, s.v, Command("stray", e.about))
      BY <1>1, CommandsIn DEF Fit, Command
    <2> QED
      BY <2>1, <2>2, QueuedKeeps
  <1>3. CASE e.about \in s.v.known /\ (os.front # Owner[e.about] \/ w \notin s.v.known)
    <2>1. t = s
      BY <1>3 DEF OnFocused
    <2> QED
      BY <2>1, OnwardHere
  <1>4. CASE e.about \in s.v.known /\ ~(os.front # Owner[e.about] \/ w \notin s.v.known)
    <2>1. t = Focused(s, w) /\ w \in s.v.known
      BY <1>4 DEF OnFocused
    <2> HIDE DEF w
    <2> QED
      BY <2>1, FocusedKeeps
  <1> QED
    BY <1>2, <1>3, <1>4

\* What a hidden or shown app has its windows do.
LEMMA EachKeeps ==
    ASSUME NEW s, Working(s), NEW W \in SUBSET Windows, NEW new, NEW t,
           t = [s EXCEPT !.out = s.out \o new],
           \/ /\ new = [i \in DOMAIN InOrder(W) |->
                           Command("unmanage", [window |-> InOrder(W)[i], as |-> "hidden"])]
              /\ \A w \in W : Met(os, s.v, w) \/ w \in os.closed
           \/ new = [i \in DOMAIN InOrder(W) |-> Command("manage", InOrder(W)[i])]
    PROVE  Onward(s, t)
  <1> DEFINE ws == InOrder(W)
  <1>1. IsFiniteSet(W)
    BY LifeAssumption, FS_Subset
  <1>2. ws \in Seq(W)
    BY <1>1, SetToSeqIn DEF InOrder
  <1> HIDE DEF ws
  <1>3. DOMAIN ws = 1 .. Len(ws) /\ Len(ws) \in Nat /\ \A i \in 1 .. Len(ws) : ws[i] \in W
    BY <1>2
  <1> DEFINE n == Len(ws)
  <1>4. CASE /\ new = [i \in 1 .. n |-> Command("unmanage", [window |-> ws[i], as |-> "hidden"])]
             /\ \A w \in W : Met(os, s.v, w) \/ w \in os.closed
    <2>1. \A i \in 1 .. n : new[i] \in Commands
      BY <1>3, <1>4, CommandsIn DEF Away
    <2>2. \A i \in 1 .. n : /\ Fit(os, s.v, new[i]) 
                            /\ (new[i].op = "unmanage" => new[i].on.as # "floating")
      BY <1>3, <1>4 DEF Fit, Command
    <2>3. new \in Seq(Commands) /\ ToSet(new) = {new[i] : i \in 1 .. n}
      BY <1>3, <1>4, <2>1 DEF ToSet
    <2>4. \A c \in ToSet(new) : Fit(os, s.v, c) /\ (c.op = "unmanage" => c.on.as # "floating")
      BY <2>2, <2>3
    <2> QED
      BY <2>3, <2>4, AddedKeeps
  <1>5. CASE new = [i \in 1 .. n |-> Command("manage", ws[i])]
    <2>1. \A i \in 1 .. n : new[i] \in Commands
      BY <1>3, <1>5, CommandsIn
    <2>2. \A i \in 1 .. n : /\ Fit(os, s.v, new[i])
                            /\ (new[i].op = "unmanage" => new[i].on.as # "floating")
      BY <1>3, <1>5 DEF Fit, Command
    <2>3. new \in Seq(Commands) /\ ToSet(new) = {new[i] : i \in 1 .. n}
      BY <1>3, <1>5, <2>1 DEF ToSet
    <2>4. \A c \in ToSet(new) : Fit(os, s.v, c) /\ (c.op = "unmanage" => c.on.as # "floating")
      BY <2>2, <2>3
    <2> QED
      BY <2>3, <2>4, AddedKeeps
  <1>6. DOMAIN InOrder(W) = 1 .. n /\ InOrder(W) = ws
    BY <1>3 DEF ws
  <1> HIDE DEF n
  <1> QED
    BY <1>4, <1>5, <1>6

LEMMA OnStateKeeps ==
    ASSUME NEW s, Working(s), NEW e \in Events, e.kind \in Kinds.state,
           e.kind = "minimized" => Met(os, world, e.about),
           e.kind = "hidden" => \A w \in os.open : Owner[w] = e.about => Met(os, world, w),
           NEW t, t = OnState(s, e)
    PROVE  Onward(s, t)
  <1>1. /\ s.v \in Worlds /\ There(os, s.v)
        /\ \A w \in Windows : Met(os, world, w) => Met(os, s.v, w)
    BY WorkingIs
  <1>2. e.kind \in {"minimized", "deminimized", "hidden", "visible"}
    BY DEF Kinds
  <1>3. CASE e.kind = "minimized"
    <2> DEFINE w == e.about
    <2>1. w \in Windows
      BY <1>3, EventIs
    <2>2. t = IF w \in s.v.known
              THEN Queued(s, "unmanage", [window |-> w, as |-> "minimized"]) ELSE s
      BY <1>3 DEF OnState, Unmanage
    <2>3. Met(os, s.v, w)
      BY <1>1, <1>3, <2>1
    <2> HIDE DEF w
    <2> DEFINE on == [window |-> w, as |-> "minimized"]
    <2>4. Command("unmanage", on) \in Commands /\ on.as # "floating"
      BY <2>1, CommandsIn DEF Away
    <2>5. Fit(os, s.v, Command("unmanage", on))
      BY <2>3 DEF Fit, Command
    <2>6. t = s \/ t = Queued(s, "unmanage", on)
      BY <2>2
    <2> HIDE DEF on
    <2> QED
      BY <2>4, <2>5, <2>6, QueuedKeeps, OnwardHere
  <1>4. CASE e.kind = "deminimized"
    <2>1. t = s \/ t = Queued(s, "manage", e.about)
      BY <1>4 DEF OnState
    <2>2. Command("manage", e.about) \in Commands /\ Fit(os, s.v, Command("manage", e.about))
      BY <1>4, EventIs, CommandsIn DEF Fit, Command
    <2> QED
      BY <2>1, <2>2, QueuedKeeps, OnwardHere
  <1>5. CASE e.kind = "hidden"
    <2> DEFINE W == Members(s.v, e.about, "none")
               new == [i \in DOMAIN InOrder(W) |->
                          Command("unmanage", [window |-> InOrder(W)[i], as |-> "hidden"])]
    <2>1. t = [s EXCEPT !.out = s.out \o new]
      BY <1>5 DEF OnState
    <2>2. W \in SUBSET Windows /\ W \subseteq s.v.known /\ \A w \in W : Owner[w] = e.about
      BY <1>1 DEF Members, Worlds
    <2>3. \A w \in W : Met(os, s.v, w) \/ w \in os.closed
      BY <1>1, <1>5, <2>2 DEF There
    <2> HIDE DEF W
    <2>4. new = [i \in DOMAIN InOrder(W) |->
                    Command("unmanage", [window |-> InOrder(W)[i], as |-> "hidden"])]
      OBVIOUS
    <2> HIDE DEF new
    <2> QED
      BY <2>1, <2>2, <2>3, <2>4, EachKeeps
  <1>6. CASE e.kind = "visible"
    <2> DEFINE W == Members(s.v, e.about, "hidden")
               new == [i \in DOMAIN InOrder(W) |-> Command("manage", InOrder(W)[i])]
    <2>1. t = [s EXCEPT !.out = s.out \o new]
      BY <1>6 DEF OnState
    <2>2. W \in SUBSET Windows
      BY <1>1 DEF Members, Worlds
    <2> HIDE DEF W
    <2>3. new = [i \in DOMAIN InOrder(W) |-> Command("manage", InOrder(W)[i])]
      OBVIOUS
    <2> HIDE DEF new
    <2> QED
      BY <2>1, <2>2, <2>3, EachKeeps
  <1> QED
    BY <1>2, <1>3, <1>4, <1>5, <1>6

LEMMA OnDestroyedKeeps ==
    ASSUME NEW s, Working(s), NEW e \in Events, e.kind \in Kinds.destroyed,
           e.kind = "destroyed" => e.about \in os.closed, NEW near,
           NEW t, t = OnDestroyed(s, e, near)
    PROVE  /\ Onward(s, t)
           /\ e.kind = "destroyed" /\ e.about \in s.v.known
                 => Command("despawn", e.about) \in ToSet(t.out)
  <1> DEFINE w == e.about
             heir == GiveAway(s.v, w, near)
             given == IF heir \in s.v.known THEN Queued(s, "focus", heir) ELSE s
             out == [given EXCEPT !.v = Forgotten(given.v, w)]
  <1>1. e.kind \in {"destroyed", "leftSpace"}
    BY DEF Kinds
  <1>2. w \in Windows
    BY <1>1, EventIs
  <1>3. s.v \in Worlds /\ There(os, s.v) /\ s \in States
    BY WorkingIs
  <1>4. CASE w \notin s.v.known \/ (e.kind = "leftSpace" /\ w \in Answering)
    <2>1. t = s
      BY <1>4 DEF OnDestroyed
    <2> QED
      BY <1>4, <2>1, OnwardHere
  <1>5. CASE ~(w \notin s.v.known \/ (e.kind = "leftSpace" /\ w \in Answering))
    <2>1. t = Queued(out, "despawn", w)
      BY <1>5 DEF OnDestroyed
    <2>2. w \in os.closed
      BY <1>1, <1>3, <1>5 DEF There, Answering
    <2>3. heir \in Maybe /\ (heir \in Windows => heir # w /\ RowsWith(s.v, heir) # {})
      BY <1>2, <1>3, HeirIn
    <2> HIDE DEF heir
    <2>4. Onward(s, given) /\ given.v = s.v
      <3>1. CASE heir \in s.v.known
        <4>1. heir \in Windows
          BY <1>3, <3>1 DEF Worlds
        <4>2. Met(os, s.v, heir)
          BY <2>3, <4>1, WorkingIs DEF Sound
        <4>3. Command("focus", heir) \in Commands /\ Fit(os, s.v, Command("focus", heir))
          BY <4>1, <4>2, CommandsIn DEF Fit, Command
        <4>4. given = Queued(s, "focus", heir)
          BY <3>1
        <4> HIDE DEF given
        <4> QED
          BY <4>3, <4>4, QueuedKeeps
      <3>2. CASE heir \notin s.v.known
        BY <3>2, OnwardHere
      <3> QED
        BY <3>1, <3>2
    <2> HIDE DEF given
    <2> DEFINE u == Forgotten(s.v, w)
    <2>5. /\ u \in Worlds /\ u.known = s.v.known /\ u.fresh = s.v.fresh /\ u.rows = s.v.rows
          /\ u.unmanaged = s.v.unmanaged /\ u.previous = s.v.previous /\ u.focused = s.v.focused
          /\ u.pending \in {s.v.pending, NoWindow}
      <3> DEFINE v == s.v
                 p == IF v.pending = w THEN NoWindow ELSE v.pending
                 m == IF v.lastManaged = w THEN NoWindow ELSE v.lastManaged
                 f == IF v.lastFloating = w THEN NoWindow ELSE v.lastFloating
      <3>1. u = [v EXCEPT !.pending = p, !.lastManaged = m, !.lastFloating = f]
        BY DEF Forgotten
      <3>2. v \in Worlds
        BY <1>3
      <3> HIDE DEF v, u
      <3>3. p \in Maybe /\ m \in Maybe /\ f \in Maybe /\ p \in {v.pending, NoWindow}
        BY <3>2 DEF Worlds, Maybe
      <3> HIDE DEF p, m, f
      <3>4. /\ u \in Worlds /\ u.known = v.known /\ u.fresh = v.fresh /\ u.rows = v.rows
            /\ u.unmanaged = v.unmanaged /\ u.previous = v.previous /\ u.focused = v.focused
            /\ u.pending = p
        BY <3>1, <3>2, <3>3 DEF Worlds
      <3> QED
        BY <3>3, <3>4 DEF v
    <2>6. out = [given EXCEPT !.v = u]
      BY <2>4
    <2> HIDE DEF u, out
    <2>7. Working(given)
      BY <2>4 DEF Onward
    <2>8. Onward(given, out)
      BY <2>4, <2>5, <2>6, <2>7, AsideKeeps
    <2>9. Working(out)
      BY <2>8 DEF Onward
    <2>10. Command("despawn", w) \in Commands /\ Fit(os, out.v, Command("despawn", w))
      BY <1>2, <2>2, CommandsIn DEF Fit, Command
    <2> HIDE DEF w
    <2>11. Onward(out, t) /\ Command("despawn", w) \in ToSet(t.out)
      BY <2>1, <2>9, <2>10, QueuedKeeps
    <2> QED
      BY <2>4, <2>8, <2>11, OnwardOn DEF w
  <1> QED
    BY <1>4, <1>5

\* The window an app answers with.
LEMMA AnswerIn ==
    ASSUME os \in OSes, NEW app \in Apps
    PROVE  Answer(app) \in Maybe
  BY DEF Answer, OSes, Maybe

LEMMA SendFits ==
    ASSUME NEW w \in Windows, NEW v
    PROVE  /\ Command("send", Event("focused", w)) \in Commands
           /\ Fit(os, v, Command("send", Event("focused", w)))
  BY CommandsIn DEF Fit, Command

LEMMA AppFits ==
    ASSUME NEW app \in Apps, NEW v, NEW op \in {"retry", "settled"}
    PROVE  Command(op, app) \in Commands /\ Fit(os, v, Command(op, app))
  BY CommandsIn DEF Fit, Command

LEMMA OnFrontedKeeps ==
    ASSUME os \in OSes, NEW s, Working(s), NEW e \in Events, e.kind = "fronted",
           NEW t, t = OnFronted(s, e)
    PROVE  Onward(s, t)
  <1> DEFINE app == e.about
             w == Answer(app)
  <1>1. app \in Apps
    BY EventIs
  <1>2. t = IF w = NoWindow THEN Queued(s, "retry", app) ELSE Queued(s, "send", Event("focused", w))
    BY DEF OnFronted
  <1> HIDE DEF app
  <1>3. w \in Windows \/ w = NoWindow
    BY <1>1, AnswerIn DEF Maybe
  <1> HIDE DEF w
  <1>4. CASE w = NoWindow
    <2>1. Command("retry", app) \in Commands /\ Fit(os, s.v, Command("retry", app))
      BY <1>1, AppFits
    <2> QED
      BY <1>2, <1>4, <2>1, QueuedKeeps
  <1>5. CASE w # NoWindow
    <2>1. /\ Command("send", Event("focused", w)) \in Commands
          /\ Fit(os, s.v, Command("send", Event("focused", w)))
      BY <1>3, <1>5, SendFits
    <2> QED
      BY <1>2, <1>5, <2>1, QueuedKeeps
  <1> QED
    BY <1>4, <1>5

LEMMA RetriedKeeps ==
    ASSUME os \in OSes, NEW s, Working(s), NEW app \in Apps, NEW t, t = Retried(s, app)
    PROVE  Onward(s, t)
  <1> DEFINE w == Answer(app)
             m == Queued(s, "send", Event("focused", w))
  <1>1. w \in Windows \/ w = NoWindow
    BY AnswerIn DEF Maybe
  <1>2. \/ t = Queued(s, "settled", app) \/ t = s
        \/ w # NoWindow /\ t = Queued(m, "settled", app)
    BY DEF Retried
  <1> HIDE DEF w, m
  <1>3. \A v : Command("settled", app) \in Commands /\ Fit(os, v, Command("settled", app))
    BY AppFits
  <1>4. CASE t = s
    BY <1>4, OnwardHere
  <1>5. CASE t = Queued(s, "settled", app)
    BY <1>3, <1>5, QueuedKeeps
  <1>6. CASE w # NoWindow /\ t = Queued(m, "settled", app)
    <2>1. /\ Command("send", Event("focused", w)) \in Commands
          /\ Fit(os, s.v, Command("send", Event("focused", w)))
      BY <1>1, <1>6, SendFits
    <2>2. Onward(s, m) /\ Working(m)
      BY <2>1, QueuedKeeps DEF m, Onward
    <2>3. Onward(m, t)
      BY <1>3, <1>6, <2>2, QueuedKeeps
    <2> QED
      BY <2>2, <2>3, OnwardOn
  <1> QED
    BY <1>2, <1>4, <1>5, <1>6

LEMMA OnUnknownKeeps ==
    ASSUME NEW s, Working(s), NEW e \in Events, e.kind = "focused", NEW t, t = OnUnknown(s, e)
    PROVE  Onward(s, t)
  <1> DEFINE w == e.about
             v == s.v
             barred == v.barred \cup {w}
             u == [v EXCEPT !.barred = barred]
  <1>1. w \in Windows
    BY EventIs
  <1>2. t = s \/ t = Queued(s, "spawn", w) \/ t = [s EXCEPT !.v = u]
    <2>1. [s EXCEPT !.v.barred = @ \cup {w}] = [s EXCEPT !.v = u]
      OBVIOUS
    <2> HIDE DEF u
    <2> QED
      BY <2>1, Zenon DEF OnUnknown
  <1> HIDE DEF w
  <1>3. v \in Worlds
    BY WorkingIs
  <1>4. barred \in SUBSET Windows
    <2>1. v.barred \in SUBSET Windows
      BY <1>3 DEF Worlds
    <2> QED
      BY <1>1, <2>1
  <1> HIDE DEF barred, v
  <1>5. /\ u \in Worlds /\ u.known = v.known /\ u.fresh = v.fresh /\ u.rows = v.rows
        /\ u.unmanaged = v.unmanaged /\ u.previous = v.previous /\ u.focused = v.focused
        /\ u.pending = v.pending
    BY <1>3, <1>4 DEF Worlds
  <1> HIDE DEF u
  <1>6. CASE t = s
    BY <1>6, OnwardHere
  <1>7. CASE t = Queued(s, "spawn", w)
    <2>1. Command("spawn", w) \in Commands /\ Fit(os, s.v, Command("spawn", w))
      BY <1>1, CommandsIn DEF Fit, Command
    <2> QED
      BY <1>7, <2>1, QueuedKeeps
  <1>8. CASE t = [s EXCEPT !.v = u]
    <2>1. /\ u.known = s.v.known /\ u.fresh = s.v.fresh /\ u.rows = s.v.rows
          /\ u.unmanaged = s.v.unmanaged /\ u.previous = s.v.previous /\ u.focused = s.v.focused
          /\ u.pending \in {s.v.pending, NoWindow}
      BY <1>5 DEF v
    <2> QED
      BY <1>5, <1>8, <2>1, AsideKeeps
  <1> QED
    BY <1>2, <1>6, <1>7, <1>8

\* The states a system goes through.
Through(sys, base, work, near) == FoldLeft(LAMBDA s, x : Handled(sys, s, x, near), base, work)
LEMMA HandledGoes ==
    ASSUME NEW A, NEW base \in A, NEW X, NEW work \in Seq(X), NEW sys, NEW near,
           \A m \in A, x \in ToSet(work) : Handled(sys, m, x, near) \in A
    PROVE  \E tr \in [0 .. Len(work) -> A] :
               /\ tr[0] = base /\ tr[Len(work)] = Through(sys, base, work, near)
               /\ \A i \in 1 .. Len(work) : tr[i] = Handled(sys, tr[i - 1], work[i], near)
  <1> DEFINE n == Len(work)
             Rule(f, s) == IF s = {} THEN base ELSE Handled(sys, f[s \ {Max(s)}], work[Max(s)], near)
             Solves(f) == f = [s \in SUBSET DOMAIN work |-> Rule(f, s)]
  <1>1. n \in Nat /\ DOMAIN work = 1 .. n /\ \A i \in 1 .. n : work[i] \in ToSet(work)
    BY DEF ToSet
  <1>2. \A m \in A, i \in 1 .. n : Handled(sys, m, work[i], near) \in A
    BY <1>1
  <1>3. \A s \in SUBSET (1 .. n) : s # {} => Max(s) \in 1 .. n
    BY <1>1, MaxIn
  <1> HIDE DEF n
  <1>4. \E f : Solves(f)
    <2> DEFINE step == [p \in (SUBSET (1 .. n)) \X A |->
                           IF p[1] = {} THEN base ELSE Handled(sys, p[2], work[Max(p[1])], near)]
    <2>1. step \in [(SUBSET (1 .. n)) \X A -> A]
      <3>1. \A p \in (SUBSET (1 .. n)) \X A :
                (IF p[1] = {} THEN base ELSE Handled(sys, p[2], work[Max(p[1])], near)) \in A
        BY <1>2, <1>3
      <3> QED
        BY <3>1
    <2>2. PICK f : Folds(f, A, base, n, step)
      <3> HIDE DEF step
      <3> QED
        BY <1>1, <2>1, FoldThere
    <2>3. ASSUME NEW s \in SUBSET (1 .. n) PROVE f[s] = Rule(f, s)
      <3>1. f[s \ {Max(s)}] \in A
        BY <2>2 DEF Folds
      <3>2. s # {} => step[<<s, f[s \ {Max(s)}]>>] = Handled(sys, f[s \ {Max(s)}], work[Max(s)], near)
        BY <3>1
      <3> QED
        BY <2>2, <3>2 DEF Folds
    <2> HIDE DEF Rule
    <2>4. f = [s \in SUBSET (1 .. n) |-> Rule(f, s)]
      BY <2>2, <2>3 DEF Folds
    <2> QED
      BY <2>4, <1>1
  <1>5. PICK f : Solves(f) /\ Through(sys, base, work, near) = f[DOMAIN work]
    BY <1>4, Zenon DEF Through, FoldLeft, MapThenFoldSet
  <1>6. \A s \in SUBSET (1 .. n) : f[s] = Rule(f, s)
    <2> HIDE DEF Rule
    <2> QED
      BY <1>1, <1>5
  <1>7. f[1 .. 0] = base
    <2>1. 1 .. 0 = {} /\ {} \in SUBSET (1 .. n)
      OBVIOUS
    <2> QED
      BY <1>6, <2>1
  <1>8. ASSUME NEW i \in 1 .. n PROVE f[1 .. i] = Handled(sys, f[1 .. (i - 1)], work[i], near)
    <2>1. /\ 1 .. i \in SUBSET (1 .. n) /\ 1 .. i # {}
          /\ Max(1 .. i) = i /\ (1 .. i) \ {i} = 1 .. (i - 1)
      BY <1>1, Stages
    <2> QED
      BY <1>6, <2>1
  <1> DEFINE T == {i \in 0 .. n : f[1 .. i] \in A}
             tr == [i \in 0 .. n |-> f[1 .. i]]
  <1>9. 0 .. n \subseteq T
    <2>1. 0 \in T
      BY <1>1, <1>7
    <2>2. ASSUME NEW i \in 1 .. n, i - 1 \in T PROVE i \in T
      BY <1>1, <1>2, <1>8, <2>2
    <2> HIDE DEF T
    <2> QED
      BY <1>1, <2>1, <2>2, UpTo
  <1>10. tr \in [0 .. n -> A]
    BY <1>9
  <1>11. tr[0] = base /\ tr[n] = f[DOMAIN work]
    BY <1>1, <1>7
  <1>12. \A i \in 1 .. n : tr[i] = Handled(sys, tr[i - 1], work[i], near)
    BY <1>1, <1>8
  <1> HIDE DEF tr
  <1> QED
    BY <1>5, <1>10, <1>11, <1>12 DEF n

\* What the events of the frame tell, or told.
Told(kind, about) == Event(kind, about) \in ToSet(channel) \cup ToSet(inbox)
News ==
    /\ \A w \in Windows : Told("destroyed", w) => w \in os.closed
    /\ \A w \in Windows : Told("minimized", w) => Met(os, world, w)
    /\ \A app \in Apps : Told("hidden", app) =>
          \A w \in os.open : Owner[w] = app => Met(os, world, w)
    /\ \A app \in Apps : Event("hidden", app) \in ToSet(channel) =>
          app \in os.hidden \/ Event("visible", app) \in ToSet(channel)

\* The systems that only read events.
Listening == {"focused", "state", "destroyed", "fronted", "discover"}
LEMMA KindsAre ==
    /\ DOMAIN Kinds = Listening
    /\ Kinds["focused"] = {"focused"} /\ Kinds["discover"] = {"focused"}
    /\ Kinds["fronted"] = {"fronted"} /\ Kinds["state"] = Kinds.state
    /\ Kinds["destroyed"] = Kinds.destroyed /\ Kinds.destroyed = {"destroyed", "leftSpace"}
  BY DEF Kinds, Listening

\* Each event that a system handles leads on.
LEMMA EventKeeps ==
    ASSUME TypeOK, News, NEW sys \in Listening, NEW s, Working(s), NEW e \in ToSet(inbox),
           NEW near, NEW t, t = Handled(sys, s, e, near)
    PROVE  /\ Onward(s, t)
           /\ sys = "destroyed" /\ e.kind = "destroyed" /\ e.about \in world.known
                 => Command("despawn", e.about) \in ToSet(t.out)
  <1>1. e \in Events
    BY DEF TypeOK, ToSet
  <1>2. e = Event(e.kind, e.about) /\ Event(e.kind, e.about) \in ToSet(channel) \cup ToSet(inbox)
    BY <1>1, EventIs
  <1>3. e.kind = "destroyed" => e.about \in os.closed
    BY <1>1, <1>2, EventIs DEF News, Told
  <1>4. e.kind = "minimized" => Met(os, world, e.about)
    BY <1>1, <1>2, EventIs DEF News, Told
  <1>5. e.kind = "hidden" => \A w \in os.open : Owner[w] = e.about => Met(os, world, w)
    BY <1>1, <1>2, EventIs DEF News, Told
  <1>6. CASE e.kind \notin Kinds[sys]
    <2>1. t = s
      BY <1>6, KindsAre, Zenon DEF Handled, Listening
    <2>2. sys = "destroyed" => e.kind # "destroyed"
      BY <1>6, KindsAre
    <2> QED
      BY <2>1, <2>2, OnwardHere
  <1>7. CASE e.kind \in Kinds[sys]
    <2>1. CASE sys = "focused"
      <3>1. t = OnFocused(s, e)
        BY <1>7, <2>1 DEF Handled
      <3>2. e.kind = "focused"
        BY <1>7, <2>1, KindsAre
      <3> QED
        BY <1>1, <2>1, <3>1, <3>2, OnFocusedKeeps
    <2>2. CASE sys = "state"
      <3>1. t = OnState(s, e)
        BY <1>7, <2>2 DEF Handled
      <3>2. e.kind \in Kinds.state
        BY <1>7, <2>2, KindsAre
      <3> QED
        BY <1>1, <1>4, <1>5, <2>2, <3>1, <3>2, OnStateKeeps
    <2>3. CASE sys = "destroyed"
      <3>1. t = OnDestroyed(s, e, near)
        BY <1>7, <2>3 DEF Handled
      <3>2. e.kind \in Kinds.destroyed
        BY <1>7, <2>3, KindsAre
      <3>3. s.v.known = world.known
        BY WorkingIs
      <3> QED
        BY <1>1, <1>3, <3>1, <3>2, <3>3, OnDestroyedKeeps
    <2>4. CASE sys = "fronted"
      <3>1. t = OnFronted(s, e)
        BY <1>7, <2>4 DEF Handled
      <3>2. e.kind = "fronted" /\ os \in OSes
        BY <1>7, <2>4, KindsAre DEF TypeOK
      <3> QED
        BY <1>1, <2>4, <3>1, <3>2, OnFrontedKeeps
    <2>5. CASE sys = "discover"
      <3>1. t = OnUnknown(s, e)
        BY <1>7, <2>5 DEF Handled
      <3>2. e.kind = "focused"
        BY <1>7, <2>5, KindsAre
      <3> QED
        BY <1>1, <2>5, <3>1, <3>2, OnUnknownKeeps
    <2> QED
      BY <2>1, <2>2, <2>3, <2>4, <2>5 DEF Listening
  <1> QED
    BY <1>6, <1>7

LEMMA BareWorks ==
    ASSUME TypeOK, Keeping(os, world, ToSet(cmds))
    PROVE  Working(Bare) /\ Bare.v = world /\ ToSet(Bare.out) = {}
  <1>1. Bare \in States /\ Bare.v = world /\ Bare.out = <<>>
    BY DEF TypeOK, Bare, States
  <1>2. ToSet(Bare.out) = {}
    BY <1>1 DEF ToSet
  <1>3. Same(world, world) /\ Later(os, world, world)
    BY DEF Same, Later
  <1> QED
    BY <1>1, <1>2, <1>3 DEF Working

LEMMA ListeningKeeps ==
    ASSUME TypeOK, News, Keeping(os, world, ToSet(cmds)), NEW sys \in Listening, NEW near,
           NEW t, t = Result(sys, near)
    PROVE  /\ Working(t)
           /\ sys = "destroyed" => \A w \in world.known :
                 Event("destroyed", w) \in ToSet(inbox) => Command("despawn", w) \in ToSet(t.out)
  <1> DEFINE n == Len(inbox)
             A == {s \in States : Working(s)}
  <1>1. inbox \in Seq(Events) /\ n \in Nat /\ DOMAIN inbox = 1 .. n
    BY DEF TypeOK
  <1>2. Bare \in A
    BY BareWorks, WorkingIs
  <1>3. \A s \in A, e \in ToSet(inbox) : Handled(sys, s, e, near) \in A
    BY EventKeeps, WorkingIs DEF Onward
  <1>4. t = Through(sys, Bare, inbox, near)
    BY Zenon DEF Result, Work, Listening, Through
  <1> HIDE DEF n
  <1>5. PICK tr \in [0 .. n -> A] :
            /\ tr[0] = Bare /\ tr[n] = t
            /\ \A i \in 1 .. n : tr[i] = Handled(sys, tr[i - 1], inbox[i], near)
    <2> HIDE DEF A
    <2> QED
      BY <1>1, <1>2, <1>3, <1>4, HandledGoes DEF n
  <1>6. \A i \in 0 .. n : Working(tr[i])
    BY <1>5
  <1> HIDE DEF A
  <1>7. ASSUME NEW i \in 1 .. n
        PROVE  /\ Onward(tr[i - 1], tr[i])
               /\ sys = "destroyed" /\ inbox[i].kind = "destroyed" /\ inbox[i].about \in world.known
                     => Command("despawn", inbox[i].about) \in ToSet(tr[i].out)
    <2>1. inbox[i] \in ToSet(inbox)
      BY <1>1 DEF ToSet
    <2>2. Working(tr[i - 1])
      BY <1>1, <1>6
    <2> QED
      BY <1>5, <2>1, <2>2, EventKeeps
  <1> DEFINE T == {i \in 0 .. n : \A j \in 1 .. i :
                      sys = "destroyed" /\ inbox[j].kind = "destroyed" /\ inbox[j].about \in world.known
                         => Command("despawn", inbox[j].about) \in ToSet(tr[i].out)}
  <1>8. n \in T
    <2>1. 0 \in T
      BY <1>1
    <2>2. ASSUME NEW i \in 1 .. n, i - 1 \in T PROVE i \in T
      <3> DEFINE k == i - 1
      <3>1. k \in 0 .. n /\ i \in 0 .. n /\ \A j \in 1 .. i : j = i \/ j \in 1 .. k
        BY <1>1
      <3>2. ToSet(tr[k].out) \subseteq ToSet(tr[i].out)
        BY <1>7 DEF Onward
      <3>3. \A j \in 1 .. k :
               sys = "destroyed" /\ inbox[j].kind = "destroyed" /\ inbox[j].about \in world.known
                         => Command("despawn", inbox[j].about) \in ToSet(tr[k].out)
        BY <2>2
      <3> HIDE DEF k
      <3>4. \A j \in 1 .. i :
               sys = "destroyed" /\ inbox[j].kind = "destroyed" /\ inbox[j].about \in world.known
                         => Command("despawn", inbox[j].about) \in ToSet(tr[i].out)
        BY <1>7, <3>1, <3>2, <3>3
      <3> QED
        BY <3>1, <3>4
    <2> HIDE DEF T
    <2>3. 0 .. n \subseteq T
      BY <1>1, <2>1, <2>2, UpTo
    <2> QED
      BY <1>1, <2>3
  <1>9. Working(t)
    BY <1>1, <1>5, <1>6
  <1>10. ASSUME sys = "destroyed", NEW w \in world.known, Event("destroyed", w) \in ToSet(inbox)
         PROVE  Command("despawn", w) \in ToSet(t.out)
    <2>1. PICK j \in 1 .. n : inbox[j] = Event("destroyed", w)
      BY <1>1, <1>10 DEF ToSet
    <2>2. inbox[j].kind = "destroyed" /\ inbox[j].about = w
      BY <2>1 DEF Event
    <2> QED
      BY <1>5, <1>8, <1>10, <2>2
  <1> QED
    BY <1>9, <1>10

LEMMA RetryKeeps ==
    ASSUME TypeOK, Keeping(os, world, ToSet(cmds)), NEW near, NEW t, t = Result("retry", near)
    PROVE  Working(t)
  <1> DEFINE work == InOrder(world.retries)
             A == {s \in States : Working(s)}
  <1>1. world.retries \in SUBSET Apps
    BY DEF TypeOK, Worlds
  <1>2. IsFiniteSet(world.retries)
    BY <1>1, LifeAssumption, FS_Subset
  <1>3. work \in Seq(Apps) /\ ToSet(work) \subseteq Apps
    <2>1. work \in Seq(world.retries) /\ ToSet(work) = world.retries
      BY <1>2, SetToSeqIn, SetToSeqHolds DEF InOrder
    <2> HIDE DEF work
    <2> QED
      BY <1>1, <2>1
  <1>4. Bare \in A
    BY BareWorks, WorkingIs
  <1>5. \A s \in A, app \in Apps : Handled("retry", s, app, near) \in A
    <2>1. \A s, app : Handled("retry", s, app, near) = Retried(s, app)
      BY KindsAre DEF Handled, Listening
    <2>2. os \in OSes
      BY DEF TypeOK
    <2> QED
      BY <2>1, <2>2, RetriedKeeps, WorkingIs DEF Onward
  <1>6. t = Through("retry", Bare, work, near)
    BY Zenon DEF Result, Work, Through
  <1>7. \A s \in A, app \in ToSet(work) : Handled("retry", s, app, near) \in A
    BY <1>3, <1>5
  <1> HIDE DEF work
  <1>8. PICK tr \in [0 .. Len(work) -> A] : tr[0] = Bare /\ tr[Len(work)] = t
    <2> HIDE DEF A
    <2> QED
      BY <1>3, <1>4, <1>6, <1>7, HandledGoes
  <1>9. Len(work) \in 0 .. Len(work)
    BY <1>3
  <1> QED
    BY <1>8, <1>9

\* The window whose focus was refused leaves its row and is to be floated.
LEMMA RejectKeeps ==
    ASSUME TypeOK, Keeping(os, world, ToSet(cmds)), NEW near, NEW t, t = Result("reject", near)
    PROVE  Working(t)
  <1> DEFINE w == world.pending
             cs == ToSet(cmds)
             v == [world EXCEPT !.added = FALSE, !.pending = NoWindow]
  <1>1. /\ Working(Bare) /\ Bare.v = world /\ world \in Worlds /\ ToSet(Bare.out) = {}
        /\ Bare = [v |-> world, out |-> <<>>]
    BY BareWorks DEF TypeOK, Bare
  <1>2. t = Rejection(Bare)
    BY DEF Result
  <1>3. /\ v \in Worlds /\ v.known = world.known /\ v.fresh = world.fresh /\ v.rows = world.rows
        /\ v.unmanaged = world.unmanaged /\ v.previous = world.previous
        /\ v.focused = world.focused /\ v.pending = NoWindow
    BY <1>1 DEF Worlds, Maybe
  <1>4. CASE ~Refused(world)
    <2>1. t = [Bare EXCEPT !.v = v]
      BY <1>1, <1>2, <1>4 DEF Rejection
    <2> HIDE DEF v
    <2> QED
      BY <1>1, <1>3, <2>1, AsideKeeps DEF Onward
  <1>5. CASE Refused(world)
    <2> DEFINE u == Without(v, w)
               on == [window |-> w, as |-> "floating"]
               c == Command("unmanage", on)
    <2>1. w \in Windows
      BY <1>1, <1>5 DEF Refused, Worlds, Maybe
    <2>2. t = Queued([Bare EXCEPT !.v = u], "unmanage", on)
      BY <1>1, <1>2, <1>5 DEF Rejection, Unmanage
    <2>3. t = [v |-> u, out |-> <<c>>]
      <3> DEFINE k == [Bare EXCEPT !.v = u]
      <3>1. t = [k EXCEPT !.out = Append(k.out, c)]
        BY <2>2 DEF Queued
      <3> HIDE DEF c, u
      <3>2. k = [v |-> u, out |-> <<>>]
        BY <1>1
      <3> HIDE DEF k
      <3>3. k.out = <<>> /\ Append(<<>>, c) = <<c>>
        BY <3>2
      <3> QED
        BY <3>1, <3>2, <3>3
    <2>4. c \in Commands
      BY <2>1, CommandsIn
    <2>5. t \in States /\ ToSet(t.out) = {c} /\ t.v = u
      <3>1. u \in Worlds
        BY <1>3, <2>1, WithoutRows
      <3> HIDE DEF u, c
      <3> DEFINE q == <<c>>
      <3>2. q \in Seq(Commands) /\ ToSet(q) = {c}
        BY <2>4 DEF ToSet
      <3>3. t = [v |-> u, out |-> q]
        BY <2>3
      <3> HIDE DEF q
      <3> QED
        BY <3>1, <3>2, <3>3 DEF States
    <2> HIDE DEF v
    <2>6. PICK rows \in [1 .. Rows -> Seq(Windows)] :
               /\ u = [v EXCEPT !.rows = rows]
               /\ u \in Worlds
               /\ RowsWith(u, w) = {}
               /\ \A x \in Windows \ {w} : RowsWith(u, x) = RowsWith(v, x)
      BY <1>3, <2>1, WithoutRows
    <2> HIDE DEF u
    <2>7. /\ u.known = world.known /\ u.fresh = world.fresh /\ u.unmanaged = world.unmanaged
          /\ u.previous = world.previous /\ u.focused = world.focused /\ u.pending = NoWindow
      BY <1>3, <2>6 DEF Worlds
    <2>8. \A x : RowsWith(v, x) = RowsWith(world, x)
      BY <1>3, RowsOnly
    <2>9. \A x \in Windows : Met(os, u, x) <=> Met(os, world, x)
      BY <2>7 DEF Met
    <2> DEFINE now == cs \cup {c}
    <2>10. c.op = "unmanage" /\ c.on.window = w /\ c.on.as = "floating"
      BY DEF Command
    <2> HIDE DEF c
    <2>11. /\ \A x \in Windows \ {w} : Rejected(now, x) => Rejected(cs, x)
           /\ \A x : Leaves(cs, x) => Leaves(now, x)
           /\ Leaves(now, w)
      BY <2>10 DEF Rejected, Leaves
    <2>12. \A x \in Windows : Sound(os, world, cs, x)
      BY DEF Keeping, Standing
    <2>13. Met(os, world, w)
      BY <2>1, <2>12 DEF Sound
    <2>14. ASSUME NEW x \in Windows \ {w} PROVE Sound(os, u, now, x)
      <3>1. Untouched(world, u, x)
        BY <2>6, <2>7, <2>8 DEF Untouched
      <3>2. x # u.pending
        BY <2>7, LifeAssumption
      <3> QED
        BY <2>7, <2>11, <2>12, <3>1, <3>2, SoundStays
    <2>15. Sound(os, u, now, w)
      <3>1. Sound(os, world, cs, w) /\ Met(os, u, w)
        BY <2>1, <2>9, <2>12, <2>13
      <3> QED
        BY <2>6, <2>7, <2>11, <3>1 DEF Sound
    <2>16. \A x \in Windows : Rejected(now, x) => RowsWith(u, x) = {}
      BY <2>6, <2>8, <2>11 DEF Keeping
    <2>17. \A q \in now : Fit(os, u, q)
      <3>1. Fit(os, u, c)
        BY <2>1, <2>9, <2>10, <2>13 DEF Fit
      <3>2. \A q \in cs : Fit(os, world, q)
        BY DEF Keeping
      <3>3. \A x : Met(os, u, x) <=> Met(os, world, x)
        BY <2>7 DEF Met
      <3>4. \A q \in cs : Fit(os, u, q)
        BY <3>2, <3>3 DEF Fit
      <3> QED
        BY <3>1, <3>4
    <2>18. There(os, u) /\ OneFocus(u) /\ Same(world, u) /\ Later(os, world, u)
      BY <2>7, <2>9 DEF Keeping, Standing, There, OneFocus, Same, Later
    <2>19. \A x \in Windows : Sound(os, u, now, x)
      BY <2>14, <2>15
    <2>20. Keeping(os, u, now)
      BY <2>6, <2>16, <2>17, <2>18, <2>19 DEF Keeping, Standing
    <2> QED
      BY <2>5, <2>18, <2>20 DEF Working
  <1> QED
    BY <1>4, <1>5

\* The state s while the windows F are to be placed yet.
Waiting(s, F) == [v |-> [s.v EXCEPT !.fresh = F], out |-> s.out]

LEMMA WaitingIs ==
    ASSUME NEW s \in States, NEW F \in SUBSET Windows
    PROVE  /\ Waiting(s, F) \in States /\ Waiting(s, F).out = s.out
           /\ LET u == Waiting(s, F).v
              IN  /\ u.fresh = F /\ u.known = s.v.known /\ u.rows = s.v.rows
                  /\ u.unmanaged = s.v.unmanaged /\ u.previous = s.v.previous
                  /\ u.focused = s.v.focused /\ u.pending = s.v.pending
                  /\ \A x : RowsWith(u, x) = RowsWith(s.v, x)
  <1> DEFINE v == s.v
             u == [v EXCEPT !.fresh = F]
  <1>1. v \in Worlds /\ s.out \in Seq(Commands)
    BY DEF States
  <1>2. Waiting(s, F) = [v |-> u, out |-> s.out]
    BY DEF Waiting
  <1> HIDE DEF v
  <1>3. /\ u \in Worlds /\ u.fresh = F /\ u.known = v.known /\ u.rows = v.rows
        /\ u.unmanaged = v.unmanaged /\ u.previous = v.previous
        /\ u.focused = v.focused /\ u.pending = v.pending
    BY <1>1 DEF Worlds
  <1> HIDE DEF u
  <1>4. \A x : RowsWith(u, x) = RowsWith(v, x)
    BY <1>3, RowsOnly
  <1>5. Waiting(s, F) \in States /\ Waiting(s, F).out = s.out /\ Waiting(s, F).v = u
    BY <1>1, <1>2, <1>3 DEF States
  <1> QED
    BY <1>3, <1>4, <1>5 DEF v

LEMMA WaitingQueued ==
    ASSUME NEW s \in States, NEW F, NEW op, NEW on
    PROVE  Waiting(Queued(s, op, on), F) = Queued(Waiting(s, F), op, on)
  <1> DEFINE c == Command(op, on)
             out == Append(s.out, c)
             u == [s.v EXCEPT !.fresh = F]
             t == Queued(s, op, on)
             m == Waiting(s, F)
  <1>1. t = [s EXCEPT !.out = out]
    BY DEF Queued
  <1>2. m = [v |-> u, out |-> s.out]
    BY DEF Waiting
  <1>3. Queued(m, op, on) = [m EXCEPT !.out = Append(m.out, c)]
    BY DEF Queued
  <1>4. Waiting(t, F) = [v |-> [t.v EXCEPT !.fresh = F], out |-> t.out]
    BY DEF Waiting
  <1> HIDE DEF c, t, m
  <1>5. t.v = s.v /\ t.out = out
    BY <1>1 DEF States
  <1>6. m.out = s.out
    BY <1>2
  <1> HIDE DEF u, out
  <1>7. Queued(m, op, on) = [v |-> u, out |-> out]
    BY <1>2, <1>3, <1>6 DEF out
  <1>8. Waiting(t, F) = [v |-> u, out |-> out]
    BY <1>4, <1>5 DEF u
  <1> QED
    BY <1>7, <1>8 DEF t, m

LEMMA QueuedIn ==
    ASSUME NEW s \in States, NEW op, NEW on, Command(op, on) \in Commands
    PROVE  /\ Queued(s, op, on) \in States /\ Queued(s, op, on).v = s.v
           /\ ToSet(Queued(s, op, on).out) = ToSet(s.out) \cup {Command(op, on)}
  <1> DEFINE c == Command(op, on)
             new == <<c>>
             out == s.out \o new
  <1>1. s.out \in Seq(Commands)
    BY DEF States
  <1>2. Queued(s, op, on) = [s EXCEPT !.out = Append(s.out, c)]
    BY DEF Queued
  <1>3. c \in Commands
    OBVIOUS
  <1> HIDE DEF c
  <1>4. new \in Seq(Commands) /\ ToSet(new) = {c} /\ Append(s.out, c) = s.out \o new
    BY <1>1, <1>3 DEF ToSet
  <1> HIDE DEF new
  <1>5. out \in Seq(Commands) /\ ToSet(out) = ToSet(s.out) \cup {c}
    BY <1>1, <1>4, ToSetConcat
  <1>6. Queued(s, op, on) = [s EXCEPT !.out = out]
    BY <1>2, <1>4
  <1> HIDE DEF out
  <1>7. Queued(s, op, on) \in States /\ Queued(s, op, on).v = s.v /\ Queued(s, op, on).out = out
    BY <1>5, <1>6 DEF States
  <1> QED
    BY <1>5, <1>7 DEF c

\* What comes of a window that is introduced.
LEMMA IntroducedIs ==
    ASSUME NEW s \in States, NEW w \in Windows, NEW t, t = Introduced(s, w)
    PROVE  \/ t = s
           \/ t = Queued(s, "send", Event("focused", w))
           \/ \E x \in s.v.focused : t = Queued(s, "focus", x)
  <1> DEFINE x == CHOOSE x \in s.v.focused : TRUE
  <1>1. s.v.focused # {} => x \in s.v.focused
    OBVIOUS
  <1>2. t = IF w \notin Background THEN Queued(s, "send", Event("focused", w))
            ELSE IF s.v.focused = {} THEN s ELSE Queued(s, "focus", x)
    BY DEF Introduced
  <1> HIDE DEF x
  <1> QED
    BY <1>1, <1>2

LEMMA AdmittedIn ==
    ASSUME NEW s \in States, NEW w \in Windows, NEW t, t = Admitted(s, w)
    PROVE  t \in States
  <1> DEFINE on == [window |-> w, as |-> "floating"]
             m == [s EXCEPT !.v = Unrowed(s.v, w)]
             k == [s EXCEPT !.v = Placed(s.v, w)]
  <1>1. s.v \in Worlds
    BY DEF States
  <1>2. Unrowed(s.v, w) \in Worlds /\ Placed(s.v, w) \in Worlds
    BY <1>1, UnrowedIs, PlacedIs
  <1>3. m \in States /\ k \in States
    BY <1>2 DEF States
  <1>4. t = s \/ t = Queued(m, "unmanage", on) \/ t = Introduced(k, w)
    BY Zenon DEF Admitted, Unmanage
  <1> HIDE DEF m, k
  <1>5. Command("unmanage", on) \in Commands
    BY CommandsIn
  <1> HIDE DEF on
  <1>6. Queued(m, "unmanage", on) \in States
    BY <1>3, <1>5, QueuedIn
  <1>7. Introduced(k, w) \in States
    <2> DEFINE u == Introduced(k, w)
    <2>1. \/ u = k \/ u = Queued(k, "send", Event("focused", w))
          \/ \E x \in k.v.focused : u = Queued(k, "focus", x)
      BY <1>3, IntroducedIs
    <2> HIDE DEF u
    <2>2. k.v.focused \subseteq Windows
      BY <1>3 DEF States, Worlds
    <2>3. /\ Command("send", Event("focused", w)) \in Commands
          /\ \A x \in k.v.focused : Command("focus", x) \in Commands
      BY <2>2, CommandsIn
    <2>4. u \in States
      BY <1>3, <2>1, <2>3, QueuedIn
    <2> QED
      BY <2>4 DEF u
  <1> QED
    BY <1>4, <1>6, <1>7

\* A new window gets its row, or is to be floated.
LEMMA AdmittedKeeps ==
    ASSUME TypeOK, NEW s \in States, NEW F \in SUBSET Windows, NEW w \in Windows \ F,
           s.v.fresh = {}, Working(Waiting(s, F \cup {w})), NEW t, t = Admitted(s, w)
    PROVE  Working(Waiting(t, F)) /\ t.v.fresh = {}
  <1> DEFINE G == F \cup {w}
             m == Waiting(s, G)
             v == m.v
             cs == ToSet(cmds) \cup ToSet(s.out)
  <1>1. G \in SUBSET Windows /\ w \in G /\ w \in Windows
    OBVIOUS
  <1> HIDE DEF G
  <1>2. /\ m \in States /\ m.out = s.out
        /\ v.fresh = G /\ v.known = s.v.known /\ v.rows = s.v.rows
        /\ v.unmanaged = s.v.unmanaged /\ v.previous = s.v.previous
        /\ v.focused = s.v.focused /\ v.pending = s.v.pending
        /\ \A x : RowsWith(v, x) = RowsWith(s.v, x)
    BY <1>1, WaitingIs
  <1>3. Working(m)
    BY DEF G
  <1> HIDE DEF m
  <1>4. Keeping(os, v, cs) /\ Same(world, v) /\ Later(os, world, v) /\ v \in Worlds
    BY <1>2, <1>3 DEF Working, States
  <1> HIDE DEF v, cs
  <1>5. s.v \in Worlds
    BY DEF States
  <1>6. w \in v.known /\ ~Met(os, v, w) /\ \A x \in Windows : Sound(os, v, cs, x)
    BY <1>1, <1>2, <1>4 DEF Keeping, Standing, There, Met
  <1>7. /\ RowsWith(s.v, w) = {} /\ v.unmanaged[w] \notin {"minimized", "floating"}
        /\ w \notin v.focused /\ w # v.pending
        /\ (v.unmanaged[w] = "hidden" => w \in os.closed) /\ \A p, q \in v.previous[w] : p = q
    BY <1>1, <1>2, <1>6 DEF Sound
  <1>8. ~Tabbed(s.v, w)
    <2>1. ~Contains(Active(s.v), w)
      BY <1>5, <1>7, ActiveIn
    <2> QED
      BY <2>1 DEF Tabbed
  <1>9. \A x \in Windows : v.unmanaged[x] \in Away \cup {"none", "floating"}
    BY <1>4 DEF Worlds
  \* What holds of a world after this one where w is placed.
  <1>10. ASSUME NEW u \in Worlds, u.fresh = F, u.known = v.known, u.unmanaged = v.unmanaged,
                u.previous = v.previous, u.focused = v.focused, u.pending = v.pending,
                \A x \in Windows \ {w} : RowsWith(u, x) = RowsWith(v, x), NEW now,
                \/ RowsWith(u, w) = {} /\ Leaves(now, w)
                \/ (\E r : RowsWith(u, w) = {r}) /\ ~Rejected(now, w),
                cs \subseteq now, \A x \in Windows \ {w} : Rejected(now, x) => Rejected(cs, x),
                \A c \in now \ cs : Fit(os, u, c)
         PROVE  Keeping(os, u, now) /\ Same(world, u) /\ Later(os, world, u)
    <2>1. \A x \in Windows : Met(os, v, x) => Met(os, u, x)
      BY <1>2, <1>10 DEF Met, G
    <2>2. Met(os, u, w)
      BY <1>6, <1>10 DEF Met
    <2>3. \A x : Leaves(cs, x) => Leaves(now, x)
      BY <1>10 DEF Leaves
    <2>4. ASSUME NEW x \in Windows \ {w} PROVE Sound(os, u, now, x)
      <3>1. Untouched(v, u, x)
        BY <1>10 DEF Untouched
      <3>2. x \in u.fresh <=> x \in v.fresh
        BY <1>2, <1>10 DEF G
      <3> QED
        BY <1>6, <1>10, <2>3, <3>1, <3>2, SoundStays
    <2>5. Sound(os, u, now, w)
      <3>1. w \in os.open => u.unmanaged[w] = "none"
        <4>1. os.open \cap os.closed = {}
          BY <1>4 DEF Keeping, Standing, There
        <4> QED
          BY <1>1, <1>7, <1>9, <1>10, <4>1 DEF Away
      <3>2. /\ \A r, q \in RowsWith(u, w) : r = q /\ u.unmanaged[w] # "floating"
            /\ u.unmanaged[w] # "floating" /\ w \in u.known
            /\ (RowsWith(u, w) # {} \/ Leaves(now, w))
            /\ (Rejected(now, w) => RowsWith(u, w) = {})
            /\ \A p, q \in u.previous[w] : p = q
        BY <1>6, <1>7, <1>10
      <3> QED
        BY <2>2, <3>1, <3>2 DEF Sound
    <2>6. \A x \in Windows : Rejected(now, x) => RowsWith(u, x) = {}
      BY <1>4, <1>10 DEF Keeping
    <2>7. There(os, u) /\ OneFocus(u)
      BY <1>2, <1>4, <1>10 DEF Keeping, Standing, There, OneFocus, G
    <2>8. Later(os, world, u) /\ Same(world, u)
      BY <1>4, <1>10, <2>1 DEF Later, Same
    <2>9. \A c \in cs : Fit(os, u, c)
      <3>1. \A c \in cs : c \in Commands /\ Fit(os, v, c)
        BY <1>4 DEF Keeping, cs, TypeOK, States, ToSet
      <3>2. Later(os, v, u)
        BY <1>10, <2>1 DEF Later
      <3> QED
        BY <3>1, <3>2, FitStays
    <2>10. Standing(os, u, now)
      BY <1>10, <2>4, <2>5, <2>7 DEF Standing
    <2> QED
      BY <1>10, <2>6, <2>8, <2>9, <2>10 DEF Keeping
  <1>11. /\ cs = ToSet(cmds) \cup ToSet(s.out)
         /\ \A k : Working(k) <=> /\ k \in States /\ Same(world, k.v) /\ Later(os, world, k.v)
                                 /\ Keeping(os, k.v, ToSet(cmds) \cup ToSet(k.out))
    BY DEF Working, cs
  <1>12. ASSUME w \in Floating PROVE Working(Waiting(t, F)) /\ t.v.fresh = {}
    <2> DEFINE on == [window |-> w, as |-> "floating"]
               c == Command("unmanage", on)
               q == Waiting(s, F)
               k == Queued(q, "unmanage", on)
               u == q.v
    <2>1. t = Queued([s EXCEPT !.v = Unrowed(s.v, w)], "unmanage", on)
      BY <1>8, <1>12 DEF Admitted, Unmanage
    <2>2. Unrowed(s.v, w) = s.v
      BY <1>7 DEF Unrowed
    <2>3. [s EXCEPT !.v = s.v] = s
      BY DEF States
    <2>4. c \in Commands
      BY CommandsIn
    <2>5. c.op = "unmanage" /\ c.on.window = w /\ c.on.as = "floating"
      BY DEF Command
    <2>6. /\ q \in States /\ q.out = s.out
          /\ u.fresh = F /\ u.known = s.v.known /\ u.rows = s.v.rows
          /\ u.unmanaged = s.v.unmanaged /\ u.previous = s.v.previous
          /\ u.focused = s.v.focused /\ u.pending = s.v.pending
          /\ \A x : RowsWith(u, x) = RowsWith(s.v, x)
      BY WaitingIs
    <2> HIDE DEF on
    <2>7. t = Queued(s, "unmanage", on)
      BY <2>1, <2>2, <2>3
    <2>8. Waiting(t, F) = k /\ t.v = s.v
      BY <2>4, <2>7, WaitingQueued, QueuedIn
    <2> HIDE DEF q
    <2>9. k \in States /\ k.v = u /\ ToSet(k.out) = ToSet(s.out) \cup {c}
      BY <2>4, <2>6, QueuedIn
    <2>10. u \in Worlds
      BY <2>6 DEF States
    <2> HIDE DEF c, u, k
    <2> DEFINE now == cs \cup {c}
    <2>11. /\ cs \subseteq now /\ Leaves(now, w)
           /\ \A x \in Windows \ {w} : Rejected(now, x) => Rejected(cs, x)
      BY <2>5 DEF Leaves, Rejected
    <2>12. \A d \in now \ cs : Fit(os, u, d)
      <3>1. Met(os, u, w)
        BY <1>2, <1>6, <2>6 DEF Met
      <3> QED
        BY <2>5, <3>1 DEF Fit
    <2>13. now = ToSet(cmds) \cup ToSet(k.out)
      BY <1>11, <2>9
    <2> HIDE DEF now
    <2>14. Keeping(os, u, now) /\ Same(world, u) /\ Later(os, world, u)
      BY <1>2, <1>7, <1>10, <2>6, <2>10, <2>11, <2>12
    <2> QED
      BY <1>11, <2>8, <2>9, <2>13, <2>14
  <1>13. ASSUME w \notin Floating PROVE Working(Waiting(t, F)) /\ t.v.fresh = {}
    <2> DEFINE p == Placed(s.v, w)
               k == [s EXCEPT !.v = p]
               q == Waiting(k, F)
               u == q.v
    <2>1. t = Introduced(k, w)
      BY <1>8, <1>13 DEF Admitted
    <2>2. /\ p \in Worlds /\ p = [s.v EXCEPT !.rows = p.rows]
          /\ \A x \in Windows \ {w} : RowsWith(p, x) = RowsWith(s.v, x)
          /\ \E r : RowsWith(p, w) = {r}
      <3>1. RowsWith(s.v, w) = {}
        BY <1>7
      <3> QED
        BY <1>1, <1>5, <3>1, PlacedIs
    <2> HIDE DEF p
    <2>3. /\ p.known = s.v.known /\ p.fresh = {} /\ p.unmanaged = s.v.unmanaged
          /\ p.previous = s.v.previous /\ p.focused = s.v.focused /\ p.pending = s.v.pending
      BY <1>5, <2>2 DEF Worlds
    <2>4. k \in States /\ k.v = p /\ k.out = s.out
      BY <2>2 DEF States
    <2> HIDE DEF k
    <2>5. /\ q \in States /\ q.out = s.out
          /\ u.fresh = F /\ u.known = p.known
          /\ u.unmanaged = p.unmanaged /\ u.previous = p.previous
          /\ u.focused = p.focused /\ u.pending = p.pending
          /\ \A x : RowsWith(u, x) = RowsWith(p, x)
      <3>1. /\ q \in States /\ q.out = k.out
            /\ u.fresh = F /\ u.known = k.v.known
            /\ u.unmanaged = k.v.unmanaged /\ u.previous = k.v.previous
            /\ u.focused = k.v.focused /\ u.pending = k.v.pending
            /\ \A x : RowsWith(u, x) = RowsWith(k.v, x)
        BY <2>4, WaitingIs
      <3> HIDE DEF q
      <3> QED
        BY <2>4, <3>1
    <2> HIDE DEF q
    <2>6. u \in Worlds
      BY <2>5 DEF States
    <2> HIDE DEF u
    <2>7. ~Rejected(cs, w)
      BY <1>4, <1>6 DEF Rejected, Keeping, Fit
    <2>8. Keeping(os, u, cs) /\ Same(world, u) /\ Later(os, world, u)
      BY <1>2, <1>7, <1>10, <2>2, <2>3, <2>5, <2>6, <2>7
    <2>9. Working(q)
      BY <1>11, <2>5, <2>8 DEF u
    <2>10. CASE t = k
      BY <2>3, <2>4, <2>9, <2>10 DEF q
    <2>11. ASSUME NEW op, NEW on, t = Queued(k, op, on), Command(op, on) \in Commands,
                  Fit(os, u, Command(op, on)), op # "unmanage"
           PROVE  Working(Waiting(t, F)) /\ t.v.fresh = {}
      <3>1. Waiting(t, F) = Queued(q, op, on) /\ t.v = k.v
        BY <2>4, <2>11, WaitingQueued, QueuedIn DEF q
      <3>2. Working(Queued(q, op, on))
        BY <2>9, <2>11, QueuedKeeps DEF u, Onward
      <3> QED
        BY <2>3, <2>4, <3>1, <3>2
    <2>12. CASE t = Queued(k, "send", Event("focused", w))
      <3>1. Command("send", Event("focused", w)) \in Commands
        BY CommandsIn
      <3>2. Fit(os, u, Command("send", Event("focused", w)))
        BY DEF Fit, Command
      <3> QED
        BY <2>11, <2>12, <3>1, <3>2
    <2>13. CASE \E x \in k.v.focused : t = Queued(k, "focus", x)
      <3>1. PICK x \in k.v.focused : t = Queued(k, "focus", x)
        BY <2>13
      <3>2. x \in Windows /\ x \in u.focused
        BY <2>2, <2>4, <2>5 DEF Worlds
      <3>3. Met(os, u, x)
        BY <2>8, <3>2 DEF Keeping, Standing, Sound
      <3>4. Command("focus", x) \in Commands
        BY <3>2, CommandsIn
      <3>5. Fit(os, u, Command("focus", x))
        BY <3>3 DEF Fit, Command
      <3> QED
        BY <2>11, <3>1, <3>4, <3>5
    <2> QED
      BY <2>1, <2>4, <2>10, <2>12, <2>13, IntroducedIs
  <1> QED
    BY <1>12, <1>13

\* All the new windows are introduced.
LEMMA PlaceKeeps ==
    ASSUME TypeOK, Keeping(os, world, ToSet(cmds)), NEW near, NEW t, t = Result("place", near)
    PROVE  Working(t)
  <1> DEFINE fresh == world.fresh
             work == InOrder(fresh)
             n == Len(work)
             base == [Bare EXCEPT !.v.fresh = {}]
             left(i) == {work[j] : j \in (i + 1) .. n}
  <1>1. /\ Working(Bare) /\ Bare.v = world /\ world \in Worlds /\ Bare.out = <<>>
        /\ Bare = [v |-> world, out |-> <<>>]
    BY BareWorks DEF TypeOK, Bare
  <1>2. fresh \in SUBSET Windows /\ IsFiniteSet(fresh)
    BY <1>1, LifeAssumption, FS_Subset DEF Worlds
  <1> HIDE DEF fresh
  <1>3. /\ work \in Seq(fresh) /\ ToSet(work) = fresh
        /\ \A i, j \in DOMAIN work : work[i] = work[j] => i = j
    BY <1>2, SetToSeqIn, SetToSeqHolds DEF InOrder
  <1> HIDE DEF work
  <1>4. /\ n \in Nat /\ DOMAIN work = 1 .. n /\ fresh = {work[j] : j \in 1 .. n}
        /\ \A i \in 1 .. n : work[i] \in fresh
    BY <1>3 DEF ToSet
  <1>5. base \in States /\ base.v = [world EXCEPT !.fresh = {}] /\ base.out = <<>>
    <2> DEFINE v == [world EXCEPT !.fresh = {}]
               b == [v |-> v, out |-> <<>>]
    <2>1. v \in Worlds
      BY <1>1 DEF Worlds
    <2>2. base = [Bare EXCEPT !.v = v]
      BY <1>1
    <2> HIDE DEF v
    <2>3. base = b
      BY <1>1, <2>2
    <2>4. b \in States
      BY <2>1 DEF States
    <2> HIDE DEF base
    <2> QED
      BY <2>3, <2>4 DEF v
  <1>6. Waiting(base, fresh) = Bare
    <2> DEFINE v == [world EXCEPT !.fresh = {}]
    <2>1. [v EXCEPT !.fresh = fresh] = world
      BY <1>1 DEF Worlds, fresh
    <2> HIDE DEF v
    <2>2. Waiting(base, fresh) = [v |-> [v EXCEPT !.fresh = fresh], out |-> <<>>]
      BY <1>5 DEF Waiting, v
    <2> QED
      BY <1>1, <2>1, <2>2
  <1>7. base.v.fresh = {}
    BY <1>1, <1>5 DEF Worlds
  <1> HIDE DEF n
  <1>8. t = Through("place", base, work, near)
    BY Zenon DEF Result, Work, Through, work, fresh
  <1> HIDE DEF base
  <1>9. \A s, w : Handled("place", s, w, near) = Admitted(s, w)
    BY KindsAre DEF Handled, Listening
  <1>10. \A s \in States, w \in ToSet(work) : Handled("place", s, w, near) \in States
    BY <1>2, <1>3, <1>9, AdmittedIn
  <1>11. PICK tr \in [0 .. n -> States] :
            /\ tr[0] = base /\ tr[n] = t
            /\ \A i \in 1 .. n : tr[i] = Handled("place", tr[i - 1], work[i], near)
    BY <1>3, <1>5, <1>8, <1>10, HandledGoes DEF n
  <1> DEFINE T == {i \in 0 .. n : Working(Waiting(tr[i], left(i))) /\ tr[i].v.fresh = {}}
  <1>12. n \in T
    <2>1. 0 \in T
      <3>1. left(0) = fresh
        BY <1>4
      <3> HIDE DEF left
      <3> QED
        BY <1>1, <1>4, <1>6, <1>7, <1>11, <3>1
    <2>2. ASSUME NEW i \in 1 .. n, i - 1 \in T PROVE i \in T
      <3> DEFINE w == work[i]
                 k == i - 1
                 s == tr[k]
      <3>1. /\ k \in 0 .. n /\ i \in 0 .. n /\ s \in States /\ i = k + 1
            /\ i .. n = {i} \cup ((i + 1) .. n)
        BY <1>4, <1>11
      <3>2. w \in fresh /\ w \in Windows
        BY <1>2, <1>4
      <3>3. left(i) \in SUBSET Windows
        BY <1>2, <1>4
      <3>4. w \notin left(i)
        BY <1>3, <1>4
      <3>5. left(k) = left(i) \cup {w}
        BY <3>1
      <3>6. tr[i] = Admitted(s, w)
        BY <1>9, <1>11
      <3>7. Working(Waiting(s, left(k))) /\ s.v.fresh = {}
        BY <2>2
      <3> HIDE DEF left, w, k, s
      <3>8. Working(Waiting(tr[i], left(i))) /\ tr[i].v.fresh = {}
        BY <3>1, <3>2, <3>3, <3>4, <3>5, <3>6, <3>7, AdmittedKeeps
      <3> QED
        BY <3>1, <3>8
    <2> HIDE DEF T
    <2>3. 0 .. n \subseteq T
      BY <1>4, <2>1, <2>2, UpTo
    <2> QED
      BY <1>4, <2>3
  <1>13. left(n) = {}
    BY <1>4
  <1>14. t \in States /\ Working(Waiting(t, {})) /\ t.v.fresh = {}
    BY <1>4, <1>11, <1>12, <1>13
  <1>15. Waiting(t, {}) = t
    <2>1. [t.v EXCEPT !.fresh = {}] = t.v
      BY <1>14 DEF States, Worlds
    <2>2. Waiting(t, {}) = [v |-> t.v, out |-> t.out]
      BY <2>1 DEF Waiting
    <2> QED
      BY <1>14, <2>2 DEF States
  <1> QED
    BY <1>14, <1>15

------------------------------------------------------------------------------
(* The invariant *)

\* A closed window that is known is yet to be despawned, and its event or the
\* command to do so is on the way.
Doomed ==
    \A w \in world.known \cap os.closed :
        \/ Event("destroyed", w) \in ToSet(channel)
        \/ "destroyed" \in todo /\ Event("destroyed", w) \in ToSet(inbox)
        \/ Command("despawn", w) \in ToSet(cmds)
Frames == /\ Idle => cmds = <<>> /\ inbox = <<>>
          /\ Idle \/ "post" \in todo

IInv == TypeOK /\ Keeping(os, world, ToSet(cmds)) /\ News /\ Doomed /\ Frames

\* A step between frames: no event is lost, and those that come are of what is so.
LEMMA IdleKeeps ==
    ASSUME IInv, Idle, UNCHANGED <<inbox, todo, cmds>>,
           os' \in OSes, naming' \in Seq(Windows), channel' \in Seq(Events),
           inputs' \in Nat, excused' \in BOOLEAN,
           Standing(os', world', {}), world'.known \subseteq world.known \cup os'.open,
           \A w \in Windows : Met(os, world, w) => Met(os', world', w),
           \A e \in ToSet(channel) : e \in ToSet(channel') \/ e.kind = "created",
           \A e \in ToSet(channel') \ ToSet(channel) :
              /\ e.kind = "destroyed" => e.about \in os'.closed
              /\ e.kind = "minimized" => Met(os', world', e.about)
              /\ e.kind = "hidden" => /\ e.about \in os'.hidden
                                      /\ \A w \in os'.open : Owner[w] = e.about => Met(os', world', w),
           os.closed \subseteq os'.closed,
           \A w \in os'.closed \ os.closed : Event("destroyed", w) \in ToSet(channel'),
           \A app \in os.hidden \ os'.hidden : Event("visible", app) \in ToSet(channel'),
           \A w \in os'.open \ os.open :
              Owner[w] \notin os.hidden /\ Event("visible", Owner[w]) \notin ToSet(channel)
    PROVE  IInv'
  <1>1. /\ cmds = <<>> /\ cmds' = <<>> /\ inbox = <<>> /\ inbox' = <<>> /\ todo = {} /\ todo' = {}
        /\ ToSet(cmds') = {} /\ ToSet(inbox) = {} /\ ToSet(inbox') = {} /\ ToSet(cmds) = {}
    BY DEF IInv, Frames, Idle, ToSet
  <1>2. TypeOK'
    BY <1>1 DEF IInv, TypeOK, Standing
  <1>3. Keeping(os, world, ToSet(cmds))'
    BY <1>1 DEF Keeping, Rejected
  <1>4. /\ os'.open \subseteq Windows /\ os'.closed \subseteq Windows
        /\ os'.open \cap os'.closed = {}
    BY DEF OSes, Standing, There
  <1>5. \A w : /\ Event("destroyed", w).kind = "destroyed" /\ Event("destroyed", w).about = w
               /\ Event("minimized", w).kind = "minimized" /\ Event("minimized", w).about = w
               /\ Event("hidden", w).kind = "hidden" /\ Event("hidden", w).about = w
               /\ Event("visible", w).kind = "visible"
    BY DEF Event
  <1>6. Doomed'
    <2>1. ASSUME NEW w \in world'.known \cap os'.closed PROVE Event("destroyed", w) \in ToSet(channel')
      <3>1. CASE w \notin os.closed
        BY <2>1, <3>1
      <3>2. CASE w \in os.closed
        <4>1. w \in world.known
          BY <1>4, <2>1
        <4>2. Event("destroyed", w) \in ToSet(channel)
          BY <1>1, <3>2, <4>1 DEF IInv, Doomed
        <4> QED
          BY <1>5, <4>2
      <3> QED
        BY <3>1, <3>2
    <2> QED
      BY <2>1 DEF Doomed
  <1>7. News'
    <2>1. ASSUME NEW w \in Windows, Event("destroyed", w) \in ToSet(channel') PROVE w \in os'.closed
      <3>1. CASE Event("destroyed", w) \in ToSet(channel)
        BY <3>1 DEF IInv, News, Told
      <3> QED
        BY <1>5, <2>1, <3>1
    <2>2. ASSUME NEW w \in Windows, Event("minimized", w) \in ToSet(channel')
          PROVE  Met(os', world', w)
      <3>1. CASE Event("minimized", w) \in ToSet(channel)
        BY <3>1 DEF IInv, News, Told
      <3> QED
        BY <1>5, <2>2, <3>1
    <2>3. ASSUME NEW app \in Apps, Event("hidden", app) \in ToSet(channel'),
                 NEW w \in os'.open, Owner[w] = app
          PROVE  Met(os', world', w)
      <3>1. CASE Event("hidden", app) \in ToSet(channel)
        <4>1. CASE w \in os.open
          <5>1. Met(os, world, w)
            BY <2>3, <3>1, <4>1 DEF IInv, News, Told
          <5> QED
            BY <1>4, <5>1
        <4>2. CASE w \notin os.open
          <5>1. app \notin os.hidden /\ Event("visible", app) \notin ToSet(channel)
            BY <2>3, <4>2
          <5> QED
            BY <3>1, <5>1 DEF IInv, News
        <4> QED
          BY <4>1, <4>2
      <3> QED
        BY <1>5, <2>3, <3>1
    <2>4. ASSUME NEW app \in Apps, Event("hidden", app) \in ToSet(channel')
          PROVE  app \in os'.hidden \/ Event("visible", app) \in ToSet(channel')
      <3>1. CASE Event("hidden", app) \in ToSet(channel)
        <4>1. app \in os.hidden \/ Event("visible", app) \in ToSet(channel)
          BY <3>1 DEF IInv, News
        <4> QED
          BY <1>5, <4>1
      <3> QED
        BY <1>5, <2>4, <3>1
    <2> QED
      BY <1>1, <2>1, <2>2, <2>3, <2>4 DEF News, Told
  <1>8. Frames'
    BY <1>1 DEF Frames, Idle
  <1> QED
    BY <1>2, <1>3, <1>6, <1>7, <1>8 DEF IInv

\* What is so of the windows stays so when macOS opens or closes some.
LEMMA OSKeeps ==
    ASSUME NEW o, NEW q, NEW v, NEW u, NEW cs, Standing(o, v, cs), u \in Worlds,
           u.known = v.known, u.fresh = v.fresh, u.rows = v.rows,
           u.unmanaged = v.unmanaged, u.previous = v.previous, u.focused = v.focused,
           u.pending = v.pending,
           q.open \cap q.closed = {}, o.closed \subseteq q.closed,
           o.open \cup o.closed \subseteq q.open \cup q.closed,
           \A w \in q.open : w \in o.open \/ w \notin v.known
    PROVE  Standing(q, u, cs) /\ \A w : Met(o, v, w) => Met(q, u, w)
  <1>1. \A w : Met(o, v, w) => Met(q, u, w)
    BY DEF Met
  <1>2. \A w : RowsWith(u, w) = RowsWith(v, w)
    BY RowsOnly
  <1>3. There(q, u) /\ OneFocus(u)
    BY DEF Standing, There, OneFocus
  <1>4. ASSUME NEW w \in Windows PROVE Sound(q, u, cs, w)
    <2>1. Sound(o, v, cs, w)
      BY DEF Standing
    <2>2. w \in q.open => w \in o.open \/ w \notin v.known
      OBVIOUS
    <2>3. w \in o.closed => w \in q.closed
      OBVIOUS
    <2> QED
      BY <1>1, <1>2, <2>1, <2>2, <2>3 DEF Sound
  <1> QED
    BY <1>1, <1>3, <1>4 DEF Standing

\* All is as it was with the windows.
Still(v, u) ==
    /\ u \in Worlds /\ Alike(v, u) /\ u.rows = v.rows /\ u.focused = v.focused
    /\ u.unmanaged = v.unmanaged /\ u.previous = v.previous

\* What macOS tells is so.
Tells(o, e) ==
    /\ e.kind = "destroyed" => e.about \in o.closed
    /\ e.kind = "minimized" => Met(o, world, e.about)
    /\ e.kind = "hidden" => /\ e.about \in o.hidden
                            /\ \A w \in o.open : Owner[w] = e.about => Met(o, world, w)

LEMMA OSStep ==
    ASSUME IInv, Idle, UNCHANGED <<inbox, todo, cmds>>, Still(world, world'),
           os' \in OSes, naming' \in Seq(Windows), inputs' \in Nat, excused' \in BOOLEAN,
           NEW new \in Seq(Events), channel' = channel \o new,
           \A e \in ToSet(new) : Tells(os', e),
           os'.open \cap os'.closed = {}, os.closed \subseteq os'.closed,
           os.open \cup os.closed \subseteq os'.open \cup os'.closed,
           \A w \in os'.open : w \in os.open \/ w \notin world.known,
           \A w \in os'.closed \ os.closed : Event("destroyed", w) \in ToSet(new),
           \A app \in os.hidden \ os'.hidden : Event("visible", app) \in ToSet(new),
           \A w \in os'.open \ os.open :
              Owner[w] \notin os.hidden /\ Event("visible", Owner[w]) \notin ToSet(channel)
    PROVE  IInv'
  <1>1. channel \in Seq(Events)
    BY DEF IInv, TypeOK
  <1>2. channel' \in Seq(Events) /\ ToSet(channel') = ToSet(channel) \cup ToSet(new)
    BY <1>1, ToSetConcat
  <1>3. Standing(os, world, {}) /\ ToSet(cmds) = {}
    <2>1. ToSet(cmds) = {}
      BY DEF IInv, Frames, ToSet
    <2> QED
      BY <2>1 DEF IInv, Keeping
  <1>4. /\ world' \in Worlds /\ world'.known = world.known /\ world'.fresh = world.fresh
        /\ world'.rows = world.rows /\ world'.unmanaged = world.unmanaged
        /\ world'.previous = world.previous /\ world'.focused = world.focused
        /\ world'.pending = world.pending
    BY DEF Still, Alike
  <1>5. /\ Standing(os', world', {})
        /\ \A w : Met(os, world, w) => Met(os', world', w)
    BY <1>3, <1>4, OSKeeps
  <1>6. \A w : Met(os', world, w) <=> Met(os', world', w)
    BY <1>4 DEF Met
  <1>7. \A e \in ToSet(channel') \ ToSet(channel) :
              /\ e.kind = "destroyed" => e.about \in os'.closed
              /\ e.kind = "minimized" => Met(os', world', e.about)
              /\ e.kind = "hidden" => /\ e.about \in os'.hidden
                                      /\ \A w \in os'.open : Owner[w] = e.about => Met(os', world', w)
    BY <1>2, <1>6 DEF Tells
  <1>8. \A e \in ToSet(channel) : e \in ToSet(channel')
    BY <1>2
  <1>9. /\ \A w \in os'.closed \ os.closed : Event("destroyed", w) \in ToSet(channel')
        /\ \A app \in os.hidden \ os'.hidden : Event("visible", app) \in ToSet(channel')
    BY <1>2
  <1> QED
    BY <1>2, <1>4, <1>5, <1>7, <1>8, <1>9, IdleKeeps

\* The windows there are stay as they are.
LEMMA QuietStep ==
    ASSUME IInv, Idle, UNCHANGED <<inbox, todo, cmds>>, Still(world, world'),
           os' \in OSes, naming' \in Seq(Windows), inputs' \in Nat, excused' \in BOOLEAN,
           NEW new \in Seq(Events), channel' = channel \o new,
           \A e \in ToSet(new) : Tells(os', e),
           os'.open = os.open, os'.closed = os.closed,
           \A app \in os.hidden \ os'.hidden : Event("visible", app) \in ToSet(new)
    PROVE  IInv'
  <1>1. os.open \cap os.closed = {}
    BY DEF IInv, Keeping, Standing, There
  <1> QED
    BY <1>1, OSStep

LEMMA StillHere ==
    ASSUME IInv, UNCHANGED world
    PROVE  Still(world, world')
  BY DEF IInv, TypeOK, Still, Alike

LEMMA FocusingIn ==
    ASSUME TypeOK, NEW w \in Windows
    PROVE  /\ Focusing(w) \in OSes
           /\ Focusing(w).open = os.open /\ Focusing(w).closed = os.closed
           /\ Focusing(w).hidden = os.hidden /\ Focusing(w).minimized = os.minimized
  <1> DEFINE f == [os.focus EXCEPT ![Owner[w]] = w]
  <1>1. os \in OSes /\ Owner[w] \in Apps
    BY LifeAssumption DEF TypeOK
  <1>2. f \in [Apps -> Maybe]
    BY <1>1 DEF OSes, Maybe
  <1>3. Focusing(w) = [os EXCEPT !.front = Owner[w], !.focus = f]
    BY DEF Focusing
  <1> HIDE DEF f
  <1> QED
    BY <1>1, <1>2, <1>3 DEF OSes

LEMMA FrontEventsIn ==
    ASSUME NEW w \in Windows
    PROVE  /\ FrontEvents(w) \in Seq(Events)
           /\ \A e \in ToSet(FrontEvents(w)) : e.kind = "fronted"
  <1> DEFINE e == Event("fronted", Owner[w])
             s == <<e>>
  <1>1. e \in Events /\ e.kind = "fronted"
    BY LifeAssumption DEF Event, Events
  <1>2. FrontEvents(w) = <<>> \/ FrontEvents(w) = s
    BY DEF FrontEvents
  <1> HIDE DEF e
  <1>3. s \in Seq(Events) /\ ToSet(s) = {e}
    BY <1>1 DEF ToSet
  <1> HIDE DEF s
  <1>4. CASE FrontEvents(w) = <<>>
    BY <1>4 DEF ToSet
  <1>5. CASE FrontEvents(w) = s
    BY <1>1, <1>3, <1>5
  <1> QED
    BY <1>2, <1>4, <1>5

LEMMA YieldingIn ==
    ASSUME NEW o \in OSes, NEW w \in Windows, NEW q \in Yielding(o, w), Yielded(q, w),
           naming \in Seq(Windows)
    PROVE  /\ q \in OSes /\ q.open = o.open /\ q.closed = o.closed /\ q.hidden = o.hidden
           /\ naming' \in Seq(Windows)
  <1>1. Owner[w] \in Apps /\ o.focus \in [Apps -> Maybe]
    BY LifeAssumption DEF OSes
  <1>2. \A x \in Maybe : [o.focus EXCEPT ![Owner[w]] = x] \in [Apps -> Maybe]
    BY <1>1
  <1>3. q = o \/ \E x \in Maybe : q = [o EXCEPT !.focus[Owner[w]] = x]
    <2>1. o.open \subseteq Windows
      BY DEF OSes
    <2> QED
      BY <2>1 DEF Yielding, Maybe
  <1>4. q = o \/ \E f \in [Apps -> Maybe] : q = [o EXCEPT !.focus = f]
    BY <1>2, <1>3
  <1>5. q \in OSes /\ q.open = o.open /\ q.closed = o.closed /\ q.hidden = o.hidden
    BY <1>4 DEF OSes
  <1>6. q.focus[Owner[w]] \in Maybe
    BY <1>1, <1>5 DEF OSes
  <1>7. naming' \in Seq(Windows)
    BY <1>6 DEF Yielded, Maybe
  <1> QED
    BY <1>5, <1>7

------------------------------------------------------------------------------
(* macOS *)

LEMMA OfOSIs ==
    ASSUME IInv, OfOS
    PROVE  /\ Idle /\ UNCHANGED <<inbox, todo, cmds>> /\ Still(world, world')
           /\ inputs' \in Nat /\ excused' \in BOOLEAN
           /\ os \in OSes /\ naming \in Seq(Windows) /\ channel \in Seq(Events) /\ TypeOK
           /\ os.open \cap os.closed = {} /\ world.known \subseteq os.open \cup os.closed
  <1>1. UNCHANGED world /\ inputs' = inputs + 1 /\ UNCHANGED excused /\ inputs \in Nat
    BY DEF OfOS, Input, IInv, TypeOK
  <1>2. Still(world, world')
    BY <1>1, StillHere
  <1> QED
    BY <1>1, <1>2 DEF OfOS, IInv, TypeOK, Keeping, Standing, There

\* One event of a window, or of an app.
LEMMA NewsIs ==
    ASSUME NEW kind, NEW x,
           \/ /\ kind \in {"created", "focused", "minimized", "deminimized", "destroyed", "leftSpace"}
              /\ x \in Windows
           \/ kind \in {"fronted", "hidden", "visible"} /\ x \in Apps
    PROVE  /\ <<Event(kind, x)>> \in Seq(Events) /\ ToSet(<<Event(kind, x)>>) = {Event(kind, x)}
           /\ Event(kind, x).kind = kind /\ Event(kind, x).about = x
           /\ \A s \in Seq(Events) : Append(s, Event(kind, x)) = s \o <<Event(kind, x)>>
  <1> DEFINE e == Event(kind, x)
             new == <<e>>
  <1>1. e \in Events /\ e.kind = kind /\ e.about = x
    BY DEF Event, Events
  <1> HIDE DEF e
  <1>2. new \in Seq(Events) /\ ToSet(new) = {e} /\ \A s \in Seq(Events) : Append(s, e) = s \o new
    BY <1>1 DEF ToSet
  <1> QED
    BY <1>1, <1>2 DEF e

LEMMA OpenKeeps ==
    ASSUME IInv, Prompt, NEW w \in Windows, Open(w)
    PROVE  IInv'
  <1>1. OfOS /\ w \notin os.open \cup os.closed /\ Owner[w] \notin os.hidden
        /\ ~Contains(channel, Event("visible", Owner[w]))
    BY DEF Open, Prompt
  <1>2. /\ Idle /\ UNCHANGED <<inbox, todo, cmds>> /\ Still(world, world')
        /\ inputs' \in Nat /\ excused' \in BOOLEAN
        /\ os \in OSes /\ naming \in Seq(Windows) /\ channel \in Seq(Events) /\ TypeOK
        /\ os.open \cap os.closed = {} /\ world.known \subseteq os.open \cup os.closed
    BY <1>1, OfOSIs
  <1>3. /\ os' \in OSes /\ os'.open = os.open \cup {w} /\ os'.closed = os.closed
        /\ os'.hidden = os.hidden
    <2> DEFINE f == Focusing(w)
    <2>1. f \in OSes /\ f.open = os.open /\ f.closed = os.closed /\ f.hidden = os.hidden
      BY <1>2, FocusingIn
    <2>2. os' = [f EXCEPT !.open = f.open \cup {w}]
      BY DEF Open
    <2> HIDE DEF f
    <2> QED
      BY <2>1, <2>2 DEF OSes
  <1>4. naming' \in Seq(Windows)
    BY <1>2 DEF Open
  <1> DEFINE one == <<Event("created", w)>>
             front == FrontEvents(w)
  <1>5. one \in Seq(Events) /\ \A e \in ToSet(one) : e.kind = "created"
    BY NewsIs
  <1>6. front \in Seq(Events) /\ \A e \in ToSet(front) : e.kind = "fronted"
    BY FrontEventsIn
  <1>7. channel' = channel \o one \o front \/ channel' = channel \o front \o one
    BY DEF Open
  <1> HIDE DEF one, front
  <1>8. PICK new \in {one \o front, front \o one} : channel' = channel \o new
    <2>1. channel \o one \o front = channel \o (one \o front)
      BY <1>2, <1>5, <1>6
    <2>2. channel \o front \o one = channel \o (front \o one)
      BY <1>2, <1>5, <1>6
    <2> QED
      BY <1>7, <2>1, <2>2
  <1>9. new \in Seq(Events) /\ ToSet(new) = ToSet(one) \cup ToSet(front)
    <2>1. one \o front \in Seq(Events) /\ front \o one \in Seq(Events)
      BY <1>5, <1>6
    <2>2. /\ ToSet(one \o front) = ToSet(one) \cup ToSet(front)
          /\ ToSet(front \o one) = ToSet(one) \cup ToSet(front)
      BY <1>5, <1>6, ToSetConcat
    <2> QED
      BY <1>8, <2>1, <2>2
  <1>10. \A e \in ToSet(new) : Tells(os', e)
    BY <1>5, <1>6, <1>9 DEF Tells
  <1>11. \A x \in os'.open \ os.open :
             Owner[x] \notin os.hidden /\ Event("visible", Owner[x]) \notin ToSet(channel)
    BY <1>1, <1>2, <1>3, ContainsIn
  <1>12. os'.open \cap os'.closed = {} /\ \A x \in os'.open : x \in os.open \/ x \notin world.known
    BY <1>1, <1>2, <1>3
  <1>13. os.open \cup os.closed \subseteq os'.open \cup os'.closed /\ os.closed \subseteq os'.closed
    BY <1>3
  <1> QED
    BY <1>2, <1>3, <1>4, <1>8, <1>9, <1>10, <1>11, <1>12, <1>13, OSStep

LEMMA ClickKeeps ==
    ASSUME IInv, NEW w \in Windows, Click(w)
    PROVE  IInv'
  <1>1. OfOS
    BY DEF Click
  <1>2. /\ Idle /\ UNCHANGED <<inbox, todo, cmds>> /\ Still(world, world')
        /\ inputs' \in Nat /\ excused' \in BOOLEAN
        /\ os \in OSes /\ naming \in Seq(Windows) /\ TypeOK
    BY <1>1, OfOSIs
  <1>3. os' \in OSes /\ os'.open = os.open /\ os'.closed = os.closed /\ os'.hidden = os.hidden
    BY <1>2, FocusingIn DEF Click
  <1>4. naming' \in Seq(Windows)
    BY <1>2 DEF Click
  <1>5. FrontEvents(w) \in Seq(Events) /\ \A e \in ToSet(FrontEvents(w)) : Tells(os', e)
    BY FrontEventsIn DEF Tells
  <1>6. channel' = channel \o FrontEvents(w)
    BY DEF Click
  <1> QED
    BY <1>2, <1>3, <1>4, <1>5, <1>6, QuietStep

\* A window is minimized once it is placed.
LEMMA SettledIs ==
    ASSUME IInv, Prompt, NEW w, Settled(w), NEW o
    PROVE  Met(o, world, w)
  BY DEF Prompt, Settled, Met

LEMMA MinimizeKeeps ==
    ASSUME IInv, Prompt, NEW w \in Windows, Minimize(w)
    PROVE  IInv'
  <1> DEFINE p == [os EXCEPT !.minimized = os.minimized \cup {w}]
             new == <<Event("minimized", w)>>
  <1>1. OfOS /\ Settled(w) /\ channel' = Append(channel, Event("minimized", w))
    BY DEF Minimize
  <1>2. /\ Idle /\ UNCHANGED <<inbox, todo, cmds>> /\ Still(world, world')
        /\ inputs' \in Nat /\ excused' \in BOOLEAN
        /\ os \in OSes /\ naming \in Seq(Windows) /\ channel \in Seq(Events)
    BY <1>1, OfOSIs
  <1>3. PICK o \in Yielding(p, w) : os' = o /\ Yielded(o, w)
    BY DEF Minimize
  <1>4. p \in OSes /\ p.open = os.open /\ p.closed = os.closed /\ p.hidden = os.hidden
    BY <1>2 DEF OSes
  <1> HIDE DEF p
  <1>5. /\ os' \in OSes /\ os'.open = os.open /\ os'.closed = os.closed /\ os'.hidden = os.hidden
        /\ naming' \in Seq(Windows)
    BY <1>2, <1>3, <1>4, YieldingIn
  <1>6. /\ new \in Seq(Events) /\ channel' = channel \o new
        /\ \A e \in ToSet(new) : e.kind = "minimized" /\ e.about = w
    BY <1>1, <1>2, NewsIs
  <1> HIDE DEF new
  <1>7. \A e \in ToSet(new) : Tells(os', e)
    BY <1>1, <1>6, SettledIs DEF Tells
  <1> QED
    BY <1>2, <1>5, <1>6, <1>7, QuietStep

LEMMA DeminimizeKeeps ==
    ASSUME IInv, NEW w \in Windows, Deminimize(w)
    PROVE  IInv'
  <1> DEFINE f == Focusing(w)
             one == <<Event("deminimized", w)>>
             front == FrontEvents(w)
             new == one \o front
  <1>1. OfOS /\ channel' = channel \o one \o front /\ naming' = Append(naming, w)
    BY DEF Deminimize
  <1>2. /\ Idle /\ UNCHANGED <<inbox, todo, cmds>> /\ Still(world, world')
        /\ inputs' \in Nat /\ excused' \in BOOLEAN
        /\ os \in OSes /\ naming \in Seq(Windows) /\ channel \in Seq(Events) /\ TypeOK
    BY <1>1, OfOSIs
  <1>3. f \in OSes /\ f.open = os.open /\ f.closed = os.closed /\ f.hidden = os.hidden
    BY <1>2, FocusingIn
  <1>4. os' = [f EXCEPT !.minimized = f.minimized \ {w}]
    BY DEF Deminimize
  <1> HIDE DEF f
  <1>5. os' \in OSes /\ os'.open = os.open /\ os'.closed = os.closed /\ os'.hidden = os.hidden
    BY <1>3, <1>4 DEF OSes
  <1>6. naming' \in Seq(Windows)
    BY <1>1, <1>2
  <1>7. one \in Seq(Events) /\ \A e \in ToSet(one) : e.kind = "deminimized"
    BY NewsIs
  <1>8. front \in Seq(Events) /\ \A e \in ToSet(front) : e.kind = "fronted"
    BY FrontEventsIn
  <1> HIDE DEF one, front
  <1>9. new \in Seq(Events) /\ ToSet(new) = ToSet(one) \cup ToSet(front) /\ channel' = channel \o new
    <2>1. new \in Seq(Events) /\ channel' = channel \o new
      BY <1>1, <1>2, <1>7, <1>8
    <2>2. ToSet(new) = ToSet(one) \cup ToSet(front)
      BY <1>7, <1>8, ToSetConcat
    <2> QED
      BY <2>1, <2>2
  <1>10. \A e \in ToSet(new) : Tells(os', e)
    BY <1>7, <1>8, <1>9 DEF Tells
  <1> HIDE DEF new
  <1> QED
    BY <1>2, <1>5, <1>6, <1>9, <1>10, QuietStep

LEMMA HideKeeps ==
    ASSUME IInv, Prompt, NEW app \in Apps, Hide(app)
    PROVE  IInv'
  <1> DEFINE new == <<Event("hidden", app)>>
  <1>1. /\ OfOS /\ channel' = Append(channel, Event("hidden", app)) /\ UNCHANGED naming
        /\ \A w \in os.open : Owner[w] = app => Settled(w)
    BY DEF Hide
  <1>2. /\ Idle /\ UNCHANGED <<inbox, todo, cmds>> /\ Still(world, world')
        /\ inputs' \in Nat /\ excused' \in BOOLEAN
        /\ os \in OSes /\ naming \in Seq(Windows) /\ channel \in Seq(Events)
    BY <1>1, OfOSIs
  <1>3. os' = [os EXCEPT !.hidden = os.hidden \cup {app}]
    BY DEF Hide
  <1>4. /\ os' \in OSes /\ os'.open = os.open /\ os'.closed = os.closed
        /\ os'.hidden = os.hidden \cup {app}
    BY <1>2, <1>3 DEF OSes
  <1>5. /\ new \in Seq(Events) /\ channel' = channel \o new
        /\ \A e \in ToSet(new) : e.kind = "hidden" /\ e.about = app
    BY <1>1, <1>2, NewsIs
  <1> HIDE DEF new
  <1>6. \A w \in os'.open : Owner[w] = app => Met(os', world, w)
    BY <1>1, <1>4, SettledIs
  <1>7. \A e \in ToSet(new) : Tells(os', e)
    BY <1>4, <1>5, <1>6 DEF Tells
  <1> QED
    BY <1>1, <1>2, <1>4, <1>5, <1>7, QuietStep

LEMMA ShowKeeps ==
    ASSUME IInv, NEW app \in Apps, Show(app)
    PROVE  IInv'
  <1> DEFINE new == <<Event("visible", app)>>
  <1>1. OfOS /\ channel' = Append(channel, Event("visible", app)) /\ UNCHANGED naming
    BY DEF Show
  <1>2. /\ Idle /\ UNCHANGED <<inbox, todo, cmds>> /\ Still(world, world')
        /\ inputs' \in Nat /\ excused' \in BOOLEAN
        /\ os \in OSes /\ naming \in Seq(Windows) /\ channel \in Seq(Events)
    BY <1>1, OfOSIs
  <1>3. os' = [os EXCEPT !.hidden = os.hidden \ {app}]
    BY DEF Show
  <1>4. /\ os' \in OSes /\ os'.open = os.open /\ os'.closed = os.closed
        /\ os'.hidden = os.hidden \ {app}
    BY <1>2, <1>3 DEF OSes
  <1>5. /\ new \in Seq(Events) /\ channel' = channel \o new
        /\ ToSet(new) = {Event("visible", app)} /\ Event("visible", app).kind = "visible"
    BY <1>1, <1>2, NewsIs
  <1> HIDE DEF new
  <1>6. \A e \in ToSet(new) : Tells(os', e)
    BY <1>5 DEF Tells
  <1>7. \A x \in os.hidden \ os'.hidden : Event("visible", x) \in ToSet(new)
    BY <1>4, <1>5
  <1> QED
    BY <1>1, <1>2, <1>4, <1>5, <1>6, <1>7, QuietStep

LEMMA CloseKeeps ==
    ASSUME IInv, NEW w \in Windows, Close(w)
    PROVE  IInv'
  <1> DEFINE p == [os EXCEPT !.open = os.open \ {w}, !.closed = os.closed \cup {w},
                             !.minimized = os.minimized \ {w}]
             new == <<Event("destroyed", w), Event("leftSpace", w)>>
  <1>1. OfOS /\ w \in os.open /\ channel' = channel \o new
    BY DEF Close
  <1>2. /\ Idle /\ UNCHANGED <<inbox, todo, cmds>> /\ Still(world, world')
        /\ inputs' \in Nat /\ excused' \in BOOLEAN
        /\ os \in OSes /\ naming \in Seq(Windows) /\ channel \in Seq(Events)
        /\ os.open \cap os.closed = {}
    BY <1>1, OfOSIs
  <1>3. PICK o \in Yielding(p, w) : os' = o /\ Yielded(o, w)
    BY DEF Close
  <1>4. /\ p \in OSes /\ p.open = os.open \ {w} /\ p.closed = os.closed \cup {w}
        /\ p.hidden = os.hidden
    BY <1>2 DEF OSes
  <1> HIDE DEF p
  <1>5. /\ os' \in OSes /\ os'.open = os.open \ {w} /\ os'.closed = os.closed \cup {w}
        /\ os'.hidden = os.hidden /\ naming' \in Seq(Windows)
    BY <1>2, <1>3, <1>4, YieldingIn
  <1>6. new \in Seq(Events) /\ ToSet(new) = {Event("destroyed", w), Event("leftSpace", w)}
    <2> DEFINE d == Event("destroyed", w)
               l == Event("leftSpace", w)
    <2>1. d \in Events /\ l \in Events
      BY DEF Event, Events
    <2> HIDE DEF d, l
    <2>2. <<d, l>> \in Seq(Events) /\ ToSet(<<d, l>>) = {d, l}
      BY <2>1 DEF ToSet
    <2> QED
      BY <2>2 DEF d, l
  <1> HIDE DEF new
  <1>7. /\ Event("destroyed", w).kind = "destroyed" /\ Event("destroyed", w).about = w
        /\ Event("leftSpace", w).kind = "leftSpace"
    BY DEF Event
  <1>8. \A e \in ToSet(new) : Tells(os', e)
    BY <1>5, <1>6, <1>7 DEF Tells
  <1>9. /\ os'.open \cap os'.closed = {} /\ os.closed \subseteq os'.closed
        /\ os.open \cup os.closed \subseteq os'.open \cup os'.closed
        /\ \A x \in os'.open : x \in os.open
        /\ \A x \in os'.closed \ os.closed : Event("destroyed", x) \in ToSet(new)
    BY <1>2, <1>5, <1>6
  <1> QED
    BY <1>1, <1>2, <1>5, <1>6, <1>8, <1>9, OSStep

LEMMA LeaveKeeps ==
    ASSUME IInv, NEW w \in Windows, Leave(w)
    PROVE  IInv'
  <1> DEFINE new == <<Event("leftSpace", w)>>
  <1>1. OfOS /\ channel' = Append(channel, Event("leftSpace", w)) /\ UNCHANGED <<os, naming>>
    BY DEF Leave
  <1>2. /\ Idle /\ UNCHANGED <<inbox, todo, cmds>> /\ Still(world, world')
        /\ inputs' \in Nat /\ excused' \in BOOLEAN
        /\ os \in OSes /\ naming \in Seq(Windows) /\ channel \in Seq(Events)
    BY <1>1, OfOSIs
  <1>3. /\ new \in Seq(Events) /\ channel' = channel \o new
        /\ \A e \in ToSet(new) : e.kind = "leftSpace"
    BY <1>1, <1>2, NewsIs
  <1> HIDE DEF new
  <1>4. \A e \in ToSet(new) : Tells(os', e)
    BY <1>3 DEF Tells
  <1> QED
    BY <1>1, <1>2, <1>3, <1>4, QuietStep

\* A step that tells nothing.
LEMMA SilentStep ==
    ASSUME IInv, Idle, UNCHANGED <<channel, inbox, todo, cmds>>, Still(world, world'),
           os' \in OSes, naming' \in Seq(Windows), inputs' \in Nat, excused' \in BOOLEAN,
           os'.open = os.open, os'.closed = os.closed, os'.hidden = os.hidden
    PROVE  IInv'
  <1> DEFINE new == <<>>
  <1>1. new \in Seq(Events) /\ ToSet(new) = {}
    BY DEF ToSet
  <1>2. channel' = channel \o new
    BY DEF IInv, TypeOK
  <1> HIDE DEF new
  <1> QED
    BY <1>1, <1>2, QuietStep

LEMMA StallKeeps ==
    ASSUME IInv, NEW app \in Apps, Stall(app)
    PROVE  IInv'
  <1>1. OfOS /\ UNCHANGED <<naming, channel>>
    BY DEF Stall
  <1>2. /\ Idle /\ UNCHANGED <<inbox, todo, cmds>> /\ Still(world, world')
        /\ inputs' \in Nat /\ excused' \in BOOLEAN
        /\ os \in OSes /\ naming \in Seq(Windows)
    BY <1>1, OfOSIs
  <1>3. os' = [os EXCEPT !.busy = os.busy \cup {app}]
    BY DEF Stall
  <1>4. os' \in OSes /\ os'.open = os.open /\ os'.closed = os.closed /\ os'.hidden = os.hidden
    BY <1>2, <1>3 DEF OSes
  <1> QED
    BY <1>1, <1>2, <1>4, SilentStep

LEMMA ResumeKeeps ==
    ASSUME IInv, NEW app \in Apps, Resume(app)
    PROVE  IInv'
  <1>1. Idle /\ UNCHANGED <<naming, channel, inbox, todo, cmds, world, inputs, excused>>
    BY DEF Resume
  <1>2. os \in OSes /\ naming \in Seq(Windows) /\ inputs \in Nat /\ excused \in BOOLEAN
    BY DEF IInv, TypeOK
  <1>3. os' = [os EXCEPT !.busy = os.busy \ {app}]
    BY DEF Resume
  <1>4. os' \in OSes /\ os'.open = os.open /\ os'.closed = os.closed /\ os'.hidden = os.hidden
    BY <1>2, <1>3 DEF OSes
  <1>5. Still(world, world')
    BY <1>1, StillHere
  <1> QED
    BY <1>1, <1>2, <1>4, <1>5, SilentStep

LEMMA NameKeeps ==
    ASSUME IInv, Name
    PROVE  IInv'
  <1> DEFINE w == Head(naming)
             new == <<Event("focused", w)>>
  <1>1. /\ Idle /\ naming # <<>> /\ naming' = Tail(naming)
        /\ UNCHANGED <<os, inbox, todo, cmds, world, inputs>>
        /\ \/ excused' = TRUE /\ UNCHANGED channel
           \/ channel' = Append(channel, Event("focused", w)) /\ UNCHANGED excused
    BY DEF Name
  <1>2. /\ os \in OSes /\ naming \in Seq(Windows) /\ inputs \in Nat /\ excused \in BOOLEAN
        /\ channel \in Seq(Events)
    BY DEF IInv, TypeOK
  <1>3. w \in Windows /\ naming' \in Seq(Windows)
    BY <1>1, <1>2
  <1> HIDE DEF w
  <1>4. Still(world, world')
    BY <1>1, StillHere
  <1>5. excused' \in BOOLEAN
    BY <1>1, <1>2
  <1>6. CASE UNCHANGED channel
    BY <1>1, <1>2, <1>3, <1>4, <1>5, <1>6, SilentStep
  <1>7. CASE channel' = Append(channel, Event("focused", w))
    <2>1. /\ new \in Seq(Events) /\ channel' = channel \o new
          /\ \A e \in ToSet(new) : e.kind = "focused"
      BY <1>2, <1>3, <1>7, NewsIs
    <2> HIDE DEF new
    <2>2. \A e \in ToSet(new) : Tells(os', e)
      BY <2>1 DEF Tells
    <2> QED
      BY <1>1, <1>2, <1>3, <1>4, <1>5, <2>1, <2>2, QuietStep
  <1> QED
    BY <1>1, <1>6, <1>7

\* What macOS was asked for is forgotten.
LEMMA AnsweredIs ==
    ASSUME IInv, Answered
    PROVE  /\ Idle /\ UNCHANGED <<inbox, todo, cmds, inputs, excused>> /\ Still(world, world')
           /\ inputs \in Nat /\ excused \in BOOLEAN
           /\ os \in OSes /\ naming \in Seq(Windows) /\ channel \in Seq(Events) /\ TypeOK
  <1>1. world' = [world EXCEPT !.asked = NoWindow] /\ world \in Worlds /\ NoWindow \in Maybe
    BY DEF Answered, IInv, TypeOK, Maybe
  <1>2. Still(world, world')
    BY <1>1 DEF Still, Alike, Worlds
  <1> QED
    BY <1>2 DEF Answered, IInv, TypeOK

LEMMA GrantKeeps ==
    ASSUME IInv, Grant
    PROVE  IInv'
  <1>1. PICK w \in Windows : /\ os' = Focusing(w)
                             /\ \/ UNCHANGED <<naming, channel>>
                                \/ /\ naming' = Append(naming, w)
                                   /\ channel' = channel \o FrontEvents(w)
    BY DEF Grant
  <1>2. /\ Idle /\ UNCHANGED <<inbox, todo, cmds, inputs, excused>> /\ Still(world, world')
        /\ inputs \in Nat /\ excused \in BOOLEAN
        /\ os \in OSes /\ naming \in Seq(Windows) /\ channel \in Seq(Events) /\ TypeOK
    BY AnsweredIs DEF Grant
  <1>3. os' \in OSes /\ os'.open = os.open /\ os'.closed = os.closed /\ os'.hidden = os.hidden
    BY <1>1, <1>2, FocusingIn
  <1>4. FrontEvents(w) \in Seq(Events) /\ \A e \in ToSet(FrontEvents(w)) : Tells(os', e)
    BY FrontEventsIn DEF Tells
  <1>5. CASE UNCHANGED <<naming, channel>>
    BY <1>2, <1>3, <1>5, SilentStep
  <1>6. CASE naming' = Append(naming, w) /\ channel' = channel \o FrontEvents(w)
    <2>1. naming' \in Seq(Windows)
      BY <1>2, <1>6
    <2> QED
      BY <1>2, <1>3, <1>4, <1>6, <2>1, QuietStep
  <1> QED
    BY <1>1, <1>5, <1>6

LEMMA RefuseKeeps ==
    ASSUME IInv, Refuse
    PROVE  IInv'
  <1>1. /\ Idle /\ UNCHANGED <<inbox, todo, cmds, inputs, excused>> /\ Still(world, world')
        /\ inputs \in Nat /\ excused \in BOOLEAN
        /\ os \in OSes /\ naming \in Seq(Windows) /\ channel \in Seq(Events) /\ TypeOK
    BY AnsweredIs DEF Refuse
  <1>2. UNCHANGED <<os, channel>>
    BY DEF Refuse
  <1>3. os.focus[os.front] \in Maybe
    BY <1>1 DEF OSes
  <1>4. naming' \in Seq(Windows)
    BY <1>1, <1>3 DEF Refuse, Maybe
  <1> QED
    BY <1>1, <1>2, <1>4, SilentStep

LEMMA GiveUpKeeps ==
    ASSUME IInv, GiveUp
    PROVE  IInv'
  <1>1. /\ Idle /\ excused' \in BOOLEAN
        /\ UNCHANGED <<os, naming, channel, inbox, todo, cmds, inputs>>
        /\ os \in OSes /\ naming \in Seq(Windows) /\ inputs \in Nat /\ world \in Worlds
    BY DEF GiveUp, IInv, TypeOK
  <1>2. \/ \E w \in world.strays : world' = [world EXCEPT !.strays = world.strays \ {w}]
        \/ \E app \in world.retries : world' = [world EXCEPT !.retries = world.retries \ {app}]
    BY DEF GiveUp
  <1>3. \/ \E S \in SUBSET Windows : world' = [world EXCEPT !.strays = S]
        \/ \E S \in SUBSET Apps : world' = [world EXCEPT !.retries = S]
    BY <1>1, <1>2 DEF Worlds
  <1>4. ASSUME NEW S \in SUBSET Windows, world' = [world EXCEPT !.strays = S]
        PROVE  Still(world, world')
    BY <1>1, <1>4 DEF Still, Alike, Worlds
  <1>5. ASSUME NEW S \in SUBSET Apps, world' = [world EXCEPT !.retries = S]
        PROVE  Still(world, world')
    BY <1>1, <1>5 DEF Still, Alike, Worlds
  <1> QED
    BY <1>1, <1>3, <1>4, <1>5, SilentStep

------------------------------------------------------------------------------
(* The user *)

\* A step of the user: nothing changes but the world.
LEMMA UserKeeps ==
    ASSUME IInv, OfUser, Standing(os, world', {}), Later(os, world, world')
    PROVE  IInv'
  <1>1. /\ Idle /\ UNCHANGED <<os, naming, channel, inbox, todo, cmds, excused>>
        /\ inputs' \in Nat
        /\ os \in OSes /\ naming \in Seq(Windows) /\ channel \in Seq(Events) /\ excused \in BOOLEAN
    BY DEF OfUser, Input, IInv, TypeOK
  <1>2. /\ world'.known \subseteq world.known \cup os'.open
        /\ \A w \in Windows : Met(os, world, w) => Met(os', world', w)
    BY <1>1 DEF Later
  <1>3. Standing(os', world', {})
    BY <1>1
  <1> QED
    BY <1>1, <1>2, <1>3, IdleKeeps

\* What holds of the windows between frames.
LEMMA IdleIs ==
    ASSUME IInv, Idle
    PROVE  /\ Standing(os, world, {}) /\ world \in Worlds /\ There(os, world)
           /\ \A w \in Windows : Sound(os, world, {}, w)
           /\ \A w \in world.focused : w \in Windows /\ w \in world.known /\ Met(os, world, w)
           /\ ToSet(cmds) = {} /\ inbox = <<>>
  <1>1. ToSet(cmds) = {} /\ inbox = <<>>
    BY DEF IInv, Frames, ToSet
  <1>2. /\ Standing(os, world, {}) /\ world \in Worlds /\ There(os, world)
        /\ \A w \in Windows : Sound(os, world, {}, w)
    BY <1>1 DEF IInv, Keeping, Standing
  <1>3. world.focused \subseteq Windows
    BY <1>2 DEF Worlds
  <1> QED
    BY <1>1, <1>2, <1>3 DEF Sound

\* Windows that are still leave what is so as it is.
LEMMA StillKeeps ==
    ASSUME NEW o, NEW v, NEW u, NEW cs, Standing(o, v, cs), Still(v, u)
    PROVE  Standing(o, u, cs) /\ Later(o, v, u)
  <1>1. \A w : RowsWith(u, w) = RowsWith(v, w)
    BY RowsOnly DEF Still
  <1>2. /\ u \in Worlds /\ u.known = v.known /\ u.fresh = v.fresh /\ u.pending = v.pending
        /\ u.focused = v.focused /\ u.unmanaged = v.unmanaged /\ u.previous = v.previous
    BY DEF Still, Alike
  <1>3. ASSUME NEW w \in Windows PROVE Sound(o, u, cs, w)
    <2>1. Sound(o, v, cs, w) /\ Untouched(v, u, w)
      BY <1>1, <1>2 DEF Standing, Untouched
    <2> QED
      BY <1>2, <2>1, SoundStays
  <1>4. There(o, u) /\ OneFocus(u) /\ Later(o, v, u)
    BY <1>2 DEF Standing, There, OneFocus, Later, Met
  <1> QED
    BY <1>2, <1>3, <1>4 DEF Standing

\* The user asks for a window that was met.
LEMMA AskedKeeps ==
    ASSUME NEW v, NEW w \in Windows, Standing(os, v, {}), Met(os, v, w), NEW u, u = Asked(v, w)
    PROVE  Standing(os, u, {}) /\ Later(os, v, u) /\ u.unmanaged = v.unmanaged
  <1> DEFINE p == [v EXCEPT !.pending = w]
  <1>1. v \in Worlds /\ w \in Maybe
    BY DEF Standing, Maybe
  <1>2. /\ p \in Worlds /\ p.known = v.known /\ p.fresh = v.fresh /\ p.rows = v.rows
        /\ p.unmanaged = v.unmanaged /\ p.previous = v.previous /\ p.focused = v.focused
        /\ p.pending = w
    BY <1>1 DEF Worlds
  <1>3. u = FocusEntity(p, w)
    BY DEF Asked
  <1> HIDE DEF p
  <1>4. \A x : RowsWith(p, x) = RowsWith(v, x)
    BY <1>2, RowsOnly
  <1>5. \A x : Met(os, v, x) <=> Met(os, p, x)
    BY <1>2 DEF Met
  <1>6. ASSUME NEW x \in Windows PROVE Sound(os, p, {}, x)
    <2>1. Sound(os, v, {}, x)
      BY DEF Standing
    <2> QED
      BY <1>2, <1>4, <1>5, <2>1 DEF Sound
  <1>7. There(os, p) /\ OneFocus(p) /\ Later(os, v, p)
    BY <1>2, <1>5 DEF Standing, There, OneFocus, Later
  <1>8. Standing(os, p, {})
    BY <1>2, <1>6, <1>7 DEF Standing
  <1>9. Standing(os, u, {}) /\ Later(os, p, u)
    BY <1>3, <1>5, <1>8, FocusKeeps
  <1>10. u.unmanaged = p.unmanaged
    BY <1>2, <1>3, FocusIn
  <1> QED
    BY <1>2, <1>7, <1>9, <1>10, LaterOn

\* A window of the row on screen is in a row.
LEMMA ActiveMet ==
    ASSUME IInv, Idle
    PROVE  /\ Active(world) \in Seq(Windows)
           /\ \A i \in DOMAIN Active(world) : /\ Active(world)[i] \in Windows
                                              /\ Met(os, world, Active(world)[i])
           /\ \A w \in Windows : Contains(Active(world), w) => Met(os, world, w)
           /\ Active(world) # <<>> =>
                  1 \in DOMAIN Active(world) /\ Len(Active(world)) \in DOMAIN Active(world)
  <1> DEFINE row == Active(world)
  <1>1. /\ world \in Worlds /\ \A w \in Windows : Sound(os, world, {}, w)
    BY IdleIs
  <1>2. /\ row \in Seq(Windows)
        /\ \A i \in DOMAIN row : row[i] \in Windows /\ RowsWith(world, row[i]) # {}
        /\ \A w : Contains(row, w) => RowsWith(world, w) # {}
    BY <1>1, ActiveIn
  <1> HIDE DEF row
  <1>3. row # <<>> => 1 \in DOMAIN row /\ Len(row) \in DOMAIN row
    BY <1>2
  <1>4. \A w \in Windows : RowsWith(world, w) # {} => Met(os, world, w)
    BY <1>1 DEF Sound
  <1> QED
    BY <1>2, <1>3, <1>4 DEF row

LEMMA InDirectionMet ==
    ASSUME IInv, Idle, NEW dir \in {"west", "east", "first", "last"},
           NEW w, w = InDirection(dir), w # NoWindow
    PROVE  w \in Windows /\ Met(os, world, w)
  <1> DEFINE row == Active(world)
             i == CHOOSE k \in DOMAIN row : row[k] = InFocus
  <1>1. /\ row \in Seq(Windows)
        /\ \A k \in DOMAIN row : row[k] \in Windows /\ Met(os, world, row[k])
        /\ row # <<>> => 1 \in DOMAIN row /\ Len(row) \in DOMAIN row
    BY ActiveMet
  <1>2. Contains(row, InFocus) => i \in DOMAIN row
    BY DEF Contains
  <1>3. w = IF row = <<>> THEN NoWindow
            ELSE IF ~Contains(row, InFocus)
            THEN IF dir \in {"east", "first"} THEN Head(row) ELSE Last(row)
            ELSE CASE dir = "first" -> Head(row)
                   [] dir = "last" -> Last(row)
                   [] dir = "west" -> IF i = 1 THEN NoWindow ELSE row[i - 1]
                   [] dir = "east" -> IF i = Len(row) THEN NoWindow ELSE row[i + 1]
    BY DEF InDirection
  <1> HIDE DEF row, i
  <1>4. DOMAIN row = 1 .. Len(row) /\ Len(row) \in Nat
    BY <1>1
  <1>5. row # <<>>
    BY <1>3
  <1>6. Head(row) = row[1] /\ Last(row) = row[Len(row)]
    BY <1>1, <1>5 DEF Last
  <1>7. ~Contains(row, InFocus) => w \in {row[1], row[Len(row)]}
    BY <1>3, <1>5, <1>6
  <1>8. Contains(row, InFocus) =>
            w \in {row[1], row[Len(row)]} \/ (w = row[i - 1] /\ i # 1) \/ (w = row[i + 1] /\ i # Len(row))
    BY <1>3, <1>5, <1>6
  <1>9. \E k \in DOMAIN row : w = row[k]
    BY <1>1, <1>2, <1>4, <1>5, <1>7, <1>8
  <1> QED
    BY <1>1, <1>9

LEMMA FloatsMet ==
    ASSUME IInv, Idle, NEW w \in Floats
    PROVE  w \in Windows /\ Met(os, world, w)
  <1>1. w \in Windows /\ world.unmanaged[w] = "floating"
    BY IdleIs DEF Floats, Worlds
  <1> QED
    BY <1>1, IdleIs DEF Sound

LEMMA TargetsMet ==
    ASSUME IInv, Idle, NEW w \in FloatingTargets \cup ManagedTargets
    PROVE  w \in Windows /\ Met(os, world, w)
  <1>1. CASE w \in FloatingTargets
    <2>1. w \in Floats
      BY <1>1 DEF FloatingTargets
    <2> QED
      BY <2>1, FloatsMet
  <1>2. CASE w \in ManagedTargets
    <2>1. /\ Active(world) \in Seq(Windows) /\ Active(world) # <<>>
          /\ \/ w = world.lastManaged /\ Contains(Active(world), world.lastManaged)
             \/ w = Head(Active(world))
      BY <1>2, ActiveMet DEF ManagedTargets
    <2>2. CASE w = Head(Active(world))
      <3>1. w = Active(world)[1] /\ 1 \in DOMAIN Active(world)
        BY <2>1, <2>2, ActiveMet
      <3> QED
        BY <3>1, ActiveMet
    <2>3. CASE Contains(Active(world), w)
      <3>1. w \in Windows
        BY <2>1, <2>3, ContainsIn DEF ToSet
      <3> QED
        BY <2>3, <3>1, ActiveMet
    <2> QED
      BY <2>1, <2>2, <2>3
  <1> QED
    BY <1>1, <1>2

LEMMA MoveFocusKeeps ==
    ASSUME IInv, NEW dir \in {"west", "east", "first", "last"}, MoveFocus(dir)
    PROVE  IInv' /\ world'.unmanaged = world.unmanaged
  <1>1. PICK w \in Candidates(dir) : world' = Asked(world, w)
    BY DEF MoveFocus
  <1>2. OfUser /\ Idle
    BY DEF MoveFocus, OfUser
  <1>3. w \in Windows /\ Met(os, world, w)
    <2>1. CASE w \in Floats
      BY <1>2, <2>1, FloatsMet
    <2>2. CASE w = InDirection(dir) /\ w # NoWindow
      BY <1>2, <2>2, InDirectionMet
    <2> QED
      BY <2>1, <2>2 DEF Candidates
  <1>4. Standing(os, world, {})
    BY <1>2, IdleIs
  <1>5. /\ Standing(os, world', {}) /\ Later(os, world, world')
        /\ world'.unmanaged = world.unmanaged
    BY <1>1, <1>3, <1>4, AskedKeeps
  <1> QED
    BY <1>2, <1>5, UserKeeps

\* The focus goes to a window that was met.
LEMMA FocusStep ==
    ASSUME IInv, OfUser, NEW v, Still(world, v), NEW w, w \in Windows, Met(os, world, w),
           world' = FocusEntity(v, w)
    PROVE  IInv' /\ world'.unmanaged = world.unmanaged
  <1>1. Idle /\ Standing(os, world, {})
    BY IdleIs DEF OfUser
  <1>2. Standing(os, v, {}) /\ Later(os, world, v) /\ v.unmanaged = world.unmanaged
    BY <1>1, StillKeeps DEF Still
  <1>3. Met(os, v, w)
    BY <1>2 DEF Later
  <1>4. Standing(os, world', {}) /\ Later(os, v, world')
    BY <1>2, <1>3, FocusKeeps
  <1>5. world'.unmanaged = v.unmanaged
    BY <1>2, FocusIn DEF Standing
  <1>6. Later(os, world, world')
    BY <1>2, <1>4, LaterOn
  <1> QED
    BY <1>2, <1>4, <1>5, <1>6, UserKeeps

LEMMA LayersKeep ==
    ASSUME IInv, FocusFloating \/ FocusManaged \/ ToggleLayer
    PROVE  IInv' /\ world'.unmanaged = world.unmanaged
  <1> DEFINE v == [world EXCEPT !.floatsInFront = ~world.floatsInFront]
  <1>1. OfUser /\ Idle
    BY DEF FocusFloating, FocusManaged, ToggleLayer, OfUser
  <1>2. world \in Worlds /\ Standing(os, world, {})
    BY <1>1, IdleIs
  <1>3. Still(world, world) /\ Still(world, v)
    BY <1>2 DEF Still, Alike, Worlds
  <1>4. CASE FocusFloating \/ FocusManaged
    <2>1. PICK w \in FloatingTargets \cup ManagedTargets : world' = FocusEntity(world, w)
      BY <1>4 DEF FocusFloating, FocusManaged
    <2> QED
      BY <1>1, <1>3, <2>1, TargetsMet, FocusStep
  <1>5. CASE ToggleLayer
    <2>1. \/ world' = v
          \/ \E w \in FloatingTargets \cup ManagedTargets : world' = FocusEntity(v, w)
      BY <1>5 DEF ToggleLayer
    <2> HIDE DEF v
    <2>2. CASE world' = v
      <3>1. /\ Standing(os, world', {}) /\ Later(os, world, world')
            /\ world'.unmanaged = world.unmanaged
        BY <1>2, <1>3, <2>2, StillKeeps DEF Still
      <3> QED
        BY <1>1, <3>1, UserKeeps
    <2>3. CASE \E w \in FloatingTargets \cup ManagedTargets : world' = FocusEntity(v, w)
      BY <1>1, <1>3, <2>3, TargetsMet, FocusStep
    <2> QED
      BY <2>1, <2>2, <2>3
  <1> QED
    BY <1>4, <1>5

LEMMA SwitchRowKeeps ==
    ASSUME IInv, NEW r \in 1 .. Rows, SwitchRow(r)
    PROVE  IInv' /\ world'.unmanaged = world.unmanaged
  <1>1. OfUser /\ Idle /\ world' = [world EXCEPT !.active = r]
    BY DEF SwitchRow, OfUser
  <1>2. world \in Worlds /\ Standing(os, world, {})
    BY <1>1, IdleIs
  <1>3. Still(world, world')
    BY <1>1, <1>2 DEF Still, Alike, Worlds
  <1>4. Standing(os, world', {}) /\ Later(os, world, world') /\ world'.unmanaged = world.unmanaged
    BY <1>2, <1>3, StillKeeps DEF Still
  <1> QED
    BY <1>1, <1>4, UserKeeps

\* What ReturnsToRow says of a step.
BackToRow ==
    \A w \in Windows :
        LET left == world.unmanaged[w] \notin Away /\ world'.unmanaged[w] \in Away
            back == world.unmanaged[w] \in Away /\ world'.unmanaged[w] = "none" /\ ~Refloated(w)
        IN  /\ left => \A r \in RowsWith(world, w) : \E p \in world'.previous[w] : p.row = r
            /\ back /\ w \in world'.known /\ w \in os.open =>
                   \A p \in world.previous[w] : RowsWith(world', w) = {p.row}

LEMMA StaysPut ==
    ASSUME world'.unmanaged = world.unmanaged
    PROVE  BackToRow
  BY DEF BackToRow, Away

\* The user floats the window in focus, or has it managed again.
LEMMA ManageStep ==
    ASSUME IInv, Prompt, Manage
    PROVE  IInv' /\ BackToRow
  <1> DEFINE w == InFocus
             n == world.unmanaged[w]
  <1>1. OfUser /\ Idle /\ world.focused # {}
    BY DEF Manage, OfUser
  <1>2. PICK near \in Windows :
            world' = IF n = "none" THEN Unmanaging(world, w, "floating", near)
                     ELSE Managing(Placed(world, w), w, near)
    BY DEF Manage
  <1>3. w \in world.focused
    BY <1>1 DEF InFocus
  <1> HIDE DEF w
  <1>4. /\ Standing(os, world, {}) /\ world \in Worlds /\ There(os, world)
        /\ \A x \in Windows : Sound(os, world, {}, x)
        /\ w \in Windows /\ w \in world.known /\ Met(os, world, w)
    BY <1>1, <1>3, IdleIs
  <1>5. CASE n = "none"
    <2> DEFINE c == Command("unmanage", [window |-> w, as |-> "floating"])
               cs == {c}
    <2>1. world' = Unmanaging(world, w, "floating", near)
      BY <1>2, <1>5
    <2>2. c.op = "unmanage" /\ c.on.window = w /\ c.on.as = "floating"
      BY DEF Command
    <2> HIDE DEF c
    <2>3. /\ Rejected(cs, w) /\ \A x : x # w => ~Leaves(cs, x) /\ ~Rejected(cs, x)
          /\ \A x : ~Rejected({}, x)
      BY <2>2 DEF Rejected, Leaves
    <2> HIDE DEF cs
    <2>4. ASSUME NEW x \in Windows PROVE Sound(os, world, cs, x)
      <3>1. ~Leaves({}, x)
        BY DEF Leaves
      <3>2. Rejected(cs, x) => world.unmanaged[x] = "none"
        BY <1>5, <2>3
      <3>3. Sound(os, world, {}, x)
        BY <1>4
      <3> QED
        BY <3>1, <3>2, <3>3 DEF Sound
    <2>5. Standing(os, world, cs)
      BY <1>4, <2>4 DEF Standing
    <2>6. /\ \A x \in Windows \ {w} : Leaves(cs, x) => Leaves({}, x)
          /\ \A x \in Windows : Rejected({}, x) => Rejected(cs, x)
      BY <2>3
    <2>7. Standing(os, world', {}) /\ Later(os, world, world')
      BY <1>4, <2>1, <2>3, <2>5, <2>6, UnmanageKeeps
    <2>8. Leaving(world, world', w, "floating")
      BY <1>4, <2>1, UnmanagingIs
    <2>9. /\ \A x \in Windows \ {w} : world'.unmanaged[x] = world.unmanaged[x]
          /\ world'.unmanaged[w] = "floating"
      BY <2>8 DEF Leaving, Untouched
    <2>10. BackToRow
      BY <1>5, <2>9 DEF BackToRow, Away
    <2> QED
      BY <1>1, <2>7, <2>10, UserKeeps
  <1>6. CASE n # "none"
    <2> DEFINE p == Placed(world, w)
               u == world'
    <2>1. u = Managing(p, w, near)
      BY <1>2, <1>6
    <2>2. /\ p \in Worlds /\ p = [world EXCEPT !.rows = p.rows]
          /\ \A x \in Windows \ {w} : RowsWith(p, x) = RowsWith(world, x)
          /\ RowsWith(world, w) # {} => RowsWith(p, w) = RowsWith(world, w)
          /\ RowsWith(world, w) = {} => \E r \in 1 .. Rows : RowsWith(p, w) = {r}
      BY <1>4, PlacedIs
    <2> HIDE DEF p
    <2>3. /\ p.known = world.known /\ p.fresh = world.fresh /\ p.pending = world.pending
          /\ p.focused = world.focused /\ p.unmanaged = world.unmanaged
          /\ p.previous = world.previous
      BY <1>4, <2>2 DEF Worlds
    <2>4. Returning(p, u, w)
      BY <1>4, <1>6, <2>1, <2>2, <2>3, ManagingIs
    <2> HIDE DEF u
    <2>5. /\ u \in Worlds /\ u.known = world.known /\ u.fresh = world.fresh
          /\ u.pending = world.pending /\ u.focused = world.focused
          /\ u.unmanaged[w] = "none"
      BY <2>3, <2>4 DEF Returning, Alike
    <2>6. \A x \in Windows \ {w} : Untouched(world, u, x)
      BY <2>2, <2>3, <2>4 DEF Returning, Untouched
    <2>7. \A x : Met(os, u, x) <=> Met(os, world, x)
      BY <2>5 DEF Met
    <2>8. /\ RowsWith(u, w) # {} /\ \A r, s \in RowsWith(u, w) : r = s
          /\ \A q, s \in u.previous[w] : q = s
      <3>1. /\ \A r, s \in RowsWith(world, w) : r = s
            /\ \A q, s \in world.previous[w] : q = s
        BY <1>4 DEF Sound
      <3>2. RowsWith(p, w) # {} /\ \A r, s \in RowsWith(p, w) : r = s
        BY <2>2, <3>1
      <3> QED
        BY <2>3, <2>4, <3>1, <3>2 DEF Returning
    <2>9. ASSUME NEW x \in Windows PROVE Sound(os, u, {}, x)
      <3>1. CASE x = w
        <4>1. ~Rejected({}, w)
          BY DEF Rejected
        <4> QED
          BY <1>4, <2>5, <2>7, <2>8, <3>1, <4>1 DEF Sound
      <3>2. CASE x # w
        <4>1. Sound(os, world, {}, x) /\ Untouched(world, u, x)
          BY <1>4, <2>6, <3>2
        <4> QED
          BY <2>5, <4>1, SoundStays
      <3> QED
        BY <3>1, <3>2
    <2>10. There(os, u) /\ OneFocus(u) /\ Later(os, world, u)
      BY <1>4, <2>5, <2>7 DEF Standing, There, OneFocus, Later
    <2>11. Standing(os, u, {})
      BY <2>5, <2>9, <2>10 DEF Standing
    <2>12. /\ \A x \in Windows \ {w} : u.unmanaged[x] = world.unmanaged[x]
           /\ w \in os.open => \A q \in world.previous[w] : RowsWith(u, w) = {q.row}
      <3>1. \A q, s \in world.previous[w] : q = s
        BY <1>4 DEF Sound
      <3>2. w \in os.open => w \in Answering
        BY DEF Answering
      <3> QED
        BY <2>3, <2>4, <2>6, <3>1, <3>2 DEF Returning, Untouched
    <2>13. BackToRow
      BY <2>5, <2>12 DEF BackToRow, Away, u
    <2> QED
      BY <1>1, <2>10, <2>11, <2>13, UserKeeps DEF u
  <1> QED
    BY <1>5, <1>6

------------------------------------------------------------------------------
(* Frames *)

LEMMA NewsStays ==
    ASSUME TypeOK, News, UNCHANGED <<os, channel>>, ToSet(inbox') \subseteq ToSet(inbox),
           Later(os, world, world')
    PROVE  News'
  <1>1. \A kind, x : Told(kind, x)' => Told(kind, x)
    BY DEF Told
  <1>2. \A w \in Windows : Met(os, world, w) => Met(os', world', w)
    BY DEF Later
  <1>3. os.open \subseteq Windows /\ os' = os /\ channel' = channel
    BY DEF TypeOK, OSes
  <1>4. \A w \in Windows : Told("destroyed", w)' => w \in os'.closed
    BY <1>1, <1>3 DEF News
  <1>5. \A w \in Windows : Told("minimized", w)' => Met(os', world', w)
    BY <1>1, <1>2 DEF News
  <1>6. \A app \in Apps : Told("hidden", app)' =>
            \A w \in os'.open : Owner[w] = app => Met(os', world', w)
    BY <1>1, <1>2, <1>3 DEF News
  <1>7. \A app \in Apps : Event("hidden", app) \in ToSet(channel') =>
            app \in os'.hidden \/ Event("visible", app) \in ToSet(channel')
    BY <1>3 DEF News
  <1> QED
    BY <1>4, <1>5, <1>6, <1>7 DEF News

LEMMA BeginKeeps ==
    ASSUME IInv, Begin
    PROVE  IInv' /\ BackToRow
  <1>1. /\ Idle /\ inbox' = world.sent \o channel /\ channel' = <<>>
        /\ world' = [world EXCEPT !.sent = <<>>]
        /\ todo' = Systems \cup {"post"}
        /\ UNCHANGED <<os, naming, cmds, inputs, excused>>
    BY DEF Begin
  <1>2. /\ Standing(os, world, {}) /\ world \in Worlds /\ ToSet(cmds) = {} /\ inbox = <<>>
        /\ channel \in Seq(Events) /\ TypeOK /\ cmds = <<>>
    BY <1>1, IdleIs DEF IInv, TypeOK, Frames
  <1>3. Still(world, world')
    <2> DEFINE none == <<>>
    <2>1. none \in Seq(Focusings)
      OBVIOUS
    <2>2. world' = [world EXCEPT !.sent = none]
      BY <1>1
    <2> HIDE DEF none
    <2> QED
      BY <1>2, <2>1, <2>2 DEF Still, Alike, Worlds
  <1>4. /\ Standing(os, world', {}) /\ Later(os, world, world') /\ world' \in Worlds
        /\ world'.unmanaged = world.unmanaged
    BY <1>2, <1>3, StillKeeps DEF Still
  <1>5. /\ world.sent \in Seq(Events) /\ \A e \in ToSet(world.sent) : e.kind = "focused"
    <2>1. world.sent \in Seq(Focusings)
      BY <1>2 DEF Worlds
    <2>2. Focusings \subseteq Events /\ \A e \in Focusings : e.kind = "focused"
      BY DEF Focusings, Events
    <2>3. \A e \in ToSet(world.sent) : e \in Focusings
      BY <2>1 DEF ToSet
    <2> QED
      BY <2>1, <2>2, <2>3
  <1> DEFINE sent == world.sent
  <1> HIDE DEF sent
  <1>6. inbox' \in Seq(Events) /\ ToSet(inbox') = ToSet(sent) \cup ToSet(channel)
    <2>1. sent \in Seq(Events) /\ inbox' = sent \o channel
      BY <1>1, <1>5 DEF sent
    <2> QED
      BY <1>2, <2>1, ToSetConcat
  <1>7. ToSet(channel') = {} /\ ToSet(inbox) = {}
    BY <1>1, <1>2 DEF ToSet
  <1>8. TypeOK'
    BY <1>1, <1>2, <1>4, <1>6 DEF TypeOK
  <1>9. Keeping(os, world, ToSet(cmds))'
    BY <1>1, <1>2, <1>4 DEF Keeping, Rejected
  <1>10. \A kind, x : Event(kind, x).kind = kind
    BY DEF Event
  <1>11. \A kind, x : kind # "focused" /\ Told(kind, x)' => Told(kind, x)
    BY <1>5, <1>6, <1>7, <1>10 DEF Told, sent
  <1>12. News'
    <2>1. \A w \in Windows : Met(os, world, w) => Met(os', world', w)
      BY <1>1, <1>4 DEF Later
    <2>2. os.open \subseteq Windows /\ os' = os
      BY <1>1, <1>2 DEF TypeOK, OSes
    <2>3. \A w \in Windows : Told("destroyed", w)' => w \in os'.closed
      BY <1>11, <2>2 DEF News, IInv
    <2>4. \A w \in Windows : Told("minimized", w)' => Met(os', world', w)
      BY <1>11, <2>1 DEF News, IInv
    <2>5. \A app \in Apps : Told("hidden", app)' =>
              \A w \in os'.open : Owner[w] = app => Met(os', world', w)
      BY <1>11, <2>1, <2>2 DEF News, IInv
    <2> QED
      BY <1>7, <2>3, <2>4, <2>5 DEF News
  <1>13. Doomed'
    <2>1. \A w \in world.known \cap os.closed : Event("destroyed", w) \in ToSet(channel)
      BY <1>1, <1>2 DEF IInv, Doomed, Idle
    <2>2. "destroyed" \in todo'
      BY <1>1 DEF Systems, Kinds
    <2>3. world'.known = world.known /\ os' = os
      BY <1>1, <1>3 DEF Still, Alike
    <2> QED
      BY <1>6, <2>1, <2>2, <2>3 DEF Doomed
  <1>14. Frames'
    BY <1>1 DEF Frames, Idle
  <1> QED
    BY <1>4, <1>8, <1>9, <1>12, <1>13, <1>14, StaysPut DEF IInv

LEMMA ResultKeeps ==
    ASSUME IInv, NEW sys \in Systems, NEW near, NEW t, t = Result(sys, near)
    PROVE  /\ Working(t)
           /\ sys = "destroyed" => \A w \in world.known :
                 Event("destroyed", w) \in ToSet(inbox) => Command("despawn", w) \in ToSet(t.out)
  <1>1. TypeOK /\ News /\ Keeping(os, world, ToSet(cmds))
    BY DEF IInv
  <1>2. sys \in Listening \/ sys \in {"place", "reject", "retry"}
    BY KindsAre DEF Systems
  <1>3. CASE sys \in Listening
    BY <1>1, <1>3, ListeningKeeps
  <1>4. CASE sys = "place"
    BY <1>1, <1>4, PlaceKeeps
  <1>5. CASE sys = "reject"
    BY <1>1, <1>5, RejectKeeps
  <1>6. CASE sys = "retry"
    BY <1>1, <1>6, RetryKeeps
  <1> QED
    BY <1>2, <1>3, <1>4, <1>5, <1>6

\* A system runs.
LEMMA RunKeeps ==
    ASSUME IInv, NEW sys \in Systems, Run(sys)
    PROVE  IInv' /\ BackToRow
  <1>1. PICK near : world' = Result(sys, near).v /\ cmds' = cmds \o Result(sys, near).out
    BY DEF Run
  <1> DEFINE s == Result(sys, near)
             now == ToSet(cmds) \cup ToSet(s.out)
  <1>2. /\ sys \in todo /\ todo' = todo \ {sys} /\ excused' \in BOOLEAN
        /\ UNCHANGED <<os, naming, channel, inbox, inputs>>
    BY DEF Run, IInv, TypeOK
  <1>3. /\ Working(s)
        /\ sys = "destroyed" => \A w \in world.known :
              Event("destroyed", w) \in ToSet(inbox) => Command("despawn", w) \in ToSet(s.out)
    BY ResultKeeps
  <1>4. world' = s.v /\ cmds' = cmds \o s.out
    BY <1>1
  <1> HIDE DEF s
  <1>5. TypeOK /\ News /\ Doomed /\ Frames /\ cmds \in Seq(Commands)
    BY DEF IInv, TypeOK
  <1>6. s.v \in Worlds /\ s.out \in Seq(Commands)
    BY <1>3 DEF Working, States
  <1>7. cmds' \in Seq(Commands) /\ ToSet(cmds') = now
    BY <1>4, <1>5, <1>6, ToSetConcat
  <1>8. Keeping(os, world', now) /\ Same(world, world') /\ Later(os, world, world')
    BY <1>3, <1>4 DEF Working
  <1> HIDE DEF now
  <1>9. TypeOK'
    BY <1>2, <1>4, <1>5, <1>6, <1>7 DEF TypeOK
  <1>10. Keeping(os, world, ToSet(cmds))'
    BY <1>2, <1>7, <1>8
  <1>11. News'
    BY <1>2, <1>5, <1>8, NewsStays
  <1>12. Doomed'
    <2>1. world'.known = world.known /\ os' = os /\ channel' = channel /\ inbox' = inbox
      BY <1>2, <1>8 DEF Same
    <2>2. ASSUME NEW w \in world.known \cap os.closed
          PROVE  \/ Event("destroyed", w) \in ToSet(channel)
                 \/ "destroyed" \in todo' /\ Event("destroyed", w) \in ToSet(inbox)
                 \/ Command("despawn", w) \in ToSet(cmds')
      <3>1. \/ Event("destroyed", w) \in ToSet(channel)
            \/ "destroyed" \in todo /\ Event("destroyed", w) \in ToSet(inbox)
            \/ Command("despawn", w) \in ToSet(cmds)
        BY <1>5 DEF Doomed
      <3> QED
        BY <1>2, <1>3, <1>7, <3>1 DEF now
    <2> QED
      BY <2>1, <2>2 DEF Doomed
  <1>13. Frames'
    BY <1>2, <1>5 DEF Frames, Idle, Systems, Kinds
  <1>14. BackToRow
    BY <1>8, StaysPut DEF Same
  <1> QED
    BY <1>9, <1>10, <1>11, <1>12, <1>13, <1>14 DEF IInv

\* A window that a command minimizes or hides leaves its row for a while, and
\* one that a command has managed again is back there.
LEMMA AppliedBack ==
    ASSUME IInv, Prompt, NEW near, world' = AllApplied(world, cmds, near)
    PROVE  BackToRow
  <1> DEFINE u == world'
             cs == ToSet(cmds)
  <1>1. /\ cmds \in Seq(Commands) /\ world \in Worlds /\ There(os, world)
        /\ Standing(os, world, cs) /\ \A i \in DOMAIN cmds : Fit(os, world, cmds[i])
        /\ \A w \in Windows : Rejected(cs, w) => RowsWith(world, w) = {}
    BY DEF IInv, TypeOK, Keeping, Standing, ToSet
  <1>2. /\ Standing(os, u, {}) /\ Later(os, world, u)
        /\ \A w \in Windows, r \in 1 .. Rows :
              HasPlace(world, w, r) /\ ~Rejected(cs, w) => HasPlace(u, w, r)
    BY <1>1, AllAppliedKeeps DEF Prompt
  <1> HIDE DEF u, cs
  <1>3. ASSUME NEW w \in Windows
        PROVE  Sound(os, world, cs, w) /\ Sound(os, u, {}, w) /\ RowsWith(world, w) \subseteq 1 .. Rows
               /\ world.unmanaged[w] \in Away \cup {"none", "floating"}
               /\ world.previous[w] \subseteq Homes
               /\ (w \in os.open => w \notin os.closed)
    BY <1>1, <1>2 DEF Standing, RowsWith, Worlds, There
  <1>4. ASSUME NEW w \in Windows, world.unmanaged[w] \notin Away, u.unmanaged[w] \in Away,
               NEW r \in RowsWith(world, w)
        PROVE  \E p \in u.previous[w] : p.row = r
    <2>1. world.unmanaged[w] = "none" /\ RowsWith(world, w) = {r} /\ r \in 1 .. Rows
      BY <1>3, <1>4 DEF Sound
    <2>2. HasPlace(world, w, r) /\ ~Rejected(cs, w)
      BY <1>1, <1>4, <2>1 DEF HasPlace
    <2>3. HasPlace(u, w, r)
      BY <1>2, <2>1, <2>2
    <2>4. u.unmanaged[w] # "none"
      BY <1>4 DEF Away
    <2>5. w \in u.known
      BY <1>3, <2>4 DEF Sound
    <2> QED
      BY <2>3, <2>4, <2>5 DEF HasPlace
  <1>5. ASSUME NEW w \in Windows, world.unmanaged[w] \in Away, u.unmanaged[w] = "none",
               ~Refloated(w), w \in u.known, w \in os.open, NEW p \in world.previous[w]
        PROVE  RowsWith(u, w) = {p.row}
    <2>1. world.unmanaged[w] # "none" /\ world.unmanaged[w] # "floating"
      BY <1>5 DEF Away
    <2>2. RowsWith(world, w) = {} /\ world.previous[w] = {p}
      BY <1>3, <1>5, <2>1 DEF Sound
    <2>3. p \in Homes /\ p.row \in 1 .. Rows
      BY <1>3, <1>5 DEF Homes
    <2>4. HasPlace(world, w, p.row)
      BY <2>1, <2>2, <2>3 DEF HasPlace
    <2>5. ~Rejected(cs, w)
      <3>1. ASSUME NEW i \in DOMAIN cmds, cmds[i].op = "unmanage", cmds[i].on.window = w,
                   cmds[i].on.as = "floating"
            PROVE  FALSE
        <4>1. cmds[i] \in Commands
          BY <1>1
        <4>2. cmds[i].on \in [window : Windows, as : Away \cup {"floating"}]
          BY <3>1, <4>1, CommandIs
        <4>3. cmds[i].on = [window |-> w, as |-> "floating"]
          BY <3>1, <4>2
        <4> QED
          BY <1>5, <3>1, <4>3 DEF Refloated
      <3> QED
        BY <3>1 DEF Rejected, ToSet, cs
    <2>6. HasPlace(u, w, p.row)
      BY <1>2, <2>3, <2>4, <2>5
    <2>7. RowsWith(u, w) # {}
      <3>1. Met(os, world, w)
        <4>1. world.unmanaged[w] \in {"minimized", "hidden"}
          BY <1>5 DEF Away
        <4> QED
          BY <1>3, <1>5, <4>1 DEF Sound
      <3>2. w \notin u.fresh
        BY <1>2, <3>1 DEF Later, Met
      <3>3. ~Leaves({}, w)
        BY DEF Leaves
      <3> QED
        BY <1>3, <1>5, <3>2, <3>3 DEF Sound
    <2> QED
      BY <1>5, <2>6, <2>7 DEF HasPlace
  <1> QED
    BY <1>4, <1>5 DEF BackToRow, u

LEMMA SyncKeeps ==
    ASSUME IInv, Prompt, Sync
    PROVE  IInv' /\ BackToRow
  <1>1. PICK near \in Windows : world' = AllApplied(world, cmds, near)
    BY DEF Sync
  <1>2. /\ cmds # <<>> /\ cmds' = <<>>
        /\ UNCHANGED <<os, naming, channel, inbox, todo, inputs, excused>>
    BY DEF Sync
  <1>3. /\ cmds \in Seq(Commands) /\ TypeOK /\ News /\ Doomed /\ Frames
        /\ Standing(os, world, ToSet(cmds)) /\ \A i \in DOMAIN cmds : Fit(os, world, cmds[i])
    BY DEF IInv, TypeOK, Keeping, ToSet
  <1> DEFINE u == world'
  <1>4. /\ Standing(os, u, {}) /\ Later(os, world, u)
        /\ \A i \in DOMAIN cmds : cmds[i].op = "despawn" => cmds[i].on \notin u.known
    BY <1>1, <1>3, AllAppliedKeeps DEF Prompt
  <1> HIDE DEF u
  <1>5. cmds' \in Seq(Commands) /\ ToSet(cmds') = {} /\ u \in Worlds
    BY <1>2, <1>4 DEF ToSet, Standing
  <1>6. TypeOK'
    BY <1>2, <1>3, <1>5 DEF TypeOK, u
  <1>7. Keeping(os, world, ToSet(cmds))'
    BY <1>2, <1>4, <1>5 DEF Keeping, Rejected, u
  <1>8. News'
    BY <1>2, <1>3, <1>4, NewsStays DEF u
  <1>9. Doomed'
    <2>1. os.open \cap os.closed = {} /\ os.closed \subseteq Windows
      BY <1>3 DEF Standing, There, TypeOK, OSes
    <2>2. ASSUME NEW w \in u.known \cap os.closed
          PROVE  \/ Event("destroyed", w) \in ToSet(channel)
                 \/ "destroyed" \in todo /\ Event("destroyed", w) \in ToSet(inbox)
      <3>1. w \in world.known
        BY <1>4, <2>1 DEF Later
      <3>2. Command("despawn", w) \notin ToSet(cmds)
        BY <1>4 DEF ToSet, Command
      <3> QED
        BY <1>3, <3>1, <3>2 DEF Doomed
    <2> QED
      BY <1>2, <2>2 DEF Doomed, u
  <1>10. Frames'
    BY <1>2, <1>3 DEF Frames, Idle
  <1>11. BackToRow
    BY <1>1, AppliedBack
  <1> QED
    BY <1>6, <1>7, <1>8, <1>9, <1>10, <1>11 DEF IInv

\* No event of the frame is left over for the system that takes windows away.
LEMMA PostKeeps ==
    ASSUME IInv, Post
    PROVE  IInv' /\ BackToRow
  <1>1. /\ "post" \in todo /\ cmds = <<>> /\ Done /\ todo' = {} /\ inbox' = <<>>
        /\ world' \in {world, Recovered(world)}
        /\ UNCHANGED <<os, naming, channel, cmds, inputs, excused>>
    BY DEF Post
  <1>2. /\ TypeOK /\ News /\ Doomed /\ Frames /\ ToSet(cmds) = {}
        /\ inbox \in Seq(Events) /\ os.open \cap os.closed = {}
        /\ ToSet(inbox') = {}
    BY <1>1 DEF IInv, TypeOK, ToSet, Keeping, Standing, There
  <1>3. Standing(os, world, {}) /\ world \in Worlds
    BY <1>2 DEF IInv, Keeping, Standing
  <1>4. /\ Standing(os, world', {}) /\ Later(os, world, world')
        /\ world'.unmanaged = world.unmanaged /\ world' \in Worlds
    <2>1. CASE world' = world
      BY <1>3, <2>1 DEF Later
    <2>2. CASE world' # world
      <3> DEFINE row == Active(world)
                 w == row[1]
      <3>1. LostFocus /\ world' = FocusEntity(world, Head(row))
        BY <1>1, <2>2 DEF Recovered
      <3>2. row # <<>> /\ row \in Seq(Windows)
        BY <1>3, <3>1, ActiveIn DEF LostFocus
      <3>3. 1 \in DOMAIN row /\ Head(row) = w
        BY <3>2
      <3>4. w \in Windows /\ RowsWith(world, w) # {}
        BY <1>3, <3>3, ActiveIn
      <3>5. Met(os, world, w)
        BY <1>3, <3>4 DEF Standing, Sound
      <3>6. world' = FocusEntity(world, w)
        BY <3>1, <3>3
      <3> HIDE DEF w
      <3>7. Standing(os, world', {}) /\ Later(os, world, world')
        BY <1>3, <3>5, <3>6, FocusKeeps
      <3>8. world'.unmanaged = world.unmanaged /\ world' \in Worlds
        BY <1>3, <3>6, FocusIn
      <3> QED
        BY <3>7, <3>8
    <2> QED
      BY <2>1, <2>2
  <1>5. TypeOK'
    BY <1>1, <1>2, <1>4 DEF TypeOK
  <1>6. Keeping(os, world, ToSet(cmds))'
    BY <1>1, <1>2, <1>4 DEF Keeping, Rejected
  <1>7. News'
    BY <1>1, <1>2, <1>4, NewsStays
  <1>8. Doomed'
    <2>1. ASSUME NEW w \in world'.known \cap os.closed
          PROVE  Event("destroyed", w) \in ToSet(channel)
      <3>1. w \in world.known
        BY <1>2, <1>4 DEF Later
      <3>2. ~("destroyed" \in todo /\ Event("destroyed", w) \in ToSet(inbox))
        <4>1. ASSUME "destroyed" \in todo, Event("destroyed", w) \in ToSet(inbox) PROVE FALSE
          <5>1. PICK i \in DOMAIN inbox : inbox[i] = Event("destroyed", w)
            BY <4>1 DEF ToSet
          <5>2. inbox[i].kind \in Kinds["destroyed"]
            BY <5>1, KindsAre DEF Event
          <5>3. HasWork("destroyed")
            BY <5>2 DEF HasWork
          <5> QED
            BY <1>1, <4>1, <5>3 DEF Done
        <4> QED
          BY <4>1
      <3> QED
        BY <1>2, <3>1, <3>2 DEF Doomed
    <2> QED
      BY <1>1, <2>1 DEF Doomed
  <1>9. Frames'
    BY <1>1 DEF Frames, Idle
  <1> QED
    BY <1>4, <1>5, <1>6, <1>7, <1>8, <1>9, StaysPut DEF IInv

LEMMA CreateKeeps ==
    ASSUME IInv, NEW w \in Windows, Create(w)
    PROVE  IInv' /\ BackToRow
  <1> DEFINE T == Range(channel) \ {Event("created", w)}
  <1>1. /\ Idle /\ channel' = Retained(channel, T) /\ world' = Spawned(world, w)
        /\ UNCHANGED <<os, naming, inbox, todo, cmds, inputs, excused>>
    BY DEF Create
  <1>2. /\ Standing(os, world, {}) /\ world \in Worlds /\ There(os, world)
        /\ os \in OSes /\ naming \in Seq(Windows) /\ channel \in Seq(Events)
        /\ inputs \in Nat /\ excused \in BOOLEAN
    BY <1>1, IdleIs DEF IInv, TypeOK
  <1>3. T = ToSet(channel) \ {Event("created", w)}
    BY DEF Range, ToSet
  <1> HIDE DEF T
  <1>4. channel' \in Seq(Events) /\ ToSet(channel') = ToSet(channel) \cap T
    BY <1>1, <1>2, RetainedHolds
  <1>5. Event("created", w).kind = "created"
    BY DEF Event
  <1>6. /\ \A e \in ToSet(channel) : e \in ToSet(channel') \/ e.kind = "created"
        /\ ToSet(channel') \ ToSet(channel) = {}
    BY <1>3, <1>4, <1>5
  <1>7. Standing(os, world', {}) /\ Later(os, world, world')
    BY <1>1, <1>2, SpawnKeeps
  <1>8. world'.unmanaged = world.unmanaged
    BY <1>1, <1>2, SpawnedIs DEF Coming
  <1>9. /\ Standing(os', world', {}) /\ world'.known \subseteq world.known \cup os'.open
        /\ \A x \in Windows : Met(os, world, x) => Met(os', world', x)
    BY <1>1, <1>7 DEF Later
  <1>10. IInv'
    BY <1>1, <1>2, <1>4, <1>6, <1>9, IdleKeeps
  <1> QED
    BY <1>8, <1>10, StaysPut

------------------------------------------------------------------------------
(* The theorems *)

LEMMA InitKeeps ==
    ASSUME Init
    PROVE  IInv
  <1> DEFINE S == ToSet(Start)
             own(app) == Retained(Start, {w \in Windows : Owner[w] = app})
             focus == [app \in Apps |-> IF own(app) = <<>> THEN NoWindow ELSE Head(own(app))]
             rows == [r \in 1 .. Rows |-> IF r = 1 THEN Start ELSE <<>>]
             none == <<>>
  <1>1. Start \in Seq(Windows) /\ Start # <<>> /\ Rows \in Nat \ {0}
    BY LifeAssumption
  <1>2. S \subseteq Windows /\ Start[1] \in S
    BY <1>1 DEF ToSet
  <1>3. focus \in [Apps -> Maybe]
    <2>1. \A app : own(app) \in Seq(Windows)
      BY <1>1, RetainedHolds
    <2> HIDE DEF own
    <2>2. \A app : own(app) # <<>> => Head(own(app)) \in Windows
      BY <2>1
    <2> QED
      BY <2>2 DEF Maybe
  <1>4. rows \in [1 .. Rows -> Seq(Windows)]
    BY <1>1
  <1>5. ToSet(none) = {} /\ none \in Seq(Focusings) /\ none \in Seq(Windows)
        /\ none \in Seq(Events) /\ none \in Seq(Commands)
    BY DEF ToSet
  <1>6. Range(Start) = S
    BY DEF Range, ToSet
  <1>7. os = [open |-> S, closed |-> {}, minimized |-> {}, hidden |-> {},
              busy |-> {}, front |-> Owner[Start[1]], focus |-> focus]
    BY <1>6 DEF Init
  <1>8. world = [known |-> S, unmanaged |-> [w \in Windows |-> "none"],
                 rows |-> rows, active |-> 1, previous |-> [w \in Windows |-> {}],
                 focused |-> {Start[1]}, added |-> FALSE, pending |-> NoWindow,
                 lastManaged |-> Start[1], lastFloating |-> NoWindow, floatsInFront |-> TRUE,
                 fresh |-> {}, strays |-> {}, retries |-> {}, barred |-> {},
                 sent |-> none, asked |-> NoWindow]
    BY <1>6 DEF Init
  <1>9. /\ naming = none /\ channel = none /\ inbox = none /\ todo = {} /\ cmds = none
        /\ inputs = 0 /\ excused = FALSE
    BY DEF Init
  <1>10. \A r \in 1 .. Rows : ToSet(rows[r]) = IF r = 1 THEN S ELSE {}
    BY <1>5
  <1> HIDE DEF S, focus, rows, none
  <1>11. os \in OSes
    BY <1>2, <1>3, <1>7, LifeAssumption DEF OSes
  <1>12. world \in Worlds
    <2>1. [w \in Windows |-> "none"] \in [Windows -> Away \cup {"none", "floating"}]
      OBVIOUS
    <2>2. [w \in Windows |-> {}] \in [Windows -> SUBSET Homes]
      OBVIOUS
    <2>3. 1 \in 1 .. Rows /\ NoWindow \in Maybe /\ Start[1] \in Maybe /\ {Start[1]} \in SUBSET Windows
      BY <1>1, <1>2 DEF Maybe
    <2> DEFINE unmanaged == [w \in Windows |-> "none"]
               previous == [w \in Windows |-> {}]
    <2>4. world = [known |-> S, unmanaged |-> unmanaged,
                   rows |-> rows, active |-> 1, previous |-> previous,
                   focused |-> {Start[1]}, added |-> FALSE, pending |-> NoWindow,
                   lastManaged |-> Start[1], lastFloating |-> NoWindow, floatsInFront |-> TRUE,
                   fresh |-> {}, strays |-> {}, retries |-> {}, barred |-> {},
                   sent |-> none, asked |-> NoWindow]
      BY <1>8
    <2>5. /\ unmanaged \in [Windows -> Away \cup {"none", "floating"}]
          /\ previous \in [Windows -> SUBSET Homes]
      BY <2>1, <2>2
    <2> HIDE DEF unmanaged, previous
    <2> QED
      BY <1>2, <1>4, <1>5, <2>3, <2>4, <2>5 DEF Worlds
  <1>13. TypeOK
    BY <1>5, <1>9, <1>11, <1>12 DEF TypeOK
  <1>14. \A w : RowsWith(world, w) = IF w \in S THEN {1} ELSE {}
    <2>1. \A w : RowsWith(world, w) = {r \in 1 .. Rows : w \in ToSet(world.rows[r])}
      BY <1>12, RowsWithIn
    <2>2. world.rows = rows /\ 1 \in 1 .. Rows
      BY <1>1, <1>8
    <2> QED
      BY <1>10, <2>1, <2>2
  <1>15. /\ world.known = S /\ world.fresh = {} /\ world.focused = {Start[1]}
         /\ world.pending = NoWindow /\ os.open = S /\ os.closed = {}
         /\ \A w \in Windows : world.unmanaged[w] = "none" /\ world.previous[w] = {}
    BY <1>7, <1>8
  <1>16. \A w : ~Rejected({}, w)
    BY DEF Rejected
  <1>17. ASSUME NEW w \in Windows PROVE Sound(os, world, {}, w)
    <2>1. /\ w # NoWindow /\ world.unmanaged[w] = "none" /\ world.previous[w] = {}
          /\ (w \in world.focused => w \in S) /\ ~Rejected({}, w)
      BY <1>2, <1>15, <1>16, LifeAssumption
    <2>2. CASE w \in S
      <3>1. RowsWith(world, w) = {1}
        BY <1>14, <2>2
      <3> QED
        BY <1>15, <2>1, <2>2, <3>1 DEF Sound, Met
    <2>3. CASE w \notin S
      <3>1. RowsWith(world, w) = {}
        BY <1>14, <2>3
      <3> QED
        BY <1>15, <2>1, <2>3, <3>1 DEF Sound, Met
    <2> QED
      BY <2>2, <2>3
  <1>18. There(os, world) /\ OneFocus(world)
    BY <1>15 DEF There, OneFocus
  <1>19. Keeping(os, world, {})
    BY <1>12, <1>16, <1>17, <1>18 DEF Keeping, Standing
  <1>20. ToSet(cmds) = {} /\ ToSet(channel) = {} /\ ToSet(inbox) = {}
    BY <1>5, <1>9
  <1>21. News /\ Doomed
    BY <1>15, <1>20 DEF News, Told, Doomed
  <1>22. Frames
    BY <1>9 DEF Frames, Idle, none
  <1> QED
    BY <1>13, <1>19, <1>20, <1>21, <1>22 DEF IInv

\* What macOS does leaves the states of the windows as they are.
LEMMA OSStays ==
    ASSUME OSNext \/ GiveUp, world \in Worlds
    PROVE  world'.unmanaged = world.unmanaged
  <1>1. CASE \E w \in Windows : Open(w) \/ Click(w) \/ Minimize(w) \/ Deminimize(w)
                                \/ Close(w) \/ Leave(w)
    BY <1>1 DEF Open, Click, Minimize, Deminimize, Close, Leave, OfOS
  <1>2. CASE \E app \in Apps : Hide(app) \/ Show(app) \/ Stall(app) \/ Resume(app)
    BY <1>2 DEF Hide, Show, Stall, Resume, OfOS
  <1>3. CASE Grant \/ Refuse
    BY <1>3 DEF Grant, Refuse, Answered, Worlds
  <1>4. CASE Name
    BY <1>4 DEF Name
  <1>5. CASE GiveUp
    BY <1>5 DEF GiveUp, Worlds
  <1> QED
    BY <1>1, <1>2, <1>3, <1>4, <1>5 DEF OSNext

LEMMA NextKeeps ==
    ASSUME IInv, Prompt, Next
    PROVE  IInv' /\ BackToRow
  <1>1. world \in Worlds
    BY DEF IInv, TypeOK
  <1>2. CASE OSNext
    <2>1. BackToRow
      BY <1>1, <1>2, OSStays, StaysPut
    <2>2. CASE \E w \in Windows : \/ Open(w) \/ Click(w) \/ Minimize(w) \/ Deminimize(w)
                                  \/ Close(w) \/ Leave(w)
      BY <2>1, <2>2, OpenKeeps, ClickKeeps, MinimizeKeeps, DeminimizeKeeps, CloseKeeps, LeaveKeeps
    <2>3. CASE \E app \in Apps : Hide(app) \/ Show(app) \/ Stall(app) \/ Resume(app)
      BY <2>1, <2>3, HideKeeps, ShowKeeps, StallKeeps, ResumeKeeps
    <2>4. CASE Grant \/ Refuse \/ Name
      BY <2>1, <2>4, GrantKeeps, RefuseKeeps, NameKeeps
    <2> QED
      BY <1>2, <2>2, <2>3, <2>4 DEF OSNext
  <1>3. CASE UserNext
    <2>1. CASE \E dir \in {"west", "east", "first", "last"} : MoveFocus(dir)
      BY <2>1, MoveFocusKeeps, StaysPut
    <2>2. CASE FocusFloating \/ FocusManaged \/ ToggleLayer
      BY <2>2, LayersKeep, StaysPut
    <2>3. CASE Manage
      BY <2>3, ManageStep
    <2>4. CASE \E r \in 1 .. Rows : SwitchRow(r)
      BY <2>4, SwitchRowKeeps, StaysPut
    <2> QED
      BY <1>3, <2>1, <2>2, <2>3, <2>4 DEF UserNext
  <1>4. CASE FrameNext
    BY <1>4, BeginKeeps, RunKeeps, SyncKeeps, PostKeeps, CreateKeeps DEF FrameNext
  <1>5. CASE GiveUp
    BY <1>1, <1>5, GiveUpKeeps, OSStays, StaysPut
  <1> QED
    BY <1>2, <1>3, <1>4, <1>5 DEF Next

LEMMA StutterKeeps ==
    ASSUME IInv, UNCHANGED vars
    PROVE  IInv'
  BY DEF IInv, TypeOK, vars, Keeping, Standing, There, OneFocus, Sound, Fit, Met, News, Told,
         Doomed, Frames, Idle, RowsWith, Rejected, Leaves

\* The inductive invariant: what is so of each window, of what macOS told and
\* of the commands that wait, at any time.
THEOREM InvariantHolds ==
    ASSUME Prompt
    PROVE  Spec => []IInv
  <1>1. Init => IInv
    BY InitKeeps
  <1>2. IInv /\ [Next]_vars => IInv'
    BY NextKeeps, StutterKeeps
  <1> QED
    BY <1>1, <1>2, PTL DEF Spec

\* The variables stay in their types: no handler, command or act of macOS
\* leaves a row with a window there never was or a window in no state.
THEOREM LifeTypes ==
    ASSUME Prompt
    PROVE  Spec => []TypeOK
  <1>1. IInv => TypeOK
    BY DEF IInv
  <1> QED
    BY <1>1, InvariantHolds, PTL

\* Once all is handled, each managed window there is is in one row, and a window
\* that floats, is minimized or hidden, or is gone is in none.
THEOREM AllTiledOnce ==
    ASSUME Prompt
    PROVE  Spec => []TiledOnce
  <1>1. ASSUME IInv, Rest, NEW w \in Windows
        PROVE  Cardinality(RowsWith(world, w)) =
                   (IF w \in world.known /\ world.unmanaged[w] = "none" THEN 1 ELSE 0)
    <2>1. Idle /\ channel = <<>> /\ world.fresh = {}
      BY <1>1 DEF Rest
    <2>2. Sound(os, world, {}, w) /\ There(os, world) /\ ToSet(cmds) = {} /\ inbox = <<>>
      BY <1>1, <2>1, IdleIs
    <2>3. ToSet(channel) = {}
      BY <2>1 DEF ToSet
    <2>4. w \notin world.known \cap os.closed
      BY <1>1, <2>1, <2>2, <2>3 DEF IInv, Doomed, Idle
    <2>5. ~Leaves({}, w)
      BY DEF Leaves
    <2>6. CASE w \in world.known /\ world.unmanaged[w] = "none"
      <3>1. w \in os.open
        BY <2>2, <2>4, <2>6 DEF There
      <3>2. RowsWith(world, w) # {} /\ \A r, s \in RowsWith(world, w) : r = s
        BY <2>1, <2>2, <2>5, <2>6, <3>1 DEF Sound
      <3>3. PICK r : RowsWith(world, w) = {r}
        BY <3>2
      <3> QED
        BY <2>6, <3>3, FS_Singleton
    <2>7. CASE ~(w \in world.known /\ world.unmanaged[w] = "none")
      <3>1. RowsWith(world, w) = {}
        BY <2>2, <2>4, <2>7 DEF Sound, There
      <3> QED
        BY <2>7, <3>1, FS_EmptySet
    <2> QED
      BY <2>6, <2>7
  <1>2. IInv => TiledOnce
    BY <1>1 DEF TiledOnce
  <1> QED
    BY <1>2, InvariantHolds, PTL

\* A window that is minimized or hidden comes back to the row it left, whatever
\* systems and commands run in between, unless a rejected focus is to float it.
THEOREM AllReturn ==
    ASSUME Prompt
    PROVE  Spec => ReturnsToRow
  <1>1. IInv /\ [Next]_vars => [BackToRow]_vars
    BY NextKeeps
  <1>2. ReturnsToRow <=> [][BackToRow]_vars
    BY DEF ReturnsToRow, BackToRow, Away
  <1> QED
    BY <1>1, <1>2, InvariantHolds, PTL DEF Spec

\* At most one window has the focus, and it is one there is, in every state, the
\* ones in the middle of a frame included.
THEOREM OneInFocus ==
    ASSUME Prompt
    PROVE  Spec => [](Cardinality(world.focused) <= 1 /\ world.focused \subseteq world.known)
  <1>1. ASSUME IInv PROVE Cardinality(world.focused) <= 1 /\ world.focused \subseteq world.known
    <2>1. /\ OneFocus(world) /\ world.focused \subseteq Windows
          /\ \A w \in Windows : Sound(os, world, ToSet(cmds), w)
      BY <1>1 DEF IInv, Keeping, Standing, Worlds
    <2>2. world.focused \subseteq world.known
      BY <2>1 DEF Sound
    <2>3. CASE world.focused = {}
      BY <2>2, <2>3, FS_EmptySet
    <2>4. CASE world.focused # {}
      <3>1. PICK x : world.focused = {x}
        BY <2>1, <2>4 DEF OneFocus
      <3>2. Cardinality(world.focused) = 1
        BY <3>1, FS_Singleton
      <3> QED
        BY <2>2, <3>2
    <2> QED
      BY <2>3, <2>4
  <1> QED
    BY <1>1, InvariantHolds, PTL

================================================================================
