------------------------- MODULE LayoutStrip_proofs -------------------------
(****************************************************************************)
(* That a strip keeps the shapes of its columns, that a walk reaches the    *)
(* next column, and that the strip implements StripOrder.                   *)
(*                                                                          *)
(* Each operation of Columns is taken apart into the columns before and     *)
(* after the ones it is about; what it does to them is then one step of     *)
(* StripOrder on the windows in order.  The lemma of an operation, named    *)
(* after it, says that columns of a kind stay of the kind and that the      *)
(* order of the windows Follows.                                            *)
(****************************************************************************)
EXTENDS LayoutStrip, Sequences_proofs

------------------------------------------------------------------------------
(* Steps of StripOrder, of any two orders *)

\* What is left of an order without S; the orders in which each window is once.
Left(o, S) == Retained(o, Windows \ S)
Orderly(o) == o \in Seq(Windows) /\ IsInjective(o)

\* Place, Release and Swap of StripOrder, from one order to another.
Placed(o, p) ==
    \E i, j \in DOMAIN p : i <= j /\
       LET group == SubSeq(p, i, j)
           rest  == Left(o, ToSet(group))
       IN  p = SubSeq(rest, 1, i - 1) \o group \o SubSeq(rest, i, Len(rest))
Released(o, p) == \E w \in ToSet(o) : p = Left(o, {w})
Swapped(o, p) ==
    \E i, j, k, l \in DOMAIN o :
       /\ i <= j /\ j < k /\ k <= l
       /\ p = SubSeq(o, 1, i - 1) \o SubSeq(o, k, l) \o SubSeq(o, j + 1, k - 1)
              \o SubSeq(o, i, j) \o SubSeq(o, l + 1, Len(o))
\* One order follows another by such a step, or is the same.
Follows(o, p) == Orderly(p) /\ (p = o \/ Placed(o, p) \/ Released(o, p) \/ Swapped(o, p))

\* Left takes windows out, and only those.
LEMMA LeftIs ==
    ASSUME NEW o, Orderly(o), NEW S
    PROVE  /\ Orderly(Left(o, S)) /\ ToSet(Left(o, S)) = ToSet(o) \ S
           /\ ToSet(o) \cap S = {} => Left(o, S) = o
  <1>1. o \in Seq(Windows) /\ IsInjective(o)
    BY DEF Orderly
  <1> DEFINE R == Windows \ S
  <1>2. \A x : x \in R <=> x \in Windows /\ x \notin S
    OBVIOUS
  <1>3. ToSet(o) \subseteq Windows
    BY <1>1 DEF ToSet
  <1> HIDE DEF R
  <1>4. Retained(o, R) \in Seq(Windows) /\ IsInjective(Retained(o, R))
    BY <1>1, OnceRetained
  <1>5. ToSet(Retained(o, R)) = ToSet(o) \cap R
    BY <1>1, RetainedHolds
  <1>6. ToSet(o) \subseteq R => Retained(o, R) = o
    BY <1>1, RetainedAll
  <1> QED
    BY <1>2, <1>3, <1>4, <1>5, <1>6 DEF R, Left, Orderly

\* A block that is placed among the windows that are not in it.
LEMMA PlacedIs ==
    ASSUME NEW o, Orderly(o), NEW a \in Seq(Windows), NEW g \in Seq(Windows) \ {<<>>},
           NEW b \in Seq(Windows), IsInjective(g), a \o b = Left(o, ToSet(g))
    PROVE  Follows(o, a \o g \o b) /\ ToSet(a \o g \o b) = ToSet(o) \cup ToSet(g)
  <1> DEFINE p == a \o g \o b
             rest == a \o b
             i == Len(a) + 1
             j == Len(a) + Len(g)
  <1>1. Orderly(rest) /\ ToSet(rest) = ToSet(o) \ ToSet(g)
    BY LeftIs
  <1>2. /\ Len(a) \in Nat /\ Len(g) \in Nat \ {0} /\ Len(b) \in Nat
        /\ rest \in Seq(Windows) /\ Len(rest) = Len(a) + Len(b)
        /\ \A n \in 1 .. Len(a) + Len(b) : rest[n] = IF n <= Len(a) THEN a[n] ELSE b[n - Len(a)]
    <2>1. Len(a) \in Nat /\ Len(g) \in Nat \ {0} /\ Len(b) \in Nat
      OBVIOUS
    <2> QED
      BY <2>1, ConcatProperties
  <1>3. p \in Seq(Windows) /\ Len(p) = Len(a) + Len(g) + Len(b) /\ SubSeq(p, i, j) = g
    BY Between
  <1>4. SubSeq(rest, 1, i - 1) = a
    <2> DEFINE c == SubSeq(rest, 1, i - 1)
    <2> HIDE DEF rest
    <2>1. c \in Seq(Windows) /\ Len(c) = Len(a) /\ \A k \in 1 .. Len(a) : c[k] = a[k]
      BY <1>2
    <2> HIDE DEF c
    <2>2. c = a
      BY <1>2, <2>1, SeqEqual
    <2> QED
      BY <2>2 DEF c
  <1>5. SubSeq(rest, i, Len(rest)) = b
    <2> DEFINE c == SubSeq(rest, i, Len(rest))
    <2> HIDE DEF rest
    <2>0. \A k \in 1 .. Len(b) : rest[Len(a) + k] = b[k]
      <3>1. \A k \in 1 .. Len(b) : /\ Len(a) + k \in 1 .. Len(a) + Len(b)
                                   /\ ~(Len(a) + k <= Len(a)) /\ (Len(a) + k) - Len(a) = k
        BY <1>2
      <3> QED
        BY <1>2, <3>1
    <2>1. c \in Seq(Windows) /\ Len(c) = Len(b) /\ \A k \in 1 .. Len(b) : c[k] = rest[Len(a) + k]
      BY <1>2
    <2> HIDE DEF c
    <2>2. c = b
      BY <1>2, <2>0, <2>1, SeqEqual
    <2> QED
      BY <2>2 DEF c
  <1>6. IsInjective(p) /\ ToSet(p) = ToSet(o) \cup ToSet(g)
    <2>1. /\ IsInjective(rest) <=> /\ IsInjective(a) /\ IsInjective(b)
                                   /\ ToSet(a) \cap ToSet(b) = {}
          /\ ToSet(rest) = ToSet(a) \cup ToSet(b)
      BY OnceConcat
    <2>2. IsInjective(rest)
      BY <1>1 DEF Orderly
    <2> DEFINE ag == a \o g
    <2>3. /\ ag \in Seq(Windows)
          /\ IsInjective(ag) <=> /\ IsInjective(a) /\ IsInjective(g)
                                 /\ ToSet(a) \cap ToSet(g) = {}
          /\ ToSet(ag) = ToSet(a) \cup ToSet(g)
      BY OnceConcat
    <2> HIDE DEF ag
    <2>4. /\ IsInjective(ag \o b) <=> /\ IsInjective(ag) /\ IsInjective(b)
                                      /\ ToSet(ag) \cap ToSet(b) = {}
          /\ ToSet(ag \o b) = ToSet(ag) \cup ToSet(b)
      BY <2>3, OnceConcat
    <2>5. p = ag \o b
      BY DEF ag
    <2> HIDE DEF p, rest
    <2> QED
      BY <1>1, <2>1, <2>2, <2>3, <2>4, <2>5
  <1>7. i \in DOMAIN p /\ j \in DOMAIN p /\ i <= j
    <2>1. DOMAIN p = 1 .. Len(p)
      BY <1>3
    <2> HIDE DEF p
    <2> QED
      BY <1>2, <1>3, <2>1
  <1> HIDE DEF i, j
  <1>8. p = SubSeq(rest, 1, i - 1) \o SubSeq(p, i, j) \o SubSeq(rest, i, Len(rest))
    BY <1>3, <1>4, <1>5
  <1>9. rest = Left(o, ToSet(SubSeq(p, i, j)))
    BY <1>3
  <1> HIDE DEF p, rest
  <1>10. Placed(o, p)
    BY <1>7, <1>8, <1>9 DEF Placed
  <1> QED
    BY <1>3, <1>6, <1>10 DEF Follows, Orderly, p

\* A window that is let go.
LEMMA ReleasedIs ==
    ASSUME NEW o, Orderly(o), NEW w
    PROVE  Follows(o, Left(o, {w}))
  <1> DEFINE one == {w}
  <1>1. \A x : x \in one <=> x = w
    OBVIOUS
  <1> HIDE DEF one
  <1>2. Orderly(Left(o, one)) /\ (ToSet(o) \cap one = {} => Left(o, one) = o)
    BY LeftIs
  <1>3. CASE w \in ToSet(o)
    BY <1>2, <1>3 DEF Follows, Released, one
  <1>4. CASE w \notin ToSet(o)
    BY <1>1, <1>2, <1>4 DEF Follows, one
  <1> QED
    BY <1>3, <1>4

\* Two blocks that trade places.
LEMMA SwappedIs ==
    ASSUME NEW a \in Seq(Windows), NEW x \in Seq(Windows) \ {<<>>}, NEW m \in Seq(Windows),
           NEW y \in Seq(Windows) \ {<<>>}, NEW b \in Seq(Windows),
           Orderly(a \o x \o m \o y \o b)
    PROVE  /\ Follows(a \o x \o m \o y \o b, a \o y \o m \o x \o b)
           /\ ToSet(a \o y \o m \o x \o b) = ToSet(a \o x \o m \o y \o b)
  <1> DEFINE o == a \o x \o m \o y \o b
             p == a \o y \o m \o x \o b
             i == Len(a) + 1
             j == Len(a) + Len(x)
             k == Len(a) + Len(x) + Len(m) + 1
             l == Len(a) + Len(x) + Len(m) + Len(y)
  <1>1. /\ Len(a) \in Nat /\ Len(x) \in Nat \ {0} /\ Len(m) \in Nat /\ Len(y) \in Nat \ {0}
        /\ Len(b) \in Nat
    OBVIOUS
  <1>2. ASSUME NEW u \in Seq(Windows), NEW v \in Seq(Windows)
        PROVE  LET q == a \o u \o m \o v \o b
               IN  /\ q \in Seq(Windows)
                   /\ IsInjective(q) <=>
                        /\ IsInjective(a) /\ IsInjective(u) /\ IsInjective(m) /\ IsInjective(v)
                        /\ IsInjective(b) /\ ToSet(a) \cap ToSet(u) = {}
                        /\ (ToSet(a) \cup ToSet(u)) \cap ToSet(m) = {}
                        /\ (ToSet(a) \cup ToSet(u) \cup ToSet(m)) \cap ToSet(v) = {}
                        /\ (ToSet(a) \cup ToSet(u) \cup ToSet(m) \cup ToSet(v)) \cap ToSet(b) = {}
                   /\ ToSet(q) = ToSet(a) \cup ToSet(u) \cup ToSet(m) \cup ToSet(v) \cup ToSet(b)
    <2> DEFINE q1 == a \o u
               q2 == q1 \o m
               q3 == q2 \o v
               q4 == q3 \o b
    <2>1. /\ q1 \in Seq(Windows)
          /\ IsInjective(q1) <=> IsInjective(a) /\ IsInjective(u) /\ ToSet(a) \cap ToSet(u) = {}
          /\ ToSet(q1) = ToSet(a) \cup ToSet(u)
      BY OnceConcat
    <2> HIDE DEF q1
    <2>2. /\ q2 \in Seq(Windows)
          /\ IsInjective(q2) <=> IsInjective(q1) /\ IsInjective(m) /\ ToSet(q1) \cap ToSet(m) = {}
          /\ ToSet(q2) = ToSet(q1) \cup ToSet(m)
      BY <2>1, OnceConcat
    <2> HIDE DEF q2
    <2>3. /\ q3 \in Seq(Windows)
          /\ IsInjective(q3) <=> IsInjective(q2) /\ IsInjective(v) /\ ToSet(q2) \cap ToSet(v) = {}
          /\ ToSet(q3) = ToSet(q2) \cup ToSet(v)
      BY <2>2, OnceConcat
    <2> HIDE DEF q3
    <2>4. /\ q4 \in Seq(Windows)
          /\ IsInjective(q4) <=> IsInjective(q3) /\ IsInjective(b) /\ ToSet(q3) \cap ToSet(b) = {}
          /\ ToSet(q4) = ToSet(q3) \cup ToSet(b)
      BY <2>3, OnceConcat
    <2> HIDE DEF q4
    <2>5. q4 = a \o u \o m \o v \o b
      BY DEF q1, q2, q3, q4
    <2> QED
      BY <2>1, <2>2, <2>3, <2>4, <2>5
  <1>3. Orderly(p) /\ ToSet(p) = ToSet(o)
    <2> DEFINE q(u, v) == a \o u \o m \o v \o b
    <2>0. IsInjective(q(x, y))
      BY DEF Orderly
    <2>1. \A u, v \in Seq(Windows) :
               /\ q(u, v) \in Seq(Windows)
               /\ IsInjective(q(u, v)) <=>
                        /\ IsInjective(a) /\ IsInjective(u) /\ IsInjective(m) /\ IsInjective(v)
                        /\ IsInjective(b) /\ ToSet(a) \cap ToSet(u) = {}
                        /\ (ToSet(a) \cup ToSet(u)) \cap ToSet(m) = {}
                        /\ (ToSet(a) \cup ToSet(u) \cup ToSet(m)) \cap ToSet(v) = {}
                        /\ (ToSet(a) \cup ToSet(u) \cup ToSet(m) \cup ToSet(v)) \cap ToSet(b) = {}
               /\ ToSet(q(u, v)) = ToSet(a) \cup ToSet(u) \cup ToSet(m) \cup ToSet(v) \cup ToSet(b)
      BY <1>2
    <2>2. o = q(x, y) /\ p = q(y, x) /\ x \in Seq(Windows) /\ y \in Seq(Windows)
      OBVIOUS
    <2> HIDE DEF q, o, p
    <2> DEFINE whole(u, v) ==
                        /\ IsInjective(a) /\ IsInjective(u) /\ IsInjective(m) /\ IsInjective(v)
                        /\ IsInjective(b) /\ ToSet(a) \cap ToSet(u) = {}
                        /\ (ToSet(a) \cup ToSet(u)) \cap ToSet(m) = {}
                        /\ (ToSet(a) \cup ToSet(u) \cup ToSet(m)) \cap ToSet(v) = {}
                        /\ (ToSet(a) \cup ToSet(u) \cup ToSet(m) \cup ToSet(v)) \cap ToSet(b) = {}
    <2>4. whole(x, y)
      BY <2>0, <2>1, <2>2
    <2>5. whole(y, x)
      BY <2>4
    <2>6. /\ ToSet(q(x, y)) = ToSet(a) \cup ToSet(x) \cup ToSet(m) \cup ToSet(y) \cup ToSet(b)
          /\ ToSet(q(y, x)) = ToSet(a) \cup ToSet(y) \cup ToSet(m) \cup ToSet(x) \cup ToSet(b)
      BY <2>1, <2>2
    <2>3. IsInjective(q(y, x)) /\ q(y, x) \in Seq(Windows) /\ ToSet(q(y, x)) = ToSet(q(x, y))
      <3>1. IsInjective(q(y, x)) /\ q(y, x) \in Seq(Windows)
        BY <2>1, <2>2, <2>5
      <3> QED
        BY <2>6, <3>1
    <2> QED
      BY <2>2, <2>3 DEF Orderly
  <1>4. SubSeq(o, k, l) = y
    <2> DEFINE left == a \o x \o m
    <2>1. left \in Seq(Windows) /\ Len(left) = Len(a) + Len(x) + Len(m)
      OBVIOUS
    <2> HIDE DEF left
    <2>2. SubSeq(left \o y \o b, Len(left) + 1, Len(left) + Len(y)) = y
      BY <2>1, Between
    <2> QED
      BY <2>1, <2>2 DEF left
  <1>5. o \in Seq(Windows) /\ Len(o) = l + Len(b)
    BY <1>1
  <1>6. SubSeq(o, 1, i - 1) = a
    <2> DEFINE c == SubSeq(o, 1, i - 1)
    <2>0. \A n \in 1 .. Len(a) : o[n] = a[n]
      BY <1>1
    <2> HIDE DEF o
    <2>1. c \in Seq(Windows) /\ Len(c) = Len(a) /\ \A n \in 1 .. Len(a) : c[n] = o[n]
      BY <1>1, <1>5
    <2> HIDE DEF c
    <2>2. c = a
      BY <2>0, <2>1, SeqEqual
    <2> QED
      BY <2>2 DEF c
  <1>7. SubSeq(o, i, j) = x
    <2> DEFINE c == SubSeq(o, i, j)
    <2>0. \A n \in 1 .. Len(x) : o[Len(a) + n] = x[n]
      BY <1>1
    <2> HIDE DEF o
    <2>1. c \in Seq(Windows) /\ Len(c) = Len(x) /\ \A n \in 1 .. Len(x) : c[n] = o[Len(a) + n]
      BY <1>1, <1>5
    <2> HIDE DEF c
    <2>2. c = x
      BY <2>0, <2>1, SeqEqual
    <2> QED
      BY <2>2 DEF c
  <1>8. SubSeq(o, j + 1, k - 1) = m
    <2> DEFINE c == SubSeq(o, j + 1, k - 1)
    <2>0. \A n \in 1 .. Len(m) : o[j + n] = m[n]
      BY <1>1
    <2> HIDE DEF o
    <2>1. c \in Seq(Windows) /\ Len(c) = Len(m) /\ \A n \in 1 .. Len(m) : c[n] = o[j + n]
      BY <1>1, <1>5
    <2> HIDE DEF c
    <2>2. c = m
      BY <2>0, <2>1, SeqEqual
    <2> QED
      BY <2>2 DEF c
  <1>9. SubSeq(o, l + 1, Len(o)) = b
    <2> DEFINE c == SubSeq(o, l + 1, Len(o))
    <2>0. \A n \in 1 .. Len(b) : o[l + n] = b[n]
      BY <1>1
    <2> HIDE DEF o
    <2>1. c \in Seq(Windows) /\ Len(c) = Len(b) /\ \A n \in 1 .. Len(b) : c[n] = o[l + n]
      BY <1>1, <1>5
    <2> HIDE DEF c
    <2>2. c = b
      BY <2>0, <2>1, SeqEqual
    <2> QED
      BY <2>2 DEF c
  <1>10. /\ i \in DOMAIN o /\ j \in DOMAIN o /\ k \in DOMAIN o /\ l \in DOMAIN o
         /\ i <= j /\ j < k /\ k <= l
    <2>1. DOMAIN o = 1 .. Len(o)
      BY <1>5
    <2> HIDE DEF o
    <2> QED
      BY <1>1, <1>5, <2>1
  <1> HIDE DEF i, j, k, l
  <1>11. p = SubSeq(o, 1, i - 1) \o SubSeq(o, k, l) \o SubSeq(o, j + 1, k - 1)
              \o SubSeq(o, i, j) \o SubSeq(o, l + 1, Len(o))
    BY <1>4, <1>6, <1>7, <1>8, <1>9
  <1> HIDE DEF o, p
  <1>12. Swapped(o, p)
    BY <1>10, <1>11 DEF Swapped
  <1> QED
    BY <1>3, <1>12 DEF Follows, o, p

------------------------------------------------------------------------------
(* Items, columns and strips, and their windows in order *)

\* Items that may be empty, the items of a strip, its columns: ColumnShapes says
\* of a strip that it is a sequence of Cols.
Loose == [tabs : BOOLEAN, ws : Seq(Windows)]
Items == {item \in Loose : item.ws # <<>> /\ (~item.tabs => Len(item.ws) = 1)}
Cols == {column \in [full : BOOLEAN, items : Seq(Items)] :
            /\ column.items # <<>>
            /\ column.full => column.items = <<Alone(TopOf(column))>>}

\* The windows of one item and of one column, as functions, and of a sequence
\* of items.
ItemWs == [item \in Loose |-> item.ws]
ColWs == [column \in Cols |-> WindowsOf(column)]
InItems(items) == Mapped(ItemWs, items)

\* The windows of items are those of each item.
LEMMA ItemsOrder ==
    ASSUME NEW items \in Seq(Loose)
    PROVE  /\ ItemWs \in Maps(Loose, Windows) /\ InItems(items) \in Seq(Windows)
           /\ FlattenSeq([k \in DOMAIN items |-> items[k].ws]) = InItems(items)
  <1>1. ItemWs \in Maps(Loose, Windows)
    <2>1. \A item \in Loose : item.ws \in Seq(Windows)
      BY DEF Loose
    <2> QED
      BY <2>1 DEF Maps, ItemWs
  <1>2. \A k \in DOMAIN items : ItemWs[items[k]] = items[k].ws
    <2>1. \A k \in DOMAIN items : items[k] \in Loose
      OBVIOUS
    <2> QED
      BY <2>1 DEF ItemWs
  <1>3. Parts(ItemWs, items) = [k \in DOMAIN items |-> items[k].ws]
    BY <1>2 DEF Parts
  <1> QED
    BY <1>1, <1>3, MappedIn DEF Mapped, InItems

\* The windows of items before, at and after a place, in order.
LEMMA ItemsParts ==
    ASSUME NEW a \in Seq(Loose), NEW b \in Seq(Loose)
    PROVE  /\ InItems(<<>>) = <<>>
           /\ InItems(a \o b) = InItems(a) \o InItems(b)
           /\ \A item \in Loose : /\ InItems(<<item>>) = item.ws
                                  /\ InItems(a \o <<item>> \o b) = InItems(a) \o item.ws \o InItems(b)
  <1>1. ItemWs \in Maps(Loose, Windows)
    BY ItemsOrder
  <1>2. \A item \in Loose : ItemWs[item] = item.ws
    BY DEF ItemWs
  <1>3. Mapped(ItemWs, a \o b) = Mapped(ItemWs, a) \o Mapped(ItemWs, b)
    BY <1>1, MappedConcat
  <1>4. \A item \in Loose : Mapped(ItemWs, <<item>>) = ItemWs[item]
    BY <1>1, MappedOne
  <1>5. \A item \in Loose : Mapped(ItemWs, Amid(a, item, b))
                               = Chain(Mapped(ItemWs, a), ItemWs[item], Mapped(ItemWs, b))
    BY <1>1, MappedAround
  <1> QED
    BY <1>2, <1>3, <1>4, <1>5, MappedNone DEF InItems, Amid, Chain

\* A column and its windows.
LEMMA ColumnOrder ==
    ASSUME NEW column \in Cols
    PROVE  /\ column.items \in Seq(Items) /\ column.items \in Seq(Loose) /\ column.items # <<>>
           /\ WindowsOf(column) = InItems(column.items) /\ WindowsOf(column) \in Seq(Windows)
  <1>1. column.items \in Seq(Items) /\ column.items # <<>>
    BY DEF Cols
  <1>2. column.items \in Seq(Loose)
    BY <1>1 DEF Items
  <1> QED
    BY <1>1, <1>2, ItemsOrder DEF WindowsOf

\* What Alone, Grouped, Column and FullscreenColumn make is an item or a column.
LEMMA Made ==
    /\ \A w \in Windows : Alone(w) \in Items /\ Alone(w).ws = <<w>>
    /\ \A ws \in Seq(Windows) \ {<<>>} : Grouped(ws) \in Items /\ Grouped(ws).ws = ws
    /\ \A items \in Seq(Items) \ {<<>>} :
           Column(items) \in Cols /\ WindowsOf(Column(items)) = InItems(items)
    /\ \A item \in Items : Column(<<item>>) \in Cols /\ WindowsOf(Column(<<item>>)) = item.ws
    /\ \A w \in Windows : FullscreenColumn(w) \in Cols /\ WindowsOf(FullscreenColumn(w)) = <<w>>
  <1>1. \A w \in Windows : Alone(w) \in Items /\ Alone(w).ws = <<w>>
    BY DEF Alone, Items, Loose
  <1>2. \A ws \in Seq(Windows) \ {<<>>} : Grouped(ws) \in Items /\ Grouped(ws).ws = ws
    BY DEF Grouped, Items, Loose
  <1>3. ASSUME NEW items \in Seq(Items) \ {<<>>}
        PROVE  Column(items) \in Cols /\ WindowsOf(Column(items)) = InItems(items)
    <2>1. Column(items) \in Cols /\ Column(items).items = items
      BY DEF Column, Cols
    <2> QED
      BY <2>1, ColumnOrder
  <1>4. ASSUME NEW item \in Items
        PROVE  Column(<<item>>) \in Cols /\ WindowsOf(Column(<<item>>)) = item.ws
    <2> DEFINE items == <<item>>
    <2>1. items \in Seq(Items) \ {<<>>}
      OBVIOUS
    <2>2. InItems(items) = item.ws
      <3>1. item \in Loose /\ <<>> \in Seq(Loose)
        BY DEF Items
      <3> QED
        BY <3>1, ItemsParts
    <2> HIDE DEF items
    <2> QED
      BY <2>1, <2>2, <1>3 DEF items
  <1>5. ASSUME NEW w \in Windows
        PROVE  FullscreenColumn(w) \in Cols /\ WindowsOf(FullscreenColumn(w)) = <<w>>
    <2> DEFINE full == FullscreenColumn(w)
               items == <<Alone(w)>>
    <2>1. items \in Seq(Items) \ {<<>>}
      BY <1>1
    <2>2. full.full = TRUE /\ full.items = items /\ full.items[1].ws[1] = w
      BY <1>1 DEF FullscreenColumn
    <2>3. full \in [full : BOOLEAN, items : Seq(Items)]
      BY <2>1 DEF FullscreenColumn
    <2>4. full \in Cols
      BY <2>1, <2>2, <2>3 DEF Cols, TopOf
    <2>5. InItems(items) = Alone(w).ws
      <3>1. Alone(w) \in Loose /\ <<>> \in Seq(Loose)
        BY <1>1 DEF Items
      <3> QED
        BY <3>1, ItemsParts
    <2> QED
      BY <1>1, <2>2, <2>4, <2>5, ColumnOrder
  <1> QED
    BY <1>1, <1>2, <1>3, <1>4, <1>5

\* The windows of a strip.
LEMMA StripIs ==
    ASSUME NEW cols \in Seq(Cols)
    PROVE  /\ ColWs \in Maps(Cols, Windows) /\ AllWindows(cols) = Mapped(ColWs, cols)
           /\ AllWindows(cols) \in Seq(Windows)
           /\ ToSet(AllWindows(cols)) = UNION {ToSet(WindowsOf(cols[i])) : i \in DOMAIN cols}
  <1>1. ColWs \in Maps(Cols, Windows)
    BY ColumnOrder DEF Maps, ColWs
  <1>2. \A i \in DOMAIN cols : ColWs[cols[i]] = WindowsOf(cols[i])
    <2>1. \A i \in DOMAIN cols : cols[i] \in Cols
      OBVIOUS
    <2> QED
      BY <2>1 DEF ColWs
  <1>3. AllWindows(cols) = Mapped(ColWs, cols)
    BY <1>2 DEF Parts, AllWindows, Mapped
  <1>4. /\ Mapped(ColWs, cols) \in Seq(Windows)
        /\ ToSet(Mapped(ColWs, cols)) = UNION {ToSet(ColWs[cols[i]]) : i \in DOMAIN cols}
    BY <1>1, MappedIn
  <1>5. UNION {ToSet(ColWs[cols[i]]) : i \in DOMAIN cols}
            = UNION {ToSet(WindowsOf(cols[i])) : i \in DOMAIN cols}
    BY <1>2
  <1> QED
    BY <1>1, <1>3, <1>4, <1>5

\* The windows of two strips in one, and around a column.
LEMMA StripParts ==
    ASSUME NEW a \in Seq(Cols), NEW b \in Seq(Cols)
    PROVE  /\ a \o b \in Seq(Cols) /\ AllWindows(a \o b) = AllWindows(a) \o AllWindows(b)
           /\ \A column \in Cols :
                 /\ AllWindows(<<column>>) = WindowsOf(column)
                 /\ a \o <<column>> \o b \in Seq(Cols)
                 /\ AllWindows(a \o <<column>> \o b)
                       = AllWindows(a) \o WindowsOf(column) \o AllWindows(b)
  <1>1. ColWs \in Maps(Cols, Windows)
    BY StripIs
  <1>2. \A column \in Cols : ColWs[column] = WindowsOf(column)
    BY DEF ColWs
  <1> DEFINE both == a \o b
  <1>3. both \in Seq(Cols)
    OBVIOUS
  <1> HIDE DEF both
  <1>4. AllWindows(both) = Mapped(ColWs, both)
    BY <1>3, StripIs
  <1>5. Mapped(ColWs, a \o b) = Mapped(ColWs, a) \o Mapped(ColWs, b)
    BY <1>1, MappedConcat
  <1>6. AllWindows(a) = Mapped(ColWs, a) /\ AllWindows(b) = Mapped(ColWs, b)
    BY StripIs
  <1>7. ASSUME NEW column \in Cols
        PROVE  /\ AllWindows(<<column>>) = WindowsOf(column)
               /\ a \o <<column>> \o b \in Seq(Cols)
               /\ AllWindows(a \o <<column>> \o b)
                     = AllWindows(a) \o WindowsOf(column) \o AllWindows(b)
    <2> DEFINE one == <<column>>
               all == Amid(a, column, b)
    <2>1. one \in Seq(Cols) /\ all \in Seq(Cols)
      BY DEF Amid
    <2>2. Mapped(ColWs, one) = ColWs[column]
      BY <1>1, MappedOne
    <2>3. Mapped(ColWs, all) = Chain(Mapped(ColWs, a), ColWs[column], Mapped(ColWs, b))
      BY <1>1, MappedAround
    <2> HIDE DEF one, all, Amid, Chain
    <2>4. AllWindows(one) = Mapped(ColWs, one) /\ AllWindows(all) = Mapped(ColWs, all)
      BY <2>1, StripIs
    <2> QED
      BY <1>2, <1>6, <2>1, <2>2, <2>3, <2>4 DEF one, all, Amid, Chain
  <1> QED
    BY <1>3, <1>4, <1>5, <1>6, <1>7 DEF both

\* The first of the places at which something is.
LEMMA FirstIs ==
    ASSUME NEW at \in SUBSET (Nat \ {0})
    PROVE  /\ FirstAt(at) = 0 <=> at = {}
           /\ at # {} => FirstAt(at) \in at /\ \A i \in at : FirstAt(at) <= i
  <1>1. at \in SUBSET Nat
    OBVIOUS
  <1>2. at # {} => Min(at) \in at /\ \A i \in at : Min(at) <= i
    BY <1>1, MinIn
  <1> QED
    BY <1>2 DEF FirstAt

\* Where a window is found.
LEMMA HoldsIs ==
    ASSUME NEW item \in Loose, NEW w
    PROVE  ItemHolds(item, w) <=> w \in ToSet(item.ws)
  <1>1. DOMAIN item.ws = 1 .. Len(item.ws)
    BY DEF Loose
  <1> QED
    BY <1>1 DEF ItemHolds, Contains, ToSet

\* position_of finds the first item that holds a window of the column.
LEMMA InColumnIs ==
    ASSUME NEW column \in Cols, NEW w
    PROVE  /\ InColumn(column, w) <=> w \in ToSet(WindowsOf(column))
           /\ InColumn(column, w) =>
                 LET k == PositionOf(column, w)
                 IN  /\ k \in DOMAIN column.items /\ w \in ToSet(column.items[k].ws)
                     /\ \A m \in DOMAIN column.items : m < k => w \notin ToSet(column.items[m].ws)
  <1>1. /\ column.items \in Seq(Loose) /\ WindowsOf(column) = InItems(column.items)
        /\ \A k \in DOMAIN column.items : column.items[k] \in Loose
    BY ColumnOrder
  <1>2. ItemWs \in Maps(Loose, Windows)
    BY <1>1, ItemsOrder
  <1>3. ToSet(InItems(column.items)) = UNION {ToSet(ItemWs[column.items[k]]) : k \in DOMAIN column.items}
    BY <1>1, <1>2, MappedIn DEF InItems
  <1>4. \A k \in DOMAIN column.items : ItemWs[column.items[k]] = column.items[k].ws
    BY <1>1 DEF ItemWs
  <1>5. \A k \in DOMAIN column.items :
            ItemHolds(column.items[k], w) <=> w \in ToSet(column.items[k].ws)
    BY <1>1, HoldsIs
  <1>6. InColumn(column, w) <=> w \in ToSet(WindowsOf(column))
    BY <1>1, <1>3, <1>4, <1>5 DEF InColumn
  <1> DEFINE at == {k \in DOMAIN column.items : ItemHolds(column.items[k], w)}
             first == FirstAt(at)
  <1>7. ASSUME InColumn(column, w)
        PROVE  first \in at /\ \A m \in at : first <= m
    <2>1. at \in SUBSET (Nat \ {0})
      <3>1. DOMAIN column.items = 1 .. Len(column.items) /\ Len(column.items) \in Nat
        BY <1>1
      <3> QED
        BY <3>1
    <2>2. at # {}
      BY <1>7 DEF InColumn
    <2> HIDE DEF at
    <2> QED
      BY <2>1, <2>2, FirstIs
  <1>8. PositionOf(column, w) = first
    BY DEF PositionOf
  <1>9. DOMAIN column.items \subseteq Nat
    BY <1>1
  <1>10. ASSUME InColumn(column, w)
         PROVE  /\ first \in DOMAIN column.items /\ w \in ToSet(column.items[first].ws)
                /\ \A m \in DOMAIN column.items : m < first => w \notin ToSet(column.items[m].ws)
    <2>1. first \in at /\ \A m \in at : first <= m
      BY <1>7, <1>10
    <2>2. first \in DOMAIN column.items /\ w \in ToSet(column.items[first].ws)
      BY <2>1, <1>5
    <2>3. ASSUME NEW m \in DOMAIN column.items, m < first, w \in ToSet(column.items[m].ws)
          PROVE  FALSE
      <3>1. m \in at
        BY <2>3, <1>5
      <3>2. first <= m
        BY <2>1, <3>1
      <3> HIDE DEF first
      <3> QED
        BY <1>9, <2>2, <2>3, <3>2
    <2> QED
      BY <2>2, <2>3
  <1> HIDE DEF first
  <1> QED
    BY <1>6, <1>8, <1>10

\* index_of finds the first column that holds a window of the strip, and 0 for
\* a window that it does not hold.
LEMMA IndexOfIs ==
    ASSUME NEW cols \in Seq(Cols), NEW w
    PROVE  LET i == IndexOf(cols, w)
           IN  /\ i = 0 <=> w \notin ToSet(AllWindows(cols))
               /\ i # 0 <=> HasWindow(cols, w)
               /\ i # 0 => /\ i \in DOMAIN cols /\ i \in 1 .. Len(cols) /\ cols[i] \in Cols
                           /\ InColumn(cols[i], w) /\ w \in ToSet(WindowsOf(cols[i]))
                           /\ \A m \in DOMAIN cols : m < i => w \notin ToSet(WindowsOf(cols[m]))
  <1> DEFINE at == {i \in DOMAIN cols : InColumn(cols[i], w)}
             first == FirstAt(at)
  <1>1. DOMAIN cols = 1 .. Len(cols) /\ \A i \in DOMAIN cols : cols[i] \in Cols
    OBVIOUS
  <1>2. \A i \in DOMAIN cols : InColumn(cols[i], w) <=> w \in ToSet(WindowsOf(cols[i]))
    BY <1>1, InColumnIs
  <1>3. IndexOf(cols, w) = first
    BY DEF IndexOf
  <1>4. at \in SUBSET (Nat \ {0})
    BY <1>1
  <1>5. /\ first = 0 <=> at = {}
        /\ at # {} => first \in at /\ \A i \in at : first <= i
    <2> HIDE DEF at
    <2> QED
      BY <1>4, FirstIs
  <1>6. w \in ToSet(AllWindows(cols)) <=> at # {}
    <2>1. ToSet(AllWindows(cols)) = UNION {ToSet(WindowsOf(cols[i])) : i \in DOMAIN cols}
      BY StripIs
    <2> QED
      BY <1>2, <2>1
  <1>7. ASSUME at # {}
        PROVE  \A m \in DOMAIN cols : m < first => w \notin ToSet(WindowsOf(cols[m]))
    <2> SUFFICES ASSUME NEW m \in DOMAIN cols, m < first, w \in ToSet(WindowsOf(cols[m]))
                 PROVE  FALSE
      OBVIOUS
    <2>1. m \in at
      BY <1>2
    <2>2. first <= m /\ first \in Nat /\ m \in Nat
      BY <1>4, <1>5, <1>7, <2>1
    <2> HIDE DEF first
    <2> QED
      BY <2>2
  <1>8. ASSUME at # {}
        PROVE  first \in DOMAIN cols /\ InColumn(cols[first], w)
    BY <1>5, <1>8
  <1> HIDE DEF at, first
  <1> QED
    BY <1>1, <1>2, <1>3, <1>5, <1>6, <1>7, <1>8 DEF HasWindow

\* A strip and a column around the place of a window.
LEMMA StripAround ==
    ASSUME NEW cols \in Seq(Cols), NEW i \in DOMAIN cols
    PROVE  /\ Before(cols, i) \in Seq(Cols) /\ After(cols, i) \in Seq(Cols) /\ cols[i] \in Cols
           /\ cols = Before(cols, i) \o <<cols[i]>> \o After(cols, i)
           /\ AllWindows(cols) = AllWindows(Before(cols, i)) \o WindowsOf(cols[i])
                                    \o AllWindows(After(cols, i))
           /\ AllWindows(Before(cols, i)) \in Seq(Windows)
           /\ AllWindows(After(cols, i)) \in Seq(Windows)
           /\ WindowsOf(cols[i]) \in Seq(Windows)
  <1>1. /\ Before(cols, i) \in Seq(Cols) /\ After(cols, i) \in Seq(Cols) /\ cols[i] \in Cols
        /\ cols = Before(cols, i) \o <<cols[i]>> \o After(cols, i)
    BY BeforeAfter
  <1> DEFINE a == Before(cols, i)
             b == After(cols, i)
             c == cols[i]
  <1> HIDE DEF a, b, c
  <1>2. AllWindows(a \o <<c>> \o b) = AllWindows(a) \o WindowsOf(c) \o AllWindows(b)
    BY <1>1, StripParts DEF a, b, c
  <1>3. AllWindows(a) \in Seq(Windows) /\ AllWindows(b) \in Seq(Windows)
    BY <1>1, StripIs DEF a, b
  <1>4. WindowsOf(c) \in Seq(Windows)
    BY <1>1, ColumnOrder DEF c
  <1> QED
    BY <1>1, <1>2, <1>3, <1>4 DEF a, b, c

\* A column around one of its items.
LEMMA ColumnAround ==
    ASSUME NEW column \in Cols, NEW k \in DOMAIN column.items
    PROVE  LET a == Before(column.items, k)
               b == After(column.items, k)
               item == column.items[k]
           IN  /\ a \in Seq(Items) /\ b \in Seq(Items) /\ item \in Items /\ item.ws \in Seq(Windows)
               /\ InItems(a) \in Seq(Windows) /\ InItems(b) \in Seq(Windows)
               /\ column.items = a \o <<item>> \o b
               /\ WindowsOf(column) = InItems(a) \o item.ws \o InItems(b)
  <1> DEFINE a == Before(column.items, k)
             b == After(column.items, k)
             item == column.items[k]
  <1>1. column.items \in Seq(Items) /\ WindowsOf(column) = InItems(column.items)
    BY ColumnOrder
  <1>0. \A s \in Seq(Items) : \A n \in DOMAIN s :
            /\ Before(s, n) \in Seq(Items) /\ After(s, n) \in Seq(Items) /\ s[n] \in Items
            /\ s = Before(s, n) \o <<s[n]>> \o After(s, n)
    BY BeforeAfter
  <1>2. /\ a \in Seq(Items) /\ b \in Seq(Items) /\ item \in Items
        /\ column.items = a \o <<item>> \o b
    BY <1>0, <1>1
  <1> HIDE DEF a, b, item
  <1>3. a \in Seq(Loose) /\ b \in Seq(Loose) /\ item \in Loose /\ item.ws \in Seq(Windows)
    <2>1. Items \subseteq Loose /\ \A it \in Items : it.ws \in Seq(Windows)
      BY DEF Items, Loose
    <2>2. a \in Seq(Loose) /\ b \in Seq(Loose)
      BY <1>2, <2>1
    <2> QED
      BY <1>2, <2>1, <2>2
  <1>4. InItems(a \o <<item>> \o b) = InItems(a) \o item.ws \o InItems(b)
    BY <1>3, ItemsParts
  <1>5. InItems(a) \in Seq(Windows) /\ InItems(b) \in Seq(Windows)
    BY <1>3, ItemsOrder
  <1> QED
    BY <1>1, <1>2, <1>3, <1>4, <1>5 DEF a, b, item

------------------------------------------------------------------------------
(* What is left of an order, in parts *)

\* Nothing goes when nothing is to go, and all when all is.
LEMMA LeftAll ==
    ASSUME NEW o \in Seq(Windows), NEW S
    PROVE  /\ Left(o, S) \in Seq(Windows)
           /\ ToSet(o) \cap S = {} => Left(o, S) = o
           /\ ToSet(o) \subseteq S => Left(o, S) = <<>>
  <1> DEFINE R == Windows \ S
  <1>1. \A x : x \in R <=> x \in Windows /\ x \notin S
    OBVIOUS
  <1>2. ToSet(o) \subseteq Windows
    BY DEF ToSet
  <1> HIDE DEF R
  <1>3. Retained(o, R) \in Seq(Windows)
    BY RetainedHolds
  <1>4. /\ ToSet(o) \subseteq R => Retained(o, R) = o
        /\ ToSet(o) \cap R = {} => Retained(o, R) = <<>>
    BY RetainedAll
  <1> QED
    BY <1>1, <1>2, <1>3, <1>4 DEF R, Left

\* What is left of two orders in one.
LEMMA LeftConcat ==
    ASSUME NEW o \in Seq(Windows), NEW p \in Seq(Windows), NEW S
    PROVE  Left(Both(o, p), S) = Both(Left(o, S), Left(p, S))
  <1> DEFINE R == Windows \ S
  <1> HIDE DEF R
  <1>1. Retained(o \o p, R) = Retained(o, R) \o Retained(p, R)
    BY RetainedConcat
  <1> QED
    BY <1>1 DEF R, Left, Both

\* What is left when some go and then others.
LEMMA LeftTwice ==
    ASSUME NEW o \in Seq(Windows), NEW S, NEW T
    PROVE  Left(Left(o, S), T) = Left(o, S \cup T)
  <1> DEFINE A == Windows \ S
             B == Windows \ T
             C == Windows \ (S \cup T)
  <1>1. A \cap B = C
    OBVIOUS
  <1> HIDE DEF A, B, C
  <1>2. Retained(Retained(o, A), B) = Retained(o, A \cap B)
    BY RetainedTwice
  <1> QED
    BY <1>1, <1>2 DEF Left, A, B, C

\* An order without a block of it.
LEMMA LeftAround ==
    ASSUME NEW p \in Seq(Windows), NEW g \in Seq(Windows), NEW q \in Seq(Windows),
           Orderly(p \o g \o q)
    PROVE  /\ Left(p \o g \o q, ToSet(g)) = p \o q
           /\ IsInjective(p) /\ IsInjective(g) /\ IsInjective(q) /\ Orderly(p \o q)
           /\ ToSet(p) \cap ToSet(g) = {} /\ ToSet(g) \cap ToSet(q) = {}
           /\ ToSet(p) \cap ToSet(q) = {}
           /\ ToSet(p \o g \o q) = ToSet(p) \cup ToSet(g) \cup ToSet(q)
           /\ ToSet(p \o q) = ToSet(p) \cup ToSet(q)
  <1> DEFINE pg == p \o g
  <1>1. /\ pg \in Seq(Windows) /\ ToSet(pg) = ToSet(p) \cup ToSet(g)
        /\ IsInjective(pg) <=> IsInjective(p) /\ IsInjective(g) /\ ToSet(p) \cap ToSet(g) = {}
    BY OnceConcat
  <1>0. pg \o q = p \o g \o q
    OBVIOUS
  <1> HIDE DEF pg
  <1>2. /\ ToSet(pg \o q) = ToSet(pg) \cup ToSet(q)
        /\ IsInjective(pg \o q) <=> /\ IsInjective(pg) /\ IsInjective(q)
                                    /\ ToSet(pg) \cap ToSet(q) = {}
    BY <1>1, OnceConcat
  <1>3. IsInjective(pg \o q)
    BY <1>0 DEF Orderly
  <1>4. /\ p \o q \in Seq(Windows) /\ ToSet(p \o q) = ToSet(p) \cup ToSet(q)
        /\ IsInjective(p \o q) <=> IsInjective(p) /\ IsInjective(q) /\ ToSet(p) \cap ToSet(q) = {}
    BY OnceConcat
  <1> DEFINE S == ToSet(g)
  <1> HIDE DEF S
  <1> DEFINE all == pg \o q
  <1> HIDE DEF all
  <1>9. all = Both(pg, q) /\ pg = Both(p, g)
    BY DEF all, pg, Both
  <1>5. Left(all, S) = Left(pg, S) \o Left(q, S)
    <2>1. Left(Both(pg, q), S) = Both(Left(pg, S), Left(q, S))
      BY <1>1, LeftConcat
    <2> QED
      BY <1>9, <2>1 DEF Both
  <1>6. Left(pg, S) = Left(p, S) \o Left(g, S)
    <2>1. Left(Both(p, g), S) = Both(Left(p, S), Left(g, S))
      BY LeftConcat
    <2> QED
      BY <1>9, <2>1 DEF Both
  <1>7. Left(p, S) = p /\ Left(q, S) = q /\ Left(g, S) = <<>>
    <2>1. ToSet(p) \cap S = {} /\ ToSet(q) \cap S = {} /\ ToSet(g) \subseteq S
      BY <1>1, <1>2, <1>3 DEF S
    <2> QED
      BY <2>1, LeftAll
  <1>8. p \o <<>> = p
    OBVIOUS
  <1> QED
    BY <1>0, <1>1, <1>2, <1>3, <1>4, <1>5, <1>6, <1>7, <1>8 DEF S, all, Orderly

\* A block that moves.
LEMMA MovedIs ==
    ASSUME NEW p \in Seq(Windows), NEW g \in Seq(Windows) \ {<<>>}, NEW q \in Seq(Windows),
           Orderly(p \o g \o q), NEW r \in Seq(Windows), NEW s \in Seq(Windows), r \o s = p \o q
    PROVE  Follows(p \o g \o q, r \o g \o s)
  <1> DEFINE o == p \o g \o q
  <1>1. Orderly(o) /\ r \o s = Left(o, ToSet(g)) /\ IsInjective(g)
    BY LeftAround
  <1> HIDE DEF o
  <1>2. Follows(o, r \o g \o s)
    BY <1>1, PlacedIs
  <1> QED
    BY <1>2 DEF o

\* An order that stays.
LEMMA StaysIs ==
    ASSUME NEW o, Orderly(o)
    PROVE  Follows(o, o)
  BY DEF Follows

------------------------------------------------------------------------------
(* A window leaves *)

\* The columns that are no full-screen ones.
Ordinary == {column \in Cols : ~column.full}
\* What is proved of the operations holds of a strip of any columns and of one
\* without a full-screen column: K is one of the two.
Kinds == {Cols, Ordinary}

\* Columns that are made of items are of both kinds.
LEMMA KindIs ==
    ASSUME NEW K \in Kinds
    PROVE  /\ K \subseteq Cols /\ Seq(K) \subseteq Seq(Cols)
           /\ \A items \in Seq(Items) \ {<<>>} : Column(items) \in K
           /\ \A item \in Items : Column(<<item>>) \in K
  <1>1. K \subseteq Cols
    BY DEF Kinds, Ordinary
  <1>2. \A items \in Seq(Items) \ {<<>>} : Column(items) \in Cols
    BY Made
  <1>3. \A items : Column(items).full = FALSE
    BY DEF Column
  <1>4. \A items \in Seq(Items) \ {<<>>} : Column(items) \in K
    BY <1>2, <1>3 DEF Kinds, Ordinary
  <1>5. ASSUME NEW item \in Items
        PROVE  Column(<<item>>) \in K
    <2> DEFINE one == <<item>>
    <2>1. one \in Seq(Items) \ {<<>>}
      OBVIOUS
    <2> HIDE DEF one
    <2>2. Column(one) \in K
      BY <1>4, <2>1
    <2> QED
      BY <2>2 DEF one
  <1>6. Seq(K) \subseteq Seq(Cols)
    BY <1>1
  <1> QED
    BY <1>1, <1>4, <1>5, <1>6

\* A strip of one column has its windows.
LEMMA OneColumn ==
    ASSUME NEW column \in Cols
    PROVE  AllWindows(<<column>>) = WindowsOf(column)
  <1>1. <<>> \in Seq(Cols)
    OBVIOUS
  <1> QED
    BY <1>1, StripParts

\* What F makes of the members that a filter keeps, when it makes nothing of
\* the others.
LEMMA MappedKept ==
    ASSUME NEW S, NEW T, NEW F \in Maps(S, T), NEW R, \A x \in S : x \notin R => F[x] = <<>>,
           NEW s \in Seq(S)
    PROVE  Mapped(F, Retained(s, R)) = Mapped(F, s)
  <1> DEFINE G == {t \in Seq(S) : Mapped(F, Retained(t, R)) = Mapped(F, t)}
  <1>1. <<>> \in G
    BY RetainedNone
  <1>2. ASSUME NEW t \in Seq(S), t \in G, NEW x \in S
        PROVE  Append(t, x) \in G
    <2>1. Append(t, x) \in Seq(S)
      OBVIOUS
    <2>2. Retained(t, R) \in Seq(S)
      BY RetainedHolds
    <2>3. Mapped(F, Append(t, x)) = Mapped(F, t) \o F[x] /\ Mapped(F, t) \in Seq(T)
      BY MappedAppend, MappedIn
    <2>4. CASE x \in R
      <3>1. Retained(Append(t, x), R) = Append(Retained(t, R), x)
        BY <2>4, RetainedAppend
      <3> DEFINE u == Retained(t, R)
      <3> HIDE DEF u
      <3>2. Mapped(F, Append(u, x)) = Mapped(F, u) \o F[x]
        BY <2>2, MappedAppend DEF u
      <3> QED
        BY <1>2, <2>1, <2>3, <3>1, <3>2 DEF u
    <2>5. CASE x \notin R
      <3>1. Retained(Append(t, x), R) = Retained(t, R)
        BY <2>5, RetainedAppend
      <3>2. Mapped(F, t) \o <<>> = Mapped(F, t) /\ F[x] = <<>>
        BY <2>3, <2>5
      <3> QED
        BY <1>2, <2>1, <2>3, <3>1, <3>2
    <2> QED
      BY <2>4, <2>5
  <1> HIDE DEF G
  <1>3. Seq(S) \subseteq G
    BY <1>1, <1>2, AllSequences
  <1> QED
    BY <1>3 DEF G

\* A column without one window.
LEMMA WithoutIs ==
    ASSUME NEW K \in Kinds, NEW column \in Cols, NEW w
    PROVE  /\ Without(column, w) \in Seq(K)
           /\ AllWindows(Without(column, w)) = Left(WindowsOf(column), {w})
  <1> DEFINE items == column.items
             R == Windows \ {w}
             Other == [item \in Loose |-> [item EXCEPT !.ws = OtherThan(@, w)]]
             Kept == [item \in Loose |-> Retained(item.ws, R)]
             Fit == {item \in Loose : ~item.tabs => item.ws = <<>> \/ Len(item.ws) = 1}
             left == [k \in DOMAIN items |-> [items[k] EXCEPT !.ws = OtherThan(@, w)]]
             Some == {it \in ToSet(left) : it.ws # <<>>}
             rest == Retained(left, Some)
  <1>1. items \in Seq(Items) /\ items \in Seq(Loose) /\ items # <<>> /\ WindowsOf(column) = InItems(items)
    BY ColumnOrder
  <1>2. ASSUME NEW item \in Loose
        PROVE  /\ OtherThan(item.ws, w) = Retained(item.ws, R)
               /\ Retained(item.ws, R) \in Seq(Windows)
    <2>1. item.ws \in Seq(Windows) /\ ToSet(item.ws) \subseteq Windows
      BY DEF Loose, ToSet
    <2> DEFINE A == ToSet(item.ws) \ {w}
               s == item.ws
    <2>2. ToSet(s) \cap A = ToSet(s) \cap R
      BY <2>1
    <2> HIDE DEF A, R, s
    <2>3. Retained(s, A) = Retained(s, R) /\ Retained(s, R) \in Seq(Windows)
      BY <2>1, <2>2, RetainedSame, RetainedHolds DEF s
    <2> QED
      BY <2>3 DEF OtherThan, A, s
  <1>3. ASSUME NEW item \in Loose
        PROVE  /\ Other[item] \in Loose /\ Other[item].ws = Kept[item] /\ Other[item].tabs = item.tabs
               /\ Other[item] = [item EXCEPT !.ws = OtherThan(@, w)]
    <2>1. Other[item] = [item EXCEPT !.ws = OtherThan(@, w)]
      OBVIOUS
    <2>2. item = [tabs |-> item.tabs, ws |-> item.ws] /\ item.tabs \in BOOLEAN
      BY DEF Loose
    <2>3. [item EXCEPT !.ws = OtherThan(@, w)] = [tabs |-> item.tabs, ws |-> OtherThan(item.ws, w)]
      BY <2>2
    <2>4. [tabs |-> item.tabs, ws |-> OtherThan(item.ws, w)] \in Loose
      BY <1>2, <2>2 DEF Loose
    <2> QED
      BY <1>2, <2>1, <2>3, <2>4
  <1>4. ASSUME NEW item \in Items
        PROVE  Other[item] \in Fit
    <2>0. item \in Loose /\ item.ws \in Seq(Windows) /\ (~item.tabs => Len(item.ws) = 1)
      BY DEF Items, Loose
    <2>1. ASSUME ~item.tabs
          PROVE  Kept[item] = <<>> \/ Len(Kept[item]) = 1
      <3> DEFINE x == item.ws[1]
      <3>1. item.ws = Append(<<>>, x) /\ x \in Windows /\ <<>> \in Seq(Windows)
        BY <2>0, <2>1
      <3> HIDE DEF x, R
      <3>2. Retained(Append(<<>>, x), R) = IF x \in R THEN Append(Retained(<<>>, R), x)
                                           ELSE Retained(<<>>, R)
        BY <3>1, RetainedAppend
      <3>3. Retained(<<>>, R) = <<>>
        BY RetainedNone
      <3> QED
        BY <2>0, <3>1, <3>2, <3>3
    <2> QED
      BY <1>3, <2>0, <2>1
  <1>5. /\ left \in Seq(Fit) /\ left \in Seq(Loose) /\ Len(left) = Len(items)
        /\ \A k \in DOMAIN items : left[k] = Other[items[k]]
    <2>1. \A k \in DOMAIN items : items[k] \in Items /\ items[k] \in Loose
      BY <1>1
    <2>2. ASSUME NEW k \in DOMAIN items
          PROVE  left[k] = Other[items[k]]
      <3> DEFINE item == items[k]
      <3>1. left[k] = [item EXCEPT !.ws = OtherThan(@, w)]
        OBVIOUS
      <3> HIDE DEF item, Other, left
      <3>2. item \in Loose
        BY <2>1 DEF item
      <3> QED
        BY <1>3, <3>1, <3>2 DEF item
    <2>3. \A k \in DOMAIN items : left[k] \in Fit /\ left[k] \in Loose
      BY <2>1, <2>2, <1>4, <1>3
    <2>4. DOMAIN items = 1 .. Len(items) /\ Len(items) \in Nat /\ DOMAIN left = DOMAIN items
      BY <1>1
    <2> HIDE DEF left, Fit
    <2>5. left = [k \in 1 .. Len(items) |-> left[k]]
      BY <2>4 DEF left
    <2>6. left \in [1 .. Len(items) -> Fit] /\ left \in [1 .. Len(items) -> Loose]
      BY <2>3, <2>4, <2>5
    <2> QED
      BY <2>2, <2>4, <2>6
  <1>6. InItems(left) = Left(WindowsOf(column), {w})
    <2>1. ItemWs \in Maps(Loose, Windows) /\ \A item \in Loose : ItemWs[item] = item.ws
      BY <1>1, ItemsOrder DEF ItemWs
    <2>2. Kept \in Maps(Loose, Windows)
      BY <1>2 DEF Maps
    <2>3. \A item \in Loose : Kept[item] = Retained(ItemWs[item], R)
      BY <2>1
    <2>4. \A k \in DOMAIN items : items[k] \in Loose /\ left[k] = Other[items[k]]
      BY <1>1, <1>5
    <2>5. \A k \in DOMAIN items : ItemWs[left[k]] = Kept[items[k]]
      BY <2>1, <2>4, <1>3
    <2>6. DOMAIN left = DOMAIN items
      OBVIOUS
    <2> HIDE DEF left, Kept, Other, R, items
    <2>7. Parts(ItemWs, left) = Parts(Kept, items)
      BY <2>5, <2>6 DEF Parts
    <2>8. Retained(Mapped(ItemWs, items), R) = Mapped(Kept, items)
      BY <1>1, <2>1, <2>2, <2>3, RetainedOfMapped
    <2> QED
      BY <1>1, <2>7, <2>8 DEF InItems, Mapped, Left, R
  <1>7. rest \in Seq(Items) /\ InItems(rest) = InItems(left)
    <2> DEFINE Full == {it \in Loose : it.ws # <<>>}
    <2>1. ToSet(left) \cap Some = ToSet(left) \cap Full
      <3> HIDE DEF left, Fit
      <3>1. ToSet(left) \subseteq Loose
        BY <1>5 DEF ToSet
      <3> DEFINE all == ToSet(left)
                 some == {it \in all : it.ws # <<>>}
      <3>2. all \subseteq Loose
        BY <3>1
      <3> HIDE DEF all
      <3>3. all \cap some = all \cap Full
        BY <3>2
      <3> QED
        BY <3>3 DEF all
    <2>2. Fit \cap Full = Items
      <3>1. \A it \in Loose : it.ws \in Seq(Windows)
        BY DEF Loose
      <3>3. \A t \in Seq(Windows) : Len(t) = 1 => t # <<>>
        OBVIOUS
      <3>2. \A it \in Loose : Len(it.ws) = 1 => it.ws # <<>>
        BY <3>1, <3>3
      <3> QED
        BY <3>2 DEF Items
    <2>3. \A it \in Loose : it \notin Full => ItemWs[it] = <<>>
      BY DEF ItemWs
    <2>4. ItemWs \in Maps(Loose, Windows)
      BY <1>1, ItemsOrder
    <2> HIDE DEF left, Some, Full, Fit
    <2>5. rest = Retained(left, Full)
      BY <1>5, <2>1, RetainedSame
    <2>6. Retained(left, Full) \in Seq(Fit \cap Full)
      BY <1>5, RetainedIn
    <2>7. Mapped(ItemWs, Retained(left, Full)) = Mapped(ItemWs, left)
      BY <1>5, <2>3, <2>4, MappedKept
    <2> QED
      BY <2>2, <2>5, <2>6, <2>7 DEF InItems
  <1>8. ASSUME ~IsStack(column), rest # <<>>
        PROVE  rest = <<rest[1]>>
    <2> DEFINE x == left[1]
    <2>1. Len(left) = 1
      <3>1. Len(items) \in Nat \ {0}
        BY <1>1
      <3> QED
        BY <1>5, <1>8, <3>1 DEF IsStack
    <2> HIDE DEF left, Some
    <2>2. left = Append(<<>>, x) /\ x \in Loose /\ <<>> \in Seq(Loose)
      <3> HIDE DEF Fit, Other, items
      <3>1. left \in Seq(Loose)
        BY <1>5
      <3> QED
        BY <2>1, <3>1 DEF x
    <2> HIDE DEF x
    <2>3. Retained(Append(<<>>, x), Some) = IF x \in Some THEN Append(Retained(<<>>, Some), x)
                                            ELSE Retained(<<>>, Some)
      BY <2>2, RetainedAppend
    <2>4. Retained(<<>>, Some) = <<>>
      BY RetainedNone
    <2>5. rest = <<x>>
      BY <1>8, <2>2, <2>3, <2>4
    <2> QED
      BY <2>5
  <1>9. Without(column, w) = Remade(column, rest)
    BY DEF Without
  <1> HIDE DEF rest
  <1>10. rest \in Seq(Loose) /\ \A item \in Items : item \in Loose
    BY <1>7 DEF Items
  <1>11. CASE rest = <<>>
    <2>1. Without(column, w) = <<>>
      BY <1>9, <1>11 DEF Remade
    <2>2. <<>> \in Seq(Cols) /\ <<>> \in Seq(K) /\ <<>> \in Seq(Loose)
      OBVIOUS
    <2>3. AllWindows(<<>>) = <<>>
      BY <2>2, StripIs, MappedNone
    <2>4. InItems(<<>>) = <<>>
      BY <2>2, ItemsParts
    <2> QED
      BY <1>6, <1>7, <1>11, <2>1, <2>2, <2>3, <2>4
  <1>12. CASE rest # <<>> /\ ~IsStack(column) /\ Len(rest[1].ws) = 1
    <2> DEFINE x == rest[1].ws[1]
               c == Column(<<Alone(x)>>)
    <2>1. Without(column, w) = <<c>>
      BY <1>9, <1>12 DEF Remade
    <2>2. rest[1] \in Items /\ rest[1].ws = <<x>> /\ x \in Windows
      <3>1. rest[1] \in Items
        BY <1>7, <1>12
      <3>2. rest[1].ws \in Seq(Windows)
        BY <3>1 DEF Items, Loose
      <3> QED
        BY <3>1, <3>2, <1>12
    <2>3. InItems(rest) = <<x>>
      <3>1. InItems(<<rest[1]>>) = rest[1].ws
        <4>1. \A item \in Loose : InItems(<<item>>) = item.ws
          <5>1. <<>> \in Seq(Loose)
            OBVIOUS
          <5> QED
            BY <5>1, ItemsParts
        <4> QED
          BY <4>1, <2>2, <1>10
      <3> QED
        BY <1>8, <1>12, <2>2, <3>1
    <2> HIDE DEF x
    <2>4. Alone(x) \in Items /\ Alone(x).ws = <<x>>
      BY <2>2, Made
    <2>5. c \in K /\ c \in Cols /\ WindowsOf(c) = <<x>>
      BY <2>4, KindIs, Made
    <2> HIDE DEF c
    <2>6. <<c>> \in Seq(K) /\ AllWindows(<<c>>) = WindowsOf(c)
      BY <2>5, OneColumn
    <2> QED
      BY <1>6, <1>7, <2>1, <2>3, <2>5, <2>6
  <1>13. CASE rest # <<>> /\ ~(~IsStack(column) /\ Len(rest[1].ws) = 1)
    <2> DEFINE c == Column(rest)
    <2>1. Without(column, w) = <<c>>
      BY <1>9, <1>13 DEF Remade
    <2>2. c \in K /\ c \in Cols /\ WindowsOf(c) = InItems(rest)
      BY <1>7, <1>13, KindIs, Made
    <2> HIDE DEF c
    <2>3. <<c>> \in Seq(K) /\ AllWindows(<<c>>) = WindowsOf(c)
      BY <2>2, OneColumn
    <2> QED
      BY <1>6, <1>7, <2>1, <2>2, <2>3
  <1> QED
    BY <1>11, <1>12, <1>13

\* Three strips in one.
LEMMA ThreeStrips ==
    ASSUME NEW K \in Kinds, NEW a \in Seq(K), NEW m \in Seq(K), NEW b \in Seq(K)
    PROVE  /\ a \o m \o b \in Seq(K)
           /\ AllWindows(a \o m \o b) = AllWindows(a) \o AllWindows(m) \o AllWindows(b)
           /\ AllWindows(a) \in Seq(Windows) /\ AllWindows(m) \in Seq(Windows)
           /\ AllWindows(b) \in Seq(Windows)
  <1>1. a \in Seq(Cols) /\ m \in Seq(Cols) /\ b \in Seq(Cols)
    BY KindIs
  <1> DEFINE am == a \o m
  <1>2. am \in Seq(Cols) /\ AllWindows(am) = AllWindows(a) \o AllWindows(m)
    BY <1>1, StripParts
  <1>3. am \o b = a \o m \o b /\ a \o m \o b \in Seq(K)
    OBVIOUS
  <1> HIDE DEF am
  <1>4. AllWindows(am \o b) = AllWindows(am) \o AllWindows(b)
    BY <1>1, <1>2, StripParts
  <1>5. /\ AllWindows(a) \in Seq(Windows) /\ AllWindows(m) \in Seq(Windows)
        /\ AllWindows(b) \in Seq(Windows)
    BY <1>1, StripIs
  <1> QED
    BY <1>2, <1>3, <1>4, <1>5

\* The columns that take the place of one.
LEMMA SplicedIs ==
    ASSUME NEW K \in Kinds, NEW cols \in Seq(K), NEW i \in DOMAIN cols, NEW new \in Seq(K)
    PROVE  /\ Splice(cols, i, i, new) = Before(cols, i) \o new \o After(cols, i)
           /\ Splice(cols, i, i, new) \in Seq(K)
           /\ AllWindows(Splice(cols, i, i, new))
                 = AllWindows(Before(cols, i)) \o AllWindows(new) \o AllWindows(After(cols, i))
  <1>1. Splice(cols, i, i, new) = Before(cols, i) \o new \o After(cols, i)
    BY DEF Splice, Before, After
  <1>2. Before(cols, i) \in Seq(K) /\ After(cols, i) \in Seq(K)
    BY BeforeAfter
  <1> DEFINE a == Before(cols, i)
             b == After(cols, i)
  <1> HIDE DEF a, b
  <1>3. /\ a \o new \o b \in Seq(K)
        /\ AllWindows(a \o new \o b) = AllWindows(a) \o AllWindows(new) \o AllWindows(b)
    BY <1>2, ThreeStrips DEF a, b
  <1> QED
    BY <1>1, <1>3 DEF a, b

\* A strip without one window.
LEMMA RemoveWindowIs ==
    ASSUME NEW K \in Kinds, NEW cols \in Seq(K), Orderly(AllWindows(cols)), NEW w
    PROVE  /\ RemoveWindow(cols, w) \in Seq(K)
           /\ AllWindows(RemoveWindow(cols, w)) = Left(AllWindows(cols), {w})
           /\ Orderly(AllWindows(RemoveWindow(cols, w)))
           /\ ToSet(AllWindows(RemoveWindow(cols, w))) = ToSet(AllWindows(cols)) \ {w}
  <1> DEFINE i == IndexOf(cols, w)
             one == {w}
  <1>0. \A x : x \in one <=> x = w
    OBVIOUS
  <1>1. cols \in Seq(Cols)
    BY KindIs
  <1>2. RemoveWindow(cols, w) = IF i = 0 THEN cols ELSE Splice(cols, i, i, Without(cols[i], w))
    BY DEF RemoveWindow
  <1>3. /\ i = 0 <=> w \notin ToSet(AllWindows(cols))
        /\ i # 0 => i \in DOMAIN cols /\ cols[i] \in Cols /\ w \in ToSet(WindowsOf(cols[i]))
    BY <1>1, IndexOfIs
  <1> HIDE DEF i, one
  <1>6. /\ Orderly(Left(AllWindows(cols), one))
        /\ ToSet(Left(AllWindows(cols), one)) = ToSet(AllWindows(cols)) \ one
    BY LeftIs
  <1>4. CASE i = 0
    <2>1. Left(AllWindows(cols), one) = AllWindows(cols)
      BY <1>0, <1>3, <1>4, LeftIs
    <2> QED
      BY <1>2, <1>4, <1>6, <2>1 DEF one
  <1>5. CASE i # 0
    <2> DEFINE p == AllWindows(Before(cols, i))
               g == WindowsOf(cols[i])
               q == AllWindows(After(cols, i))
               new == Without(cols[i], w)
               pg == p \o g
               all == pg \o q
    <2>1. /\ p \in Seq(Windows) /\ g \in Seq(Windows) /\ q \in Seq(Windows)
          /\ AllWindows(cols) = p \o g \o q
      BY <1>1, <1>3, <1>5, StripAround
    <2>2. new \in Seq(K) /\ AllWindows(new) = Left(g, one)
      BY <1>3, <1>5, WithoutIs DEF one
    <2> HIDE DEF p, g, q, new
    <2>3. /\ Splice(cols, i, i, new) \in Seq(K)
          /\ AllWindows(Splice(cols, i, i, new)) = p \o AllWindows(new) \o q
      BY <1>3, <1>5, <2>2, SplicedIs DEF p, q
    <2>4. ToSet(p) \cap ToSet(g) = {} /\ ToSet(g) \cap ToSet(q) = {}
      BY <2>1, LeftAround
    <2>5. w \in ToSet(g)
      BY <1>3, <1>5 DEF g
    <2>6. Left(p, one) = p /\ Left(q, one) = q
      <3>1. ToSet(p) \cap one = {} /\ ToSet(q) \cap one = {}
        BY <1>0, <2>4, <2>5
      <3> QED
        BY <2>1, <3>1, LeftAll
    <2>7. pg \in Seq(Windows) /\ pg = Both(p, g)
      BY <2>1 DEF Both
    <2> HIDE DEF pg
    <2>8. all = Both(pg, q)
      BY DEF Both
    <2> HIDE DEF all
    <2>9. Left(all, one) = Both(Both(Left(p, one), Left(g, one)), Left(q, one))
      <3>1. Left(Both(pg, q), one) = Both(Left(pg, one), Left(q, one))
        BY <2>1, <2>7, LeftConcat
      <3>2. Left(Both(p, g), one) = Both(Left(p, one), Left(g, one))
        BY <2>1, LeftConcat
      <3> QED
        BY <2>7, <2>8, <3>1, <3>2
    <2>10. all = AllWindows(cols)
      BY <2>1 DEF all, pg
    <2>11. AllWindows(Splice(cols, i, i, new)) = Left(AllWindows(cols), one)
      BY <2>2, <2>3, <2>6, <2>9, <2>10 DEF Both
    <2>12. RemoveWindow(cols, w) = Splice(cols, i, i, new)
      BY <1>2, <1>5 DEF new
    <2> QED
      BY <1>6, <2>3, <2>11, <2>12 DEF one
  <1> QED
    BY <1>4, <1>5

\* One window after the other is removed.
LEMMA RemoveAllSteps ==
    ASSUME NEW K \in Kinds, NEW cols \in Seq(K), Orderly(AllWindows(cols)), NEW group \in Seq(Windows)
    PROVE  \E g : /\ g[0] = cols /\ g[Len(group)] = RemoveAll(cols, group)
                  /\ \A i \in 1..Len(group) : g[i] = RemoveWindow(g[i - 1], group[i])
  <1> DEFINE n == Len(group)
             A == {c \in Seq(K) : Orderly(AllWindows(c))}
             Rule(f, s) == IF s = {} THEN cols ELSE RemoveWindow(f[s \ {Max(s)}], group[Max(s)])
             Solves(f) == f = [s \in SUBSET DOMAIN group |-> Rule(f, s)]
  <1>1. n \in Nat /\ DOMAIN group = 1..n
    OBVIOUS
  <1>2. \E f : Solves(f)
    <2> DEFINE step == [p \in (SUBSET (1..n)) \X A |-> RemoveWindow(p[2], group[Max(p[1])])]
    <2>1. step \in [(SUBSET (1..n)) \X A -> A]
      <3>1. \A p \in (SUBSET (1..n)) \X A : RemoveWindow(p[2], group[Max(p[1])]) \in A
        BY RemoveWindowIs
      <3> HIDE DEF A
      <3> QED
        BY <3>1
    <2> HIDE DEF A, n
    <2>2. cols \in A
      BY DEF A
    <2>3. PICK f : Folds(f, A, cols, n, step)
      <3> HIDE DEF step
      <3> QED
        BY <1>1, <2>1, <2>2, FoldThere
    <2>4. ASSUME NEW s \in SUBSET (1..n) PROVE f[s] = Rule(f, s)
      <3>1. f[s \ {Max(s)}] \in A
        BY <2>3 DEF Folds
      <3>2. step[<<s, f[s \ {Max(s)}]>>] = RemoveWindow(f[s \ {Max(s)}], group[Max(s)])
        BY <3>1
      <3> QED
        BY <2>3, <3>2 DEF Folds
    <2> HIDE DEF Rule
    <2>5. f = [s \in SUBSET (1..n) |-> Rule(f, s)]
      BY <2>3, <2>4 DEF Folds
    <2> QED
      BY <2>5, <1>1
  <1>3. PICK f : Solves(f) /\ RemoveAll(cols, group) = f[DOMAIN group]
    BY <1>2, Zenon DEF RemoveAll, FoldLeft, MapThenFoldSet
  <1>4. \A s \in SUBSET (1..n) : f[s] = Rule(f, s)
    <2> HIDE DEF Rule, n
    <2> QED
      BY <1>1, <1>3
  <1> DEFINE g == [i \in 0..n |-> f[1..i]]
  <1> HIDE DEF n
  <1>5. g[0] = cols
    <2>1. 1..0 = {} /\ {} \in SUBSET (1..n) /\ 0 \in 0..n
      BY <1>1
    <2> QED
      BY <2>1, <1>4
  <1>6. ASSUME NEW i \in 1..n PROVE g[i] = RemoveWindow(g[i - 1], group[i])
    <2>1. /\ 1..i \in SUBSET (1..n) /\ 1..i # {} /\ Max(1..i) = i /\ (1..i) \ {i} = 1..(i - 1)
          /\ i \in 0..n /\ i - 1 \in 0..n
      BY <1>1, Stages
    <2>2. f[1..i] = RemoveWindow(f[1..(i - 1)], group[i])
      BY <2>1, <1>4
    <2> QED
      BY <2>1, <2>2
  <1>7. g[n] = RemoveAll(cols, group)
    BY <1>1, <1>3
  <1> HIDE DEF g
  <1> QED
    BY <1>5, <1>6, <1>7 DEF n

\* One entity after the other is added, if it is new.
LEMMA DedupedSteps ==
    ASSUME NEW group \in Seq(Windows)
    PROVE  \E g : /\ g[0] = <<>> /\ g[Len(group)] = Deduped(group)
                  /\ \A i \in 1..Len(group) :
                         g[i] = IF Contains(g[i - 1], group[i]) THEN g[i - 1]
                                ELSE Append(g[i - 1], group[i])
  <1> DEFINE n == Len(group)
             A == Seq(Windows)
             Add(acc, w) == IF Contains(acc, w) THEN acc ELSE Append(acc, w)
             Rule(f, s) == IF s = {} THEN <<>> ELSE Add(f[s \ {Max(s)}], group[Max(s)])
             Solves(f) == f = [s \in SUBSET DOMAIN group |-> Rule(f, s)]
  <1>1. n \in Nat /\ DOMAIN group = 1..n
    OBVIOUS
  <1>2. \A acc \in A, w \in Windows : Add(acc, w) \in A
    OBVIOUS
  <1>3. \A s \in SUBSET (1..n) : s # {} => group[Max(s)] \in Windows
    <2>1. \A s \in SUBSET (1..n) : s # {} => Max(s) \in 1..n
      BY <1>1, MaxIn
    <2> QED
      BY <1>1, <2>1
  <1> HIDE DEF Add
  <1>4. \E f : Solves(f)
    <2> DEFINE step == [p \in (SUBSET (1..n)) \X A |->
                           IF p[1] = {} THEN <<>> ELSE Add(p[2], group[Max(p[1])])]
    <2>0. <<>> \in A
      OBVIOUS
    <2> HIDE DEF A, n
    <2>1. step \in [(SUBSET (1..n)) \X A -> A]
      <3>1. \A p \in (SUBSET (1..n)) \X A :
                (IF p[1] = {} THEN <<>> ELSE Add(p[2], group[Max(p[1])])) \in A
        BY <1>2, <1>3, <2>0
      <3> QED
        BY <3>1
    <2>3. PICK f : Folds(f, A, <<>>, n, step)
      <3> HIDE DEF step
      <3> QED
        BY <1>1, <2>0, <2>1, FoldThere
    <2>4. ASSUME NEW s \in SUBSET (1..n) PROVE f[s] = Rule(f, s)
      <3>1. f[s \ {Max(s)}] \in A
        BY <2>3 DEF Folds
      <3>2. s # {} => step[<<s, f[s \ {Max(s)}]>>] = Add(f[s \ {Max(s)}], group[Max(s)])
        BY <3>1
      <3> QED
        BY <2>3, <3>2 DEF Folds
    <2> HIDE DEF Rule
    <2>5. f = [s \in SUBSET (1..n) |-> Rule(f, s)]
      BY <2>3, <2>4 DEF Folds
    <2> QED
      BY <2>5, <1>1
  <1>5. PICK f : Solves(f) /\ Deduped(group) = f[DOMAIN group]
    BY <1>4, Zenon DEF Deduped, FoldLeft, MapThenFoldSet, Add
  <1>6. \A s \in SUBSET (1..n) : f[s] = Rule(f, s)
    <2> HIDE DEF Rule, n
    <2> QED
      BY <1>1, <1>5
  <1> DEFINE g == [i \in 0..n |-> f[1..i]]
  <1> HIDE DEF n
  <1>7. g[0] = <<>>
    <2>1. 1..0 = {} /\ {} \in SUBSET (1..n) /\ 0 \in 0..n
      BY <1>1
    <2> QED
      BY <2>1, <1>6
  <1>8. ASSUME NEW i \in 1..n PROVE g[i] = Add(g[i - 1], group[i])
    <2>1. /\ 1..i \in SUBSET (1..n) /\ 1..i # {} /\ Max(1..i) = i /\ (1..i) \ {i} = 1..(i - 1)
          /\ i \in 0..n /\ i - 1 \in 0..n
      BY <1>1, Stages
    <2>2. f[1..i] = Add(f[1..(i - 1)], group[i])
      BY <2>1, <1>6
    <2> QED
      BY <2>1, <2>2
  <1>9. g[n] = Deduped(group)
    BY <1>1, <1>5
  <1> HIDE DEF g
  <1> QED
    BY <1>7, <1>8, <1>9 DEF n, Add

\* What is left has the same entities, each of them once.
LEMMA DedupedOnce ==
    ASSUME NEW group \in Seq(Windows)
    PROVE  /\ Deduped(group) \in Seq(Windows) /\ IsInjective(Deduped(group))
           /\ ToSet(Deduped(group)) = ToSet(group)
  <1> DEFINE n == Len(group)
  <1>2. PICK g : /\ g[0] = <<>> /\ g[n] = Deduped(group)
                 /\ \A i \in 1..n : g[i] = IF Contains(g[i - 1], group[i]) THEN g[i - 1]
                                           ELSE Append(g[i - 1], group[i])
    BY DedupedSteps
  <1> DEFINE seen(i) == {group[k] : k \in 1..i}
             T == {i \in 0..n : g[i] \in Seq(Windows) /\ IsInjective(g[i]) /\ ToSet(g[i]) = seen(i)}
  <1>3. n \in Nat /\ DOMAIN group = 1..n /\ \A i \in 1..n : group[i] \in Windows
    OBVIOUS
  <1> HIDE DEF n
  <1>4. 0 \in T
    <2>1. seen(0) = {} /\ 0 \in 0..n
      BY <1>3
    <2>2. <<>> \in Seq(Windows) /\ IsInjective(<<>>) /\ ToSet(<<>>) = {}
      BY DEF IsInjective, ToSet
    <2> QED
      BY <2>1, <2>2, <1>2
  <1>5. ASSUME NEW i \in 1..n, i - 1 \in T PROVE i \in T
    <2> DEFINE acc == g[i - 1]
               w == group[i]
    <2>1. acc \in Seq(Windows) /\ IsInjective(acc) /\ ToSet(acc) = seen(i - 1) /\ w \in Windows
      BY <1>3, <1>5
    <2>2. g[i] = IF Contains(acc, w) THEN acc ELSE Append(acc, w)
      BY <1>2
    <2>3. seen(i) = seen(i - 1) \cup {w} /\ i \in 0..n
      <3>1. 1..i = (1..(i - 1)) \cup {i} /\ i \in 0..n
        BY <1>3
      <3> QED
        BY <3>1
    <2> HIDE DEF acc, w, seen
    <2>4. Contains(acc, w) <=> w \in ToSet(acc)
      <3>1. DOMAIN acc = 1 .. Len(acc)
        BY <2>1
      <3> QED
        BY <3>1 DEF Contains, ToSet
    <2>5. CASE Contains(acc, w)
      BY <2>1, <2>2, <2>3, <2>4, <2>5
    <2>6. CASE ~Contains(acc, w)
      <3> DEFINE more == Append(acc, w)
      <3>1. /\ more \in Seq(Windows) /\ DOMAIN more = 1..(Len(acc) + 1)
            /\ \A k \in DOMAIN more : more[k] = IF k <= Len(acc) THEN acc[k] ELSE w
            /\ DOMAIN acc = 1..Len(acc) /\ Len(acc) \in Nat
        BY <2>1
      <3> HIDE DEF more
      <3>2. \A k \in DOMAIN more : \/ k \in DOMAIN acc /\ more[k] = acc[k]
                                   \/ k = Len(acc) + 1 /\ more[k] = w
        BY <3>1
      <3>3. /\ \A k \in DOMAIN acc : k \in DOMAIN more /\ more[k] = acc[k]
            /\ Len(acc) + 1 \in DOMAIN more /\ more[Len(acc) + 1] = w
        BY <3>1
      <3>4. \A k \in DOMAIN acc : acc[k] # w
        BY <2>4, <2>6 DEF ToSet
      <3>5. IsInjective(more)
        BY <3>2, <3>4, <2>1 DEF IsInjective
      <3>6. ToSet(more) = ToSet(acc) \cup {w}
        <4>1. ASSUME NEW x \in ToSet(more) PROVE x \in ToSet(acc) \cup {w}
          BY <3>2, <4>1 DEF ToSet
        <4>2. ASSUME NEW x \in ToSet(acc) \cup {w} PROVE x \in ToSet(more)
          BY <3>3, <4>2 DEF ToSet
        <4> QED
          BY <4>1, <4>2
      <3>7. g[i] = more
        BY <2>2, <2>6 DEF more
      <3> QED
        BY <2>1, <2>3, <3>1, <3>5, <3>6, <3>7
    <2> QED
      BY <2>5, <2>6
  <1> HIDE DEF T
  <1>6. 0..n \subseteq T
    BY <1>3, <1>4, <1>5, UpTo
  <1>7. n \in T
    BY <1>3, <1>6
  <1>8. seen(n) = ToSet(group)
    BY <1>3 DEF ToSet
  <1> QED
    BY <1>2, <1>7, <1>8 DEF T

\* A strip without the windows of a group.
LEMMA RemoveAllIs ==
    ASSUME NEW K \in Kinds, NEW cols \in Seq(K), Orderly(AllWindows(cols)), NEW group \in Seq(Windows)
    PROVE  /\ RemoveAll(cols, group) \in Seq(K)
           /\ AllWindows(RemoveAll(cols, group)) = Left(AllWindows(cols), ToSet(group))
  <1> DEFINE n == Len(group)
             o == AllWindows(cols)
             seen(i) == {group[k] : k \in 1 .. i}
  <1>1. PICK g : /\ g[0] = cols /\ g[n] = RemoveAll(cols, group)
                 /\ \A i \in 1 .. n : g[i] = RemoveWindow(g[i - 1], group[i])
    BY RemoveAllSteps
  <1> DEFINE T == {i \in 0 .. n : g[i] \in Seq(K) /\ AllWindows(g[i]) = Left(o, seen(i))}
  <1>2. n \in Nat /\ DOMAIN group = 1 .. n /\ o \in Seq(Windows) /\ Orderly(o)
    BY DEF Orderly
  <1> HIDE DEF n, o
  <1>3. 0 \in T
    <2>1. seen(0) = {} /\ 0 \in 0 .. n
      BY <1>2
    <2>2. Left(o, {}) = o
      <3> DEFINE none == {}
      <3>1. ToSet(o) \cap none = {}
        OBVIOUS
      <3> HIDE DEF none
      <3>2. Left(o, none) = o
        BY <1>2, <3>1, LeftAll
      <3> QED
        BY <3>2 DEF none
    <2> QED
      BY <1>1, <2>1, <2>2 DEF o
  <1>4. ASSUME NEW i \in 1 .. n, i - 1 \in T PROVE i \in T
    <2> DEFINE c == g[i - 1]
               w == group[i]
               A == seen(i - 1)
    <2>1. c \in Seq(K) /\ AllWindows(c) = Left(o, A) /\ g[i] = RemoveWindow(c, w)
      BY <1>1, <1>4
    <2>2. seen(i) = A \cup {w} /\ i \in 0 .. n
      <3>1. 1 .. i = (1 .. (i - 1)) \cup {i} /\ i \in 0 .. n
        BY <1>2
      <3> QED
        BY <3>1
    <2> HIDE DEF c, w, A
    <2>3. Orderly(Left(o, A))
      BY <1>2, LeftIs
    <2>4. RemoveWindow(c, w) \in Seq(K) /\ AllWindows(RemoveWindow(c, w)) = Left(AllWindows(c), {w})
      BY <2>1, <2>3, RemoveWindowIs
    <2>5. Left(Left(o, A), {w}) = Left(o, A \cup {w})
      <3> DEFINE B == {w}
      <3> HIDE DEF B
      <3>1. Left(Left(o, A), B) = Left(o, A \cup B)
        BY <1>2, LeftTwice
      <3> QED
        BY <3>1 DEF B
    <2> QED
      BY <2>1, <2>2, <2>4, <2>5
  <1>5. n \in T
    <2> HIDE DEF T
    <2> DEFINE bad == {i \in 0 .. n : i \notin T}
    <2>1. bad = {}
      <3> SUFFICES ASSUME bad # {} PROVE FALSE
        OBVIOUS
      <3>1. PICK m \in bad : \A k \in bad : m <= k
        <4>1. bad \in SUBSET Nat
          OBVIOUS
        <4> HIDE DEF bad
        <4> QED
          BY <4>1, LeastOf
      <3>2. m \in 1 .. n /\ m - 1 \in 0 .. n /\ ~(m <= m - 1)
        BY <1>2, <1>3, <3>1
      <3>3. m - 1 \in T
        BY <3>1, <3>2
      <3> QED
        BY <1>4, <3>1, <3>2, <3>3
    <2> QED
      BY <1>2, <2>1
  <1>6. seen(n) = ToSet(group)
    BY <1>2 DEF ToSet
  <1> QED
    BY <1>1, <1>5, <1>6 DEF o

------------------------------------------------------------------------------
(* Windows are placed *)

\* A strip in two parts.
LEMMA SplitAt ==
    ASSUME NEW T, NEW s \in Seq(T), NEW i \in 1 .. Len(s) + 1
    PROVE  LET a == SubSeq(s, 1, i - 1)
               b == SubSeq(s, (i - 1) + 1, Len(s))
           IN  a \in Seq(T) /\ b \in Seq(T) /\ Both(a, b) = s
  <1> DEFINE j == i - 1
             a == SubSeq(s, 1, i - 1)
             m == SubSeq(s, i, j)
             b == SubSeq(s, j + 1, Len(s))
  <1>1. i \in Nat \ {0} /\ j \in Nat /\ i <= j + 1 /\ j <= Len(s)
    OBVIOUS
  <1>2. m = <<>>
    BY <1>1, PartsOfOne
  <1> HIDE DEF j
  <1>3. a \in Seq(T) /\ b \in Seq(T) /\ s = a \o m \o b
    BY <1>1, InParts
  <1>5. a \o <<>> = a
    BY <1>3
  <1> HIDE DEF a, m, b
  <1>6. s = a \o b
    BY <1>2, <1>3, <1>5
  <1> QED
    BY <1>3, <1>6 DEF Both, a, b, j

\* A new column goes between two parts of the strip.
LEMMA InsertColumnIs ==
    ASSUME NEW K \in Kinds, NEW cols \in Seq(K), NEW i \in Nat \ {0}, NEW column \in K
    PROVE  \E a, b \in Seq(K) : /\ Both(a, b) = cols
                                /\ InsertColumn(cols, i, column) = a \o <<column>> \o b
  <1>1. CASE i > Len(cols)
    <2>1. InsertColumn(cols, i, column) = cols \o <<column>> \o <<>>
      BY <1>1 DEF InsertColumn
    <2>2. Both(cols, <<>>) = cols /\ <<>> \in Seq(K)
      BY DEF Both
    <2> QED
      BY <2>1, <2>2
  <1>2. CASE ~(i > Len(cols))
    <2> DEFINE a == SubSeq(cols, 1, i - 1)
               b == SubSeq(cols, (i - 1) + 1, Len(cols))
    <2>1. i \in 1 .. Len(cols) + 1
      BY <1>2
    <2>2. a \in Seq(K) /\ b \in Seq(K) /\ Both(a, b) = cols
      BY <2>1, SplitAt
    <2>3. InsertColumn(cols, i, column) = a \o <<column>> \o b
      BY <1>2 DEF InsertColumn, Splice
    <2> HIDE DEF a, b
    <2> QED
      BY <2>2, <2>3
  <1> QED
    BY <1>1, <1>2

\* The columns rest are what is left of the order o without the windows of the
\* column that is placed.
LEMMA PlacedColumn ==
    ASSUME NEW K \in Kinds, NEW o, Orderly(o), NEW rest \in Seq(K), NEW i \in Nat \ {0},
           NEW column \in K, WindowsOf(column) # <<>>, IsInjective(WindowsOf(column)),
           AllWindows(rest) = Left(o, ToSet(WindowsOf(column)))
    PROVE  /\ InsertColumn(rest, i, column) \in Seq(K)
           /\ Follows(o, AllWindows(InsertColumn(rest, i, column)))
  <1> DEFINE g == WindowsOf(column)
             new == InsertColumn(rest, i, column)
  <1>1. PICK a, b \in Seq(K) : Both(a, b) = rest /\ new = a \o <<column>> \o b
    BY InsertColumnIs
  <1>2. a \in Seq(Cols) /\ b \in Seq(Cols) /\ column \in Cols
    BY KindIs
  <1>3. g \in Seq(Windows) \ {<<>>}
    BY <1>2, ColumnOrder
  <1> DEFINE p == AllWindows(a)
             q == AllWindows(b)
  <1>4. p \in Seq(Windows) /\ q \in Seq(Windows)
    BY <1>2, StripIs
  <1>5. AllWindows(a \o <<column>> \o b) = p \o g \o q
    BY <1>2, StripParts
  <1>6. p \o q = Left(o, ToSet(g))
    <2>1. AllWindows(a \o b) = p \o q
      BY <1>2, StripParts
    <2> QED
      BY <1>1, <2>1 DEF Both
  <1>7. a \o <<column>> \o b \in Seq(K)
    OBVIOUS
  <1> HIDE DEF new, p, q, g
  <1>8. Follows(o, p \o g \o q)
    BY <1>3, <1>4, <1>6, PlacedIs DEF g
  <1> QED
    BY <1>1, <1>5, <1>7, <1>8 DEF new, g

\* A window of its own is placed: InsertWindow and AppendWindow.
LEMMA InsertWindowIs ==
    ASSUME NEW K \in Kinds, NEW cols \in Seq(K), Orderly(AllWindows(cols)), NEW w \in Windows,
           ~HasWindow(cols, w), NEW i \in Nat \ {0}
    PROVE  /\ InsertWindow(cols, i, w) \in Seq(K)
           /\ Follows(AllWindows(cols), AllWindows(InsertWindow(cols, i, w)))
  <1> DEFINE column == Column(<<Alone(w)>>)
             o == AllWindows(cols)
             one == <<w>>
  <1>1. Alone(w) \in Items /\ Alone(w).ws = one
    BY Made
  <1>2. column \in K /\ WindowsOf(column) = one
    BY <1>1, KindIs, Made
  <1>3. one # <<>> /\ IsInjective(one) /\ ToSet(one) = {w}
    BY DEF IsInjective, ToSet
  <1>4. w \notin ToSet(o)
    <2>1. cols \in Seq(Cols)
      BY KindIs
    <2> QED
      BY <2>1, IndexOfIs
  <1> HIDE DEF column, one, o
  <1>5. Left(o, ToSet(one)) = o
    <2>1. ToSet(o) \cap ToSet(one) = {}
      BY <1>3, <1>4
    <2>2. Orderly(o)
      BY DEF o
    <2> HIDE DEF one
    <2> QED
      BY <2>1, <2>2, LeftIs
  <1>6. Orderly(o) /\ AllWindows(cols) = o
    BY DEF o
  <1>7. InsertColumn(cols, i, column) \in Seq(K) /\ Follows(o, AllWindows(InsertColumn(cols, i, column)))
    BY <1>2, <1>3, <1>5, <1>6, PlacedColumn
  <1> QED
    BY <1>7 DEF InsertWindow, column, o

\* append: a window that is not there comes last.
LEMMA AppendWindowIs ==
    ASSUME NEW K \in Kinds, NEW cols \in Seq(K), Orderly(AllWindows(cols)), NEW w \in Windows
    PROVE  /\ AppendWindow(cols, w) \in Seq(K)
           /\ Follows(AllWindows(cols), AllWindows(AppendWindow(cols, w)))
  <1>1. CASE HasWindow(cols, w)
    BY <1>1, StaysIs DEF AppendWindow
  <1>2. CASE ~HasWindow(cols, w)
    <2> DEFINE i == Len(cols) + 1
    <2>1. i \in Nat \ {0} /\ i > Len(cols)
      OBVIOUS
    <2>2. InsertWindow(cols, i, w) = AppendWindow(cols, w)
      BY <1>2, <2>1 DEF InsertWindow, InsertColumn, AppendWindow
    <2> HIDE DEF i
    <2> QED
      BY <1>2, <2>1, <2>2, InsertWindowIs
  <1> QED
    BY <1>1, <1>2

\* A sequence of one member.
LEMMA OneMember ==
    ASSUME NEW T, NEW s \in Seq(T), Len(s) = 1
    PROVE  s[1] \in T /\ s = <<s[1]>>
  OBVIOUS

\* A tab group is placed, out of its old places.
LEMMA InsertTabGroupIs ==
    ASSUME NEW K \in Kinds, NEW cols \in Seq(K), Orderly(AllWindows(cols)),
           NEW entities \in Seq(Windows), NEW i \in Nat \ {0}
    PROVE  /\ InsertTabGroup(cols, i, entities) \in Seq(K)
           /\ Follows(AllWindows(cols), AllWindows(InsertTabGroup(cols, i, entities)))
  <1> DEFINE group == Deduped(entities)
             rest == RemoveAll(cols, group)
             new == IF Len(group) = 1 THEN Alone(group[1]) ELSE Grouped(group)
             column == Column(<<new>>)
  <1>1. group \in Seq(Windows) /\ IsInjective(group)
    BY DedupedOnce
  <1>2. InsertTabGroup(cols, i, entities) = IF group = <<>> THEN cols
                                            ELSE InsertColumn(rest, i, column)
    BY DEF InsertTabGroup
  <1> HIDE DEF group
  <1>3. rest \in Seq(K) /\ AllWindows(rest) = Left(AllWindows(cols), ToSet(group))
    BY <1>1, RemoveAllIs
  <1>4. CASE group = <<>>
    BY <1>2, <1>4, StaysIs
  <1>5. CASE group # <<>>
    <2>1. new \in Items /\ new.ws = group
      <3>1. CASE Len(group) = 1
        <4>1. group[1] \in Windows /\ group = <<group[1]>>
          BY <1>1, <3>1, OneMember
        <4> QED
          BY <3>1, <4>1, Made
      <3>2. CASE Len(group) # 1
        <4>1. Grouped(group) \in Items /\ Grouped(group).ws = group
          BY <1>1, <1>5, Made
        <4> QED
          BY <3>2, <4>1
      <3> QED
        BY <3>1, <3>2
    <2> HIDE DEF new, rest
    <2>2. column \in K /\ WindowsOf(column) = group
      BY <2>1, KindIs, Made
    <2> HIDE DEF column
    <2>3. /\ InsertColumn(rest, i, column) \in Seq(K)
          /\ Follows(AllWindows(cols), AllWindows(InsertColumn(rest, i, column)))
      BY <1>1, <1>3, <1>5, <2>2, PlacedColumn
    <2> QED
      BY <1>2, <1>5, <2>3
  <1> QED
    BY <1>4, <1>5

\* append_tab_group: the group comes to where one of its windows was, or last.
LEMMA AppendTabGroupIs ==
    ASSUME NEW K \in Kinds, NEW cols \in Seq(K), Orderly(AllWindows(cols)),
           NEW entities \in Seq(Windows)
    PROVE  /\ AppendTabGroup(cols, entities) \in Seq(K)
           /\ Follows(AllWindows(cols), AllWindows(AppendTabGroup(cols, entities)))
  <1> DEFINE at == {IndexOf(cols, w) : w \in ToSet(entities)} \ {0}
             i == IF at = {} THEN Len(cols) + 1 ELSE Min(at)
  <1>1. cols \in Seq(Cols)
    BY KindIs
  <1>2. at \in SUBSET Nat /\ 0 \notin at
    <2>1. DOMAIN cols \subseteq Nat
      OBVIOUS
    <2>2. \A w : IndexOf(cols, w) \in Nat
      <3>1. \A w : IndexOf(cols, w) # 0 => IndexOf(cols, w) \in DOMAIN cols
        BY <1>1, IndexOfIs
      <3> QED
        BY <2>1, <3>1
    <2> QED
      BY <2>2
  <1>3. AppendTabGroup(cols, entities) = InsertTabGroup(cols, i, entities)
    BY DEF AppendTabGroup
  <1> HIDE DEF at
  <1>4. i \in Nat \ {0}
    <2>1. CASE at # {}
      <3>1. Min(at) \in at
        BY <1>2, <2>1, MinIn
      <3> QED
        BY <1>2, <2>1, <3>1
    <2>2. CASE at = {}
      <3>1. Len(cols) + 1 \in Nat \ {0}
        OBVIOUS
      <3> QED
        BY <2>2, <3>1
    <2> QED
      BY <2>1, <2>2
  <1> HIDE DEF i
  <1> QED
    BY <1>3, <1>4, InsertTabGroupIs

------------------------------------------------------------------------------
(* Columns and items change in their places *)

\* Every item of a column has a window, and the column has it too.
LEMMA ColumnHolds ==
    ASSUME NEW column \in Cols
    PROVE  /\ WindowsOf(column) # <<>>
           /\ \A k \in DOMAIN column.items :
                 /\ column.items[k] \in Items /\ column.items[k].ws \in Seq(Windows) \ {<<>>}
                 /\ ToSet(column.items[k].ws) \subseteq ToSet(WindowsOf(column))
                 /\ column.items[k].ws[1] \in ToSet(WindowsOf(column))
  <1>1. column.items \in Seq(Items) /\ column.items # <<>>
    BY ColumnOrder
  <1>2. ASSUME NEW k \in DOMAIN column.items
        PROVE  /\ column.items[k] \in Items /\ column.items[k].ws \in Seq(Windows) \ {<<>>}
               /\ ToSet(column.items[k].ws) \subseteq ToSet(WindowsOf(column))
               /\ column.items[k].ws[1] \in ToSet(WindowsOf(column))
    <2> DEFINE item == column.items[k]
    <2>1. item \in Items /\ item \in Loose /\ item.ws \in Seq(Windows) \ {<<>>}
      BY <1>1 DEF Items, Loose
    <2>2. ASSUME NEW w \in ToSet(item.ws) PROVE w \in ToSet(WindowsOf(column))
      <3>1. ItemHolds(item, w)
        BY <2>1, HoldsIs
      <3>2. InColumn(column, w)
        BY <3>1 DEF InColumn
      <3> QED
        BY <3>2, InColumnIs
    <2>3. item.ws[1] \in ToSet(item.ws)
      <3>1. 1 \in DOMAIN item.ws
        BY <2>1
      <3> QED
        BY <3>1 DEF ToSet
    <2> QED
      BY <2>1, <2>2, <2>3
  <1>3. 1 \in DOMAIN column.items
    BY <1>1
  <1>4. column.items[1].ws[1] \in ToSet(WindowsOf(column))
    BY <1>2, <1>3
  <1>5. ToSet(<<>>) = {}
    BY DEF ToSet
  <1> QED
    BY <1>2, <1>4, <1>5

\* A strip with another column at a place of it.
LEMMA PutColumn ==
    ASSUME NEW K \in Kinds, NEW cols \in Seq(K), NEW i \in DOMAIN cols, NEW column \in K
    PROVE  /\ Put(cols, i, column) \in Seq(K)
           /\ AllWindows(Put(cols, i, column))
                 = AllWindows(Before(cols, i)) \o WindowsOf(column) \o AllWindows(After(cols, i))
  <1> DEFINE a == Before(cols, i)
             b == After(cols, i)
  <1>1. Put(cols, i, column) \in Seq(K) /\ Put(cols, i, column) = a \o <<column>> \o b
    BY ReplacedParts
  <1>2. a \in Seq(K) /\ b \in Seq(K)
    BY BeforeAfter
  <1> HIDE DEF a, b
  <1>3. a \in Seq(Cols) /\ b \in Seq(Cols) /\ column \in Cols
    BY <1>2, KindIs
  <1>4. AllWindows(a \o <<column>> \o b) = AllWindows(a) \o WindowsOf(column) \o AllWindows(b)
    BY <1>3, StripParts
  <1> QED
    BY <1>1, <1>4 DEF a, b

\* The windows before and after an item of a strip, which stay when another
\* item takes its place.
ItemBetween(K, cols, i, k, p, q) ==
    /\ AllWindows(cols) = p \o cols[i].items[k].ws \o q
    /\ \A item \in Items :
          LET items == Put(cols[i].items, k, item)
          IN  /\ items \in Seq(Items) \ {<<>>}
              /\ \A column \in K : WindowsOf(column) = InItems(items)
                    => AllWindows(Put(cols, i, column)) = p \o item.ws \o q

\* A strip around one item of one of its columns, and the item replaced.
LEMMA ItemAround ==
    ASSUME NEW K \in Kinds, NEW cols \in Seq(K), NEW i \in DOMAIN cols, NEW k \in DOMAIN cols[i].items
    PROVE  \E p, q \in Seq(Windows) : ItemBetween(K, cols, i, k, p, q)
  <1> DEFINE old == cols[i]
             a == Before(old.items, k)
             b == After(old.items, k)
             P == AllWindows(Before(cols, i))
             Q == AllWindows(After(cols, i))
             u == InItems(a)
             v == InItems(b)
             ws == old.items[k].ws
  <1>1. cols \in Seq(Cols)
    BY KindIs
  <1>2. old \in Cols /\ AllWindows(cols) = P \o WindowsOf(old) \o Q /\ P \in Seq(Windows) /\ Q \in Seq(Windows)
    BY <1>1, StripAround
  <1>10. k \in DOMAIN old.items
    OBVIOUS
  <1> HIDE DEF old, P, Q
  <1>3. /\ a \in Seq(Items) /\ b \in Seq(Items) /\ ws \in Seq(Windows)
        /\ u \in Seq(Windows) /\ v \in Seq(Windows) /\ WindowsOf(old) = u \o ws \o v
    BY <1>2, <1>10, ColumnAround
  <1>4. old.items \in Seq(Items)
    BY <1>2, ColumnOrder
  <1> HIDE DEF ws
  <1>5. ASSUME NEW item \in Items
        PROVE  /\ Put(old.items, k, item) \in Seq(Items) \ {<<>>}
               /\ InItems(Put(old.items, k, item)) = u \o item.ws \o v
               /\ item.ws \in Seq(Windows)
    <2> DEFINE s == old.items
    <2>0. s \in Seq(Items) /\ k \in DOMAIN s
      BY <1>4, <1>10
    <2> HIDE DEF s
    <2>1. Put(s, k, item) \in Seq(Items) /\ Put(s, k, item) = Before(s, k) \o <<item>> \o After(s, k)
      BY <2>0, ReplacedParts
    <2>2. Put(s, k, item) # <<>>
      BY <2>0, <2>1 DEF Put
    <2>3. Put(s, k, item) = a \o <<item>> \o b
      BY <2>1 DEF s
    <2>4. a \in Seq(Loose) /\ b \in Seq(Loose) /\ item \in Loose /\ item.ws \in Seq(Windows)
      <3>1. Items \subseteq Loose /\ \A it \in Items : it.ws \in Seq(Windows)
        BY DEF Items, Loose
      <3> HIDE DEF a, b
      <3> QED
        BY <1>3, <3>1
    <2> HIDE DEF a, b
    <2>5. InItems(a \o <<item>> \o b) = u \o item.ws \o v
      BY <2>4, ItemsParts
    <2> QED
      BY <2>1, <2>2, <2>3, <2>4, <2>5 DEF s
  <1> DEFINE p == P \o u
             q == v \o Q
  <1>6. p \in Seq(Windows) /\ q \in Seq(Windows)
    BY <1>2, <1>3
  <1> HIDE DEF a, b, u, v
  <1>7. \A t \in Seq(Windows) : P \o (u \o t \o v) \o Q = p \o t \o q
    <2>1. \A t \in Seq(Windows) : Nested(P, u, t, v, Q) = Flat(P, u, t, v, Q)
      BY <1>2, <1>3, Regrouped
    <2> QED
      BY <2>1 DEF Nested, Flat
  <1>8. AllWindows(cols) = p \o ws \o q
    BY <1>2, <1>3, <1>7
  <1>9. ASSUME NEW item \in Items, NEW column \in K,
               WindowsOf(column) = InItems(Put(old.items, k, item))
        PROVE  AllWindows(Put(cols, i, column)) = p \o item.ws \o q
    <2>1. AllWindows(Put(cols, i, column)) = P \o WindowsOf(column) \o Q
      BY PutColumn DEF P, Q
    <2> HIDE DEF p, q
    <2> QED
      BY <1>5, <1>7, <1>9, <2>1
  <1> HIDE DEF p, q
  <1> QED
    BY <1>5, <1>6, <1>8, <1>9 DEF ws, old, ItemBetween

\* A window joins the tabs of another.
LEMMA ConvertToTabsIs ==
    ASSUME NEW K \in Kinds, NEW cols \in Seq(K), Orderly(AllWindows(cols)),
           NEW leader \in Windows, NEW follower \in Windows, leader # follower, HasWindow(cols, leader)
    PROVE  /\ ConvertToTabs(cols, leader, follower) \in Seq(K)
           /\ Follows(AllWindows(cols), AllWindows(ConvertToTabs(cols, leader, follower)))
  <1> DEFINE rest == RemoveWindow(cols, follower)
             i == IndexOf(rest, leader)
             k == PositionOf(rest[i], leader)
             item == rest[i].items[k]
             new == Grouped(<<follower>> \o item.ws)
             o == AllWindows(cols)
             r == AllWindows(rest)
             column == Column(Put(rest[i].items, k, new))
             result == Put(rest, i, column)
  <1>1. cols \in Seq(Cols)
    BY KindIs
  <1>2. leader \in ToSet(o)
    BY <1>1, IndexOfIs
  <1>3. /\ rest \in Seq(K) /\ r = Left(o, {follower}) /\ Orderly(r)
        /\ ToSet(r) = ToSet(o) \ {follower}
    BY RemoveWindowIs
  <1>4. leader \in ToSet(r) /\ follower \notin ToSet(r) /\ r \in Seq(Windows)
    BY <1>2, <1>3 DEF Orderly
  <1>5. ConvertToTabs(cols, leader, follower)
            = IF i = 0 THEN rest
              ELSE [rest EXCEPT ![i] = Column([@.items EXCEPT ![k] =
                        IF Contains(item.ws, follower) THEN item ELSE new])]
    BY DEF ConvertToTabs
  <1> HIDE DEF rest
  <1>6. rest \in Seq(Cols)
    BY <1>3, KindIs
  <1>7. i \in DOMAIN rest /\ i # 0 /\ rest[i] \in Cols /\ InColumn(rest[i], leader)
    BY <1>4, <1>6, IndexOfIs
  <1> HIDE DEF i
  <1>8. k \in DOMAIN rest[i].items
    BY <1>7, InColumnIs
  <1> HIDE DEF k
  <1>9. item \in Items /\ item.ws \in Seq(Windows) /\ ToSet(item.ws) \subseteq ToSet(WindowsOf(rest[i]))
    BY <1>7, <1>8, ColumnHolds
  <1>10. ToSet(WindowsOf(rest[i])) \subseteq ToSet(r)
    BY <1>6, <1>7, StripIs
  <1>11. ~Contains(item.ws, follower)
    <2>1. follower \notin ToSet(item.ws)
      BY <1>4, <1>9, <1>10
    <2>2. DOMAIN item.ws = 1 .. Len(item.ws)
      BY <1>9
    <2> QED
      BY <2>1, <2>2 DEF Contains, ToSet
  <1>12. ConvertToTabs(cols, leader, follower) = result
    BY <1>5, <1>7, <1>11 DEF Put
  <1>13. new \in Items /\ new.ws = <<follower>> \o item.ws
    <2> DEFINE ws == <<follower>> \o item.ws
    <2>1. ws \in Seq(Windows) \ {<<>>}
      BY <1>9
    <2> HIDE DEF ws
    <2>2. Grouped(ws) \in Items /\ Grouped(ws).ws = ws
      BY <2>1, Made
    <2> QED
      BY <2>2 DEF ws
  <1> HIDE DEF new
  <1>14. PICK p, q \in Seq(Windows) : ItemBetween(K, rest, i, k, p, q)
    BY <1>3, <1>7, <1>8, ItemAround
  <1> DEFINE items == Put(rest[i].items, k, new)
  <1>15. /\ items \in Seq(Items) \ {<<>>} /\ r = p \o item.ws \o q
         /\ \A c \in K : WindowsOf(c) = InItems(items)
                => AllWindows(Put(rest, i, c)) = p \o new.ws \o q
    BY <1>13, <1>14 DEF ItemBetween
  <1> HIDE DEF items
  <1>16. Column(items) \in K /\ WindowsOf(Column(items)) = InItems(items)
    BY <1>15, KindIs, Made
  <1>17. AllWindows(result) = p \o new.ws \o q
    BY <1>15, <1>16 DEF items
  <1>18. result \in Seq(K)
    BY <1>3, <1>7, <1>16, PutColumn DEF items
  <1> DEFINE g == <<follower>>
             ws == item.ws
             b == ws \o q
  <1>19. g \in Seq(Windows) \ {<<>>} /\ IsInjective(g) /\ ToSet(g) = {follower}
    BY DEF IsInjective, ToSet
  <1>20. ws \in Seq(Windows) /\ b \in Seq(Windows)
    BY <1>9
  <1> HIDE DEF g, ws
  <1>21. p \o b = r /\ p \o (g \o ws) \o q = p \o g \o b
    <2>1. \A x, y \in Seq(Windows) : Both(x, y) \in Seq(Windows)
      BY BothIs
    <2>2. \A x, y, z \in Seq(Windows) : Both(Both(x, y), z) = Both(x, Both(y, z))
      BY BothIs
    <2>3. Both(Both(p, Both(g, ws)), q) = Both(Both(p, g), Both(ws, q))
      BY <1>19, <1>20, <2>1, <2>2
    <2>4. Both(Both(p, ws), q) = Both(p, Both(ws, q))
      BY <1>20, <2>2
    <2> QED
      BY <1>15, <2>3, <2>4 DEF Both, ws
  <1> HIDE DEF b, o, r
  <1>22. Follows(o, p \o g \o b)
    <2>1. Orderly(o) /\ p \o b = Left(o, ToSet(g))
      BY <1>3, <1>19, <1>21 DEF o
    <2> QED
      BY <1>19, <1>20, <2>1, PlacedIs
  <1>23. AllWindows(result) = p \o g \o b
    BY <1>13, <1>17, <1>21 DEF g, ws
  <1> HIDE DEF result
  <1> QED
    BY <1>12, <1>18, <1>22, <1>23 DEF o

------------------------------------------------------------------------------
(* Windows, items and columns trade places *)

\* Two parts in the middle part of a sequence.
Inner(p, a, x, m, y, b, q) == p \o (a \o x \o m \o y \o b) \o q
Outer(p, a, x, m, y, b, q) == (p \o a) \o x \o m \o y \o (b \o q)

\* Two blocks that trade places inside of a larger order.
LEMMA SwappedInside ==
    ASSUME NEW p \in Seq(Windows), NEW a \in Seq(Windows), NEW x \in Seq(Windows) \ {<<>>},
           NEW m \in Seq(Windows), NEW y \in Seq(Windows) \ {<<>>}, NEW b \in Seq(Windows),
           NEW q \in Seq(Windows), Orderly(Inner(p, a, x, m, y, b, q))
    PROVE  Follows(Inner(p, a, x, m, y, b, q), Inner(p, a, y, m, x, b, q))
  <1> DEFINE pa == p \o a
             bq == b \o q
  <1>1. pa \in Seq(Windows) /\ bq \in Seq(Windows)
    OBVIOUS
  <1>2. ASSUME NEW u \in Seq(Windows), NEW v \in Seq(Windows)
        PROVE  Inner(p, a, u, m, v, b, q) = Outer(p, a, u, m, v, b, q)
    <2>1. \A s, t \in Seq(Windows) : Both(s, t) \in Seq(Windows)
      BY BothIs
    <2>2. \A s, t, w \in Seq(Windows) : Both(Both(s, t), w) = Both(s, Both(t, w))
      BY BothIs
    <2>3. Both(p, Both(Both(Both(Both(a, u), m), v), b))
              = Both(Both(Both(Both(Both(p, a), u), m), v), b)
      <3>1. Both(a, u) \in Seq(Windows) /\ Both(Both(a, u), m) \in Seq(Windows) /\ Both(Both(Both(a, u), m), v) \in Seq(Windows)
        BY <2>1
      <3>2. /\ Both(p, Both(a, u)) = Both(Both(p, a), u)
            /\ Both(p, Both(Both(a, u), m)) = Both(Both(p, Both(a, u)), m)
            /\ Both(p, Both(Both(Both(a, u), m), v)) = Both(Both(p, Both(Both(a, u), m)), v)
            /\ Both(p, Both(Both(Both(Both(a, u), m), v), b)) = Both(Both(p, Both(Both(Both(a, u), m), v)), b)
        BY <2>2, <3>1
      <3> QED
        BY <3>2
    <2>4. Both(Both(Both(Both(Both(Both(p, a), u), m), v), b), q)
              = Both(Both(Both(Both(Both(p, a), u), m), v), Both(b, q))
      <3>1. Both(p, a) \in Seq(Windows) /\ Both(Both(p, a), u) \in Seq(Windows)
        BY <2>1
      <3>2. Both(Both(Both(p, a), u), m) \in Seq(Windows)
        BY <2>1, <3>1
      <3>3. Both(Both(Both(Both(p, a), u), m), v) \in Seq(Windows)
        BY <2>1, <3>2
      <3> QED
        BY <2>2, <3>3
    <2> QED
      BY <2>3, <2>4 DEF Both, Inner, Outer
  <1>3. /\ Inner(p, a, x, m, y, b, q) = pa \o x \o m \o y \o bq
        /\ Inner(p, a, y, m, x, b, q) = pa \o y \o m \o x \o bq
    <2>1. x \in Seq(Windows) /\ y \in Seq(Windows)
      OBVIOUS
    <2>2. /\ Inner(p, a, x, m, y, b, q) = Outer(p, a, x, m, y, b, q)
          /\ Inner(p, a, y, m, x, b, q) = Outer(p, a, y, m, x, b, q)
      BY <1>2, <2>1
    <2> QED
      BY <2>2 DEF Outer
  <1> HIDE DEF pa, bq
  <1>4. Orderly(pa \o x \o m \o y \o bq)
    BY <1>3
  <1>5. Follows(pa \o x \o m \o y \o bq, pa \o y \o m \o x \o bq)
    BY <1>1, <1>4, SwappedIs
  <1> QED
    BY <1>3, <1>5

\* The first of the tabs trades places with another.
LEMMA MoveToFrontIs ==
    ASSUME NEW K \in Kinds, NEW cols \in Seq(K), Orderly(AllWindows(cols)), NEW w
    PROVE  /\ MoveToFront(cols, w) \in Seq(K)
           /\ Follows(AllWindows(cols), AllWindows(MoveToFront(cols, w)))
  <1> DEFINE i == IndexOf(cols, w)
             k == PositionOf(cols[i], w)
             item == cols[i].items[k]
             ws == item.ws
             at == {n \in DOMAIN ws : ws[n] = w}
             j == FirstAt(at)
             new == [item EXCEPT !.ws = Exchange(ws, 1, j)]
             items == Put(cols[i].items, k, new)
             column == [cols[i] EXCEPT !.items = items]
             result == Put(cols, i, column)
             o == AllWindows(cols)
  <1>1. cols \in Seq(Cols)
    BY KindIs
  <1>2. MoveToFront(cols, w) = IF i = 0 THEN cols ELSE result
    BY DEF MoveToFront, Put
  <1>3. i # 0 => i \in DOMAIN cols /\ cols[i] \in Cols /\ InColumn(cols[i], w) /\ cols[i] \in K
    BY <1>1, IndexOfIs
  <1> HIDE DEF i
  <1>4. CASE i = 0
    BY <1>2, <1>4, StaysIs
  <1>5. CASE i # 0
    <2>1. k \in DOMAIN cols[i].items /\ w \in ToSet(ws)
      BY <1>3, <1>5, InColumnIs
    <2> HIDE DEF k
    <2>2. item \in Items /\ item.ws \in Seq(Windows) \ {<<>>} /\ cols[i].items \in Seq(Items)
      BY <1>3, <1>5, <2>1, ColumnHolds, ColumnOrder
    <2> DEFINE ilist == cols[i].items
    <2>20. ws \in Seq(Windows) \ {<<>>} /\ ilist \in Seq(Items) /\ k \in DOMAIN ilist /\ item = ilist[k]
      BY <2>1, <2>2
    <2>21. item = [tabs |-> item.tabs, ws |-> ws] /\ item.tabs \in BOOLEAN /\ (~item.tabs => Len(ws) = 1)
      BY <2>2 DEF Items, Loose
    <2>22. new = [tabs |-> item.tabs, ws |-> Exchange(ws, 1, j)]
      BY <2>21
    <2> HIDE DEF ws, item, ilist, new
    <2>3. j \in DOMAIN ws /\ ws[j] = w /\ 1 \in DOMAIN ws /\ 1 <= j /\ j \in Nat
      <3>1. DOMAIN ws = 1 .. Len(ws) /\ Len(ws) \in Nat \ {0}
        BY <2>20
      <3>2. at \in SUBSET (Nat \ {0}) /\ at # {}
        BY <2>1, <3>1 DEF ToSet
      <3> HIDE DEF at
      <3>3. FirstAt(at) \in at
        BY <3>2, FirstIs
      <3> QED
        BY <3>1, <3>3 DEF at
    <2> HIDE DEF j
    <2>4. PICK p, q \in Seq(Windows) : ItemBetween(K, cols, i, k, p, q)
      BY <1>3, <1>5, <2>1, ItemAround
    <2>5. CASE j = 1
      <3>1. Exchange(ws, 1, j) = ws
        BY <2>20, <2>5 DEF Exchange
      <3>2. new = item
        BY <2>21, <2>22, <3>1
      <3>3. items = cols[i].items
        <4>1. Put(ilist, k, new) = ilist
          BY <2>20, <3>2 DEF Put
        <4> QED
          BY <4>1 DEF ilist
      <3>4. column = cols[i]
        <4>1. cols[i] \in [full : BOOLEAN, items : Seq(Items)]
          BY <1>3, <1>5 DEF Cols
        <4> QED
          BY <3>3, <4>1
      <3>5. result = cols
        BY <1>3, <1>5, <3>4 DEF Put
      <3> QED
        BY <1>2, <1>5, <3>5, StaysIs
    <2>6. CASE j # 1
      <3> DEFINE s == ws
                 t == Exchange(ws, 1, j)
      <3>1. s \in Seq(Windows) /\ 1 \in DOMAIN s /\ j \in DOMAIN s /\ 1 < j
        BY <2>20, <2>3, <2>6
      <3>2. t = Exchanged(s, 1, j)
        BY DEF Exchange, Exchanged
      <3> HIDE DEF s, t
      <3>3. /\ t \in Seq(Windows)
            /\ \E a, m, b \in Seq(Windows) : /\ PartedAt(s, a, s[1], m, s[j], b)
                                             /\ PartedAt(t, a, s[j], m, s[1], b)
        <4>1. \A u \in Seq(Windows) : \A n, l \in DOMAIN u : n < l =>
                  /\ Exchanged(u, n, l) \in Seq(Windows)
                  /\ \E a, m, b \in Seq(Windows) : /\ PartedAt(u, a, u[n], m, u[l], b)
                                                   /\ PartedAt(Exchanged(u, n, l), a, u[l], m, u[n], b)
          BY ExchangedParts
        <4> QED
          BY <3>1, <3>2, <4>1
      <3>4. PICK a, m, b \in Seq(Windows) : /\ PartedAt(s, a, s[1], m, s[j], b)
                                            /\ PartedAt(t, a, s[j], m, s[1], b)
        BY <3>3
      <3> DEFINE x == <<s[1]>>
                 y == <<s[j]>>
      <3>5. x \in Seq(Windows) \ {<<>>} /\ y \in Seq(Windows) \ {<<>>}
        BY <3>1
      <3> HIDE DEF x, y
      <3>6. Len(t) = Len(s)
        BY <3>1, <3>2 DEF Exchanged
      <3>7. new \in Items /\ new.ws = t
        <4>1. item.tabs \in BOOLEAN /\ (~item.tabs => Len(s) = 1)
          BY <2>21 DEF s
        <4>2. new = [tabs |-> item.tabs, ws |-> t]
          BY <2>22 DEF t
        <4>3. t # <<>> /\ Len(t) = Len(s)
          BY <3>1, <3>6
        <4>4. [tabs |-> item.tabs, ws |-> t] \in Loose
          BY <3>3, <4>1 DEF Loose
        <4> QED
          BY <4>1, <4>2, <4>3, <4>4 DEF Items
      <3>8. /\ items \in Seq(Items) \ {<<>>} /\ o = p \o s \o q
            /\ \A c \in K : WindowsOf(c) = InItems(items)
                   => AllWindows(Put(cols, i, c)) = p \o t \o q
        BY <2>4, <3>7 DEF ItemBetween, s, ws, item
      <3>9. column = Column(items)
        <4>1. /\ cols[i] \in [full : BOOLEAN, items : Seq(Items)]
              /\ cols[i].full => cols[i].items = <<Alone(TopOf(cols[i]))>>
          BY <1>3, <1>5 DEF Cols
        <4>2. ~cols[i].full
          <5> SUFFICES ASSUME cols[i].full PROVE FALSE
            OBVIOUS
          <5>1. cols[i].items = <<Alone(TopOf(cols[i]))>>
            BY <4>1
          <5>2. item = Alone(TopOf(cols[i]))
            BY <2>1, <5>1 DEF item
          <5>3. Len(s) = 1
            BY <5>2 DEF Alone, s, ws
          <5> QED
            BY <3>1, <5>3
        <4>3. cols[i] = [full |-> cols[i].full, items |-> cols[i].items] /\ cols[i].full = FALSE
          BY <4>1, <4>2
        <4> DEFINE old == cols[i]
        <4>4. old = [full |-> FALSE, items |-> cols[i].items] /\ column = [old EXCEPT !.items = items]
          BY <4>3
        <4> HIDE DEF items, old, column
        <4>5. column = [full |-> FALSE, items |-> items]
          BY <4>4
        <4> QED
          BY <4>5 DEF Column
      <3> HIDE DEF items, column
      <3>10. column \in K /\ WindowsOf(column) = InItems(items)
        BY <3>8, <3>9, KindIs, Made
      <3>11. AllWindows(result) = p \o t \o q /\ result \in Seq(K)
        BY <1>3, <1>5, <3>8, <3>10, PutColumn
      <3>12. o = Inner(p, a, x, m, y, b, q) /\ p \o t \o q = Inner(p, a, y, m, x, b, q)
        BY <3>4, <3>8 DEF x, y, Inner, PartedAt
      <3> HIDE DEF o, result
      <3>13. Follows(o, p \o t \o q)
        BY <3>5, <3>12, SwappedInside DEF o
      <3> QED
        BY <1>2, <1>5, <3>11, <3>13 DEF o
    <2> QED
      BY <2>5, <2>6
  <1> QED
    BY <1>4, <1>5

\* Parts of strips and columns around two places.
Five(a, x, m, y, b) == a \o x \o m \o y \o b

\* The windows of a strip around two of its columns.
LEMMA ColumnsParted ==
    ASSUME NEW K \in Kinds, NEW cols \in Seq(K), NEW a \in Seq(K), NEW x \in K, NEW m \in Seq(K),
           NEW y \in K, NEW b \in Seq(K), PartedAt(cols, a, x, m, y, b)
    PROVE  AllWindows(cols) = Five(AllWindows(a), WindowsOf(x), AllWindows(m), WindowsOf(y), AllWindows(b))
  <1>1. /\ a \in Seq(Cols) /\ m \in Seq(Cols) /\ b \in Seq(Cols) /\ x \in Cols /\ y \in Cols
    BY KindIs
  <1> DEFINE left == a \o <<x>> \o m
  <1>2. left \in Seq(Cols) /\ AllWindows(left) = AllWindows(a) \o WindowsOf(x) \o AllWindows(m)
    BY <1>1, StripParts
  <1>3. cols = left \o <<y>> \o b
    BY DEF PartedAt
  <1> HIDE DEF left
  <1>4. AllWindows(left \o <<y>> \o b) = AllWindows(left) \o WindowsOf(y) \o AllWindows(b)
    BY <1>1, <1>2, StripParts
  <1> QED
    BY <1>2, <1>3, <1>4 DEF Five

\* The windows of items around two of them.
LEMMA ItemsParted ==
    ASSUME NEW items \in Seq(Items), NEW a \in Seq(Items), NEW x \in Items, NEW m \in Seq(Items),
           NEW y \in Items, NEW b \in Seq(Items), PartedAt(items, a, x, m, y, b)
    PROVE  /\ InItems(items) = Five(InItems(a), x.ws, InItems(m), y.ws, InItems(b))
           /\ InItems(a) \in Seq(Windows) /\ InItems(m) \in Seq(Windows) /\ InItems(b) \in Seq(Windows)
           /\ x.ws \in Seq(Windows) \ {<<>>} /\ y.ws \in Seq(Windows) \ {<<>>}
  <1>1. /\ a \in Seq(Loose) /\ m \in Seq(Loose) /\ b \in Seq(Loose) /\ x \in Loose /\ y \in Loose
        /\ x.ws \in Seq(Windows) \ {<<>>} /\ y.ws \in Seq(Windows) \ {<<>>}
    <2>1. Items \subseteq Loose /\ \A it \in Items : it.ws \in Seq(Windows) \ {<<>>}
      BY DEF Items, Loose
    <2> QED
      BY <2>1
  <1> DEFINE left == a \o <<x>> \o m
  <1>6. InItems(left) = InItems(a) \o x.ws \o InItems(m)
    BY <1>1, ItemsParts
  <1>7. left \in Seq(Loose)
    BY <1>1
  <1>3. items = left \o <<y>> \o b
    BY DEF PartedAt
  <1> HIDE DEF left
  <1>4. InItems(left \o <<y>> \o b) = InItems(left) \o y.ws \o InItems(b)
    BY <1>1, <1>7, ItemsParts
  <1>5. InItems(a) \in Seq(Windows) /\ InItems(m) \in Seq(Windows) /\ InItems(b) \in Seq(Windows)
    BY <1>1, ItemsOrder
  <1> QED
    BY <1>1, <1>3, <1>4, <1>5, <1>6 DEF Five

\* Two columns trade places, the one named first coming first.
LEMMA ColumnsSwap ==
    ASSUME NEW K \in Kinds, NEW cols \in Seq(K), Orderly(AllWindows(cols)),
           NEW i \in DOMAIN cols, NEW j \in DOMAIN cols, i < j
    PROVE  Exchanged(cols, i, j) \in Seq(K) /\ Follows(AllWindows(cols), AllWindows(Exchanged(cols, i, j)))
  <1>1. /\ Exchanged(cols, i, j) \in Seq(K) /\ cols[i] \in K /\ cols[j] \in K
        /\ \E a, m, b \in Seq(K) : /\ PartedAt(cols, a, cols[i], m, cols[j], b)
                                   /\ PartedAt(Exchanged(cols, i, j), a, cols[j], m, cols[i], b)
    BY ExchangedParts
  <1> DEFINE new == Exchanged(cols, i, j)
             x == cols[i]
             y == cols[j]
  <1> HIDE DEF new, x, y
  <1>2. PICK a, m, b \in Seq(K) : PartedAt(cols, a, x, m, y, b) /\ PartedAt(new, a, y, m, x, b)
    BY <1>1 DEF new, x, y
  <1>3. x \in K /\ y \in K /\ new \in Seq(K) /\ x \in Cols /\ y \in Cols
    BY <1>1, KindIs DEF x, y, new
  <1> DEFINE A == AllWindows(a)
             X == WindowsOf(x)
             M == AllWindows(m)
             Y == WindowsOf(y)
             B == AllWindows(b)
  <1>4. AllWindows(cols) = Five(A, X, M, Y, B) /\ AllWindows(new) = Five(A, Y, M, X, B)
    BY <1>2, <1>3, ColumnsParted
  <1>5. /\ A \in Seq(Windows) /\ M \in Seq(Windows) /\ B \in Seq(Windows)
        /\ X \in Seq(Windows) \ {<<>>} /\ Y \in Seq(Windows) \ {<<>>}
    <2>1. a \in Seq(Cols) /\ m \in Seq(Cols) /\ b \in Seq(Cols)
      BY KindIs
    <2>2. A \in Seq(Windows) /\ M \in Seq(Windows) /\ B \in Seq(Windows)
      BY <2>1, StripIs
    <2>3. X \in Seq(Windows) /\ Y \in Seq(Windows) /\ X # <<>> /\ Y # <<>>
      BY <1>3, ColumnOrder, ColumnHolds
    <2> QED
      BY <2>2, <2>3
  <1> HIDE DEF A, X, M, Y, B
  <1>6. Follows(A \o X \o M \o Y \o B, A \o Y \o M \o X \o B)
    <2>1. Orderly(A \o X \o M \o Y \o B)
      BY <1>4 DEF Five
    <2> QED
      BY <1>5, <2>1, SwappedIs
  <1> QED
    BY <1>3, <1>4, <1>6 DEF new, Five

\* Two columns trade places, whichever is named first.
LEMMA ExchangeIs ==
    ASSUME NEW K \in Kinds, NEW cols \in Seq(K), Orderly(AllWindows(cols)),
           NEW i \in DOMAIN cols, NEW j \in DOMAIN cols
    PROVE  Exchange(cols, i, j) \in Seq(K) /\ Follows(AllWindows(cols), AllWindows(Exchange(cols, i, j)))
  <1>1. i \in Nat /\ j \in Nat
    OBVIOUS
  <1>2. CASE i = j
    <2>1. Exchange(cols, i, j) = cols
      BY <1>2 DEF Exchange
    <2> QED
      BY <2>1, StaysIs
  <1>3. CASE i < j
    <2>1. Exchange(cols, i, j) = Exchanged(cols, i, j)
      BY DEF Exchange, Exchanged
    <2> QED
      BY <1>3, <2>1, ColumnsSwap
  <1>4. CASE j < i
    <2>1. Exchange(cols, i, j) = Exchanged(cols, j, i)
      BY <1>4 DEF Exchange, Exchanged
    <2> QED
      BY <1>4, <2>1, ColumnsSwap
  <1> QED
    BY <1>1, <1>2, <1>3, <1>4

\* Two items of a stack trade places.
LEMMA ItemsSwap ==
    ASSUME NEW K \in Kinds, NEW cols \in Seq(K), Orderly(AllWindows(cols)), NEW i \in DOMAIN cols,
           IsStack(cols[i]), NEW k \in DOMAIN cols[i].items, NEW l \in DOMAIN cols[i].items, k < l
    PROVE  LET new == Put(cols, i, [cols[i] EXCEPT !.items = Exchanged(@, k, l)])
           IN  new \in Seq(K) /\ Follows(AllWindows(cols), AllWindows(new))
  <1> DEFINE old == cols[i]
             items == old.items
             after == Exchanged(items, k, l)
             column == [old EXCEPT !.items = after]
             new == Put(cols, i, column)
  <1>1. cols \in Seq(Cols) /\ old \in Cols /\ old \in K
    BY KindIs
  <1>2. items \in Seq(Items) /\ k \in DOMAIN items /\ l \in DOMAIN items /\ Len(items) > 1
    BY <1>1, ColumnOrder DEF IsStack
  <1>3. old.full = FALSE /\ old \in [full : BOOLEAN, items : Seq(Items)]
    <2>1. /\ old \in [full : BOOLEAN, items : Seq(Items)]
          /\ old.full => items = <<Alone(TopOf(old))>>
      BY <1>1 DEF Cols
    <2> HIDE DEF old
    <2>2. ~old.full
      BY <1>2, <2>1
    <2> QED
      BY <2>1, <2>2
  <1>4. column = Column(after)
    <2>1. old = [full |-> FALSE, items |-> items]
      BY <1>3
    <2>3. column = [old EXCEPT !.items = after]
      OBVIOUS
    <2> HIDE DEF old, items, after, column
    <2>2. column = [full |-> FALSE, items |-> after]
      BY <2>1, <2>3
    <2> QED
      BY <2>2 DEF Column
  <1> HIDE DEF items
  <1>5. /\ after \in Seq(Items) /\ items[k] \in Items /\ items[l] \in Items
        /\ \E a, m, b \in Seq(Items) : /\ PartedAt(items, a, items[k], m, items[l], b)
                                       /\ PartedAt(after, a, items[l], m, items[k], b)
    BY <1>2, ExchangedParts
  <1>6. after # <<>>
    BY <1>2 DEF Exchanged
  <1> DEFINE x == items[k]
             y == items[l]
  <1> HIDE DEF x, y, after, column
  <1>7. PICK a, m, b \in Seq(Items) : PartedAt(items, a, x, m, y, b) /\ PartedAt(after, a, y, m, x, b)
    BY <1>5 DEF x, y
  <1>8. x \in Items /\ y \in Items
    BY <1>5 DEF x, y
  <1> DEFINE A == InItems(a)
             M == InItems(m)
             B == InItems(b)
             X == x.ws
             Y == y.ws
             P == AllWindows(Before(cols, i))
             Q == AllWindows(After(cols, i))
  <1>9. /\ InItems(items) = Five(A, X, M, Y, B) /\ InItems(after) = Five(A, Y, M, X, B)
        /\ A \in Seq(Windows) /\ M \in Seq(Windows) /\ B \in Seq(Windows)
        /\ X \in Seq(Windows) \ {<<>>} /\ Y \in Seq(Windows) \ {<<>>}
    <2>1. /\ InItems(items) = Five(A, X, M, Y, B)
          /\ A \in Seq(Windows) /\ M \in Seq(Windows) /\ B \in Seq(Windows)
          /\ X \in Seq(Windows) \ {<<>>} /\ Y \in Seq(Windows) \ {<<>>}
      BY <1>2, <1>7, <1>8, ItemsParted
    <2>2. InItems(after) = Five(A, Y, M, X, B)
      BY <1>5, <1>7, <1>8, ItemsParted
    <2> QED
      BY <2>1, <2>2
  <1>10. column \in K /\ WindowsOf(column) = InItems(after)
    BY <1>4, <1>5, <1>6, KindIs, Made
  <1>11. WindowsOf(old) = InItems(items)
    BY <1>1, ColumnOrder DEF items
  <1>12. AllWindows(cols) = P \o WindowsOf(old) \o Q /\ P \in Seq(Windows) /\ Q \in Seq(Windows)
    BY <1>1, StripAround
  <1>13. new \in Seq(K) /\ AllWindows(new) = P \o WindowsOf(column) \o Q
    BY <1>10, PutColumn
  <1> HIDE DEF A, M, B, X, Y, P, Q, old, new
  <1>14. /\ AllWindows(cols) = Inner(P, A, X, M, Y, B, Q)
         /\ AllWindows(new) = Inner(P, A, Y, M, X, B, Q)
    BY <1>9, <1>10, <1>11, <1>12, <1>13 DEF Inner, Five
  <1>15. Follows(AllWindows(cols), AllWindows(new))
    BY <1>9, <1>12, <1>14, SwappedInside
  <1> QED
    BY <1>13, <1>15 DEF new, column, after, items, old

------------------------------------------------------------------------------
(* Columns travel, are merged and split *)

\* A column that travels is a block that moves.
LEMMA ShiftColumnIs ==
    ASSUME NEW K \in Kinds, NEW cols \in Seq(K), Orderly(AllWindows(cols)),
           NEW i \in DOMAIN cols, NEW j \in DOMAIN cols
    PROVE  /\ ShiftColumn(cols, i, j) \in Seq(K)
           /\ Follows(AllWindows(cols), AllWindows(ShiftColumn(cols, i, j)))
  <1> DEFINE rest == RemoveAt(cols, i)
             c == cols[i]
             P == AllWindows(Before(cols, i))
             Q == AllWindows(After(cols, i))
             g == WindowsOf(c)
             a == SubSeq(rest, 1, j - 1)
             b == SubSeq(rest, (j - 1) + 1, Len(rest))
             new == a \o <<c>> \o b
  <1>1. cols \in Seq(Cols) /\ c \in Cols /\ c \in K
    BY KindIs
  <1>2. rest \in Seq(K) /\ Len(rest) = Len(cols) - 1 /\ rest = Both(Before(cols, i), After(cols, i))
    BY RemoveAtIn DEF RemoveAt, Both, Before, After
  <1>3. AllWindows(cols) = P \o g \o Q /\ P \in Seq(Windows) /\ Q \in Seq(Windows)
    BY <1>1, StripAround
  <1>4. AllWindows(rest) = P \o Q
    <2>1. Before(cols, i) \in Seq(Cols) /\ After(cols, i) \in Seq(Cols)
      BY <1>1, StripAround
    <2> DEFINE s == Before(cols, i)
               t == After(cols, i)
    <2> HIDE DEF s, t
    <2>2. AllWindows(s \o t) = AllWindows(s) \o AllWindows(t)
      BY <2>1, StripParts DEF s, t
    <2> QED
      BY <1>2, <2>2 DEF s, t, Both
  <1>5. g \in Seq(Windows) \ {<<>>}
    <2>1. g \in Seq(Windows) /\ g # <<>>
      BY <1>1, ColumnOrder, ColumnHolds
    <2> QED
      BY <2>1
  <1>6. ShiftColumn(cols, i, j) = new
    BY DEF ShiftColumn, Splice
  <1>7. j \in 1 .. Len(rest) + 1
    <2>1. j \in 1 .. Len(cols) /\ Len(cols) \in Nat
      OBVIOUS
    <2> HIDE DEF rest
    <2> QED
      BY <1>2, <2>1
  <1> HIDE DEF rest, c
  <1>8. a \in Seq(K) /\ b \in Seq(K) /\ Both(a, b) = rest
    BY <1>2, <1>7, SplitAt
  <1> HIDE DEF a, b, P, Q, g
  <1>9. a \in Seq(Cols) /\ b \in Seq(Cols) /\ new \in Seq(K)
    BY <1>1, <1>8, KindIs
  <1>10. AllWindows(new) = AllWindows(a) \o g \o AllWindows(b)
    BY <1>1, <1>9, StripParts DEF g
  <1>11. AllWindows(a) \o AllWindows(b) = P \o Q
    <2>1. AllWindows(a \o b) = AllWindows(a) \o AllWindows(b)
      BY <1>9, StripParts
    <2> QED
      BY <1>4, <1>8, <2>1 DEF Both
  <1>12. AllWindows(a) \in Seq(Windows) /\ AllWindows(b) \in Seq(Windows)
    BY <1>9, StripIs
  <1>13. Follows(P \o g \o Q, AllWindows(a) \o g \o AllWindows(b))
    <2>1. Orderly(P \o g \o Q)
      BY <1>3
    <2> QED
      BY <1>3, <1>5, <1>11, <1>12, <2>1, MovedIs
  <1> QED
    BY <1>3, <1>6, <1>9, <1>10, <1>13

\* An item leaves its stack for a column of its own.
LEMMA UnstackWindowIs ==
    ASSUME NEW K \in Kinds, NEW cols \in Seq(K), Orderly(AllWindows(cols)), NEW w
    PROVE  /\ UnstackWindow(cols, w) \in Seq(K)
           /\ Follows(AllWindows(cols), AllWindows(UnstackWindow(cols, w)))
  <1> DEFINE i == IndexOf(cols, w)
             old == cols[i]
             items == old.items
             k == PositionOf(old, w)
             left == Column(RemoveAt(items, k))
             out == Column(<<items[k]>>)
             new == <<left, out>>
  <1>1. cols \in Seq(Cols)
    BY KindIs
  <1>2. UnstackWindow(cols, w) = IF i = 0 \/ ~IsStack(old) THEN cols ELSE Splice(cols, i, i, new)
    BY DEF UnstackWindow
  <1>3. i # 0 => i \in DOMAIN cols /\ old \in Cols /\ InColumn(old, w)
    BY <1>1, IndexOfIs
  <1> HIDE DEF i
  <1>4. CASE i = 0 \/ ~IsStack(old)
    BY <1>2, <1>4, StaysIs
  <1>5. CASE i # 0 /\ IsStack(old)
    <2>1. i \in DOMAIN cols /\ old \in Cols /\ InColumn(old, w)
      BY <1>3, <1>5
    <2> HIDE DEF old
    <2>2. k \in DOMAIN items /\ items \in Seq(Items) /\ Len(items) > 1
      BY <1>5, <2>1, InColumnIs, ColumnOrder DEF IsStack
    <2> HIDE DEF k
    <2> DEFINE a == Before(items, k)
               b == After(items, k)
               item == items[k]
               u == InItems(a)
               v == InItems(b)
               ws == item.ws
               P == AllWindows(Before(cols, i))
               Q == AllWindows(After(cols, i))
    <2>3. /\ a \in Seq(Items) /\ b \in Seq(Items) /\ item \in Items /\ ws \in Seq(Windows)
          /\ u \in Seq(Windows) /\ v \in Seq(Windows) /\ WindowsOf(old) = u \o ws \o v
      BY <2>1, <2>2, ColumnAround
    <2>4. ws # <<>>
      BY <2>3 DEF Items
    <2>5. AllWindows(cols) = P \o WindowsOf(old) \o Q /\ P \in Seq(Windows) /\ Q \in Seq(Windows)
      BY <1>1, <2>1, StripAround DEF old
    <2> DEFINE some == RemoveAt(items, k)
    <2>6. some = Both(a, b) /\ some \in Seq(Items) /\ some # <<>>
      <3>1. some = Both(a, b)
        BY DEF RemoveAt, Both, Before, After
      <3> DEFINE s == items
      <3>2. s \in Seq(Items) /\ k \in DOMAIN s /\ Len(s) > 1
        BY <2>2
      <3> HIDE DEF s
      <3>3. RemoveAt(s, k) \in Seq(Items) /\ Len(RemoveAt(s, k)) = Len(s) - 1
        BY <3>2, RemoveAtIn
      <3>4. RemoveAt(s, k) # <<>>
        BY <3>2, <3>3
      <3> QED
        BY <3>1, <3>3, <3>4 DEF s
    <2> HIDE DEF some, a, b, item
    <2>7. InItems(some) = u \o v
      <3>1. a \in Seq(Loose) /\ b \in Seq(Loose)
        BY <2>3 DEF Items
      <3>2. InItems(a \o b) = u \o v
        BY <3>1, ItemsParts
      <3> QED
        BY <2>6, <3>2 DEF Both
    <2>8. left \in K /\ left \in Cols /\ WindowsOf(left) = u \o v
      <3>1. Column(some) \in K /\ Column(some) \in Cols /\ WindowsOf(Column(some)) = InItems(some)
        BY <2>6, KindIs, Made
      <3> QED
        BY <2>7, <3>1 DEF some
    <2>9. out \in K /\ out \in Cols /\ WindowsOf(out) = ws
      <3>1. Column(<<item>>) \in K /\ Column(<<item>>) \in Cols /\ WindowsOf(Column(<<item>>)) = item.ws
        BY <2>3, KindIs, Made
      <3> QED
        BY <3>1 DEF item
    <2> HIDE DEF left, out
    <2>10. new \in Seq(K) /\ AllWindows(new) = (u \o v) \o ws
      <3> DEFINE s == <<left>>
                 t == <<out>>
      <3>1. s \in Seq(Cols) /\ t \in Seq(Cols) /\ AllWindows(s) = u \o v /\ AllWindows(t) = ws
        BY <2>8, <2>9, OneColumn
      <3>4. new \in Seq(K)
        BY <2>8, <2>9
      <3>2. new = s \o t
        BY <2>8, <2>9, TwoMembers DEF Both
      <3> HIDE DEF s, t, new
      <3>3. AllWindows(s \o t) = AllWindows(s) \o AllWindows(t)
        BY <3>1, StripParts
      <3> QED
        BY <3>1, <3>2, <3>3, <3>4
    <2> HIDE DEF new
    <2>11. /\ Splice(cols, i, i, new) \in Seq(K)
           /\ AllWindows(Splice(cols, i, i, new)) = P \o ((u \o v) \o ws) \o Q
      BY <2>1, <2>10, SplicedIs
    <2> HIDE DEF u, v, ws, P, Q
    <2>12. Follows(AllWindows(cols), P \o ((u \o v) \o ws) \o Q)
      <3> DEFINE p == Both(P, u)
                 q == Both(v, Q)
                 r == Both(P, Both(u, v))
      <3>1. \A x, y \in Seq(Windows) : Both(x, y) \in Seq(Windows)
        BY BothIs
      <3>2. \A x, y, z \in Seq(Windows) : Both(Both(x, y), z) = Both(x, Both(y, z))
        BY BothIs
      <3>3. p \in Seq(Windows) /\ q \in Seq(Windows) /\ r \in Seq(Windows)
        BY <2>3, <2>5, <3>1
      <3>4. Both(r, Q) = Both(p, q)
        BY <2>3, <2>5, <3>1, <3>2
      <3>5. Both(Both(P, Both(Both(u, ws), v)), Q) = Both(Both(p, ws), q)
        <4>1. Both(P, Both(Both(u, ws), v)) = Both(Both(Both(P, u), ws), v)
          BY <2>3, <2>5, <3>1, <3>2
        <4> QED
          BY <2>3, <2>5, <3>1, <3>2, <4>1
      <3>6. Both(Both(P, Both(Both(u, v), ws)), Q) = Both(Both(r, ws), Q)
        BY <2>3, <2>5, <3>1, <3>2
      <3>7. AllWindows(cols) = p \o ws \o q
        BY <2>3, <2>5, <3>5 DEF Both
      <3> HIDE DEF p, q, r
      <3>8. Follows(p \o ws \o q, r \o ws \o Q)
        <4>1. r \o Q = p \o q
          BY <3>4 DEF Both
        <4>2. Orderly(p \o ws \o q)
          BY <3>7
        <4> QED
          BY <2>3, <2>4, <2>5, <3>3, <4>1, <4>2, MovedIs
      <3>9. r \o ws \o Q = P \o ((u \o v) \o ws) \o Q
        BY <3>6 DEF Both
      <3> QED
        BY <3>7, <3>8, <3>9
    <2> QED
      BY <1>2, <1>5, <2>11, <2>12
  <1> QED
    BY <1>4, <1>5

\* Two neighbours in a strip.
LEMMA TwoColumns ==
    ASSUME NEW K \in Kinds, NEW cols \in Seq(K), NEW i \in DOMAIN cols, i > 1, NEW new \in Seq(K)
    PROVE  \E a, b \in Seq(K) :
               /\ Splice(cols, i - 1, i, new) = Chain(a, new, b)
               /\ cols = Chain(a, <<cols[i - 1], cols[i]>>, b)
               /\ cols[i - 1] \in K /\ cols[i] \in K
  <1> DEFINE m == SubSeq(cols, i - 1, i)
             a == SubSeq(cols, 1, (i - 1) - 1)
             b == SubSeq(cols, i + 1, Len(cols))
             two == <<cols[i - 1], cols[i]>>
  <1>1. /\ i \in 1 .. Len(cols) /\ Len(cols) \in Nat /\ i - 1 \in 1 .. Len(cols)
        /\ cols[i - 1] \in K /\ cols[i] \in K
    OBVIOUS
  <1>2. a \in Seq(K) /\ m \in Seq(K) /\ b \in Seq(K) /\ cols = a \o m \o b
    <2> DEFINE n == i - 1
    <2>1. n \in Nat \ {0} /\ i \in Nat /\ n <= i + 1 /\ i <= Len(cols)
      BY <1>1
    <2> HIDE DEF n
    <2>2. /\ SubSeq(cols, 1, n - 1) \in Seq(K) /\ SubSeq(cols, n, i) \in Seq(K) /\ b \in Seq(K)
          /\ cols = SubSeq(cols, 1, n - 1) \o SubSeq(cols, n, i) \o b
      BY <2>1, InParts
    <2> QED
      BY <2>2 DEF n
  <1>3. m = two
    <2> DEFINE n == i - 1
    <2>4. n \in 1 .. Len(cols) /\ n + 1 = i /\ i \in 1 .. Len(cols)
      BY <1>1
    <2> HIDE DEF n
    <2>5. /\ SubSeq(cols, n, n + 1) \in Seq(K) /\ Len(SubSeq(cols, n, n + 1)) = 2
          /\ SubSeq(cols, n, n + 1)[1] = cols[n] /\ SubSeq(cols, n, n + 1)[2] = cols[n + 1]
      BY <2>4
    <2>1. m \in Seq(K) /\ Len(m) = 2 /\ m[1] = cols[i - 1] /\ m[2] = cols[i]
      BY <2>4, <2>5 DEF n
    <2>2. two \in Seq(K) /\ Len(two) = 2 /\ two[1] = cols[i - 1] /\ two[2] = cols[i]
      BY <1>1
    <2> HIDE DEF m, two
    <2>3. \A l \in 1 .. Len(m) : m[l] = two[l]
      BY <2>1, <2>2
    <2> QED
      BY <2>1, <2>2, <2>3, SeqEqual
  <1>4. Splice(cols, i - 1, i, new) = a \o new \o b
    BY DEF Splice
  <1> HIDE DEF a, m, b, two
  <1>5. Splice(cols, i - 1, i, new) = Chain(a, new, b) /\ cols = Chain(a, two, b)
    BY <1>2, <1>3, <1>4 DEF Chain
  <1> QED
    BY <1>1, <1>2, <1>5 DEF two

\* A strip without columns has no windows.
LEMMA NoColumns == <<>> \in Seq(Cols) /\ AllWindows(<<>>) = <<>>
  <1>1. <<>> \in Seq(Cols)
    OBVIOUS
  <1> QED
    BY <1>1, StripIs, MappedNone

\* A column joins its left neighbour.  A full-screen column on either side is
\* lost: the windows that stay keep their order.
LEMMA StackWindowIs ==
    ASSUME NEW cols \in Seq(Cols), Orderly(AllWindows(cols)), NEW w
    PROVE  /\ StackWindow(cols, w) \in Seq(Cols) /\ Orderly(AllWindows(StackWindow(cols, w)))
           /\ cols \in Seq(Ordinary) => /\ StackWindow(cols, w) \in Seq(Ordinary)
                                        /\ AllWindows(StackWindow(cols, w)) = AllWindows(cols)
  <1> DEFINE i == IndexOf(cols, w)
             x == cols[i - 1]
             y == cols[i]
  <1>0. Cols \in Kinds /\ Ordinary \in Kinds
    BY DEF Kinds
  <1>1. i = 0 \/ i \in DOMAIN cols
    BY IndexOfIs
  <1>2. StackWindow(cols, w) =
            CASE i \in {0, 1} -> cols
              [] i > 1 /\ y.full -> RemoveAt(cols, i)
              [] i > 1 /\ ~y.full /\ x.full -> Splice(cols, i - 1, i, <<>>)
              [] OTHER -> Splice(cols, i - 1, i, <<Column(x.items \o y.items)>>)
    BY DEF StackWindow
  <1> HIDE DEF i
  <1>3. CASE i \in {0, 1}
    BY <1>2, <1>3
  <1>4. CASE i \in DOMAIN cols /\ i > 1
    <2>1. x \in Cols /\ y \in Cols
      BY <1>4
    <2>2. CASE y.full
      <3>1. StackWindow(cols, w) = RemoveAt(cols, i)
        BY <1>2, <1>4, <2>2
      <3>2. RemoveAt(cols, i) = Splice(cols, i, i, <<>>)
        <4> DEFINE a == SubSeq(cols, 1, i - 1)
                   b == SubSeq(cols, i + 1, Len(cols))
        <4>1. a \in Seq(Cols)
          BY <1>4
        <4> HIDE DEF a, b
        <4>2. a \o <<>> = a
          BY <4>1
        <4> QED
          BY <4>2 DEF RemoveAt, Splice, a, b
      <3> DEFINE P == AllWindows(Before(cols, i))
                 Q == AllWindows(After(cols, i))
                 g == WindowsOf(y)
                 none == <<>>
      <3>3. /\ AllWindows(cols) = P \o g \o Q /\ P \in Seq(Windows) /\ Q \in Seq(Windows)
            /\ g \in Seq(Windows)
        BY <1>4, StripAround
      <3>4. none \in Seq(Cols) /\ AllWindows(none) = <<>>
        BY NoColumns
      <3> HIDE DEF none
      <3>5. /\ Splice(cols, i, i, none) \in Seq(Cols)
            /\ AllWindows(Splice(cols, i, i, none)) = P \o AllWindows(none) \o Q
        BY <1>0, <1>4, <3>4, SplicedIs
      <3> HIDE DEF P, Q, g
      <3>6. Orderly(P \o Q)
        BY <3>3, LeftAround
      <3>7. P \o <<>> = P
        BY <3>3
      <3>8. cols \notin Seq(Ordinary)
        BY <1>4, <2>2 DEF Ordinary
      <3> QED
        BY <3>1, <3>2, <3>4, <3>5, <3>6, <3>7, <3>8 DEF none
    <2> DEFINE two == <<x, y>>
               X == WindowsOf(x)
               Y == WindowsOf(y)
    <2>3. two \in Seq(Cols) /\ AllWindows(two) = X \o Y
      <3> DEFINE s == <<x>>
                 t == <<y>>
      <3>1. s \in Seq(Cols) /\ t \in Seq(Cols) /\ AllWindows(s) = X /\ AllWindows(t) = Y
        BY <2>1, OneColumn
      <3>2. two \in Seq(Cols) /\ two = s \o t
        BY <2>1, TwoMembers DEF Both
      <3> HIDE DEF s, t, two
      <3>3. AllWindows(s \o t) = AllWindows(s) \o AllWindows(t)
        BY <3>1, StripParts
      <3> QED
        BY <3>1, <3>2, <3>3
    <2>4. CASE ~y.full /\ x.full
      <3> DEFINE none == <<>>
      <3>1. StackWindow(cols, w) = Splice(cols, i - 1, i, none)
        BY <1>2, <1>4, <2>4
      <3>2. none \in Seq(Cols) /\ AllWindows(none) = <<>>
        BY NoColumns
      <3> HIDE DEF none, two
      <3>3. PICK a, b \in Seq(Cols) : /\ Splice(cols, i - 1, i, none) = Chain(a, none, b)
                                      /\ cols = Chain(a, two, b)
        BY <1>0, <1>4, <3>2, TwoColumns DEF two
      <3> DEFINE P == AllWindows(a)
                 Q == AllWindows(b)
                 g == AllWindows(two)
      <3>4. /\ AllWindows(a \o none \o b) = P \o AllWindows(none) \o Q
            /\ a \o none \o b \in Seq(Cols)
        BY <1>0, <3>2, ThreeStrips
      <3>5. /\ AllWindows(a \o two \o b) = P \o g \o Q
            /\ P \in Seq(Windows) /\ Q \in Seq(Windows) /\ g \in Seq(Windows)
        BY <1>0, <2>3, ThreeStrips
      <3> HIDE DEF P, Q, g
      <3>6. Orderly(P \o g \o Q)
        BY <3>3, <3>5 DEF Chain
      <3>7. Orderly(P \o Q)
        BY <3>5, <3>6, LeftAround
      <3>8. P \o <<>> = P
        BY <3>5
      <3>9. cols \notin Seq(Ordinary)
        <4>1. i - 1 \in DOMAIN cols
          BY <1>4
        <4> QED
          BY <4>1, <2>4 DEF Ordinary
      <3> QED
        BY <3>1, <3>2, <3>3, <3>4, <3>7, <3>8, <3>9 DEF Chain
    <2>5. CASE ~y.full /\ ~x.full
      <3> DEFINE items == x.items \o y.items
                 c == Column(items)
                 new == <<c>>
      <3>1. StackWindow(cols, w) = Splice(cols, i - 1, i, new)
        BY <1>2, <1>4, <2>5
      <3>2. /\ x.items \in Seq(Items) /\ x.items # <<>> /\ y.items \in Seq(Items)
            /\ x.items \in Seq(Loose) /\ y.items \in Seq(Loose)
            /\ X = InItems(x.items) /\ Y = InItems(y.items)
        BY <2>1, ColumnOrder
      <3> DEFINE s == x.items
                 t == y.items
      <3> HIDE DEF s, t
      <3>3. s \o t \in Seq(Items) \ {<<>>}
        <4>1. s \in Seq(Items) /\ t \in Seq(Items) /\ s # <<>>
          BY <3>2 DEF s, t
        <4>2. s \o t \in Seq(Items)
          BY <4>1
        <4>3. s \o t # <<>>
          BY <4>1, ConcatEqualIffEmpty
        <4> QED
          BY <4>2, <4>3
      <3>4. InItems(s \o t) = X \o Y
        <4>1. s \in Seq(Loose) /\ t \in Seq(Loose) /\ X = InItems(s) /\ Y = InItems(t)
          BY <3>2 DEF s, t
        <4> HIDE DEF X, Y
        <4> QED
          BY <4>1, ItemsParts
      <3>5. items = s \o t
        BY DEF s, t
      <3> HIDE DEF items
      <3>6. ASSUME NEW K \in Kinds, cols \in Seq(K)
            PROVE  /\ StackWindow(cols, w) \in Seq(K)
                   /\ AllWindows(StackWindow(cols, w)) = AllWindows(cols)
        <4>1. c \in K /\ c \in Cols /\ WindowsOf(c) = InItems(items)
          BY <3>3, <3>5, KindIs, Made
        <4> HIDE DEF c
        <4>2. new \in Seq(K) /\ AllWindows(new) = X \o Y
          BY <3>4, <3>5, <4>1, OneColumn
        <4> HIDE DEF new, two, X, Y
        <4>3. PICK a, b \in Seq(K) : /\ Splice(cols, i - 1, i, new) = Chain(a, new, b)
                                     /\ cols = Chain(a, two, b) /\ x \in K /\ y \in K
          BY <1>4, <3>6, <4>2, TwoColumns DEF two
        <4>4. two \in Seq(K)
          BY <4>3, TwoMembers DEF two
        <4>5. /\ a \o new \o b \in Seq(K)
              /\ AllWindows(a \o new \o b) = AllWindows(a) \o AllWindows(new) \o AllWindows(b)
          BY <4>2, ThreeStrips
        <4>6. AllWindows(a \o two \o b) = AllWindows(a) \o AllWindows(two) \o AllWindows(b)
          BY <4>4, ThreeStrips
        <4> QED
          BY <2>3, <3>1, <4>2, <4>3, <4>5, <4>6 DEF Chain
      <3> QED
        BY <1>0, <3>6
    <2> QED
      BY <2>2, <2>4, <2>5
  <1> QED
    <2>1. i \in {0, 1} \/ (i \in DOMAIN cols /\ i > 1)
      BY <1>1
    <2> QED
      BY <1>3, <1>4, <2>1

------------------------------------------------------------------------------
(* Windows that a direction points at *)

\* The window that is level with an item in a column, or its last.
LEMMA AtOrLastIs ==
    ASSUME NEW column \in Cols, NEW k
    PROVE  AtOrLast(column, k) \in ToSet(WindowsOf(column))
  <1> DEFINE m == IF k \in DOMAIN column.items THEN k ELSE Len(column.items)
  <1>1. m \in DOMAIN column.items
    <2>1. column.items \in Seq(Items) /\ column.items # <<>>
      BY ColumnOrder
    <2>2. Len(column.items) \in DOMAIN column.items
      BY <2>1
    <2> QED
      BY <2>2
  <1> HIDE DEF m
  <1>2. column.items[m].ws[1] \in ToSet(WindowsOf(column))
    BY <1>1, ColumnHolds
  <1> QED
    BY <1>2 DEF AtOrLast, m

\* What a column has, the strip has.
LEMMA ColumnsWindows ==
    ASSUME NEW cols \in Seq(Cols), NEW j \in DOMAIN cols, NEW e \in ToSet(WindowsOf(cols[j]))
    PROVE  e \in ToSet(AllWindows(cols)) /\ cols[j] \in Cols
  <1>1. ToSet(AllWindows(cols)) = UNION {ToSet(WindowsOf(cols[i])) : i \in DOMAIN cols}
    BY StripIs
  <1> QED
    BY <1>1

\* What each direction points at.
LEMMA PointedIs ==
    ASSUME NEW cols, NEW w, IndexOf(cols, w) # 0
    PROVE  LET i == IndexOf(cols, w)
               k == PositionOf(cols[i], w)
               item(m) == IF m \in DOMAIN cols[i].items THEN {cols[i].items[m].ws[1]} ELSE {}
           IN  /\ InDirection(cols, w, "west") = Beside(cols, i - 1, k)
               /\ InDirection(cols, w, "east") = Beside(cols, i + 1, k)
               /\ InDirection(cols, w, "nth") = {TopOf(cols[n]) : n \in DOMAIN cols}
               /\ InDirection(cols, w, "north") = item(k - 1)
               /\ InDirection(cols, w, "south") = item(k + 1)
  <1> DEFINE i == IndexOf(cols, w)
             k == PositionOf(cols[i], w)
             item(m) == IF m \in DOMAIN cols[i].items THEN {cols[i].items[m].ws[1]} ELSE {}
             tops == {TopOf(cols[n]) : n \in DOMAIN cols}
             west == Beside(cols, i - 1, k)
             east == Beside(cols, i + 1, k)
             north == item(k - 1)
             south == item(k + 1)
             to(dir) == IF i = 0 THEN {}
                        ELSE CASE dir = "west"  -> west
                               [] dir = "east"  -> east
                               [] dir = "nth"   -> tops
                               [] dir = "north" -> north
                               [] dir = "south" -> south
  <1>1. \A dir : InDirection(cols, w, dir) = to(dir)
    BY DEF InDirection
  <1>2. i # 0
    OBVIOUS
  <1> HIDE DEF i, tops, west, east, north, south
  <1>3. to("west") = west
    BY <1>2
  <1>4. to("east") = east
    BY <1>2
  <1>5. to("nth") = tops
    BY <1>2
  <1>6. to("north") = north
    BY <1>2
  <1>7. to("south") = south
    BY <1>2
  <1> HIDE DEF to
  <1> QED
    BY <1>1, <1>3, <1>4, <1>5, <1>6, <1>7 DEF i, tops, west, east, north, south

\* A direction points from a window of the strip at a window of the strip.
LEMMA InDirectionIs ==
    ASSUME NEW cols \in Seq(Cols), NEW w, NEW dir \in Directions, NEW e \in InDirection(cols, w, dir)
    PROVE  IndexOf(cols, w) # 0 /\ e \in ToSet(AllWindows(cols))
  <1> DEFINE i == IndexOf(cols, w)
             k == PositionOf(cols[i], w)
             item(m) == IF m \in DOMAIN cols[i].items THEN {cols[i].items[m].ws[1]} ELSE {}
             tops == {TopOf(cols[n]) : n \in DOMAIN cols}
  <1>1. i # 0
    BY DEF InDirection
  <1>2. i \in DOMAIN cols
    BY <1>1, IndexOfIs
  <1>3. /\ InDirection(cols, w, "west") = Beside(cols, i - 1, k)
        /\ InDirection(cols, w, "east") = Beside(cols, i + 1, k)
        /\ InDirection(cols, w, "nth") = tops
        /\ InDirection(cols, w, "north") = item(k - 1)
        /\ InDirection(cols, w, "south") = item(k + 1)
    BY <1>1, PointedIs
  <1> HIDE DEF i, k
  <1>4. \A j : e \in Beside(cols, j, k) => e \in ToSet(AllWindows(cols))
    <2> SUFFICES ASSUME NEW j, e \in Beside(cols, j, k)
                 PROVE  e \in ToSet(AllWindows(cols))
      OBVIOUS
    <2>1. j \in DOMAIN cols /\ e = AtOrLast(cols[j], k)
      BY DEF Beside
    <2>2. cols[j] \in Cols
      BY <2>1
    <2>3. e \in ToSet(WindowsOf(cols[j]))
      BY <2>1, <2>2, AtOrLastIs
    <2> QED
      BY <2>1, <2>3, ColumnsWindows
  <1>5. \A n \in DOMAIN cols : \A m \in DOMAIN cols[n].items :
            cols[n].items[m].ws[1] \in ToSet(AllWindows(cols))
    <2> SUFFICES ASSUME NEW n \in DOMAIN cols, NEW m \in DOMAIN cols[n].items
                 PROVE  cols[n].items[m].ws[1] \in ToSet(AllWindows(cols))
      OBVIOUS
    <2>1. cols[n] \in Cols
      OBVIOUS
    <2>2. cols[n].items[m].ws[1] \in ToSet(WindowsOf(cols[n]))
      BY <2>1, ColumnHolds
    <2> QED
      BY <2>2, ColumnsWindows
  <1>6. \A m : e \in item(m) => e \in ToSet(AllWindows(cols))
    BY <1>2, <1>5
  <1>7. e \in tops => e \in ToSet(AllWindows(cols))
    <2> SUFFICES ASSUME NEW n \in DOMAIN cols, e = TopOf(cols[n])
                 PROVE  e \in ToSet(AllWindows(cols))
      OBVIOUS
    <2>1. cols[n] \in Cols
      OBVIOUS
    <2>2. cols[n].items \in Seq(Items) /\ cols[n].items # <<>>
      BY <2>1, ColumnOrder
    <2>3. 1 \in DOMAIN cols[n].items
      BY <2>2
    <2> QED
      BY <1>5, <2>3 DEF TopOf
  <1> HIDE DEF item, tops
  <1>8. e \in ToSet(AllWindows(cols))
    BY <1>3, <1>4, <1>6, <1>7 DEF Directions
  <1> QED
    BY <1>1, <1>8 DEF i

\* A window of column j is found there.
LEMMA FoundThere ==
    ASSUME NEW cols \in Seq(Cols), Orderly(AllWindows(cols)), NEW j \in DOMAIN cols,
           NEW e \in ToSet(WindowsOf(cols[j]))
    PROVE  IndexOf(cols, e) = j
  <1> DEFINE i == IndexOf(cols, e)
             a == Before(cols, j)
             P == AllWindows(a)
             g == WindowsOf(cols[j])
             Q == AllWindows(After(cols, j))
  <1>1. e \in ToSet(AllWindows(cols))
    BY ColumnsWindows
  <1>2. /\ i \in DOMAIN cols /\ e \in ToSet(WindowsOf(cols[i]))
        /\ \A m \in DOMAIN cols : m < i => e \notin ToSet(WindowsOf(cols[m]))
    BY <1>1, IndexOfIs
  <1> HIDE DEF i
  <1>3. /\ AllWindows(cols) = P \o g \o Q /\ P \in Seq(Windows) /\ g \in Seq(Windows)
        /\ Q \in Seq(Windows)
    BY StripAround
  <1>4. a \in Seq(Cols) /\ Len(a) = j - 1 /\ \A m \in 1 .. j - 1 : a[m] = cols[m]
    BY BeforeAfter
  <1> HIDE DEF a, g, Q
  <1>5. ASSUME i < j PROVE FALSE
    <2>1. i \in DOMAIN a /\ a[i] = cols[i]
      BY <1>2, <1>4, <1>5
    <2>2. e \in ToSet(P)
      <3>1. e \in ToSet(WindowsOf(a[i]))
        BY <1>2, <2>1
      <3> QED
        BY <1>4, <2>1, <3>1, ColumnsWindows
    <2> HIDE DEF P
    <2>3. ToSet(P) \cap ToSet(g) = {}
      <3>1. Orderly(P \o g \o Q)
        BY <1>3
      <3> QED
        BY <1>3, <3>1, LeftAround
    <2> QED
      BY <2>2, <2>3 DEF g
  <1>6. ~(j < i)
    BY <1>2
  <1>7. i \in Nat /\ j \in Nat
    BY <1>2
  <1> QED
    BY <1>5, <1>6, <1>7 DEF i

------------------------------------------------------------------------------
(* Steps of the strip *)

\* command_swap_focus between two windows of the strip.
LEMMA SwapCommandIs ==
    ASSUME NEW K \in Kinds, strip \in Seq(K), Orderly(AllWindows(strip)),
           NEW w \in Windows, NEW dir \in Directions, SwapCommand(w, dir)
    PROVE  strip' \in Seq(K) /\ Follows(AllWindows(strip), AllWindows(strip'))
  <1>1. PICK other \in InDirection(strip, w, dir) :
            LET i == IndexOf(strip, w)
                j == IndexOf(strip, other)
            IN  strip' = IF i = j /\ IsStack(strip[i])
                         THEN [strip EXCEPT ![i].items =
                                  Exchange(@, PositionOf(strip[i], w), PositionOf(strip[i], other))]
                         ELSE ShiftColumn(strip, i, j)
    BY DEF SwapCommand
  <1>2. Seq(K) \subseteq Seq(Cols) /\ strip \in Seq(Cols)
    BY KindIs
  <1>3. IndexOf(strip, w) # 0 /\ other \in ToSet(AllWindows(strip))
    BY <1>2, InDirectionIs
  <1> DEFINE cols == strip
             i == IndexOf(cols, w)
             j == IndexOf(cols, other)
             column == cols[i]
             k == PositionOf(column, w)
             l == PositionOf(column, other)
             new == [cols EXCEPT ![i].items = Exchange(@, k, l)]
  <1>4. /\ i \in DOMAIN cols /\ cols[i] \in Cols /\ InColumn(cols[i], w)
        /\ j \in DOMAIN cols /\ InColumn(cols[j], other)
    BY <1>2, <1>3, IndexOfIs
  <1>5. strip' = IF i = j /\ IsStack(column) THEN new ELSE ShiftColumn(cols, i, j)
    BY <1>1
  <1>6. /\ k \in DOMAIN column.items
        /\ i = j => l \in DOMAIN column.items
    BY <1>4, InColumnIs
  <1>7. column.items \in Seq(Items)
    BY <1>4, ColumnOrder
  <1>8. cols \in Seq(K) /\ Orderly(AllWindows(cols))
    OBVIOUS
  <1> HIDE DEF cols, i, j, k, l
  <1>9. CASE ~(i = j /\ IsStack(column))
    <2>1. strip' = ShiftColumn(cols, i, j)
      BY <1>5, <1>9
    <2>2. /\ ShiftColumn(cols, i, j) \in Seq(K)
          /\ Follows(AllWindows(cols), AllWindows(ShiftColumn(cols, i, j)))
      BY <1>4, <1>8, ShiftColumnIs
    <2> QED
      BY <2>1, <2>2 DEF cols
  <1>10. CASE i = j /\ IsStack(column)
    <2>1. strip' = new
      BY <1>5, <1>10
    <2>2. k \in DOMAIN column.items /\ l \in DOMAIN column.items /\ k \in Nat /\ l \in Nat
      BY <1>6, <1>7, <1>10
    <2>3. \A a, b \in DOMAIN column.items : a < b =>
              LET put == Put(cols, i, [cols[i] EXCEPT !.items = Exchanged(@, a, b)])
              IN  put \in Seq(K) /\ Follows(AllWindows(cols), AllWindows(put))
      BY <1>4, <1>8, <1>10, ItemsSwap
    <2>4. \A a, b \in DOMAIN column.items : Exchange(column.items, a, b) = Exchanged(column.items, a, b)
                                         /\ Exchanged(column.items, a, b) = Exchanged(column.items, b, a)
      BY <1>7 DEF Exchange, Exchanged
    <2>5. new = Put(cols, i, [cols[i] EXCEPT !.items = Exchanged(@, k, l)])
      <3>1. new = Put(cols, i, [cols[i] EXCEPT !.items = Exchange(@, k, l)])
        BY <1>4, <1>8 DEF Put
      <3>2. Exchange(cols[i].items, k, l) = Exchanged(cols[i].items, k, l)
        BY <2>2, <2>4
      <3> QED
        BY <3>1, <3>2
    <2>6. CASE k = l
      <3>1. Exchanged(column.items, k, l) = column.items
        BY <1>7, <2>2, <2>6 DEF Exchanged
      <3>2. [cols[i] EXCEPT !.items = Exchanged(@, k, l)] = cols[i]
        BY <1>4, <3>1 DEF Cols
      <3>3. new = cols
        BY <1>4, <1>8, <2>5, <3>2 DEF Put
      <3>4. Follows(AllWindows(cols), AllWindows(cols))
        BY <1>8, StaysIs
      <3> QED
        BY <1>8, <2>1, <3>3, <3>4 DEF cols
    <2>7. CASE k < l
      BY <2>1, <2>2, <2>3, <2>5, <2>7 DEF cols
    <2>8. CASE l < k
      <3>1. new = Put(cols, i, [cols[i] EXCEPT !.items = Exchanged(@, l, k)])
        BY <2>2, <2>4, <2>5
      <3> QED
        BY <2>1, <2>2, <2>3, <2>8, <3>1 DEF cols
    <2> QED
      BY <2>2, <2>6, <2>7, <2>8
  <1> QED
    BY <1>9, <1>10

\* Every step but that of `stack` keeps the shapes of the columns and takes the
\* order of the windows one step of StripOrder further.
LEMMA StepIs ==
    ASSUME NEW K \in Kinds, strip \in Seq(K), Orderly(AllWindows(strip)), Next,
           \A w \in Windows : ~StackCommand(w)
    PROVE  strip' \in Seq(K) /\ Follows(AllWindows(strip), AllWindows(strip'))
  <1> DEFINE Good == strip' \in Seq(K) /\ Follows(AllWindows(strip), AllWindows(strip'))
  <1>1. Seq(K) \subseteq Seq(Cols) /\ strip \in Seq(Cols)
    BY KindIs
  <1>2. ASSUME NEW w \in Windows, w \in Present
        PROVE  HasWindow(strip, w) /\ IndexOf(strip, w) \in DOMAIN strip
    <2>1. HasWindow(strip, w)
      BY <1>2 DEF Present
    <2> QED
      BY <1>1, <2>1, IndexOfIs
  <1>3. ASSUME NEW w \in Windows, Append_(w) PROVE Good
    BY <1>3, AppendWindowIs DEF Append_
  <1>4. ASSUME NEW w \in Windows, NEW i \in Places, InsertAt_(i, w) PROVE Good
    <2>1. i \in Nat \ {0}
      BY DEF Places
    <2>2. ~HasWindow(strip, w)
      BY <1>4 DEF InsertAt_, Absent, Present
    <2> QED
      BY <1>4, <2>1, <2>2, InsertWindowIs DEF InsertAt_
  <1>5. Groups \subseteq Seq(Windows)
    <2> SUFFICES ASSUME NEW g \in Groups PROVE g \in Seq(Windows)
      OBVIOUS
    <2>1. CASE \E w \in Windows : g = <<w>>
      BY <2>1
    <2>2. CASE \E v, w \in Windows : g = <<v, w>>
      BY <2>2
    <2> QED
      BY <2>1, <2>2 DEF Groups
  <1>6. ASSUME NEW g \in Groups, AppendGroup(g) PROVE Good
    BY <1>5, <1>6, AppendTabGroupIs DEF AppendGroup
  <1>7. ASSUME NEW g \in Groups, NEW i \in Places, InsertGroup(i, g) PROVE Good
    <2>1. i \in Nat \ {0}
      BY DEF Places
    <2> QED
      BY <1>5, <1>7, <2>1, InsertTabGroupIs DEF InsertGroup
  <1>8. ASSUME NEW v \in Windows, NEW w \in Windows, JoinTabs(v, w) PROVE Good
    <2>1. v # w /\ HasWindow(strip, v)
      BY <1>8, <1>2 DEF JoinTabs
    <2> QED
      BY <1>8, <2>1, ConvertToTabsIs DEF JoinTabs
  <1>9. ASSUME NEW v \in Windows, NEW w \in Windows, SwapColumns(v, w) PROVE Good
    <2>1. IndexOf(strip, v) \in DOMAIN strip /\ IndexOf(strip, w) \in DOMAIN strip
      BY <1>9, <1>2 DEF SwapColumns
    <2>2. \A i, j \in DOMAIN strip :
              /\ Exchange(strip, i, j) \in Seq(K)
              /\ Follows(AllWindows(strip), AllWindows(Exchange(strip, i, j)))
      BY ExchangeIs
    <2> QED
      BY <1>9, <2>1, <2>2 DEF SwapColumns
  <1>10. ASSUME NEW w \in Windows, Remove_(w) PROVE Good
    <2>1. strip' = RemoveWindow(strip, w)
      BY <1>10 DEF Remove_
    <2>2. /\ RemoveWindow(strip, w) \in Seq(K)
          /\ AllWindows(RemoveWindow(strip, w)) = Left(AllWindows(strip), {w})
      BY RemoveWindowIs
    <2> DEFINE o == AllWindows(strip)
    <2>3. Follows(o, Left(o, {w}))
      <3>1. Orderly(o)
        OBVIOUS
      <3> HIDE DEF o
      <3> QED
        BY <3>1, ReleasedIs
    <2> QED
      BY <2>1, <2>2, <2>3
  <1>11. ASSUME NEW w \in Windows, UnstackCommand(w) PROVE Good
    BY <1>11, UnstackWindowIs DEF UnstackCommand
  <1>12. ASSUME NEW w \in Windows, FocusTab(w) PROVE Good
    BY <1>12, MoveToFrontIs DEF FocusTab
  <1>13. ASSUME NEW w \in Windows, NEW dir \in Directions, SwapCommand(w, dir) PROVE Good
    BY <1>13, SwapCommandIs
  <1> HIDE DEF Good
  <1>14. Good
    BY <1>3, <1>4, <1>6, <1>7, <1>8, <1>9, <1>10, <1>11, <1>12, <1>13 DEF Next
  <1> QED
    BY <1>14 DEF Good

------------------------------------------------------------------------------
(* The invariant *)

\* Every column is one of Cols, and no window is in the strip twice.
StripOk == strip \in Seq(Cols) /\ Orderly(AllWindows(strip))

\* No window is in order.
LEMMA NoneOrderly == Orderly(<<>>)
  <1>1. <<>> \in Seq(Windows) /\ DOMAIN <<>> = {}
    OBVIOUS
  <1> QED
    BY <1>1 DEF Orderly, IsInjective

\* An empty strip and that of a full-screen space are in order.
LEMMA StripOkInit == Init => StripOk
  <1> SUFFICES ASSUME Init PROVE StripOk
    OBVIOUS
  <1>1. CASE strip = <<>>
    <2>1. <<>> \in Seq(Cols) /\ AllWindows(<<>>) = <<>>
      BY NoColumns
    <2>2. Orderly(<<>>)
      BY NoneOrderly
    <2> QED
      BY <1>1, <2>1, <2>2 DEF StripOk
  <1>2. ASSUME NEW w \in FullscreenWindows, strip = <<FullscreenColumn(w)>>
        PROVE  StripOk
    <2>1. w \in Windows
      BY WindowsAssumption
    <2>2. FullscreenColumn(w) \in Cols /\ WindowsOf(FullscreenColumn(w)) = <<w>>
      BY <2>1, Made
    <2>3. AllWindows(<<FullscreenColumn(w)>>) = <<w>>
      BY <2>2, OneColumn
    <2>4. Orderly(<<w>>)
      BY <2>1 DEF Orderly, IsInjective
    <2> QED
      BY <1>2, <2>2, <2>3, <2>4 DEF StripOk
  <1> QED
    BY <1>1, <1>2 DEF Init

\* Every step keeps them so.
LEMMA StripOkNext == StripOk /\ [Next]_strip => StripOk'
  <1> SUFFICES ASSUME StripOk, [Next]_strip PROVE StripOk'
    OBVIOUS
  <1>1. Cols \in Kinds /\ strip \in Seq(Cols) /\ Orderly(AllWindows(strip))
    BY DEF Kinds, StripOk
  <1>2. CASE strip' = strip
    BY <1>1, <1>2 DEF StripOk
  <1>3. ASSUME NEW w \in Windows, StackCommand(w) PROVE StripOk'
    BY <1>1, <1>3, StackWindowIs DEF StackCommand, StripOk
  <1>4. CASE Next /\ \A w \in Windows : ~StackCommand(w)
    <2>1. strip' \in Seq(Cols) /\ Follows(AllWindows(strip), AllWindows(strip'))
      BY <1>1, <1>4, StepIs
    <2> QED
      BY <2>1 DEF StripOk, Follows
  <1> QED
    BY <1>2, <1>3, <1>4

\* A strip keeps the shapes of its columns and holds no window twice.
THEOREM StripHolds == Spec => []StripOk
  <1>1. Init => StripOk
    BY StripOkInit
  <1>2. StripOk /\ [Next]_strip => StripOk'
    BY StripOkNext
  <1> QED
    BY <1>1, <1>2, PTL DEF Spec

\* The shapes that ColumnShapes names are those of Cols.
LEMMA ShapesFollow == StripOk => ColumnShapes
  <1> SUFFICES ASSUME StripOk, NEW i \in DOMAIN strip
               PROVE  /\ strip[i].items # <<>>
                      /\ strip[i].full => strip[i].items = <<Alone(TopOf(strip[i]))>>
                      /\ \A k \in DOMAIN strip[i].items :
                            LET it == strip[i].items[k]
                            IN  it.ws \in Seq(Windows) /\ it.ws # <<>> /\ (~it.tabs => Len(it.ws) = 1)
    BY DEF ColumnShapes
  <1>1. strip[i] \in Cols
    BY DEF StripOk
  <1> DEFINE column == strip[i]
  <1> HIDE DEF column
  <1>2. /\ column.items \in Seq(Items) /\ column.items # <<>>
        /\ column.full => column.items = <<Alone(TopOf(column))>>
    BY <1>1 DEF Cols, column
  <1>3. \A k \in DOMAIN column.items : column.items[k] \in Items
    BY <1>2
  <1>4. \A it \in Items : it.ws \in Seq(Windows) /\ it.ws # <<>> /\ (~it.tabs => Len(it.ws) = 1)
    BY DEF Items, Loose
  <1> QED
    BY <1>2, <1>3, <1>4 DEF column

\* ColumnShapes is an invariant of the strip: no item is empty, a single window
\* is no group, and a full-screen column has its one window, whatever the calls
\* of `remove`, `unstack`, `stack` and the tab groups.
THEOREM ColumnsShaped == Spec => []ColumnShapes
  <1>1. StripOk => ColumnShapes
    BY ShapesFollow
  <1> QED
    BY <1>1, StripHolds, PTL

\* A walk reaches the next column of a strip in order.
LEMMA WalkFollows == StripOk => WalkReachesNextColumn
  <1> SUFFICES ASSUME StripOk, NEW w \in Present
               PROVE  LET i == IndexOf(strip, w)
                          leads(dir, j) == j \in DOMAIN strip =>
                              \E e \in InDirection(strip, w, dir) : IndexOf(strip, e) = j
                      IN  leads("east", i + 1) /\ leads("west", i - 1)
    BY DEF WalkReachesNextColumn
  <1> DEFINE i == IndexOf(strip, w)
             k == PositionOf(strip[i], w)
  <1>1. i # 0
    BY DEF Present, HasWindow
  <1>2. /\ InDirection(strip, w, "west") = Beside(strip, i - 1, k)
        /\ InDirection(strip, w, "east") = Beside(strip, i + 1, k)
    BY <1>1, PointedIs
  <1> HIDE DEF i, k
  <1>3. ASSUME NEW j \in DOMAIN strip
        PROVE  \E e \in Beside(strip, j, k) : IndexOf(strip, e) = j
    <2> DEFINE e == AtOrLast(strip[j], k)
    <2>1. strip \in Seq(Cols) /\ Orderly(AllWindows(strip)) /\ strip[j] \in Cols
      BY DEF StripOk
    <2>2. e \in ToSet(WindowsOf(strip[j]))
      BY <2>1, AtOrLastIs
    <2>3. e \in Beside(strip, j, k)
      BY DEF Beside
    <2> HIDE DEF e
    <2>4. IndexOf(strip, e) = j
      BY <2>1, <2>2, FoundThere
    <2> QED
      BY <2>3, <2>4
  <1> QED
    BY <1>2, <1>3 DEF i

\* WalkReachesNextColumn is an invariant of the strip: east and west of any
\* window lead into the adjacent column when there is one, at_or_last included.
THEOREM WalkReaches == Spec => []WalkReachesNextColumn
  <1>1. StripOk => WalkReachesNextColumn
    BY WalkFollows
  <1> QED
    BY <1>1, StripHolds, PTL

------------------------------------------------------------------------------
(* The refinement of StripOrder *)

\* The operators of StripOrder are those of this module.
LEMMA OrderIs ==
    /\ \A o, S : Left(o, S) = Order!Without(o, S)
    /\ \A o : ToSet(o) = Order!ToSet(o)
  <1>1. \A o, S : Retained(o, S) = Order!Retained(o, S)
    BY Zenon DEF Retained, FlattenSeq, Order!Retained, Order!FlattenSeq
  <1> QED
    BY <1>1 DEF Left, Order!Without, ToSet, Order!ToSet

\* An order that follows is a step of StripOrder.
LEMMA OrderStep ==
    ASSUME Follows(AllWindows(strip), AllWindows(strip'))
    PROVE  [Order!Next]_(AllWindows(strip))
  <1>1. Order!OrderOk'
    BY DEF Follows, Orderly, IsInjective, Order!OrderOk
  <1>2. CASE AllWindows(strip') = AllWindows(strip)
    BY <1>2
  <1>3. CASE Placed(AllWindows(strip), AllWindows(strip'))
    <2>1. Order!Place
      BY <1>3, OrderIs DEF Placed, Order!Place
    <2> QED
      BY <1>1, <2>1 DEF Order!Next
  <1>4. CASE Released(AllWindows(strip), AllWindows(strip'))
    <2>1. Order!Release
      BY <1>4, OrderIs DEF Released, Order!Release
    <2> QED
      BY <1>1, <2>1 DEF Order!Next
  <1>5. CASE Swapped(AllWindows(strip), AllWindows(strip'))
    <2>1. Order!Swap
      BY <1>5 DEF Swapped, Order!Swap
    <2> QED
      BY <1>1, <2>1 DEF Order!Next
  <1> QED
    BY <1>2, <1>3, <1>4, <1>5 DEF Follows

\* A strip in order without a full-screen column.
OrdinaryOk == strip \in Seq(Ordinary) /\ Orderly(AllWindows(strip))

\* No step makes a full-screen column, and without one every step follows.
LEMMA OrdinaryNext ==
    ASSUME OrdinaryOk, Next
    PROVE  OrdinaryOk' /\ Follows(AllWindows(strip), AllWindows(strip'))
  <1>1. Ordinary \in Kinds /\ strip \in Seq(Ordinary) /\ Orderly(AllWindows(strip))
    BY DEF Kinds, OrdinaryOk
  <1>2. strip \in Seq(Cols)
    BY <1>1, KindIs
  <1>3. ASSUME NEW w \in Windows, StackCommand(w)
        PROVE  OrdinaryOk' /\ Follows(AllWindows(strip), AllWindows(strip'))
    <2>1. /\ strip' \in Seq(Ordinary) /\ AllWindows(strip') = AllWindows(strip)
      BY <1>1, <1>2, <1>3, StackWindowIs DEF StackCommand
    <2>2. Follows(AllWindows(strip), AllWindows(strip))
      BY <1>1, StaysIs
    <2> QED
      BY <1>1, <2>1, <2>2 DEF OrdinaryOk
  <1>4. CASE \A w \in Windows : ~StackCommand(w)
    <2>1. strip' \in Seq(Ordinary) /\ Follows(AllWindows(strip), AllWindows(strip'))
      BY <1>1, <1>4, StepIs
    <2> QED
      BY <2>1 DEF OrdinaryOk, Follows
  <1> QED
    BY <1>3, <1>4

\* The calls of `stack` that may take a full-screen column out of the strip.
StackBesideFullscreen ==
    /\ \E w \in Windows : StackCommand(w)
    /\ \E i \in DOMAIN strip : strip[i].full

\* Of any strip, full-screen or not: every step is one of StripOrder or leaves
\* the reading order as it is, but for a `stack` in a strip that has a
\* full-screen column (its early returns come after the removal).
THEOREM OrderKeptButForStack ==
    Spec => [][Order!Next \/ AllWindows(strip') = AllWindows(strip) \/ StackBesideFullscreen]_strip
  <1>1. ASSUME StripOk, Next
        PROVE  Order!Next \/ AllWindows(strip') = AllWindows(strip) \/ StackBesideFullscreen
    <2>1. CASE \A w \in Windows : ~StackCommand(w)
      <3>1. Cols \in Kinds /\ strip \in Seq(Cols) /\ Orderly(AllWindows(strip))
        BY <1>1 DEF Kinds, StripOk
      <3>2. Follows(AllWindows(strip), AllWindows(strip'))
        BY <1>1, <2>1, <3>1, StepIs
      <3> QED
        BY <3>2, OrderStep
    <2>2. CASE \A i \in DOMAIN strip : ~strip[i].full
      <3>1. strip \in Seq(Ordinary)
        <4>1. strip \in Seq(Cols)
          BY <1>1 DEF StripOk
        <4>2. \A i \in 1 .. Len(strip) : strip[i] \in Ordinary
          BY <2>2, <4>1 DEF Ordinary
        <4> QED
          BY <4>1, <4>2
      <3>2. OrdinaryOk
        BY <1>1, <3>1 DEF StripOk, OrdinaryOk
      <3>3. Follows(AllWindows(strip), AllWindows(strip'))
        BY <1>1, <3>2, OrdinaryNext
      <3> QED
        BY <3>3, OrderStep
    <2> QED
      BY <2>1, <2>2 DEF StackBesideFullscreen
  <1> QED
    BY <1>1, StripHolds, PTL DEF Spec

\* KeepsOrder of the strip of an ordinary space: it implements StripOrder.
\* Every call places a block, lets one window go, exchanges two blocks or
\* leaves the reading order as it is, and none loses or doubles a window.
THEOREM OrderKept ==
    ASSUME FullscreenWindows = {}
    PROVE  Spec => KeepsOrder
  <1>1. Init => OrdinaryOk /\ Order!Init
    <2> SUFFICES ASSUME Init PROVE OrdinaryOk /\ Order!Init
      OBVIOUS
    <2>1. strip = <<>>
      BY DEF Init
    <2>2. AllWindows(strip) = <<>>
      BY <2>1, NoColumns
    <2>3. strip \in Seq(Ordinary) /\ Orderly(AllWindows(strip))
      <3>1. <<>> \in Seq(Ordinary)
        OBVIOUS
      <3> QED
        BY <2>1, <2>2, <3>1, NoneOrderly
    <2>4. Order!Init
      BY <2>2 DEF Order!Init
    <2> QED
      BY <2>3, <2>4 DEF OrdinaryOk
  <1>2. OrdinaryOk /\ [Next]_strip => OrdinaryOk' /\ [Order!Next]_(AllWindows(strip))
    <2> SUFFICES ASSUME OrdinaryOk, [Next]_strip
                 PROVE  OrdinaryOk' /\ [Order!Next]_(AllWindows(strip))
      OBVIOUS
    <2>1. CASE strip' = strip
      BY <2>1 DEF OrdinaryOk
    <2>2. CASE Next
      BY <2>2, OrdinaryNext, OrderStep
    <2> QED
      BY <2>1, <2>2
  <1> QED
    BY <1>1, <1>2, PTL DEF Spec, KeepsOrder, Order!Spec

==============================================================================
