--------------------------- MODULE Sequences_proofs ---------------------------
(****************************************************************************)
(* What the operators on sequences that the specifications use return:      *)
(* FlattenSeq, RemoveAt, InsertAt, SetToSeq, Retained and FoldLeft, for any *)
(* sequences, what they do to sequences of which no two members share       *)
(* anything, and what they make of sequences put together from parts.       *)
(****************************************************************************)
EXTENDS Filters, Integers, FiniteSetTheorems, SequenceTheorems, TLAPS

------------------------------------------------------------------------------
(* Induction, by the least member of a set of numbers *)

\* A set of numbers has a least one: what is true of a number when it is true
\* of all smaller ones is true of all.
LEMMA LeastOf ==
    ASSUME NEW T \in SUBSET Nat, T # {}
    PROVE  \E n \in T : \A m \in T : n <= m
  <1> DEFINE upto == {0..n : n \in T}
             R    == StrictSubsetOrdering(Nat)
  <1>1. IsWellFoundedOn(R, FiniteSubsetsOf(Nat))
    BY FS_StrictSubsetOrderingWellFounded
  <1>2. upto \subseteq FiniteSubsetsOf(Nat) /\ upto # {}
    <2>1. \A n \in Nat : 0..n \subseteq Nat /\ IsFiniteSet(0..n)
      BY FS_Interval
    <2> QED
      BY <2>1 DEF FiniteSubsetsOf
  <1>3. PICK U \in upto : \A V \in upto : ~(<<V, U>> \in R)
    <2> HIDE DEF upto, R
    <2> QED
      BY <1>1, <1>2, WFMin
  <1>4. PICK n \in T : U = 0..n
    OBVIOUS
  <1>5. ASSUME NEW m \in T, ~(n <= m)
        PROVE  FALSE
    <2>1. n \in 0..n /\ n \notin 0..m
      BY <1>5
    <2>2. 0..m \subseteq 0..n /\ 0..m # 0..n
      BY <1>5, <2>1
    <2>3. <<0..m, U>> \in R
      BY <2>2, <1>4 DEF StrictSubsetOrdering
    <2> QED
      BY <2>3, <1>3
  <1> QED
    BY <1>5

\* What holds of 0 and passes from each number to the next holds up to n.
LEMMA UpTo ==
    ASSUME NEW n \in Nat, NEW T, 0 \in T, \A i \in 1..n : i - 1 \in T => i \in T
    PROVE  0..n \subseteq T
  <1> DEFINE bad == {i \in 0..n : i \notin T}
  <1> SUFFICES ASSUME bad # {} PROVE FALSE
    OBVIOUS
  <1>1. PICK i \in bad : \A k \in bad : i <= k
    <2>1. bad \in SUBSET Nat
      OBVIOUS
    <2> HIDE DEF bad
    <2> QED
      BY <2>1, LeastOf
  <1>2. i \in 1..n /\ i \notin T
    OBVIOUS
  <1>3. i - 1 \in 0..n /\ ~(i <= i - 1)
    BY <1>2
  <1>4. i - 1 \notin bad
    BY <1>1, <1>3
  <1> QED
    BY <1>2, <1>3, <1>4

\* A function that is defined along the numbers is there.
LEMMA Recursion ==
    ASSUME NEW seqs, NEW n \in Nat
    PROVE  \A m \in 1..n : \E f :
               f = [i \in 1..m |-> IF i = 1 THEN seqs[i] ELSE f[i - 1] \o seqs[i]]
  <1> DEFINE Next_(x, i) == x \o seqs[i]
             Rule(f, i) == IF i = 1 THEN seqs[i] ELSE Next_(f[i - 1], i)
             Solves(f, m) == f = [i \in 1..m |-> Rule(f, i)]
             bad == {m \in 1..n : ~ \E f : Solves(f, m)}
  <1> SUFFICES bad = {}
    OBVIOUS
  <1> HIDE DEF Next_
  <1> SUFFICES ASSUME bad # {} PROVE FALSE
    OBVIOUS
  <1>1. PICK m \in bad : \A k \in bad : m <= k
    <2>1. bad \in SUBSET Nat
      OBVIOUS
    <2> HIDE DEF bad
    <2> QED
      BY <2>1, LeastOf
  <1>2. m \in 1..n /\ ~ \E f : Solves(f, m)
    OBVIOUS
  <1>3. CASE m = 1
    <2> DEFINE f == [i \in 1..1 |-> seqs[i]]
    <2>1. \A i \in 1..1 : Rule(f, i) = seqs[i]
      OBVIOUS
    <2>2. Solves(f, 1)
      BY <2>1, Zenon
    <2> QED
      BY <1>2, <1>3, <2>2
  <1>4. CASE m # 1
    <2>1. m - 1 \in 1..n /\ m - 1 \notin bad
      BY <1>1, <1>2, <1>4
    <2>2. PICK g : Solves(g, m - 1)
      BY <2>1
    <2> DEFINE f == [i \in 1..m |-> IF i = m THEN Next_(g[m - 1], m) ELSE g[i]]
    <2>3. \A i \in 1..m : f[i] = Rule(f, i)
      <3> TAKE i \in 1..m
      <3>1. CASE i = m
        <4>1. f[i] = Next_(g[m - 1], m) /\ i # 1
          BY <3>1, <1>4
        <4>2. m - 1 \in 1..m /\ m - 1 # m
          BY <1>2, <1>4
        <4>3. f[m - 1] = g[m - 1]
          BY <4>2
        <4> QED
          BY <4>1, <4>3, <3>1
      <3>2. CASE i # m
        <4>1. i \in 1..(m - 1) /\ f[i] = g[i]
          BY <3>2, <1>2
        <4>2. g[i] = Rule(g, i)
          BY <4>1, <2>2
        <4>3. CASE i = 1
          BY <4>1, <4>2, <4>3
        <4>4. CASE i # 1
          <5>1. i - 1 \in 1..m /\ i - 1 # m
            BY <4>1, <4>4, <1>2
          <5>2. f[i - 1] = g[i - 1]
            BY <5>1
          <5> QED
            BY <4>1, <4>2, <4>4, <5>2
        <4> QED
          BY <4>3, <4>4
      <3> QED
        BY <3>1, <3>2
    <2>4. f = [i \in 1..m |-> f[i]]
      OBVIOUS
    <2> HIDE DEF f
    <2>5. Solves(f, m)
      BY <2>3, <2>4, Zenon
    <2> QED
      BY <1>2, <2>5
  <1> QED
    BY <1>3, <1>4

------------------------------------------------------------------------------
(* Lookups *)

\* The least of a set of numbers is one of them.
LEMMA MinIn ==
    ASSUME NEW T \in SUBSET Nat, T # {}
    PROVE  Min(T) \in T /\ \A n \in T : Min(T) <= n
  <1>1. \E n \in T : \A m \in T : n <= m
    BY LeastOf
  <1> QED
    BY <1>1, Zenon DEF Min

\* The greatest of a set of numbers up to n is one of them.
LEMMA MaxIn ==
    ASSUME NEW n \in Nat, NEW T \in SUBSET (1..n), T # {}
    PROVE  /\ Max(T) \in T
           /\ Max(T) \in 1..n /\ Max(T) - 1 \in 0..n
           /\ T \ {Max(T)} \in SUBSET (1..(Max(T) - 1))
           /\ n \in T => Max(T) = n
  <1> DEFINE mirror == {n - m : m \in T}
  <1>1. mirror \in SUBSET Nat /\ mirror # {}
    <2>1. \A m \in T : n - m \in Nat
      OBVIOUS
    <2> QED
      BY <2>1
  <1>2. PICK k \in mirror : \A m \in mirror : k <= m
    <2> HIDE DEF mirror
    <2> QED
      BY <1>1, LeastOf
  <1>3. PICK x \in T : k = n - x
    BY <1>2
  <1>4. \A m \in T : m <= x
    <2> TAKE m \in T
    <2>1. k <= n - m
      BY <1>2
    <2> QED
      BY <2>1, <1>3
  <1>5. \E y \in T : \A m \in T : y >= m
    BY <1>3, <1>4
  <1> DEFINE top == Max(T)
  <1>6. top \in T /\ \A m \in T : top >= m
    BY <1>5, Zenon DEF Max
  <1> HIDE DEF top, mirror
  <1>7. ASSUME NEW m \in T PROVE m \in Nat /\ m \in 1..n /\ m <= top
    <2>1. m \in 1..n /\ top \in 1..n /\ top >= m
      BY <1>6
    <2> QED
      BY <2>1
  <1>8. \A m \in T : m # top => m \in 1..(top - 1)
    BY <1>6, <1>7
  <1>9. n \in T => top = n
    BY <1>6, <1>7
  <1>10. top \in 1..n /\ top - 1 \in 0..n
    BY <1>6, <1>7
  <1> QED
    BY <1>6, <1>8, <1>9, <1>10 DEF top

------------------------------------------------------------------------------
(* Sequences *)

\* FlattenSeq computes what its recursive definition says.
LEMMA FlattenDefined ==
    ASSUME NEW seqs, Len(seqs) \in Nat \ {0}
    PROVE  \E f : /\ f = [i \in 1 .. Len(seqs) |-> IF i = 1 THEN seqs[i] ELSE f[i - 1] \o seqs[i]]
                  /\ FlattenSeq(seqs) = f[Len(seqs)]
  <1> DEFINE Solves(f, m) == f = [i \in 1..m |-> IF i = 1 THEN seqs[i] ELSE f[i - 1] \o seqs[i]]
  <1>1. \A m \in 1..Len(seqs) : \E f : Solves(f, m)
    BY Recursion
  <1>2. Len(seqs) \in 1..Len(seqs)
    OBVIOUS
  <1>3. \E f : Solves(f, Len(seqs))
    BY <1>1, <1>2
  <1>4. Len(seqs) # 0
    OBVIOUS
  <1> QED
    BY Zenon, <1>3, <1>4 DEF FlattenSeq

\* The members of a concatenation.
LEMMA ToSetConcat ==
    ASSUME NEW S, NEW s \in Seq(S), NEW t \in Seq(S)
    PROVE  ToSet(s \o t) = ToSet(s) \cup ToSet(t)
  <1> DEFINE both == s \o t
             n == Len(s)
  <1>1. /\ n \in Nat /\ Len(t) \in Nat /\ DOMAIN s = 1..n /\ DOMAIN t = 1..Len(t)
        /\ DOMAIN both = 1..(n + Len(t))
        /\ \A i \in 1..(n + Len(t)) : both[i] = IF i <= n THEN s[i] ELSE t[i - n]
    BY ConcatProperties
  <1>3. /\ \A i \in DOMAIN s : i \in DOMAIN both /\ both[i] = s[i]
        /\ \A i \in DOMAIN t : n + i \in DOMAIN both /\ both[n + i] = t[i]
        /\ \A i \in DOMAIN both : \/ i \in DOMAIN s /\ both[i] = s[i]
                                  \/ i - n \in DOMAIN t /\ both[i] = t[i - n]
    <2> HIDE DEF both, n
    <2> QED
      BY <1>1
  <1> HIDE DEF both, n
  <1>4. ToSet(both) = ToSet(s) \cup ToSet(t)
    <2>1. ASSUME NEW x \in ToSet(s) PROVE x \in ToSet(both)
      BY <1>3, <2>1 DEF ToSet
    <2>2. ASSUME NEW x \in ToSet(t) PROVE x \in ToSet(both)
      BY <1>3, <2>2 DEF ToSet
    <2>3. ASSUME NEW x \in ToSet(both) PROVE x \in ToSet(s) \cup ToSet(t)
      BY <1>3, <2>3 DEF ToSet
    <2> QED
      BY <2>1, <2>2, <2>3
  <1> QED
    BY <1>4 DEF both

\* FlattenSeq is a sequence of what its parts hold.
LEMMA FlattenHolds ==
    ASSUME NEW S, NEW seqs \in Seq(Seq(S))
    PROVE  /\ FlattenSeq(seqs) \in Seq(S)
           /\ ToSet(FlattenSeq(seqs)) = UNION {ToSet(seqs[i]) : i \in DOMAIN seqs}
  <1>1. CASE Len(seqs) = 0
    <2>1. FlattenSeq(seqs) = <<>> /\ seqs = <<>>
      BY <1>1 DEF FlattenSeq
    <2> QED
      BY <2>1 DEF ToSet
  <1>2. CASE Len(seqs) # 0
    <2> DEFINE n == Len(seqs)
    <2>0. n \in Nat \ {0} /\ DOMAIN seqs = 1..n
      BY <1>2
    <2>1. PICK f : /\ f = [i \in 1 .. n |-> IF i = 1 THEN seqs[i] ELSE f[i - 1] \o seqs[i]]
                   /\ FlattenSeq(seqs) = f[n]
      BY <2>0, FlattenDefined
    <2>2. \A m \in 1..n : f[m] = IF m = 1 THEN seqs[1] ELSE f[m - 1] \o seqs[m]
      BY <2>1
    <2>3. \A m \in 1..n : seqs[m] \in Seq(S)
      OBVIOUS
    <2> DEFINE Parts(m) == UNION {ToSet(seqs[i]) : i \in 1..m}
               Right(m) == f[m] \in Seq(S) /\ ToSet(f[m]) = Parts(m)
               bad == {m \in 1..n : ~Right(m)}
    <2> HIDE DEF n
    <2>4. bad = {}
      <3> SUFFICES ASSUME bad # {} PROVE FALSE
        OBVIOUS
      <3>1. PICK m \in bad : \A k \in bad : m <= k
        <4>1. bad \in SUBSET Nat
          OBVIOUS
        <4> HIDE DEF bad
        <4> QED
          BY <4>1, LeastOf
      <3>2. m \in 1..n /\ ~Right(m)
        OBVIOUS
      <3>3. CASE m = 1
        <4>1. f[1] = seqs[1]
          BY <2>2, <3>2, <3>3
        <4>2. Parts(1) = ToSet(seqs[1])
          OBVIOUS
        <4> QED
          BY <4>1, <4>2, <2>3, <3>2, <3>3
      <3>4. CASE m # 1
        <4>1. m - 1 \in 1..n /\ m - 1 \notin bad
          <5>1. m - 1 \in 1..n /\ ~(m <= m - 1)
            BY <3>2, <3>4, <2>0
          <5> HIDE DEF bad
          <5> QED
            BY <3>1, <5>1
        <4>2. Right(m - 1)
          BY <4>1
        <4>3. f[m] = f[m - 1] \o seqs[m] /\ seqs[m] \in Seq(S)
          BY <2>2, <2>3, <3>2, <3>4
        <4>4. ToSet(f[m - 1] \o seqs[m]) = ToSet(f[m - 1]) \cup ToSet(seqs[m])
          BY <4>2, <4>3, ToSetConcat
        <4>5. f[m - 1] \o seqs[m] \in Seq(S)
          BY <4>2, <4>3
        <4>6. Parts(m) = Parts(m - 1) \cup ToSet(seqs[m])
          <5>1. 1..m = (1..(m - 1)) \cup {m}
            BY <3>2, <2>0
          <5> QED
            BY <5>1
        <4> QED
          BY <4>2, <4>3, <4>4, <4>5, <4>6, <3>2
      <3> QED
        BY <3>3, <3>4
    <2>5. n \in 1..n
      BY <2>0
    <2>6. Right(n)
      BY <2>4, <2>5
    <2> QED
      BY <2>0, <2>1, <2>6
  <1> QED
    BY <1>1, <1>2

\* A sequence around its place i.
LEMMA Around ==
    ASSUME NEW S, NEW seq \in Seq(S), NEW i \in DOMAIN seq
    PROVE  /\ SubSeq(seq, 1, i - 1) \in Seq(S)
           /\ SubSeq(seq, i + 1, Len(seq)) \in Seq(S)
           /\ ToSet(seq) = ToSet(SubSeq(seq, 1, i - 1)) \cup {seq[i]}
                              \cup ToSet(SubSeq(seq, i + 1, Len(seq)))
  <1> DEFINE left  == SubSeq(seq, 1, i - 1)
             right == SubSeq(seq, i + 1, Len(seq))
  <1>1. /\ Len(seq) \in Nat /\ DOMAIN seq = 1..Len(seq) /\ i \in 1..Len(seq)
        /\ \A j \in DOMAIN seq : seq[j] \in S
    OBVIOUS
  <1>2. /\ left \in Seq(S) /\ DOMAIN left = 1..(i - 1)
        /\ \A j \in 1..(i - 1) : left[j] = seq[j]
    BY <1>1
  <1>3. /\ right \in Seq(S) /\ DOMAIN right = 1..(Len(seq) - i)
        /\ \A j \in 1..(Len(seq) - i) : right[j] = seq[i + j]
    BY <1>1
  <1> HIDE DEF left, right
  <1>5. ToSet(left) \subseteq ToSet(seq) /\ ToSet(right) \subseteq ToSet(seq)
    <2>1. \A j \in 1..(i - 1) : j \in DOMAIN seq
      BY <1>1
    <2>2. \A j \in 1..(Len(seq) - i) : i + j \in DOMAIN seq
      BY <1>1
    <2> QED
      BY <1>2, <1>3, <2>1, <2>2 DEF ToSet
  <1>6. ASSUME NEW j \in DOMAIN seq, j # i
        PROVE  seq[j] \in ToSet(left) \cup ToSet(right)
    <2>1. CASE j < i
      <3>1. j \in 1..(i - 1)
        BY <1>1, <2>1
      <3> QED
        BY <1>2, <3>1 DEF ToSet
    <2>2. CASE j > i
      <3>1. j - i \in 1..(Len(seq) - i) /\ i + (j - i) = j
        BY <1>1, <2>2
      <3> QED
        BY <1>3, <3>1 DEF ToSet
    <2> QED
      BY <1>1, <1>6, <2>1, <2>2
  <1>7. ToSet(seq) = ToSet(left) \cup {seq[i]} \cup ToSet(right)
    <2>1. seq[i] \in ToSet(seq)
      BY DEF ToSet
    <2>2. \A x \in ToSet(seq) : x \in ToSet(left) \cup {seq[i]} \cup ToSet(right)
      BY <1>6 DEF ToSet
    <2> QED
      BY <1>5, <2>1, <2>2
  <1> QED
    BY <1>2, <1>3, <1>7 DEF left, right

\* What is left of a sequence without its place i.
LEMMA RemovedAt ==
    ASSUME NEW S, NEW seq \in Seq(S), NEW i \in DOMAIN seq
    PROVE  /\ RemoveAt(seq, i) \in Seq(S)
           /\ ToSet(RemoveAt(seq, i)) \cup {seq[i]} = ToSet(seq)
  <1> DEFINE left  == SubSeq(seq, 1, i - 1)
             right == SubSeq(seq, i + 1, Len(seq))
  <1>1. /\ left \in Seq(S) /\ right \in Seq(S)
        /\ ToSet(seq) = ToSet(left) \cup {seq[i]} \cup ToSet(right)
    BY Around
  <1>2. RemoveAt(seq, i) = left \o right
    BY DEF RemoveAt
  <1> HIDE DEF left, right
  <1>3. left \o right \in Seq(S) /\ ToSet(left \o right) = ToSet(left) \cup ToSet(right)
    BY <1>1, ToSetConcat
  <1> QED
    BY <1>1, <1>2, <1>3

\* A sequence without one of its members.
LEMMA RemoveAtIn ==
    ASSUME NEW S, NEW s \in Seq(S), NEW i \in DOMAIN s
    PROVE  RemoveAt(s, i) \in Seq(S) /\ Len(RemoveAt(s, i)) = Len(s) - 1
  <1>1. Len(s) \in Nat /\ i \in 1 .. Len(s)
    OBVIOUS
  <1>2. SubSeq(s, 1, i - 1) \in Seq(S) /\ Len(SubSeq(s, 1, i - 1)) = i - 1
    BY <1>1
  <1>3. SubSeq(s, i + 1, Len(s)) \in Seq(S) /\ Len(SubSeq(s, i + 1, Len(s))) = Len(s) - i
    BY <1>1
  <1> DEFINE left == SubSeq(s, 1, i - 1)
             right == SubSeq(s, i + 1, Len(s))
  <1> HIDE DEF left, right
  <1>4. left \o right \in Seq(S) /\ Len(left \o right) = Len(s) - 1
    <2>1. /\ left \in Seq(S) /\ right \in Seq(S) /\ Len(left) = i - 1
          /\ Len(right) = Len(s) - i
      BY <1>2, <1>3 DEF left, right
    <2>2. left \o right \in Seq(S) /\ Len(left \o right) = Len(left) + Len(right)
      BY <2>1, ConcatProperties
    <2> QED
      BY <1>1, <2>1, <2>2
  <1> QED
    BY <1>4 DEF RemoveAt, left, right

\* What is put in at place i.
LEMMA InsertedAt ==
    ASSUME NEW S, NEW s \in Seq(S), NEW x \in S, NEW i \in 1..(Len(s) + 1)
    PROVE  InsertAt(s, i, x) \in Seq(S) /\ ToSet(InsertAt(s, i, x)) = ToSet(s) \cup {x}
  <1> DEFINE left  == SubSeq(s, 1, i - 1)
             right == SubSeq(s, i, Len(s))
  <1>1. Len(s) \in Nat /\ DOMAIN s = 1..Len(s) /\ \A j \in DOMAIN s : s[j] \in S
    OBVIOUS
  <1>2. /\ left \in Seq(S) /\ DOMAIN left = 1..(i - 1)
        /\ \A j \in 1..(i - 1) : left[j] = s[j]
    BY <1>1
  <1>3. /\ right \in Seq(S) /\ DOMAIN right = 1..(Len(s) - i + 1)
        /\ \A j \in 1..(Len(s) - i + 1) : right[j] = s[i + j - 1]
    BY <1>1
  <1>4. InsertAt(s, i, x) = (left \o <<x>>) \o right
    BY DEF InsertAt
  <1> HIDE DEF left, right
  <1>5. ToSet(left) \cup ToSet(right) = ToSet(s)
    <2>1. \A j \in 1..(i - 1) : j \in DOMAIN s
      BY <1>1
    <2>2. \A j \in 1..(Len(s) - i + 1) : i + j - 1 \in DOMAIN s
      BY <1>1
    <2>3. ASSUME NEW j \in DOMAIN s PROVE s[j] \in ToSet(left) \cup ToSet(right)
      <3>1. CASE j < i
        <4>1. j \in 1..(i - 1)
          BY <1>1, <3>1
        <4> QED
          BY <1>2, <4>1 DEF ToSet
      <3>2. CASE ~(j < i)
        <4>1. j - i + 1 \in 1..(Len(s) - i + 1) /\ i + (j - i + 1) - 1 = j
          BY <1>1, <3>2
        <4> QED
          BY <1>3, <4>1 DEF ToSet
      <3> QED
        BY <3>1, <3>2
    <2>4. ToSet(left) \subseteq ToSet(s) /\ ToSet(right) \subseteq ToSet(s)
      BY <1>2, <1>3, <2>1, <2>2 DEF ToSet
    <2>5. \A y \in ToSet(s) : y \in ToSet(left) \cup ToSet(right)
      BY <2>3 DEF ToSet
    <2> QED
      BY <2>4, <2>5
  <1> DEFINE new == <<x>>
             both == left \o new
             whole == both \o right
  <1>6. new \in Seq(S) /\ ToSet(new) = {x}
    BY DEF ToSet
  <1> HIDE DEF new
  <1>7. both \in Seq(S) /\ ToSet(both) = ToSet(left) \cup ToSet(new)
    BY <1>2, <1>6, ToSetConcat
  <1> HIDE DEF both
  <1>8. whole \in Seq(S) /\ ToSet(whole) = ToSet(both) \cup ToSet(right)
    BY <1>3, <1>7, ToSetConcat
  <1>9. InsertAt(s, i, x) = whole
    BY <1>4 DEF whole, both, new
  <1> HIDE DEF whole
  <1> QED
    BY <1>5, <1>6, <1>7, <1>8, <1>9

\* What a filter leaves.
LEMMA RetainedIn ==
    ASSUME NEW S, NEW s \in Seq(S), NEW T
    PROVE  Retained(s, T) \in Seq(S \cap T)
  <1> DEFINE parts == [i \in DOMAIN s |-> IF s[i] \in T THEN <<s[i]>> ELSE <<>>]
  <1>1. DOMAIN s = 1 .. Len(s) /\ Len(s) \in Nat /\ \A i \in DOMAIN s : s[i] \in S
    OBVIOUS
  <1>2. \A i \in DOMAIN s : (IF s[i] \in T THEN <<s[i]>> ELSE <<>>) \in Seq(S \cap T)
    <2> TAKE i \in DOMAIN s
    <2>1. CASE s[i] \in T
      <3>1. s[i] \in S \cap T
        BY <1>1, <2>1
      <3> QED
        BY <2>1, <3>1
    <2>2. CASE s[i] \notin T
      BY <2>2
    <2> QED
      BY <2>1, <2>2
  <1>3. parts \in Seq(Seq(S \cap T))
    BY <1>1, <1>2
  <1>4. Retained(s, T) = FlattenSeq(parts)
    BY DEF Retained
  <1> HIDE DEF parts
  <1> QED
    BY <1>3, <1>4, FlattenHolds

\* It keeps every member of s that it is to keep.
LEMMA RetainedHolds ==
    ASSUME NEW S, NEW s \in Seq(S), NEW T
    PROVE  Retained(s, T) \in Seq(S) /\ ToSet(Retained(s, T)) = ToSet(s) \cap T
  <1> DEFINE part(i) == IF s[i] \in T THEN <<s[i]>> ELSE <<>>
             parts == [i \in DOMAIN s |-> part(i)]
  <1>1. DOMAIN s = 1 .. Len(s) /\ Len(s) \in Nat /\ \A i \in DOMAIN s : s[i] \in S
    OBVIOUS
  <1>2. \A i \in DOMAIN s : part(i) \in Seq(S)
    BY <1>1
  <1>3. \A i \in DOMAIN s : ToSet(part(i)) = {s[i]} \cap T
    BY DEF ToSet
  <1>4. Retained(s, T) = FlattenSeq(parts)
    BY DEF Retained
  <1> HIDE DEF part
  <1>5. parts \in Seq(Seq(S)) /\ DOMAIN parts = DOMAIN s /\ \A i \in DOMAIN s : parts[i] = part(i)
    BY <1>1, <1>2
  <1> HIDE DEF parts
  <1>6. /\ Retained(s, T) \in Seq(S)
        /\ ToSet(Retained(s, T)) = UNION {ToSet(parts[i]) : i \in DOMAIN parts}
    BY <1>4, <1>5, FlattenHolds
  <1>7. \A x : x \in ToSet(Retained(s, T)) <=> \E i \in DOMAIN s : x \in {s[i]} \cap T
    BY <1>3, <1>5, <1>6
  <1>8. \A x : x \in ToSet(s) \cap T <=> \E i \in DOMAIN s : x \in {s[i]} \cap T
    BY DEF ToSet
  <1>9. ToSet(Retained(s, T)) = ToSet(s) \cap T
    BY <1>7, <1>8
  <1> QED
    BY <1>6, <1>9

\* The members of a finite set in a sequence, each once.
LEMMA SetToSeqIn ==
    ASSUME NEW S, IsFiniteSet(S)
    PROVE  /\ SetToSeq(S) \in Seq(S)
           /\ \A i, j \in DOMAIN SetToSeq(S) : SetToSeq(S)[i] = SetToSeq(S)[j] => i = j
  <1> DEFINE n == Cardinality(S)
  <1>1. n \in Nat /\ ExistsBijection(1..n, S)
    BY FS_CardinalityType
  <1>2. \E f \in [1..n -> S] : IsInjective(f)
    BY <1>1, Zenon DEF ExistsBijection, Bijection, Injection
  <1>3. SetToSeq(S) \in [1..n -> S] /\ IsInjective(SetToSeq(S))
    BY <1>2, Zenon DEF SetToSeq
  <1>4. \A i, j \in DOMAIN SetToSeq(S) : SetToSeq(S)[i] = SetToSeq(S)[j] => i = j
    BY <1>3, Zenon DEF IsInjective
  <1> HIDE DEF n
  <1> QED
    BY <1>1, <1>3, <1>4

\* Each of them is in it.
LEMMA SetToSeqHolds ==
    ASSUME NEW S, IsFiniteSet(S)
    PROVE  ToSet(SetToSeq(S)) = S
  <1> DEFINE n == Cardinality(S)
             seq == SetToSeq(S)
  <1>1. n \in Nat /\ ExistsBijection(1..n, S)
    BY FS_CardinalityType
  <1>2. \E f \in [1..n -> S] : IsInjective(f)
    BY <1>1, Zenon DEF ExistsBijection, Bijection, Injection
  <1>3. seq \in [1..n -> S] /\ IsInjective(seq)
    BY <1>2, Zenon DEF SetToSeq
  <1>4. seq \in Injection(1..n, S)
    BY <1>3, Zenon DEF Injection
  <1>5. Cardinality(1..n) = n
    BY <1>1, FS_Interval
  <1> HIDE DEF seq
  <1>6. seq \in Surjection(1..n, S)
    BY <1>4, <1>5, FS_Injection
  <1>7. \A x \in S : \E i \in 1..n : seq[i] = x
    BY <1>6, Zenon DEF Surjection
  <1> HIDE DEF n
  <1>8. ToSet(seq) = S
    BY <1>3, <1>7 DEF ToSet
  <1> QED
    BY <1>8 DEF seq

------------------------------------------------------------------------------
(* Folds *)

\* f is defined along the greatest members of sets: at s it is what step makes
\* of what it is without the greatest member of s.
Folds(f, A, base, n, step) ==
    /\ f \in [SUBSET (1..n) -> A]
    /\ \A s \in SUBSET (1..n) : f[s] = IF s = {} THEN base ELSE step[<<s, f[s \ {Max(s)}]>>]

\* There is such a function.
LEMMA FoldThere ==
    ASSUME NEW A, NEW base \in A, NEW n \in Nat, NEW step \in [(SUBSET (1..n)) \X A -> A]
    PROVE  \E f : Folds(f, A, base, n, step)
  <1> DEFINE Rule(f, s) == IF s = {} THEN base ELSE step[<<s, f[s \ {Max(s)}]>>]
             Solved(m) == \E f \in [SUBSET (1..m) -> A] : \A s \in SUBSET (1..m) : f[s] = Rule(f, s)
             bad == {m \in 0..n : ~Solved(m)}
  <1> SUFFICES bad = {}
    <2>1. n \in 0..n
      OBVIOUS
    <2>2. Solved(n)
      BY <2>1
    <2> QED
      BY <2>2 DEF Folds
  <1> SUFFICES ASSUME bad # {} PROVE FALSE
    OBVIOUS
  <1>1. PICK m \in bad : \A k \in bad : m <= k
    <2>1. bad \in SUBSET Nat
      OBVIOUS
    <2> HIDE DEF bad
    <2> QED
      BY <2>1, LeastOf
  <1>2. m \in 0..n /\ ~Solved(m)
    BY <1>1
  <1> HIDE DEF bad, Solved
  <1>3. CASE m = 0
    <2> DEFINE f == [s \in SUBSET (1..m) |-> base]
    <2>1. \A s \in SUBSET (1..m) : s = {} /\ f[s] = base
      BY <1>3
    <2>2. \A s \in SUBSET (1..m) : f[s] = Rule(f, s)
      BY <2>1
    <2>3. f \in [SUBSET (1..m) -> A]
      OBVIOUS
    <2> HIDE DEF f, Rule
    <2> QED
      BY <1>2, <2>2, <2>3 DEF Solved
  <1>4. CASE m # 0
    <2>1. m - 1 \in 0..n /\ ~(m <= m - 1) /\ 1..(m - 1) \subseteq 1..m
      BY <1>2, <1>4
    <2>2. m - 1 \notin bad
      BY <1>1, <2>1
    <2>3. PICK g \in [SUBSET (1..(m - 1)) -> A] : \A s \in SUBSET (1..(m - 1)) : g[s] = Rule(g, s)
      <3>1. Solved(m - 1)
        BY <2>1, <2>2 DEF bad
      <3> QED
        BY <3>1 DEF Solved
    <2> DEFINE f == [s \in SUBSET (1..m) |-> IF m \in s THEN step[<<s, g[s \ {m}]>>] ELSE g[s]]
    <2>4. \A s \in SUBSET (1..m) : /\ m \in s => s \ {m} \in SUBSET (1..(m - 1)) /\ Max(s) = m
                                   /\ m \notin s => s \in SUBSET (1..(m - 1))
      <3> TAKE s \in SUBSET (1..m)
      <3>1. \A k \in s : k = m \/ k \in 1..(m - 1)
        BY <1>2
      <3>2. ASSUME m \in s PROVE Max(s) = m
        <4>1. m \in Nat /\ s # {}
          BY <1>2, <3>2
        <4> QED
          BY <4>1, <3>2, MaxIn
      <3> QED
        BY <3>1, <3>2
    <2>5. \A s \in SUBSET (1..m) : s \in SUBSET (1..n)
      BY <1>2
    <2>6. f \in [SUBSET (1..m) -> A]
      <3>1. \A s \in SUBSET (1..m) : m \in s => step[<<s, g[s \ {m}]>>] \in A
        BY <2>4, <2>5
      <3>2. \A s \in SUBSET (1..m) : m \notin s => g[s] \in A
        BY <2>4
      <3> QED
        BY <3>1, <3>2
    <2>7. ASSUME NEW s \in SUBSET (1..m) PROVE f[s] = Rule(f, s)
      <3>1. CASE m \in s
        <4>1. /\ Max(s) = m /\ s # {} /\ s \ {m} \in SUBSET (1..m) /\ m \notin s \ {m}
              /\ f[s] = step[<<s, g[s \ {m}]>>]
          BY <2>4, <3>1
        <4>2. f[s \ {m}] = g[s \ {m}]
          BY <4>1
        <4> HIDE DEF f
        <4> QED
          BY <4>1, <4>2
      <3>2. CASE m \notin s /\ s # {}
        <4>1. s \in SUBSET (1..(m - 1)) /\ f[s] = g[s]
          BY <2>4, <3>2
        <4>0. m - 1 \in Nat
          BY <1>2, <1>4
        <4>2. Max(s) \in s
          BY <4>0, <4>1, <3>2, MaxIn
        <4>3. s \ {Max(s)} \in SUBSET (1..m) /\ m \notin s \ {Max(s)}
          BY <3>2
        <4>4. f[s \ {Max(s)}] = g[s \ {Max(s)}]
          BY <4>3
        <4>5. g[s] = step[<<s, g[s \ {Max(s)}]>>]
          BY <4>1, <2>3, <3>2
        <4> HIDE DEF f
        <4> QED
          BY <4>1, <4>4, <4>5, <3>2
      <3>3. CASE s = {}
        <4>1. s \in SUBSET (1..(m - 1)) /\ m \notin s
          BY <3>3
        <4>2. f[s] = g[s] /\ g[s] = base
          BY <4>1, <2>3, <3>3
        <4> HIDE DEF f
        <4> QED
          BY <4>2, <3>3
      <3> QED
        BY <3>1, <3>2, <3>3
    <2> HIDE DEF f, Rule
    <2> QED
      BY <1>2, <2>6, <2>7 DEF Solved
  <1> QED
    BY <1>3, <1>4

\* What holds of the beginning, and of each set as soon as it does without the
\* greatest member of it, holds of all.
LEMMA FoldStays ==
    ASSUME NEW A, NEW n \in Nat, NEW f, f[{}] \in A,
           \A s \in SUBSET (1..n) : s # {} /\ f[s \ {Max(s)}] \in A => f[s] \in A
    PROVE  f[1..n] \in A
  <1> DEFINE bad == {m \in 0..n : \E s \in SUBSET (1..m) : f[s] \notin A}
  <1>1. bad = {}
    <2> SUFFICES ASSUME bad # {} PROVE FALSE
      OBVIOUS
    <2>1. PICK m \in bad : \A k \in bad : m <= k
      <3>1. bad \in SUBSET Nat
        OBVIOUS
      <3> HIDE DEF bad
      <3> QED
        BY <3>1, LeastOf
    <2>2. PICK s \in SUBSET (1..m) : f[s] \notin A
      BY <2>1
    <2>3. m \in 0..n /\ m \in Nat
      BY <2>1
    <2>4. s # {}
      BY <2>2
    <2> DEFINE top == Max(s)
    <2>5. top - 1 \in 0..m /\ top \in 1..m /\ s \ {top} \in SUBSET (1..(top - 1))
      BY <2>3, <2>4, MaxIn
    <2> HIDE DEF bad, top
    <2>6. top - 1 \in 0..n /\ ~(m <= top - 1)
      BY <2>3, <2>5
    <2>7. top - 1 \notin bad
      BY <2>1, <2>6
    <2>8. f[s \ {top}] \in A
      BY <2>5, <2>6, <2>7 DEF bad
    <2>9. s \in SUBSET (1..n)
      BY <2>3
    <2> QED
      BY <2>2, <2>4, <2>8, <2>9 DEF top
  <1>2. n \in 0..n /\ 1..n \in SUBSET (1..n)
    OBVIOUS
  <1> QED
    BY <1>1, <1>2

\* The sets along which a fold goes.
LEMMA Stages ==
    ASSUME NEW n \in Nat
    PROVE  /\ 1..0 = {}
           /\ \A i \in 1..n : /\ 1..i \in SUBSET (1..n) /\ 1..i # {}
                              /\ Max(1..i) = i /\ (1..i) \ {i} = 1..(i - 1)
  <1>1. ASSUME NEW i \in 1..n PROVE Max(1..i) = i
    <2>1. i \in Nat /\ 1..i # {} /\ i \in 1..i
      OBVIOUS
    <2> QED
      BY <2>1, MaxIn
  <1> QED
    BY <1>1

------------------------------------------------------------------------------
(* Sequences of which no two members share anything *)

\* What the members of a sequence have, where x has F[x]; and that no two of
\* them have the same.
Covered(s, F) == UNION {F[s[i]] : i \in DOMAIN s}
Apart(s, F) == \A i, j \in DOMAIN s : F[s[i]] \cap F[s[j]] # {} => i = j

\* It depends on the members only.
LEMMA CoveredIs ==
    ASSUME NEW s, NEW F
    PROVE  Covered(s, F) = UNION {F[x] : x \in ToSet(s)}
  BY DEF Covered, ToSet

\* Two such sequences in one.
LEMMA ApartConcat ==
    ASSUME NEW S, NEW s \in Seq(S), NEW t \in Seq(S), NEW F
    PROVE  /\ Covered(s \o t, F) = Covered(s, F) \cup Covered(t, F)
           /\ Apart(s \o t, F) <=> /\ Apart(s, F) /\ Apart(t, F)
                                   /\ Covered(s, F) \cap Covered(t, F) = {}
  <1> DEFINE both == s \o t
             n == Len(s)
  <1>1. /\ n \in Nat /\ Len(t) \in Nat /\ DOMAIN s = 1..n /\ DOMAIN t = 1..Len(t)
        /\ DOMAIN both = 1..(n + Len(t))
        /\ \A i \in 1..(n + Len(t)) : both[i] = IF i <= n THEN s[i] ELSE t[i - n]
    BY ConcatProperties
  <1>2. /\ \A i \in DOMAIN s : i \in DOMAIN both /\ both[i] = s[i]
        /\ \A i \in DOMAIN t : n + i \in DOMAIN both /\ both[n + i] = t[i]
        /\ \A i \in DOMAIN both : \/ i \in DOMAIN s /\ both[i] = s[i]
                                  \/ i - n \in DOMAIN t /\ both[i] = t[i - n]
    <2> HIDE DEF both, n
    <2> QED
      BY <1>1
  <1>6. /\ \A i \in DOMAIN s, j \in DOMAIN t : i # n + j
        /\ \A i, j \in DOMAIN t : n + i = n + j => i = j
        /\ \A i, j \in DOMAIN both : i - n = j - n => i = j
    <2> HIDE DEF both, n
    <2> QED
      BY <1>1
  <1> HIDE DEF both, n
  <1>3. Covered(both, F) = Covered(s, F) \cup Covered(t, F)
    <2>1. \A x : x \in Covered(both, F) <=> \E i \in DOMAIN both : x \in F[both[i]]
      BY DEF Covered
    <2>2. \A x : x \in Covered(s, F) <=> \E i \in DOMAIN s : x \in F[s[i]]
      BY DEF Covered
    <2>3. \A x : x \in Covered(t, F) <=> \E i \in DOMAIN t : x \in F[t[i]]
      BY DEF Covered
    <2>4. ASSUME NEW x \in Covered(both, F) PROVE x \in Covered(s, F) \cup Covered(t, F)
      BY <1>2, <2>1, <2>2, <2>3
    <2>5. ASSUME NEW x \in Covered(s, F) \cup Covered(t, F) PROVE x \in Covered(both, F)
      BY <1>2, <2>1, <2>2, <2>3
    <2> QED
      BY <2>4, <2>5
  <1>4. ASSUME Apart(both, F)
        PROVE  Apart(s, F) /\ Apart(t, F) /\ Covered(s, F) \cap Covered(t, F) = {}
    <2>1. Apart(s, F)
      BY <1>2, <1>4 DEF Apart
    <2>2. Apart(t, F)
      <3> SUFFICES ASSUME NEW i \in DOMAIN t, NEW j \in DOMAIN t, F[t[i]] \cap F[t[j]] # {}
                   PROVE  i = j
        BY DEF Apart
      <3>1. /\ n + i \in DOMAIN both /\ n + j \in DOMAIN both
            /\ both[n + i] = t[i] /\ both[n + j] = t[j]
        BY <1>2
      <3>2. n + i = n + j
        BY <3>1, <1>4 DEF Apart
      <3> QED
        BY <3>2, <1>6
    <2>3. ASSUME NEW x \in Covered(s, F) \cap Covered(t, F) PROVE FALSE
      <3>1. PICK i \in DOMAIN s : x \in F[s[i]]
        BY <2>3 DEF Covered
      <3>2. PICK j \in DOMAIN t : x \in F[t[j]]
        BY <2>3 DEF Covered
      <3>3. x \in F[both[i]] \cap F[both[n + j]] /\ i \in DOMAIN both /\ n + j \in DOMAIN both
        BY <1>2, <3>1, <3>2
      <3>4. i = n + j
        BY <3>3, <1>4 DEF Apart
      <3> QED
        BY <3>4, <1>6
    <2> QED
      BY <2>1, <2>2, <2>3
  <1>5. ASSUME Apart(s, F), Apart(t, F), Covered(s, F) \cap Covered(t, F) = {}
        PROVE  Apart(both, F)
    <2> SUFFICES ASSUME NEW i \in DOMAIN both, NEW j \in DOMAIN both,
                        NEW x \in F[both[i]] \cap F[both[j]]
                 PROVE  i = j
      BY DEF Apart
    <2>1. CASE i \in DOMAIN s /\ both[i] = s[i] /\ j \in DOMAIN s /\ both[j] = s[j]
      BY <1>5, <2>1 DEF Apart
    <2>2. CASE i - n \in DOMAIN t /\ both[i] = t[i - n] /\ j - n \in DOMAIN t /\ both[j] = t[j - n]
      <3>1. i - n = j - n
        BY <1>5, <2>2 DEF Apart
      <3> QED
        BY <3>1, <1>6
    <2>3. CASE i \in DOMAIN s /\ both[i] = s[i] /\ j - n \in DOMAIN t /\ both[j] = t[j - n]
      <3>1. x \in Covered(s, F) /\ x \in Covered(t, F)
        BY <2>3 DEF Covered
      <3> QED
        BY <3>1, <1>5
    <2>4. CASE j \in DOMAIN s /\ both[j] = s[j] /\ i - n \in DOMAIN t /\ both[i] = t[i - n]
      <3>1. x \in Covered(s, F) /\ x \in Covered(t, F)
        BY <2>4 DEF Covered
      <3> QED
        BY <3>1, <1>5
    <2> QED
      BY <1>2, <2>1, <2>2, <2>3, <2>4
  <1> QED
    BY <1>3, <1>4, <1>5 DEF both

\* Many such sequences in one.
LEMMA FlattenApart ==
    ASSUME NEW S, NEW seqs \in Seq(Seq(S)), NEW F,
           \A i \in DOMAIN seqs : Apart(seqs[i], F),
           \A i, j \in DOMAIN seqs : Covered(seqs[i], F) \cap Covered(seqs[j], F) # {} => i = j
    PROVE  /\ Apart(FlattenSeq(seqs), F)
           /\ Covered(FlattenSeq(seqs), F) = UNION {Covered(seqs[i], F) : i \in DOMAIN seqs}
  <1>1. CASE Len(seqs) = 0
    <2>1. FlattenSeq(seqs) = <<>> /\ seqs = <<>>
      BY <1>1 DEF FlattenSeq
    <2> QED
      BY <2>1 DEF Apart, Covered
  <1>2. CASE Len(seqs) # 0
    <2> DEFINE n == Len(seqs)
    <2>0. n \in Nat \ {0} /\ DOMAIN seqs = 1..n
      BY <1>2
    <2>1. PICK f : /\ f = [i \in 1 .. n |-> IF i = 1 THEN seqs[i] ELSE f[i - 1] \o seqs[i]]
                   /\ FlattenSeq(seqs) = f[n]
      BY <2>0, FlattenDefined
    <2>2. \A m \in 1..n : f[m] = IF m = 1 THEN seqs[1] ELSE f[m - 1] \o seqs[m]
      BY <2>1
    <2>3. \A m \in 1..n : seqs[m] \in Seq(S)
      OBVIOUS
    <2> DEFINE Part(i) == Covered(seqs[i], F)
               Parts(m) == UNION {Part(i) : i \in 1..m}
               Right(m) == f[m] \in Seq(S) /\ Apart(f[m], F) /\ Covered(f[m], F) = Parts(m)
               T == {0} \cup {m \in 1..n : Right(m)}
    <2>4. \A m \in 1..n : Apart(seqs[m], F)
      BY <2>0
    <2>5. \A i, j \in 1..n : Part(i) \cap Part(j) # {} => i = j
      BY <2>0
    <2> HIDE DEF n, Part
    <2>6. ASSUME NEW m \in 1..n, m - 1 \in T PROVE m \in T
      <3>1. CASE m = 1
        <4>1. f[1] = seqs[1] /\ Parts(1) = Part(1)
          BY <2>2, <3>1
        <4> QED
          BY <4>1, <2>3, <2>4, <3>1 DEF Part
      <3>2. CASE m # 1
        <4>1. m - 1 \in 1..n /\ m - 1 # 0 /\ m \in Nat
          BY <3>2, <2>0
        <4>2. Right(m - 1)
          BY <4>1, <2>6
        <4>3. f[m] = f[m - 1] \o seqs[m] /\ seqs[m] \in Seq(S)
          BY <2>2, <2>3, <3>2
        <4>4. Parts(m) = Parts(m - 1) \cup Part(m)
          <5>1. 1..m = (1..(m - 1)) \cup {m}
            BY <4>1
          <5> QED
            BY <5>1
        <4>5. Parts(m - 1) \cap Part(m) = {}
          <5>1. \A i \in 1..(m - 1) : i \in 1..n /\ i # m
            BY <4>1, <2>0
          <5> QED
            BY <5>1, <2>5
        <4> DEFINE old == f[m - 1]
                   whole == old \o seqs[m]
        <4>6. old \in Seq(S) /\ Apart(old, F) /\ Covered(old, F) = Parts(m - 1)
          BY <4>2
        <4> HIDE DEF old, Parts
        <4>7. /\ Covered(whole, F) = Covered(old, F) \cup Part(m)
              /\ Apart(whole, F)
          BY <4>3, <4>5, <4>6, <2>4, ApartConcat DEF Part
        <4>8. whole \in Seq(S)
          BY <4>3, <4>6
        <4>9. f[m] = whole
          BY <4>3 DEF old
        <4> HIDE DEF whole
        <4>10. f[m] \in Seq(S) /\ Apart(f[m], F) /\ Covered(f[m], F) = Parts(m)
          BY <4>4, <4>6, <4>7, <4>8, <4>9
        <4> QED
          BY <4>10
      <3> QED
        BY <3>1, <3>2
    <2>7. 0 \in T
      OBVIOUS
    <2> HIDE DEF T
    <2>8. 0..n \subseteq T
      BY <2>0, <2>6, <2>7, UpTo
    <2>9. n \in T /\ n \in 1..n /\ n # 0
      BY <2>0, <2>8
    <2>10. Right(n)
      BY <2>9 DEF T
    <2> QED
      BY <2>0, <2>1, <2>10 DEF Part
  <1> QED
    BY <1>1, <1>2

\* A filter leaves such a sequence if what it keeps is apart.
LEMMA RetainedApart ==
    ASSUME NEW S, NEW s \in Seq(S), NEW T, NEW F,
           \A i, j \in DOMAIN s :
               s[i] \in T /\ s[j] \in T /\ F[s[i]] \cap F[s[j]] # {} => i = j
    PROVE  Apart(Retained(s, T), F)
  <1> DEFINE part(i) == IF s[i] \in T THEN <<s[i]>> ELSE <<>>
             parts == [i \in DOMAIN s |-> part(i)]
  <1>1. DOMAIN s = 1 .. Len(s) /\ Len(s) \in Nat /\ \A i \in DOMAIN s : s[i] \in S
    OBVIOUS
  <1>2. ASSUME NEW i \in DOMAIN s
        PROVE  part(i) \in Seq(S) /\ Apart(part(i), F)
               /\ Covered(part(i), F) = IF s[i] \in T THEN F[s[i]] ELSE {}
    BY <1>1 DEF Apart, Covered
  <1>3. Retained(s, T) = FlattenSeq(parts)
    BY DEF Retained
  <1> HIDE DEF part
  <1>4. parts \in Seq(Seq(S)) /\ DOMAIN parts = DOMAIN s /\ \A i \in DOMAIN s : parts[i] = part(i)
    BY <1>1, <1>2
  <1> HIDE DEF parts
  <1>5. \A i \in DOMAIN parts : Apart(parts[i], F)
    BY <1>2, <1>4
  <1>6. \A i, j \in DOMAIN parts : Covered(parts[i], F) \cap Covered(parts[j], F) # {} => i = j
    BY <1>2, <1>4
  <1> QED
    BY <1>3, <1>4, <1>5, <1>6, FlattenApart

\* A sequence in three parts.
LEMMA InParts ==
    ASSUME NEW S, NEW s \in Seq(S), NEW i \in Nat \ {0}, NEW j \in Nat,
           i <= j + 1, j <= Len(s)
    PROVE  /\ SubSeq(s, 1, i - 1) \in Seq(S) /\ SubSeq(s, i, j) \in Seq(S)
           /\ SubSeq(s, j + 1, Len(s)) \in Seq(S)
           /\ s = SubSeq(s, 1, i - 1) \o SubSeq(s, i, j) \o SubSeq(s, j + 1, Len(s))
  <1> DEFINE n == Len(s)
             a == SubSeq(s, 1, i - 1)
             b == SubSeq(s, i, j)
             c == SubSeq(s, j + 1, n)
  <1>1. n \in Nat /\ DOMAIN s = 1..n
    OBVIOUS
  <1>2. /\ a \in Seq(S) /\ Len(a) = i - 1 /\ \A k \in 1..(i - 1) : a[k] = s[k]
        /\ b \in Seq(S) /\ Len(b) = j - i + 1 /\ \A k \in 1..(j - i + 1) : b[k] = s[i + k - 1]
        /\ c \in Seq(S) /\ Len(c) = n - j /\ \A k \in 1..(n - j) : c[k] = s[j + k]
    <2>1. /\ a \in Seq(S) /\ Len(a) = i - 1 /\ \A k \in 1..(i - 1) : a[k] = s[k]
      BY <1>1
    <2>2. /\ b \in Seq(S) /\ Len(b) = j - i + 1 /\ \A k \in 1..(j - i + 1) : b[k] = s[i + k - 1]
      BY <1>1
    <2>3. /\ c \in Seq(S) /\ Len(c) = n - j /\ \A k \in 1..(n - j) : c[k] = s[j + k]
      <3>1. j + 1 \in Int /\ n \in Int /\ \A k \in (j + 1)..n : s[k] \in S
        BY <1>1
      <3>2. /\ c \in Seq(S) /\ Len(c) = IF j + 1 <= n THEN n - (j + 1) + 1 ELSE 0
            /\ \A k \in 1..(n - (j + 1) + 1) : c[k] = s[(j + 1) + k - 1]
        BY <3>1, SubSeqProperties
      <3> HIDE DEF c, n
      <3>3. n - (j + 1) + 1 = n - j /\ \A k \in 1..(n - j) : (j + 1) + k - 1 = j + k
        BY <1>1
      <3>4. Len(c) = n - j
        BY <3>2, <1>1 DEF n
      <3>5. \A k \in 1..(n - j) : c[k] = s[j + k]
        BY <3>2, <3>3
      <3> QED
        BY <3>2, <3>4, <3>5
    <2> HIDE DEF a, b, c
    <2> QED
      BY <2>1, <2>2, <2>3
  <1> HIDE DEF a, b, c
  <1> DEFINE ab == a \o b
             abc == ab \o c
  <1>3. /\ ab \in Seq(S) /\ Len(ab) = j
        /\ \A k \in 1..j : ab[k] = s[k]
    <2>0. a \in Seq(S) /\ b \in Seq(S)
      BY <1>2
    <2>1. /\ ab \in Seq(S) /\ Len(ab) = Len(a) + Len(b)
          /\ \A k \in 1..(Len(a) + Len(b)) : ab[k] = IF k <= Len(a) THEN a[k] ELSE b[k - Len(a)]
      BY <2>0, ConcatProperties
    <2>2. \A k \in 1..(Len(a) + Len(b)) : ab[k] = IF k <= Len(a) THEN a[k] ELSE b[k - Len(a)]
      BY <2>1
    <2> HIDE DEF ab
    <2>3. ASSUME NEW k \in 1..j PROVE ab[k] = s[k]
      <3>1. CASE k <= i - 1
        BY <3>1, <2>2, <1>2
      <3>2. CASE ~(k <= i - 1)
        <4>1. k - (i - 1) \in 1..(j - i + 1) /\ i + (k - (i - 1)) - 1 = k
          BY <3>2
        <4>2. ab[k] = b[k - (i - 1)]
          BY <3>2, <2>2, <1>2
        <4>3. b[k - (i - 1)] = s[k]
          BY <4>1, <1>2
        <4> QED
          BY <4>2, <4>3
      <3> QED
        BY <3>1, <3>2
    <2> QED
      BY <2>1, <2>3, <1>2
  <1> HIDE DEF ab, n
  <1>4. /\ abc \in Seq(S) /\ Len(abc) = n
        /\ \A k \in 1..n : abc[k] = s[k]
    <2>0. ab \in Seq(S) /\ c \in Seq(S)
      BY <1>2, <1>3
    <2>1. /\ abc \in Seq(S) /\ Len(abc) = Len(ab) + Len(c)
          /\ \A k \in 1..(Len(ab) + Len(c)) : abc[k] = IF k <= Len(ab) THEN ab[k] ELSE c[k - Len(ab)]
      BY <2>0, ConcatProperties
    <2>2. \A k \in 1..(Len(ab) + Len(c)) : abc[k] = IF k <= Len(ab) THEN ab[k] ELSE c[k - Len(ab)]
      BY <2>1
    <2> HIDE DEF abc
    <2>3. ASSUME NEW k \in 1..n PROVE abc[k] = s[k]
      <3>1. CASE k <= j
        <4>1. k \in 1..j /\ k \in 1..(Len(ab) + Len(c)) /\ k <= Len(ab)
          BY <3>1, <1>1, <1>2, <1>3
        <4>2. abc[k] = ab[k]
          BY <4>1, <2>2
        <4>3. ab[k] = s[k]
          BY <4>1, <1>3
        <4> QED
          BY <4>2, <4>3
      <3>2. CASE ~(k <= j)
        <4>1. k - j \in 1..(n - j) /\ j + (k - j) = k /\ k \in 1..(Len(ab) + Len(c))
          BY <3>2, <1>1, <1>2, <1>3
        <4>2. abc[k] = c[k - j]
          BY <3>2, <4>1, <2>2, <1>3
        <4> QED
          BY <4>1, <4>2, <1>2
      <3> QED
        BY <3>1, <3>2
    <2> QED
      BY <2>1, <2>3, <1>1, <1>2, <1>3
  <1> HIDE DEF abc
  <1>5. abc = s
    <2>1. s \in Seq(S) /\ Len(s) = n
      BY DEF n
    <2> QED
      BY <1>4, <2>1, <1>1
  <1> QED
    BY <1>2, <1>5 DEF abc, ab, a, b, c, n

\* A part of such a sequence replaced by another.
LEMMA ReplacedApart ==
    ASSUME NEW S, NEW s \in Seq(S), NEW new \in Seq(S), NEW i \in Nat \ {0}, NEW j \in Nat,
           i <= j + 1, j <= Len(s), NEW F, Apart(s, F), Apart(new, F),
           Covered(new, F) \cap (Covered(s, F) \ Covered(SubSeq(s, i, j), F)) = {}
    PROVE  LET t == SubSeq(s, 1, i - 1) \o new \o SubSeq(s, j + 1, Len(s))
           IN  /\ t \in Seq(S) /\ Apart(t, F)
               /\ Covered(t, F) = (Covered(s, F) \ Covered(SubSeq(s, i, j), F)) \cup Covered(new, F)
  <1> DEFINE a == SubSeq(s, 1, i - 1)
             b == SubSeq(s, i, j)
             c == SubSeq(s, j + 1, Len(s))
             ab == a \o b
             an == a \o new
             t == an \o c
  <1>1. a \in Seq(S) /\ b \in Seq(S) /\ c \in Seq(S) /\ s = ab \o c
    BY InParts
  <1> HIDE DEF a, b, c
  <1>2. ab \in Seq(S) /\ an \in Seq(S)
    BY <1>1
  <1>3. /\ Covered(ab, F) = Covered(a, F) \cup Covered(b, F)
        /\ Apart(ab, F) <=> Apart(a, F) /\ Apart(b, F) /\ Covered(a, F) \cap Covered(b, F) = {}
    BY <1>1, ApartConcat
  <1>4. /\ Covered(an, F) = Covered(a, F) \cup Covered(new, F)
        /\ Apart(an, F) <=> Apart(a, F) /\ Apart(new, F) /\ Covered(a, F) \cap Covered(new, F) = {}
    BY <1>1, ApartConcat
  <1> HIDE DEF ab, an
  <1>5. /\ Covered(s, F) = Covered(ab, F) \cup Covered(c, F)
        /\ Apart(ab, F) /\ Apart(c, F) /\ Covered(ab, F) \cap Covered(c, F) = {}
    BY <1>1, <1>2, ApartConcat
  <1>6. /\ Covered(t, F) = Covered(an, F) \cup Covered(c, F)
        /\ Apart(t, F) <=> Apart(an, F) /\ Apart(c, F) /\ Covered(an, F) \cap Covered(c, F) = {}
    BY <1>1, <1>2, ApartConcat
  <1>7. t \in Seq(S)
    BY <1>1, <1>2
  <1>8. Covered(new, F) \cap (Covered(s, F) \ Covered(b, F)) = {}
    BY DEF b
  <1>9. Covered(s, F) \ Covered(b, F) = Covered(a, F) \cup Covered(c, F)
    BY <1>3, <1>5
  <1>10. Apart(t, F) /\ Covered(t, F) = (Covered(s, F) \ Covered(b, F)) \cup Covered(new, F)
    BY <1>3, <1>4, <1>5, <1>6, <1>8, <1>9
  <1> HIDE DEF t
  <1> QED
    BY <1>7, <1>10 DEF t, an, a, b, c

\* Short ones.
LEMMA FewApart ==
    ASSUME NEW F
    PROVE  /\ Apart(<<>>, F) /\ Covered(<<>>, F) = {}
           /\ \A x : Apart(<<x>>, F) /\ Covered(<<x>>, F) = F[x]
           /\ \A x, y : F[x] \cap F[y] = {} =>
                  Apart(<<x, y>>, F) /\ Covered(<<x, y>>, F) = F[x] \cup F[y]
  <1>1. Apart(<<>>, F) /\ Covered(<<>>, F) = {}
    BY DEF Apart, Covered
  <1>2. ASSUME NEW x PROVE Apart(<<x>>, F) /\ Covered(<<x>>, F) = F[x]
    BY DEF Apart, Covered
  <1>3. ASSUME NEW x, NEW y, F[x] \cap F[y] = {}
        PROVE  Apart(<<x, y>>, F) /\ Covered(<<x, y>>, F) = F[x] \cup F[y]
    <2> DEFINE s == <<x, y>>
    <2>1. DOMAIN s = {1, 2} /\ s[1] = x /\ s[2] = y
      OBVIOUS
    <2> HIDE DEF s
    <2>2. Apart(s, F)
      BY <1>3, <2>1 DEF Apart
    <2>3. Covered(s, F) = F[x] \cup F[y]
      BY <2>1 DEF Covered
    <2> QED
      BY <2>2, <2>3 DEF s
  <1> QED
    BY <1>1, <1>2, <1>3

\* Parts of one member, or of none.
LEMMA PartsOfOne ==
    ASSUME NEW S, NEW s \in Seq(S), NEW F
    PROVE  /\ \A i \in DOMAIN s : SubSeq(s, i, i) = <<s[i]>> /\ Covered(SubSeq(s, i, i), F) = F[s[i]]
           /\ \A i \in Nat \ {0} : SubSeq(s, i, i - 1) = <<>> /\ Covered(SubSeq(s, i, i - 1), F) = {}
  <1>1. ASSUME NEW i \in DOMAIN s PROVE SubSeq(s, i, i) = <<s[i]>>
    <2>1. i \in 1..Len(s) /\ Len(s) \in Nat
      OBVIOUS
    <2> DEFINE one == SubSeq(s, i, i)
    <2>2. one \in Seq(S) /\ Len(one) = 1
      BY <2>1
    <2>3. one[1] = s[i]
      BY <2>1
    <2>4. s[i] \in S
      BY <2>1
    <2> HIDE DEF one
    <2> DEFINE x == s[i]
    <2> HIDE DEF x
    <2>5. one = <<x>>
      BY <2>2, <2>3, <2>4 DEF x
    <2> QED
      BY <2>5 DEF one, x
  <1>2. ASSUME NEW i \in Nat \ {0} PROVE SubSeq(s, i, i - 1) = <<>>
    <2>1. i \in Int /\ i - 1 \in Int /\ i - 1 < i
      OBVIOUS
    <2> QED
      BY <2>1, SubSeqEmpty
  <1> QED
    BY <1>1, <1>2, FewApart

\* A sequence without its place i.
LEMMA RemovedApart ==
    ASSUME NEW S, NEW s \in Seq(S), NEW i \in DOMAIN s, NEW F, Apart(s, F)
    PROVE  /\ RemoveAt(s, i) \in Seq(S) /\ Apart(RemoveAt(s, i), F)
           /\ Covered(RemoveAt(s, i), F) = Covered(s, F) \ F[s[i]]
  <1> DEFINE a == SubSeq(s, 1, i - 1)
             new == <<>>
             c == SubSeq(s, i + 1, Len(s))
             t == a \o new \o c
  <1>1. i \in Nat \ {0} /\ i \in Nat /\ i <= i + 1 /\ i <= Len(s) /\ new \in Seq(S)
    OBVIOUS
  <1>2. Apart(new, F) /\ Covered(new, F) = {} /\ Covered(SubSeq(s, i, i), F) = F[s[i]]
    BY FewApart, PartsOfOne
  <1> HIDE DEF new
  <1>3. /\ t \in Seq(S) /\ Apart(t, F)
        /\ Covered(t, F) = (Covered(s, F) \ Covered(SubSeq(s, i, i), F)) \cup Covered(new, F)
    BY <1>1, <1>2, ReplacedApart
  <1>4. RemoveAt(s, i) = t
    <2>1. a \in Seq(S) /\ c \in Seq(S)
      BY Around
    <2> HIDE DEF a, c
    <2>2. a \o new = a
      BY <2>1 DEF new
    <2> QED
      BY <2>2 DEF RemoveAt, a, c
  <1> HIDE DEF t
  <1> QED
    BY <1>2, <1>3, <1>4

\* A sequence with each member once is as long as the set of its members.
LEMMA OnceListed ==
    ASSUME NEW S, NEW s \in Seq(S), IsInjective(s)
    PROVE  IsFiniteSet(ToSet(s)) /\ Cardinality(ToSet(s)) = Len(s)
  <1> DEFINE n == Len(s)
             T == ToSet(s)
  <1>1. n \in Nat /\ DOMAIN s = 1..n
    OBVIOUS
  <1>2. IsFiniteSet(1..n) /\ Cardinality(1..n) = n
    BY <1>1, FS_Interval
  <1>3. s \in [1..n -> T]
    <2>1. \A i \in 1..n : s[i] \in T
      BY <1>1 DEF ToSet
    <2> HIDE DEF T
    <2> QED
      BY <1>1, <2>1
  <1>4. \A t \in T : \E i \in 1..n : s[i] = t
    BY <1>1 DEF ToSet
  <1> HIDE DEF T, n
  <1>5. s \in Surjection(1..n, T) /\ s \in Injection(1..n, T)
    BY <1>3, <1>4 DEF Surjection, Injection
  <1>6. IsFiniteSet(T) /\ Cardinality(T) = n
    BY <1>2, <1>5, FS_Surjection
  <1> QED
    BY <1>6 DEF T, n

\* Where each x has itself.
LEMMA SelfApart ==
    ASSUME NEW S, NEW s \in Seq(S)
    PROVE  LET F == [x \in S |-> {x}]
           IN  (Apart(s, F) <=> IsInjective(s)) /\ Covered(s, F) = ToSet(s)
  <1> DEFINE F == [x \in S |-> {x}]
  <1>1. \A i \in DOMAIN s : F[s[i]] = {s[i]}
    OBVIOUS
  <1> HIDE DEF F
  <1>2. Covered(s, F) = ToSet(s)
    BY <1>1 DEF Covered, ToSet
  <1>3. Apart(s, F) <=> IsInjective(s)
    BY <1>1 DEF Apart, IsInjective
  <1> QED
    BY <1>2, <1>3 DEF F

------------------------------------------------------------------------------
(* Sequences put together *)

\* What holds of the empty sequence and passes to each longer one holds of all.
LEMMA AllSequences ==
    ASSUME NEW S, NEW G, <<>> \in G,
           \A s \in Seq(S) : s \in G => \A x \in S : Append(s, x) \in G
    PROVE  Seq(S) \subseteq G
  <1> SUFFICES ASSUME NEW t \in Seq(S) PROVE t \in G
    OBVIOUS
  <1> DEFINE T == {n \in Nat : \A s \in Seq(S) : Len(s) = n => s \in G}
  <1>1. 0 \in T
    OBVIOUS
  <1>2. ASSUME NEW n \in 1 .. Len(t), n - 1 \in T PROVE n \in T
    <2> SUFFICES ASSUME NEW s \in Seq(S), Len(s) = n PROVE s \in G
      OBVIOUS
    <2>1. s # <<>>
      OBVIOUS
    <2>2. PICK r \in Seq(S), x \in S : s = Append(r, x)
      BY <2>1, SequenceEmptyOrAppend
    <2>3. Len(r) = n - 1
      BY <2>2
    <2> QED
      BY <2>2, <2>3, <1>2
  <1> HIDE DEF T
  <1>3. Len(t) \in Nat
    OBVIOUS
  <1>4. 0 .. Len(t) \subseteq T
    BY <1>1, <1>2, <1>3, UpTo
  <1>5. Len(t) \in T
    BY <1>3, <1>4
  <1> QED
    BY <1>5 DEF T

\* FlattenSeq takes in one more sequence at the end.
LEMMA FlattenAppend ==
    ASSUME NEW S, NEW seqs \in Seq(Seq(S)), NEW x \in Seq(S)
    PROVE  FlattenSeq(Append(seqs, x)) = FlattenSeq(seqs) \o x
  <1> DEFINE more == Append(seqs, x)
             n == Len(seqs)
             Runs(f, s) == f = [i \in 1 .. Len(s) |-> IF i = 1 THEN s[i] ELSE f[i - 1] \o s[i]]
  <1>1. /\ n \in Nat /\ Len(more) = n + 1 /\ more[n + 1] = x
        /\ \A i \in 1 .. n : more[i] = seqs[i]
    OBVIOUS
  <1>2. PICK f : Runs(f, more) /\ FlattenSeq(more) = f[n + 1]
    <2> HIDE DEF more
    <2>1. Len(more) \in Nat \ {0}
      BY <1>1
    <2> QED
      BY <2>1, <1>1, FlattenDefined
  <1>3. CASE n = 0
    <2>1. seqs = <<>> /\ FlattenSeq(seqs) = <<>>
      BY <1>3 DEF FlattenSeq
    <2>2. f[1] = x
      <3> HIDE DEF more
      <3>1. 1 \in 1 .. Len(more) /\ more[1] = x
        BY <1>1, <1>3
      <3>2. \A i \in 1 .. Len(more) :
                f[i] = IF i = 1 THEN more[i] ELSE f[i - 1] \o more[i]
        BY <1>2
      <3> QED
        BY <3>1, <3>2
    <2>3. <<>> \o x = x
      BY ConcatEmptySeq
    <2> QED
      BY <1>2, <1>3, <2>1, <2>2, <2>3
  <1>4. CASE n # 0
    <2>1. PICK g : Runs(g, seqs) /\ FlattenSeq(seqs) = g[n]
      BY <1>1, <1>4, FlattenDefined
    <2> HIDE DEF more
    <2> DEFINE T == {i \in 0 .. n : i # 0 => f[i] = g[i]}
    <2>2. 0 \in T
      BY <1>1
    <2>3. ASSUME NEW i \in 1 .. n, i - 1 \in T PROVE i \in T
      <3>0. i \in 1 .. Len(more)
        BY <1>1
      <3>1. f[i] = IF i = 1 THEN more[i] ELSE f[i - 1] \o more[i]
        BY <3>0, <1>2
      <3>2. g[i] = IF i = 1 THEN seqs[i] ELSE g[i - 1] \o seqs[i]
        BY <1>1, <2>1
      <3>3. more[i] = seqs[i]
        BY <1>1
      <3>4. i # 1 => f[i - 1] = g[i - 1]
        BY <1>1, <2>3
      <3> QED
        BY <3>1, <3>2, <3>3, <3>4, <1>1
    <2>4. 0 .. n \subseteq T
      <3> HIDE DEF T
      <3> QED
        BY <1>1, <2>2, <2>3, UpTo
    <2>5. f[n] = g[n]
      <3>1. n \in 0 .. n
        BY <1>1
      <3>2. n \in T
        BY <2>4, <3>1
      <3> QED
        BY <3>2, <1>4
    <2>6. f[n + 1] = f[n] \o more[n + 1]
      <3>1. n + 1 \in 1 .. Len(more) /\ n + 1 # 1 /\ (n + 1) - 1 = n
        BY <1>1, <1>4
      <3>2. f[n + 1] = IF n + 1 = 1 THEN more[n + 1] ELSE f[(n + 1) - 1] \o more[n + 1]
        BY <3>1, <1>2
      <3> QED
        BY <3>1, <3>2
    <2> QED
      BY <2>1, <2>5, <2>6, <1>1, <1>2 DEF more
  <1> QED
    BY <1>3, <1>4

\* What F makes of the members of a sequence, one after the other.
Maps(S, T) == [S -> Seq(T)]
Parts(F, s) == [i \in DOMAIN s |-> F[s[i]]]
Mapped(F, s) == FlattenSeq(Parts(F, s))

\* Each part is a sequence, and there is one for each member.
LEMMA MappedParts ==
    ASSUME NEW S, NEW T, NEW F \in Maps(S, T), NEW s \in Seq(S)
    PROVE  /\ Parts(F, s) \in Seq(Seq(T)) /\ Len(Parts(F, s)) = Len(s)
           /\ DOMAIN Parts(F, s) = DOMAIN s
           /\ \A i \in DOMAIN s : Parts(F, s)[i] = F[s[i]] /\ F[s[i]] \in Seq(T)
  <1>1. \A i \in 1 .. Len(s) : F[s[i]] \in Seq(T)
    BY DEF Maps
  <1>2. DOMAIN s = 1 .. Len(s) /\ Len(s) \in Nat
    OBVIOUS
  <1> DEFINE e(i) == F[s[i]]
             parts == [i \in 1 .. Len(s) |-> e(i)]
  <1>3. \A i \in 1 .. Len(s) : e(i) \in Seq(T)
    BY <1>1
  <1> HIDE DEF e
  <1>4. parts \in Seq(Seq(T))
    BY <1>2, <1>3
  <1>5. Len(parts) = Len(s)
    BY <1>2, <1>3
  <1> QED
    BY <1>1, <1>2, <1>4, <1>5 DEF e, Parts

\* Nothing is made of no member.
LEMMA MappedNone ==
    ASSUME NEW F
    PROVE  Mapped(F, <<>>) = <<>>
  <1>1. Parts(F, <<>>) = <<>>
    BY DEF Parts
  <1> QED
    BY <1>1 DEF Mapped, FlattenSeq

\* One more member puts what is made of it at the end.
LEMMA MappedAppend ==
    ASSUME NEW S, NEW T, NEW F \in Maps(S, T), NEW s \in Seq(S), NEW x \in S
    PROVE  Mapped(F, Append(s, x)) = Mapped(F, s) \o F[x]
  <1> DEFINE longer == Append(s, x)
             n == Len(s)
  <1>1. /\ Len(longer) = n + 1 /\ n \in Nat /\ F[x] \in Seq(T) /\ longer \in Seq(S)
        /\ DOMAIN s = 1 .. n /\ DOMAIN longer = 1 .. n + 1
        /\ \A i \in 1 .. n : longer[i] = s[i]
        /\ longer[n + 1] = x
    BY DEF Maps
  <1> HIDE DEF longer, n
  <1>2. /\ Parts(F, s) \in Seq(Seq(T)) /\ Len(Parts(F, s)) = Len(s)
        /\ DOMAIN Parts(F, s) = DOMAIN s
        /\ \A i \in DOMAIN s : Parts(F, s)[i] = F[s[i]] /\ F[s[i]] \in Seq(T)
    BY MappedParts, Zenon
  <1>3. /\ Parts(F, longer) \in Seq(Seq(T)) /\ Len(Parts(F, longer)) = Len(longer)
        /\ DOMAIN Parts(F, longer) = DOMAIN longer
        /\ \A i \in DOMAIN longer : Parts(F, longer)[i] = F[longer[i]] /\ F[longer[i]] \in Seq(T)
    BY <1>1, MappedParts, Zenon
  <1> DEFINE more == Append(Parts(F, s), F[x])
  <1>4. /\ more \in Seq(Seq(T)) /\ Len(more) = n + 1
        /\ \A i \in 1 .. n : more[i] = Parts(F, s)[i]
        /\ more[n + 1] = F[x]
    <2>1. Len(Parts(F, s)) = n
      BY <1>2 DEF n
    <2> QED
      BY <1>1, <1>2, <2>1, AppendProperties
  <1> HIDE DEF more
  <1>5. \A i \in 1 .. n + 1 : Parts(F, longer)[i] = more[i]
    <2> TAKE i \in 1 .. n + 1
    <2>1. CASE i \in 1 .. n
      <3>1. Parts(F, longer)[i] = F[longer[i]] /\ longer[i] = s[i]
        BY <2>1, <1>1, <1>3
      <3>2. Parts(F, s)[i] = F[s[i]]
        BY <2>1, <1>1, <1>2
      <3>3. more[i] = Parts(F, s)[i]
        BY <2>1, <1>4
      <3> QED
        BY <3>1, <3>2, <3>3
    <2>2. CASE i = n + 1
      BY <2>2, <1>1, <1>3, <1>4
    <2> QED
      BY <2>1, <2>2, <1>1
  <1>6. Parts(F, longer) = more
    BY <1>1, <1>3, <1>4, <1>5, SeqEqual
  <1>7. FlattenSeq(Append(Parts(F, s), F[x])) = FlattenSeq(Parts(F, s)) \o F[x]
    BY <1>1, <1>2, FlattenAppend
  <1> QED
    BY <1>6, <1>7 DEF Mapped, longer, more

\* They are made piece by piece.
LEMMA MappedIn ==
    ASSUME NEW S, NEW T, NEW F \in Maps(S, T), NEW s \in Seq(S)
    PROVE  /\ Mapped(F, s) \in Seq(T)
           /\ ToSet(Mapped(F, s)) = UNION {ToSet(F[s[i]]) : i \in DOMAIN s}
  <1>1. /\ Parts(F, s) \in Seq(Seq(T)) /\ Len(Parts(F, s)) = Len(s)
        /\ DOMAIN Parts(F, s) = DOMAIN s
        /\ \A i \in DOMAIN s : Parts(F, s)[i] = F[s[i]] /\ F[s[i]] \in Seq(T)
    BY MappedParts, Zenon
  <1>2. /\ FlattenSeq(Parts(F, s)) \in Seq(T)
        /\ ToSet(FlattenSeq(Parts(F, s))) = UNION {ToSet(Parts(F, s)[i]) : i \in DOMAIN Parts(F, s)}
    BY <1>1, FlattenHolds
  <1>3. UNION {ToSet(Parts(F, s)[i]) : i \in DOMAIN Parts(F, s)}
            = UNION {ToSet(F[s[i]]) : i \in DOMAIN s}
    BY <1>1
  <1> QED
    BY <1>2, <1>3 DEF Mapped

\* What is made of two sequences is made of the one and then of the other.
LEMMA MappedConcat ==
    ASSUME NEW S, NEW T, NEW F \in Maps(S, T), NEW s \in Seq(S), NEW t \in Seq(S)
    PROVE  Mapped(F, s \o t) = Mapped(F, s) \o Mapped(F, t)
  <1>1. ASSUME NEW r \in Seq(S) PROVE Mapped(F, r) \in Seq(T)
    BY MappedIn
  <1> DEFINE G == {r \in Seq(S) : Mapped(F, s \o r) = Mapped(F, s) \o Mapped(F, r)}
  <1>3. <<>> \in G
    <2>1. s \o <<>> = s
      BY ConcatEmptySeq
    <2>2. Mapped(F, <<>>) = <<>>
      BY MappedNone
    <2>3. Mapped(F, s) \o <<>> = Mapped(F, s)
      BY <1>1, ConcatEmptySeq
    <2>4. <<>> \in Seq(S)
      OBVIOUS
    <2> QED
      BY <2>1, <2>2, <2>3, <2>4
  <1>4. ASSUME NEW r \in Seq(S), r \in G, NEW x \in S PROVE Append(r, x) \in G
    <2>1. s \o Append(r, x) = Append(s \o r, x)
      OBVIOUS
    <2>2. Mapped(F, Append(r, x)) = Mapped(F, r) \o F[x]
      BY MappedAppend
    <2> DEFINE both == s \o r
    <2>3. both \in Seq(S)
      OBVIOUS
    <2> HIDE DEF both
    <2>4. Mapped(F, Append(both, x)) = Mapped(F, both) \o F[x]
      BY <2>3, MappedAppend
    <2>5. Mapped(F, both) = Mapped(F, s) \o Mapped(F, r)
      BY <1>4 DEF both
    <2>6. (Mapped(F, s) \o Mapped(F, r)) \o F[x] = Mapped(F, s) \o (Mapped(F, r) \o F[x])
      <3>1. Mapped(F, s) \in Seq(T) /\ Mapped(F, r) \in Seq(T) /\ F[x] \in Seq(T)
        BY <1>1 DEF Maps
      <3> DEFINE u == Mapped(F, s)
                 v == Mapped(F, r)
                 y == F[x]
      <3>0. u \in Seq(T) /\ v \in Seq(T) /\ y \in Seq(T)
        BY <3>1
      <3> HIDE DEF u, v, y
      <3>2. (u \o v) \o y = u \o (v \o y)
        BY <3>0, ConcatAssociative
      <3> QED
        BY <3>2 DEF u, v, y
    <2>7. Append(r, x) \in Seq(S)
      OBVIOUS
    <2> QED
      BY <2>1, <2>2, <2>4, <2>5, <2>6, <2>7 DEF both
  <1>5. Seq(S) \subseteq G
    <2> HIDE DEF G
    <2> QED
      BY <1>3, <1>4, AllSequences
  <1> QED
    BY <1>5

\* A filter joins what it makes of each member.
LEMMA RetainedMapped ==
    ASSUME NEW T, NEW s \in Seq(T), NEW S
    PROVE  LET F == [x \in T |-> IF x \in S THEN <<x>> ELSE <<>>]
           IN  F \in Maps(T, T) /\ Retained(s, S) = Mapped(F, s)
  <1> DEFINE F == [x \in T |-> IF x \in S THEN <<x>> ELSE <<>>]
  <1>1. F \in Maps(T, T)
    BY DEF Maps
  <1>2. \A i \in DOMAIN s : F[s[i]] = IF s[i] \in S THEN <<s[i]>> ELSE <<>>
    OBVIOUS
  <1>3. Parts(F, s) = [i \in DOMAIN s |-> IF s[i] \in S THEN <<s[i]>> ELSE <<>>]
    BY <1>2 DEF Parts
  <1> QED
    BY <1>1, <1>3 DEF Retained, Mapped

\* A filter of two sequences in one.
LEMMA RetainedConcat ==
    ASSUME NEW T, NEW s \in Seq(T), NEW t \in Seq(T), NEW S
    PROVE  Retained(s \o t, S) = Retained(s, S) \o Retained(t, S)
  <1> DEFINE F == [x \in T |-> IF x \in S THEN <<x>> ELSE <<>>]
             both == s \o t
  <1>1. both \in Seq(T)
    OBVIOUS
  <1> HIDE DEF both
  <1>2. F \in Maps(T, T) /\ Retained(s, S) = Mapped(F, s)
    BY RetainedMapped
  <1>3. Retained(t, S) = Mapped(F, t)
    BY RetainedMapped
  <1>4. Retained(both, S) = Mapped(F, both)
    BY <1>1, RetainedMapped
  <1> HIDE DEF F
  <1>5. Mapped(F, s \o t) = Mapped(F, s) \o Mapped(F, t)
    BY <1>2, MappedConcat
  <1> QED
    BY <1>2, <1>3, <1>4, <1>5 DEF both

\* A filter of no member.
LEMMA RetainedNone ==
    ASSUME NEW S
    PROVE  Retained(<<>>, S) = <<>>
  <1>1. [i \in DOMAIN <<>> |-> IF <<>>[i] \in S THEN << <<>>[i] >> ELSE <<>>] = <<>>
    OBVIOUS
  <1> QED
    BY <1>1 DEF Retained, FlattenSeq

\* A filter of one member more.
LEMMA RetainedAppend ==
    ASSUME NEW T, NEW s \in Seq(T), NEW x \in T, NEW S
    PROVE  Retained(Append(s, x), S) = IF x \in S THEN Append(Retained(s, S), x)
                                       ELSE Retained(s, S)
  <1> DEFINE F == [y \in T |-> IF y \in S THEN <<y>> ELSE <<>>]
             longer == Append(s, x)
  <1>1. longer \in Seq(T)
    OBVIOUS
  <1>0. F[x] = IF x \in S THEN <<x>> ELSE <<>>
    OBVIOUS
  <1> HIDE DEF longer
  <1>2. F \in Maps(T, T) /\ Retained(s, S) = Mapped(F, s)
    BY RetainedMapped
  <1>4. Retained(longer, S) = Mapped(F, longer)
    BY <1>1, RetainedMapped
  <1> HIDE DEF F
  <1>5. Mapped(F, longer) = Mapped(F, s) \o F[x]
    BY <1>2, MappedAppend DEF longer
  <1>7. Retained(s, S) \in Seq(T)
    BY RetainedHolds
  <1>8. Append(Retained(s, S), x) = Retained(s, S) \o <<x>>
    BY <1>7, AppendIsConcat
  <1>9. Retained(s, S) \o <<>> = Retained(s, S)
    BY <1>7, ConcatEmptySeq
  <1> QED
    BY <1>0, <1>2, <1>4, <1>5, <1>8, <1>9 DEF longer

\* It matters only which of the members a filter wants.
LEMMA RetainedSame ==
    ASSUME NEW T, NEW s \in Seq(T), NEW S, NEW R, ToSet(s) \cap S = ToSet(s) \cap R
    PROVE  Retained(s, S) = Retained(s, R)
  <1>1. \A i \in DOMAIN s : s[i] \in S <=> s[i] \in R
    BY DEF ToSet
  <1>2. [i \in DOMAIN s |-> IF s[i] \in S THEN <<s[i]>> ELSE <<>>]
            = [i \in DOMAIN s |-> IF s[i] \in R THEN <<s[i]>> ELSE <<>>]
    BY <1>1
  <1> QED
    BY <1>2 DEF Retained

\* A filter that wants all of the members, and one that wants none.
LEMMA RetainedAll ==
    ASSUME NEW T, NEW s \in Seq(T), NEW S
    PROVE  /\ ToSet(s) \subseteq S => Retained(s, S) = s
           /\ ToSet(s) \cap S = {} => Retained(s, S) = <<>>
  <1> DEFINE G == {r \in Seq(T) : Retained(r, T) = r}
  <1>1. <<>> \in G
    <2>1. Retained(<<>>, T) = <<>>
      BY RetainedNone
    <2> QED
      BY <2>1
  <1>2. ASSUME NEW r \in Seq(T), r \in G, NEW x \in T PROVE Append(r, x) \in G
    <2>1. Append(r, x) \in Seq(T)
      OBVIOUS
    <2> QED
      BY <1>2, <2>1, RetainedAppend
  <1>3. Seq(T) \subseteq G
    <2> HIDE DEF G
    <2> QED
      BY <1>1, <1>2, AllSequences
  <1>4. ASSUME ToSet(s) \subseteq S PROVE Retained(s, S) = s
    <2>1. ToSet(s) \cap S = ToSet(s) \cap T
      <3>1. ToSet(s) \subseteq T
        BY DEF ToSet
      <3> QED
        BY <1>4, <3>1
    <2> QED
      BY <2>1, <1>3, RetainedSame
  <1>5. ASSUME ToSet(s) \cap S = {} PROVE Retained(s, S) = <<>>
    <2>1. Retained(s, S) \in Seq(T) /\ ToSet(Retained(s, S)) = {}
      BY <1>5, RetainedHolds
    <2>2. \A r \in Seq(T) : ToSet(r) = {} => r = <<>>
      <3> TAKE r \in Seq(T)
      <3>1. r # <<>> => r[1] \in ToSet(r)
        BY DEF ToSet
      <3> QED
        BY <3>1
    <2> QED
      BY <2>1, <2>2
  <1> QED
    BY <1>4, <1>5

\* One filter after another.
LEMMA RetainedTwice ==
    ASSUME NEW T, NEW s \in Seq(T), NEW A, NEW B
    PROVE  Retained(Retained(s, A), B) = Retained(s, A \cap B)
  <1> DEFINE both == A \cap B
             G == {r \in Seq(T) : Retained(Retained(r, A), B) = Retained(r, both)}
  <1>0. \A x : x \in both <=> x \in A /\ x \in B
    OBVIOUS
  <1> HIDE DEF both
  <1>1. <<>> \in G
    <2>1. \A S : Retained(<<>>, S) = <<>>
      BY RetainedNone
    <2>2. <<>> \in Seq(T)
      OBVIOUS
    <2> QED
      BY <2>1, <2>2
  <1>2. ASSUME NEW r \in Seq(T), r \in G, NEW x \in T PROVE Append(r, x) \in G
    <2> DEFINE less == Retained(r, A)
    <2>1. Append(r, x) \in Seq(T) /\ less \in Seq(T)
      BY RetainedHolds
    <2>2. Retained(Append(r, x), A) = IF x \in A THEN Append(less, x) ELSE less
      BY RetainedAppend
    <2>3. Retained(Append(r, x), both) = IF x \in both THEN Append(Retained(r, both), x)
                                         ELSE Retained(r, both)
      BY RetainedAppend
    <2> HIDE DEF less
    <2>4. Retained(Append(less, x), B) = IF x \in B THEN Append(Retained(less, B), x)
                                         ELSE Retained(less, B)
      BY <2>1, RetainedAppend
    <2>5. Retained(less, B) = Retained(r, both)
      BY <1>2 DEF less
    <2>6. Retained(Retained(Append(r, x), A), B) = Retained(Append(r, x), both)
      <3>1. CASE x \in A
        BY <3>1, <1>0, <2>2, <2>3, <2>4, <2>5
      <3>2. CASE x \notin A
        BY <3>2, <1>0, <2>2, <2>3, <2>5
      <3> QED
        BY <3>1, <3>2
    <2> QED
      BY <2>1, <2>6
  <1>3. Seq(T) \subseteq G
    <2> HIDE DEF G
    <2> QED
      BY <1>1, <1>2, AllSequences
  <1> QED
    BY <1>3 DEF both

\* A filter of what is joined is joined of what is filtered.
LEMMA RetainedOfMapped ==
    ASSUME NEW S, NEW T, NEW F \in Maps(S, T), NEW s \in Seq(S), NEW R,
           NEW H \in Maps(S, T), \A x \in S : H[x] = Retained(F[x], R)
    PROVE  Retained(Mapped(F, s), R) = Mapped(H, s)
  <1> DEFINE G == {r \in Seq(S) : Retained(Mapped(F, r), R) = Mapped(H, r)}
  <1>1. <<>> \in G
    <2>1. Mapped(F, <<>>) = <<>> /\ Mapped(H, <<>>) = <<>> /\ Retained(<<>>, R) = <<>>
      BY MappedNone, RetainedNone
    <2>2. <<>> \in Seq(S)
      OBVIOUS
    <2> QED
      BY <2>1, <2>2
  <1>2. ASSUME NEW r \in Seq(S), r \in G, NEW x \in S PROVE Append(r, x) \in G
    <2>1. Append(r, x) \in Seq(S) /\ F[x] \in Seq(T)
      BY DEF Maps
    <2>2. Mapped(F, Append(r, x)) = Mapped(F, r) \o F[x]
      BY MappedAppend
    <2>3. Mapped(H, Append(r, x)) = Mapped(H, r) \o H[x]
      BY MappedAppend
    <2>4. Mapped(F, r) \in Seq(T)
      BY MappedIn
    <2>5. Retained(Mapped(F, r) \o F[x], R) = Retained(Mapped(F, r), R) \o Retained(F[x], R)
      BY <2>1, <2>4, RetainedConcat
    <2>6. Retained(Mapped(F, Append(r, x)), R) = Mapped(H, Append(r, x))
      BY <1>2, <2>2, <2>3, <2>5
    <2> QED
      BY <2>1, <2>6
  <1>3. Seq(S) \subseteq G
    <2> HIDE DEF G
    <2> QED
      BY <1>1, <1>2, AllSequences
  <1> QED
    BY <1>3

\* Two sequences in one have no member twice.
LEMMA OnceConcat ==
    ASSUME NEW T, NEW s \in Seq(T), NEW t \in Seq(T)
    PROVE  /\ s \o t \in Seq(T)
           /\ IsInjective(s \o t) <=> /\ IsInjective(s) /\ IsInjective(t)
                                      /\ ToSet(s) \cap ToSet(t) = {}
           /\ ToSet(s \o t) = ToSet(s) \cup ToSet(t)
  <1> DEFINE F == [x \in T |-> {x}]
             both == s \o t
  <1>1. both \in Seq(T)
    OBVIOUS
  <1> HIDE DEF both
  <1>2. (Apart(s, F) <=> IsInjective(s)) /\ Covered(s, F) = ToSet(s)
    BY SelfApart
  <1>3. (Apart(t, F) <=> IsInjective(t)) /\ Covered(t, F) = ToSet(t)
    BY SelfApart
  <1>4. (Apart(both, F) <=> IsInjective(both)) /\ Covered(both, F) = ToSet(both)
    BY <1>1, SelfApart
  <1> HIDE DEF F
  <1>5. /\ Covered(s \o t, F) = Covered(s, F) \cup Covered(t, F)
        /\ Apart(s \o t, F) <=> /\ Apart(s, F) /\ Apart(t, F)
                                /\ Covered(s, F) \cap Covered(t, F) = {}
    BY ApartConcat
  <1> QED
    BY <1>1, <1>2, <1>3, <1>4, <1>5 DEF both

\* A filter makes no member twice.
LEMMA OnceRetained ==
    ASSUME NEW T, NEW s \in Seq(T), IsInjective(s), NEW R
    PROVE  Retained(s, R) \in Seq(T) /\ IsInjective(Retained(s, R))
  <1> DEFINE F == [x \in T |-> {x}]
             less == Retained(s, R)
  <1>1. less \in Seq(T)
    BY RetainedHolds
  <1>2. Apart(less, F)
    <2>1. (Apart(s, F) <=> IsInjective(s)) /\ Covered(s, F) = ToSet(s)
      BY SelfApart
    <2> HIDE DEF F
    <2>2. \A i, j \in DOMAIN s : s[i] \in R /\ s[j] \in R /\ F[s[i]] \cap F[s[j]] # {} => i = j
      BY <2>1 DEF Apart
    <2> QED
      BY <2>2, RetainedApart
  <1> HIDE DEF less
  <1>3. (Apart(less, F) <=> IsInjective(less)) /\ Covered(less, F) = ToSet(less)
    BY <1>1, SelfApart
  <1> HIDE DEF F
  <1> QED
    BY <1>1, <1>2, <1>3 DEF less

\* The part that was put between two others.
LEMMA Between ==
    ASSUME NEW T, NEW a \in Seq(T), NEW x \in Seq(T), NEW b \in Seq(T)
    PROVE  LET s == a \o x \o b
           IN  /\ s \in Seq(T) /\ Len(s) = Len(a) + Len(x) + Len(b)
               /\ SubSeq(s, Len(a) + 1, Len(a) + Len(x)) = x
  <1> DEFINE s == a \o x \o b
             m == SubSeq(s, Len(a) + 1, Len(a) + Len(x))
  <1>1. /\ s \in Seq(T) /\ Len(s) = Len(a) + Len(x) + Len(b)
        /\ Len(a) \in Nat /\ Len(x) \in Nat /\ Len(b) \in Nat
        /\ \A i \in 1 .. Len(x) : s[Len(a) + i] = x[i]
    OBVIOUS
  <1> HIDE DEF s
  <1>2. m \in Seq(T) /\ Len(m) = Len(x) /\ \A i \in 1 .. Len(x) : m[i] = s[Len(a) + i]
    BY <1>1
  <1> HIDE DEF m
  <1>3. m = x
    BY <1>1, <1>2, SeqEqual
  <1> QED
    BY <1>1, <1>3 DEF s, m

\* What is made of one member, and of a member in the middle.
LEMMA MappedOne ==
    ASSUME NEW S, NEW T, NEW F \in Maps(S, T), NEW x \in S
    PROVE  Mapped(F, <<x>>) = F[x]
  <1> DEFINE none == <<>>
  <1>1. none \in Seq(S) /\ Append(none, x) = <<x>> /\ Mapped(F, none) = <<>>
    BY MappedNone
  <1> HIDE DEF none
  <1>2. Mapped(F, Append(none, x)) = Mapped(F, none) \o F[x]
    BY <1>1, MappedAppend
  <1>3. F[x] \in Seq(T)
    BY DEF Maps
  <1>4. <<>> \o F[x] = F[x]
    BY <1>3, ConcatEmptySeq
  <1> QED
    BY <1>1, <1>2, <1>4

Chain(a, m, b) == a \o m \o b
Amid(a, x, b) == a \o <<x>> \o b

\* What is made of a member between two sequences.
LEMMA MappedAround ==
    ASSUME NEW S, NEW T, NEW F \in Maps(S, T)
    PROVE  \A a, b \in Seq(S), x \in S :
               /\ Amid(a, x, b) \in Seq(S)
               /\ Mapped(F, Amid(a, x, b)) = Chain(Mapped(F, a), F[x], Mapped(F, b))
  <1> TAKE a, b \in Seq(S), x \in S
  <1> DEFINE left == Append(a, x)
  <1>1. left \in Seq(S)
    OBVIOUS
  <1>2. Mapped(F, left) = Mapped(F, a) \o F[x]
    BY MappedAppend
  <1>3. left = a \o <<x>>
    BY AppendIsConcat
  <1> HIDE DEF left
  <1>4. Mapped(F, left \o b) = Mapped(F, left) \o Mapped(F, b)
    BY <1>1, MappedConcat
  <1>5. Amid(a, x, b) = left \o b
    BY <1>3 DEF Amid
  <1> QED
    BY <1>1, <1>2, <1>4, <1>5 DEF Chain

\* The members before and after place i.
Before(s, i) == SubSeq(s, 1, i - 1)
After(s, i) == SubSeq(s, i + 1, Len(s))

\* A sequence is what comes before a place, its member there and what comes after.
LEMMA BeforeAfter ==
    ASSUME NEW T, NEW s \in Seq(T), NEW i \in DOMAIN s
    PROVE  /\ Before(s, i) \in Seq(T) /\ Len(Before(s, i)) = i - 1
           /\ \A k \in 1 .. i - 1 : Before(s, i)[k] = s[k]
           /\ After(s, i) \in Seq(T) /\ Len(After(s, i)) = Len(s) - i
           /\ \A k \in 1 .. Len(s) - i : After(s, i)[k] = s[i + k]
           /\ s = Before(s, i) \o <<s[i]>> \o After(s, i)
  <1>1. /\ Len(s) \in Nat /\ i \in 1 .. Len(s)
    OBVIOUS
  <1>2. /\ Before(s, i) \in Seq(T) /\ Len(Before(s, i)) = i - 1
        /\ \A k \in 1 .. i - 1 : Before(s, i)[k] = s[k]
        /\ After(s, i) \in Seq(T) /\ Len(After(s, i)) = Len(s) - i
        /\ \A k \in 1 .. Len(s) - i : After(s, i)[k] = s[i + k]
    BY <1>1 DEF Before, After
  <1>3. SubSeq(s, i, i) = <<s[i]>>
    BY PartsOfOne
  <1>4. s = Before(s, i) \o SubSeq(s, i, i) \o After(s, i)
    <2>1. i \in Nat \ {0} /\ i \in Nat /\ i <= i + 1 /\ i <= Len(s)
      BY <1>1
    <2> QED
      BY <2>1, InParts DEF Before, After
  <1> QED
    BY <1>2, <1>3, <1>4

\* Sequences that agree before and after a place.
LEMMA SameAround ==
    ASSUME NEW T, NEW s \in Seq(T), NEW t \in Seq(T), Len(s) = Len(t), NEW i \in DOMAIN s
    PROVE  /\ (\A k \in 1 .. Len(s) : k < i => s[k] = t[k]) => Before(s, i) = Before(t, i)
           /\ (\A k \in 1 .. Len(s) : k > i => s[k] = t[k]) => After(s, i) = After(t, i)
  <1>1. Len(s) \in Nat /\ i \in 1 .. Len(s) /\ i \in DOMAIN t
    OBVIOUS
  <1>2. /\ Before(s, i) \in Seq(T) /\ Len(Before(s, i)) = i - 1
        /\ \A k \in 1 .. i - 1 : Before(s, i)[k] = s[k]
        /\ After(s, i) \in Seq(T) /\ Len(After(s, i)) = Len(s) - i
        /\ \A k \in 1 .. Len(s) - i : After(s, i)[k] = s[i + k]
    BY BeforeAfter
  <1>3. /\ Before(t, i) \in Seq(T) /\ Len(Before(t, i)) = i - 1
        /\ \A k \in 1 .. i - 1 : Before(t, i)[k] = t[k]
        /\ After(t, i) \in Seq(T) /\ Len(After(t, i)) = Len(t) - i
        /\ \A k \in 1 .. Len(t) - i : After(t, i)[k] = t[i + k]
    <2>1. i \in DOMAIN t
      BY <1>1
    <2> QED
      BY <2>1, BeforeAfter
  <1>4. ASSUME \A k \in 1 .. Len(s) : k < i => s[k] = t[k] PROVE Before(s, i) = Before(t, i)
    <2>1. \A k \in 1 .. i - 1 : k \in 1 .. Len(s) /\ k < i
      BY <1>1
    <2>2. \A k \in 1 .. i - 1 : Before(s, i)[k] = Before(t, i)[k]
      BY <1>2, <1>3, <1>4, <2>1
    <2> QED
      BY <1>1, <1>2, <1>3, <2>2, SeqEqual
  <1>5. ASSUME \A k \in 1 .. Len(s) : k > i => s[k] = t[k] PROVE After(s, i) = After(t, i)
    <2>1. \A k \in 1 .. Len(s) - i : i + k \in 1 .. Len(s) /\ i + k > i
      BY <1>1
    <2>2. \A k \in 1 .. Len(s) - i : After(s, i)[k] = After(t, i)[k]
      BY <1>2, <1>3, <1>5, <2>1
    <2> QED
      BY <1>1, <1>2, <1>3, <2>2, SeqEqual
  <1> QED
    BY <1>4, <1>5

\* A sequence with another member at place i.
Put(s, i, x) == [s EXCEPT ![i] = x]

\* A member that is replaced leaves what is around it.
LEMMA ReplacedParts ==
    ASSUME NEW T, NEW s \in Seq(T), NEW i \in DOMAIN s, NEW x \in T
    PROVE  /\ Put(s, i, x) \in Seq(T)
           /\ Put(s, i, x) = Before(s, i) \o <<x>> \o After(s, i)
  <1> DEFINE t == Put(s, i, x)
  <1>1. /\ Len(s) \in Nat /\ i \in 1 .. Len(s) /\ s[i] \in T /\ DOMAIN s = 1 .. Len(s)
        /\ t \in Seq(T) /\ Len(s) = Len(t) /\ t[i] = x /\ i \in DOMAIN t
        /\ \A k \in 1 .. Len(s) : k # i => t[k] = s[k]
    BY DEF Put
  <1> HIDE DEF t
  <1>2. Before(s, i) = Before(t, i) /\ After(s, i) = After(t, i)
    <2>1. \A k \in 1 .. Len(s) : k < i => s[k] = t[k]
      BY <1>1
    <2>2. \A k \in 1 .. Len(s) : k > i => s[k] = t[k]
      BY <1>1
    <2> QED
      BY <1>1, <2>1, <2>2, SameAround
  <1>3. t = Before(t, i) \o <<t[i]>> \o After(t, i)
    BY <1>1, BeforeAfter
  <1> QED
    BY <1>1, <1>2, <1>3 DEF t

\* A sequence of which two members trade places.
Exchanged(s, i, j) == [s EXCEPT ![i] = s[j], ![j] = s[i]]
PartedAt(s, a, x, m, y, b) == s = (a \o <<x>> \o m) \o <<y>> \o b

\* Two members trade places, and what is around them and between stays.
LEMMA ExchangedParts ==
    ASSUME NEW T, NEW s \in Seq(T), NEW i \in DOMAIN s, NEW j \in DOMAIN s, i < j
    PROVE  /\ Exchanged(s, i, j) \in Seq(T)
           /\ \E a, m, b \in Seq(T) : /\ PartedAt(s, a, s[i], m, s[j], b)
                                       /\ PartedAt(Exchanged(s, i, j), a, s[j], m, s[i], b)
  <1> DEFINE t == [s EXCEPT ![i] = s[j], ![j] = s[i]]
             x == s[i]
             y == s[j]
             once == Put(s, i, y)
             head == Before(s, j)
             tail == After(s, j)
             a == Before(head, i)
             m == After(head, i)
  <1>1. /\ Len(s) \in Nat /\ i \in 1 .. Len(s) /\ j \in 1 .. Len(s) /\ x \in T /\ y \in T
        /\ DOMAIN s = 1 .. Len(s) /\ i \in 1 .. j - 1
    OBVIOUS
  <1>2. /\ once \in Seq(T) /\ Len(s) = Len(once) /\ once[i] = y /\ DOMAIN once = 1 .. Len(s)
        /\ \A k \in 1 .. Len(s) : k # i => once[k] = s[k]
    BY <1>1 DEF Put
  <1>3. t = Put(once, j, x)
    BY <1>1 DEF Put
  <1>5. /\ head \in Seq(T) /\ Len(head) = j - 1
        /\ \A k \in 1 .. j - 1 : head[k] = s[k]
        /\ tail \in Seq(T) /\ s = head \o <<y>> \o tail
    BY BeforeAfter
  <1> HIDE DEF once, x, y, head
  <1>6. t \in Seq(T) /\ t = Before(once, j) \o <<x>> \o After(once, j)
    <2>1. j \in DOMAIN once
      BY <1>1, <1>2
    <2>2. /\ Put(once, j, x) \in Seq(T)
          /\ Put(once, j, x) = Before(once, j) \o <<x>> \o After(once, j)
      <3>1. once \in Seq(T) /\ x \in T
        BY <1>1, <1>2
      <3> QED
        BY <2>1, <3>1, ReplacedParts
    <2> QED
      BY <1>3, <2>2
  <1>7. tail = After(once, j)
    <2>1. \A k \in 1 .. Len(s) : k > j => s[k] = once[k]
      BY <1>1, <1>2
    <2> QED
      BY <1>2, <2>1, SameAround
  <1>8. Before(once, j) = Put(head, i, y)
    <2> DEFINE other == Before(once, j)
               less == Put(head, i, y)
    <2>0. \A k \in 1 .. j - 1 : k \in 1 .. Len(s)
      BY <1>1
    <2>1. /\ other \in Seq(T) /\ Len(other) = j - 1
          /\ \A k \in 1 .. j - 1 : other[k] = once[k]
      <3>1. j \in DOMAIN once
        BY <1>1, <1>2
      <3> QED
        BY <1>2, <3>1, BeforeAfter
    <2>2. /\ less \in Seq(T) /\ Len(less) = j - 1 /\ less[i] = y
          /\ \A k \in 1 .. j - 1 : k # i => less[k] = head[k]
      BY <1>1, <1>5 DEF Put
    <2> HIDE DEF other, less
    <2>3. \A k \in 1 .. j - 1 : other[k] = less[k]
      BY <1>2, <1>5, <2>0, <2>1, <2>2
    <2>4. other = less
      BY <1>1, <2>1, <2>2, <2>3, SeqEqual
    <2> QED
      BY <2>4 DEF other, less
  <1>9. /\ a \in Seq(T) /\ m \in Seq(T) /\ head = a \o <<x>> \o m
        /\ Put(head, i, y) = a \o <<y>> \o m
    <2>1. i \in DOMAIN head /\ head[i] = x
      BY <1>1, <1>5 DEF x
    <2>2. /\ Before(head, i) \in Seq(T) /\ After(head, i) \in Seq(T)
          /\ head = Before(head, i) \o <<head[i]>> \o After(head, i)
      BY <1>5, <2>1, BeforeAfter
    <2>3. Put(head, i, y) = Before(head, i) \o <<y>> \o After(head, i)
      <3>1. head \in Seq(T) /\ y \in T
        BY <1>1, <1>5
      <3> QED
        BY <2>1, <3>1, ReplacedParts
    <2> QED
      BY <2>1, <2>2, <2>3
  <1> HIDE DEF tail, a, m, t
  <1>10. /\ s = (a \o <<x>> \o m) \o <<y>> \o tail
         /\ t = (a \o <<y>> \o m) \o <<x>> \o tail
    BY <1>5, <1>6, <1>7, <1>8, <1>9
  <1>11. PartedAt(s, a, x, m, y, tail) /\ PartedAt(t, a, y, m, x, tail)
    BY <1>10 DEF PartedAt
  <1>12. Exchanged(s, i, j) = t
    BY DEF Exchanged, t
  <1> QED
    BY <1>5, <1>6, <1>9, <1>11, <1>12 DEF x, y

\* One sequence after the other, which may be grouped in any way.
Both(o, p) == o \o p

\* Two sequences in one: nothing comes of an empty one, and the grouping is free.
LEMMA BothIs ==
    ASSUME NEW T, NEW a \in Seq(T), NEW b \in Seq(T)
    PROVE  /\ Both(a, b) \in Seq(T) /\ Both(a, <<>>) = a /\ Both(<<>>, a) = a
           /\ \A c \in Seq(T) : Both(Both(a, b), c) = Both(a, Both(b, c))
  <1>1. a \o b \in Seq(T) /\ a \o <<>> = a /\ <<>> \o a = a
    OBVIOUS
  <1>2. ASSUME NEW c \in Seq(T)
        PROVE  (a \o b) \o c = a \o (b \o c)
    OBVIOUS
  <1> QED
    BY <1>1, <1>2 DEF Both
Nested(p, u, g, v, q) == p \o (u \o g \o v) \o q
Flat(p, u, g, v, q) == (p \o u) \o g \o (v \o q)

\* Five sequences in one, grouped in two ways.
LEMMA Regrouped ==
    ASSUME NEW T, NEW p \in Seq(T), NEW u \in Seq(T), NEW g \in Seq(T), NEW v \in Seq(T),
           NEW q \in Seq(T)
    PROVE  Nested(p, u, g, v, q) = Flat(p, u, g, v, q)
  <1>1. \A a, b \in Seq(T) : Both(a, b) \in Seq(T)
    BY BothIs
  <1>2. \A a, b, c \in Seq(T) : Both(Both(a, b), c) = Both(a, Both(b, c))
    BY BothIs
  <1>3. Both(p, Both(Both(u, g), v)) = Both(Both(p, u), Both(g, v))
    BY <1>1, <1>2
  <1>4. Both(Both(Both(p, u), Both(g, v)), q) = Both(Both(p, u), Both(g, Both(v, q)))
    BY <1>1, <1>2
  <1>5. Both(Both(Both(p, u), g), Both(v, q)) = Both(Both(p, u), Both(g, Both(v, q)))
    BY <1>1, <1>2
  <1> QED
    BY <1>3, <1>4, <1>5 DEF Both, Nested, Flat

\* Two members are one after the other.
LEMMA TwoMembers ==
    ASSUME NEW T, NEW x \in T, NEW y \in T
    PROVE  /\ <<x, y>> \in Seq(T) /\ Both(<<x>>, <<y>>) = <<x, y>>
  <1> DEFINE s == <<x>>
             t == <<y>>
             two == <<x, y>>
             both == s \o t
  <1>1. s \in Seq(T) /\ t \in Seq(T) /\ Len(s) = 1 /\ Len(t) = 1 /\ s[1] = x /\ t[1] = y
    OBVIOUS
  <1>2. two \in Seq(T) /\ Len(two) = 2 /\ two[1] = x /\ two[2] = y
    OBVIOUS
  <1> HIDE DEF s, t, two
  <1>3. both \in Seq(T) /\ Len(both) = 2 /\ both[1] = x /\ both[2] = y
    BY <1>1, ConcatProperties
  <1> HIDE DEF both
  <1>4. \A i \in 1 .. Len(both) : both[i] = two[i]
    BY <1>2, <1>3
  <1>5. both = two
    BY <1>2, <1>3, <1>4, SeqEqual
  <1> QED
    BY <1>2, <1>5 DEF Both, s, t, two, both

==============================================================================
