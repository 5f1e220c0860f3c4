----------------------------- MODULE RuleLemmas -----------------------------
(***************************************************************************)
(* What filter and Total (StudyRules) return, for every sequence and every *)
(* set of its indexes: lemmas that the proofs about studies and            *)
(* evaluations cite.                                                       *)
(***************************************************************************)
EXTENDS StudyRules, FiniteSetTheorems, WellFoundedInduction, TLAPS

\* The place of an index: how many of the indexes there are up to it.
Place(i, indexes) == Cardinality({j \in indexes : j <= i})

\* The indexes of a filter are finitely many numbers.
LEMMA IndexesAreFinite ==
  ASSUME NEW n \in Nat, NEW indexes \in SUBSET (1 .. n)
  PROVE  /\ IsFiniteSet(indexes)
         /\ Cardinality(indexes) \in 0 .. n
         /\ Cardinality(indexes) = n <=> indexes = 1 .. n
         /\ Cardinality(indexes) = 0 <=> indexes = {}
<1>1. IsFiniteSet(1 .. n) /\ Cardinality(1 .. n) = n
  BY FS_Interval
<1>2. IsFiniteSet(indexes) /\ Cardinality(indexes) <= n /\ (Cardinality(indexes) = n => indexes = 1 .. n)
  BY <1>1, FS_Subset
<1>3. Cardinality(indexes) \in Nat
  BY <1>2, FS_CardinalityType
<1>4. Cardinality(indexes) = 0 <=> indexes = {}
  BY <1>2, FS_EmptySet
<1>5. QED
  BY <1>1, <1>2, <1>3, <1>4

\* Places are numbers from 1 on, and a larger index has a larger place.
LEMMA PlacesGrow ==
  ASSUME NEW n \in Nat, NEW indexes \in SUBSET (1 .. n), NEW i \in indexes
  PROVE  /\ Place(i, indexes) \in 1 .. Cardinality(indexes)
         /\ \A k \in indexes : i < k => Place(i, indexes) < Place(k, indexes)
<1> DEFINE Upto(k) == {j \in indexes : j <= k}
<1>1. ASSUME NEW k \in indexes
      PROVE  /\ IsFiniteSet(Upto(k))
             /\ Cardinality(Upto(k)) \in Nat
             /\ Cardinality(Upto(k)) <= Cardinality(indexes)
  <2>1. Upto(k) \in SUBSET indexes
    OBVIOUS
  <2>2. IsFiniteSet(Upto(k)) /\ Cardinality(Upto(k)) <= Cardinality(indexes)
    BY <2>1, IndexesAreFinite, FS_Subset
  <2>3. QED
    BY <2>2, FS_CardinalityType
<1>2. Cardinality(Upto(i)) # 0
  <2>1. i \in Upto(i)
    OBVIOUS
  <2>2. QED
    BY <2>1, <1>1, FS_EmptySet
<1>3. ASSUME NEW k \in indexes, i < k
      PROVE  Cardinality(Upto(i)) < Cardinality(Upto(k))
  <2>1. Upto(i) \in SUBSET Upto(k)
    <3>1. indexes \subseteq Nat /\ i \in Nat /\ k \in Nat
      OBVIOUS
    <3>2. \A j \in indexes : j <= i => j <= k
      BY <3>1, <1>3
    <3>3. QED
      BY <3>2
  <2>2. k \in Upto(k) /\ k \notin Upto(i)
    BY <1>3
  <2>3. /\ Cardinality(Upto(i)) <= Cardinality(Upto(k))
        /\ Cardinality(Upto(k)) = Cardinality(Upto(i)) => Upto(k) = Upto(i)
    BY <2>1, <1>1, FS_Subset
  <2>4. Cardinality(Upto(k)) # Cardinality(Upto(i))
    BY <2>2, <2>3
  <2>5. QED
    BY <2>3, <2>4, <1>1
<1>4. Cardinality(indexes) \in Nat
  BY IndexesAreFinite, SMTT(30)
<1>5. QED
  BY <1>1, <1>2, <1>3, <1>4 DEF Place

\* No two indexes have the same place.
LEMMA PlacesDiffer ==
  ASSUME NEW n \in Nat, NEW indexes \in SUBSET (1 .. n), NEW i \in indexes, NEW k \in indexes,
         Place(i, indexes) = Place(k, indexes)
  PROVE  i = k
<1>1. Cardinality(indexes) \in Nat /\ i \in Nat /\ k \in Nat
  BY IndexesAreFinite, SMTT(30)
<1>2. Place(i, indexes) \in Nat /\ (i < k => Place(i, indexes) < Place(k, indexes))
  BY <1>1, PlacesGrow
<1>3. Place(k, indexes) \in Nat /\ (k < i => Place(k, indexes) < Place(i, indexes))
  <2>1. /\ Place(k, indexes) \in 1 .. Cardinality(indexes)
        /\ \A j \in indexes : k < j => Place(k, indexes) < Place(j, indexes)
    BY PlacesGrow
  <2>2. QED
    BY <1>1, <2>1
<1>4. QED
  BY <1>1, <1>2, <1>3

\* There is an index at every place: as many places as indexes, and no two share one.
LEMMA PlacesAreTaken ==
  ASSUME NEW n \in Nat, NEW indexes \in SUBSET (1 .. n), NEW m \in 1 .. Cardinality(indexes)
  PROVE  \E i \in indexes : Place(i, indexes) = m
<1> DEFINE P == 1 .. Cardinality(indexes)
           f == [i \in indexes |-> Place(i, indexes)]
<1>1. IsFiniteSet(indexes) /\ Cardinality(indexes) \in Nat
  BY IndexesAreFinite, SMTT(30)
<1>2. IsFiniteSet(P) /\ Cardinality(P) = Cardinality(indexes)
  BY <1>1, FS_Interval
<1>3. f \in [indexes -> P]
  BY PlacesGrow
<1>4. \A i, k \in indexes : f[i] = f[k] => i = k
  BY PlacesDiffer
<1>5. f \in Injection(indexes, P)
  BY <1>3, <1>4 DEF Injection, IsInjective
<1>6. f \in Surjection(indexes, P)
  BY <1>2, <1>5, FS_Injection
<1>7. \E i \in indexes : f[i] = m
  BY <1>6 DEF Surjection
<1>8. QED
  BY <1>7

\* filter has as many members as there are indexes.
LEMMA FilterLength ==
  ASSUME NEW n \in Nat, NEW indexes \in SUBSET (1 .. n), NEW seq
  PROVE  /\ DOMAIN filter(seq, indexes) = 1 .. Cardinality(indexes)
         /\ Len(filter(seq, indexes)) = Cardinality(indexes)
<1>1. Cardinality(indexes) \in Nat
  BY IndexesAreFinite, SMTT(30)
<1>2. DOMAIN filter(seq, indexes) = 1 .. Cardinality(indexes)
  BY DEF filter
<1>3. QED
  BY <1>1, <1>2

\* filter keeps the members at the indexes, each at its index's place.
LEMMA FilterKeeps ==
  ASSUME NEW n \in Nat, NEW indexes \in SUBSET (1 .. n), NEW seq, NEW i \in indexes
  PROVE  filter(seq, indexes)[Place(i, indexes)] = seq[i]
<1>1. filter(seq, indexes) =
        [m \in 1 .. Cardinality(indexes) |->
           seq[CHOOSE k \in indexes : Place(k, indexes) = m]]
  BY DEF filter, Place
<1>2. Place(i, indexes) \in 1 .. Cardinality(indexes)
  BY PlacesGrow
<1>3. PICK k \in indexes : /\ Place(k, indexes) = Place(i, indexes)
                          /\ k = CHOOSE j \in indexes : Place(j, indexes) = Place(i, indexes)
  OBVIOUS
<1>4. k = i
  BY <1>3, PlacesDiffer
<1>5. QED
  BY <1>1, <1>2, <1>3, <1>4

\* filter has nothing else.
LEMMA FilterAdds ==
  ASSUME NEW n \in Nat, NEW indexes \in SUBSET (1 .. n), NEW seq,
         NEW m \in 1 .. Cardinality(indexes)
  PROVE  \E i \in indexes : filter(seq, indexes)[m] = seq[i]
<1>1. PICK i \in indexes : Place(i, indexes) = m
  BY PlacesAreTaken
<1>2. filter(seq, indexes)[Place(i, indexes)] = seq[i]
  BY FilterKeeps
<1>3. QED
  BY <1>1, <1>2

\* It is empty exactly when nothing is kept.
LEMMA FilterEmpty ==
  ASSUME NEW n \in Nat, NEW indexes \in SUBSET (1 .. n), NEW seq
  PROVE  filter(seq, indexes) = << >> <=> indexes = {}
<1>1. ASSUME filter(seq, indexes) = << >> PROVE indexes = {}
  <2>1. Cardinality(indexes) = 0
    BY <1>1, FilterLength
  <2>2. QED
    BY <2>1, IndexesAreFinite
<1>2. ASSUME indexes = {} PROVE filter(seq, indexes) = << >>
  <2>1. 1 .. Cardinality(indexes) = {}
    BY <1>2, FS_EmptySet
  <2>2. QED
    BY <2>1 DEF filter
<1>3. QED
  BY <1>1, <1>2

\* The members of a list of the indexes' members.
LEMMA FilterMembers ==
  ASSUME NEW n \in Nat, NEW indexes \in SUBSET (1 .. n), NEW seq
  PROVE  ToSet(filter(seq, indexes)) = {seq[i] : i \in indexes}
<1> DEFINE f == filter(seq, indexes)
<1>1. DOMAIN f = 1 .. Cardinality(indexes)
  BY FilterLength
<1>2. \A i \in indexes : Place(i, indexes) \in 1 .. Cardinality(indexes) /\ f[Place(i, indexes)] = seq[i]
  BY PlacesGrow, FilterKeeps
<1>3. ASSUME NEW m \in 1 .. Cardinality(indexes) PROVE \E i \in indexes : f[m] = seq[i]
  BY FilterAdds
<1> HIDE DEF f
<1>4. ToSet(f) = {seq[i] : i \in indexes}
  BY <1>1, <1>2, <1>3 DEF ToSet
<1> QED  BY <1>4 DEF f

\* What filter returns is a sequence of what it keeps.
LEMMA FilterType ==
  ASSUME NEW S, NEW n \in Nat, NEW indexes \in SUBSET (1 .. n), NEW seq,
         \A i \in indexes : seq[i] \in S
  PROVE  filter(seq, indexes) \in Seq(S)
<1>1. Cardinality(indexes) \in Nat
  BY IndexesAreFinite, SMTT(30)
<1>2. DOMAIN filter(seq, indexes) = 1 .. Cardinality(indexes)
  BY FilterLength
<1>3. ASSUME NEW m \in 1 .. Cardinality(indexes)
      PROVE  filter(seq, indexes)[m] \in S
  <2>1. PICK i \in indexes : filter(seq, indexes)[m] = seq[i]
    BY FilterAdds
  <2>2. QED
    BY <2>1
<1>4. filter(seq, indexes) \in [1 .. Cardinality(indexes) -> S]
  BY <1>2, <1>3 DEF filter
<1>5. QED
  BY <1>1, <1>4

-----------------------------------------------------------------------------
(* Recursion, and totals. *)

\* A set that has 0, and with a number the next one, has all numbers.
LEMMA SetInduction ==
  ASSUME NEW S, 0 \in S, \A n \in Nat : n \in S => n + 1 \in S
  PROVE  Nat \subseteq S
<1> DEFINE T == Nat \ S
<1> SUFFICES ASSUME T # {} PROVE FALSE
  OBVIOUS
<1>1. PICK x \in T : \A y \in T : ~ (<<y, x>> \in OpToRel(<, Nat))
  <2>1. T \subseteq Nat
    OBVIOUS
  <2> QED  BY <2>1, NatLessThanWellFounded, WFMin
<1>2. x - 1 \in Nat /\ x - 1 < x /\ (x - 1) + 1 = x
  OBVIOUS
<1>3. <<x - 1, x>> \in OpToRel(<, Nat)
  BY <1>2 DEF OpToRel
<1>4. x - 1 \in S
  BY <1>1, <1>2, <1>3
<1> QED  BY <1>2, <1>4

\* f starts at base, and goes from each number to the next by step.
Recursion(f, base, step, m) ==
  f = [n \in 0 .. m |-> IF n = 0 THEN base ELSE step[<<n, f[n - 1]>>]]

\* There is such a function on the numbers up to m.
LEMMA RecursionExists ==
  ASSUME NEW V, NEW base \in V, NEW m \in Nat, NEW step \in [(1 .. m) \X V -> V]
  PROVE  \E f \in [0 .. m -> V] : Recursion(f, base, step, m)
<1> DEFINE Solves(f, k) == f = [n \in 0 .. k |-> IF n = 0 THEN base ELSE step[<<n, f[n - 1]>>]]
           S == {k \in Nat : k <= m => \E f \in [0 .. k -> V] : Solves(f, k)}
<1>1. 0 \in S
  <2> DEFINE f == [n \in 0 .. 0 |-> base]
  <2>1. f \in [0 .. 0 -> V] /\ Solves(f, 0)
    OBVIOUS
  <2> QED  BY <2>1
<1>2. ASSUME NEW k \in Nat, k \in S PROVE k + 1 \in S
  <2> SUFFICES ASSUME k + 1 <= m PROVE \E g \in [0 .. k + 1 -> V] : Solves(g, k + 1)
    OBVIOUS
  <2>1. PICK f \in [0 .. k -> V] : Solves(f, k)
    BY <1>2
  <2> DEFINE last == step[<<k + 1, f[k]>>]
             g == [n \in 0 .. k + 1 |-> IF n = k + 1 THEN last ELSE f[n]]
  <2>2. last \in V
    <3>1. <<k + 1, f[k]>> \in (1 .. m) \X V
      OBVIOUS
    <3> QED  BY <3>1
  <2> HIDE DEF last
  <2>3. g \in [0 .. k + 1 -> V]
    BY <2>2
  <2>4. ASSUME NEW n \in 0 .. k + 1
        PROVE  g[n] = IF n = 0 THEN base ELSE step[<<n, g[n - 1]>>]
    <3>1. CASE n = k + 1
      <4>1. n - 1 = k /\ k \in 0 .. k + 1 /\ k # k + 1 /\ n # 0
        BY <3>1
      <4> QED  BY <3>1, <4>1 DEF last
    <3>2. CASE n # k + 1
      <4>1. n \in 0 .. k /\ (n # 0 => n - 1 \in 0 .. k /\ n - 1 # k + 1)
        BY <3>2
      <4>2. f[n] = IF n = 0 THEN base ELSE step[<<n, f[n - 1]>>]
        BY <2>1, <4>1
      <4>3. g[n] = f[n] /\ (n # 0 => g[n - 1] = f[n - 1])
        BY <3>2, <4>1
      <4> QED  BY <4>2, <4>3
    <3> QED  BY <3>1, <3>2
  <2>5. Solves(g, k + 1)
    BY <2>4
  <2> QED  BY <2>3, <2>5
<1> HIDE DEF S
<1>3. m \in S
  BY <1>1, <1>2, SetInduction
<1> QED  BY <1>3 DEF S, Recursion

\* The sums of the first n lengths, for every n up to m.
Sums(f, lengths, m) ==
  f = [n \in 0 .. m |-> IF n = 0 THEN 0 ELSE f[n - 1] + lengths[n]]

\* There are such sums.
LEMMA SumsExist ==
  ASSUME NEW lengths \in Seq(Nat)
  PROVE  \E f : Sums(f, lengths, Len(lengths))
<1> DEFINE m == Len(lengths)
           step == [x \in (1 .. m) \X Nat |-> x[2] + lengths[x[1]]]
           base == 0
           V == Nat
<1>1. m \in Nat /\ \A n \in 1 .. m : lengths[n] \in Nat
  OBVIOUS
<1>2. step \in [(1 .. m) \X V -> V] /\ base \in V
  BY <1>1
<1>3. \A n \in 1 .. m, k \in V : step[<<n, k>>] = k + lengths[n]
  OBVIOUS
<1> HIDE DEF step, m, base, V
<1>4. PICK f \in [0 .. m -> V] : Recursion(f, base, step, m)
  BY <1>1, <1>2, RecursionExists
<1>5. \A n \in 0 .. m : n # 0 => step[<<n, f[n - 1]>>] = f[n - 1] + lengths[n]
  BY <1>1, <1>3
<1>6. f = [n \in 0 .. m |-> IF n = 0 THEN 0 ELSE f[n - 1] + lengths[n]]
  BY <1>4, <1>5 DEF base, Recursion
<1> QED  BY <1>6 DEF Sums, m

\* Total is the last of them, and they are numbers.
LEMMA TotalIsASum ==
  ASSUME NEW lengths \in Seq(Nat)
  PROVE  \E f : /\ f[0] = 0
                /\ \A n \in 1 .. Len(lengths) : f[n] = f[n - 1] + lengths[n]
                /\ \A n \in 0 .. Len(lengths) : f[n] \in Nat
                /\ Total(lengths) = f[Len(lengths)]
<1> DEFINE m == Len(lengths)
           f == CHOOSE f : Sums(f, lengths, m)
<1>1. m \in Nat /\ \A n \in 1 .. m : lengths[n] \in Nat
  OBVIOUS
<1>2. Sums(f, lengths, m)
  BY <1>1, SumsExist
<1>3. Total(lengths) = f[m]
  BY DEF Total, Sums
<1> HIDE DEF m, f
<1>4. f[0] = 0 /\ \A n \in 1 .. m : f[n] = f[n - 1] + lengths[n]
  BY <1>1, <1>2 DEF Sums
<1>5. \A n \in 0 .. m : f[n] \in Nat
  <2> DEFINE S == {n \in Nat : n <= m => f[n] \in Nat}
  <2>1. 0 \in S
    BY <1>4
  <2>2. ASSUME NEW n \in Nat, n \in S PROVE n + 1 \in S
    <3> SUFFICES ASSUME n + 1 <= m PROVE f[n + 1] \in Nat
      OBVIOUS
    <3>1. n + 1 \in 1 .. m /\ n <= m /\ (n + 1) - 1 = n
      BY <1>1
    <3>2. f[n + 1] = f[(n + 1) - 1] + lengths[n + 1] /\ lengths[n + 1] \in Nat
      BY <1>1, <1>4, <3>1
    <3>3. f[n] \in Nat
      BY <2>2, <3>1
    <3> QED  BY <3>1, <3>2, <3>3
  <2> HIDE DEF S
  <2>3. Nat \subseteq S
    BY <2>1, <2>2, SetInduction
  <2> QED  BY <1>1, <2>3 DEF S
<1> QED  BY <1>3, <1>4, <1>5 DEF m

\* A total is a number, and one length at the end is part of it.
LEMMA TotalBounds ==
  ASSUME NEW lengths \in Seq(Nat)
  PROVE  /\ Total(lengths) \in Nat
         /\ Len(lengths) = 0 => Total(lengths) = 0
         /\ Len(lengths) = 1 => Total(lengths) = lengths[1]
         /\ Len(lengths) = 2 => Total(lengths) = lengths[1] + lengths[2]
         /\ Len(lengths) > 0 => Total(lengths) >= lengths[Len(lengths)]
<1> DEFINE m == Len(lengths)
<1>1. m \in Nat /\ \A n \in 1 .. m : lengths[n] \in Nat
  OBVIOUS
<1>2. PICK f : /\ f[0] = 0
               /\ \A n \in 1 .. m : f[n] = f[n - 1] + lengths[n]
               /\ \A n \in 0 .. m : f[n] \in Nat
               /\ Total(lengths) = f[m]
  BY TotalIsASum
<1> HIDE DEF m
<1>3. ASSUME m > 0 PROVE f[m] = f[m - 1] + lengths[m] /\ f[m - 1] \in Nat /\ lengths[m] \in Nat
  BY <1>1, <1>2, <1>3
<1>4. Total(lengths) \in Nat /\ (m > 0 => Total(lengths) >= lengths[m])
  BY <1>1, <1>2, <1>3
<1>5. m = 1 => f[1] = f[0] + lengths[1] /\ lengths[1] \in Nat
  BY <1>1, <1>2
<1>6. m = 2 => f[2] = f[1] + lengths[2] /\ f[1] = f[0] + lengths[1] /\ lengths[1] \in Nat /\ lengths[2] \in Nat
  BY <1>1, <1>2
<1>7. m = 0 => Total(lengths) = 0
  BY <1>2
<1>8. m = 1 => Total(lengths) = lengths[1]
  BY <1>2, <1>5
<1>9. m = 2 => Total(lengths) = lengths[1] + lengths[2]
  BY <1>2, <1>6
<1> QED  BY <1>4, <1>7, <1>8, <1>9 DEF m
=============================================================================
