----------------------------- MODULE ConfigProofs -----------------------------
(***************************************************************************)
(* Proofs about ConfigMerge and ConfigStore, for every set of instances,   *)
(* names, uses and imported files: what an import makes of a list, that a  *)
(* change is only lost to a writer that saves blindly, that the backup is  *)
(* what a writer replaces, and that names stay unique.                     *)
(***************************************************************************)
EXTENDS ConfigStore, FiniteSetTheorems, SequenceTheorems, WellFoundedInduction, TLAPS

-----------------------------------------------------------------------------
(* Numbers.                                                                *)

\* A set of numbers that is not empty has a first one.
LEMMA FirstOf ==
  ASSUME NEW A, A \subseteq Nat, A # {}
  PROVE  \E i \in A : \A j \in A : i <= j
<1>1. PICK x \in A : \A y \in A : ~(<<y, x>> \in OpToRel(<, Nat))
  BY NatLessThanWellFounded, WFMin
<1>2. ASSUME NEW y \in A
      PROVE  x <= y
  <2>1. x \in Nat /\ y \in Nat
    OBVIOUS
  <2>2. ~(<<y, x>> \in OpToRel(<, Nat))
    BY <1>1, Zenon
  <2>3. <<y, x>> \in Nat \X Nat
    BY <2>1
  <2>4. ~(y < x)
    BY <2>2, <2>3, Zenon DEF OpToRel
  <2> QED BY <2>1, <2>4
<1> QED BY <1>2

\* What holds of none of the numbers up to n that have a first exception holds of all.
LEMMA NoFirst ==
  ASSUME NEW n \in Nat, NEW Bad, Bad \subseteq 0 .. n, 0 \notin Bad,
         \A k \in 1 .. n : k - 1 \notin Bad => k \notin Bad
  PROVE  Bad = {}
<1> SUFFICES ASSUME Bad # {}
             PROVE  FALSE
  OBVIOUS
<1>0. Bad \subseteq Nat
  OBVIOUS
<1>1. PICK k \in Bad : \A j \in Bad : k <= j
  BY <1>0, FirstOf
<1>2. k \in 1 .. n /\ ~(k <= k - 1)
  OBVIOUS
<1> QED BY <1>1, <1>2

\* Sets of the numbers up to n are finite, and so is the part up to a number.
LEMMA Finite ==
  ASSUME NEW n \in Nat, NEW S, S \subseteq 1 .. n
  PROVE  /\ IsFiniteSet(S) /\ Cardinality(S) \in Nat
         /\ \A k : LET B == {j \in S : j <= k}
                   IN  /\ IsFiniteSet(B) /\ Cardinality(B) \in Nat
                       /\ Cardinality(B) <= Cardinality(S)
<1>1. IsFiniteSet(1 .. n)
  BY FS_Interval
<1>2. IsFiniteSet(S) /\ Cardinality(S) \in Nat
  BY <1>1, FS_Subset, FS_CardinalityType
<1>3. ASSUME NEW k
      PROVE  LET B == {j \in S : j <= k}
             IN  /\ IsFiniteSet(B) /\ Cardinality(B) \in Nat
                 /\ Cardinality(B) <= Cardinality(S)
  <2> DEFINE B == {j \in S : j <= k}
  <2>1. B \in SUBSET S
    OBVIOUS
  <2> HIDE DEF B
  <2>2. IsFiniteSet(B) /\ Cardinality(B) <= Cardinality(S)
    BY <2>1, <1>2, FS_Subset
  <2>3. Cardinality(B) \in Nat
    BY <2>2, FS_CardinalityType
  <2> QED BY <2>2, <2>3 DEF B
<1> QED BY <1>2, <1>3

-----------------------------------------------------------------------------
(* Places of a list in order.                                              *)

\* How many numbers of S there are up to k.
Rank(S, k) == Cardinality({j \in S : j <= k})

\* Ranks grow along S, and each number up to its size is the rank of one.
LEMMA Ranks ==
  ASSUME NEW n \in Nat, NEW S, S \subseteq 1 .. n
  PROVE  /\ Cardinality(S) \in Nat
         /\ \A k \in S : Rank(S, k) \in 1 .. Cardinality(S)
         /\ \A k, l \in S : k < l => Rank(S, k) < Rank(S, l)
         /\ \A x \in 1 .. Cardinality(S) : \E k \in S : Rank(S, k) = x
<1>1. /\ IsFiniteSet(S) /\ Cardinality(S) \in Nat
      /\ \A k : /\ IsFiniteSet({j \in S : j <= k}) /\ Rank(S, k) \in Nat
                /\ Rank(S, k) <= Cardinality(S)
  BY Finite DEF Rank
<1>2. ASSUME NEW k \in S
      PROVE  Rank(S, k) \in 1 .. Cardinality(S)
  <2>1. k \in {j \in S : j <= k}
    OBVIOUS
  <2>2. Rank(S, k) # 0
    BY <2>1, <1>1, FS_EmptySet DEF Rank
  <2>3. Rank(S, k) \in Nat /\ Rank(S, k) <= Cardinality(S) /\ Cardinality(S) \in Nat
    BY <1>1
  <2> QED BY <2>2, <2>3
<1>3. ASSUME NEW k \in S, NEW l \in S, k < l
      PROVE  Rank(S, k) < Rank(S, l)
  <2> DEFINE A == {j \in S : j <= k}
             B == {j \in S : j <= l}
  <2>0. k \in Nat /\ l \in Nat /\ \A j \in S : j \in Nat
    OBVIOUS
  <2>1. A \in SUBSET B /\ l \in B /\ l \notin A
    <3>1. \A j \in S : j <= k => j <= l
      BY <1>3, <2>0
    <3>2. l <= l /\ ~(l <= k)
      BY <1>3, <2>0
    <3> QED BY <3>1, <3>2
  <2>2. IsFiniteSet(B) /\ Cardinality(A) \in Nat /\ Cardinality(B) \in Nat
    BY <1>1 DEF Rank
  <2> HIDE DEF A, B
  <2>3. Cardinality(A) <= Cardinality(B) /\ Cardinality(A) # Cardinality(B)
    BY <2>1, <2>2, FS_Subset
  <2>4. Rank(S, k) = Cardinality(A) /\ Rank(S, l) = Cardinality(B)
    BY DEF Rank, A, B
  <2> QED BY <2>2, <2>3, <2>4
<1>4. \A x \in 1 .. Cardinality(S) : \E k \in S : Rank(S, k) = x
  <2> DEFINE f == [k \in S |-> Rank(S, k)]
             T == 1 .. Cardinality(S)
  <2>1. f \in [S -> T]
    BY <1>2
  <2>2. \A k, l \in S : f[k] = f[l] => k = l
    <3> TAKE k, l \in S
    <3>1. k \in Nat /\ l \in Nat /\ f[k] = Rank(S, k) /\ f[l] = Rank(S, l)
      OBVIOUS
    <3>2. k < l \/ l < k \/ k = l
      BY <3>1
    <3>3. Rank(S, k) \in Nat /\ Rank(S, l) \in Nat
      BY <1>1
    <3>4. k < l => Rank(S, k) # Rank(S, l)
      BY <3>3, <1>3
    <3>5. l < k => Rank(S, k) # Rank(S, l)
      BY <3>3, <1>3
    <3> QED BY <3>1, <3>2, <3>4, <3>5
  <2>3. f \in Injection(S, T)
    BY <2>1, <2>2 DEF Injection, IsInjective
  <2>4. IsFiniteSet(T) /\ Cardinality(T) = Cardinality(S)
    BY <1>1, FS_Interval
  <2> HIDE DEF T
  <2>5. f \in Surjection(S, T)
    BY <2>3, <2>4, FS_Injection
  <2>6. \A x \in T : \E k \in S : f[k] = x
    BY <2>5 DEF Surjection
  <2> QED BY <2>6 DEF T
<1> QED BY <1>1, <1>2, <1>3, <1>4

\* The x-th number of S is the one of rank x.
LEMMA Order ==
  ASSUME NEW n \in Nat, NEW S, S \subseteq 1 .. n
  PROVE  LET q == InOrder(S)
         IN  /\ Cardinality(S) \in Nat
             /\ q = [x \in 1 .. Cardinality(S) |-> q[x]]
             /\ \A x \in 1 .. Cardinality(S) :
                  q[x] \in S /\ \A k \in S : k = q[x] <=> Rank(S, k) = x
             /\ \A k \in S : Rank(S, k) \in 1 .. Cardinality(S) /\ q[Rank(S, k)] = k
             /\ \A x, y \in 1 .. Cardinality(S) : q[x] < q[y] <=> x < y
<1> DEFINE q == InOrder(S)
           N == Cardinality(S)
<1>1. /\ N \in Nat
      /\ \A k \in S : Rank(S, k) \in 1 .. N
      /\ \A k, l \in S : k < l => Rank(S, k) < Rank(S, l)
      /\ \A x \in 1 .. N : \E k \in S : Rank(S, k) = x
  BY Ranks
<1>2. q = [x \in 1 .. N |-> CHOOSE k \in S : Rank(S, k) = x]
  BY DEF InOrder, Rank
<1> HIDE DEF q, N
<1>3. \A k, l \in S : k # l => Rank(S, k) # Rank(S, l)
  <2> TAKE k, l \in S
  <2>1. k \in Nat /\ l \in Nat /\ Rank(S, k) \in Nat /\ Rank(S, l) \in Nat
    BY <1>1
  <2>2. k # l => k < l \/ l < k
    BY <2>1
  <2> QED BY <2>1, <2>2, <1>1
<1>4. \A x \in 1 .. N : q[x] \in S /\ Rank(S, q[x]) = x
  BY <1>1, <1>2
<1>5. \A k \in S : q[Rank(S, k)] = k
  BY <1>1, <1>3, <1>4
<1>6. \A x \in 1 .. N : \A k \in S : k = q[x] <=> Rank(S, k) = x
  BY <1>3, <1>4
<1>7. ASSUME NEW x \in 1 .. N, NEW y \in 1 .. N
      PROVE  q[x] < q[y] <=> x < y
  <2>1. q[x] \in Nat /\ q[y] \in Nat /\ x \in Nat /\ y \in Nat
    <3>1. q[x] \in S /\ q[y] \in S
      BY <1>4
    <3>2. S \subseteq Nat /\ 1 .. N \subseteq Nat
      BY <1>1
    <3> QED BY <3>1, <3>2
  <2>2. q[x] < q[y] => x < y
    BY <1>1, <1>4
  <2>3. q[y] < q[x] => y < x
    BY <1>1, <1>4
  <2>4. q[x] = q[y] => x = y
    BY <1>4
  <2>5. q[x] < q[y] \/ q[y] < q[x] \/ q[x] = q[y]
    BY <2>1
  <2> QED BY <2>1, <2>2, <2>3, <2>4, <2>5
<1>8. q = [x \in 1 .. N |-> q[x]]
  BY <1>2
<1>9. /\ N \in Nat
      /\ q = [x \in 1 .. N |-> q[x]]
      /\ \A x \in 1 .. N : q[x] \in S /\ \A k \in S : k = q[x] <=> Rank(S, k) = x
      /\ \A k \in S : Rank(S, k) \in 1 .. N /\ q[Rank(S, k)] = k
      /\ \A x, y \in 1 .. N : q[x] < q[y] <=> x < y
  BY <1>1, <1>4, <1>5, <1>6, <1>7, <1>8
<1> QED BY <1>9 DEF q, N

\* The elements of p are those of marks at the places q of S, in order.
TakesPlaces(p, q, marks, S) ==
  /\ Len(p) = Cardinality(S) /\ Len(p) \in Nat
  /\ \A x \in 1 .. Len(p) : q[x] \in S /\ p[x] = marks[q[x]]
  /\ \A k \in S : \E x \in 1 .. Len(p) : q[x] = k /\ p[x] = marks[k]
  /\ \A x, y \in 1 .. Len(p) : q[x] < q[y] <=> x < y

LEMMA PickedOf ==
  ASSUME NEW T, NEW marks \in Seq(T), NEW S, S \subseteq 1 .. Len(marks)
  PROVE  /\ Pick(marks, S) \in Seq(T)
         /\ TakesPlaces(Pick(marks, S), InOrder(S), marks, S)
<1> DEFINE N == Cardinality(S)
           p == Pick(marks, S)
           q == InOrder(S)
<1>1. Len(marks) \in Nat
  OBVIOUS
<1>2. /\ N \in Nat
      /\ \A x \in 1 .. N : q[x] \in S
      /\ \A k \in S : Rank(S, k) \in 1 .. N /\ q[Rank(S, k)] = k
      /\ \A x, y \in 1 .. N : q[x] < q[y] <=> x < y
  BY <1>1, Order
<1>3. p = [x \in 1 .. N |-> marks[q[x]]]
  BY DEF Pick
<1>4. \A k \in S : marks[k] \in T
  OBVIOUS
<1> HIDE DEF N, p, q
<1>5. p \in [1 .. N -> T]
  BY <1>2, <1>3, <1>4
<1>6. p \in Seq(T) /\ Len(p) = N
  BY <1>2, <1>5
<1>7. \A x \in 1 .. N : q[x] \in S /\ p[x] = marks[q[x]]
  BY <1>2, <1>3
<1>8. \A k \in S : \E x \in 1 .. N : q[x] = k /\ p[x] = marks[k]
  BY <1>2, <1>3
<1>9. TakesPlaces(p, q, marks, S)
  BY <1>2, <1>6, <1>7, <1>8 DEF N, TakesPlaces
<1> QED BY <1>6, <1>9 DEF p, q

LEMMA Picked ==
  ASSUME NEW T, NEW marks \in Seq(T), NEW S, S \subseteq 1 .. Len(marks)
  PROVE  /\ Pick(marks, S) \in Seq(T) /\ Len(Pick(marks, S)) = Cardinality(S)
         /\ Len(Pick(marks, S)) \in Nat
  BY PickedOf DEF TakesPlaces

\* Every place.
LEMMA PickAll ==
  ASSUME NEW T, NEW marks \in Seq(T)
  PROVE  Pick(marks, 1 .. Len(marks)) = marks
<1> DEFINE n == Len(marks)
           S == 1 .. n
<1>1. n \in Nat
  OBVIOUS
<1> HIDE DEF n
<1>2. ASSUME NEW k \in S
      PROVE  Rank(S, k) = k
  <2>1. {j \in S : j <= k} = 1 .. k /\ k \in Nat
    BY <1>1
  <2>2. Cardinality(1 .. k) = k
    BY <2>1, FS_Interval
  <2> QED BY <2>1, <2>2 DEF Rank
<1>3. Cardinality(S) = n
  BY <1>1, FS_Interval
<1>4. \A x \in S : InOrder(S)[x] \in S /\ \A k \in S : k = InOrder(S)[x] <=> Rank(S, k) = x
  BY <1>1, <1>3, Order
<1>5. \A x \in S : InOrder(S)[x] = x
  BY <1>2, <1>4
<1>6. Pick(marks, S) = [x \in S |-> marks[x]]
  BY <1>3, <1>5 DEF Pick
<1>7. marks = [x \in S |-> marks[x]]
  BY DEF n
<1> QED BY <1>6, <1>7 DEF n

LEMMA PickNone ==
  ASSUME NEW marks
  PROVE  Pick(marks, {}) = <<>>
<1>1. Cardinality({}) = 0
  BY FS_EmptySet
<1>2. Pick(marks, {}) = [x \in 1 .. 0 |-> marks[InOrder({})[x]]]
  BY <1>1 DEF Pick
<1>3. DOMAIN Pick(marks, {}) = {}
  BY <1>2
<1> QED BY <1>2, <1>3

\* One place more, behind the others.
LEMMA PickOneMore ==
  ASSUME NEW T, NEW marks \in Seq(T), NEW S, S \subseteq 1 .. Len(marks),
         NEW m \in 1 .. Len(marks), \A k \in S : k < m
  PROVE  Pick(marks, S \cup {m}) = Append(Pick(marks, S), marks[m])
<1> DEFINE n == Len(marks)
           N == Cardinality(S)
           U == S \cup {m}
           p == Pick(marks, S)
<1>1. n \in Nat /\ S \subseteq 1 .. n /\ U \subseteq 1 .. n
  OBVIOUS
<1>2. IsFiniteSet(S) /\ m \notin S /\ N \in Nat
  <2>1. m \notin S
    <3>1. m \in Nat /\ ~(m < m)
      BY <1>1
    <3> QED BY <3>1
  <2> QED BY <1>1, <2>1, Finite
<1>3. Cardinality(U) = N + 1
  BY <1>2, FS_AddElement
<1>4. /\ \A x \in 1 .. N : InOrder(S)[x] \in S
                           /\ \A k \in S : k = InOrder(S)[x] <=> Rank(S, k) = x
  BY <1>1, Order
<1>5. \A x \in 1 .. N + 1 : InOrder(U)[x] \in U
                            /\ \A k \in U : k = InOrder(U)[x] <=> Rank(U, k) = x
  BY <1>1, <1>3, Order
<1>6. ASSUME NEW k \in S
      PROVE  Rank(U, k) = Rank(S, k)
  <2>1. ~(m <= k)
    BY <1>1
  <2>2. {j \in U : j <= k} = {j \in S : j <= k}
    BY <2>1
  <2> QED BY <2>2 DEF Rank
<1>7. Rank(U, m) = N + 1
  <2>1. \A j \in U : j <= m
    BY <1>1
  <2>2. {j \in U : j <= m} = U
    BY <2>1
  <2> QED BY <2>2, <1>3 DEF Rank
<1>8. \A x \in 1 .. N : InOrder(U)[x] = InOrder(S)[x]
  <2> TAKE x \in 1 .. N
  <2>1. x \in 1 .. N + 1
    BY <1>2
  <2>2. InOrder(S)[x] \in U /\ Rank(U, InOrder(S)[x]) = x
    BY <1>4, <1>6
  <2> QED BY <2>1, <2>2, <1>5
<1>9. InOrder(U)[N + 1] = m
  <2>1. N + 1 \in 1 .. N + 1
    BY <1>2
  <2> QED BY <2>1, <1>5, <1>7
<1>10. p \in Seq(T) /\ Len(p) = N /\ p = [x \in 1 .. N |-> marks[InOrder(S)[x]]]
  <2>1. p \in Seq(T) /\ Len(p) = N
    BY Picked
  <2>2. p = [x \in 1 .. N |-> marks[InOrder(S)[x]]]
    BY DEF Pick
  <2> QED BY <2>1, <2>2
<1>11. Pick(marks, U) = [x \in 1 .. N + 1 |-> marks[InOrder(U)[x]]]
  BY <1>3 DEF Pick
<1> HIDE DEF p, N, U
<1>12. Append(p, marks[m]) = [x \in 1 .. N + 1 |-> IF x = N + 1 THEN marks[m] ELSE p[x]]
  <2>1. Append(p, marks[m]) \in Seq(T) /\ Len(Append(p, marks[m])) = N + 1
    <3>1. marks[m] \in T
      OBVIOUS
    <3>2. p \in Seq(T) /\ Len(p) = N
      BY <1>10
    <3> QED BY ONLY <3>1, <3>2, AppendProperties
  <2>2. \A x \in 1 .. N + 1 : Append(p, marks[m])[x] = IF x = N + 1 THEN marks[m] ELSE p[x]
    BY <1>10, <1>2
  <2> QED BY <2>1, <2>2
<1>13. \A x \in 1 .. N + 1 :
         marks[InOrder(U)[x]] = IF x = N + 1 THEN marks[m] ELSE p[x]
  <2> TAKE x \in 1 .. N + 1
  <2>1. CASE x = N + 1
    BY <2>1, <1>9
  <2>2. CASE x # N + 1
    <3>1. x \in 1 .. N
      BY <2>2, <1>2
    <3> QED BY <3>1, <2>2, <1>8, <1>10
  <2> QED BY <2>1, <2>2
<1>14. Pick(marks, U) = Append(p, marks[m])
  BY <1>11, <1>12, <1>13
<1> QED BY <1>14 DEF p, U

-----------------------------------------------------------------------------
(* What is merged.                                                         *)

\* existing.retain(), from the first bookmark to the last.
LEMMA WithoutByTurns ==
  ASSUME NEW T, NEW marks \in Seq(T), NEW name
  PROVE  \E kept :
           /\ kept[0] = <<>>
           /\ \A k \in 1 .. Len(marks) :
                kept[k] = IF marks[k].name = name THEN kept[k - 1]
                          ELSE Append(kept[k - 1], marks[k])
           /\ Without(marks, name) = kept[Len(marks)]
<1> DEFINE N == Len(marks)
           Turn(k, before) ==
             IF marks[k].name = name THEN before ELSE Append(before, marks[k])
           Table(g, k) == g = [n \in 0 .. k |-> IF n = 0 THEN <<>> ELSE Turn(n, g[n - 1])]
           kept == CHOOSE g : Table(g, N)
           Bad == {k \in 0 .. N : ~\E g : Table(g, k)}
<1>1. Without(marks, name) = kept[N]
  BY DEF Without
<1>2. N \in Nat
  OBVIOUS
<1> HIDE DEF kept, N, Turn
<1>3. 0 \notin Bad
  <2>1. Table([n \in 0 .. 0 |-> <<>>], 0)
    OBVIOUS
  <2> QED BY <2>1
<1>4. ASSUME NEW k \in 1 .. N, k - 1 \notin Bad
      PROVE  k \notin Bad
  <2>1. k - 1 \in 0 .. N
    BY <1>2
  <2>2. PICK g : Table(g, k - 1)
    BY <2>1, <1>4
  <2> DEFINE g2 == [n \in 0 .. k |-> IF n = k THEN Turn(k, g[k - 1]) ELSE g[n]]
  <2>3. ASSUME NEW n \in 0 .. k
        PROVE  g2[n] = IF n = 0 THEN <<>> ELSE Turn(n, g2[n - 1])
    <3>1. CASE n = k
      <4>1. g2[n - 1] = g[k - 1] /\ n # 0
        BY <3>1, <1>2
      <4> QED BY <4>1, <3>1
    <3>2. CASE n # k
      <4>1. n \in 0 .. k - 1 /\ g2[n] = g[n] /\ (n # 0 => g2[n - 1] = g[n - 1])
        BY <3>2, <1>2
      <4> QED BY <4>1, <2>2
    <3> QED BY <3>1, <3>2
  <2>4. Table(g2, k)
    BY <2>3
  <2> QED BY <2>4
<1>5. Bad = {}
  <2>1. Bad \subseteq 0 .. N
    OBVIOUS
  <2> HIDE DEF Bad
  <2> QED BY <1>2, <1>3, <1>4, <2>1, NoFirst
<1>6. Table(kept, N)
  <2>1. \E g : Table(g, N)
    BY <1>2, <1>5
  <2> QED BY <2>1 DEF kept
<1>7. kept[0] = <<>> /\ \A k \in 1 .. N : kept[k] = Turn(k, kept[k - 1])
  BY <1>2, <1>6
<1> QED BY <1>1, <1>7 DEF N, Turn

\* It leaves the places of the other names.
LEMMA WithoutPicks ==
  ASSUME NEW T, NEW all \in Seq(T), NEW S, S \subseteq 1 .. Len(all), NEW name,
         NEW R, \A k : k \in R <=> k \in S /\ all[k].name # name
  PROVE  Without(Pick(all, S), name) = Pick(all, R)
<1> DEFINE p == Pick(all, S)
           q == InOrder(S)
           N == Len(p)
           Sel(k) == {j \in S : all[j].name # name /\ Rank(S, j) <= k}
<1>1. Len(all) \in Nat
  OBVIOUS
<1>2. /\ p \in Seq(T) /\ N \in Nat /\ N = Cardinality(S)
      /\ \A x \in 1 .. N : p[x] = all[q[x]]
  <2>1. p \in Seq(T) /\ N \in Nat /\ N = Cardinality(S)
    <3>1. /\ Pick(all, S) \in Seq(T) /\ Len(Pick(all, S)) = Cardinality(S)
          /\ Len(Pick(all, S)) \in Nat
      <4>1. all \in Seq(T) /\ S \subseteq 1 .. Len(all)
        OBVIOUS
      <4> QED BY ONLY <4>1, Picked
    <3> QED BY <3>1
  <2>2. p = [x \in 1 .. Cardinality(S) |-> all[q[x]]]
    BY DEF Pick
  <2> HIDE DEF p, q
  <2> QED BY <2>1, <2>2
<1>3. /\ \A x \in 1 .. N : q[x] \in S /\ \A k \in S : k = q[x] <=> Rank(S, k) = x
      /\ \A k \in S : Rank(S, k) \in 1 .. N /\ q[Rank(S, k)] = k
      /\ \A x, y \in 1 .. N : q[x] < q[y] <=> x < y
  BY <1>1, <1>2, Order
<1> HIDE DEF p, q, N
<1>4. PICK kept :
        /\ kept[0] = <<>>
        /\ \A k \in 1 .. N : kept[k] = IF p[k].name = name THEN kept[k - 1]
                                       ELSE Append(kept[k - 1], p[k])
        /\ Without(p, name) = kept[N]
  BY <1>2, WithoutByTurns DEF N
<1> DEFINE Bad == {k \in 0 .. N : kept[k] # Pick(all, Sel(k))}
<1>5. 0 \notin Bad
  <2>1. \A j \in S : ~(Rank(S, j) <= 0)
    BY <1>2, <1>3
  <2>2. Sel(0) = {}
    BY <2>1
  <2> QED BY <2>2, <1>4, PickNone
<1>6. ASSUME NEW k \in 1 .. N, k - 1 \notin Bad
      PROVE  k \notin Bad
  <2> DEFINE m == q[k]
  <2>1. m \in S /\ Rank(S, m) = k /\ p[k] = all[m]
    BY <1>2, <1>3
  <2>2. k - 1 \in 0 .. N /\ k \in Int
    BY <1>2
  <2>3. kept[k - 1] = Pick(all, Sel(k - 1))
    BY <2>2, <1>6
  <2>4. \A j \in S : Rank(S, j) \in Int /\ (Rank(S, j) = k => j = m)
    BY <1>2, <1>3
  <2>5. \A j \in S : Rank(S, j) <= k <=> Rank(S, j) <= k - 1 \/ j = m
    BY <2>1, <2>2, <2>4
  <2>6. \A j \in Sel(k - 1) : j < m
    <3> TAKE j \in Sel(k - 1)
    <3>1. j \in S /\ Rank(S, j) < k
      BY <2>2, <2>4
    <3>2. Rank(S, j) \in 1 .. N /\ q[Rank(S, j)] = j
      BY <3>1, <1>3
    <3> QED BY <3>1, <3>2, <1>3
  <2> HIDE DEF m
  <2>7. CASE all[m].name = name
    <3>1. Sel(k) = Sel(k - 1)
      BY <2>5, <2>7
    <3>2. kept[k] = kept[k - 1]
      BY <1>4, <2>1, <2>7
    <3> QED BY <3>1, <3>2, <2>3
  <2>8. CASE all[m].name # name
    <3>1. Sel(k) = Sel(k - 1) \cup {m}
      BY <2>1, <2>5, <2>8
    <3>2. kept[k] = Append(kept[k - 1], all[m])
      BY <1>4, <2>1, <2>8
    <3>3. Sel(k - 1) \subseteq 1 .. Len(all) /\ m \in 1 .. Len(all)
      BY <2>1
    <3> HIDE DEF Sel
    <3>4. Pick(all, Sel(k - 1) \cup {m}) = Append(Pick(all, Sel(k - 1)), all[m])
      BY <2>6, <3>3, PickOneMore
    <3> QED BY <3>1, <3>2, <3>4, <2>3
  <2> QED BY <2>7, <2>8
<1>7. Bad = {}
  <2>1. Bad \subseteq 0 .. N
    OBVIOUS
  <2> HIDE DEF Bad
  <2> QED BY <1>2, <1>5, <1>6, <2>1, NoFirst
<1>8. Without(p, name) = Pick(all, Sel(N))
  <2>1. N \in 0 .. N
    BY <1>2
  <2>2. N \notin Bad
    BY <1>7, Zenon
  <2>3. kept[N] = Pick(all, Sel(N))
    BY <2>1, <2>2
  <2> QED BY <2>3, <1>4
<1>9. \A j \in S : Rank(S, j) <= N
  BY <1>2, <1>3
<1>10. Sel(N) = R
  BY <1>9
<1> QED BY <1>8, <1>10 DEF p

\* The turns of the loop.
LEMMA MergeByTurns ==
  ASSUME NEW T, NEW existing \in Seq(T), NEW imported \in Seq(T), NEW overwrite
  PROVE  \E merged :
           /\ merged[0] = existing
           /\ \A k \in 1 .. Len(imported) :
                merged[k] = Merge(NamesIn(existing), merged[k - 1], imported[k], overwrite)
           /\ MergeImports(existing, imported, overwrite) = merged[Len(imported)]
<1> DEFINE N == Len(imported)
           Turn(k, before) == Merge(NamesIn(existing), before, imported[k], overwrite)
           Table(g, k) == g = [n \in 0 .. k |-> IF n = 0 THEN existing ELSE Turn(n, g[n - 1])]
           merged == CHOOSE g : Table(g, N)
           Bad == {k \in 0 .. N : ~\E g : Table(g, k)}
<1>1. MergeImports(existing, imported, overwrite) = merged[N]
  BY DEF MergeImports
<1>2. N \in Nat
  OBVIOUS
<1> HIDE DEF merged, N, Turn
<1>3. 0 \notin Bad
  <2>1. Table([n \in 0 .. 0 |-> existing], 0)
    OBVIOUS
  <2> QED BY <2>1
<1>4. ASSUME NEW k \in 1 .. N, k - 1 \notin Bad
      PROVE  k \notin Bad
  <2>1. k - 1 \in 0 .. N
    BY <1>2
  <2>2. PICK g : Table(g, k - 1)
    BY <2>1, <1>4
  <2> DEFINE g2 == [n \in 0 .. k |-> IF n = k THEN Turn(k, g[k - 1]) ELSE g[n]]
  <2>3. ASSUME NEW n \in 0 .. k
        PROVE  g2[n] = IF n = 0 THEN existing ELSE Turn(n, g2[n - 1])
    <3>1. CASE n = k
      <4>1. g2[n - 1] = g[k - 1] /\ n # 0
        BY <3>1, <1>2
      <4> QED BY <4>1, <3>1
    <3>2. CASE n # k
      <4>1. n \in 0 .. k - 1 /\ g2[n] = g[n] /\ (n # 0 => g2[n - 1] = g[n - 1])
        BY <3>2, <1>2
      <4> QED BY <4>1, <2>2
    <3> QED BY <3>1, <3>2
  <2>4. Table(g2, k)
    BY <2>3
  <2> QED BY <2>4
<1>5. Bad = {}
  <2>1. Bad \subseteq 0 .. N
    OBVIOUS
  <2> HIDE DEF Bad
  <2> QED BY <1>2, <1>3, <1>4, <2>1, NoFirst
<1>6. Table(merged, N)
  <2>1. \E g : Table(g, N)
    BY <1>2, <1>5
  <2> QED BY <2>1 DEF merged
<1>7. merged[0] = existing /\ \A k \in 1 .. N : merged[k] = Turn(k, merged[k - 1])
  BY <1>2, <1>6
<1> QED BY <1>1, <1>7 DEF N, Turn

\* After k turns: the bookmarks that were there, unless one of their name was to
\* replace them, and of those imported every new one and the last of each name
\* that replaced any.
Stays(existing, imported, overwrite, k, j) ==
  /\ j \in 1 .. Len(existing)
  /\ ~(overwrite /\ \E l \in 1 .. k : imported[l].name = existing[j].name)
Comes(existing, imported, overwrite, k, l) ==
  /\ l \in 1 .. k
  /\ \/ imported[l].name \notin NamesIn(existing)
     \/ overwrite /\ \A x \in 1 .. k : imported[x].name = imported[l].name => x <= l
Chosen(existing, imported, overwrite, k) ==
  {j \in 1 .. Len(existing \o imported) :
     \/ Stays(existing, imported, overwrite, k, j)
     \/ Comes(existing, imported, overwrite, k, j - Len(existing))}

\* merge_imports() picks from both lists.
LEMMA MergePicks ==
  ASSUME NEW T, NEW existing \in Seq(T), NEW imported \in Seq(T), NEW overwrite \in BOOLEAN
  PROVE  MergeImports(existing, imported, overwrite) =
           Pick(existing \o imported, Chosen(existing, imported, overwrite, Len(imported)))
<1> DEFINE all == existing \o imported
           M == Len(existing)
           N == Len(imported)
           names == NamesIn(existing)
           Sel(k) == Chosen(existing, imported, overwrite, k)
<1>1. /\ M \in Nat /\ N \in Nat /\ all \in Seq(T) /\ Len(all) = M + N
      /\ \A j \in 1 .. M : all[j] = existing[j]
      /\ \A k \in 1 .. N : all[M + k] = imported[k]
  <2>1. M \in Nat /\ N \in Nat /\ all \in Seq(T) /\ Len(all) = M + N
    BY ConcatProperties
  <2>2. \A j \in 1 .. M + N : all[j] = IF j <= M THEN existing[j] ELSE imported[j - M]
    BY ConcatProperties
  <2> HIDE DEF all, M, N
  <2>3. \A j \in 1 .. M : j \in 1 .. M + N /\ j <= M
    BY <2>1
  <2>4. \A k \in 1 .. N : M + k \in 1 .. M + N /\ ~(M + k <= M) /\ (M + k) - M = k
    BY <2>1
  <2> QED BY <2>1, <2>2, <2>3, <2>4
<1>2. \A j \in 1 .. M : existing[j].name \in names
  BY DEF NamesIn
<1>3. PICK merged :
        /\ merged[0] = existing
        /\ \A k \in 1 .. N : merged[k] = Merge(names, merged[k - 1], imported[k], overwrite)
        /\ MergeImports(existing, imported, overwrite) = merged[N]
  BY MergeByTurns
<1>4. \A k : Sel(k) = {j \in 1 .. M + N :
                        \/ /\ j \in 1 .. M
                           /\ ~(overwrite /\ \E l \in 1 .. k : imported[l].name = existing[j].name)
                        \/ /\ j - M \in 1 .. k
                           /\ \/ imported[j - M].name \notin names
                              \/ overwrite /\ \A x \in 1 .. k : imported[x].name = imported[j - M].name
                                                               => x <= j - M}
  BY <1>1 DEF Chosen, Stays, Comes
<1> HIDE DEF all, M, N, names, Sel
<1> DEFINE Bad == {k \in 0 .. N : merged[k] # Pick(all, Sel(k))}
<1>5. 0 \notin Bad
  <2>1. \A j : j \notin 1 .. 0
    OBVIOUS
  <2>2. Sel(0) = {j \in 1 .. M + N : j \in 1 .. M}
    BY <1>4, <2>1
  <2>3. Sel(0) = 1 .. M
    <3>1. \A j \in 1 .. M : j \in 1 .. M + N
      BY <1>1
    <3> QED BY <2>2, <3>1, Zenon
  <2>4. /\ Pick(existing, 1 .. M) = existing
        /\ Pick(existing, 1 .. M) = [x \in 1 .. M |-> existing[InOrder(1 .. M)[x]]]
        /\ \A x \in 1 .. M : InOrder(1 .. M)[x] \in 1 .. M
    <3>1. Cardinality(1 .. M) = M
      BY <1>1, FS_Interval
    <3>2. \A x \in 1 .. M : InOrder(1 .. M)[x] \in 1 .. M
      BY <1>1, <3>1, Order
    <3> QED BY <3>1, <3>2, PickAll DEF Pick, M
  <2>5. Pick(all, 1 .. M) = [x \in 1 .. M |-> all[InOrder(1 .. M)[x]]]
    <3>1. Cardinality(1 .. M) = M
      BY <1>1, FS_Interval
    <3> QED BY <3>1 DEF Pick
  <2>6. Pick(all, 1 .. M) = existing
    BY <2>4, <2>5, <1>1
  <2> QED BY <2>3, <2>6, <1>3
<1>6. ASSUME NEW k \in 1 .. N, k - 1 \notin Bad
      PROVE  k \notin Bad
  <2> DEFINE b == imported[k]
             m == M + k
  <2>1. m \in 1 .. Len(all) /\ all[m] = b /\ m - M = k /\ k \in Nat /\ k - 1 \in 0 .. N /\ m \notin 1 .. M
    BY <1>1
  <2>2. merged[k - 1] = Pick(all, Sel(k - 1))
    BY <2>1, <1>6
  <2>3. \A x : x \in 1 .. k <=> x \in 1 .. k - 1 \/ x = k
    BY <2>1
  <2>4. \A j \in Sel(k - 1) : j \in 1 .. Len(all) /\ j < m
    <3> TAKE j \in Sel(k - 1)
    <3>1. j \in 1 .. M + N /\ (j \in 1 .. M \/ j - M \in 1 .. k - 1)
      BY <1>4
    <3> QED BY <3>1, <1>1
  <2>5. merged[k] = Merge(names, merged[k - 1], b, overwrite)
    BY <1>3
  <2>6. \A j \in 1 .. M + N : j - M = k <=> j = m
    BY <1>1, <2>1
  <2>7. m \in 1 .. M + N
    BY <1>1, <2>1
  <2>8. \A j \in 1 .. M : j \in 1 .. M + N /\ all[j] = existing[j] /\ existing[j].name \in names /\ j # m
                          /\ \A l \in 1 .. k : j - M # l
    BY <1>1, <1>2, <2>1
  <2>9. \A j \in 1 .. M + N : j - M \in 1 .. N => all[j] = imported[j - M]
    BY <1>1
  <2>10. \A j : j \in 1 .. k => j \in 1 .. N /\ j <= k
    BY <1>1, <2>1
  <2>11. Pick(all, Sel(k - 1) \cup {m}) = Append(Pick(all, Sel(k - 1)), b)
    <3>1. Sel(k - 1) \subseteq 1 .. Len(all) /\ \A j \in Sel(k - 1) : j < m
      BY <2>4
    <3>2. all \in Seq(T) /\ m \in 1 .. Len(all) /\ all[m] = b
      BY <2>1, <1>1
    <3> HIDE DEF b, m
    <3>3. Pick(all, Sel(k - 1) \cup {m}) = Append(Pick(all, Sel(k - 1)), all[m])
      BY <3>1, <3>2, PickOneMore
    <3> QED BY <3>2, <3>3
  <2> HIDE DEF b, m
  <2>12. CASE b.name \notin names
    <3>1. Sel(k) = Sel(k - 1) \cup {m}
      <4>1. \A j \in 1 .. M : existing[j].name # b.name
        BY <2>8, <2>12
      <4>2. \A j \in 1 .. M + N : j \in Sel(k) <=> j \in Sel(k - 1) \/ j = m
        <5> TAKE j \in 1 .. M + N
        <5>1. CASE j \in 1 .. M
          BY <5>1, <4>1, <1>4, <2>3, <2>8 DEF b
        <5>2. CASE j = m
          BY <5>2, <1>4, <2>1, <2>3, <2>7, <2>12 DEF b
        <5>3. CASE j \notin 1 .. M /\ j # m
          <6>1. j - M \in 1 .. k <=> j - M \in 1 .. k - 1
            BY <2>3, <2>6, <5>3
          <6>2. imported[j - M].name = b.name => imported[j - M].name \notin names
            BY <2>12
          <6> QED BY <5>3, <6>1, <6>2, <1>4, <2>3 DEF b
        <5> QED BY <5>1, <5>2, <5>3
      <4>3. Sel(k) \subseteq 1 .. M + N /\ Sel(k - 1) \subseteq 1 .. M + N
        BY <1>4
      <4> QED BY <4>2, <4>3, <2>7
    <3>2. merged[k] = Append(merged[k - 1], b)
      BY <2>5, <2>12 DEF Merge
    <3> QED BY <3>1, <3>2, <2>2, <2>11
  <2>13. CASE b.name \in names /\ ~overwrite
    <3>1. Sel(k) = Sel(k - 1)
      <4>1. \A j \in 1 .. M + N : j \in Sel(k) <=> j \in Sel(k - 1)
        <5> TAKE j \in 1 .. M + N
        <5>1. j - M \in 1 .. k <=> j - M \in 1 .. k - 1 \/ j = m
          BY <2>3, <2>6
        <5> QED BY <5>1, <1>4, <2>1, <2>13 DEF b
      <4>2. Sel(k) \subseteq 1 .. M + N /\ Sel(k - 1) \subseteq 1 .. M + N
        BY <1>4
      <4> QED BY <4>1, <4>2
    <3>2. merged[k] = merged[k - 1]
      BY <2>5, <2>13 DEF Merge
    <3> QED BY <3>1, <3>2, <2>2
  <2>14. CASE b.name \in names /\ overwrite
    <3> DEFINE W == {j \in Sel(k - 1) : all[j].name # b.name}
    <3>1. Sel(k) = W \cup {m}
      <4>1. \A j \in 1 .. M + N : j \in Sel(k) <=> j \in W \/ j = m
        <5> TAKE j \in 1 .. M + N
        <5>1. CASE j \in 1 .. M
          BY <5>1, <1>4, <2>3, <2>8, <2>14 DEF b
        <5>2. CASE j = m
          BY <5>2, <1>4, <2>1, <2>3, <2>7, <2>10, <2>14 DEF b
        <5>3. CASE j \notin 1 .. M /\ j # m
          <6>1. j - M \in 1 .. k <=> j - M \in 1 .. k - 1
            BY <2>3, <2>6, <5>3
          <6>2. ASSUME j - M \in 1 .. k - 1
                PROVE  all[j] = imported[j - M] /\ ~(k <= j - M)
            <7>1. j - M \in 1 .. N /\ j - M <= k - 1
              BY <6>2, <1>1, <2>1
            <7> QED BY <7>1, <2>1, <2>9
          <6>3. j \in Sel(k) => j \in W
            BY <5>3, <6>1, <6>2, <1>4, <2>3, <2>14 DEF b
          <6>4. j \in W => j \in Sel(k)
            BY <5>3, <6>1, <6>2, <1>4, <2>3, <2>14 DEF b
          <6> QED BY <5>3, <6>3, <6>4
        <5> QED BY <5>1, <5>2, <5>3
      <4>2. Sel(k) \subseteq 1 .. M + N /\ W \subseteq 1 .. M + N
        BY <1>4
      <4> QED BY <4>1, <4>2, <2>7
    <3>2. merged[k] = Append(Without(merged[k - 1], b.name), b)
      BY <2>5, <2>14 DEF Merge
    <3>3. Without(Pick(all, Sel(k - 1)), b.name) = Pick(all, W)
      <4>1. Sel(k - 1) \subseteq 1 .. Len(all)
        BY <2>4
      <4>2. all \in Seq(T)
        BY <1>1
      <4>3. \A j : j \in W <=> j \in Sel(k - 1) /\ all[j].name # b.name
        OBVIOUS
      <4> HIDE DEF W
      <4> QED BY ONLY <4>1, <4>2, <4>3, WithoutPicks
    <3>4. Pick(all, W \cup {m}) = Append(Pick(all, W), b)
      <4>1. W \subseteq 1 .. Len(all) /\ \A j \in W : j < m
        BY <2>4
      <4> HIDE DEF W
      <4> QED BY <4>1, <2>1, <1>1, PickOneMore
    <3> QED BY <3>1, <3>2, <3>3, <3>4, <2>2
  <2> QED BY <2>12, <2>13, <2>14
<1>7. Bad = {}
  <2>1. Bad \subseteq 0 .. N
    OBVIOUS
  <2> HIDE DEF Bad
  <2> QED BY <1>1, <1>5, <1>6, <2>1, NoFirst
<1>8. merged[N] = Pick(all, Sel(N))
  <2>1. N \in 0 .. N
    BY <1>1
  <2>2. N \notin Bad
    BY <1>7, Zenon
  <2> QED BY <2>1, <2>2
<1> QED BY <1>3, <1>8 DEF all, Sel, N

-----------------------------------------------------------------------------
(* The inductive invariant.                                                *)

Configs == [marks : Seq(Bookmarks), dismissed : BOOLEAN]
AllRows == {<<>>} \cup {doc.rows : doc \in {d \in Imports : d.readable}}
Wizards == [by : {"none", "file", "wizard", "first run"}, auto : BOOLEAN, rows : AllRows,
            overwrite : BOOLEAN, new : Nat, over : Nat]
Steps == {"off", "list", "session", "source", "path", "preview", "merge", "backup", "rename"}

Types ==
  /\ file \in Configs \cup {NoFile} /\ edits \in Nat /\ blind \in BOOLEAN
  /\ pc \in [Insts -> Steps] /\ ret \in [Insts -> Steps]
  /\ mem \in [Insts -> Configs] /\ out \in [Insts -> Configs] /\ temp \in [Insts -> Nat]
  /\ wiz \in [Insts -> Wizards] /\ chg \in [Insts -> SUBSET Names]
  /\ pending \in [Insts -> SUBSET Names]
  /\ seen \in [Insts -> Configs \cup {NoFile}] /\ want = [n \in Names |-> want[n]]

\* The edits of a name that count, without those of running sessions.
Ids(marks, n) ==
  {marks[k].id : k \in {j \in DOMAIN marks : marks[j].name = n /\ marks[j].born # Session}}
SameBut(names, marks, before) == \A n \in Names \ names : Ids(marks, n) = Ids(before, n)

\* Two bookmarks of a name are a saved one with temporary ones of sessions, or
\* former groups, after it, or of one import.
Ordered(marks) ==
  \A j, k \in DOMAIN marks :
    j < k /\ marks[j].name = marks[k].name =>
      marks[k].born \in {Session, Group} \/ (marks[j].born = marks[k].born /\ marks[k].born # Form)
\* What an instance does: it works with the configuration it has loaded, it is in
\* a session, it writes under the lock or without.
Writing(i)  == pc[i] \in {"backup", "rename"}
Saving(i)   == Writing(i) /\ ret[i] = "session"
Visiting(i) == pc[i] = "session" \/ Saving(i)
Working(i)  == \/ pc[i] = "list" \/ Visiting(i)
               \/ pc[i] \in {"source", "path", "preview"} /\ wiz[i].by = "first run"

\* The temporary bookmark is where its session expects it.
TempInPlace(i) ==
  temp[i] # 0 => /\ Visiting(i)
                 /\ temp[i] \in DOMAIN mem[i].marks /\ mem[i].marks[temp[i]].born = Session

\* The loaded configuration is that of the file last seen, but for the temporary
\* bookmark and the edits whose write failed; what is written is that but for the
\* bookmarks changed.  Who
\* writes under the lock has started from the file there is.
UpToDate(i) ==
  /\ Working(i) => seen[i] # NoFile /\ SameBut(pending[i], mem[i].marks, seen[i].marks)
  /\ Writing(i) /\ ret[i] # "session" /\ seen[i] # NoFile =>
       SameBut(chg[i] \cup pending[i], out[i].marks, seen[i].marks)
  /\ Writing(i) /\ ret[i] \in {"list", "source"} => SameBut({}, mem[i].marks, out[i].marks)
  /\ Writing(i) /\ ret[i] = "list" => seen[i] # NoFile
  /\ Writing(i) /\ ret[i] = "source" => wiz[i].by \in {"first run", "wizard"}
  /\ Writing(i) => ret[i] \in {"list", "source", "session", "merge", "off"}
  /\ Saving(i) => lock = i /\ (~blind => file # NoFile /\ SameBut(chg[i], out[i].marks, file.marks))

\* What the wizard shows is what it has read.
Previewed(i) ==
  \/ pc[i] = "preview"
  \/ wiz[i].by = "wizard" /\ (pc[i] = "merge" \/ (Writing(i) /\ ret[i] = "merge"))
  => LET preview == BuildPreview(wiz[i].rows, mem[i].marks, wiz[i].overwrite)
     IN  wiz[i].new = preview.new /\ wiz[i].over = preview.over

Local(i) ==
  /\ Ordered(mem[i].marks) /\ Ordered(out[i].marks)
  /\ seen[i] # NoFile => file # NoFile
  /\ TempInPlace(i) /\ UpToDate(i) /\ Previewed(i)

FileSound ==
  /\ file # NoFile => Ordered(file.marks)
  /\ file = NoFile => \A n \in Names : want[n] = Unset
  /\ LostOnlyBlindly

IInv == Types /\ FileSound /\ \A i \in Insts : Local(i)

-----------------------------------------------------------------------------
(* What the forms do to a list of bookmarks.                               *)

\* The elements of Ids.
LEMMA InIds ==
  ASSUME NEW marks, NEW n
  PROVE  \A x : x \in Ids(marks, n) <=>
           \E k \in DOMAIN marks : marks[k].name = n /\ marks[k].born # Session /\ marks[k].id = x
  BY DEF Ids

LEMMA Borns ==
  /\ Form # Session /\ Group # Session /\ Group # Form
  /\ \A id : ImportNo(id) # Form /\ ImportNo(id) # Session
  BY DEF Form, Session, Group, ImportNo

\* A bookmark at the end.
LEMMA Added ==
  ASSUME NEW marks \in Seq(Bookmarks), NEW b \in Bookmarks
  PROVE  LET after == Append(marks, b)
         IN  /\ after \in Seq(Bookmarks)
             /\ Ordered(marks) /\ (b.born \in {Session, Group} \/ b.name \notin NamesIn(marks)) => Ordered(after)
             /\ SameBut(IF b.born = Session THEN {} ELSE {b.name}, after, marks)
<1> DEFINE after == Append(marks, b)
           N == Len(marks)
<1>1. /\ N \in Nat /\ after \in Seq(Bookmarks) /\ Len(after) = N + 1
      /\ \A k \in 1 .. N : after[k] = marks[k]
      /\ after[N + 1] = b
  BY AppendProperties
<1>2. DOMAIN after = 1 .. N + 1 /\ DOMAIN marks = 1 .. N
  BY <1>1
<1> HIDE DEF after, N
<1>3. \A k \in 1 .. N + 1 : k \in 1 .. N \/ k = N + 1
  BY <1>1
<1>4. ASSUME Ordered(marks), b.born \in {Session, Group} \/ b.name \notin NamesIn(marks)
      PROVE  Ordered(after)
  <2> SUFFICES ASSUME NEW j \in 1 .. N + 1, NEW k \in 1 .. N + 1, j < k, after[j].name = after[k].name
               PROVE  after[k].born \in {Session, Group} \/ (after[j].born = after[k].born /\ after[k].born # Form)
    BY <1>2 DEF Ordered
  <2>1. j \in 1 .. N
    BY <1>1
  <2>2. CASE k \in 1 .. N
    BY <2>1, <2>2, <1>1, <1>2, <1>4 DEF Ordered
  <2>3. CASE k = N + 1
    <3>1. marks[j].name \in NamesIn(marks)
      BY <2>1, <1>2 DEF NamesIn
    <3> QED BY <2>1, <2>3, <3>1, <1>1, <1>4
  <2> QED BY <1>3, <2>2, <2>3
<1>5. SameBut(IF b.born = Session THEN {} ELSE {b.name}, after, marks)
  <2> SUFFICES ASSUME NEW n \in Names, b.born = Session \/ n # b.name
               PROVE  Ids(after, n) = Ids(marks, n)
    BY DEF SameBut
  <2>1. \A k \in 1 .. N : k \in 1 .. N + 1
    BY <1>1
  <2>2. \A x : x \in Ids(after, n) <=> x \in Ids(marks, n)
    BY <1>1, <1>2, <1>3, <2>1, InIds
  <2> QED BY <2>2
<1> QED BY <1>1, <1>4, <1>5 DEF after

\* What has been taken out and what moved up.
LEMMA RemovedOne ==
  ASSUME NEW T, NEW q \in Seq(T), NEW k \in 1 .. Len(q)
  PROVE  /\ RemoveAt(q, k) \in Seq(T) /\ Len(RemoveAt(q, k)) = Len(q) - 1
         /\ \A i \in 1 .. Len(q) - 1 : RemoveAt(q, k)[i] = q[IF i < k THEN i ELSE i + 1]
<1> DEFINE a == SubSeq(q, 1, k - 1)
           b == SubSeq(q, k + 1, Len(q))
<1>1. Len(q) \in Nat /\ k \in Nat /\ 1 <= k /\ k <= Len(q)
  OBVIOUS
<1>2. a \in Seq(T) /\ Len(a) = k - 1 /\ \A i \in 1 .. k - 1 : a[i] = q[i]
  BY <1>1, SubSeqProperties
<1>3. b \in Seq(T) /\ Len(b) = Len(q) - k /\ \A i \in 1 .. Len(q) - k : b[i] = q[k + i]
  BY <1>1, SubSeqProperties
<1> HIDE DEF a, b
<1>4. /\ a \o b \in Seq(T) /\ Len(a \o b) = Len(a) + Len(b)
      /\ \A i \in 1 .. Len(a) + Len(b) : (a \o b)[i] = IF i <= Len(a) THEN a[i] ELSE b[i - Len(a)]
  <2>1. a \in Seq(T) /\ b \in Seq(T)
    BY <1>2, <1>3
  <2> QED BY ONLY <2>1, ConcatProperties
<1>5. RemoveAt(q, k) = a \o b
  BY DEF RemoveAt, a, b
<1>6. Len(q) - 1 = Len(a) + Len(b)
  BY <1>1, <1>2, <1>3
<1>7. ASSUME NEW i \in 1 .. Len(q) - 1
      PROVE  (a \o b)[i] = q[IF i < k THEN i ELSE i + 1]
  <2>1. CASE i < k
    <3>1. i \in 1 .. k - 1
      BY <1>1, <2>1
    <3> QED BY <1>1, <1>2, <1>4, <1>6, <2>1, <3>1
  <2>2. CASE ~(i < k)
    <3>1. i - (k - 1) \in 1 .. Len(q) - k /\ k + (i - (k - 1)) = i + 1 /\ ~(i <= k - 1)
      BY <1>1, <2>2
    <3>2. b[i - (k - 1)] = q[i + 1]
      BY <1>3, <3>1
    <3>3. (a \o b)[i] = b[i - (k - 1)]
      BY <1>2, <1>4, <1>6, <3>1
    <3> QED BY <2>2, <3>2, <3>3
  <2> QED BY <2>1, <2>2
<1> QED BY <1>4, <1>5, <1>6, <1>7

\* A bookmark is taken out.
LEMMA Dropped ==
  ASSUME NEW marks \in Seq(Bookmarks), NEW k \in DOMAIN marks
  PROVE  LET after == RemoveAt(marks, k)
         IN  /\ after \in Seq(Bookmarks)
             /\ Ordered(marks) => Ordered(after)
             /\ SameBut(IF marks[k].born = Session THEN {} ELSE {marks[k].name}, after, marks)
<1> DEFINE after == RemoveAt(marks, k)
           N == Len(marks)
           At(i) == IF i < k THEN i ELSE i + 1
<1>1. N \in Nat /\ k \in 1 .. N /\ DOMAIN marks = 1 .. N
  OBVIOUS
<1>2. /\ after \in Seq(Bookmarks) /\ Len(after) = N - 1
      /\ \A i \in 1 .. N - 1 : after[i] = marks[At(i)]
  BY <1>1, RemovedOne
<1>3. DOMAIN after = 1 .. N - 1
  BY <1>1, <1>2
<1> HIDE DEF after, N
<1>4. /\ \A i \in 1 .. N - 1 : At(i) \in 1 .. N /\ At(i) # k
      /\ \A i, j \in 1 .. N - 1 : i < j => At(i) < At(j)
      /\ \A j \in 1 .. N : j # k => \E i \in 1 .. N - 1 : At(i) = j
  <2>1. /\ \A i \in 1 .. N - 1 : At(i) \in 1 .. N /\ At(i) # k
        /\ \A i, j \in 1 .. N - 1 : i < j => At(i) < At(j)
    BY <1>1
  <2>2. ASSUME NEW j \in 1 .. N, j # k
        PROVE  \E i \in 1 .. N - 1 : At(i) = j
    <3> DEFINE i == IF j < k THEN j ELSE j - 1
    <3>1. i \in 1 .. N - 1 /\ At(i) = j
      BY <1>1, <2>2
    <3> QED BY <3>1
  <2> QED BY <2>1, <2>2
<1> HIDE DEF At
<1>5. ASSUME Ordered(marks)
      PROVE  Ordered(after)
  BY <1>1, <1>2, <1>3, <1>4, <1>5 DEF Ordered
<1>6. SameBut(IF marks[k].born = Session THEN {} ELSE {marks[k].name}, after, marks)
  <2> SUFFICES ASSUME NEW n \in Names, marks[k].born = Session \/ n # marks[k].name
               PROVE  Ids(after, n) = Ids(marks, n)
    BY DEF SameBut
  <2>1. ASSUME NEW x, x \in Ids(after, n)
        PROVE  x \in Ids(marks, n)
    <3>1. PICK i \in 1 .. N - 1 : after[i].name = n /\ after[i].born # Session /\ after[i].id = x
      <4>1. \E i \in DOMAIN after : after[i].name = n /\ after[i].born # Session /\ after[i].id = x
        BY ONLY <2>1, InIds
      <4> QED BY <4>1, <1>3
    <3>2. At(i) \in DOMAIN marks /\ after[i] = marks[At(i)]
      BY <1>1, <1>2, <1>4
    <3> QED BY <3>1, <3>2, InIds
  <2>2. ASSUME NEW x, x \in Ids(marks, n)
        PROVE  x \in Ids(after, n)
    <3>1. PICK j \in 1 .. N : marks[j].name = n /\ marks[j].born # Session /\ marks[j].id = x
      BY <2>2, <1>1, InIds
    <3>2. PICK i \in 1 .. N - 1 : At(i) = j
      BY <3>1, <1>4
    <3>3. after[i] = marks[j] /\ i \in DOMAIN after
      BY <3>2, <1>2, <1>3
    <3> QED BY <3>1, <3>3, InIds
  <2> QED BY <2>1, <2>2
<1> QED BY <1>2, <1>5, <1>6 DEF after

\* A bookmark is changed in place: it keeps its name, and is not made a temporary
\* one, or gets a name that is free.
LEMMA Replaced ==
  ASSUME NEW marks \in Seq(Bookmarks), NEW k \in DOMAIN marks, NEW b \in Bookmarks,
         \/ b.name = marks[k].name /\ b.born = marks[k].born
         \/ /\ b.name = marks[k].name /\ marks[k].born = Session /\ b.born # Session
            /\ \A j \in DOMAIN marks : marks[j].name = b.name => k <= j
         \/ b.name \notin NamesIn(marks)
  PROVE  LET after == [marks EXCEPT ![k] = b]
         IN  /\ after \in Seq(Bookmarks)
             /\ Ordered(marks) => Ordered(after)
             /\ SameBut({marks[k].name, b.name}, after, marks)
<1> DEFINE after == [marks EXCEPT ![k] = b]
<1>1. /\ after \in Seq(Bookmarks) /\ DOMAIN after = DOMAIN marks /\ after[k] = b
      /\ \A j \in DOMAIN marks : j # k => after[j] = marks[j]
  BY ExceptSeq
<1>2. \A j \in DOMAIN marks : j \in Nat
  OBVIOUS
<1> HIDE DEF after
<1>3. ASSUME Ordered(marks)
      PROVE  Ordered(after)
  <2> SUFFICES ASSUME NEW i \in DOMAIN marks, NEW j \in DOMAIN marks, i < j,
                      after[i].name = after[j].name
               PROVE  after[j].born \in {Session, Group}
                      \/ (after[i].born = after[j].born /\ after[j].born # Form)
    BY <1>1 DEF Ordered
  <2>1. \A x \in DOMAIN marks : marks[x].name \in NamesIn(marks)
    BY DEF NamesIn
  <2>2. CASE b.name \notin NamesIn(marks)
    <3>1. i # k /\ j # k
      BY <2>1, <2>2, <1>1, <1>2
    <3> QED BY <3>1, <1>1, <1>3 DEF Ordered
  <2>3. CASE b.name = marks[k].name
    <3>1. marks[i].name = marks[j].name
      BY <2>3, <1>1
    <3>2. marks[j].born \in {Session, Group} \/ (marks[i].born = marks[j].born /\ marks[j].born # Form)
      BY <3>1, <1>3 DEF Ordered
    <3>3. CASE b.born = marks[k].born
      BY <3>2, <3>3, <1>1
    <3>4. CASE b.born # marks[k].born
      <4>0. marks[k].born = Session /\ \A x \in DOMAIN marks : marks[x].name = b.name => k <= x
        BY <2>1, <2>3, <3>4
      <4>1. j # k
        BY <4>0, <2>3, <3>1, <1>2
      <4>2. i = k => marks[j].born \in {Session, Group}
        BY <3>2, <4>0
      <4> QED BY <4>1, <4>2, <3>2, <1>1
    <3> QED BY <3>3, <3>4
  <2> QED BY <2>2, <2>3
<1>4. SameBut({marks[k].name, b.name}, after, marks)
  <2> SUFFICES ASSUME NEW n \in Names, n # b.name, n # marks[k].name
               PROVE  Ids(after, n) = Ids(marks, n)
    BY DEF SameBut
  <2>1. \A x : x \in Ids(after, n) <=> x \in Ids(marks, n)
    BY <1>1, InIds
  <2> QED BY <2>1
<1> QED BY <1>1, <1>3, <1>4 DEF after

LEMMA Made ==
  ASSUME NEW n \in Names, NEW id \in Nat, NEW ok \in BOOLEAN
  PROVE  /\ Entry(n, id, Form, ok) \in Bookmarks /\ Entry(n, id, Session, ok) \in Bookmarks
         /\ Entry(n, id, ImportNo(id), ok) \in Bookmarks /\ Entry(n, id, Group, ok) \in Bookmarks
         /\ \A born : /\ Entry(n, id, born, ok).name = n /\ Entry(n, id, born, ok).id = id
                      /\ Entry(n, id, born, ok).born = born
  BY DEF Entry, Bookmarks, Form, Session, Group, ImportNo

\* Save as bookmark.
LEMMA PutKeeps ==
  ASSUME NEW marks \in Seq(Bookmarks), NEW n \in Names, NEW id \in Nat
  PROVE  LET after == Put(marks, n, id)
         IN  /\ after \in Seq(Bookmarks)
             /\ Ordered(marks) => Ordered(after)
             /\ SameBut({n}, after, marks)
<1> DEFINE at == {k \in DOMAIN marks : marks[k].name = n}
<1>1. CASE at = {}
  <2> DEFINE b == Entry(n, id, Form, TRUE)
  <2>1. b \in Bookmarks /\ b.name = n /\ b.born # Session
    <3>1. b \in Bookmarks
      BY Made
    <3>2. b.name = n /\ b.born = Form
      BY DEF Entry
    <3> QED BY <3>1, <3>2, Borns
  <2>2. n \notin NamesIn(marks)
    BY <1>1 DEF NamesIn
  <2>3. Put(marks, n, id) = Append(marks, b)
    BY <1>1 DEF Put
  <2> HIDE DEF b
  <2> QED BY <2>1, <2>2, <2>3, Added
<1>2. CASE at # {}
  <2> DEFINE k == Min(at)
             born == IF marks[k].born = Session THEN Form ELSE marks[k].born
             b == Entry(n, id, born, TRUE)
  <2>1. k \in at /\ \A j \in at : k <= j
    <3>1. at \subseteq Nat
      OBVIOUS
    <3> HIDE DEF at
    <3>2. \E x \in at : \A y \in at : x <= y
      BY <3>1, <1>2, FirstOf
    <3> QED BY <3>2 DEF Min
  <2> HIDE DEF k
  <2>2. k \in DOMAIN marks /\ marks[k].name = n /\ marks[k] \in Bookmarks
    BY <2>1
  <2>3. b \in Bookmarks /\ b.name = marks[k].name /\ b.name = n /\ b.born = born
    BY <2>2 DEF Bookmarks, Entry, Form
  <2>4. Put(marks, n, id) = [marks EXCEPT ![k] = b]
    BY <1>2, <2>2 DEF Put, k
  <2>5. \A j \in DOMAIN marks : marks[j].name = b.name => k <= j
    BY <2>1, <2>3
  <2>6. \/ b.born = marks[k].born
        \/ marks[k].born = Session /\ b.born # Session
    BY <2>3, Borns
  <2> HIDE DEF b, born
  <2>7. {marks[k].name, b.name} = {n}
    BY <2>2, <2>3
  <2> DEFINE after == [marks EXCEPT ![k] = b]
  <2>8. /\ after \in Seq(Bookmarks)
        /\ Ordered(marks) => Ordered(after)
        /\ SameBut({marks[k].name, b.name}, after, marks)
    BY <2>2, <2>3, <2>5, <2>6, Replaced
  <2> QED BY <2>4, <2>7, <2>8
<1> QED BY <1>1, <1>2

\* The imported bookmarks: all born together.
LEMMA Rows ==
  ASSUME NEW rows, RowsOK(rows), NEW id \in Nat
  PROVE  LET imp == Entries(rows, id)
         IN  /\ imp \in Seq(Bookmarks) /\ Len(imp) = Len(rows) /\ Len(rows) \in Nat
             /\ DOMAIN rows = 1 .. Len(rows)
             /\ \A k \in 1 .. Len(rows) : /\ imp[k].name = rows[k].name /\ imp[k].id = id
                                          /\ imp[k].born = ImportNo(id)
<1> DEFINE imp == Entries(rows, id)
           N == Len(rows)
<1>1. N \in Nat /\ DOMAIN rows = 1 .. N
  BY DEF RowsOK
<1>2. imp = [k \in 1 .. N |-> Entry(rows[k].name, id, ImportNo(id), rows[k].ok)]
  BY <1>1 DEF Entries
<1>3. \A k \in 1 .. N : rows[k].name \in Names /\ rows[k].ok \in BOOLEAN
  BY <1>1 DEF RowsOK
<1>4. \A k \in 1 .. N : Entry(rows[k].name, id, ImportNo(id), rows[k].ok) \in Bookmarks
  BY <1>3, Made
<1> HIDE DEF imp, N
<1>5. imp \in [1 .. N -> Bookmarks]
  BY <1>2, <1>4
<1>6. imp \in Seq(Bookmarks) /\ Len(imp) = N
  BY <1>1, <1>5
<1>7. \A k \in 1 .. N : imp[k].name = rows[k].name /\ imp[k].id = id /\ imp[k].born = ImportNo(id)
  BY <1>2, <1>3, Made
<1> QED BY <1>1, <1>6, <1>7 DEF imp, N

\* A row that is chosen last of its name.
LEMMA LastOf ==
  ASSUME NEW N \in Nat, NEW imp, NEW l \in 1 .. N
  PROVE  \E x \in 1 .. N : /\ imp[x].name = imp[l].name
                           /\ \A y \in 1 .. N : imp[y].name = imp[l].name => y <= x
<1> DEFINE A == {N - x : x \in {y \in 1 .. N : imp[y].name = imp[l].name}}
<1>1. A \subseteq Nat /\ N - l \in A
  OBVIOUS
<1>2. PICK a \in A : \A b \in A : a <= b
  <2> HIDE DEF A
  <2> QED BY <1>1, FirstOf
<1>3. PICK x \in 1 .. N : imp[x].name = imp[l].name /\ a = N - x
  BY <1>2
<1>4. ASSUME NEW y \in 1 .. N, imp[y].name = imp[l].name
      PROVE  y <= x
  <2>1. N - x <= N - y
    BY <1>2, <1>3, <1>4
  <2> QED BY <2>1
<1> QED BY <1>3, <1>4

\* An import.
LEMMA MergeKeeps ==
  ASSUME NEW marks \in Seq(Bookmarks), NEW rows, RowsOK(rows), NEW id \in Nat,
         NEW overwrite \in BOOLEAN
  PROVE  LET after == MergeImports(marks, Entries(rows, id), overwrite)
         IN  /\ after \in Seq(Bookmarks)
             /\ Ordered(marks) => Ordered(after)
             /\ SameBut({after[k].name : k \in {j \in DOMAIN after : after[j].id = id}}, after, marks)
             /\ ~overwrite => SameBut(NamesIn(rows), after, marks)
<1> DEFINE imp == Entries(rows, id)
           all == marks \o imp
           M == Len(marks)
           N == Len(rows)
           C == Chosen(marks, imp, overwrite, N)
           q == InOrder(C)
           after == MergeImports(marks, imp, overwrite)
           L == Len(after)
<1>1. /\ imp \in Seq(Bookmarks) /\ Len(imp) = N /\ N \in Nat /\ DOMAIN rows = 1 .. N
      /\ \A k \in 1 .. N : imp[k].name = rows[k].name /\ imp[k].id = id /\ imp[k].born = ImportNo(id)
  BY Rows
<1> HIDE DEF imp
<1>2. M \in Nat /\ DOMAIN marks = 1 .. M
  OBVIOUS
<1>3. /\ all \in Seq(Bookmarks) /\ Len(all) = M + N
      /\ \A j \in 1 .. M + N : all[j] = IF j <= M THEN marks[j] ELSE imp[j - M]
  <2>1. marks \in Seq(Bookmarks) /\ imp \in Seq(Bookmarks) /\ Len(imp) = N
    BY <1>1
  <2>2. /\ marks \o imp \in Seq(Bookmarks) /\ Len(marks \o imp) = Len(marks) + Len(imp)
        /\ \A j \in 1 .. Len(marks) + Len(imp) :
             (marks \o imp)[j] = IF j <= Len(marks) THEN marks[j] ELSE imp[j - Len(marks)]
    BY ONLY <2>1, ConcatProperties
  <2> QED BY <2>1, <2>2
<1>4. after = Pick(all, C)
  BY <1>1, MergePicks
<1>5. C \subseteq 1 .. Len(all)
  BY DEF Chosen
<1> HIDE DEF all, C, after
<1>6. /\ after \in Seq(Bookmarks) /\ L \in Nat
      /\ \A x \in 1 .. L : q[x] \in C /\ after[x] = all[q[x]]
      /\ \A k \in C : \E x \in 1 .. L : q[x] = k /\ after[x] = all[k]
      /\ \A x, y \in 1 .. L : q[x] < q[y] <=> x < y
  <2>1. all \in Seq(Bookmarks) /\ C \subseteq 1 .. Len(all)
    BY <1>3, <1>5
  <2> HIDE DEF q
  <2>2. q = InOrder(C)
    BY DEF q
  <2>3. after \in Seq(Bookmarks) /\ TakesPlaces(after, q, all, C)
    BY ONLY <2>1, <2>2, <1>4, PickedOf
  <2> QED BY <2>3 DEF TakesPlaces
<1> HIDE DEF q, M, N, L
<1>7. DOMAIN after = 1 .. L
  BY <1>6 DEF L
\* Where a chosen bookmark comes from.
<1>8. ASSUME NEW j \in C
      PROVE  \/ /\ j \in 1 .. M /\ all[j] = marks[j]
                /\ ~(overwrite /\ \E l \in 1 .. N : imp[l].name = marks[j].name)
             \/ /\ j \notin 1 .. M /\ j > M /\ j - M \in 1 .. N /\ all[j] = imp[j - M]
                /\ imp[j - M].name \in NamesIn(marks) => overwrite
  <2>1. j \in 1 .. M + N /\ (Stays(marks, imp, overwrite, N, j) \/ Comes(marks, imp, overwrite, N, j - M))
    BY <1>3 DEF C, Chosen, M, all
  <2>2. CASE Stays(marks, imp, overwrite, N, j)
    BY <2>1, <2>2, <1>2, <1>3 DEF Stays, M
  <2>3. CASE Comes(marks, imp, overwrite, N, j - M)
    <3>1. j - M \in 1 .. N /\ (imp[j - M].name \in NamesIn(marks) => overwrite)
      BY <2>3 DEF Comes
    <3>2. j > M /\ ~(j <= M) /\ j \notin 1 .. M
      BY <2>1, <3>1, <1>1, <1>2
    <3> QED BY <2>1, <3>1, <3>2, <1>3
  <2> QED BY <2>1, <2>2, <2>3
\* Which are chosen.
<1>9. ASSUME NEW j \in 1 .. M, ~(overwrite /\ \E l \in 1 .. N : imp[l].name = marks[j].name)
      PROVE  j \in C /\ all[j] = marks[j]
  <2>1. j \in 1 .. M + N /\ j <= M
    BY <1>1, <1>2
  <2> QED BY <2>1, <1>3, <1>9 DEF C, Chosen, Stays, M, all
<1>10. ASSUME NEW l \in 1 .. N, overwrite,
              \A x \in 1 .. N : imp[x].name = imp[l].name => x <= l
       PROVE  M + l \in C /\ all[M + l] = imp[l]
  <2>1. M + l \in 1 .. M + N /\ ~(M + l <= M) /\ (M + l) - M = l
    BY <1>1, <1>2
  <2>2. Comes(marks, imp, overwrite, N, (M + l) - M)
    BY <1>10, <2>1 DEF Comes
  <2>3. M + l \in C
    BY <2>1, <2>2, <1>3 DEF C, Chosen, M, all
  <2> QED BY <2>1, <2>3, <1>3
<1>11. \A j \in 1 .. M : marks[j].name \in NamesIn(marks)
  BY <1>2 DEF NamesIn
<1>12. ASSUME Ordered(marks)
       PROVE  Ordered(after)
  <2> SUFFICES ASSUME NEW x \in 1 .. L, NEW y \in 1 .. L, x < y, after[x].name = after[y].name
               PROVE  after[y].born \in {Session, Group}
                      \/ (after[x].born = after[y].born /\ after[y].born # Form)
    BY <1>7 DEF Ordered
  <2> DEFINE j == q[x]
             k == q[y]
  <2>1. j \in C /\ k \in C /\ j < k /\ after[x] = all[j] /\ after[y] = all[k]
    BY <1>6
  <2>2. j \in Nat /\ k \in Nat
    <3>1. C \subseteq Nat
      BY <1>5, <1>3
    <3> QED BY <2>1, <3>1
  <2> HIDE DEF j, k
  <2>3. CASE j \in 1 .. M /\ k \in 1 .. M
    <3>1. all[j] = marks[j] /\ all[k] = marks[k]
      BY <2>1, <2>3, <1>8
    <3> QED BY <3>1, <2>1, <2>3, <1>2, <1>12 DEF Ordered
  <2>4. CASE j \in 1 .. M /\ k \notin 1 .. M
    <3>1. /\ all[j] = marks[j] /\ k - M \in 1 .. N /\ all[k] = imp[k - M]
          /\ ~(overwrite /\ \E l \in 1 .. N : imp[l].name = marks[j].name)
          /\ imp[k - M].name \in NamesIn(marks) => overwrite
      BY <2>1, <2>4, <1>8
    <3> QED BY <3>1, <2>1, <2>4, <1>11
  <2>5. CASE j \notin 1 .. M /\ k \in 1 .. M
    <3>1. j > M
      BY <2>1, <2>5, <1>8
    <3> QED BY <3>1, <2>1, <2>2, <2>5, <1>2
  <2>6. CASE j \notin 1 .. M /\ k \notin 1 .. M
    <3>1. j - M \in 1 .. N /\ all[j] = imp[j - M] /\ k - M \in 1 .. N /\ all[k] = imp[k - M]
      BY <2>1, <2>6, <1>8
    <3> QED BY <3>1, <2>1, <1>1, Borns
  <2> QED BY <2>3, <2>4, <2>5, <2>6
\* A name none of whose bookmarks is an imported one, and that none replaces.
<1>13. ASSUME NEW n \in Names,
              \A j \in C : all[j].name = n => j \in 1 .. M,
              overwrite => \A l \in 1 .. N : imp[l].name # n
       PROVE  Ids(after, n) = Ids(marks, n)
  <2>1. ASSUME NEW x, x \in Ids(after, n)
        PROVE  x \in Ids(marks, n)
    <3>1. PICK y \in 1 .. L : after[y].name = n /\ after[y].born # Session /\ after[y].id = x
      <4>1. \E y \in DOMAIN after : after[y].name = n /\ after[y].born # Session /\ after[y].id = x
        BY ONLY <2>1, InIds
      <4> QED BY <4>1, <1>7
    <3>2. q[y] \in C /\ after[y] = all[q[y]]
      BY <1>6
    <3>3. q[y] \in DOMAIN marks /\ all[q[y]] = marks[q[y]]
      BY <3>1, <3>2, <1>2, <1>8, <1>13
    <3> QED BY <3>1, <3>2, <3>3, InIds
  <2>2. ASSUME NEW x, x \in Ids(marks, n)
        PROVE  x \in Ids(after, n)
    <3>1. PICK j \in 1 .. M : marks[j].name = n /\ marks[j].born # Session /\ marks[j].id = x
      <4>1. \E y \in DOMAIN marks : marks[y].name = n /\ marks[y].born # Session /\ marks[y].id = x
        BY ONLY <2>2, InIds
      <4> QED BY <4>1, <1>2
    <3>2. j \in C /\ all[j] = marks[j]
      BY <3>1, <1>9, <1>13
    <3>3. PICK y \in 1 .. L : q[y] = j /\ after[y] = all[j]
      BY <3>2, <1>6
    <3>4. y \in DOMAIN after /\ after[y].name = n /\ after[y].born # Session /\ after[y].id = x
      BY <3>1, <3>2, <3>3, <1>7
    <3> QED BY ONLY <3>4, InIds
  <2> QED BY <2>1, <2>2
<1>14. SameBut({after[k].name : k \in {j \in DOMAIN after : after[j].id = id}}, after, marks)
  <2> SUFFICES ASSUME NEW n \in Names, \A k \in DOMAIN after : after[k].id = id => after[k].name # n
               PROVE  Ids(after, n) = Ids(marks, n)
    BY DEF SameBut
  <2>1. ASSUME NEW j \in C, all[j].name = n, j \notin 1 .. M
        PROVE  FALSE
    <3>1. PICK x \in 1 .. L : after[x] = all[j]
      BY <1>6
    <3>2. all[j].id = id
      BY <2>1, <1>1, <1>8
    <3> QED BY <3>1, <3>2, <2>1, <1>7
  <2>2. ASSUME overwrite, NEW l \in 1 .. N, imp[l].name = n
        PROVE  FALSE
    <3>1. PICK x \in 1 .. N : imp[x].name = n /\ \A y \in 1 .. N : imp[y].name = n => y <= x
      <4>1. N \in Nat
        BY <1>1
      <4>2. \E x \in 1 .. N : /\ imp[x].name = imp[l].name
                             /\ \A y \in 1 .. N : imp[y].name = imp[l].name => y <= x
        BY ONLY <4>1, <2>2, LastOf
      <4> QED BY <4>2, <2>2
    <3>2. M + x \in C /\ all[M + x] = imp[x]
      BY <2>2, <3>1, <1>10
    <3>3. M + x \notin 1 .. M
      BY <1>1, <1>2
    <3> QED BY <3>1, <3>2, <3>3, <2>1
  <2> QED BY <2>1, <2>2, <1>13
<1>15. ASSUME ~overwrite
       PROVE  SameBut(NamesIn(rows), after, marks)
  <2> SUFFICES ASSUME NEW n \in Names, n \notin NamesIn(rows)
               PROVE  Ids(after, n) = Ids(marks, n)
    BY DEF SameBut
  <2>1. \A l \in 1 .. N : imp[l].name # n
    BY <1>1 DEF NamesIn
  <2>2. \A j \in C : all[j].name = n => j \in 1 .. M
    BY <2>1, <1>8
  <2> QED BY <2>2, <1>15, <1>13
<1> QED BY <1>6, <1>12, <1>14, <1>15 DEF after, imp

-----------------------------------------------------------------------------
(* A step of one instance.                                                 *)

\* Nothing of the other instances changes.
Only(i) ==
  \A j \in Insts \ {i} :
    /\ pc'[j] = pc[j] /\ mem'[j] = mem[j] /\ temp'[j] = temp[j] /\ wiz'[j] = wiz[j]
    /\ out'[j] = out[j] /\ ret'[j] = ret[j] /\ chg'[j] = chg[j] /\ seen'[j] = seen[j]
    /\ pending'[j] = pending[j]
    /\ lock = j => lock' = j

\* As long as the file stays, it is enough to look at that instance.
LEMMA OneStep ==
  ASSUME IInv, NEW i \in Insts, Types', Only(i), Local(i)', UNCHANGED <<file, want, blind>>
  PROVE  IInv'
<1>1. FileSound'
  BY DEF IInv, FileSound, LostOnlyBlindly, NoLostEdit, Saved
<1>2. ASSUME NEW j \in Insts, j # i
      PROVE  Local(j)'
  <2>1. /\ pc'[j] = pc[j] /\ mem'[j] = mem[j] /\ temp'[j] = temp[j] /\ wiz'[j] = wiz[j]
        /\ out'[j] = out[j] /\ ret'[j] = ret[j] /\ chg'[j] = chg[j] /\ seen'[j] = seen[j]
        /\ pending'[j] = pending[j]
        /\ lock = j => lock' = j
    BY <1>2 DEF Only
  <2>2. (Writing(j)' <=> Writing(j)) /\ (Saving(j)' <=> Saving(j)) /\ (Working(j)' <=> Working(j))
        /\ (Visiting(j)' <=> Visiting(j))
    BY <2>1 DEF Writing, Saving, Working, Visiting
  <2>3. Local(j)
    BY DEF IInv
  <2>4. UpToDate(j)'
    BY <2>1, <2>2, <2>3 DEF Local, UpToDate
  <2>5. TempInPlace(j)'
    BY <2>1, <2>2, <2>3 DEF Local, TempInPlace
  <2>6. Previewed(j)'
    BY <2>1, <2>2, <2>3 DEF Local, Previewed
  <2> QED BY <2>1, <2>3, <2>4, <2>5, <2>6 DEF Local
<1> QED BY <1>1, <1>2 DEF IInv

\* What is known of one instance.
LEMMA Known ==
  ASSUME IInv, NEW i \in Insts
  PROVE  /\ Local(i) /\ Types /\ FileSound
         /\ pc[i] \in Steps /\ ret[i] \in Steps /\ temp[i] \in Nat /\ chg[i] \in SUBSET Names
         /\ pending[i] \in SUBSET Names
         /\ mem[i] \in Configs /\ mem[i].marks \in Seq(Bookmarks) /\ mem[i].dismissed \in BOOLEAN
         /\ out[i] \in Configs /\ out[i].marks \in Seq(Bookmarks)
         /\ wiz[i] \in Wizards /\ wiz[i].rows \in AllRows /\ wiz[i].overwrite \in BOOLEAN
         /\ file # NoFile => file \in Configs /\ file.marks \in Seq(Bookmarks)
         /\ NoFile \notin Configs
<1>1. Types /\ Local(i) /\ FileSound
  BY DEF IInv
<1>2. /\ pc[i] \in Steps /\ ret[i] \in Steps /\ temp[i] \in Nat /\ chg[i] \in SUBSET Names
      /\ pending[i] \in SUBSET Names
      /\ mem[i] \in Configs /\ out[i] \in Configs /\ wiz[i] \in Wizards
      /\ file # NoFile => file \in Configs
  BY <1>1 DEF Types
<1>3. \A c \in Configs : c.marks \in Seq(Bookmarks) /\ c.dismissed \in BOOLEAN
  BY DEF Configs
<1>4. wiz[i].rows \in AllRows /\ wiz[i].overwrite \in BOOLEAN
  BY <1>2 DEF Wizards
<1>5. NoFile \notin Configs
  BY ConfigAssumption DEF Configs
<1> QED BY <1>1, <1>2, <1>3, <1>4, <1>5

LEMMA EmptyConfig ==
  /\ Empty \in Configs /\ Empty.marks = <<>> /\ Ordered(Empty.marks)
  /\ NoWizard \in Wizards /\ NoWizard.by = "none"
<1>1. Empty \in Configs /\ Empty.marks = <<>>
  BY DEF Empty, Configs
<1>2. Ordered(<<>>)
  BY DEF Ordered
<1>3. NoWizard \in Wizards /\ NoWizard.by = "none"
  BY DEF NoWizard, Wizards, AllRows
<1> QED BY <1>1, <1>2, <1>3

LEMMA Starts ==
  ASSUME Types, NEW i \in Insts, NEW config \in Configs, NEW names \in SUBSET Names, NEW then \in Steps,
         StartWrite(i, config, names, then)
  PROVE  /\ pc'[i] = "backup" /\ out'[i] = config /\ chg'[i] = names /\ ret'[i] = then
         /\ pc' \in [Insts -> Steps] /\ ret' \in [Insts -> Steps]
         /\ out' \in [Insts -> Configs] /\ chg' \in [Insts -> SUBSET Names]
         /\ \A j \in Insts \ {i} :
              pc'[j] = pc[j] /\ out'[j] = out[j] /\ chg'[j] = chg[j] /\ ret'[j] = ret[j]
<1>1. "backup" \in Steps
  BY DEF Steps
<1> QED BY <1>1 DEF StartWrite, Types

LEMMA Ends ==
  ASSUME Types, NEW i \in Insts, Gone(i)
  PROVE  /\ pc' \in [Insts -> Steps] /\ ret' \in [Insts -> Steps]
         /\ out' \in [Insts -> Configs] /\ chg' \in [Insts -> SUBSET Names]
         /\ mem' \in [Insts -> Configs] /\ temp' \in [Insts -> Nat] /\ wiz' \in [Insts -> Wizards]
         /\ seen' \in [Insts -> Configs \cup {NoFile}] /\ pending' \in [Insts -> SUBSET Names]
         /\ (\A j \in Insts : lock = j /\ j # i => lock' = j) => Only(i)
         /\ Local(i)'
<1>1. "off" \in Steps
  BY DEF Steps
<1>2. /\ pc' \in [Insts -> Steps] /\ ret' \in [Insts -> Steps]
      /\ out' \in [Insts -> Configs] /\ chg' \in [Insts -> SUBSET Names]
      /\ mem' \in [Insts -> Configs] /\ temp' \in [Insts -> Nat] /\ wiz' \in [Insts -> Wizards]
      /\ seen' \in [Insts -> Configs \cup {NoFile}] /\ pending' \in [Insts -> SUBSET Names]
  BY <1>1, EmptyConfig DEF Gone, Types
<1>3. (\A j \in Insts : lock = j /\ j # i => lock' = j) => Only(i)
  BY DEF Gone, Types, Only
<1>4. pc'[i] = "off" /\ mem'[i] = Empty /\ out'[i] = Empty /\ temp'[i] = 0 /\ seen'[i] = NoFile
  BY DEF Gone, Types
<1>5. Local(i)'
  BY <1>4, EmptyConfig
     DEF Local, TempInPlace, UpToDate, Previewed, Working, Writing, Saving, Visiting
<1> QED BY <1>2, <1>3, <1>5

-----------------------------------------------------------------------------
(* Each step keeps the invariant.                                          *)

LEMMA OpenKeeps ==
  ASSUME IInv, NEW i \in Insts, Open(i)
  PROVE  IInv'
<1>1. /\ Types /\ Local(i) /\ FileSound /\ temp[i] = 0 /\ NoFile \notin Configs
      /\ wiz[i] \in Wizards
  BY Known DEF Open, Local, TempInPlace, Visiting, Saving, Writing
<1>2. /\ pc[i] = "off" /\ seen' = [seen EXCEPT ![i] = file]
      /\ UNCHANGED <<file, bak, lock, temp, edits, want, blind, pending>>
  BY DEF Open
<1>3. seen' \in [Insts -> Configs \cup {NoFile}] /\ seen'[i] = file
      /\ \A j \in Insts \ {i} : seen'[j] = seen[j]
  BY <1>1, <1>2 DEF Types
<1>4. CASE file = NoFile
  <2>1. /\ mem' = [mem EXCEPT ![i] = Empty] /\ StartWrite(i, Empty, {}, "source")
        /\ wiz' = [wiz EXCEPT ![i].by = "first run"]
    BY <1>4 DEF Open
  <2>2. "source" \in Steps /\ {} \in SUBSET Names /\ Empty \in Configs
    BY EmptyConfig DEF Steps
  <2>3. /\ pc'[i] = "backup" /\ out'[i] = Empty /\ chg'[i] = {} /\ ret'[i] = "source"
        /\ pc' \in [Insts -> Steps] /\ ret' \in [Insts -> Steps]
        /\ out' \in [Insts -> Configs] /\ chg' \in [Insts -> SUBSET Names]
        /\ \A j \in Insts \ {i} :
             pc'[j] = pc[j] /\ out'[j] = out[j] /\ chg'[j] = chg[j] /\ ret'[j] = ret[j]
    BY <1>1, <2>1, <2>2, Starts
  <2>4. /\ mem' \in [Insts -> Configs] /\ mem'[i] = Empty /\ wiz' \in [Insts -> Wizards]
        /\ wiz'[i].by = "first run"
        /\ \A j \in Insts \ {i} : mem'[j] = mem[j] /\ wiz'[j] = wiz[j]
    <3>1. [wiz[i] EXCEPT !.by = "first run"] \in Wizards /\ [wiz[i] EXCEPT !.by = "first run"].by = "first run"
      BY <1>1 DEF Wizards
    <3> QED BY <1>1, <2>1, <2>2, <3>1 DEF Types
  <2>5. Types'
    BY <1>1, <1>2, <1>3, <2>3, <2>4 DEF Types
  <2>6. Only(i)
    BY <1>2, <1>3, <2>3, <2>4 DEF Only
  <2>7. Local(i)'
    BY <1>1, <1>2, <1>3, <1>4, <2>3, <2>4, EmptyConfig
       DEF Local, TempInPlace, UpToDate, Previewed, Working, Writing, Saving, Visiting, SameBut
  <2> QED BY <1>2, <2>5, <2>6, <2>7, OneStep
<1>5. CASE file # NoFile
  <2>1. /\ mem' = [mem EXCEPT ![i] = file] /\ pc' = [pc EXCEPT ![i] = Begin(file)]
        /\ wiz' = [wiz EXCEPT ![i].by = IF Begin(file) = "source" THEN "first run" ELSE "none"]
        /\ UNCHANGED <<out, chg, ret>>
    BY <1>5 DEF Open
  <2>2. Begin(file) \in Steps /\ Begin(file) \in {"source", "list"} /\ file \in Configs
    BY <1>1, <1>5 DEF Begin, Steps, Types
  <2>3. /\ pc' \in [Insts -> Steps] /\ pc'[i] = Begin(file)
        /\ mem' \in [Insts -> Configs] /\ mem'[i] = file
        /\ wiz' \in [Insts -> Wizards] /\ (Begin(file) = "source" => wiz'[i].by = "first run")
        /\ \A j \in Insts \ {i} : pc'[j] = pc[j] /\ mem'[j] = mem[j] /\ wiz'[j] = wiz[j]
    <3> DEFINE by == IF Begin(file) = "source" THEN "first run" ELSE "none"
    <3>1. [wiz[i] EXCEPT !.by = by] \in Wizards /\ [wiz[i] EXCEPT !.by = by].by = by
      BY <1>1 DEF Wizards
    <3> QED BY <1>1, <2>1, <2>2, <3>1 DEF Types
  <2>4. Types'
    BY <1>1, <1>2, <1>3, <2>1, <2>3 DEF Types
  <2>5. Only(i)
    BY <1>2, <1>3, <2>1, <2>3 DEF Only
  <2>6. Local(i)'
    BY <1>1, <1>2, <1>3, <1>5, <2>1, <2>2, <2>3
       DEF Local, TempInPlace, UpToDate, Previewed, Working, Writing, Saving, Visiting, SameBut, FileSound
  <2> QED BY <1>2, <2>4, <2>5, <2>6, OneStep
<1> QED BY <1>4, <1>5

LEMMA CrashKeeps ==
  ASSUME IInv, NEW i \in Insts, Crash(i)
  PROVE  IInv'
<1>1. Types /\ Gone(i) /\ (lock' = IF lock = i THEN NoInst ELSE lock)
      /\ UNCHANGED <<file, edits, want, blind>>
  BY DEF IInv, Crash
<1>2. Types'
  BY <1>1, Ends DEF Types
<1>3. Only(i) /\ Local(i)'
  BY <1>1, Ends
<1> QED BY <1>1, <1>2, <1>3, OneStep

LEMMA BackupKeeps ==
  ASSUME IInv, NEW i \in Insts, Backup(i)
  PROVE  IInv'
<1>1. /\ Types /\ Local(i) /\ pc[i] = "backup" /\ pc' = [pc EXCEPT ![i] = "rename"]
      /\ UNCHANGED <<file, lock, mem, temp, wiz, out, ret, chg, edits, want, seen, blind, pending>>
  BY DEF IInv, Backup
<1>2. pc' \in [Insts -> Steps] /\ pc'[i] = "rename" /\ \A j \in Insts \ {i} : pc'[j] = pc[j]
  BY <1>1 DEF Types, Steps
<1>3. Types'
  BY <1>1, <1>2 DEF Types
<1>4. Only(i)
  BY <1>1, <1>2 DEF Only
<1>5. Local(i)'
  <2>1. /\ Writing(i)' /\ Writing(i) /\ (Saving(i)' <=> Saving(i)) /\ (Visiting(i)' <=> Visiting(i))
        /\ (Working(i)' <=> Working(i))
    BY <1>1, <1>2 DEF Writing, Saving, Working, Visiting
  <2>2. TempInPlace(i)'
    BY <1>1, <2>1 DEF Local, TempInPlace
  <2>3. UpToDate(i)'
    BY <1>1, <2>1 DEF Local, UpToDate
  <2>4. Previewed(i)'
    BY <1>1, <1>2, <2>1 DEF Local, Previewed
  <2> QED BY <1>1, <2>2, <2>3, <2>4 DEF Local
<1> QED BY <1>1, <1>3, <1>4, <1>5, OneStep

\* The file is replaced.
LEMMA RenameFile ==
  ASSUME IInv, NEW i \in Insts, Rename(i)
  PROVE  FileSound'
<1>1. /\ Types /\ Local(i) /\ FileSound /\ out[i] \in Configs /\ NoFile \notin Configs
  BY Known
<1>2. /\ pc[i] = "rename" /\ file' = out[i]
      /\ blind' = (blind \/ (Unlocked(i) /\ (file # seen[i] \/ lock # NoInst)))
      /\ want' = [n \in Names |-> IF blind' THEN Unset ELSE IF n \in Changed(i) THEN Saved(out[i], n) ELSE want[n]]
  BY DEF Rename
<1>3. file' # NoFile /\ Ordered(file'.marks)
  BY <1>1, <1>2 DEF Local
<1>4. ASSUME ~blind', NEW n \in Names, want'[n] # Unset
      PROVE  Saved(file', n) = want'[n]
  <2>1. CASE n \in Changed(i)
    BY <2>1, <1>2, <1>4
  <2>2. CASE n \notin Changed(i)
    <3>1. want'[n] = want[n] /\ want[n] # Unset /\ ~blind
      BY <2>2, <1>2, <1>4
    <3>2. file # NoFile /\ Saved(file, n) = want[n]
      BY <3>1, <1>1 DEF FileSound, LostOnlyBlindly, NoLostEdit
    <3>3. SameBut(Changed(i), out[i].marks, file.marks)
      <4>1. UpToDate(i) /\ Writing(i)
        BY <1>1, <1>2 DEF Local, Writing
      <4>2. CASE ret[i] = "session"
        BY <4>1, <4>2, <3>1 DEF UpToDate, Saving, Changed, Unlocked, SameBut
      <4>3. CASE ret[i] # "session"
        <5>1. file = seen[i]
          BY <4>3, <1>2, <1>4 DEF Unlocked
        <5> QED BY <4>1, <4>3, <5>1, <3>2 DEF UpToDate, Changed, Unlocked
      <4> QED BY <4>2, <4>3
    <3>4. Saved(file', n) = Saved(file, n)
      <4>1. \A c : Saved(c, n) = Ids(c.marks, n)
        BY DEF Saved, Ids
      <4>2. Ids(out[i].marks, n) = Ids(file.marks, n)
        BY <3>3, <2>2 DEF SameBut
      <4>3. Saved(out[i], n) = Saved(file, n)
        BY <4>1, <4>2, Zenon
      <4> QED BY <4>3, <1>2, Zenon
    <3> QED BY <3>1, <3>2, <3>4
  <2> QED BY <2>1, <2>2
<1> QED BY <1>3, <1>4 DEF FileSound, LostOnlyBlindly, NoLostEdit

\* Who writes under the lock is not disturbed by others, unless one of them
\* replaces the file blindly.
LEMMA RenameOthers ==
  ASSUME IInv, NEW i \in Insts, Rename(i), Only(i), NEW j \in Insts, j # i
  PROVE  Local(j)'
<1>1. /\ Local(i) /\ Local(j) /\ out[i] \in Configs /\ NoFile \notin Configs
  BY Known DEF IInv
<1>2. /\ pc[i] = "rename" /\ file' = out[i]
      /\ blind' = (blind \/ (Unlocked(i) /\ (file # seen[i] \/ lock # NoInst)))
  BY DEF Rename
<1>3. /\ pc'[j] = pc[j] /\ mem'[j] = mem[j] /\ temp'[j] = temp[j] /\ wiz'[j] = wiz[j]
      /\ out'[j] = out[j] /\ ret'[j] = ret[j] /\ chg'[j] = chg[j] /\ seen'[j] = seen[j]
      /\ pending'[j] = pending[j]
      /\ lock = j => lock' = j
  BY DEF Only
<1>4. (Writing(j)' <=> Writing(j)) /\ (Saving(j)' <=> Saving(j)) /\ (Working(j)' <=> Working(j))
      /\ (Visiting(j)' <=> Visiting(j))
  BY <1>3 DEF Writing, Saving, Working, Visiting
<1>5. TempInPlace(j)' /\ Previewed(j)'
  BY <1>1, <1>3, <1>4 DEF Local, TempInPlace, Previewed
<1>6. ASSUME Saving(j)
      PROVE  lock' = j /\ blind'
  <2>1. lock = j /\ lock # NoInst
    BY <1>1, <1>6, ConfigAssumption DEF Local, UpToDate
  <2>2. ~Saving(i)
    BY <1>1, <2>1 DEF Local, UpToDate
  <2>3. Unlocked(i)
    BY <2>2, <1>2 DEF Saving, Writing, Unlocked
  <2> QED BY <2>1, <2>3, <1>2, <1>3
<1>7. UpToDate(j)'
  BY <1>1, <1>3, <1>4, <1>6 DEF Local, UpToDate
<1> QED BY <1>1, <1>2, <1>3, <1>5, <1>7 DEF Local

LEMMA RenameKeeps ==
  ASSUME IInv, NEW i \in Insts, Rename(i)
  PROVE  IInv'
<1>1. /\ Types /\ Local(i) /\ FileSound /\ out[i] \in Configs /\ NoFile \notin Configs
      /\ ret[i] \in Steps /\ temp[i] \in Nat
  BY Known
<1>2. /\ pc[i] = "rename" /\ file' = out[i] /\ blind' \in BOOLEAN /\ edits' = edits
      /\ lock' = (IF lock = i THEN NoInst ELSE lock)
      /\ want' = [n \in Names |-> want'[n]]
  BY <1>1 DEF Rename, Types
<1>3. Writing(i) /\ UpToDate(i) /\ TempInPlace(i) /\ Previewed(i)
      /\ ret[i] \in {"list", "source", "session", "merge", "off"}
  BY <1>1, <1>2 DEF Local, UpToDate, Writing
<1>4. CASE ret[i] = "off"
  <2>1. Gone(i)
    BY <1>4 DEF Rename
  <2>2. Types'
    BY <1>1, <1>2, <2>1, Ends DEF Types
  <2>3. Only(i) /\ Local(i)'
    BY <1>1, <1>2, <2>1, Ends
  <2> QED BY <2>2, <2>3, RenameFile, RenameOthers DEF IInv
<1>5. CASE ret[i] # "off"
  <2>1. /\ pc' = [pc EXCEPT ![i] = ret[i]]
        /\ seen' = IF Unlocked(i) THEN [seen EXCEPT ![i] = out[i]] ELSE seen
        /\ out' = [out EXCEPT ![i] = Empty] /\ ret' = [ret EXCEPT ![i] = "off"]
        /\ chg' = [chg EXCEPT ![i] = {}]
        /\ pending' = (IF Unlocked(i) THEN [pending EXCEPT ![i] = {}] ELSE pending)
        /\ wiz' = (IF ret[i] = "list" THEN [wiz EXCEPT ![i] = NoWizard] ELSE wiz)
        /\ mem' = mem /\ temp' = temp
    BY <1>5 DEF Rename
  <2>2. /\ pc' \in [Insts -> Steps] /\ pc'[i] = ret[i]
        /\ ret' \in [Insts -> Steps] /\ ret'[i] = "off"
        /\ out' \in [Insts -> Configs] /\ out'[i] = Empty
        /\ chg' \in [Insts -> SUBSET Names] /\ chg'[i] = {}
        /\ \A j \in Insts \ {i} :
             pc'[j] = pc[j] /\ out'[j] = out[j] /\ chg'[j] = chg[j] /\ ret'[j] = ret[j]
    BY <1>1, <2>1, EmptyConfig DEF Types, Steps
  <2>3. /\ seen' \in [Insts -> Configs \cup {NoFile}]
        /\ seen'[i] = IF Unlocked(i) THEN out[i] ELSE seen[i]
        /\ pending' \in [Insts -> SUBSET Names]
        /\ pending'[i] = IF Unlocked(i) THEN {} ELSE pending[i]
        /\ wiz' \in [Insts -> Wizards] /\ (ret[i] # "list" => wiz'[i] = wiz[i])
        /\ \A j \in Insts \ {i} : seen'[j] = seen[j] /\ pending'[j] = pending[j] /\ wiz'[j] = wiz[j]
    BY <1>1, <2>1, EmptyConfig DEF Types
  <2>4. Types'
    BY <1>1, <1>2, <2>1, <2>2, <2>3 DEF Types
  <2>5. Only(i)
    BY <1>2, <2>1, <2>2, <2>3 DEF Only
  <2>6. ~Writing(i)'
    BY <1>3, <1>5, <2>2 DEF Writing
  <2>7. TempInPlace(i)'
    BY <1>3, <2>1, <2>2, <1>2 DEF TempInPlace, Visiting, Saving
  <2>8. Previewed(i)'
    BY <1>3, <2>1, <2>2, <2>3, <2>6 DEF Previewed
  <2>9. UpToDate(i)'
    <3>1. ASSUME Working(i)'
          PROVE  seen'[i] # NoFile /\ SameBut(pending'[i], mem'[i].marks, seen'[i].marks)
      <4>1. CASE ret[i] = "session"
        BY <4>1, <1>3, <2>1, <2>3 DEF UpToDate, Working, Visiting, Saving, Unlocked
      <4>2. CASE ret[i] # "session"
        <5>1. ret[i] \in {"list", "source"} /\ seen'[i] = out[i]
          BY <3>1, <4>2, <1>3, <1>5, <2>2, <2>3, <2>6 DEF Working, Visiting, Saving, Unlocked
        <5> QED BY <5>1, <1>1, <1>3, <2>1 DEF UpToDate, SameBut
      <4> QED BY <4>1, <4>2
    <3> QED BY <3>1, <2>6 DEF UpToDate, Saving
  <2>10. file' # NoFile /\ Ordered(mem'[i].marks) /\ Ordered(out'[i].marks)
    BY <1>1, <1>2, <2>1, <2>2, EmptyConfig DEF Local
  <2>11. Local(i)'
    BY <2>7, <2>8, <2>9, <2>10 DEF Local
  <2> QED BY <2>4, <2>5, <2>11, RenameFile, RenameOthers DEF IInv
<1> QED BY <1>4, <1>5

\* A write that fails leaves the file, and the edit in memory.
LEMMA WriteFailsKeeps ==
  ASSUME IInv, NEW i \in Insts, WriteFails(i)
  PROVE  IInv'
<1>1. Types /\ Local(i) /\ ret[i] \in Steps /\ chg[i] \in SUBSET Names /\ pending[i] \in SUBSET Names
  BY Known
<1>2. /\ pc[i] \in {"backup", "rename"} /\ lock' = (IF lock = i THEN NoInst ELSE lock)
      /\ UNCHANGED <<file, edits, want, blind>>
  BY DEF WriteFails
<1>3. CASE Gone(i)
  <2>1. Types'
    BY <1>1, <1>2, <1>3, Ends DEF Types
  <2>2. Only(i) /\ Local(i)'
    BY <1>1, <1>2, <1>3, Ends
  <2> QED BY <1>2, <2>1, <2>2, OneStep
<1>4. CASE ~Gone(i)
  <2>1. /\ ret[i] \in {"list", "session"}
        /\ pc' = [pc EXCEPT ![i] = ret[i]]
        /\ pending' = (IF Unlocked(i) THEN [pending EXCEPT ![i] = @ \cup chg[i]] ELSE pending)
        /\ out' = [out EXCEPT ![i] = Empty] /\ ret' = [ret EXCEPT ![i] = "off"]
        /\ chg' = [chg EXCEPT ![i] = {}]
        /\ mem' = mem /\ temp' = temp /\ wiz' = wiz /\ seen' = seen
    BY <1>4 DEF WriteFails
  <2>2. /\ pc' \in [Insts -> Steps] /\ pc'[i] = ret[i]
        /\ ret' \in [Insts -> Steps] /\ ret'[i] = "off"
        /\ out' \in [Insts -> Configs] /\ out'[i] = Empty
        /\ chg' \in [Insts -> SUBSET Names] /\ chg'[i] = {}
        /\ pending' \in [Insts -> SUBSET Names]
        /\ pending'[i] = IF Unlocked(i) THEN pending[i] \cup chg[i] ELSE pending[i]
        /\ \A j \in Insts \ {i} : /\ pc'[j] = pc[j] /\ out'[j] = out[j] /\ chg'[j] = chg[j]
                                 /\ ret'[j] = ret[j] /\ pending'[j] = pending[j]
    BY <1>1, <2>1, EmptyConfig DEF Types, Steps
  <2>3. Types'
    BY <1>1, <1>2, <2>1, <2>2 DEF Types
  <2>4. Only(i)
    BY <1>2, <2>1, <2>2 DEF Only
  <2>5. Writing(i) /\ ~Writing(i)' /\ ~Saving(i)' /\ TempInPlace(i) /\ UpToDate(i)
    BY <1>1, <1>2, <2>1, <2>2 DEF Local, Writing, Saving
  <2>6. TempInPlace(i)'
    BY <2>1, <2>2, <2>5, <1>2 DEF TempInPlace, Visiting, Saving, Writing
  <2>7. Previewed(i)'
    BY <2>1, <2>2, <2>5 DEF Previewed
  <2>8. seen'[i] # NoFile /\ SameBut(pending'[i], mem'[i].marks, seen'[i].marks)
    <3>1. CASE ret[i] = "session"
      BY <3>1, <2>1, <2>2, <2>5 DEF UpToDate, Working, Visiting, Saving, Unlocked
    <3>2. CASE ret[i] = "list"
      <4>1. pending'[i] = pending[i] \cup chg[i] /\ mem'[i] = mem[i] /\ seen'[i] = seen[i]
        BY <3>2, <2>1, <2>2 DEF Unlocked
      <4>2. /\ seen[i] # NoFile /\ SameBut({}, mem[i].marks, out[i].marks)
            /\ SameBut(chg[i] \cup pending[i], out[i].marks, seen[i].marks)
        BY <3>2, <2>5 DEF UpToDate
      <4> QED BY <4>1, <4>2 DEF SameBut
    <3> QED BY <2>1, <3>1, <3>2
  <2>9. UpToDate(i)'
    BY <2>5, <2>8 DEF UpToDate, Saving
  <2>10. Local(i)'
    BY <1>1, <1>2, <2>1, <2>2, <2>6, <2>7, <2>9, EmptyConfig DEF Local
  <2> QED BY <1>2, <2>3, <2>4, <2>10, OneStep
<1> QED BY <1>3, <1>4

\* The forms: the loaded configuration with one bookmark changed is saved.
LEMMA Saves ==
  ASSUME IInv, NEW i \in Insts, pc[i] = "list", NEW config \in Configs, NEW names \in SUBSET Names,
         mem' = [mem EXCEPT ![i] = config], StartWrite(i, config, names, "list"),
         Ordered(config.marks), SameBut(names, config.marks, mem[i].marks),
         edits' \in Nat, UNCHANGED <<file, lock, temp, wiz, past>>
  PROVE  IInv'
<1>1. /\ Types /\ Local(i) /\ "list" \in Steps
      /\ UNCHANGED <<want, seen, blind, pending>>
  BY Known DEF Steps, past
<1>2. /\ pc'[i] = "backup" /\ out'[i] = config /\ chg'[i] = names /\ ret'[i] = "list"
      /\ pc' \in [Insts -> Steps] /\ ret' \in [Insts -> Steps]
      /\ out' \in [Insts -> Configs] /\ chg' \in [Insts -> SUBSET Names]
      /\ \A j \in Insts \ {i} :
           pc'[j] = pc[j] /\ out'[j] = out[j] /\ chg'[j] = chg[j] /\ ret'[j] = ret[j]
  BY <1>1, Starts
<1>3. mem' \in [Insts -> Configs] /\ mem'[i] = config /\ \A j \in Insts \ {i} : mem'[j] = mem[j]
  BY <1>1 DEF Types
<1>4. Types'
  BY <1>1, <1>2, <1>3 DEF Types
<1>5. Only(i)
  BY <1>1, <1>2, <1>3 DEF Only
<1>6. temp[i] = 0 /\ seen[i] # NoFile /\ SameBut(pending[i], mem[i].marks, seen[i].marks)
  BY <1>1 DEF Local, TempInPlace, UpToDate, Working, Visiting, Saving, Writing
<1>7. SameBut(names \cup pending[i], config.marks, seen[i].marks)
  BY <1>6 DEF SameBut
<1>8. UpToDate(i)'
  BY <1>1, <1>2, <1>3, <1>6, <1>7 DEF UpToDate, Working, Visiting, Saving, Writing, SameBut
<1>9. Local(i)'
  BY <1>1, <1>2, <1>3, <1>6, <1>8 DEF Local, TempInPlace, Previewed, Writing
<1> QED BY <1>1, <1>4, <1>5, <1>9, OneStep

\* A bookmark at the end, of the form or of a group.
LEMMA Adds ==
  ASSUME IInv, NEW i \in Insts, NEW n \in Names, NEW ok \in BOOLEAN, NEW born \in {Form, Group},
         born = Group \/ n \notin NamesIn(mem[i].marks),
         pc[i] = "list", edits' \in Nat,
         mem' = [mem EXCEPT ![i].marks = Append(@, Entry(n, edits', born, ok))],
         StartWrite(i, mem'[i], {n}, "list"),
         UNCHANGED <<file, lock, temp, wiz, past>>
  PROVE  IInv'
<1>1. Types /\ Local(i) /\ mem[i] \in Configs /\ mem[i].marks \in Seq(Bookmarks) /\ mem[i].dismissed \in BOOLEAN
  BY Known
<1> DEFINE b == Entry(n, edits', born, ok)
           config == [mem[i] EXCEPT !.marks = Append(mem[i].marks, b)]
<1>2. b \in Bookmarks /\ b.name = n /\ b.born = born /\ b.born # Session
  BY Made, Borns
<1>3. mem' = [mem EXCEPT ![i] = config] /\ mem'[i] = config
  BY <1>1 DEF Types
<1> HIDE DEF b
<1>4. /\ Append(mem[i].marks, b) \in Seq(Bookmarks)
      /\ Ordered(Append(mem[i].marks, b))
      /\ SameBut({n}, Append(mem[i].marks, b), mem[i].marks)
  BY <1>1, <1>2, Added DEF Local
<1>5. config \in Configs /\ config.marks = Append(mem[i].marks, b)
  BY <1>1, <1>4 DEF Configs
<1> HIDE DEF config
<1>6. StartWrite(i, config, {n}, "list") /\ {n} \in SUBSET Names
  BY <1>3
<1>7. Ordered(config.marks) /\ SameBut({n}, config.marks, mem[i].marks)
  BY <1>4, <1>5
<1>8. config \in Configs
  BY <1>5
<1> QED BY <1>3, <1>6, <1>7, <1>8, Saves

LEMMA AddKeeps ==
  ASSUME IInv, NEW i \in Insts, NEW n \in Names, NEW ok \in BOOLEAN, Add(i, n, ok)
  PROVE  IInv'
<1>1. /\ pc[i] = "list" /\ n \notin NamesIn(mem[i].marks) /\ edits' \in Nat
      /\ mem' = [mem EXCEPT ![i].marks = Append(@, Entry(n, edits', Form, ok))]
      /\ StartWrite(i, mem'[i], {n}, "list")
      /\ UNCHANGED <<file, lock, temp, wiz, past>>
  BY DEF Add, NewEdit, IInv, Types
<1>2. Form \in {Form, Group}
  OBVIOUS
<1> QED BY <1>1, <1>2, Adds

LEMMA FromGroupKeeps ==
  ASSUME IInv, NEW i \in Insts, NEW n \in Names, NEW ok \in BOOLEAN, FromGroup(i, n, ok)
  PROVE  IInv'
<1> DEFINE born == IF n \in NamesIn(mem[i].marks) THEN Group ELSE Form
<1>1. /\ pc[i] = "list" /\ edits' \in Nat
      /\ mem' = [mem EXCEPT ![i].marks = Append(@, Entry(n, edits', born, ok))]
      /\ StartWrite(i, mem'[i], {n}, "list")
      /\ UNCHANGED <<file, lock, temp, wiz, past>>
  BY DEF FromGroup, NewEdit, IInv, Types
<1>2. born \in {Form, Group} /\ (born = Group \/ n \notin NamesIn(mem[i].marks))
  OBVIOUS
<1> HIDE DEF born
<1> QED BY <1>1, <1>2, Adds

LEMMA EditKeeps ==
  ASSUME IInv, NEW i \in Insts, NEW k \in DOMAIN mem[i].marks, NEW n \in Names, NEW ok \in BOOLEAN,
         Edit(i, k, n, ok)
  PROVE  IInv'
<1>1. Types /\ Local(i) /\ mem[i] \in Configs /\ mem[i].marks \in Seq(Bookmarks) /\ mem[i].dismissed \in BOOLEAN
  BY Known
<1> DEFINE old == mem[i].marks[k]
           b == Edited(old, n, ok)
           marks == [mem[i].marks EXCEPT ![k] = b]
           config == [mem[i] EXCEPT !.marks = marks]
<1>2. /\ pc[i] = "list" /\ edits' \in Nat
      /\ n = old.name \/ n \notin NamesIn(mem[i].marks)
      /\ mem' = [mem EXCEPT ![i].marks[k] = Edited(@, n, ok)]
      /\ StartWrite(i, mem'[i], {old.name, n}, "list")
      /\ UNCHANGED <<file, lock, temp, wiz, past>>
  BY <1>1 DEF Edit, NewEdit, Types
<1>3. old \in Bookmarks /\ old.name \in Names /\ old.born \in {"form", "session", "group", "import"} \X Nat
  <2>1. old \in Bookmarks
    BY <1>1
  <2>2. \A x \in Bookmarks : x.name \in Names /\ x.born \in {"form", "session", "group", "import"} \X Nat
    BY DEF Bookmarks
  <2> QED BY <2>1, <2>2
<1>4. b \in Bookmarks /\ b.name = n /\ (n = old.name => b.born = old.born)
  BY <1>2, <1>3 DEF Bookmarks, Edited, Entry, Form
<1>5. mem' = [mem EXCEPT ![i] = config] /\ mem'[i] = config
  BY <1>1, <1>2 DEF Types
<1> HIDE DEF b
<1>6. marks \in Seq(Bookmarks) /\ Ordered(marks) /\ SameBut({old.name, n}, marks, mem[i].marks)
  BY <1>1, <1>2, <1>4, Replaced DEF Local
<1> HIDE DEF marks, old
<1>7. config \in Configs /\ config.marks = marks
  BY <1>1, <1>6 DEF Configs
<1> HIDE DEF config
<1>8. StartWrite(i, config, {old.name, n}, "list") /\ {old.name, n} \in SUBSET Names
  BY <1>2, <1>3, <1>5
<1> QED BY <1>2, <1>5, <1>6, <1>7, <1>8, Saves

LEMMA DeleteKeeps ==
  ASSUME IInv, NEW i \in Insts, NEW k \in DOMAIN mem[i].marks, Delete(i, k)
  PROVE  IInv'
<1>1. Types /\ Local(i) /\ mem[i] \in Configs /\ mem[i].marks \in Seq(Bookmarks) /\ mem[i].dismissed \in BOOLEAN
  BY Known
<1>2. /\ pc[i] = "list" /\ edits' \in Nat
      /\ mem' = [mem EXCEPT ![i].marks = RemoveAt(@, k)]
      /\ StartWrite(i, mem'[i], {mem[i].marks[k].name}, "list")
      /\ UNCHANGED <<file, lock, temp, wiz, past>>
  BY <1>1 DEF Delete, Types
<1> DEFINE n == mem[i].marks[k].name
           marks == RemoveAt(mem[i].marks, k)
           config == [mem[i] EXCEPT !.marks = marks]
<1>3. mem[i].marks[k] \in Bookmarks /\ n \in Names
  <2>1. mem[i].marks[k] \in Bookmarks
    BY <1>1
  <2>2. \A x \in Bookmarks : x.name \in Names
    BY DEF Bookmarks
  <2> QED BY <2>1, <2>2
<1>4. mem' = [mem EXCEPT ![i] = config] /\ mem'[i] = config
  BY <1>1, <1>2 DEF Types
<1>5. /\ marks \in Seq(Bookmarks) /\ Ordered(marks)
      /\ SameBut(IF mem[i].marks[k].born = Session THEN {} ELSE {n}, marks, mem[i].marks)
  BY <1>1, Dropped DEF Local
<1>6. SameBut({n}, marks, mem[i].marks)
  BY <1>5 DEF SameBut
<1> HIDE DEF marks, n
<1>7. config \in Configs /\ config.marks = marks
  BY <1>1, <1>5 DEF Configs
<1> HIDE DEF config
<1>8. StartWrite(i, config, {n}, "list")
  BY <1>2, <1>4 DEF n
<1>9. {n} \in SUBSET Names
  BY <1>3
<1> QED BY <1>2, <1>4, <1>5, <1>6, <1>7, <1>8, <1>9, Saves

LEMMA ConnectKeeps ==
  ASSUME IInv, NEW i \in Insts, Connect(i)
  PROVE  IInv'
<1>1. /\ Types /\ Local(i) /\ mem[i] \in Configs /\ mem[i].marks \in Seq(Bookmarks)
      /\ mem[i].dismissed \in BOOLEAN
  BY Known
<1>2. /\ pc[i] = "list" /\ pc' = [pc EXCEPT ![i] = "session"]
      /\ UNCHANGED <<file, lock, wiz, out, ret, chg, want, seen, blind, pending>>
  BY DEF Connect, past
<1>3. pc' \in [Insts -> Steps] /\ pc'[i] = "session" /\ \A j \in Insts \ {i} : pc'[j] = pc[j]
  BY <1>1, <1>2 DEF Types, Steps
<1>4. temp[i] = 0 /\ seen[i] # NoFile /\ SameBut(pending[i], mem[i].marks, seen[i].marks)
  BY <1>1, <1>2 DEF Local, TempInPlace, UpToDate, Working, Visiting, Saving, Writing
<1>5. ~Writing(i)' /\ ~Saving(i)' /\ Previewed(i)'
  BY <1>2, <1>3 DEF Writing, Saving, Previewed
<1>6. CASE UNCHANGED <<mem, temp, edits>>
  <2>1. Types'
    BY <1>1, <1>2, <1>3, <1>6 DEF Types
  <2>2. Only(i)
    BY <1>2, <1>3, <1>6 DEF Only
  <2>3. UpToDate(i)'
    BY <1>2, <1>4, <1>5, <1>6 DEF UpToDate
  <2>4. Local(i)'
    BY <1>1, <1>2, <1>4, <1>5, <1>6, <2>3 DEF Local, TempInPlace
  <2> QED BY <1>2, <2>1, <2>2, <2>4, OneStep
<1>7. ASSUME NewEdit, temp' = [temp EXCEPT ![i] = Len(mem'[i].marks)],
             \E n \in Temp : mem' = [mem EXCEPT ![i].marks = Append(@, Entry(n, edits', Session, TRUE))]
      PROVE  IInv'
  <2>1. PICK n \in Temp :
          /\ edits' \in Nat
          /\ mem' = [mem EXCEPT ![i].marks = Append(@, Entry(n, edits', Session, TRUE))]
          /\ temp' = [temp EXCEPT ![i] = Len(mem'[i].marks)]
    <3>1. edits' \in Nat
      BY <1>1, <1>7 DEF NewEdit, Types
    <3> QED BY <3>1, <1>7
  <2> DEFINE b == Entry(n, edits', Session, TRUE)
             marks == Append(mem[i].marks, b)
             config == [mem[i] EXCEPT !.marks = marks]
  <2>2. n \in Names
    BY ConfigAssumption
  <2>3. b \in Bookmarks /\ b.born = Session
    <3>1. b \in Bookmarks
      BY <2>1, <2>2, Made
    <3> QED BY <3>1 DEF Entry
  <2>4. mem' = [mem EXCEPT ![i] = config] /\ mem'[i] = config
    BY <1>1, <2>1 DEF Types
  <2> HIDE DEF b
  <2>5. marks \in Seq(Bookmarks) /\ Ordered(marks) /\ SameBut({}, marks, mem[i].marks)
    BY <1>1, <2>3, Added DEF Local
  <2>6. Len(marks) \in DOMAIN marks /\ marks[Len(marks)] = b /\ Len(marks) \in Nat
    <3>1. /\ Len(mem[i].marks) \in Nat /\ Len(marks) = Len(mem[i].marks) + 1
          /\ marks[Len(mem[i].marks) + 1] = b
      BY <1>1, <2>3, AppendProperties
    <3>2. DOMAIN marks = 1 .. Len(marks)
      BY <2>5
    <3> QED BY <3>1, <3>2
  <2> HIDE DEF marks
  <2>7. config \in Configs /\ config.marks = marks
    BY <1>1, <2>5 DEF Configs
  <2> HIDE DEF config
  <2>8. /\ mem' \in [Insts -> Configs] /\ temp' \in [Insts -> Nat] /\ temp'[i] = Len(marks)
        /\ mem'[i].marks = marks
        /\ \A j \in Insts \ {i} : mem'[j] = mem[j] /\ temp'[j] = temp[j]
    BY <1>1, <2>1, <2>4, <2>6, <2>7 DEF Types
  <2>9. Types'
    BY <1>1, <1>2, <1>3, <2>1, <2>8 DEF Types
  <2>10. Only(i)
    BY <1>2, <1>3, <2>8 DEF Only
  <2>11. SameBut(pending'[i], mem'[i].marks, seen'[i].marks)
    BY <1>2, <1>4, <2>5, <2>8 DEF SameBut
  <2>12. UpToDate(i)'
    BY <1>2, <1>4, <1>5, <2>11 DEF UpToDate
  <2>13. TempInPlace(i)'
    BY <1>3, <2>3, <2>6, <2>8 DEF TempInPlace, Visiting
  <2>14. Ordered(mem'[i].marks)
    BY <2>5, <2>8
  <2>15. Local(i)'
    BY <1>1, <1>2, <1>5, <2>12, <2>13, <2>14 DEF Local
  <2> QED BY <1>2, <2>9, <2>10, <2>15, OneStep
<1> QED BY <1>6, <1>7 DEF Connect

\* The temporary bookmark is the one that is removed.
LEMMA Forgets ==
  ASSUME IInv, NEW i \in Insts, Forget(i)
  PROVE  /\ mem' \in [Insts -> Configs] /\ temp' \in [Insts -> Nat] /\ temp'[i] = 0
         /\ Ordered(mem'[i].marks) /\ SameBut({}, mem'[i].marks, mem[i].marks)
         /\ \A j \in Insts \ {i} : mem'[j] = mem[j] /\ temp'[j] = temp[j]
<1>1. /\ Types /\ Local(i) /\ mem[i] \in Configs /\ mem[i].marks \in Seq(Bookmarks)
      /\ mem[i].dismissed \in BOOLEAN
  BY Known
<1> DEFINE marks == IF temp[i] = 0 THEN mem[i].marks ELSE RemoveAt(mem[i].marks, temp[i])
           config == [mem[i] EXCEPT !.marks = marks]
<1>2. mem' = [mem EXCEPT ![i] = config] /\ temp' = [temp EXCEPT ![i] = 0]
  BY <1>1 DEF Forget, Types
<1>3. marks \in Seq(Bookmarks) /\ Ordered(marks) /\ SameBut({}, marks, mem[i].marks)
  <2>1. CASE temp[i] = 0
    BY <1>1, <2>1 DEF Local, SameBut
  <2>2. CASE temp[i] # 0
    <3>1. temp[i] \in DOMAIN mem[i].marks /\ mem[i].marks[temp[i]].born = Session
      BY <1>1, <2>2 DEF Local, TempInPlace
    <3> QED BY <1>1, <2>2, <3>1, Dropped DEF Local
  <2> QED BY <2>1, <2>2
<1> HIDE DEF marks
<1>4. config \in Configs /\ config.marks = marks
  BY <1>1, <1>3 DEF Configs
<1> HIDE DEF config
<1>5. mem'[i].marks = marks
  BY <1>1, <1>2, <1>4 DEF Types
<1> QED BY <1>1, <1>2, <1>3, <1>4, <1>5 DEF Types

LEMMA SessionEndKeeps ==
  ASSUME IInv, NEW i \in Insts, SessionEnd(i)
  PROVE  IInv'
<1>1. /\ Types /\ Local(i) /\ mem[i] \in Configs /\ "list" \in Steps /\ {} \in SUBSET Names
  BY Known DEF Steps
<1>2. /\ pc[i] = "session" /\ StartWrite(i, mem[i], {}, "list") /\ Forget(i)
      /\ UNCHANGED <<file, lock, wiz, edits, want, seen, blind, pending>>
  BY DEF SessionEnd, past
<1>3. /\ mem' \in [Insts -> Configs] /\ temp' \in [Insts -> Nat] /\ temp'[i] = 0
      /\ Ordered(mem'[i].marks) /\ SameBut({}, mem'[i].marks, mem[i].marks)
      /\ \A j \in Insts \ {i} : mem'[j] = mem[j] /\ temp'[j] = temp[j]
  BY <1>2, Forgets
<1>4. /\ pc'[i] = "backup" /\ out'[i] = mem[i] /\ chg'[i] = {} /\ ret'[i] = "list"
      /\ pc' \in [Insts -> Steps] /\ ret' \in [Insts -> Steps]
      /\ out' \in [Insts -> Configs] /\ chg' \in [Insts -> SUBSET Names]
      /\ \A j \in Insts \ {i} :
           pc'[j] = pc[j] /\ out'[j] = out[j] /\ chg'[j] = chg[j] /\ ret'[j] = ret[j]
  BY <1>1, <1>2, Starts
<1>5. Types'
  BY <1>1, <1>2, <1>3, <1>4 DEF Types
<1>6. Only(i)
  BY <1>2, <1>3, <1>4 DEF Only
<1>7. seen[i] # NoFile /\ SameBut(pending[i], mem[i].marks, seen[i].marks)
  BY <1>1, <1>2 DEF Local, UpToDate, Working, Visiting
<1>8. UpToDate(i)'
  <2>1. SameBut(chg'[i] \cup pending'[i], out'[i].marks, seen'[i].marks)
    BY <1>2, <1>4, <1>7 DEF SameBut
  <2>2. SameBut({}, mem'[i].marks, out'[i].marks) /\ seen'[i] # NoFile
    BY <1>2, <1>3, <1>4, <1>7
  <2> QED BY <1>4, <2>1, <2>2 DEF UpToDate, Working, Visiting, Saving, Writing
<1>9. Local(i)'
  BY <1>1, <1>2, <1>3, <1>4, <1>8 DEF Local, TempInPlace, Previewed, Writing
<1> QED BY <1>2, <1>5, <1>6, <1>9, OneStep

LEMMA SessionFailsKeeps ==
  ASSUME IInv, NEW i \in Insts, SessionFails(i)
  PROVE  IInv'
<1>1. Types /\ Local(i)
  BY Known
<1>2. /\ pc[i] = "session" /\ pc' = [pc EXCEPT ![i] = "list"] /\ Forget(i)
      /\ UNCHANGED <<file, lock, wiz, out, ret, chg, edits, want, seen, blind, pending>>
  BY DEF SessionFails, past
<1>3. /\ mem' \in [Insts -> Configs] /\ temp' \in [Insts -> Nat] /\ temp'[i] = 0
      /\ Ordered(mem'[i].marks) /\ SameBut({}, mem'[i].marks, mem[i].marks)
      /\ \A j \in Insts \ {i} : mem'[j] = mem[j] /\ temp'[j] = temp[j]
  BY <1>2, Forgets
<1>4. pc' \in [Insts -> Steps] /\ pc'[i] = "list" /\ \A j \in Insts \ {i} : pc'[j] = pc[j]
  BY <1>1, <1>2 DEF Types, Steps
<1>5. Types'
  BY <1>1, <1>2, <1>3, <1>4 DEF Types
<1>6. Only(i)
  BY <1>2, <1>3, <1>4 DEF Only
<1>7. seen[i] # NoFile /\ SameBut(pending[i], mem'[i].marks, seen[i].marks)
  <2>1. seen[i] # NoFile /\ SameBut(pending[i], mem[i].marks, seen[i].marks)
    BY <1>1, <1>2 DEF Local, UpToDate, Working, Visiting
  <2> QED BY <1>3, <2>1 DEF SameBut
<1>8. UpToDate(i)'
  BY <1>2, <1>4, <1>7 DEF UpToDate, Working, Visiting, Saving, Writing
<1>9. Local(i)'
  BY <1>1, <1>2, <1>3, <1>4, <1>8 DEF Local, TempInPlace, Previewed, Writing
<1> QED BY <1>2, <1>5, <1>6, <1>9, OneStep

LEMMA SaveBookmarkKeeps ==
  ASSUME IInv, NEW i \in Insts, NEW n \in Names, SaveBookmark(i, n)
  PROVE  IInv'
<1>1. /\ Types /\ Local(i) /\ FileSound /\ "session" \in Steps /\ {n} \in SUBSET Names
      /\ mem[i].marks \in Seq(Bookmarks) /\ (file # NoFile => file \in Configs)
  BY Known DEF Steps
<1>2. /\ pc[i] = "session" /\ lock = NoInst /\ lock' = i /\ edits' \in Nat
      /\ StartWrite(i, [file EXCEPT !.marks = Put(@, n, edits')], {n}, "session")
      /\ UNCHANGED <<file, mem, temp, wiz, want, seen, blind, pending>>
  BY <1>1 DEF SaveBookmark, NewEdit, Types, past
<1>3. /\ seen[i] # NoFile /\ SameBut(pending[i], mem[i].marks, seen[i].marks) /\ file # NoFile
      /\ file \in Configs
  BY <1>1, <1>2 DEF Local, UpToDate, Working, Visiting
<1> DEFINE marks == Put(file.marks, n, edits')
           config == [file EXCEPT !.marks = marks]
<1>4. file.marks \in Seq(Bookmarks) /\ file.dismissed \in BOOLEAN
  BY <1>3 DEF Configs
<1>5. marks \in Seq(Bookmarks) /\ Ordered(marks) /\ SameBut({n}, marks, file.marks)
  BY <1>1, <1>2, <1>3, <1>4, PutKeeps DEF FileSound
<1> HIDE DEF marks
<1>6. config \in Configs /\ config.marks = marks
  BY <1>3, <1>5 DEF Configs
<1>7. StartWrite(i, config, {n}, "session")
  BY <1>2 DEF marks
<1> HIDE DEF config
<1>8. /\ pc'[i] = "backup" /\ out'[i] = config /\ chg'[i] = {n} /\ ret'[i] = "session"
      /\ pc' \in [Insts -> Steps] /\ ret' \in [Insts -> Steps]
      /\ out' \in [Insts -> Configs] /\ chg' \in [Insts -> SUBSET Names]
      /\ \A j \in Insts \ {i} :
           pc'[j] = pc[j] /\ out'[j] = out[j] /\ chg'[j] = chg[j] /\ ret'[j] = ret[j]
  BY <1>1, <1>6, <1>7, Starts
<1>9. Types'
  BY <1>1, <1>2, <1>8 DEF Types
<1>10. Only(i)
  BY <1>2, <1>8, ConfigAssumption DEF Only
<1>11. Ordered(out'[i].marks) /\ SameBut(chg'[i], out'[i].marks, file'.marks)
  BY <1>2, <1>5, <1>6, <1>8
<1>12. UpToDate(i)'
  BY <1>2, <1>3, <1>8, <1>11 DEF UpToDate, Working, Visiting, Saving, Writing
<1>13. TempInPlace(i)'
  BY <1>1, <1>2, <1>8 DEF Local, TempInPlace, Visiting, Saving, Writing
<1>14. Previewed(i)'
  BY <1>2, <1>8 DEF Previewed, Writing
<1>15. Local(i)'
  BY <1>1, <1>2, <1>11, <1>12, <1>13, <1>14 DEF Local
<1> QED BY <1>2, <1>9, <1>10, <1>15, OneStep

\* What was read can be imported.
LEMMA Readable ==
  ASSUME NEW rows \in AllRows
  PROVE  /\ RowsOK(rows) /\ NamesIn(rows) \in SUBSET Names
         /\ \A marks, overwrite : LET preview == BuildPreview(rows, marks, overwrite)
                                  IN  preview.new \in Nat /\ preview.over \in Nat
<1>1. RowsOK(rows)
  <2>1. CASE rows = <<>>
    BY <2>1 DEF RowsOK
  <2>2. CASE rows # <<>>
    BY <2>2, ConfigAssumption DEF AllRows
  <2> QED BY <2>1, <2>2
<1>2. NamesIn(rows) \in SUBSET Names
  BY <1>1 DEF NamesIn, RowsOK
<1>3. ASSUME NEW marks, NEW overwrite
      PROVE  /\ BuildPreview(rows, marks, overwrite).new \in Nat
             /\ BuildPreview(rows, marks, overwrite).over \in Nat
  <2>1. Len(rows) \in Nat /\ DOMAIN rows = 1 .. Len(rows)
    BY <1>1 DEF RowsOK
  <2>2. Cardinality({k \in DOMAIN rows : rows[k].name \notin NamesIn(marks)}) \in Nat
    <3> DEFINE S == {k \in DOMAIN rows : rows[k].name \notin NamesIn(marks)}
    <3>1. S \subseteq 1 .. Len(rows)
      BY <2>1
    <3> HIDE DEF S
    <3>2. Cardinality(S) \in Nat
      BY <2>1, <3>1, Finite
    <3> QED BY <3>2 DEF S
  <2>3. Cardinality({k \in DOMAIN rows : rows[k].name \in NamesIn(marks)}) \in Nat
    <3> DEFINE S == {k \in DOMAIN rows : rows[k].name \in NamesIn(marks)}
    <3>1. S \subseteq 1 .. Len(rows)
      BY <2>1
    <3> HIDE DEF S
    <3>2. Cardinality(S) \in Nat
      BY <2>1, <3>1, Finite
    <3> QED BY <3>2 DEF S
  <2> QED BY <2>2, <2>3 DEF BuildPreview
<1> QED BY <1>1, <1>2, <1>3

\* The wizard goes on: nothing but its state changes.
LEMMA Turns ==
  ASSUME IInv, NEW i \in Insts, NEW to \in {"source", "path", "preview", "merge"}, NEW w \in Wizards,
         \/ pc[i] \in {"source", "path", "preview"} /\ w.by = wiz[i].by
         \/ pc[i] = "off" /\ to = "merge" /\ w.by = "file",
         to = "preview" \/ (to = "merge" /\ w.by = "wizard") =>
           LET preview == BuildPreview(w.rows, mem[i].marks, w.overwrite)
           IN  w.new = preview.new /\ w.over = preview.over,
         pc' = [pc EXCEPT ![i] = to], wiz' = [wiz EXCEPT ![i] = w],
         UNCHANGED <<file, bak, lock, mem, temp, out, ret, chg, edits, past>>
  PROVE  IInv'
<1>1. /\ Types /\ Local(i) /\ to \in Steps
      /\ UNCHANGED <<file, lock, mem, temp, out, ret, chg, edits, want, seen, blind, pending>>
  BY Known DEF Steps, past
<1>2. /\ pc' \in [Insts -> Steps] /\ pc'[i] = to /\ wiz' \in [Insts -> Wizards] /\ wiz'[i] = w
      /\ \A j \in Insts \ {i} : pc'[j] = pc[j] /\ wiz'[j] = wiz[j]
  BY <1>1 DEF Types
<1>3. Types'
  BY <1>1, <1>2 DEF Types
<1>4. Only(i)
  BY <1>1, <1>2 DEF Only
<1>5. ~Writing(i) /\ ~Writing(i)' /\ ~Visiting(i) /\ (Working(i)' => Working(i))
  BY <1>1, <1>2 DEF Writing, Working, Visiting, Saving
<1>6. UpToDate(i)'
  BY <1>1, <1>5 DEF Local, UpToDate, Saving
<1>7. TempInPlace(i)' /\ Previewed(i)'
  <2>1. TempInPlace(i)'
    BY <1>1, <1>5 DEF Local, TempInPlace
  <2>2. Previewed(i)'
    BY <1>1, <1>2, <1>5 DEF Previewed
  <2> QED BY <2>1, <2>2
<1> QED BY <1>1, <1>3, <1>4, <1>6, <1>7, OneStep DEF Local

LEMMA ImportFileKeeps ==
  ASSUME IInv, NEW i \in Insts, NEW doc \in Imports, NEW overwrite \in BOOLEAN,
         ImportFile(i, doc, overwrite)
  PROVE  IInv'
<1> DEFINE w == [NoWizard EXCEPT !.by = "file", !.rows = doc.rows, !.overwrite = overwrite]
<1>1. /\ pc[i] = "off" /\ doc.readable
      /\ wiz' = [wiz EXCEPT ![i] = w] /\ pc' = [pc EXCEPT ![i] = "merge"]
      /\ UNCHANGED <<file, bak, lock, mem, temp, out, ret, chg, edits, past>>
  BY DEF ImportFile
<1>2. doc.rows \in AllRows
  BY <1>1 DEF AllRows
<1>3. w \in Wizards /\ w.by = "file"
  BY <1>2 DEF NoWizard, Wizards
<1> HIDE DEF w
<1> QED BY <1>1, <1>3, Turns

LEMMA OpenWizardKeeps ==
  ASSUME IInv, NEW i \in Insts, NEW overwrite \in BOOLEAN, OpenWizard(i, overwrite)
  PROVE  IInv'
<1> DEFINE w == [NoWizard EXCEPT !.by = "wizard", !.overwrite = overwrite]
<1>1. /\ Types /\ Local(i) /\ FileSound /\ (file # NoFile => file \in Configs)
  BY Known
<1>2. /\ pc[i] = "off" /\ wiz' = [wiz EXCEPT ![i] = w]
      /\ UNCHANGED <<file, lock, temp, edits, want, seen, blind, pending>>
  BY DEF OpenWizard, past
<1>3. w \in Wizards /\ w.by = "wizard"
  BY DEF NoWizard, Wizards, AllRows
<1> HIDE DEF w
<1>4. /\ wiz' \in [Insts -> Wizards] /\ wiz'[i] = w /\ \A j \in Insts \ {i} : wiz'[j] = wiz[j]
  BY <1>1, <1>2, <1>3 DEF Types
<1>5. CASE file = NoFile
  <2>1. mem' = [mem EXCEPT ![i] = Empty] /\ StartWrite(i, Empty, {}, "source")
    BY <1>5 DEF OpenWizard
  <2>2. "source" \in Steps /\ {} \in SUBSET Names /\ Empty \in Configs
    BY EmptyConfig DEF Steps
  <2>3. /\ pc'[i] = "backup" /\ out'[i] = Empty /\ chg'[i] = {} /\ ret'[i] = "source"
        /\ pc' \in [Insts -> Steps] /\ ret' \in [Insts -> Steps]
        /\ out' \in [Insts -> Configs] /\ chg' \in [Insts -> SUBSET Names]
        /\ \A j \in Insts \ {i} :
             pc'[j] = pc[j] /\ out'[j] = out[j] /\ chg'[j] = chg[j] /\ ret'[j] = ret[j]
    BY <1>1, <2>1, <2>2, Starts
  <2>4. /\ mem' \in [Insts -> Configs] /\ mem'[i] = Empty
        /\ \A j \in Insts \ {i} : mem'[j] = mem[j]
    BY <1>1, <2>1, <2>2 DEF Types
  <2>5. Types'
    BY <1>1, <1>2, <1>4, <2>3, <2>4 DEF Types
  <2>6. Only(i)
    BY <1>2, <1>4, <2>3, <2>4 DEF Only
  <2>7. seen[i] = NoFile
    BY <1>1, <1>5 DEF Local
  <2>8. UpToDate(i)'
    BY <1>2, <1>3, <1>4, <2>3, <2>4, <2>7 DEF UpToDate, Working, Visiting, Saving, Writing, SameBut
  <2>9. TempInPlace(i)' /\ Previewed(i)'
    BY <1>1, <1>2, <1>4, <2>3 DEF Local, TempInPlace, Previewed, Visiting, Saving, Writing
  <2>10. Local(i)'
    BY <1>1, <1>2, <2>3, <2>4, <2>7, <2>8, <2>9, EmptyConfig DEF Local
  <2> QED BY <1>2, <2>5, <2>6, <2>10, OneStep
<1>6. CASE file # NoFile
  <2>1. mem' = [mem EXCEPT ![i] = file] /\ pc' = [pc EXCEPT ![i] = "source"] /\ UNCHANGED <<out, ret, chg>>
    BY <1>6 DEF OpenWizard
  <2>2. /\ pc' \in [Insts -> Steps] /\ pc'[i] = "source"
        /\ mem' \in [Insts -> Configs] /\ mem'[i] = file
        /\ \A j \in Insts \ {i} : pc'[j] = pc[j] /\ mem'[j] = mem[j]
    BY <1>1, <1>6, <2>1 DEF Types, Steps
  <2>3. Types'
    BY <1>1, <1>2, <1>4, <2>1, <2>2 DEF Types
  <2>4. Only(i)
    BY <1>2, <1>4, <2>1, <2>2 DEF Only
  <2>5. UpToDate(i)'
    BY <1>3, <1>4, <2>2 DEF UpToDate, Working, Visiting, Saving, Writing
  <2>6. TempInPlace(i)' /\ Previewed(i)'
    BY <1>1, <1>2, <1>4, <2>1, <2>2 DEF Local, TempInPlace, Previewed, Visiting, Saving, Writing
  <2>7. Local(i)'
    BY <1>1, <1>2, <1>6, <2>1, <2>2, <2>5, <2>6 DEF Local, FileSound
  <2> QED BY <1>2, <2>3, <2>4, <2>7, OneStep
<1> QED BY <1>5, <1>6

LEMMA TryParseKeeps ==
  ASSUME IInv, NEW i \in Insts, NEW doc \in Imports, pc[i] \in {"source", "path"}, TryParse(i, doc),
         UNCHANGED <<file, bak, lock, mem, temp, out, ret, chg, edits, past>>
  PROVE  IInv'
<1>1. Types /\ wiz[i] \in Wizards
  BY Known
<1>2. CASE ~doc.readable
  <2> DEFINE w == [wiz[i] EXCEPT !.auto = FALSE]
  <2>1. pc' = [pc EXCEPT ![i] = "path"] /\ wiz' = [wiz EXCEPT ![i] = w]
    BY <1>2, <1>1 DEF TryParse
  <2>2. w \in Wizards /\ w.by = wiz[i].by
    BY <1>1 DEF Wizards
  <2> HIDE DEF w
  <2> QED BY <2>1, <2>2, Turns
<1>3. CASE doc.readable
  <2> DEFINE preview == BuildPreview(doc.rows, mem[i].marks, wiz[i].overwrite)
             w == [wiz[i] EXCEPT !.rows = doc.rows, !.new = preview.new, !.over = preview.over,
                                 !.auto = (pc[i] = "source")]
  <2>1. pc' = [pc EXCEPT ![i] = "preview"]
        /\ wiz' = [wiz EXCEPT ![i].rows = doc.rows, ![i].new = preview.new, ![i].over = preview.over,
                              ![i].auto = (pc[i] = "source")]
    BY <1>3, <1>1 DEF TryParse
  <2>2. doc.rows \in AllRows
    BY <1>3 DEF AllRows
  <2>3. preview.new \in Nat /\ preview.over \in Nat
    BY <2>2, Readable
  <2> HIDE DEF preview
  <2>4. wiz' = [wiz EXCEPT ![i] = w]
    BY <2>1, <1>1 DEF Types
  <2>5. /\ w \in Wizards /\ w.by = wiz[i].by /\ w.rows = doc.rows /\ w.overwrite = wiz[i].overwrite
        /\ w.new = preview.new /\ w.over = preview.over
    BY <1>1, <2>2, <2>3 DEF Wizards
  <2> HIDE DEF w
  <2>6. LET shown == BuildPreview(w.rows, mem[i].marks, w.overwrite)
        IN  w.new = shown.new /\ w.over = shown.over
    BY <2>5 DEF preview
  <2> QED BY <2>1, <2>4, <2>5, <2>6, Turns
<1> QED BY <1>2, <1>3

LEMMA SelectSourceKeeps ==
  ASSUME IInv, NEW i \in Insts, SelectSource(i)
  PROVE  IInv'
<1>1. /\ pc[i] = "source" /\ Types /\ wiz[i] \in Wizards
      /\ UNCHANGED <<file, bak, lock, mem, temp, out, ret, chg, edits, past>>
  BY Known DEF SelectSource
<1>2. ASSUME NEW doc \in Imports, TryParse(i, doc)
      PROVE  IInv'
  BY <1>1, <1>2, TryParseKeeps
<1>3. ASSUME pc' = [pc EXCEPT ![i] = "path"], wiz' = [wiz EXCEPT ![i].auto = FALSE]
      PROVE  IInv'
  <2> DEFINE w == [wiz[i] EXCEPT !.auto = FALSE]
  <2>1. wiz' = [wiz EXCEPT ![i] = w]
    BY <1>1, <1>3 DEF Types
  <2>2. w \in Wizards /\ w.by = wiz[i].by
    BY <1>1 DEF Wizards
  <2> HIDE DEF w
  <2> QED BY <1>1, <1>3, <2>1, <2>2, Turns
<1> QED BY <1>2, <1>3 DEF SelectSource

LEMMA EnterPathKeeps ==
  ASSUME IInv, NEW i \in Insts, EnterPath(i)
  PROVE  IInv'
  BY TryParseKeeps DEF EnterPath

LEMMA WizardBackKeeps ==
  ASSUME IInv, NEW i \in Insts, WizardBack(i)
  PROVE  IInv'
<1> DEFINE w == [NoWizard EXCEPT !.by = wiz[i].by, !.overwrite = wiz[i].overwrite]
           to == IF pc[i] = "preview" /\ ~wiz[i].auto THEN "path" ELSE "source"
<1>1. /\ pc[i] \in {"path", "preview"} /\ pc' = [pc EXCEPT ![i] = to]
      /\ wiz' = [wiz EXCEPT ![i] = w] /\ wiz[i] \in Wizards
      /\ UNCHANGED <<file, bak, lock, mem, temp, out, ret, chg, edits, past>>
  BY Known DEF WizardBack
<1>2. w \in Wizards /\ w.by = wiz[i].by
  BY <1>1 DEF NoWizard, Wizards, AllRows
<1>3. to \in {"source", "path", "preview", "merge"} /\ to # "preview" /\ to # "merge"
  OBVIOUS
<1> HIDE DEF w, to
<1> QED BY <1>1, <1>2, <1>3, Turns

\* The wizard of the first run writes what it works with.
LEMMA FirstRunEnds ==
  ASSUME IInv, NEW i \in Insts, pc[i] \in {"source", "path", "preview"}, wiz[i].by = "first run",
         NEW config \in Configs, NEW names \in SUBSET Names,
         Ordered(config.marks), SameBut(names, config.marks, mem[i].marks),
         mem' = [mem EXCEPT ![i] = config], StartWrite(i, config, names, "list"),
         wiz' = [wiz EXCEPT ![i] = [NoWizard EXCEPT !.by = "first run"]], edits' \in Nat,
         UNCHANGED <<file, lock, temp, want, seen, blind, pending>>
  PROVE  IInv'
<1>1. Types /\ Local(i) /\ "list" \in Steps
  BY Known DEF Steps
<1>2. /\ pc'[i] = "backup" /\ out'[i] = config /\ chg'[i] = names /\ ret'[i] = "list"
      /\ pc' \in [Insts -> Steps] /\ ret' \in [Insts -> Steps]
      /\ out' \in [Insts -> Configs] /\ chg' \in [Insts -> SUBSET Names]
      /\ \A j \in Insts \ {i} :
           pc'[j] = pc[j] /\ out'[j] = out[j] /\ chg'[j] = chg[j] /\ ret'[j] = ret[j]
  BY <1>1, Starts
<1>3. /\ mem' \in [Insts -> Configs] /\ mem'[i] = config /\ wiz' \in [Insts -> Wizards]
      /\ wiz'[i].by = "first run"
      /\ \A j \in Insts \ {i} : mem'[j] = mem[j] /\ wiz'[j] = wiz[j]
  <2>1. [NoWizard EXCEPT !.by = "first run"] \in Wizards /\ [NoWizard EXCEPT !.by = "first run"].by = "first run"
    BY DEF NoWizard, Wizards, AllRows
  <2> QED BY <1>1, <2>1 DEF Types
<1>4. Types'
  BY <1>1, <1>2, <1>3 DEF Types
<1>5. Only(i)
  BY <1>2, <1>3 DEF Only
<1>6. temp[i] = 0 /\ seen[i] # NoFile /\ SameBut(pending[i], mem[i].marks, seen[i].marks)
  BY <1>1 DEF Local, TempInPlace, UpToDate, Working, Visiting, Saving, Writing
<1>7. SameBut(names \cup pending[i], config.marks, seen[i].marks)
  BY <1>6 DEF SameBut
<1>8. UpToDate(i)'
  BY <1>2, <1>3, <1>6, <1>7 DEF UpToDate, Working, Visiting, Saving, Writing, SameBut
<1>9. Local(i)'
  BY <1>1, <1>2, <1>3, <1>6, <1>8 DEF Local, TempInPlace, Previewed, Writing
<1> QED BY <1>4, <1>5, <1>9, OneStep

LEMMA WizardQuitKeeps ==
  ASSUME IInv, NEW i \in Insts, WizardQuit(i)
  PROVE  IInv'
<1>1. /\ Types /\ Local(i) /\ mem[i] \in Configs /\ mem[i].marks \in Seq(Bookmarks)
      /\ mem[i].dismissed \in BOOLEAN
  BY Known
<1>2. /\ pc[i] \in {"source", "path", "preview"} /\ edits' \in Nat
      /\ UNCHANGED <<file, lock, edits, want, blind>>
  BY <1>1 DEF WizardQuit, Types
<1>3. CASE wiz[i].by = "first run"
  <2> DEFINE config == [mem[i] EXCEPT !.dismissed = TRUE]
  <2>1. /\ mem' = [mem EXCEPT ![i] = config] /\ StartWrite(i, mem'[i], {}, "list")
        /\ wiz' = [wiz EXCEPT ![i] = [NoWizard EXCEPT !.by = "first run"]] /\ UNCHANGED <<temp, seen, pending>>
    BY <1>1, <1>3 DEF WizardQuit, Types
  <2>2. config \in Configs /\ config.marks = mem[i].marks
    BY <1>1 DEF Configs
  <2> HIDE DEF config
  <2>3. StartWrite(i, config, {}, "list")
    BY <1>1, <2>1 DEF Types
  <2>4. Ordered(config.marks) /\ SameBut({}, config.marks, mem[i].marks) /\ {} \in SUBSET Names
    BY <1>1, <2>2 DEF Local, SameBut
  <2> QED BY <1>2, <1>3, <2>1, <2>2, <2>3, <2>4, FirstRunEnds
<1>4. CASE wiz[i].by # "first run"
  <2>1. Gone(i)
    BY <1>4 DEF WizardQuit
  <2>2. Types'
    BY <1>1, <1>2, <2>1, Ends DEF Types
  <2>3. Only(i) /\ Local(i)'
    BY <1>1, <1>2, <2>1, Ends
  <2> QED BY <1>2, <2>2, <2>3, OneStep
<1> QED BY <1>3, <1>4

LEMMA WizardConfirmKeeps ==
  ASSUME IInv, NEW i \in Insts, WizardConfirm(i)
  PROVE  IInv'
<1>1. /\ Types /\ Local(i) /\ mem[i] \in Configs /\ mem[i].marks \in Seq(Bookmarks)
      /\ wiz[i] \in Wizards /\ wiz[i].rows \in AllRows
  BY Known
<1>2. /\ pc[i] = "preview" /\ UNCHANGED <<file, bak, lock, temp, past>>
  BY DEF WizardConfirm
<1>3. CASE wiz[i].by = "first run"
  <2> DEFINE marks == MergeImports(mem[i].marks, Entries(wiz[i].rows, edits'), FALSE)
             config == [marks |-> marks, dismissed |-> TRUE]
             names == NamesIn(wiz[i].rows)
  <2>1. /\ NewEdit /\ mem' = [mem EXCEPT ![i] = config] /\ StartWrite(i, mem'[i], names, "list")
        /\ wiz' = [wiz EXCEPT ![i] = [NoWizard EXCEPT !.by = "first run"]]
    BY <1>1, <1>3 DEF WizardConfirm, Types
  <2>2. edits' \in Nat
    <3>1. edits' = edits + 1
      BY <1>3 DEF WizardConfirm, NewEdit
    <3>2. edits \in Nat
      BY <1>1 DEF Types
    <3> QED BY <3>1, <3>2
  <2>3. RowsOK(wiz[i].rows) /\ names \in SUBSET Names
    BY <1>1, Readable
  <2>4. marks \in Seq(Bookmarks) /\ Ordered(marks) /\ SameBut(names, marks, mem[i].marks)
    BY <1>1, <2>2, <2>3, MergeKeeps DEF Local
  <2> HIDE DEF marks, names
  <2>5. config \in Configs /\ config.marks = marks
    BY <2>4 DEF Configs
  <2> HIDE DEF config
  <2>6. StartWrite(i, config, names, "list")
    BY <1>1, <2>1 DEF Types
  <2>7. UNCHANGED <<file, lock, temp, want, seen, blind, pending>>
    BY <1>2 DEF past
  <2> QED BY <1>2, <1>3, <2>1, <2>2, <2>3, <2>4, <2>5, <2>6, <2>7, FirstRunEnds
<1>4. CASE wiz[i].by # "first run"
  <2>1. pc' = [pc EXCEPT ![i] = "merge"] /\ UNCHANGED <<mem, wiz, out, ret, chg, edits>>
    BY <1>4 DEF WizardConfirm
  <2>2. wiz' = [wiz EXCEPT ![i] = wiz[i]]
    BY <1>1, <2>1 DEF Types
  <2>3. LET preview == BuildPreview(wiz[i].rows, mem[i].marks, wiz[i].overwrite)
        IN  wiz[i].new = preview.new /\ wiz[i].over = preview.over
    BY <1>1, <1>2 DEF Local, Previewed
  <2> QED BY <1>1, <1>2, <2>1, <2>2, <2>3, Turns
<1> QED BY <1>3, <1>4

LEMMA FinishImportKeeps ==
  ASSUME IInv, NEW i \in Insts, FinishImport(i)
  PROVE  IInv'
<1>1. /\ Types /\ Local(i) /\ FileSound /\ wiz[i] \in Wizards /\ wiz[i].rows \in AllRows
      /\ wiz[i].overwrite \in BOOLEAN /\ (file # NoFile => file \in Configs) /\ NoFile \notin Configs
      /\ "off" \in Steps /\ "merge" \in Steps
  BY Known DEF Steps
<1>2. pc[i] = "merge" /\ UNCHANGED <<file, bak, lock, want, blind>>
  BY DEF FinishImport
<1>3. temp[i] = 0
  BY <1>1, <1>2 DEF Local, TempInPlace, Visiting, Saving, Writing
<1>4. ASSUME NEW config \in Configs, NEW names \in SUBSET Names, NEW then \in {"merge", "off"},
             StartWrite(i, config, names, then), seen' = [seen EXCEPT ![i] = file],
             UNCHANGED <<mem, temp, wiz, pending>>, edits' \in Nat,
             Ordered(config.marks), file # NoFile => SameBut(names, config.marks, file.marks)
      PROVE  IInv'
  <2>1. /\ pc'[i] = "backup" /\ out'[i] = config /\ chg'[i] = names /\ ret'[i] = then
        /\ pc' \in [Insts -> Steps] /\ ret' \in [Insts -> Steps]
        /\ out' \in [Insts -> Configs] /\ chg' \in [Insts -> SUBSET Names]
        /\ \A j \in Insts \ {i} :
             pc'[j] = pc[j] /\ out'[j] = out[j] /\ chg'[j] = chg[j] /\ ret'[j] = ret[j]
    <3>1. then \in Steps
      BY <1>1
    <3> QED BY <1>1, <1>4, <3>1, Starts
  <2>2. /\ seen' \in [Insts -> Configs \cup {NoFile}] /\ seen'[i] = file
        /\ \A j \in Insts \ {i} : seen'[j] = seen[j]
    BY <1>1, <1>4 DEF Types
  <2>3. Types'
    BY <1>1, <1>2, <1>4, <2>1, <2>2 DEF Types
  <2>4. Only(i)
    BY <1>2, <1>4, <2>1, <2>2 DEF Only
  <2>5. UpToDate(i)'
    BY <1>2, <1>4, <2>1, <2>2 DEF UpToDate, Working, Visiting, Saving, Writing, SameBut
  <2>6. TempInPlace(i)' /\ Previewed(i)'
    <3>1. TempInPlace(i)'
      BY <1>3, <1>4 DEF TempInPlace
    <3>2. Previewed(i)'
      BY <1>1, <1>2, <1>4, <2>1 DEF Local, Previewed
    <3> QED BY <3>1, <3>2
  <2>7. Local(i)'
    BY <1>1, <1>2, <1>4, <2>1, <2>2, <2>5, <2>6 DEF Local
  <2> QED BY <1>2, <2>3, <2>4, <2>7, OneStep
<1>5. ASSUME file = NoFile, StartWrite(i, Empty, {}, "merge"), seen' = [seen EXCEPT ![i] = file],
             UNCHANGED <<mem, temp, wiz, edits, pending>>
      PROVE  IInv'
  <2>1. edits' \in Nat /\ {} \in SUBSET Names /\ "merge" \in {"merge", "off"}
    BY <1>1, <1>5 DEF Types
  <2> QED BY <1>4, <1>5, <2>1, EmptyConfig
<1>6. ASSUME file # NoFile, NewEdit, UNCHANGED <<mem, temp, wiz, pending>>, seen' = [seen EXCEPT ![i] = file],
             LET marks == MergeImports(file.marks, Entries(wiz[i].rows, edits'), wiz[i].overwrite)
             IN  StartWrite(i, [file EXCEPT !.marks = marks],
                            {marks[k].name : k \in {j \in DOMAIN marks : marks[j].id = edits'}}, "off")
      PROVE  IInv'
  <2> DEFINE marks == MergeImports(file.marks, Entries(wiz[i].rows, edits'), wiz[i].overwrite)
             names == {marks[k].name : k \in {j \in DOMAIN marks : marks[j].id = edits'}}
             config == [file EXCEPT !.marks = marks]
  <2>1. edits' \in Nat
    BY <1>1, <1>6 DEF NewEdit, Types
  <2>2. RowsOK(wiz[i].rows) /\ file.marks \in Seq(Bookmarks) /\ file \in Configs
    <3>1. file \in Configs
      BY <1>1, <1>6
    <3> QED BY <1>1, <3>1, Readable DEF Configs
  <2>3. marks \in Seq(Bookmarks) /\ Ordered(marks) /\ SameBut(names, marks, file.marks)
    BY <1>1, <1>6, <2>1, <2>2, MergeKeeps DEF FileSound
  <2>4. StartWrite(i, config, names, "off")
    BY <1>6
  <2>5. names \in SUBSET Names
    <3> HIDE DEF marks
    <3>1. \A k \in DOMAIN marks : marks[k] \in Bookmarks
      BY <2>3
    <3>2. \A k \in DOMAIN marks : marks[k].name \in Names
      BY <3>1 DEF Bookmarks
    <3> QED BY <3>2
  <2> HIDE DEF marks, names
  <2>6. config \in Configs /\ config.marks = marks
    BY <2>2, <2>3 DEF Configs
  <2> HIDE DEF config
  <2>7. "off" \in {"merge", "off"}
    OBVIOUS
  <2> QED BY <1>4, <1>6, <2>1, <2>3, <2>4, <2>5, <2>6, <2>7
<1>7. ASSUME Gone(i), UNCHANGED edits
      PROVE  IInv'
  <2>1. Types'
    BY <1>1, <1>2, <1>7, Ends DEF Types
  <2>2. Only(i) /\ Local(i)'
    BY <1>1, <1>2, <1>7, Ends
  <2> QED BY <1>2, <2>1, <2>2, OneStep
<1> QED BY <1>5, <1>6, <1>7 DEF FinishImport

-----------------------------------------------------------------------------
(* The theorems.                                                           *)

LEMMA InitIInv == ASSUME Init PROVE IInv
<1>1. Types
  <2>1. "off" \in Steps /\ file = NoFile
    BY DEF Init, Steps
  <2> QED BY <2>1, EmptyConfig DEF Init, Types
<1>2. FileSound
  BY DEF Init, FileSound, LostOnlyBlindly, NoLostEdit
<1>3. ASSUME NEW i \in Insts
      PROVE  Local(i)
  <2>1. pc[i] = "off" /\ mem[i] = Empty /\ out[i] = Empty /\ temp[i] = 0 /\ seen[i] = NoFile
    BY DEF Init
  <2> QED BY <2>1, EmptyConfig
          DEF Local, TempInPlace, UpToDate, Previewed, Working, Writing, Saving, Visiting
<1> QED BY <1>1, <1>2, <1>3 DEF IInv

LEMMA StutterIInv == ASSUME IInv, UNCHANGED vars PROVE IInv'
<1>1. /\ UNCHANGED <<file, lock, pc, mem, temp, wiz, out, ret, chg, edits, want, seen, blind, pending>>
  BY DEF vars, past
<1>2. Types' /\ FileSound'
  BY <1>1 DEF IInv, Types, FileSound, LostOnlyBlindly, NoLostEdit, Saved
<1>3. ASSUME NEW i \in Insts
      PROVE  Local(i)'
  <2>1. Local(i)
    BY DEF IInv
  <2>2. TempInPlace(i)' /\ Previewed(i)'
    BY <1>1, <2>1 DEF Local, TempInPlace, Previewed, Visiting, Saving, Writing
  <2>3. UpToDate(i)'
    BY <1>1, <2>1 DEF Local, UpToDate, Working, Visiting, Saving, Writing
  <2> QED BY <1>1, <2>1, <2>2, <2>3 DEF Local
<1> QED BY <1>2, <1>3 DEF IInv

LEMMA NextIInv == ASSUME IInv, Next PROVE IInv'
<1> SUFFICES ASSUME NEW i \in Insts,
               \/ Open(i) \/ Connect(i) \/ SessionEnd(i) \/ SessionFails(i) \/ Crash(i)
               \/ Backup(i) \/ Rename(i) \/ WriteFails(i)
               \/ \E n \in Names : SaveBookmark(i, n)
               \/ \E n \in Names, ok \in BOOLEAN : Add(i, n, ok) \/ FromGroup(i, n, ok)
               \/ \E k \in DOMAIN mem[i].marks :
                    Delete(i, k) \/ \E n \in Names, ok \in BOOLEAN : Edit(i, k, n, ok)
               \/ \E overwrite \in BOOLEAN :
                    OpenWizard(i, overwrite) \/ \E doc \in Imports : ImportFile(i, doc, overwrite)
               \/ SelectSource(i) \/ EnterPath(i) \/ WizardBack(i) \/ WizardQuit(i) \/ WizardConfirm(i)
               \/ FinishImport(i)
             PROVE  IInv'
  BY DEF Next
<1>1. CASE Open(i) \/ Connect(i) \/ SessionEnd(i) \/ SessionFails(i) \/ Crash(i) \/ Backup(i) \/ Rename(i)
           \/ WriteFails(i)
  BY <1>1, OpenKeeps, ConnectKeeps, SessionEndKeeps, SessionFailsKeeps, CrashKeeps, BackupKeeps, RenameKeeps,
     WriteFailsKeeps
<1>2. CASE \/ \E n \in Names : SaveBookmark(i, n)
           \/ \E n \in Names, ok \in BOOLEAN : Add(i, n, ok) \/ FromGroup(i, n, ok)
  BY <1>2, SaveBookmarkKeeps, AddKeeps, FromGroupKeeps
<1>3. CASE \E k \in DOMAIN mem[i].marks :
             Delete(i, k) \/ \E n \in Names, ok \in BOOLEAN : Edit(i, k, n, ok)
  BY <1>3, EditKeeps, DeleteKeeps
<1>4. CASE \E overwrite \in BOOLEAN :
             OpenWizard(i, overwrite) \/ \E doc \in Imports : ImportFile(i, doc, overwrite)
  BY <1>4, OpenWizardKeeps, ImportFileKeeps
<1>5. CASE SelectSource(i) \/ EnterPath(i) \/ WizardBack(i) \/ WizardQuit(i) \/ WizardConfirm(i)
           \/ FinishImport(i)
  BY <1>5, SelectSourceKeeps, EnterPathKeeps, WizardBackKeeps, WizardQuitKeeps, WizardConfirmKeeps,
     FinishImportKeeps
<1> QED BY <1>1, <1>2, <1>3, <1>4, <1>5

\* Every configuration in memory or about to be written is that of the file it
\* was loaded from but for the change being saved, whoever else writes meanwhile.
THEOREM InductiveInvariant == Spec => []IInv
<1>1. IInv /\ [Next]_vars => IInv'
  BY NextIInv, StutterIInv
<1> QED BY InitIInv, <1>1, PTL DEF Spec

\* However many instances edit, import, save from their sessions and die, a
\* change reported as saved is only lost once a writer without the lock has saved
\* over changes it had not loaded, or while the lock was held.
THEOREM NothingLostUnseen == Spec => []LostOnlyBlindly
<1>1. IInv => LostOnlyBlindly
  BY DEF IInv, FileSound
<1> QED BY <1>1, InductiveInvariant, PTL

\* Names stay unique in the file, but for temporary bookmarks of sessions and for
\* what one import brought.
THEOREM NamesStayUnique == Spec => []NamesAreUnique
<1>1. IInv => NamesAreUnique
  <2> SUFFICES ASSUME IInv, file # NoFile, NEW j \in DOMAIN file.marks, NEW k \in DOMAIN file.marks,
                      j # k, file.marks[j].name = file.marks[k].name
               PROVE  \/ {Session, Group} \cap {file.marks[j].born, file.marks[k].born} # {}
                      \/ (file.marks[j].born = file.marks[k].born /\ file.marks[j].born # Form)
    BY DEF NamesAreUnique
  <2>1. Ordered(file.marks)
    BY DEF IInv, FileSound
  <2>2. j \in Nat /\ k \in Nat
    <3>1. file.marks \in Seq(Bookmarks)
      BY DEF IInv, Types, Configs
    <3> QED BY <3>1
  <2>3. CASE j < k
    BY <2>1, <2>3 DEF Ordered
  <2>4. CASE k < j
    BY <2>1, <2>4 DEF Ordered
  <2> QED BY <2>2, <2>3, <2>4
<1> QED BY <1>1, InductiveInvariant, PTL

\* When a writer replaces the file, the backup is the whole of it, unless its copy
\* failed or somebody came between copy and rename: whoever dies meanwhile.
THEOREM BackupIsKept == Spec => []BackupOfReplaced
<1>1. Init => BackupOfReplaced
  BY DEF Init, BackupOfReplaced
<1>2. ASSUME BackupOfReplaced, NEW i \in Insts, Backup(i)
      PROVE  BackupOfReplaced'
  <2> SUFFICES ASSUME NEW j \in Insts, pc'[j] = "rename", file # NoFile, j \notin slipped'
               PROVE  bak' = file
    BY <1>2 DEF BackupOfReplaced, Backup
  <2>1. pc' = [pc EXCEPT ![i] = "rename"] /\ (j # i => pc[j] = "rename")
    BY <1>2 DEF Backup
  <2>2. CASE bak' = file
    BY <2>2
  <2>3. CASE UNCHANGED bak /\ slipped' = slipped \cup {i}
    BY <2>1, <2>3, <1>2 DEF BackupOfReplaced
  <2>4. CASE slipped' = slipped \cup {i} \cup Copied(i)
    BY <2>1, <2>4 DEF Copied
  <2> QED BY <2>2, <2>3, <2>4, <1>2 DEF Backup
<1>3. ASSUME IInv, NEW i \in Insts, Rename(i) \/ WriteFails(i) \/ Crash(i)
      PROVE  pc'[i] # "rename" /\ \A j \in Insts \ {i} : pc'[j] = pc[j]
  <2>1. pc \in [Insts -> Steps] /\ UpToDate(i)
    BY <1>3, Known DEF Types, Local
  <2>2. pc' = [pc EXCEPT ![i] = "off"] \/ (Writing(i) /\ pc' = [pc EXCEPT ![i] = ret[i]])
    BY <1>3 DEF Rename, WriteFails, Crash, Gone, Writing
  <2> QED BY <2>1, <2>2 DEF UpToDate
<1>4. ASSUME IInv, BackupOfReplaced, NEW i \in Insts, Rename(i)
      PROVE  BackupOfReplaced'
  <2>1. slipped' = (slipped \cup Copied(i)) \ {i}
    BY <1>4 DEF Rename
  <2> QED BY <1>3, <1>4, <2>1 DEF BackupOfReplaced, Copied
<1>5. ASSUME IInv, BackupOfReplaced, NEW i \in Insts, WriteFails(i)
      PROVE  BackupOfReplaced'
  <2>1. slipped' = slipped \ {i} /\ UNCHANGED <<file, bak>>
    BY <1>5 DEF WriteFails
  <2> QED BY <1>3, <1>5, <2>1 DEF BackupOfReplaced
<1>6. ASSUME IInv, BackupOfReplaced, NEW i \in Insts, Crash(i)
      PROVE  BackupOfReplaced'
  <2>1. /\ UNCHANGED file
        /\ (UNCHANGED bak /\ slipped' = slipped \ {i}) \/ slipped' = slipped \cup Copied(i)
    BY <1>6 DEF Crash
  <2> QED BY <1>3, <1>6, <2>1 DEF BackupOfReplaced, Copied
<1>7. ASSUME BackupOfReplaced, UNCHANGED <<file, bak, slipped>>,
             \A i \in Insts : pc'[i] = "rename" => pc[i] = "rename"
      PROVE  BackupOfReplaced'
  BY <1>7 DEF BackupOfReplaced
<1>8. ASSUME IInv, NEW i \in Insts,
             \/ Open(i) \/ Connect(i) \/ SessionEnd(i) \/ SessionFails(i)
             \/ SelectSource(i) \/ EnterPath(i) \/ WizardBack(i) \/ WizardQuit(i) \/ WizardConfirm(i)
             \/ FinishImport(i)
      PROVE  UNCHANGED <<file, bak, slipped>> /\ \A j \in Insts : pc'[j] = "rename" => pc[j] = "rename"
  <2>1. pc \in [Insts -> Steps]
    BY <1>8, Known DEF Types
  <2>2. UNCHANGED <<file, bak, slipped>>
    BY <1>8 DEF Open, Connect, SessionEnd, SessionFails, SelectSource, EnterPath, WizardBack,
                WizardQuit, WizardConfirm, FinishImport, past
  <2>3. \E to \in Steps \ {"rename"} : pc' = [pc EXCEPT ![i] = to]
    BY <1>8 DEF Open, Begin, Connect, SessionEnd, SessionFails, SelectSource, EnterPath, WizardBack,
                WizardQuit, WizardConfirm, FinishImport, TryParse, StartWrite, Gone, Steps
  <2> QED BY <2>1, <2>2, <2>3
<1>9. ASSUME IInv, NEW i \in Insts,
             \/ \E n \in Names : SaveBookmark(i, n)
             \/ \E n \in Names, ok \in BOOLEAN : Add(i, n, ok) \/ FromGroup(i, n, ok)
             \/ \E k \in DOMAIN mem[i].marks :
                  Delete(i, k) \/ \E n \in Names, ok \in BOOLEAN : Edit(i, k, n, ok)
             \/ \E overwrite \in BOOLEAN :
                  OpenWizard(i, overwrite) \/ \E doc \in Imports : ImportFile(i, doc, overwrite)
      PROVE  UNCHANGED <<file, bak, slipped>> /\ \A j \in Insts : pc'[j] = "rename" => pc[j] = "rename"
  <2>1. pc \in [Insts -> Steps]
    BY <1>9, Known DEF Types
  <2>2. UNCHANGED <<file, bak, slipped>>
    BY <1>9 DEF SaveBookmark, Add, FromGroup, Edit, Delete, OpenWizard, ImportFile, past
  <2>3. \E to \in Steps \ {"rename"} : pc' = [pc EXCEPT ![i] = to]
    BY <1>9 DEF SaveBookmark, Add, FromGroup, Edit, Delete, OpenWizard, ImportFile, StartWrite, Steps
  <2> QED BY <2>1, <2>2, <2>3
<1>10. ASSUME IInv, BackupOfReplaced, Next
       PROVE  BackupOfReplaced'
  BY <1>2, <1>4, <1>5, <1>6, <1>7, <1>8, <1>9, <1>10 DEF Next
<1>11. IInv /\ BackupOfReplaced /\ [Next]_vars => BackupOfReplaced'
  BY <1>7, <1>10 DEF vars, past
<1> QED BY <1>1, <1>11, InductiveInvariant, PTL DEF Spec

\* What merge_imports() chooses, told without its loop.
LEMMA ChosenAtEnd ==
  ASSUME NEW old \in Seq(Bookmarks), NEW rows \in Seq(Bookmarks), NEW overwrite \in BOOLEAN
  PROVE  LET Kept(k) == ~(overwrite /\ old[k].name \in NamesIn(rows))
             Taken(k) == \/ rows[k].name \notin NamesIn(old)
                         \/ overwrite /\ \A j \in DOMAIN rows : rows[j].name = rows[k].name => j <= k
             stay == {k \in DOMAIN old : Kept(k)}
             come == {k \in DOMAIN rows : Taken(k)}
         IN  MergeImports(old, rows, overwrite) =
               Pick(old \o rows, stay \cup {Len(old) + k : k \in come})
<1> DEFINE Kept(k) == ~(overwrite /\ old[k].name \in NamesIn(rows))
           Taken(k) == \/ rows[k].name \notin NamesIn(old)
                       \/ overwrite /\ \A j \in DOMAIN rows : rows[j].name = rows[k].name => j <= k
           stay == {k \in DOMAIN old : Kept(k)}
           come == {k \in DOMAIN rows : Taken(k)}
           M == Len(old)
           N == Len(rows)
           C == Chosen(old, rows, overwrite, N)
<1>1. /\ M \in Nat /\ N \in Nat /\ DOMAIN old = 1 .. M /\ DOMAIN rows = 1 .. N
      /\ Len(old \o rows) = M + N
  BY ConcatProperties
<1> HIDE DEF M, N
<1>2. \A k \in 1 .. M : Stays(old, rows, overwrite, N, k) <=> k \in stay
  BY <1>1 DEF Stays, NamesIn, M
<1>3. \A k \in 1 .. N : Comes(old, rows, overwrite, N, k) <=> k \in come
  BY <1>1 DEF Comes
<1>4. stay \subseteq 1 .. M /\ come \subseteq 1 .. N
  BY <1>1
<1>5. /\ \A j : Stays(old, rows, overwrite, N, j) => j \in 1 .. M
      /\ \A j : Comes(old, rows, overwrite, N, j) => j \in 1 .. N
  BY DEF Stays, Comes, M
<1>6. C = {j \in 1 .. M + N : Stays(old, rows, overwrite, N, j) \/ Comes(old, rows, overwrite, N, j - M)}
  BY <1>1 DEF Chosen, M
<1> HIDE DEF stay, come, C
<1>7. ASSUME NEW j \in C
      PROVE  j \in stay \cup {M + k : k \in come}
  <2>1. j \in 1 .. M + N
    BY <1>6
  <2>2. CASE Stays(old, rows, overwrite, N, j)
    BY <2>2, <1>2, <1>5
  <2>3. CASE Comes(old, rows, overwrite, N, j - M)
    <3>1. j - M \in come
      BY <2>3, <1>3, <1>5
    <3>2. j = M + (j - M)
      BY <2>1, <1>1
    <3> QED BY <3>1, <3>2
  <2> QED BY <2>2, <2>3, <1>6
<1>8. ASSUME NEW j \in stay
      PROVE  j \in C
  <2>1. j \in 1 .. M /\ j \in 1 .. M + N
    BY <1>1, <1>4
  <2> QED BY <2>1, <1>2, <1>6
<1>9. ASSUME NEW k \in come
      PROVE  M + k \in C
  <2>1. k \in 1 .. N /\ M + k \in 1 .. M + N /\ (M + k) - M = k
    BY <1>1, <1>4
  <2> QED BY <2>1, <1>3, <1>6
<1>10. C = stay \cup {M + k : k \in come}
  BY <1>7, <1>8, <1>9
<1>11. MergeImports(old, rows, overwrite) = Pick(old \o rows, C)
  BY MergePicks DEF C, N
<1> QED BY <1>10, <1>11 DEF M, stay, come

\* The preview counts what is taken.
LEMMA PreviewCounts ==
  ASSUME NEW rows \in Seq(Bookmarks), NEW old, NEW overwrite \in BOOLEAN
  PROVE  LET Taken(k) == \/ rows[k].name \notin NamesIn(old)
                         \/ overwrite /\ \A j \in DOMAIN rows : rows[j].name = rows[k].name => j <= k
         IN  BuildPreview(rows, old, overwrite).over > 0
               <=> \E k \in DOMAIN rows : Taken(k) /\ rows[k].name \in NamesIn(old)
<1> DEFINE Taken(k) == \/ rows[k].name \notin NamesIn(old)
                       \/ overwrite /\ \A j \in DOMAIN rows : rows[j].name = rows[k].name => j <= k
           S == {k \in DOMAIN rows : rows[k].name \in NamesIn(old)}
           N == Len(rows)
<1>1. N \in Nat /\ DOMAIN rows = 1 .. N
  OBVIOUS
<1> HIDE DEF N
<1>2. BuildPreview(rows, old, overwrite).over = IF overwrite THEN Cardinality(S) ELSE 0
  BY DEF BuildPreview
<1>3. CASE ~overwrite
  BY <1>2, <1>3
<1>4. CASE overwrite
  <2>1. S \subseteq 1 .. N
    BY <1>1
  <2>2. IsFiniteSet(S) /\ Cardinality(S) \in Nat
    <3> HIDE DEF S
    <3> QED BY <1>1, <2>1, Finite
  <2>3. Cardinality(S) > 0 <=> S # {}
    <3> HIDE DEF S
    <3>1. Cardinality(S) = 0 <=> S = {}
      BY <2>2, FS_EmptySet
    <3> QED BY <2>2, <3>1
  <2>4. ASSUME NEW l \in S
        PROVE  \E k \in DOMAIN rows : Taken(k) /\ rows[k].name \in NamesIn(old)
    <3>1. l \in 1 .. N /\ rows[l].name \in NamesIn(old)
      BY <2>1
    <3>2. PICK x \in 1 .. N : /\ rows[x].name = rows[l].name
                              /\ \A y \in 1 .. N : rows[y].name = rows[l].name => y <= x
      BY ONLY <1>1, <3>1, LastOf
    <3>3. x \in DOMAIN rows /\ rows[x].name \in NamesIn(old) /\ Taken(x)
      BY <1>1, <1>4, <3>1, <3>2
    <3> QED BY <3>3
  <2>5. (\E k \in DOMAIN rows : Taken(k) /\ rows[k].name \in NamesIn(old)) => S # {}
    OBVIOUS
  <2>6. S # {} <=> \E k \in DOMAIN rows : Taken(k) /\ rows[k].name \in NamesIn(old)
    <3> HIDE DEF Taken
    <3> QED BY <2>4, <2>5
  <2> QED BY <1>2, <1>4, <2>3, <2>6
<1> QED BY <1>3, <1>4

\* Who merges either finishes the import or dies.
LEMMA OnlyImports ==
  ASSUME Types, Next, NEW i \in Insts, pc[i] = "merge", pc'[i] = "backup", ret'[i] = "off"
  PROVE  FinishImport(i)
<1>1. PICK j \in Insts :
        \/ Open(j) \/ Connect(j) \/ SessionEnd(j) \/ SessionFails(j) \/ Crash(j)
        \/ Backup(j) \/ Rename(j) \/ WriteFails(j)
        \/ \E n \in Names : SaveBookmark(j, n)
        \/ \E n \in Names, ok \in BOOLEAN : Add(j, n, ok) \/ FromGroup(j, n, ok)
        \/ \E k \in DOMAIN mem[j].marks :
             Delete(j, k) \/ \E n \in Names, ok \in BOOLEAN : Edit(j, k, n, ok)
        \/ \E overwrite \in BOOLEAN :
             OpenWizard(j, overwrite) \/ \E doc \in Imports : ImportFile(j, doc, overwrite)
        \/ SelectSource(j) \/ EnterPath(j) \/ WizardBack(j) \/ WizardQuit(j) \/ WizardConfirm(j)
        \/ FinishImport(j)
  BY DEF Next
<1>2. pc \in [Insts -> Steps]
  BY DEF Types
<1>3. CASE Open(j) \/ Connect(j) \/ SessionEnd(j) \/ SessionFails(j) \/ Crash(j)
           \/ Backup(j) \/ Rename(j) \/ WriteFails(j)
  BY <1>2, <1>3 DEF Open, Connect, SessionEnd, SessionFails, Crash, Backup, Rename, WriteFails, StartWrite, Gone
<1>4. CASE \/ \E n \in Names : SaveBookmark(j, n)
           \/ \E n \in Names, ok \in BOOLEAN : Add(j, n, ok) \/ FromGroup(j, n, ok)
  BY <1>2, <1>4 DEF SaveBookmark, Add, FromGroup, StartWrite
<1>5. CASE \E k \in DOMAIN mem[j].marks :
             Delete(j, k) \/ \E n \in Names, ok \in BOOLEAN : Edit(j, k, n, ok)
  BY <1>2, <1>5 DEF Edit, Delete, StartWrite
<1>6. CASE \E overwrite \in BOOLEAN :
             OpenWizard(j, overwrite) \/ \E doc \in Imports : ImportFile(j, doc, overwrite)
  BY <1>2, <1>6 DEF OpenWizard, ImportFile, StartWrite
<1>7. CASE SelectSource(j) \/ EnterPath(j) \/ WizardBack(j) \/ WizardQuit(j) \/ WizardConfirm(j)
  BY <1>2, <1>7 DEF SelectSource, EnterPath, WizardBack, WizardQuit, WizardConfirm, TryParse, StartWrite, Gone
<1>8. CASE FinishImport(j)
  <2>1. pc[j] = "merge"
    BY <1>8 DEF FinishImport
  <2>2. i = j \/ pc'[i] = pc[i]
    BY <1>2, <1>8 DEF FinishImport, StartWrite, Gone
  <2> QED BY <1>8, <2>2
<1> QED BY <1>1, <1>3, <1>4, <1>5, <1>6, <1>7, <1>8

\* An import of any file of any length into any configuration does what the
\* preview said: every other bookmark stays as and where it was, every new name
\* comes, and what is replaced is replaced by the last of its name.
THEOREM ImportDoesAsShown == Spec => ImportKeeps
<1> DEFINE Import(i) ==
       LET old == file.marks
           rows == Entries(wiz[i].rows, edits')
           Kept(k) == ~(wiz[i].overwrite /\ old[k].name \in NamesIn(rows))
           Taken(k) == \/ rows[k].name \notin NamesIn(old)
                       \/ wiz[i].overwrite /\ \A j \in DOMAIN rows : rows[j].name = rows[k].name => j <= k
           stay == {k \in DOMAIN old : Kept(k)}
           come == {k \in DOMAIN rows : Taken(k)}
       IN  /\ out'[i].marks = Pick(old \o rows, stay \cup {Len(old) + k : k \in come})
           /\ wiz[i].by = "wizard" /\ NamesIn(old) = NamesIn(mem[i].marks) =>
                /\ wiz[i].new = Cardinality({k \in DOMAIN rows : rows[k].name \notin NamesIn(old)})
                /\ wiz[i].over > 0 <=> \E k \in DOMAIN rows : Taken(k) /\ rows[k].name \in NamesIn(old)
<1>1. ASSUME IInv, Next, NEW i \in Insts, pc[i] = "merge", pc'[i] = "backup", ret'[i] = "off"
      PROVE  Import(i)
  <2> DEFINE old == file.marks
             rows == Entries(wiz[i].rows, edits')
             overwrite == wiz[i].overwrite
  <2>1. Types /\ Local(i) /\ wiz[i].rows \in AllRows /\ overwrite \in BOOLEAN
        /\ (file # NoFile => file \in Configs)
    BY <1>1, Known
  <2>2. FinishImport(i)
    BY <1>1, <2>1, OnlyImports
  <2>3. /\ file # NoFile /\ NewEdit
        /\ out'[i] = [file EXCEPT !.marks = MergeImports(old, rows, overwrite)]
    BY <1>1, <2>1, <2>2 DEF FinishImport, StartWrite, Gone, Types
  <2>4. edits' \in Nat /\ file \in Configs /\ old \in Seq(Bookmarks)
    BY <2>1, <2>3 DEF NewEdit, Types, Configs
  <2>5. RowsOK(wiz[i].rows)
    BY <2>1, Readable
  <2>6. /\ rows \in Seq(Bookmarks) /\ Len(rows) = Len(wiz[i].rows)
        /\ Len(wiz[i].rows) \in Nat /\ DOMAIN wiz[i].rows = 1 .. Len(wiz[i].rows)
        /\ \A k \in 1 .. Len(wiz[i].rows) : rows[k].name = wiz[i].rows[k].name
    BY <2>4, <2>5, Rows
  <2> HIDE DEF rows
  <2>7. DOMAIN rows = DOMAIN wiz[i].rows
    BY <2>6
  <2>8. out'[i].marks = MergeImports(old, rows, overwrite)
    BY <2>3, <2>4 DEF Configs
  <2> DEFINE Kept(k) == ~(overwrite /\ old[k].name \in NamesIn(rows))
             Taken(k) == \/ rows[k].name \notin NamesIn(old)
                         \/ overwrite /\ \A j \in DOMAIN rows : rows[j].name = rows[k].name => j <= k
             stay == {k \in DOMAIN old : Kept(k)}
             come == {k \in DOMAIN rows : Taken(k)}
  <2> HIDE DEF old, overwrite
  <2>9. MergeImports(old, rows, overwrite) = Pick(old \o rows, stay \cup {Len(old) + k : k \in come})
    BY <2>1, <2>4, <2>6, ChosenAtEnd
  <2>10. ASSUME wiz[i].by = "wizard", NamesIn(old) = NamesIn(mem[i].marks)
         PROVE  /\ wiz[i].new = Cardinality({k \in DOMAIN rows : rows[k].name \notin NamesIn(old)})
                /\ wiz[i].over > 0 <=> \E k \in DOMAIN rows : Taken(k) /\ rows[k].name \in NamesIn(old)
    <3>1. BuildPreview(wiz[i].rows, mem[i].marks, overwrite) = BuildPreview(rows, old, overwrite)
      <4>1. {k \in DOMAIN wiz[i].rows : wiz[i].rows[k].name \notin NamesIn(mem[i].marks)}
              = {k \in DOMAIN rows : rows[k].name \notin NamesIn(old)}
        BY <2>6, <2>7, <2>10
      <4>2. {k \in DOMAIN wiz[i].rows : wiz[i].rows[k].name \in NamesIn(mem[i].marks)}
              = {k \in DOMAIN rows : rows[k].name \in NamesIn(old)}
        BY <2>6, <2>7, <2>10
      <4> QED BY <4>1, <4>2 DEF BuildPreview
    <3>2. /\ wiz[i].new = BuildPreview(rows, old, overwrite).new
          /\ wiz[i].over = BuildPreview(rows, old, overwrite).over
      BY <1>1, <2>1, <2>10, <3>1 DEF Local, Previewed, overwrite
    <3>3. BuildPreview(rows, old, overwrite).new =
            Cardinality({k \in DOMAIN rows : rows[k].name \notin NamesIn(old)})
      BY DEF BuildPreview
    <3>4. BuildPreview(rows, old, overwrite).over > 0
            <=> \E k \in DOMAIN rows : Taken(k) /\ rows[k].name \in NamesIn(old)
      BY <2>1, <2>6, PreviewCounts
    <3> QED BY <3>2, <3>3, <3>4
  <2> QED BY <2>8, <2>9, <2>10 DEF old, rows, overwrite
<1>2. ASSUME IInv, [Next]_vars, NEW i \in Insts, pc[i] = "merge", pc'[i] = "backup", ret'[i] = "off"
      PROVE  Import(i)
  <2>1. CASE Next
    BY <1>1, <1>2, <2>1
  <2>2. CASE UNCHANGED vars
    BY <1>2, <2>2 DEF vars
  <2> QED BY <1>2, <2>1, <2>2
<1>3. IInv /\ [Next]_vars => [\A i \in Insts : pc[i] = "merge" /\ pc'[i] = "backup" /\ ret'[i] = "off" => Import(i)]_vars
  BY <1>2
<1> QED BY <1>3, InductiveInvariant, PTL DEF Spec, ImportKeeps
=============================================================================
