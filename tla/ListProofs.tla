------------------------------ MODULE ListProofs ------------------------------
(***************************************************************************)
(* What the helpers of Lists compute, for every sequence and every graph,  *)
(* and what else the proofs about searches need: the paths that do not     *)
(* meet themselves, closures, and that a search is one.                    *)
(*                                                                         *)
(* What a model computes by recursion is reasoned about from one lemma: a  *)
(* rule that gives a value for x from the values below x only has a        *)
(* function that obeys it everywhere (Recursion).  A claim about that      *)
(* function then has no least counterexample.                              *)
(***************************************************************************)
EXTENDS Lists, FiniteSetTheorems, SequenceTheorems, WellFoundedInduction, TLAPS

-----------------------------------------------------------------------------
(* Functions defined by recursion *)

\* Every part of S has a member that none is below.
HasMinimal(R, S) == \A T \in SUBSET S : T # {} => \E x \in T : \A y \in T : <<y, x>> \notin R

\* What a rule gives for x depends on the values below x alone.
IsLocal(F, S, V, R) ==
    \A x \in S : \A f, h \in [S -> V] :
        (\A y \in S : <<y, x>> \in R => f[y] = h[y]) => F[<<x, f>>] = F[<<x, h>>]

IsRule(F, S, V, R) ==
    /\ HasMinimal(R, S) /\ IsTransitivelyClosedOn(R, S)
    /\ V # {} /\ F \in [S \X [S -> V] -> V] /\ IsLocal(F, S, V, R)

Solvable(F, S, V) == \E f \in [S -> V] : \A x \in S : f[x] = F[<<x, f>>]

\* A function that obeys the rule up to x.
Obeys(F, S, V, R, x, f) ==
    /\ f \in [S -> V]
    /\ \A y \in S : (y = x \/ <<y, x>> \in R) => f[y] = F[<<y, f>>]

LEMMA ObeyingAgree ==
    ASSUME NEW S, NEW V, NEW R, NEW F, HasMinimal(R, S), IsTransitivelyClosedOn(R, S), IsLocal(F, S, V, R),
           NEW a \in S, NEW b \in S, NEW f, NEW h, Obeys(F, S, V, R, a, f), Obeys(F, S, V, R, b, h),
           NEW y \in S, y = a \/ <<y, a>> \in R, y = b \/ <<y, b>> \in R
    PROVE  f[y] = h[y]
  <1> DEFINE Below(x) == {z \in S : z = x \/ <<z, x>> \in R}
             Bad == {z \in Below(a) \intersect Below(b) : f[z] # h[z]}
  <1>1. SUFFICES ASSUME Bad # {}
                 PROVE  FALSE
    OBVIOUS
  <1>2. PICK x \in Bad : \A z \in Bad : <<z, x>> \notin R
    BY <1>1 DEF HasMinimal
  <1>3. \A z \in S : <<z, x>> \in R => z \in Below(a) \intersect Below(b)
    BY <1>2 DEF IsTransitivelyClosedOn
  <1>4. \A z \in S : <<z, x>> \in R => f[z] = h[z]
    BY <1>2, <1>3
  <1>5. F[<<x, f>>] = F[<<x, h>>]
    BY <1>2, <1>4 DEF IsLocal, Obeys
  <1> QED
    BY <1>2, <1>5 DEF Obeys

\* A rule that looks below x only has a function that obeys it everywhere.
LEMMA Recursion ==
    ASSUME NEW S, NEW V, NEW R, NEW F, IsRule(F, S, V, R)
    PROVE  Solvable(F, S, V)
  <1> USE DEF IsRule
  <1> DEFINE v == CHOOSE v : v \in V
  <1>7. v \in V
    OBVIOUS
  <1> HIDE DEF v
  <1> DEFINE Good(x, f) == Obeys(F, S, V, R, x, f)
             upto == [x \in S |-> CHOOSE f : Good(x, f)]
             some(x) == \E f : Good(x, f)
             Glued(T) == [y \in S |-> IF y \in T THEN upto[y][y] ELSE v]
  <1>1. \A x \in S : some(x) => Good(x, upto[x])
    OBVIOUS
  <1>2. ASSUME NEW x \in S
        PROVE  <<x, x>> \notin R
    <2> DEFINE T == {x}
    <2>1. T \in SUBSET S /\ T # {}
      OBVIOUS
    <2>2. \E y \in T : \A z \in T : <<z, y>> \notin R
      BY <2>1, Zenon DEF HasMinimal
    <2> QED
      BY <2>2
  <1>6. \A a, b, y \in S : \A f, h :
           /\ Obeys(F, S, V, R, a, f) /\ (y = a \/ <<y, a>> \in R)
           /\ Obeys(F, S, V, R, b, h) /\ (y = b \/ <<y, b>> \in R)
           => f[y] = h[y]
    BY ObeyingAgree
  \* Gluing together what obeys the rule up to each of a set that is closed below.
  <1>3. ASSUME NEW T \in SUBSET S, \A y \in T : some(y), \A y \in T, z \in S : <<z, y>> \in R => z \in T
        PROVE  Glued(T) \in [S -> V] /\ \A y \in T : Glued(T)[y] = F[<<y, Glued(T)>>]
    <2>1. \A y \in T : Good(y, upto[y])
      BY <1>1, <1>3
    <2> HIDE DEF upto
    <2>2. \A y \in T : upto[y] \in [S -> V] /\ upto[y][y] = F[<<y, upto[y]>>]
      BY <2>1 DEF Obeys
    <2>3. Glued(T) \in [S -> V]
      BY <1>7, <2>2
    <2>4. ASSUME NEW y \in T, NEW z \in S, <<z, y>> \in R
          PROVE  upto[z][z] = upto[y][z]
      <3>1. z \in T
        BY <1>3, <2>4
      <3>2. Obeys(F, S, V, R, z, upto[z]) /\ Obeys(F, S, V, R, y, upto[y])
        BY <2>1, <3>1
      <3>3. y \in S /\ (z = z \/ <<z, z>> \in R) /\ (z = y \/ <<z, y>> \in R)
        BY <2>4
      <3>4. z \in S
        OBVIOUS
      <3>5. \A f, h :
           /\ Obeys(F, S, V, R, z, f) /\ (z = z \/ <<z, z>> \in R)
           /\ Obeys(F, S, V, R, y, h) /\ (z = y \/ <<z, y>> \in R)
           => f[z] = h[z]
        BY <1>6, <3>3, <3>4
      <3>6. \A f, h : Obeys(F, S, V, R, z, f) /\ Obeys(F, S, V, R, y, h) => f[z] = h[z]
        BY <3>3, <3>5
      <3> QED
        BY <3>6, <3>2
    <2>5. \A y \in T : \A z \in S : <<z, y>> \in R => Glued(T)[z] = upto[y][z]
      BY <1>3, <2>4
    <2>6. ASSUME NEW y \in T
          PROVE  F[<<y, Glued(T)>>] = F[<<y, upto[y]>>]
      <3> DEFINE f == Glued(T)
                 h == upto[y]
      <3>1. y \in S /\ f \in [S -> V] /\ h \in [S -> V] /\ \A z \in S : <<z, y>> \in R => f[z] = h[z]
        BY <2>2, <2>3, <2>5
      <3> HIDE DEF f, h
      <3>2. F[<<y, f>>] = F[<<y, h>>]
        BY <3>1 DEF IsLocal
      <3> QED
        BY <3>2 DEF f, h
    <2> QED
      BY <2>2, <2>3, <2>6
  <1> HIDE DEF upto, Glued
  <1>4. \A x \in S : some(x)
    <2> DEFINE Bad == {x \in S : ~some(x)}
    <2>1. SUFFICES ASSUME Bad # {}
                   PROVE  FALSE
      OBVIOUS
    <2>2. PICK x \in Bad : \A y \in Bad : <<y, x>> \notin R
      BY <2>1 DEF HasMinimal
    <2> DEFINE T == {y \in S : <<y, x>> \in R}
               h == [y \in S |-> IF y = x THEN F[<<x, Glued(T)>>] ELSE Glued(T)[y]]
    <2>3. /\ \A y \in T : some(y)
          /\ \A y \in T, z \in S : <<z, y>> \in R => z \in T
      BY <2>2 DEF IsTransitivelyClosedOn
    <2>4. Glued(T) \in [S -> V] /\ \A y \in T : Glued(T)[y] = F[<<y, Glued(T)>>]
      BY <1>3, <2>3
    <2>5. h \in [S -> V]
      BY <2>2, <2>4
    <2>6. \A y \in S : (y = x \/ y \in T) => \A z \in S : <<z, y>> \in R => Glued(T)[z] = h[z]
      BY <1>2, <2>2, <2>3
    <2>7. \A y \in S : (y = x \/ y \in T) => F[<<y, Glued(T)>>] = F[<<y, h>>]
      BY <2>4, <2>5, <2>6 DEF IsLocal
    <2>8. \A y \in S : (y = x \/ y \in T) => h[y] = F[<<y, h>>]
      BY <2>4, <2>7
    <2>9. Good(x, h)
      BY <2>5, <2>8 DEF Obeys
    <2> QED
      BY <2>2, <2>9
  <1>5. Glued(S) \in [S -> V] /\ \A y \in S : Glued(S)[y] = F[<<y, Glued(S)>>]
    BY <1>3, <1>4
  <1> QED
    BY <1>5 DEF Solvable

-----------------------------------------------------------------------------
(* Orders that recursion goes down *)

\* Pairs in the order of one number, and of another where that is the same.
Smaller(S, first, second) ==
    {p \in S \X S : \/ first[p[1]] < first[p[2]]
                    \/ first[p[1]] = first[p[2]] /\ second[p[1]] < second[p[2]]}

LEMMA LeastOf ==
    ASSUME NEW T, T # {}, NEW m, \A x \in T : m[x] \in Nat
    PROVE  \E x \in T : \A y \in T : m[x] <= m[y]
  <1> DEFINE less == {p \in Nat \X Nat : p[1] < p[2]}
             N == {m[x] : x \in T}
  <1>1. IsWellFoundedOn(less, Nat)
    BY NatLessThanWellFounded DEF OpToRel
  <1>2. N \subseteq Nat /\ N # {}
    OBVIOUS
  <1> HIDE DEF less, N
  <1>3. \E k \in N : \A j \in N : ~(<<j, k>> \in less)
    BY <1>1, <1>2, WFMin
  <1>5. \A j, k \in N : ~(<<j, k>> \in less) => k <= j
    BY <1>2 DEF less
  <1>4. PICK k \in N : \A j \in N : k <= j
    BY <1>3, <1>5
  <1> QED
    BY <1>4 DEF N

LEMMA SmallerIsOrder ==
    ASSUME NEW S, NEW first, NEW second, \A x \in S : first[x] \in Nat /\ second[x] \in Nat
    PROVE  HasMinimal(Smaller(S, first, second), S) /\ IsTransitivelyClosedOn(Smaller(S, first, second), S)
  <1>1. ASSUME NEW T \in SUBSET S, T # {}
        PROVE  \E x \in T : \A y \in T : <<y, x>> \notin Smaller(S, first, second)
    <2>1. PICK a \in T : \A y \in T : first[a] <= first[y]
      BY <1>1, LeastOf
    <2> DEFINE least == {y \in T : first[y] = first[a]}
    <2>2. least # {} /\ \A x \in least : second[x] \in Nat
      OBVIOUS
    <2> HIDE DEF least
    <2>3. PICK x \in least : \A y \in least : second[x] <= second[y]
      BY <2>2, LeastOf
    <2>4. \A y \in T : ~(first[y] < first[x]) /\ (first[y] = first[x] => ~(second[y] < second[x]))
      BY <2>1, <2>3 DEF least
    <2> QED
      BY <2>3, <2>4 DEF least, Smaller
  <1>2. ASSUME NEW i \in S, NEW j \in S, NEW k \in S,
               <<i, j>> \in Smaller(S, first, second), <<j, k>> \in Smaller(S, first, second)
        PROVE  <<i, k>> \in Smaller(S, first, second)
    BY <1>2 DEF Smaller
  <1> QED
    BY <1>1, <1>2 DEF HasMinimal, IsTransitivelyClosedOn

-----------------------------------------------------------------------------
(* What stands at some places *)

LEMMA AppendRange ==
    ASSUME NEW T, NEW q \in Seq(T), NEW x \in T
    PROVE  Range(Append(q, x)) = Range(q) \union {x}
  <1>1. DOMAIN Append(q, x) = 1..Len(q) + 1 /\ DOMAIN q = 1..Len(q)
    OBVIOUS
  <1>2. \A i \in 1..Len(q) : Append(q, x)[i] = q[i]
    OBVIOUS
  <1>3. Append(q, x)[Len(q) + 1] = x
    OBVIOUS
  <1> QED
    BY <1>1, <1>2, <1>3 DEF Range

LEMMA AppendOnce ==
    ASSUME NEW T, NEW q \in Seq(T), NEW x \in T, IsInjective(q), x \notin Range(q)
    PROVE  IsInjective(Append(q, x))
  <1>1. DOMAIN Append(q, x) = 1..Len(q) + 1 /\ DOMAIN q = 1..Len(q) /\ Len(q) \in Nat
    OBVIOUS
  <1>2. Append(q, x)[Len(q) + 1] = x /\ \A i \in 1..Len(q) : Append(q, x)[i] = q[i]
    OBVIOUS
  <1>3. \A i \in 1..Len(q) : q[i] # x
    BY <1>1 DEF Range
  <1>4. \A i, k \in 1..Len(q) : q[i] = q[k] => i = k
    BY <1>1 DEF IsInjective
  <1>5. \A i \in 1..Len(q) + 1 : i \in 1..Len(q) \/ i = Len(q) + 1
    BY <1>1
  <1> DEFINE p == Append(q, x)
  <1> HIDE DEF p
  <1>6. \A i, k \in 1..Len(q) + 1 : p[i] = p[k] => i = k
    BY <1>2, <1>3, <1>4, <1>5 DEF p
  <1> QED
    BY <1>1, <1>6 DEF IsInjective, p

\* Different things stand at these places.
AreDistinct(s, places) == \A i, k \in DOMAIN s \intersect places : s[i] = s[k] => i = k

LEMMA PickedIs ==
    ASSUME NEW T, NEW s \in Seq(T), NEW places
    PROVE  /\ Picked(s, places) \in Seq(T) /\ Range(Picked(s, places)) = {s[i] : i \in DOMAIN s \intersect places}
           /\ AreDistinct(s, places) => IsInjective(Picked(s, places))
  <1> DEFINE S == 0..Len(s)
             V == Seq(T)
             rule(f, i) == IF i = 0 THEN <<>>
                           ELSE IF i \in places THEN Append(f[i - 1], s[i]) ELSE f[i - 1]
             F == [p \in S \X [S -> V] |-> rule(p[2], p[1])]
             id == [i \in S |-> i]
             R == Smaller(S, id, id)
             from == CHOOSE f : f = [i \in S |-> rule(f, i)]
  <1>1. Picked(s, places) = from[Len(s)]
    BY Zenon DEF Picked
  <1>2. \A i \in S : id[i] \in Nat
    OBVIOUS
  <1>3. HasMinimal(R, S) /\ IsTransitivelyClosedOn(R, S)
    BY <1>2, SmallerIsOrder
  <1>4. ASSUME NEW i \in S, NEW f \in [S -> V]
        PROVE  rule(f, i) \in V
    <2>1. CASE i = 0
      BY <2>1
    <2>2. CASE i # 0
      <3>1. i - 1 \in S /\ f[i - 1] \in V /\ s[i] \in T
        BY <2>2
      <3> QED
        BY <2>2, <3>1
    <2> QED
      BY <2>1, <2>2
  <1>5. F \in [S \X [S -> V] -> V]
    BY <1>4
  <1>6. \A i \in S \ {0} : i - 1 \in S /\ <<i - 1, i>> \in R
    BY DEF Smaller
  <1>7. IsLocal(F, S, V, R)
    <2> SUFFICES ASSUME NEW x \in S, NEW f \in [S -> V], NEW h \in [S -> V],
                        \A y \in S : <<y, x>> \in R => f[y] = h[y]
                 PROVE  rule(f, x) = rule(h, x)
      BY DEF IsLocal
    <2> QED
      BY <1>6
  <1>8. <<>> \in V
    OBVIOUS
  <1> HIDE DEF R, V
  <1>9. \E f \in [S -> V] : \A i \in S : f[i] = F[<<i, f>>]
    <2> HIDE DEF F, S
    <2>1. IsRule(F, S, V, R)
      BY <1>3, <1>5, <1>7, <1>8 DEF IsRule
    <2>2. Solvable(F, S, V)
      BY <2>1, Recursion
    <2> QED
      BY <2>2 DEF Solvable
  <1>10. \E f : f = [i \in S |-> rule(f, i)]
    <2>1. PICK f \in [S -> V] : \A i \in S : f[i] = F[<<i, f>>]
      BY <1>9
    <2>2. f = [i \in S |-> rule(f, i)]
      BY <2>1
    <2> QED
      BY <2>2
  <1>11. from = [i \in S |-> rule(from, i)]
    BY <1>10, Zenon
  <1> HIDE DEF from
  <1>12. \A i \in S : from[i] = rule(from, i)
    BY <1>11
  <1> DEFINE Fine(i) == /\ from[i] \in Seq(T) /\ Range(from[i]) = {s[j] : j \in (1..i) \intersect places}
                        /\ AreDistinct(s, places) => IsInjective(from[i])
             Bad == {i \in S : ~Fine(i)}
  <1>13. ASSUME Bad # {}
         PROVE  FALSE
    <2>7. \A i \in Bad : i \in S /\ id[i] = i /\ ~Fine(i)
      OBVIOUS
    <2>8. \A i \in Bad : id[i] \in Nat
      OBVIOUS
    <2>9. \A i \in S : i \notin Bad => Fine(i)
      OBVIOUS
    <2> HIDE DEF Bad, id
    <2>1. PICK i \in Bad : \A j \in Bad : id[i] <= id[j]
      BY <1>13, <2>8, LeastOf
    <2>2. i # 0
      <3>1. from[0] = <<>> /\ Range(<<>>) = {}
        <4>1. 0 \in S /\ DOMAIN <<>> = {}
          OBVIOUS
        <4> QED
          BY <1>12, <4>1 DEF Range
      <3>3. IsInjective(<<>>)
        BY DEF IsInjective
      <3>2. Fine(0)
        BY <3>1, <3>3
      <3> QED
        BY <2>1, <2>7, <3>2
    <2>3. i - 1 \in S /\ i \in 1..Len(s) /\ s[i] \in T /\ Fine(i - 1)
      <3>1. i \in S /\ i - 1 \in S /\ i \in 1..Len(s)
        BY <2>1, <2>2, <2>7
      <3>2. i - 1 \notin Bad
        BY <2>1, <2>7, <3>1
      <3> HIDE DEF Fine
      <3> QED
        BY <2>9, <3>1, <3>2
    <2>4. 1..i = 1..i - 1 \union {i}
      BY <2>3
    <2>5. CASE i \in places
      <3>1. from[i] = Append(from[i - 1], s[i])
        <4>1. from[i] = rule(from, i)
          BY <1>12, <2>3
        <4> QED
          BY <2>2, <2>5, <4>1, Zenon
      <3>2. Range(from[i]) = Range(from[i - 1]) \union {s[i]} /\ from[i] \in Seq(T)
        BY <2>3, <3>1, AppendRange
      <3>3. (1..i) \intersect places = ((1..i - 1) \intersect places) \union {i}
        BY <2>4, <2>5
      <3>5. ASSUME AreDistinct(s, places)
            PROVE  IsInjective(from[i])
        <4>1. \A j \in (1..i - 1) \intersect places : j \in DOMAIN s /\ j # i
          BY <2>3
        <4>2. s[i] \notin Range(from[i - 1])
          BY <2>3, <2>5, <3>5, <4>1 DEF AreDistinct
        <4>3. IsInjective(from[i - 1]) /\ from[i - 1] \in Seq(T) /\ s[i] \in T
          BY <2>3, <3>5
        <4>4. IsInjective(Append(from[i - 1], s[i]))
          BY <4>2, <4>3, AppendOnce
        <4> QED
          BY <3>1, <4>4
      <3>4. Fine(i)
        BY <2>3, <3>2, <3>3, <3>5
      <3> QED
        BY <2>1, <2>7, <3>4
    <2>6. CASE i \notin places
      <3>1. from[i] = from[i - 1]
        BY <1>12, <2>2, <2>3, <2>6
      <3>2. (1..i) \intersect places = (1..i - 1) \intersect places
        BY <2>4, <2>6
      <3>4. Fine(i)
        BY <2>3, <3>1, <3>2
      <3> QED
        BY <2>1, <2>7, <3>4
    <2> QED
      BY <2>5, <2>6
  <1>14. Fine(Len(s))
    <2>1. Len(s) \in S
      OBVIOUS
    <2> HIDE DEF Fine
    <2> QED
      BY <1>13, <2>1
  <1> QED
    BY <1>1, <1>14

-----------------------------------------------------------------------------
(* Arranging *)

IsTotal(before, ids) ==
    /\ \A i \in ids : <<i, i>> \notin before
    /\ \A i, j \in ids : i = j \/ <<i, j>> \in before \/ <<j, i>> \in before
    /\ \A i, j, k \in ids : <<i, j>> \in before /\ <<j, k>> \in before => <<i, k>> \in before

LEMMA RankedIs ==
    ASSUME NEW ids, IsFiniteSet(ids), NEW before, IsTotal(before, ids)
    PROVE  /\ Ranked(ids, before) \in Seq(ids) /\ Range(Ranked(ids, before)) = ids
           /\ \A i, k \in DOMAIN Ranked(ids, before) : i < k => <<Ranked(ids, before)[i], Ranked(ids, before)[k]>> \in before
           /\ DOMAIN Ranked(ids, before) = 1..Cardinality(ids)
  <1> DEFINE n == Cardinality(ids)
             under(i) == {j \in ids : <<j, i>> \in before}
             rank == [i \in ids |-> Cardinality(under(i))]
  <1>1. n \in Nat
    BY FS_CardinalityType
  <1>2. \A i \in ids : IsFiniteSet(under(i)) /\ Cardinality(under(i)) \in Nat /\ Cardinality(under(i)) <= n
    BY FS_Subset, FS_CardinalityType
  <1>3. ASSUME NEW i \in ids
        PROVE  Cardinality(under(i)) # n
    <2>1. under(i) \in SUBSET ids /\ i \in ids \ under(i)
      BY DEF IsTotal
    <2> HIDE DEF under
    <2> QED
      BY <2>1, FS_Subset
  <1>4. ASSUME NEW i \in ids, NEW j \in ids, <<i, j>> \in before
        PROVE  Cardinality(under(i)) < Cardinality(under(j))
    <2>1. under(i) \in SUBSET under(j) /\ i \in under(j) \ under(i)
      BY <1>4 DEF IsTotal
    <2>2. IsFiniteSet(under(j)) /\ Cardinality(under(i)) \in Nat /\ Cardinality(under(j)) \in Nat
      BY <1>2
    <2> HIDE DEF under
    <2>3. Cardinality(under(i)) <= Cardinality(under(j)) /\ Cardinality(under(i)) # Cardinality(under(j))
      BY <2>1, <2>2, FS_Subset
    <2> QED
      BY <2>2, <2>3
  <1>5. rank \in [ids -> 0..n - 1]
    BY <1>1, <1>2, <1>3
  <1>6. \A i, j \in ids : rank[i] = rank[j] => i = j
    <2> SUFFICES ASSUME NEW i \in ids, NEW j \in ids, rank[i] = rank[j], i # j
                 PROVE  FALSE
      OBVIOUS
    <2>1. Cardinality(under(i)) = Cardinality(under(j)) /\ Cardinality(under(i)) \in Nat
      BY <1>2
    <2>2. <<i, j>> \in before \/ <<j, i>> \in before
      BY DEF IsTotal
    <2>3. Cardinality(under(i)) < Cardinality(under(j)) \/ Cardinality(under(j)) < Cardinality(under(i))
      BY <1>4, <2>2
    <2> HIDE DEF under
    <2> QED
      BY <2>1, <2>3
  <1>7. rank \in Injection(ids, 0..n - 1)
    BY <1>5, <1>6 DEF Injection, IsInjective
  <1>8. IsFiniteSet(0..n - 1) /\ Cardinality(0..n - 1) = n
    <2>1. 0 \in Int /\ n - 1 \in Int
      BY <1>1
    <2> QED
      BY <1>1, <2>1, FS_Interval
  <1>9. rank \in Surjection(ids, 0..n - 1)
    BY <1>7, <1>8, FS_Injection
  <1>10. \A k \in 1..n : \E i \in ids : Cardinality(under(i)) = k - 1
    <2>1. \A k \in 1..n : k - 1 \in 0..n - 1
      BY <1>1
    <2> QED
      BY <1>9, <2>1 DEF Surjection
  <1> DEFINE at(k) == CHOOSE i \in ids : Cardinality(under(i)) = k - 1
  <1>11. Ranked(ids, before) = [k \in 1..n |-> at(k)]
    BY DEF Ranked
  <1>12. \A k \in 1..n : at(k) \in ids /\ Cardinality(under(at(k))) = k - 1
    BY <1>10
  <1> HIDE DEF at, n
  <1>13. Ranked(ids, before) \in [1..n -> ids]
    BY <1>11, <1>12
  <1>14. ASSUME NEW i \in ids
         PROVE  \E k \in 1..n : at(k) = i
    <2> DEFINE k == rank[i] + 1
    <2>1. rank[i] \in 0..n - 1
      BY <1>5
    <2>5. k \in 1..n /\ k - 1 = rank[i]
      <3> HIDE DEF rank
      <3> QED
        BY <1>1, <2>1
    <2> HIDE DEF k
    <2>2. at(k) \in ids /\ Cardinality(under(at(k))) = rank[i]
      BY <1>12, <2>5
    <2>3. rank[at(k)] = Cardinality(under(at(k)))
      BY <2>2
    <2>4. at(k) = i
      BY <1>6, <2>2, <2>3
    <2> QED
      BY <2>5, <2>4
  <1>15. Ranked(ids, before) \in Seq(ids)
    BY <1>1, <1>13
  <1>16. DOMAIN Ranked(ids, before) = 1..n
    BY <1>13
  <1> QED
    <2> DEFINE r == Ranked(ids, before)
    <2>1. \A k \in 1..n : r[k] = at(k)
      BY <1>11
    <2> HIDE DEF r
    <2>2. DOMAIN r = 1..n /\ r \in Seq(ids)
      BY <1>15, <1>16 DEF r
    <2>3. Range(r) = ids
      BY <1>12, <1>14, <2>1, <2>2 DEF Range
    <2>4. ASSUME NEW i \in 1..n, NEW k \in 1..n, i < k
          PROVE  <<r[i], r[k]>> \in before
      <3> DEFINE a == at(i)
                 b == at(k)
      <3>1. a \in ids /\ b \in ids /\ Cardinality(under(a)) = i - 1 /\ Cardinality(under(b)) = k - 1
        BY <1>12
      <3> HIDE DEF a, b
      <3>2. <<b, a>> \in before => Cardinality(under(b)) < Cardinality(under(a))
        BY <1>4, <3>1
      <3>3. a = b \/ <<a, b>> \in before \/ <<b, a>> \in before
        BY <3>1 DEF IsTotal
      <3> HIDE DEF under
      <3>4. a # b /\ <<b, a>> \notin before
        BY <1>1, <2>4, <3>1, <3>2
      <3>5. r[i] = a /\ r[k] = b
        BY <2>1 DEF a, b
      <3> QED
        BY <3>3, <3>4, <3>5
    <2> QED
      BY <2>2, <2>3, <2>4 DEF r, n

LEMMA JoinedRange ==
    ASSUME NEW T, NEW n \in T, NEW a \in Seq(T), NEW b \in Seq(T)
    PROVE  /\ <<n>> \o a \o b \in Seq(T)
           /\ Range(<<n>> \o a \o b) = {n} \union Range(a) \union Range(b)
  <1> DEFINE s == <<n>> \o a \o b
  <1>1. s \in Seq(T) /\ Len(s) = 1 + Len(a) + Len(b) /\ Len(a) \in Nat /\ Len(b) \in Nat
    OBVIOUS
  <1>2. DOMAIN s = 1..1 + Len(a) + Len(b) /\ DOMAIN a = 1..Len(a) /\ DOMAIN b = 1..Len(b)
    BY <1>1
  <1>3. s[1] = n
    OBVIOUS
  <1>4. \A i \in 1..Len(a) : s[1 + i] = a[i]
    OBVIOUS
  <1>5. \A i \in 1..Len(b) : s[1 + Len(a) + i] = b[i]
    OBVIOUS
  <1> HIDE DEF s
  <1>6. ASSUME NEW i \in DOMAIN s
        PROVE  s[i] \in {n} \union Range(a) \union Range(b)
    <2>1. CASE i = 1
      BY <1>3, <2>1
    <2>2. CASE i \in 2..1 + Len(a)
      <3>1. i - 1 \in 1..Len(a) /\ 1 + (i - 1) = i
        BY <1>1, <2>2
      <3> QED
        BY <1>2, <1>4, <3>1 DEF Range
    <2>3. CASE i \in 2 + Len(a)..1 + Len(a) + Len(b)
      <3>1. i - 1 - Len(a) \in 1..Len(b) /\ 1 + Len(a) + (i - 1 - Len(a)) = i
        BY <1>1, <2>3
      <3> QED
        BY <1>2, <1>5, <3>1 DEF Range
    <2> QED
      BY <1>1, <1>2, <2>1, <2>2, <2>3
  <1>7. n \in Range(s)
    <2>1. 1 \in DOMAIN s
      BY <1>1, <1>2
    <2> QED
      BY <1>3, <2>1 DEF Range
  <1>8. ASSUME NEW i \in DOMAIN a
        PROVE  a[i] \in Range(s)
    <2>1. 1 + i \in DOMAIN s /\ i \in 1..Len(a)
      BY <1>1, <1>2
    <2> QED
      BY <1>4, <2>1 DEF Range
  <1>9. ASSUME NEW i \in DOMAIN b
        PROVE  b[i] \in Range(s)
    <2>1. 1 + Len(a) + i \in DOMAIN s /\ i \in 1..Len(b)
      BY <1>1, <1>2
    <2> QED
      BY <1>5, <2>1 DEF Range
  <1>10. Range(s) \subseteq {n} \union Range(a) \union Range(b)
    BY <1>6 DEF Range
  <1>11. Range(a) \subseteq Range(s) /\ Range(b) \subseteq Range(s)
    BY <1>8, <1>9 DEF Range
  <1> QED
    BY <1>1, <1>7, <1>10, <1>11 DEF s

-----------------------------------------------------------------------------
(* Closures *)

IsClosed(pairs, s) == \A p \in pairs : p[1] \in s => p[2] \in s

\* Closure, in any set of nodes.
ClosureIn(nodes, pairs, ids) ==
    {n \in nodes : \A s \in SUBSET nodes : ids \subseteq s /\ IsClosed(pairs, s) => n \in s}

From(pairs, n) == {p[2] : p \in {x \in pairs : x[1] = n}}

LEMMA ClosureIs ==
    ASSUME NEW nodes, NEW pairs \in SUBSET (nodes \X nodes), NEW ids \in SUBSET nodes
    PROVE  /\ ids \subseteq ClosureIn(nodes, pairs, ids)
           /\ ClosureIn(nodes, pairs, ids) \subseteq nodes
           /\ IsClosed(pairs, ClosureIn(nodes, pairs, ids))
           /\ \A s \in SUBSET nodes : ids \subseteq s /\ IsClosed(pairs, s) => ClosureIn(nodes, pairs, ids) \subseteq s
  <1>1. \A p \in pairs : p[1] \in nodes /\ p[2] \in nodes
    OBVIOUS
  <1>2. IsClosed(pairs, ClosureIn(nodes, pairs, ids))
    BY <1>1 DEF IsClosed, ClosureIn
  <1>3. /\ ids \subseteq ClosureIn(nodes, pairs, ids)
        /\ ClosureIn(nodes, pairs, ids) \subseteq nodes
        /\ \A s \in SUBSET nodes : ids \subseteq s /\ IsClosed(pairs, s) => ClosureIn(nodes, pairs, ids) \subseteq s
    BY DEF ClosureIn
  <1> QED
    BY <1>2, <1>3

LEMMA ClosureOfBoth ==
    ASSUME NEW nodes, NEW pairs \in SUBSET (nodes \X nodes), NEW a \in SUBSET nodes, NEW b \in SUBSET nodes
    PROVE  ClosureIn(nodes, pairs, a \union b) = ClosureIn(nodes, pairs, a) \union ClosureIn(nodes, pairs, b)
  <1> DEFINE A == ClosureIn(nodes, pairs, a)
             B == ClosureIn(nodes, pairs, b)
             C == ClosureIn(nodes, pairs, a \union b)
  <1>1. a \subseteq A /\ A \subseteq nodes /\ IsClosed(pairs, A)
    BY ClosureIs
  <1>2. b \subseteq B /\ B \subseteq nodes /\ IsClosed(pairs, B)
    BY ClosureIs
  <1>3. a \union b \in SUBSET nodes
    OBVIOUS
  <1>4. a \union b \subseteq C /\ C \subseteq nodes /\ IsClosed(pairs, C)
    BY <1>3, ClosureIs
  <1>5. \A s \in SUBSET nodes : a \union b \subseteq s /\ IsClosed(pairs, s) => C \subseteq s
    BY <1>3, ClosureIs
  <1>6. \A s \in SUBSET nodes : a \subseteq s /\ IsClosed(pairs, s) => A \subseteq s
    BY ClosureIs
  <1>7. \A s \in SUBSET nodes : b \subseteq s /\ IsClosed(pairs, s) => B \subseteq s
    BY ClosureIs
  <1> HIDE DEF A, B, C
  <1>8. IsClosed(pairs, A \union B)
    BY <1>1, <1>2 DEF IsClosed
  <1>9. C \subseteq A \union B
    BY <1>1, <1>2, <1>5, <1>8
  <1>10. A \subseteq C /\ B \subseteq C
    BY <1>4, <1>6, <1>7
  <1> QED
    BY <1>9, <1>10 DEF A, B, C

LEMMA ClosureOfOne ==
    ASSUME NEW nodes, NEW pairs \in SUBSET (nodes \X nodes), NEW n \in nodes
    PROVE  /\ From(pairs, n) \in SUBSET nodes
           /\ ClosureIn(nodes, pairs, {n}) = {n} \union ClosureIn(nodes, pairs, From(pairs, n))
  <1> DEFINE A == ClosureIn(nodes, pairs, From(pairs, n))
             C == ClosureIn(nodes, pairs, {n})
  <1>1. From(pairs, n) \in SUBSET nodes
    BY DEF From
  <1>2. From(pairs, n) \subseteq A /\ A \subseteq nodes /\ IsClosed(pairs, A)
    BY <1>1, ClosureIs
  <1>3. \A s \in SUBSET nodes : From(pairs, n) \subseteq s /\ IsClosed(pairs, s) => A \subseteq s
    BY <1>1, ClosureIs
  <1>4. {n} \in SUBSET nodes
    OBVIOUS
  <1>5. {n} \subseteq C /\ C \subseteq nodes /\ IsClosed(pairs, C)
    BY <1>4, ClosureIs
  <1>6. \A s \in SUBSET nodes : {n} \subseteq s /\ IsClosed(pairs, s) => C \subseteq s
    BY <1>4, ClosureIs
  <1> HIDE DEF A, C
  <1>7. From(pairs, n) \subseteq C
    BY <1>5 DEF From, IsClosed
  <1>8. A \subseteq C
    BY <1>3, <1>5, <1>7
  <1>9. IsClosed(pairs, {n} \union A)
    BY <1>2 DEF From, IsClosed
  <1>10. C \subseteq {n} \union A
    BY <1>2, <1>6, <1>9
  <1> QED
    BY <1>1, <1>5, <1>8, <1>10 DEF A, C

LEMMA ClosureOfNone ==
    ASSUME NEW nodes, NEW pairs
    PROVE  ClosureIn(nodes, pairs, {}) = {}
  <1>1. {} \in SUBSET nodes /\ IsClosed(pairs, {})
    BY DEF IsClosed
  <1> QED
    BY <1>1 DEF ClosureIn

\* The pairs lead to nodes, from wherever.
LeadInto(pairs, nodes) == \A p \in pairs : p[2] \in nodes

LEMMA FromIs ==
    ASSUME NEW nodes, NEW pairs, LeadInto(pairs, nodes)
    PROVE  \A n : From(pairs, n) \in SUBSET nodes
  BY DEF From, LeadInto

-----------------------------------------------------------------------------
(* Searches *)

LEMMA RangeIsFinite ==
    ASSUME NEW T, NEW s \in Seq(T)
    PROVE  IsFiniteSet(Range(s)) /\ Range(s) = {s[i] : i \in 1..Len(s)}
  <1>1. DOMAIN s = 1..Len(s) /\ Len(s) \in Nat /\ s \in [1..Len(s) -> T]
    OBVIOUS
  <1>2. IsFiniteSet(1..Len(s))
    BY <1>1, FS_Interval
  <1>3. s \in Surjection(1..Len(s), Range(s))
    BY <1>1 DEF Surjection, Range
  <1> QED
    BY <1>1, <1>2, <1>3, FS_Surjection DEF Range

\* The least set that holds ids and is closed under the pairs.
LEMMA DownstreamIs ==
    ASSUME NEW pairs, NEW ids
    PROVE  /\ ids \subseteq Downstream(pairs, ids)
           /\ Downstream(pairs, ids) \subseteq ids \union {p[2] : p \in pairs}
           /\ IsClosed(pairs, Downstream(pairs, ids))
           /\ \A s : ids \subseteq s /\ IsClosed(pairs, s) => Downstream(pairs, ids) \subseteq s
  <1> DEFINE all    == ids \union {p[2] : p \in pairs}
             closed == {s \in SUBSET all : ids \subseteq s /\ \A p \in pairs : p[1] \in s => p[2] \in s}
  <1>1. Downstream(pairs, ids) = {n \in all : \A s \in closed : n \in s}
    BY DEF Downstream
  <1>2. IsClosed(pairs, Downstream(pairs, ids))
    <2> SUFFICES ASSUME NEW p \in pairs, p[1] \in Downstream(pairs, ids), NEW s \in closed
                 PROVE  p[2] \in s
      BY <1>1 DEF IsClosed
    <2> QED
      BY <1>1
  <1>3. ASSUME NEW s, ids \subseteq s, IsClosed(pairs, s)
        PROVE  Downstream(pairs, ids) \subseteq s
    <2>1. s \intersect all \in closed
      BY <1>3 DEF IsClosed
    <2> QED
      BY <1>1, <2>1
  <1> QED
    BY <1>1, <1>2, <1>3

LEMMA DownstreamIsLeast ==
    ASSUME NEW pairs, NEW ids, NEW D, ids \subseteq D, IsClosed(pairs, D),
           \A s : ids \subseteq s /\ IsClosed(pairs, s) => D \subseteq s
    PROVE  D = Downstream(pairs, ids)
  BY DownstreamIs

\* Searching a level at a time stops at all that there is to be found.
LEMMA GrownIs ==
    ASSUME NEW pairs, NEW ids, IsFiniteSet(ids), IsFiniteSet({p[2] : p \in pairs})
    PROVE  Grown(pairs, ids) = Downstream(pairs, ids)
  <1> DEFINE all == ids \union {p[2] : p \in pairs}
             S == SUBSET all
             rule(f, met) == IF Ahead(pairs, met) \subseteq met THEN met ELSE f[met \union Ahead(pairs, met)]
             F == [p \in S \X [S -> S] |-> rule(p[2], p[1])]
             left == [met \in S |-> Cardinality(all \ met)]
             R == Smaller(S, left, left)
             grown == CHOOSE f : f = [met \in S |-> rule(f, met)]
  <1>1. Grown(pairs, ids) = grown[ids]
    BY Zenon DEF Grown
  <1>2. IsFiniteSet(all)
    BY FS_Union
  <1>3. \A met \in S : IsFiniteSet(all \ met) /\ left[met] \in Nat
    BY <1>2, FS_Subset, FS_CardinalityType
  <1>4. HasMinimal(R, S) /\ IsTransitivelyClosedOn(R, S)
    BY <1>3, SmallerIsOrder
  <1>5. \A met \in S : met \union Ahead(pairs, met) \in S
    BY DEF Ahead
  <1>6. ASSUME NEW met \in S, ~(Ahead(pairs, met) \subseteq met)
        PROVE  <<met \union Ahead(pairs, met), met>> \in R
    <2> DEFINE next == met \union Ahead(pairs, met)
    <2>1. PICK x \in Ahead(pairs, met) : x \notin met
      BY <1>6
    <2>2. next \in S
      BY <1>5
    <2>3. all \ next \in SUBSET (all \ met) /\ x \in (all \ met) \ (all \ next)
      BY <1>5, <2>1
    <2>4. IsFiniteSet(all \ met) /\ left[met] \in Nat /\ left[next] \in Nat
      BY <1>3, <2>2
    <2>5. left[met] = Cardinality(all \ met) /\ left[next] = Cardinality(all \ next)
      BY <2>2
    <2> HIDE DEF left, next, all
    <2>6. Cardinality(all \ next) <= Cardinality(all \ met) /\ Cardinality(all \ next) # Cardinality(all \ met)
      BY <2>3, <2>4, FS_Subset
    <2>7. left[next] < left[met]
      BY <2>4, <2>5, <2>6
    <2> QED
      BY <2>2, <2>7 DEF Smaller, next
  <1>7. F \in [S \X [S -> S] -> S]
    BY <1>5
  <1>8. IsLocal(F, S, S, R)
    <2> SUFFICES ASSUME NEW x \in S, NEW f \in [S -> S], NEW h \in [S -> S],
                        \A y \in S : <<y, x>> \in R => f[y] = h[y]
                 PROVE  rule(f, x) = rule(h, x)
      BY DEF IsLocal
    <2> HIDE DEF R, S
    <2> QED
      BY <1>5, <1>6
  <1>9. S # {} /\ ids \in S
    OBVIOUS
  <1> HIDE DEF R
  <1>10. \E f \in [S -> S] : \A x \in S : f[x] = F[<<x, f>>]
    <2> HIDE DEF F, S
    <2>1. IsRule(F, S, S, R)
      BY <1>4, <1>7, <1>8, <1>9 DEF IsRule
    <2>2. Solvable(F, S, S)
      BY <2>1, Recursion
    <2> QED
      BY <2>2 DEF Solvable
  <1>11. \E f : f = [met \in S |-> rule(f, met)]
    <2>1. PICK f \in [S -> S] : \A x \in S : f[x] = F[<<x, f>>]
      BY <1>10
    <2>3. \A met \in S : F[<<met, f>>] = rule(f, met)
      BY <2>1
    <2> HIDE DEF F, S
    <2>2. f = [met \in S |-> rule(f, met)]
      BY <2>1, <2>3
    <2> QED
      BY <2>2
  <1>12. grown = [met \in S |-> rule(grown, met)]
    BY <1>11, Zenon
  <1> HIDE DEF grown
  <1>13. \A met \in S : grown[met] = rule(grown, met)
    BY <1>12
  <1> DEFINE Fine(met) == grown[met] = Downstream(pairs, met)
             Bad == {met \in S : ~Fine(met)}
  <1>14. ASSUME Bad # {}
         PROVE  FALSE
    <2>1. \A met \in Bad : met \in S /\ ~Fine(met)
      OBVIOUS
    <2>2. \A met \in S : met \notin Bad => Fine(met)
      OBVIOUS
    <2>3. Bad \in SUBSET S
      OBVIOUS
    <2> HIDE DEF Bad, S
    <2>4. PICK met \in Bad : \A y \in Bad : <<y, met>> \notin R
      BY <1>4, <1>14, <2>3, Zenon DEF HasMinimal
    <2> DEFINE next == met \union Ahead(pairs, met)
    <2>5. CASE Ahead(pairs, met) \subseteq met
      <3>1. grown[met] = met
        BY <1>13, <2>1, <2>4, <2>5
      <3>2. IsClosed(pairs, met)
        BY <2>5 DEF IsClosed, Ahead
      <3>3. met = Downstream(pairs, met)
        BY <3>2, DownstreamIs
      <3> QED
        BY <2>1, <2>4, <3>1, <3>3
    <2>6. CASE ~(Ahead(pairs, met) \subseteq met)
      <3>1. next \in S /\ <<next, met>> \in R
        BY <1>5, <1>6, <2>1, <2>4, <2>6
      <3>2. grown[met] = grown[next]
        BY <1>13, <2>1, <2>4, <2>6
      <3>3. Fine(next)
        BY <2>2, <2>4, <3>1
      <3>4. Downstream(pairs, next) = Downstream(pairs, met)
        <4> DEFINE D == Downstream(pairs, next)
        <4>1. next \subseteq D /\ IsClosed(pairs, D) /\ \A s : next \subseteq s /\ IsClosed(pairs, s) => D \subseteq s
          BY DownstreamIs
        <4>2. \A s : met \subseteq s /\ IsClosed(pairs, s) => next \subseteq s
          BY DEF IsClosed, Ahead
        <4> HIDE DEF D, next
        <4>3. met \subseteq D
          BY <4>1 DEF next
        <4> QED
          BY <4>1, <4>2, <4>3, DownstreamIsLeast DEF D
      <3> QED
        BY <2>1, <2>4, <3>2, <3>3, <3>4
    <2> QED
      BY <2>5, <2>6
  <1> HIDE DEF Fine
  <1>15. Fine(ids)
    BY <1>9, <1>14
  <1> QED
    BY <1>1, <1>15 DEF Fine

-----------------------------------------------------------------------------
(* Paths that do not meet themselves *)

Left(nodes, bound) == [path \in Seq(nodes) |-> IF Len(path) <= bound THEN bound + 1 - Len(path) ELSE 0]

Longer(nodes, bound) == Smaller(Seq(nodes), Left(nodes, bound), Left(nodes, bound))

LEMMA LongerIsOrder ==
    ASSUME NEW nodes, NEW bound \in Nat
    PROVE  /\ HasMinimal(Longer(nodes, bound), Seq(nodes)) /\ IsTransitivelyClosedOn(Longer(nodes, bound), Seq(nodes))
           /\ \A path \in Seq(nodes), n \in nodes :
                 Append(path, n) \in Seq(nodes) /\ (Len(path) <= bound => <<Append(path, n), path>> \in Longer(nodes, bound))
  <1>1. bound \in Nat
    OBVIOUS
  <1>2. \A path \in Seq(nodes) : Left(nodes, bound)[path] \in Nat
    BY <1>1 DEF Left
  <1>3. HasMinimal(Longer(nodes, bound), Seq(nodes)) /\ IsTransitivelyClosedOn(Longer(nodes, bound), Seq(nodes))
    BY <1>2, SmallerIsOrder DEF Longer
  <1>4. ASSUME NEW path \in Seq(nodes), NEW n \in nodes
        PROVE  Append(path, n) \in Seq(nodes) /\ (Len(path) <= bound => <<Append(path, n), path>> \in Longer(nodes, bound))
    <2>1. Append(path, n) \in Seq(nodes) /\ Len(Append(path, n)) = Len(path) + 1 /\ Len(path) \in Nat
      OBVIOUS
    <2>2. Len(path) <= bound => Left(nodes, bound)[Append(path, n)] < Left(nodes, bound)[path]
      BY <1>1, <2>1 DEF Left
    <2> QED
      BY <2>1, <2>2 DEF Longer, Smaller
  <1> QED
    BY <1>3, <1>4

\* A path of distinct nodes along edges.
IsRoute(nodes, pairs, s) ==
    /\ s \in Seq(nodes)
    /\ IsInjective(s)
    /\ \A i \in 1..Len(s) - 1 : s[i + 1] \in From(pairs, s[i])

\* The paths to a node that begin like one.
RoutesLike(nodes, pairs, bound, dst, path) ==
    {s \in Seq(nodes) :
        /\ IsRoute(nodes, pairs, s) /\ Len(s) \in 2..bound + 1 /\ Len(path) <= Len(s)
        /\ \A i \in 1..Len(path) : s[i] = path[i]
        /\ s[Len(s)] = dst}

RouteBegins(nodes, pairs, bound, path) == IsRoute(nodes, pairs, path) /\ Len(path) \in 1..bound + 1

LEMMA RouteLonger ==
    ASSUME NEW nodes, NEW pairs, LeadInto(pairs, nodes), NEW bound \in Nat,
           NEW path, RouteBegins(nodes, pairs, bound, path), Len(path) <= bound,
           NEW n \in From(pairs, Last(path)), n \notin Range(path)
    PROVE  RouteBegins(nodes, pairs, bound, Append(path, n))
  <1> DEFINE s == Append(path, n)
  <1>1. /\ path \in Seq(nodes) /\ IsInjective(path) /\ Len(path) \in Nat /\ Len(path) >= 1 /\ bound \in Nat
        /\ \A i \in 1..Len(path) - 1 : path[i + 1] \in From(pairs, path[i])
    BY DEF RouteBegins, IsRoute
  <1>2. n \in nodes
    BY FromIs
  <1>3. s \in Seq(nodes) /\ Len(s) = Len(path) + 1 /\ DOMAIN s = 1..Len(path) + 1 /\ DOMAIN path = 1..Len(path)
    BY <1>1, <1>2
  <1>4. s[Len(path) + 1] = n /\ \A i \in 1..Len(path) : s[i] = path[i]
    BY <1>1, <1>2
  <1> HIDE DEF s
  <1>5. \A i \in 1..Len(path) : path[i] # n
    BY <1>3 DEF Range
  <1>6. IsInjective(s)
    <2> SUFFICES ASSUME NEW a \in 1..Len(path) + 1, NEW b \in 1..Len(path) + 1, s[a] = s[b]
                 PROVE  a = b
      BY <1>3 DEF IsInjective
    <2>1. \A i, j \in 1..Len(path) : path[i] = path[j] => i = j
      BY <1>1, <1>3 DEF IsInjective
    <2>2. (a \in 1..Len(path) \/ a = Len(path) + 1) /\ (b \in 1..Len(path) \/ b = Len(path) + 1)
      BY <1>1
    <2> QED
      BY <1>4, <1>5, <2>1, <2>2
  <1>7. ASSUME NEW i \in 1..Len(s) - 1
        PROVE  s[i + 1] \in From(pairs, s[i])
    <2>1. CASE i = Len(path)
      <3>1. s[i] = Last(path) /\ s[i + 1] = n
        BY <1>1, <1>4, <2>1 DEF Last
      <3> QED
        BY <3>1
    <2>2. CASE i # Len(path)
      <3>1. i \in 1..Len(path) - 1 /\ i \in 1..Len(path) /\ i + 1 \in 1..Len(path)
        <4>1. Len(s) = Len(path) + 1 /\ Len(path) \in Nat
          BY <1>1, <1>3
        <4>2. i \in Int /\ i >= 1 /\ i <= Len(path)
          BY <4>1
        <4> HIDE DEF s
        <4> QED
          BY <2>2, <4>1, <4>2
      <3> QED
        BY <1>1, <1>4, <3>1
    <2> QED
      BY <2>1, <2>2
  <1>8. Len(s) \in 1..bound + 1
    BY <1>1, <1>3
  <1> QED
    BY <1>3, <1>6, <1>7, <1>8 DEF RouteBegins, IsRoute, s

\* A path that begins like another is that one or goes on from it.
LEMMA RoutesLikeAre ==
    ASSUME NEW nodes, NEW pairs, LeadInto(pairs, nodes), NEW bound \in Nat,
           NEW dst, NEW path, RouteBegins(nodes, pairs, bound, path)
    PROVE  /\ Last(path) = dst /\ Len(path) > 1 => RoutesLike(nodes, pairs, bound, dst, path) = {path}
           /\ ~(Last(path) = dst /\ Len(path) > 1) /\ Len(path) > bound => RoutesLike(nodes, pairs, bound, dst, path) = {}
           /\ ~(Last(path) = dst /\ Len(path) > 1) /\ Len(path) <= bound =>
                 RoutesLike(nodes, pairs, bound, dst, path) =
                    UNION {RoutesLike(nodes, pairs, bound, dst, Append(path, n)) : n \in From(pairs, Last(path)) \ Range(path)}
  <1>1. /\ path \in Seq(nodes) /\ Len(path) \in Nat /\ Len(path) >= 1 /\ Len(path) <= bound + 1 /\ bound \in Nat
        /\ DOMAIN path = 1..Len(path) /\ Last(path) = path[Len(path)]
    BY DEF RouteBegins, IsRoute, Last
  <1>2. ASSUME NEW s \in RoutesLike(nodes, pairs, bound, dst, path)
        PROVE  /\ s \in Seq(nodes) /\ Len(s) \in Nat /\ DOMAIN s = 1..Len(s) /\ Len(s) >= 2 /\ Len(path) <= Len(s)
               /\ Len(s) <= bound + 1 /\ s[Len(s)] = dst /\ IsRoute(nodes, pairs, s)
               /\ \A i \in 1..Len(path) : s[i] = path[i]
               /\ \A i, j \in 1..Len(s) : s[i] = s[j] => i = j
               /\ \A i \in 1..Len(s) - 1 : s[i + 1] \in From(pairs, s[i])
    BY <1>1 DEF RoutesLike, IsRoute, IsInjective
  <1>3. ASSUME NEW s \in RoutesLike(nodes, pairs, bound, dst, path), Len(s) = Len(path)
        PROVE  s = path
    BY <1>1, <1>2, <1>3
  <1>4. ASSUME Last(path) = dst, Len(path) > 1
        PROVE  RoutesLike(nodes, pairs, bound, dst, path) = {path}
    <2>1. path \in RoutesLike(nodes, pairs, bound, dst, path)
      <3>1. IsRoute(nodes, pairs, path) /\ path[Len(path)] = dst /\ Len(path) <= Len(path)
        BY <1>1, <1>4 DEF RouteBegins
      <3>2. Len(path) \in 2..bound + 1
        BY <1>1, <1>4
      <3> QED
        BY <1>1, <3>1, <3>2 DEF RoutesLike
    <2>2. ASSUME NEW s \in RoutesLike(nodes, pairs, bound, dst, path)
          PROVE  s = path
      <3>1. s[Len(path)] = dst /\ s[Len(s)] = dst /\ Len(path) \in 1..Len(s) /\ Len(s) \in 1..Len(s)
        <4>1. Len(s) \in Nat /\ Len(path) <= Len(s) /\ s[Len(s)] = dst /\ \A i \in 1..Len(path) : s[i] = path[i]
          BY <1>2
        <4>2. Len(path) \in 1..Len(path) /\ Len(path) \in 1..Len(s) /\ Len(s) \in 1..Len(s)
          BY <1>1, <4>1
        <4>3. s[Len(path)] = path[Len(path)] /\ path[Len(path)] = dst
          BY <1>1, <1>4, <4>1, <4>2
        <4> QED
          BY <4>1, <4>2, <4>3
      <3>2. Len(s) = Len(path)
        BY <1>2, <3>1
      <3> QED
        BY <1>3, <3>2
    <2> QED
      BY <2>1, <2>2
  <1>5. ASSUME ~(Last(path) = dst /\ Len(path) > 1), NEW s \in RoutesLike(nodes, pairs, bound, dst, path)
        PROVE  Len(path) < Len(s)
    <2>1. SUFFICES ASSUME Len(s) = Len(path)
                   PROVE  FALSE
      BY <1>1, <1>2
    <2>2. s = path
      BY <1>3, <2>1
    <2> QED
      BY <1>1, <1>2, <1>5, <2>1, <2>2
  <1>6. ASSUME ~(Last(path) = dst /\ Len(path) > 1), Len(path) > bound
        PROVE  RoutesLike(nodes, pairs, bound, dst, path) = {}
    BY <1>1, <1>2, <1>5, <1>6
  <1>7. ASSUME ~(Last(path) = dst /\ Len(path) > 1), Len(path) <= bound
        PROVE  RoutesLike(nodes, pairs, bound, dst, path) =
                  UNION {RoutesLike(nodes, pairs, bound, dst, Append(path, n)) : n \in From(pairs, Last(path)) \ Range(path)}
    <2>1. ASSUME NEW n \in From(pairs, Last(path))
          PROVE  /\ Len(Append(path, n)) = Len(path) + 1 /\ Append(path, n)[Len(path) + 1] = n
                 /\ \A i \in 1..Len(path) : Append(path, n)[i] = path[i]
      BY <1>1, FromIs
    <2>2. ASSUME NEW n \in From(pairs, Last(path)), NEW s \in RoutesLike(nodes, pairs, bound, dst, Append(path, n))
          PROVE  s \in RoutesLike(nodes, pairs, bound, dst, path)
      <3>1. /\ s \in Seq(nodes) /\ IsRoute(nodes, pairs, s) /\ Len(s) \in 2..bound + 1 /\ Len(path) + 1 <= Len(s)
            /\ \A i \in 1..Len(path) + 1 : s[i] = Append(path, n)[i]
            /\ s[Len(s)] = dst
        BY <2>1 DEF RoutesLike
      <3>2. \A i \in 1..Len(path) : s[i] = path[i]
        BY <1>1, <2>1, <3>1
      <3>3. Len(path) <= Len(s)
        BY <1>1, <3>1
      <3> QED
        BY <3>1, <3>2, <3>3 DEF RoutesLike
    <2>3. ASSUME NEW s \in RoutesLike(nodes, pairs, bound, dst, path)
          PROVE  \E n \in From(pairs, Last(path)) \ Range(path) : s \in RoutesLike(nodes, pairs, bound, dst, Append(path, n))
      <3> DEFINE n == s[Len(path) + 1]
      <3>1. Len(path) < Len(s)
        BY <1>5, <1>7
      <3>2. Len(path) \in 1..Len(s) - 1 /\ Len(path) \in 1..Len(path) /\ Len(path) + 1 \in 1..Len(s)
        BY <1>1, <1>2, <3>1
      <3>3. n \in From(pairs, Last(path))
        BY <1>1, <1>2, <3>2
      <3>4. n \notin Range(path)
        <4>1. SUFFICES ASSUME NEW i \in 1..Len(path), path[i] = n
                       PROVE  FALSE
          BY <1>1 DEF Range
        <4>2. s[i] = s[Len(path) + 1] /\ i \in 1..Len(s) /\ i # Len(path) + 1
          BY <1>1, <1>2, <3>1, <4>1
        <4> QED
          BY <1>2, <3>2, <4>2
      <3>5. \A i \in 1..Len(path) + 1 : s[i] = Append(path, n)[i]
        <4>1. \A i \in 1..Len(path) + 1 : i \in 1..Len(path) \/ i = Len(path) + 1
          BY <1>1
        <4> QED
          BY <1>2, <2>1, <3>3, <4>1
      <3>6. Len(Append(path, n)) = Len(path) + 1 /\ Len(path) + 1 <= Len(s) /\ Len(s) \in 2..bound + 1
        BY <1>1, <1>2, <2>1, <3>1, <3>3
      <3>7. s \in RoutesLike(nodes, pairs, bound, dst, Append(path, n))
        <4> HIDE DEF n
        <4> QED
          BY <1>2, <3>5, <3>6 DEF RoutesLike
      <3> QED
        BY <3>3, <3>4, <3>7
    <2> QED
      BY <2>2, <2>3
  <1> QED
    BY <1>4, <1>6, <1>7

\* The paths from one node to another.
Routes(nodes, pairs, bound, root, dst) ==
    {s \in UNION {[1..k -> nodes] : k \in 2..bound + 1} :
        IsRoute(nodes, pairs, s) /\ s[1] = root /\ s[Len(s)] = dst}

LEMMA RoutesAre ==
    ASSUME NEW nodes, NEW pairs, NEW bound \in Nat, NEW root \in nodes, NEW dst
    PROVE  /\ RouteBegins(nodes, pairs, bound, <<root>>)
           /\ RoutesLike(nodes, pairs, bound, dst, <<root>>) = Routes(nodes, pairs, bound, root, dst)
  <1> DEFINE all == UNION {[1..k -> nodes] : k \in 2..bound + 1}
  <1>1. \A s : s \in all <=> s \in Seq(nodes) /\ Len(s) \in 2..bound + 1
    <2>1. ASSUME NEW k \in 2..bound + 1, NEW s \in [1..k -> nodes]
          PROVE  s \in Seq(nodes) /\ Len(s) \in 2..bound + 1
      <3>1. k \in Nat
        OBVIOUS
      <3> QED
        BY <3>1
    <2>2. ASSUME NEW s \in Seq(nodes), Len(s) \in 2..bound + 1
          PROVE  s \in all
      <3>1. s \in [1..Len(s) -> nodes]
        OBVIOUS
      <3> QED
        BY <2>2, <3>1
    <2> QED
      BY <2>1, <2>2
  <1> HIDE DEF all
  <1>2. RouteBegins(nodes, pairs, bound, <<root>>)
    <2>1. <<root>> \in Seq(nodes) /\ Len(<<root>>) = 1 /\ DOMAIN <<root>> = {1}
      OBVIOUS
    <2> QED
      BY <2>1 DEF RouteBegins, IsRoute, IsInjective
  <1>3. ASSUME NEW s
        PROVE  s \in RoutesLike(nodes, pairs, bound, dst, <<root>>) <=>
                  s \in all /\ IsRoute(nodes, pairs, s) /\ s[1] = root /\ s[Len(s)] = dst
    <2>1. Len(<<root>>) = 1 /\ <<root>>[1] = root /\ 1..1 = {1}
      OBVIOUS
    <2>2. s \in all => Len(<<root>>) <= Len(s) /\ ((\A i \in 1..Len(<<root>>) : s[i] = <<root>>[i]) <=> s[1] = root)
      BY <1>1, <2>1
    <2> QED
      BY <1>1, <2>2 DEF RoutesLike
  <1> QED
    BY <1>2, <1>3 DEF Routes, all

-----------------------------------------------------------------------------
(* Sequences one after another *)

LEMMA JoinedIs ==
    ASSUME NEW T, NEW a \in Seq(T), NEW b \in Seq(T)
    PROVE  a \o b \in Seq(T) /\ Range(a \o b) = Range(a) \union Range(b)
  <1>1. a \o b \in Seq(T)
    OBVIOUS
  <1>2. Range(a \o b) = Range(a) \union Range(b)
    BY RangeConcatenation
  <1> QED
    BY <1>1, <1>2

LEMMA FlattenedIs ==
    ASSUME NEW T, NEW ss \in Seq(Seq(T))
    PROVE  FlattenSeq(ss) \in Seq(T) /\ Range(FlattenSeq(ss)) = UNION {Range(ss[i]) : i \in DOMAIN ss}
  <1>1. CASE Len(ss) = 0
    <2>1. FlattenSeq(ss) = <<>> /\ ss = <<>> /\ DOMAIN ss = {}
      BY <1>1 DEF FlattenSeq
    <2> QED
      BY <2>1 DEF Range
  <1>2. CASE Len(ss) # 0
    <2> DEFINE S == 1..Len(ss)
               V == Seq(T)
               rule(f, i) == IF i = 1 THEN ss[i] ELSE f[i - 1] \o ss[i]
               F == [p \in S \X [S -> V] |-> rule(p[2], p[1])]
               id == [i \in S |-> i]
               R == Smaller(S, id, id)
               from == CHOOSE f : f = [i \in S |-> rule(f, i)]
    <2>1. FlattenSeq(ss) = from[Len(ss)]
      BY <1>2, Zenon DEF FlattenSeq
    <2>2. \A i \in S : id[i] \in Nat
      OBVIOUS
    <2>3. HasMinimal(R, S) /\ IsTransitivelyClosedOn(R, S)
      BY <2>2, SmallerIsOrder
    <2>4. ASSUME NEW i \in S, NEW f \in [S -> V]
          PROVE  rule(f, i) \in V
      <3>1. ss[i] \in V /\ (i # 1 => i - 1 \in S)
        OBVIOUS
      <3>2. i # 1 => f[i - 1] \in V
        BY <3>1
      <3> QED
        BY <3>1, <3>2
    <2>5. F \in [S \X [S -> V] -> V]
      BY <2>4
    <2>6. \A i \in S \ {1} : i - 1 \in S /\ <<i - 1, i>> \in R
      BY DEF Smaller
    <2>7. IsLocal(F, S, V, R)
      <3> SUFFICES ASSUME NEW x \in S, NEW f \in [S -> V], NEW h \in [S -> V],
                          \A y \in S : <<y, x>> \in R => f[y] = h[y]
                   PROVE  rule(f, x) = rule(h, x)
        BY DEF IsLocal
      <3> QED
        BY <2>6
    <2>8. V # {}
      OBVIOUS
    <2> HIDE DEF R, V
    <2>9. \E f \in [S -> V] : \A i \in S : f[i] = F[<<i, f>>]
      <3> HIDE DEF F, S
      <3>1. IsRule(F, S, V, R)
        BY <2>3, <2>5, <2>7, <2>8 DEF IsRule
      <3>2. Solvable(F, S, V)
        BY <3>1, Recursion
      <3> QED
        BY <3>2 DEF Solvable
    <2>10. \E f : f = [i \in S |-> rule(f, i)]
      <3>1. PICK f \in [S -> V] : \A i \in S : f[i] = F[<<i, f>>]
        BY <2>9
      <3>2. f = [i \in S |-> rule(f, i)]
        BY <3>1
      <3> QED
        BY <3>2
    <2>11. from = [i \in S |-> rule(from, i)]
      BY <2>10, Zenon
    <2> HIDE DEF from
    <2>12. \A i \in S : from[i] = rule(from, i)
      BY <2>11
    <2> DEFINE Fine(i) == from[i] \in Seq(T) /\ Range(from[i]) = UNION {Range(ss[k]) : k \in 1..i}
               Bad == {i \in S : ~Fine(i)}
    <2>13. ASSUME Bad # {}
           PROVE  FALSE
      <3>1. \A i \in Bad : i \in S /\ id[i] = i /\ id[i] \in Nat /\ ~Fine(i)
        OBVIOUS
      <3>2. \A i \in S : id[i] = i /\ (i \notin Bad => Fine(i))
        OBVIOUS
      <3> HIDE DEF Bad, id
      <3>3. PICK i \in Bad : \A j \in Bad : id[i] <= id[j]
        BY <2>13, <3>1, LeastOf
      <3>4. i \in S /\ ss[i] \in Seq(T) /\ from[i] = rule(from, i)
        BY <2>12, <3>1, <3>3
      <3>5. CASE i = 1
        <4>1. from[i] = ss[i] /\ 1..i = {i}
          BY <3>4, <3>5
        <4>2. Fine(i)
          BY <3>4, <4>1
        <4> QED
          BY <3>1, <3>3, <4>2
      <3>6. CASE i # 1
        <4>1. i - 1 \in S /\ i - 1 < i
          BY <3>4, <3>6
        <4>2. i - 1 \notin Bad
          <5>1. id[i] = i /\ id[i - 1] = i - 1 /\ ~(i <= i - 1)
            BY <3>2, <3>4, <4>1
          <5> QED
            BY <3>3, <5>1
        <4>3. Fine(i - 1)
          BY <3>2, <4>1, <4>2
        <4>4. from[i] = from[i - 1] \o ss[i]
          BY <3>4, <3>6
        <4>5. from[i] \in Seq(T) /\ Range(from[i]) = Range(from[i - 1]) \union Range(ss[i])
          BY <3>4, <4>3, <4>4, JoinedIs
        <4>6. 1..i = (1..i - 1) \union {i}
          BY <3>4, <3>6
        <4>7. UNION {Range(ss[k]) : k \in 1..i} = (UNION {Range(ss[k]) : k \in 1..i - 1}) \union Range(ss[i])
          BY <4>6
        <4>8. Fine(i)
          BY <4>3, <4>5, <4>7
        <4> QED
          BY <3>1, <3>3, <4>8
      <3> QED
        BY <3>5, <3>6
    <2>14. Len(ss) \in S /\ DOMAIN ss = S
      BY <1>2
    <2>15. Fine(Len(ss))
      <3> HIDE DEF Fine
      <3> QED
        BY <2>13, <2>14
    <2> QED
      BY <2>1, <2>14, <2>15
  <1> QED
    BY <1>1, <1>2

-----------------------------------------------------------------------------
(* What is listed once, and what has not been met *)

LEMMA ListOf ==
    ASSUME NEW T, NEW s \in Seq(T), NEW U, Range(s) \subseteq U
    PROVE  s \in Seq(U)
  <1>1. DOMAIN s = 1..Len(s) /\ Len(s) \in Nat /\ \A i \in 1..Len(s) : s[i] \in U
    BY DEF Range
  <1>2. s = [i \in 1..Len(s) |-> s[i]]
    OBVIOUS
  <1>3. \A n \in Nat : \A f : f = [i \in 1..n |-> f[i]] /\ (\A i \in 1..n : f[i] \in U) => f \in Seq(U)
    <2> SUFFICES ASSUME NEW n \in Nat, NEW f, f = [i \in 1..n |-> f[i]], \A i \in 1..n : f[i] \in U
                 PROVE  f \in Seq(U)
      OBVIOUS
    <2>1. f \in [1..n -> U]
      OBVIOUS
    <2> QED
      BY <2>1
  <1> QED
    BY <1>1, <1>2, <1>3

LEMMA FirstAndRest ==
    ASSUME NEW T, NEW s \in Seq(T), s # <<>>
    PROVE  /\ Head(s) \in T /\ Tail(s) \in Seq(T) /\ Len(Tail(s)) = Len(s) - 1 /\ Len(s) \in Nat
           /\ Range(s) = {Head(s)} \union Range(Tail(s))
  <1>1. /\ Head(s) \in T /\ Tail(s) \in Seq(T) /\ Len(Tail(s)) = Len(s) - 1 /\ Len(s) \in Nat /\ Len(s) >= 1
        /\ Head(s) = s[1] /\ DOMAIN s = 1..Len(s)
    OBVIOUS
  <1>2. DOMAIN Tail(s) = 1..Len(s) - 1 /\ \A i \in 1..Len(s) - 1 : Tail(s)[i] = s[i + 1]
    BY <1>1
  <1>3. \A i \in 2..Len(s) : i - 1 \in 1..Len(s) - 1 /\ s[i] = Tail(s)[i - 1]
    <2> DEFINE n == Len(s)
    <2>1. n \in Nat /\ \A i \in 1..n - 1 : Tail(s)[i] = s[i + 1]
      BY <1>1, <1>2
    <2> HIDE DEF n
    <2>2. \A i \in 2..n : i - 1 \in 1..n - 1 /\ (i - 1) + 1 = i
      BY <2>1
    <2>3. \A i \in 2..n : i - 1 \in 1..n - 1 /\ s[i] = Tail(s)[i - 1]
      BY <2>1, <2>2
    <2> QED
      BY <2>3 DEF n
  <1>4. \A i \in 1..Len(s) : i = 1 \/ i \in 2..Len(s)
    BY <1>1
  <1>5. \A i \in 1..Len(s) - 1 : i + 1 \in 1..Len(s)
    BY <1>1
  <1>6. ASSUME NEW x \in Range(s)
        PROVE  x \in {Head(s)} \union Range(Tail(s))
    <2>1. PICK i \in 1..Len(s) : s[i] = x
      BY <1>1 DEF Range
    <2>2. CASE i = 1
      BY <1>1, <2>1, <2>2
    <2>3. CASE i \in 2..Len(s)
      BY <1>2, <1>3, <2>1, <2>3 DEF Range
    <2> QED
      BY <1>4, <2>2, <2>3
  <1>7. Range(Tail(s)) \subseteq Range(s)
    BY <1>1, <1>2, <1>5 DEF Range
  <1>8. Head(s) \in Range(s)
    BY <1>1 DEF Range
  <1> QED
    BY <1>1, <1>6, <1>7, <1>8

LEMMA OnceIs ==
    ASSUME NEW T, NEW s \in Seq(T)
    PROVE  Once(s) \in Seq(T) /\ Range(Once(s)) = Range(s) /\ IsInjective(Once(s))
  <1> DEFINE places == {i \in DOMAIN s : \A k \in DOMAIN s : k < i => s[k] # s[i]}
             id == [i \in DOMAIN s |-> i]
  <1>1. DOMAIN s = 1..Len(s) /\ Len(s) \in Nat
    OBVIOUS
  <1>2. AreDistinct(s, places)
    <2> SUFFICES ASSUME NEW i \in places, NEW k \in places, s[i] = s[k]
                 PROVE  i = k
      BY DEF AreDistinct
    <2>1. i \in Int /\ k \in Int /\ ~(i < k) /\ ~(k < i)
      BY <1>1
    <2> QED
      BY <2>1
  <1>3. ASSUME NEW i \in DOMAIN s
        PROVE  \E k \in places : s[k] = s[i]
    <2> DEFINE same == {k \in DOMAIN s : s[k] = s[i]}
    <2>1. same # {} /\ \A k \in same : id[k] \in Nat
      BY <1>1
    <2>2. PICK k \in same : \A j \in same : id[k] <= id[j]
      <3> HIDE DEF same, id
      <3> QED
        BY <2>1, LeastOf
    <2>3. k \in DOMAIN s /\ s[k] = s[i] /\ \A j \in DOMAIN s : j < k => s[j] # s[k]
      <3>1. \A j \in DOMAIN s : s[j] = s[k] => k <= j
        BY <2>2
      <3> QED
        BY <1>1, <2>2, <3>1
    <2> QED
      BY <2>3
  <1>4. Once(s) = Picked(s, places)
    BY DEF Once
  <1>5. {s[i] : i \in DOMAIN s \intersect places} = Range(s)
    BY <1>3 DEF Range
  <1> HIDE DEF places
  <1>6. /\ Picked(s, places) \in Seq(T) /\ Range(Picked(s, places)) = {s[i] : i \in DOMAIN s \intersect places}
        /\ AreDistinct(s, places) => IsInjective(Picked(s, places))
    BY PickedIs
  <1> QED
    BY <1>2, <1>4, <1>5, <1>6

\* The pairs that do not lead into visited.
Avoiding(pairs, visited) == {p \in pairs : p[2] \notin visited}

\* What is still to be met from ids.
Unmet(pairs, ids, visited) == Downstream(Avoiding(pairs, visited), ids \ visited)

Also(s, n) == s \union {n}
Both(s, t) == s \union t

LEMMA UnmetIs ==
    ASSUME NEW pairs, NEW ids, NEW visited
    PROVE  /\ ids \ visited \subseteq Unmet(pairs, ids, visited)
           /\ IsClosed(Avoiding(pairs, visited), Unmet(pairs, ids, visited))
           /\ \A s : (ids \ visited \subseteq s /\ IsClosed(Avoiding(pairs, visited), s)) => Unmet(pairs, ids, visited) \subseteq s
  BY DownstreamIs DEF Unmet

LEMMA MeetingOne ==
    ASSUME NEW pairs, NEW rest, NEW visited, NEW n, n \notin visited
    PROVE  Unmet(pairs, Also(rest, n), visited) = Also(Unmet(pairs, Both(From(pairs, n), rest), Also(visited, n)), n)
  <1> DEFINE ids  == Also(rest, n)
             next == Both(From(pairs, n), rest)
             met  == Also(visited, n)
             A == Unmet(pairs, ids, visited)
             B == Unmet(pairs, next, met)
  <1>0. ids = {n} \union rest /\ next = From(pairs, n) \union rest /\ met = visited \union {n}
    BY DEF Also, Both
  <1> HIDE DEF ids, next, met
  <1>1. /\ ids \ visited \subseteq A /\ IsClosed(Avoiding(pairs, visited), A)
        /\ \A s : (ids \ visited \subseteq s /\ IsClosed(Avoiding(pairs, visited), s)) => A \subseteq s
    BY UnmetIs, Zenon
  <1>2. /\ next \ met \subseteq B /\ IsClosed(Avoiding(pairs, met), B)
        /\ \A s : (next \ met \subseteq s /\ IsClosed(Avoiding(pairs, met), s)) => B \subseteq s
    BY UnmetIs, Zenon
  <1> HIDE DEF A, B
  <1>3. IsClosed(Avoiding(pairs, visited), {n} \union B)
    <2> SUFFICES ASSUME NEW p \in pairs, p[2] \notin visited, p[1] = n \/ p[1] \in B, p[2] # n
                 PROVE  p[2] \in B
      BY DEF IsClosed, Avoiding
    <2>1. CASE p[1] = n
      BY <1>0, <1>2, <2>1 DEF From
    <2>2. CASE p[1] \in B
      BY <1>0, <1>2, <2>2 DEF IsClosed, Avoiding
    <2> QED
      BY <2>1, <2>2
  <1>4. A \subseteq {n} \union B
    BY <1>0, <1>1, <1>2, <1>3
  <1>5. n \in A
    BY <1>0, <1>1
  <1>6. From(pairs, n) \ visited \subseteq A
    BY <1>1, <1>5 DEF From, IsClosed, Avoiding
  <1>7. IsClosed(Avoiding(pairs, met), A)
    BY <1>0, <1>1 DEF IsClosed, Avoiding
  <1>8. B \subseteq A
    BY <1>0, <1>1, <1>2, <1>6, <1>7
  <1>9. A = B \union {n}
    BY <1>4, <1>5, <1>8
  <1> QED
    BY <1>9 DEF A, B, ids, next, met, Also

LEMMA MeetingNone ==
    ASSUME NEW pairs, NEW visited
    PROVE  Unmet(pairs, {}, visited) = {}
  <1>1. IsClosed(Avoiding(pairs, visited), {})
    BY DEF IsClosed
  <1>2. {} \ visited = {}
    OBVIOUS
  <1> QED
    BY <1>1, <1>2, DownstreamIs DEF Unmet

\* What lies one step below what one node leads to is what its next nodes lead to.
LEMMA BelowIs ==
    ASSUME NEW pairs, NEW n
    PROVE  /\ Ahead(pairs, Downstream(pairs, {n})) = Downstream(pairs, From(pairs, n))
           /\ Downstream(pairs, {n}) = {n} \union Downstream(pairs, From(pairs, n))
  <1> DEFINE D == Downstream(pairs, {n})
             B == Downstream(pairs, From(pairs, n))
  <1>1. {n} \subseteq D /\ IsClosed(pairs, D) /\ \A s : {n} \subseteq s /\ IsClosed(pairs, s) => D \subseteq s
    BY DownstreamIs
  <1>2. From(pairs, n) \subseteq B /\ IsClosed(pairs, B) /\ \A s : From(pairs, n) \subseteq s /\ IsClosed(pairs, s) => B \subseteq s
    BY DownstreamIs
  <1> HIDE DEF D, B
  <1>3. From(pairs, n) \subseteq D
    BY <1>1 DEF From, IsClosed
  <1>4. B \subseteq D
    BY <1>1, <1>2, <1>3
  <1>5. IsClosed(pairs, {n} \union B)
    BY <1>2 DEF IsClosed, From
  <1>6. D = {n} \union B
    BY <1>1, <1>4, <1>5
  <1>7. \A s : Ahead(pairs, s) = {p[2] : p \in {p \in pairs : p[1] \in s}}
    BY DEF Ahead
  <1>8. Ahead(pairs, D) \subseteq B
    BY <1>2, <1>6, <1>7 DEF From, IsClosed
  <1>9. From(pairs, n) \subseteq Ahead(pairs, D)
    BY <1>1, <1>7 DEF From
  <1>10. IsClosed(pairs, Ahead(pairs, D))
    BY <1>4, <1>7, <1>8 DEF IsClosed
  <1> QED
    BY <1>2, <1>6, <1>8, <1>9, <1>10 DEF D, B

-----------------------------------------------------------------------------
(* Searches that go to nothing twice *)

\* The pairs that kids stands for.
Leads(kids) == {p \in (DOMAIN kids) \X (DOMAIN kids) : p[2] \in Range(kids[p[1]])}

IsKids(kids) == IsFiniteSet(DOMAIN kids) /\ kids \in [DOMAIN kids -> Seq(DOMAIN kids)]

\* The chains, none of them empty, and where they end.
ChainsIn(kids) == Seq(DOMAIN kids) \ {<<>>}
Ends(chains) == {Last(c) : c \in Range(chains)}

\* A chain along the pairs.
Linked(pairs, c) == \A i \in 1..Len(c) - 1 : <<c[i], c[i + 1]>> \in pairs

Searches(kids) == [ahead : Seq(ChainsIn(kids)), visited : SUBSET (DOMAIN kids)]

\* What is looked at from the end of a chain, and what is left then.
ChainsOn(kids, c) == [i \in DOMAIN kids[Last(c)] |-> Append(c, kids[Last(c)][i])]
Skipping(a) == [ahead |-> Tail(a.ahead), visited |-> a.visited]
Going(kids, a) ==
    [ahead |-> ChainsOn(kids, Head(a.ahead)) \o Tail(a.ahead), visited |-> a.visited \union {Last(Head(a.ahead))}]

AlongRule(kids, f, a) ==
    IF a.ahead = <<>> THEN <<>>
    ELSE IF Last(Head(a.ahead)) \in a.visited THEN f[Skipping(a)]
    ELSE <<Head(a.ahead)>> \o f[Going(kids, a)]

AlongFrom(kids) == CHOOSE f : f = [a \in Searches(kids) |-> AlongRule(kids, f, a)]

Unvisited(kids) == [a \in Searches(kids) |-> Cardinality((DOMAIN kids) \ a.visited)]
ToLookAt(kids) == [a \in Searches(kids) |-> Len(a.ahead)]
SearchOrder(kids) == Smaller(Searches(kids), Unvisited(kids), ToLookAt(kids))

LEMMA LastIs ==
    ASSUME NEW T, NEW c \in Seq(T), c # <<>>
    PROVE  Last(c) \in T /\ Last(c) = c[Len(c)] /\ Len(c) \in 1..Len(c) /\ Len(c) \in Nat
  BY DEF Last

LEMMA ChainsOnAre ==
    ASSUME NEW kids, IsKids(kids), NEW c \in ChainsIn(kids)
    PROVE  /\ ChainsOn(kids, c) \in Seq(ChainsIn(kids))
           /\ Ends(ChainsOn(kids, c)) = From(Leads(kids), Last(c))
           /\ Linked(Leads(kids), c) => \A d \in Range(ChainsOn(kids, c)) : Linked(Leads(kids), d)
  <1> DEFINE N == DOMAIN kids
             n == Last(c)
             s == kids[n]
             on == ChainsOn(kids, c)
  <1>1. c \in Seq(N) /\ c # <<>> /\ Len(c) \in Nat /\ Len(c) >= 1 /\ n \in N /\ n = c[Len(c)]
    BY LastIs DEF ChainsIn
  <1>2. s \in Seq(N) /\ DOMAIN s = 1..Len(s) /\ Len(s) \in Nat
    BY <1>1 DEF IsKids
  <1>3. DOMAIN on = DOMAIN s /\ \A i \in DOMAIN s : on[i] = Append(c, s[i])
    BY DEF ChainsOn
  <1>4. ASSUME NEW x \in N
        PROVE  /\ Append(c, x) \in ChainsIn(kids) /\ Last(Append(c, x)) = x
               /\ Len(Append(c, x)) = Len(c) + 1 /\ Append(c, x)[Len(c) + 1] = x /\ \A i \in 1..Len(c) : Append(c, x)[i] = c[i]
    <2>1. /\ Append(c, x) \in Seq(N) /\ Len(Append(c, x)) = Len(c) + 1 /\ Append(c, x)[Len(c) + 1] = x
          /\ \A i \in 1..Len(c) : Append(c, x)[i] = c[i]
      BY <1>1
    <2>2. Append(c, x) # <<>>
      BY <1>1, <2>1
    <2> QED
      BY <2>1, <2>2 DEF ChainsIn, Last
  <1>5. on \in Seq(ChainsIn(kids))
    <2>1. \A i \in 1..Len(s) : s[i] \in N
      BY <1>2
    <2>2. on = [i \in 1..Len(s) |-> Append(c, s[i])]
      BY <1>2 DEF ChainsOn
    <2>3. \A i \in 1..Len(s) : Append(c, s[i]) \in ChainsIn(kids)
      BY <1>4, <2>1
    <2> HIDE DEF s, on
    <2>4. on \in [1..Len(s) -> ChainsIn(kids)]
      BY <2>2, <2>3
    <2> QED
      BY <1>2, <2>4
  <1>6. Range(on) = {Append(c, x) : x \in Range(s)} /\ Range(s) \subseteq N
    <2>1. Range(s) \subseteq N
      <3>1. \A i \in 1..Len(s) : s[i] \in N
        BY <1>2
      <3> HIDE DEF s
      <3> QED
        BY <1>2, <3>1 DEF Range
    <2> HIDE DEF s, on
    <2>2. Range(on) = {on[i] : i \in DOMAIN s} /\ Range(s) = {s[i] : i \in DOMAIN s}
      BY <1>3 DEF Range
    <2>3. \A d \in Range(on) : \E x \in Range(s) : d = Append(c, x)
      BY <1>3, <2>2
    <2>4. \A x \in Range(s) : Append(c, x) \in Range(on)
      BY <1>3, <2>2
    <2> QED
      BY <2>1, <2>3, <2>4
  <1>7. From(Leads(kids), n) = Range(s)
    <2>1. \A x \in N : <<n, x>> \in Leads(kids) <=> x \in Range(s)
      BY <1>1 DEF Leads
    <2>2. \A p \in Leads(kids) : p = <<p[1], p[2]>> /\ p[2] \in N
      BY DEF Leads
    <2> QED
      BY <1>6, <2>1, <2>2 DEF From
  <1> HIDE DEF s, on
  <1>8. Ends(on) = Range(s)
    <2>1. \A x \in Range(s) : Last(Append(c, x)) = x
      BY <1>4, <1>6
    <2>2. Ends(on) = {Last(d) : d \in Range(on)}
      BY DEF Ends
    <2> QED
      <3>1. \A y \in Ends(on) : y \in Range(s)
        BY <1>6, <2>1, <2>2
      <3>2. \A x \in Range(s) : \E d \in Range(on) : Last(d) = x
        BY <1>6, <2>1
      <3>3. \A x \in Range(s) : x \in Ends(on)
        BY <2>2, <3>2
      <3> QED
        BY <3>1, <3>3
  <1>9. ASSUME Linked(Leads(kids), c), NEW x \in Range(s)
        PROVE  Linked(Leads(kids), Append(c, x))
    <2> DEFINE d == Append(c, x)
    <2>1. x \in N /\ Len(d) = Len(c) + 1 /\ d[Len(c) + 1] = x /\ \A i \in 1..Len(c) : d[i] = c[i]
      BY <1>4, <1>6
    <2>2. <<n, x>> \in Leads(kids)
      BY <1>1, <1>6 DEF Leads, s
    <2> HIDE DEF d
    <2> SUFFICES ASSUME NEW i \in 1..Len(d) - 1
                 PROVE  <<d[i], d[i + 1]>> \in Leads(kids)
      BY DEF Linked, d
    <2>3. CASE i = Len(c)
      <3>1. d[i] = n /\ d[i + 1] = x
        BY <1>1, <2>1, <2>3
      <3> QED
        BY <2>2, <3>1
    <2>4. CASE i # Len(c)
      <3>1. i \in 1..Len(c) - 1 /\ i \in 1..Len(c) /\ i + 1 \in 1..Len(c)
        BY <1>1, <2>1, <2>4
      <3>2. <<c[i], c[i + 1]>> \in Leads(kids)
        BY <1>9, <3>1 DEF Linked
      <3> QED
        BY <2>1, <3>1, <3>2
    <2> QED
      BY <2>3, <2>4
  <1> QED
    BY <1>5, <1>6, <1>7, <1>8, <1>9 DEF on

\* What a search does at one of its places.
LEMMA SearchGoesOn ==
    ASSUME NEW kids, IsKids(kids), NEW a \in Searches(kids), a.ahead # <<>>
    PROVE  /\ Head(a.ahead) \in ChainsIn(kids) /\ Last(Head(a.ahead)) \in DOMAIN kids
           /\ Range(a.ahead) = {Head(a.ahead)} \union Range(Tail(a.ahead))
           /\ Ends(a.ahead) = {Last(Head(a.ahead))} \union Ends(Tail(a.ahead))
           /\ Skipping(a) \in Searches(kids) /\ <<Skipping(a), a>> \in SearchOrder(kids)
           /\ Going(kids, a) \in Searches(kids)
           /\ Range(Going(kids, a).ahead) = Range(ChainsOn(kids, Head(a.ahead))) \union Range(Tail(a.ahead))
           /\ Ends(Going(kids, a).ahead) = From(Leads(kids), Last(Head(a.ahead))) \union Ends(Tail(a.ahead))
           /\ Last(Head(a.ahead)) \notin a.visited => <<Going(kids, a), a>> \in SearchOrder(kids)
  <1> DEFINE c == Head(a.ahead)
             rest == Tail(a.ahead)
             n == Last(c)
             N == DOMAIN kids
             skip == Skipping(a)
             go == Going(kids, a)
  <1>1. a.ahead \in Seq(ChainsIn(kids)) /\ a.visited \subseteq N
    BY DEF Searches
  <1>2. /\ c \in ChainsIn(kids) /\ rest \in Seq(ChainsIn(kids)) /\ Len(rest) = Len(a.ahead) - 1 /\ Len(a.ahead) \in Nat
        /\ Range(a.ahead) = {c} \union Range(rest)
    BY <1>1, FirstAndRest
  <1>3. n \in N
    <2>1. c \in Seq(N) /\ c # <<>>
      BY <1>2 DEF ChainsIn
    <2> QED
      BY <2>1, LastIs
  <1> HIDE DEF c, rest
  <1>4. ChainsOn(kids, c) \in Seq(ChainsIn(kids)) /\ Ends(ChainsOn(kids, c)) = From(Leads(kids), n)
    BY <1>2, ChainsOnAre
  <1>5. ChainsOn(kids, c) \o rest \in Seq(ChainsIn(kids)) /\ Range(ChainsOn(kids, c) \o rest) = Range(ChainsOn(kids, c)) \union Range(rest)
    BY <1>2, <1>4, JoinedIs
  <1>6. skip = [ahead |-> rest, visited |-> a.visited]
    BY DEF Skipping, rest
  <1>7. go = [ahead |-> ChainsOn(kids, c) \o rest, visited |-> a.visited \union {n}]
    BY DEF Going, rest, c
  <1> HIDE DEF skip, go, n
  <1>8. skip \in Searches(kids) /\ skip.visited = a.visited /\ skip.ahead = rest
    BY <1>1, <1>2, <1>6 DEF Searches
  <1>9. go \in Searches(kids) /\ go.visited = a.visited \union {n} /\ go.ahead = ChainsOn(kids, c) \o rest
    BY <1>1, <1>3, <1>5, <1>7 DEF Searches
  <1>10. \A b \in Searches(kids) : Unvisited(kids)[b] = Cardinality(N \ b.visited) /\ ToLookAt(kids)[b] = Len(b.ahead)
    BY DEF Unvisited, ToLookAt
  <1>11. Len(rest) < Len(a.ahead)
    BY <1>2
  <1>12. <<skip, a>> \in SearchOrder(kids)
    BY <1>8, <1>10, <1>11 DEF SearchOrder, Smaller
  <1>13. ASSUME n \notin a.visited
         PROVE  <<go, a>> \in SearchOrder(kids)
    <2> DEFINE few == N \ (a.visited \union {n})
    <2>1. IsFiniteSet(N) /\ IsFiniteSet(few)
      BY FS_Subset DEF IsKids
    <2>2. n \notin few /\ N \ a.visited = few \union {n}
      BY <1>3, <1>13
    <2> HIDE DEF few
    <2>3. Cardinality(few) \in Nat /\ Cardinality(few \union {n}) = Cardinality(few) + 1
      BY <2>1, <2>2, FS_AddElement, FS_CardinalityType
    <2>4. Unvisited(kids)[go] = Cardinality(few) /\ Unvisited(kids)[a] = Cardinality(few) + 1
      BY <1>9, <1>10, <2>2, <2>3 DEF few
    <2>5. Unvisited(kids)[go] < Unvisited(kids)[a]
      BY <2>3, <2>4
    <2> QED
      BY <1>9, <2>5 DEF SearchOrder, Smaller
  <1>14. Ends(a.ahead) = {n} \union Ends(rest)
    BY <1>2 DEF Ends, n
  <1>15. Ends(go.ahead) = Ends(ChainsOn(kids, c)) \union Ends(rest)
    BY <1>5, <1>9 DEF Ends
  <1> QED
    BY <1>2, <1>3, <1>4, <1>5, <1>8, <1>9, <1>12, <1>13, <1>14, <1>15 DEF c, rest, n, skip, go

LEMMA SearchOrderIsOrder ==
    ASSUME NEW kids, IsKids(kids)
    PROVE  HasMinimal(SearchOrder(kids), Searches(kids)) /\ IsTransitivelyClosedOn(SearchOrder(kids), Searches(kids))
  <1>1. ASSUME NEW a \in Searches(kids)
        PROVE  Unvisited(kids)[a] \in Nat /\ ToLookAt(kids)[a] \in Nat
    <2>1. IsFiniteSet((DOMAIN kids) \ a.visited)
      BY FS_Subset DEF IsKids
    <2>2. Len(a.ahead) \in Nat
      BY DEF Searches
    <2> QED
      BY <2>1, <2>2, FS_CardinalityType DEF Unvisited, ToLookAt
  <1> QED
    BY <1>1, SmallerIsOrder DEF SearchOrder

LEMMA AlongIsComputed ==
    ASSUME NEW kids, IsKids(kids)
    PROVE  \A a \in Searches(kids) : AlongFrom(kids)[a] = AlongRule(kids, AlongFrom(kids), a)
  <1> DEFINE S == Searches(kids)
             V == Seq(ChainsIn(kids))
             F == [p \in S \X [S -> V] |-> AlongRule(kids, p[2], p[1])]
             R == SearchOrder(kids)
             along == CHOOSE f : f = [a \in S |-> AlongRule(kids, f, a)]
  <1>1. AlongFrom(kids) = along
    BY DEF AlongFrom
  <1>2. ASSUME NEW a \in S, a.ahead # <<>>
        PROVE  /\ Skipping(a) \in S /\ <<Skipping(a), a>> \in R /\ Going(kids, a) \in S /\ Head(a.ahead) \in ChainsIn(kids)
               /\ Last(Head(a.ahead)) \notin a.visited => <<Going(kids, a), a>> \in R
    BY <1>2, SearchGoesOn
  <1>3. ASSUME NEW a \in S, NEW f \in [S -> V]
        PROVE  AlongRule(kids, f, a) \in V
    <2>1. CASE a.ahead = <<>>
      BY <2>1 DEF AlongRule
    <2>2. CASE a.ahead # <<>>
      <3>1. f[Skipping(a)] \in V /\ f[Going(kids, a)] \in V /\ Head(a.ahead) \in ChainsIn(kids)
        BY <1>2, <2>2
      <3>2. <<Head(a.ahead)>> \o f[Going(kids, a)] \in V
        BY <3>1
      <3> QED
        BY <2>2, <3>1, <3>2 DEF AlongRule
    <2> QED
      BY <2>1, <2>2
  <1>4. F \in [S \X [S -> V] -> V]
    BY <1>3
  <1>5. IsLocal(F, S, V, R)
    <2> SUFFICES ASSUME NEW x \in S, NEW f \in [S -> V], NEW h \in [S -> V],
                        \A y \in S : <<y, x>> \in R => f[y] = h[y]
                 PROVE  AlongRule(kids, f, x) = AlongRule(kids, h, x)
      BY DEF IsLocal
    <2>1. CASE x.ahead = <<>>
      BY <2>1 DEF AlongRule
    <2>2. CASE x.ahead # <<>>
      <3>1. f[Skipping(x)] = h[Skipping(x)] /\ (Last(Head(x.ahead)) \notin x.visited => f[Going(kids, x)] = h[Going(kids, x)])
        BY <1>2, <2>2
      <3> QED
        BY <2>2, <3>1 DEF AlongRule
    <2> QED
      BY <2>1, <2>2
  <1>6. HasMinimal(R, S) /\ IsTransitivelyClosedOn(R, S) /\ V # {}
    <2>1. <<>> \in V
      OBVIOUS
    <2>2. HasMinimal(R, S) /\ IsTransitivelyClosedOn(R, S)
      BY SearchOrderIsOrder
    <2> HIDE DEF V
    <2> QED
      BY <2>1, <2>2
  <1>7. \E f \in [S -> V] : \A a \in S : f[a] = F[<<a, f>>]
    <2> HIDE DEF F, S, V, R
    <2>1. IsRule(F, S, V, R)
      BY <1>4, <1>5, <1>6 DEF IsRule
    <2>2. Solvable(F, S, V)
      BY <2>1, Recursion
    <2> QED
      BY <2>2 DEF Solvable
  <1>8. \E f : f = [a \in S |-> AlongRule(kids, f, a)]
    <2>1. PICK f \in [S -> V] : \A a \in S : f[a] = F[<<a, f>>]
      BY <1>7
    <2>2. \A a \in S : F[<<a, f>>] = AlongRule(kids, f, a)
      BY <2>1
    <2> HIDE DEF F, S, V
    <2>3. f = [a \in S |-> AlongRule(kids, f, a)]
      BY <2>1, <2>2
    <2> QED
      BY <2>3
  <1>9. along = [a \in S |-> AlongRule(kids, along, a)]
    BY <1>8, Zenon
  <1> HIDE DEF along
  <1> QED
    BY <1>1, <1>9

\* What a search finds from one of its places: chains to exactly what is still to
\* be met from there, along the pairs if it came along them.
AlongFine(kids, a) ==
    LET found == AlongFrom(kids)[a] IN
    /\ found \in Seq(ChainsIn(kids))
    /\ Ends(found) = Unmet(Leads(kids), Ends(a.ahead), a.visited)
    /\ (\A c \in Range(a.ahead) : Linked(Leads(kids), c)) => \A c \in Range(found) : Linked(Leads(kids), c)

LEMMA AlongFinds ==
    ASSUME NEW kids, IsKids(kids), NEW start \in Searches(kids)
    PROVE  AlongFine(kids, start)
  <1> DEFINE S == Searches(kids)
             R == SearchOrder(kids)
             Fine(a) == AlongFine(kids, a)
             Bad == {a \in S : ~Fine(a)}
             along == AlongFrom(kids)
             pairs == Leads(kids)
             linked(s) == \A c \in Range(s) : Linked(pairs, c)
  <1>1. SUFFICES ASSUME Bad # {}
                 PROVE  FALSE
    OBVIOUS
  <1>2. PICK a \in Bad : \A other \in Bad : <<other, a>> \notin R
    <2>1. Bad \in SUBSET S
      OBVIOUS
    <2>2. HasMinimal(R, S)
      BY SearchOrderIsOrder
    <2> HIDE DEF Bad, R, S
    <2> QED
      BY <1>1, <2>1, <2>2 DEF HasMinimal
  <1>3. a \in S /\ ~Fine(a) /\ \A other \in S : <<other, a>> \in R => Fine(other)
    BY <1>2
  <1> HIDE DEF Bad
  <1>4. along[a] = AlongRule(kids, along, a)
    BY <1>3, AlongIsComputed
  <1>5. ASSUME NEW b \in S, Fine(b)
        PROVE  along[b] \in Seq(ChainsIn(kids)) /\ Ends(along[b]) = Unmet(pairs, Ends(b.ahead), b.visited) /\ (linked(b.ahead) => linked(along[b]))
    BY <1>5 DEF AlongFine
  <1>6. ~(along[a] \in Seq(ChainsIn(kids)) /\ Ends(along[a]) = Unmet(pairs, Ends(a.ahead), a.visited) /\ (linked(a.ahead) => linked(along[a])))
    BY <1>3 DEF AlongFine
  <1>7. Range(<<>>) = {} /\ Ends(<<>>) = {} /\ linked(<<>>)
    BY DEF Range, Ends
  <1> HIDE DEF along, Fine
  <1>8. CASE a.ahead = <<>>
    <2>1. along[a] = <<>>
      BY <1>4, <1>8 DEF AlongRule
    <2>2. Unmet(pairs, Ends(a.ahead), a.visited) = {}
      BY <1>7, <1>8, MeetingNone
    <2> QED
      BY <1>6, <1>7, <2>1, <2>2
  <1>9. CASE a.ahead # <<>>
    <2> DEFINE c == Head(a.ahead)
               n == Last(c)
               rest == Tail(a.ahead)
               skip == Skipping(a)
               go == Going(kids, a)
    <2>1. /\ c \in ChainsIn(kids) /\ Range(a.ahead) = {c} \union Range(rest) /\ Ends(a.ahead) = {n} \union Ends(rest)
          /\ skip \in S /\ <<skip, a>> \in R /\ go \in S
          /\ Range(go.ahead) = Range(ChainsOn(kids, c)) \union Range(rest)
          /\ Ends(go.ahead) = From(pairs, n) \union Ends(rest)
          /\ n \notin a.visited => <<go, a>> \in R
      BY <1>3, <1>9, SearchGoesOn
    <2>2. skip.ahead = rest /\ skip.visited = a.visited /\ go.visited = a.visited \union {n}
      BY DEF Skipping, Going
    <2>3. along[a] = IF n \in a.visited THEN along[skip] ELSE <<c>> \o along[go]
      BY <1>4, <1>9 DEF AlongRule
    <2>4. Linked(pairs, c) => \A d \in Range(ChainsOn(kids, c)) : Linked(pairs, d)
      BY <2>1, ChainsOnAre
    <2> HIDE DEF skip, go, n, rest, c, pairs
    <2>5. CASE n \in a.visited
      <3>1. /\ along[skip] \in Seq(ChainsIn(kids)) /\ Ends(along[skip]) = Unmet(pairs, Ends(rest), a.visited)
            /\ linked(rest) => linked(along[skip])
        BY <1>3, <1>5, <2>1, <2>2
      <3>2. ({n} \union Ends(rest)) \ a.visited = Ends(rest) \ a.visited
        BY <2>5
      <3>3. Unmet(pairs, {n} \union Ends(rest), a.visited) = Unmet(pairs, Ends(rest), a.visited)
        BY <3>2, Zenon DEF Unmet
      <3>4. linked(a.ahead) => linked(rest)
        BY <2>1
      <3> QED
        BY <1>6, <2>1, <2>3, <2>5, <3>1, <3>3, <3>4
    <2>6. CASE n \notin a.visited
      <3>1. /\ along[go] \in Seq(ChainsIn(kids)) /\ Ends(along[go]) = Unmet(pairs, From(pairs, n) \union Ends(rest), a.visited \union {n})
            /\ linked(go.ahead) => linked(along[go])
        BY <1>3, <1>5, <2>1, <2>2, <2>6
      <3>2. Unmet(pairs, {n} \union Ends(rest), a.visited) = {n} \union Ends(along[go])
        <4> DEFINE others == Ends(rest)
                   met == a.visited
        <4>1. n \notin met
          BY <2>6
        <4> HIDE DEF others, met
        <4>2. Unmet(pairs, Also(others, n), met) = Also(Unmet(pairs, Both(From(pairs, n), others), Also(met, n)), n)
          BY <4>1, MeetingOne
        <4>3. Unmet(pairs, {n} \union others, met) = {n} \union Unmet(pairs, From(pairs, n) \union others, met \union {n})
          <5>1. Also(others, n) = {n} \union others
            BY DEF Also
          <5> QED
            BY <4>2, <5>1 DEF Also, Both
        <4> QED
          BY <3>1, <4>3 DEF others, met
      <3>3. along[a] = <<c>> \o along[go]
        BY <2>3, <2>6
      <3>4. along[a] \in Seq(ChainsIn(kids)) /\ Range(along[a]) = {c} \union Range(along[go])
        <4>1. <<c>> \in Seq(ChainsIn(kids)) /\ Range(<<c>>) = {c}
          BY <2>1 DEF Range
        <4> DEFINE first == <<c>>
                   others == along[go]
                   T == ChainsIn(kids)
        <4>2. first \in Seq(T) /\ others \in Seq(T) /\ Range(first) = {c} /\ along[a] = first \o others
          BY <3>1, <3>3, <4>1
        <4> HIDE DEF first, others, T
        <4>3. first \o others \in Seq(T) /\ Range(first \o others) = Range(first) \union Range(others)
          BY <4>2, JoinedIs
        <4> QED
          BY <4>2, <4>3 DEF others, T
      <3>5. Ends(along[a]) = {n} \union Ends(along[go])
        BY <3>4 DEF Ends, n
      <3>6. linked(a.ahead) => linked(along[a])
        BY <2>1, <2>4, <3>1, <3>4
      <3> QED
        BY <1>6, <2>1, <3>2, <3>4, <3>5, <3>6
    <2> QED
      BY <2>5, <2>6
  <1> QED
    BY <1>8, <1>9

\* Chains goes along the pairs, and to exactly what they lead to.
LEMMA ChainsAre ==
    ASSUME NEW kids, IsKids(kids), NEW start \in DOMAIN kids
    PROVE  /\ Chains(kids, start) \in Seq(ChainsIn(kids))
           /\ Ends(Chains(kids, start)) = Downstream(Leads(kids), {start})
           /\ \A c \in Range(Chains(kids, start)) : Linked(Leads(kids), c)
  <1> DEFINE a == [ahead |-> <<<<start>>>>, visited |-> {}]
  <1>1. Chains(kids, start) = AlongFrom(kids)[a]
    BY Zenon DEF Chains, AlongFrom, AlongRule, Searches, ChainsIn, ChainsOn, Skipping, Going
  <1>2. <<start>> \in ChainsIn(kids) /\ Last(<<start>>) = start
    <2>1. <<start>> \in Seq(DOMAIN kids) /\ Len(<<start>>) = 1 /\ <<start>> # <<>>
      OBVIOUS
    <2> QED
      BY <2>1 DEF ChainsIn, Last
  <1>3. <<<<start>>>> \in Seq(ChainsIn(kids)) /\ Range(<<<<start>>>>) = {<<start>>}
    BY <1>2 DEF Range
  <1>4. a \in Searches(kids) /\ a.ahead = <<<<start>>>> /\ a.visited = {}
    BY <1>3 DEF Searches
  <1> HIDE DEF a
  <1>5. AlongFine(kids, a)
    BY <1>4, AlongFinds
  <1>6. Ends(a.ahead) = {start}
    BY <1>2, <1>3, <1>4 DEF Ends
  <1>7. Unmet(Leads(kids), {start}, {}) = Downstream(Leads(kids), {start})
    <2>1. Avoiding(Leads(kids), {}) = Leads(kids) /\ {start} \ {} = {start}
      BY DEF Avoiding
    <2> QED
      BY <2>1, Zenon DEF Unmet
  <1>8. \A c \in Range(a.ahead) : Linked(Leads(kids), c)
    BY <1>3, <1>4 DEF Linked
  <1> QED
    BY <1>1, <1>4, <1>5, <1>6, <1>7, <1>8 DEF AlongFine
=============================================================================
