---------------------------- MODULE ExplorerProofs ----------------------------
(***************************************************************************)
(* Proofs about Explorer, for every set of graphs, every search and every  *)
(* height of the terminal: that zooming keeps the selection, that the list *)
(* on screen is never a stale copy, and all that the screen promises.      *)
(*                                                                         *)
(* Each operator that is computed by recursion has a lemma that says which *)
(* rule it obeys (RowsAreComputed, from Recursion in ListProofs), and one  *)
(* that says what comes of it (RowsAre).                                   *)
(***************************************************************************)
EXTENDS Explorer, ListProofs

-----------------------------------------------------------------------------
(* The graph, as the views read it *)

Nodes(g) == DOMAIN g.nodes
Below(g, n) == {e[2] : e \in {x \in Range(g.edges) : x[1] = n}}

LEMMA GraphIs ==
    ASSUME NEW g \in Graphs
    PROVE  /\ IsFiniteSet(Nodes(g)) /\ g.edges \in Seq(Nodes(g) \X Nodes(g))
           /\ \A e \in Range(g.edges) : e[1] \in Nodes(g) /\ e[2] \in Nodes(g)
           /\ \A n \in Nodes(g) : g.nodes[n].type \in Int /\ g.nodes[n].name \in Int /\ g.nodes[n].score \in Int
  <1>1. IsFiniteSet(Nodes(g)) /\ g.edges \in Seq(Nodes(g) \X Nodes(g))
    BY GraphsAreClosed DEF Nodes
  <1>2. \A e \in Range(g.edges) : e[1] \in Nodes(g) /\ e[2] \in Nodes(g)
    BY <1>1 DEF Range
  <1>3. \A n \in Nodes(g) : {g.nodes[n].type, g.nodes[n].name, g.nodes[n].score} \subseteq Int
    BY GraphsAreClosed DEF Nodes
  <1> QED
    BY <1>1, <1>2, <1>3

\* What children are sorted by, and where it tells two apart.
ByLabel(ty, na, m, n) == ty[m] < ty[n] \/ (ty[m] = ty[n] /\ na[m] < na[n])
Alike(ty, na, m, n) == ty[m] = ty[n] /\ na[m] = na[n]

LEMMA LabelsOrder ==
    ASSUME NEW ids, NEW ty, NEW na, \A n \in ids : ty[n] \in Int /\ na[n] \in Int
    PROVE  /\ \A m, n \in ids : Alike(ty, na, m, n) => ~ByLabel(ty, na, m, n)
           /\ \A m, n \in ids : Alike(ty, na, m, n) \/ ByLabel(ty, na, m, n) \/ ByLabel(ty, na, n, m)
           /\ \A m, n, o \in ids : Alike(ty, na, m, n) /\ Alike(ty, na, n, o) => Alike(ty, na, m, o)
           /\ \A m, n, o \in ids : ByLabel(ty, na, m, n) /\ (ByLabel(ty, na, n, o) \/ Alike(ty, na, n, o)) => ByLabel(ty, na, m, o)
           /\ \A m, n, o \in ids : Alike(ty, na, m, n) /\ ByLabel(ty, na, n, o) => ByLabel(ty, na, m, o)
  <1>1. ASSUME NEW m \in ids, NEW n \in ids
        PROVE  /\ Alike(ty, na, m, n) => ~ByLabel(ty, na, m, n)
               /\ Alike(ty, na, m, n) \/ ByLabel(ty, na, m, n) \/ ByLabel(ty, na, n, m)
    <2>1. ty[m] \in Int /\ na[m] \in Int /\ ty[n] \in Int /\ na[n] \in Int
      OBVIOUS
    <2> QED
      BY <2>1 DEF ByLabel, Alike
  <1>2. ASSUME NEW m \in ids, NEW n \in ids, NEW o \in ids
        PROVE  /\ Alike(ty, na, m, n) /\ Alike(ty, na, n, o) => Alike(ty, na, m, o)
               /\ ByLabel(ty, na, m, n) /\ (ByLabel(ty, na, n, o) \/ Alike(ty, na, n, o)) => ByLabel(ty, na, m, o)
               /\ Alike(ty, na, m, n) /\ ByLabel(ty, na, n, o) => ByLabel(ty, na, m, o)
    <2>1. /\ ty[m] \in Int /\ na[m] \in Int /\ ty[n] \in Int /\ na[n] \in Int
          /\ ty[o] \in Int /\ na[o] \in Int
      OBVIOUS
    <2> QED
      BY <2>1 DEF ByLabel, Alike
  <1> QED
    BY <1>1, <1>2

TypeOf(g) == [n \in Nodes(g) |-> g.nodes[n].type]
NameOf(g) == [n \in Nodes(g) |-> g.nodes[n].name]

LEMMA LabelsAre ==
    ASSUME NEW g \in Graphs
    PROVE  /\ \A n \in Nodes(g) : TypeOf(g)[n] \in Int /\ NameOf(g)[n] \in Int
           /\ \A m, n \in Nodes(g) : ByTypeAndName(g, m, n) <=> ByLabel(TypeOf(g), NameOf(g), m, n)
  <1>1. \A n \in Nodes(g) : TypeOf(g)[n] \in Int /\ NameOf(g)[n] \in Int
    BY GraphIs DEF TypeOf, NameOf
  <1>2. \A m, n \in Nodes(g) : ByTypeAndName(g, m, n) <=> ByLabel(TypeOf(g), NameOf(g), m, n)
    BY DEF ByTypeAndName, ByLabel, TypeOf, NameOf
  <1> QED
    BY <1>1, <1>2

LEMMA NeighborsAre ==
    ASSUME NEW g \in Graphs, NEW n
    PROVE  Neighbors(g, n) \in Seq(Nodes(g)) /\ Range(Neighbors(g, n)) = Below(g, n)
  <1> DEFINE places == {i \in DOMAIN g.edges : g.edges[i][1] = n}
             out == Picked(g.edges, places)
  <1>1. g.edges \in Seq(Nodes(g) \X Nodes(g))
    BY GraphIs
  <1>2. out \in Seq(Nodes(g) \X Nodes(g)) /\ Range(out) = {g.edges[i] : i \in DOMAIN g.edges \intersect places}
    BY <1>1, PickedIs
  <1>3. Range(out) = {x \in Range(g.edges) : x[1] = n}
    BY <1>2 DEF Range
  <1>4. Neighbors(g, n) = [i \in DOMAIN out |-> out[i][2]]
    BY DEF Neighbors
  <1> HIDE DEF out
  <1>5. Range(Neighbors(g, n)) = {e[2] : e \in Range(out)}
    BY <1>4 DEF Range
  <1>6. DOMAIN out = 1..Len(out) /\ Len(out) \in Nat /\ \A i \in 1..Len(out) : out[i][2] \in Nodes(g)
    BY <1>2
  <1>7. Neighbors(g, n) \in [1..Len(out) -> Nodes(g)]
    BY <1>4, <1>6
  <1>8. Neighbors(g, n) \in Seq(Nodes(g))
    BY <1>6, <1>7
  <1> QED
    BY <1>3, <1>5, <1>8 DEF Below

\* Arranging a sequence by its places.
LEMMA ArrangedIs ==
    ASSUME NEW T, NEW s \in Seq(T), NEW order \in Seq(DOMAIN s), Range(order) = DOMAIN s
    PROVE  LET r == [k \in DOMAIN order |-> s[order[k]]] IN r \in Seq(T) /\ Range(r) = Range(s)
  <1> DEFINE r == [k \in DOMAIN order |-> s[order[k]]]
  <1>1. DOMAIN order = 1..Len(order) /\ Len(order) \in Nat /\ \A k \in 1..Len(order) : order[k] \in DOMAIN s
    OBVIOUS
  <1>2. \A i \in DOMAIN s : s[i] \in T
    OBVIOUS
  <1>3. r \in [1..Len(order) -> T]
    BY <1>1, <1>2
  <1>4. r \in Seq(T)
    BY <1>1, <1>3
  <1>5. Range(r) = Range(s)
    BY <1>1 DEF Range
  <1> QED
    BY <1>4, <1>5

\* There is a way to sort: where type and name are the same, by the place in the
\* list.
LEMMA SomeOrder ==
    ASSUME NEW g \in Graphs, NEW all \in Seq(Nodes(g))
    PROVE  \E p \in Bijection(DOMAIN all, DOMAIN all) :
               \A i, j \in DOMAIN all : i < j => ~ByTypeAndName(g, all[p[j]], all[p[i]])
  <1> DEFINE under(m, n) == ByLabel(TypeOf(g), NameOf(g), m, n)
             alike(m, n) == Alike(TypeOf(g), NameOf(g), m, n)
             places == DOMAIN all
             before == {p \in places \X places : under(all[p[1]], all[p[2]]) \/ (alike(all[p[1]], all[p[2]]) /\ p[1] < p[2])}
             order == Ranked(places, before)
  <1>1. /\ \A m, n \in Nodes(g) : alike(m, n) => ~under(m, n)
        /\ \A m, n \in Nodes(g) : alike(m, n) \/ under(m, n) \/ under(n, m)
        /\ \A m, n, o \in Nodes(g) : alike(m, n) /\ alike(n, o) => alike(m, o)
        /\ \A m, n, o \in Nodes(g) : under(m, n) /\ (under(n, o) \/ alike(n, o)) => under(m, o)
        /\ \A m, n, o \in Nodes(g) : alike(m, n) /\ under(n, o) => under(m, o)
    BY LabelsAre, LabelsOrder
  <1>2. \A m \in Nodes(g) : alike(m, m)
    BY DEF Alike
  <1>3. \A m, n \in Nodes(g) : ByTypeAndName(g, m, n) <=> under(m, n)
    BY LabelsAre
  <1>4. places = 1..Len(all) /\ Len(all) \in Nat /\ \A i \in places : all[i] \in Nodes(g) /\ i \in Int
    OBVIOUS
  <1>5. IsFiniteSet(places) /\ Cardinality(places) = Len(all)
    <2> DEFINE k == Len(all)
    <2>1. k \in Nat /\ places = 1..k
      BY <1>4
    <2> HIDE DEF k, places
    <2>2. IsFiniteSet(1..k) /\ Cardinality(1..k) = k
      BY <2>1, FS_Interval
    <2> QED
      BY <2>1, <2>2 DEF k
  <1> HIDE DEF under, alike
  <1>6. \A i, j \in places : <<i, j>> \in before <=> under(all[i], all[j]) \/ (alike(all[i], all[j]) /\ i < j)
    OBVIOUS
  <1> HIDE DEF before, places
  <1>7. ASSUME NEW i \in places
        PROVE  <<i, i>> \notin before
    BY <1>1, <1>2, <1>4, <1>6
  <1>8. ASSUME NEW i \in places, NEW j \in places
        PROVE  i = j \/ <<i, j>> \in before \/ <<j, i>> \in before
    <2>1. (alike(all[i], all[j]) /\ alike(all[j], all[i])) \/ under(all[i], all[j]) \/ under(all[j], all[i])
      <3>1. alike(all[i], all[j]) => alike(all[j], all[i])
        BY DEF alike, Alike
      <3> QED
        BY <1>1, <1>4, <3>1
    <2>2. i \in Int /\ j \in Int
      BY <1>4
    <2> QED
      BY <1>6, <2>1, <2>2
  <1>9. ASSUME NEW i \in places, NEW j \in places, NEW k \in places, <<i, j>> \in before, <<j, k>> \in before
        PROVE  <<i, k>> \in before
    <2>1. /\ under(all[i], all[j]) \/ (alike(all[i], all[j]) /\ i < j)
          /\ under(all[j], all[k]) \/ (alike(all[j], all[k]) /\ j < k)
      BY <1>6, <1>9
    <2>2. under(all[i], all[k]) \/ (alike(all[i], all[k]) /\ i < j /\ j < k)
      BY <1>1, <1>4, <2>1, Zenon
    <2>3. i < j /\ j < k => i < k
      BY <1>4
    <2> QED
      BY <1>6, <2>2, <2>3
  <1>10. IsTotal(before, places)
    BY <1>7, <1>8, <1>9 DEF IsTotal
  <1>11. /\ order \in Seq(places) /\ Range(order) = places /\ DOMAIN order = 1..Cardinality(places)
         /\ \A i, k \in DOMAIN order : i < k => <<order[i], order[k]>> \in before
    BY <1>5, <1>10, RankedIs
  <1> HIDE DEF order
  <1>12. DOMAIN order = places /\ \A i \in places : order[i] \in places /\ i \in Int
    BY <1>4, <1>5, <1>11
  <1>13. order \in Bijection(places, places)
    <2>1. order \in [places -> places]
      BY <1>11, <1>12
    <2>2. \A i, k \in places : i # k => order[i] # order[k]
      <3> SUFFICES ASSUME NEW i \in places, NEW k \in places, i # k
                   PROVE  order[i] # order[k]
        OBVIOUS
      <3>1. i < k \/ k < i
        BY <1>12
      <3>2. <<order[i], order[k]>> \in before \/ <<order[k], order[i]>> \in before
        BY <1>11, <1>12, <3>1
      <3> QED
        BY <1>7, <1>12, <3>2
    <2>3. \A t \in places : \E i \in places : order[i] = t
      BY <1>11, <1>12 DEF Range
    <2> QED
      BY <2>1, <2>2, <2>3 DEF Bijection, Injection, Surjection, IsInjective
  <1>14. ASSUME NEW i \in places, NEW j \in places, i < j
         PROVE  ~ByTypeAndName(g, all[order[j]], all[order[i]])
    <2>1. <<order[i], order[j]>> \in before /\ order[i] \in places /\ order[j] \in places
      BY <1>11, <1>12, <1>14
    <2>2. <<order[j], order[i]>> \notin before
      BY <1>7, <1>9, <2>1
    <2> QED
      BY <1>3, <1>4, <1>6, <2>1, <2>2
  <1> QED
    BY <1>13, <1>14 DEF places

LEMMA SortedNeighborsAre ==
    ASSUME NEW g \in Graphs, NEW n
    PROVE  SortedNeighbors(g, n) \in Seq(Nodes(g)) /\ Range(SortedNeighbors(g, n)) = Below(g, n)
  <1> DEFINE all == Neighbors(g, n)
             order == CHOOSE p \in Bijection(DOMAIN all, DOMAIN all) :
                          \A i, j \in DOMAIN all : i < j => ~ByTypeAndName(g, all[p[j]], all[p[i]])
  <1>1. all \in Seq(Nodes(g)) /\ Range(all) = Below(g, n)
    BY NeighborsAre
  <1>2. SortedNeighbors(g, n) = [k \in DOMAIN all |-> all[order[k]]]
    BY DEF SortedNeighbors
  <1> HIDE DEF all
  <1>3. order \in Bijection(DOMAIN all, DOMAIN all)
    BY <1>1, SomeOrder
  <1> HIDE DEF order
  <1>4. /\ order \in [DOMAIN all -> DOMAIN all] /\ DOMAIN order = DOMAIN all
        /\ \A i \in DOMAIN all : \E k \in DOMAIN all : order[k] = i
    BY <1>3 DEF Bijection, Surjection
  <1>5. order \in Seq(DOMAIN all) /\ Range(order) = DOMAIN all
    <2>1. DOMAIN all = 1..Len(all) /\ Len(all) \in Nat
      BY <1>1
    <2> QED
      BY <1>4, <2>1 DEF Range
  <1>6. SortedNeighbors(g, n) = [k \in DOMAIN order |-> all[order[k]]]
    BY <1>2, <1>4
  <1> QED
    BY <1>1, <1>5, <1>6, ArrangedIs

\* However it is sorted, a list has the IDs it is made from.
LEMMA SortedIs ==
    ASSUME NEW ids, IsFiniteSet(ids), NEW before, NEW s \in Sorted(ids, before)
    PROVE  s \in Seq(ids) /\ Range(s) = ids
  <1> DEFINE k == Cardinality(ids)
  <1>1. k \in Nat
    BY FS_CardinalityType
  <1>2. s \in [1..k -> ids] /\ \A i, j \in 1..k : i # j => s[i] # s[j]
    BY DEF Sorted, SetToSeqs
  <1>3. s \in Injection(1..k, ids)
    BY <1>2 DEF Injection, IsInjective
  <1>4. Cardinality(1..k) = Cardinality(ids)
    BY <1>1, FS_Interval
  <1> HIDE DEF k
  <1>5. s \in Surjection(1..k, ids)
    BY <1>3, <1>4, FS_Injection
  <1> QED
    BY <1>1, <1>2, <1>5 DEF Surjection, Range

RootsIn(g) == Nodes(g) \ {e[2] : e \in Range(g.edges)}

LEMMA RootsAre ==
    ASSUME NEW g \in Graphs, NEW top \in FindRoots(g)
    PROVE  top \in Seq(Nodes(g)) /\ Range(top) = RootsIn(g)
  <1> DEFINE ids == RootsIn(g)
             before == {p \in ids \X ids : RootsFirst(g, p[1], p[2])}
  <1>1. IsFiniteSet(ids) /\ ids \subseteq Nodes(g)
    BY GraphIs, FS_Subset DEF RootsIn
  <1>2. top \in Sorted(ids, before)
    BY DEF FindRoots, RootsIn, Nodes
  <1> HIDE DEF ids, before
  <1>3. top \in Seq(ids) /\ Range(top) = ids
    BY <1>1, <1>2, SortedIs
  <1> QED
    BY <1>1, <1>3 DEF ids

LEMMA FlatRowsAre ==
    ASSUME NEW g \in Graphs, NEW f, NEW rows \in FlatRows(g, f)
    PROVE  rows \in Seq(Nodes(g)) /\ Range(rows) = {n \in Nodes(g) : PassesFilter(g, f, n)}
  <1> DEFINE ids == {n \in Nodes(g) : PassesFilter(g, f, n)}
             before == {p \in ids \X ids : WorstFirst(g, p[1], p[2])}
  <1>1. IsFiniteSet(ids) /\ ids \subseteq Nodes(g)
    BY GraphIs, FS_Subset
  <1>2. rows \in Sorted(ids, before)
    BY DEF FlatRows, Nodes
  <1> HIDE DEF ids, before
  <1>3. rows \in Seq(ids) /\ Range(rows) = ids
    BY <1>1, <1>2, SortedIs
  <1> QED
    BY <1>1, <1>3 DEF ids

LEMMA MatchesAre ==
    ASSUME NEW T, NEW rows \in Seq(T), NEW q
    PROVE  /\ ApplySearchFilter(q, rows) \in Seq(T)
           /\ Range(ApplySearchFilter(q, rows)) = {n \in Range(rows) : Matching(q, n)}
  <1> DEFINE places == {i \in DOMAIN rows : Matching(q, rows[i])}
  <1>1. ApplySearchFilter(q, rows) = Picked(rows, places)
    BY DEF ApplySearchFilter
  <1>2. Picked(rows, places) \in Seq(T) /\ Range(Picked(rows, places)) = {rows[i] : i \in DOMAIN rows \intersect places}
    BY PickedIs
  <1>3. {rows[i] : i \in DOMAIN rows \intersect places} = {n \in Range(rows) : Matching(q, n)}
    BY DEF Range
  <1> QED
    BY <1>1, <1>2, <1>3

-----------------------------------------------------------------------------
(* What is reached *)

Edges(g) == Range(g.edges)

ReachIn(g, ids) == ClosureIn(Nodes(g), Edges(g), ids)

CyclicIn(g) == \E n \in Nodes(g) : n \in ReachIn(g, Below(g, n))

LEMMA EdgesAre ==
    ASSUME NEW g \in Graphs
    PROVE  /\ Edges(g) \in SUBSET (Nodes(g) \X Nodes(g))
           /\ \A n : From(Edges(g), n) = Below(g, n) /\ Below(g, n) \in SUBSET Nodes(g)
  <1>1. g.edges \in Seq(Nodes(g) \X Nodes(g))
    BY GraphIs
  <1>2. Edges(g) \in SUBSET (Nodes(g) \X Nodes(g))
    BY <1>1 DEF Edges, Range
  <1>3. \A n : From(Edges(g), n) = Below(g, n)
    BY DEF From, Edges, Below
  <1>4. \A n : Below(g, n) \in SUBSET Nodes(g)
    BY <1>2 DEF Edges, Below
  <1> QED
    BY <1>2, <1>3, <1>4

LEMMA ReachIs ==
    ASSUME NEW g \in Graphs
    PROVE  /\ \A ids \in SUBSET Nodes(g) : ids \subseteq ReachIn(g, ids) /\ ReachIn(g, ids) \subseteq Nodes(g)
           /\ \A ids \in SUBSET Nodes(g), m \in Nodes(g) : m \in ReachIn(g, ids) => Below(g, m) \subseteq ReachIn(g, ids)
           /\ \A a, b \in SUBSET Nodes(g) : ReachIn(g, a \union b) = ReachIn(g, a) \union ReachIn(g, b)
           /\ \A n \in Nodes(g) : ReachIn(g, {n}) = {n} \union ReachIn(g, Below(g, n))
           /\ ReachIn(g, {}) = {}
  <1>1. Edges(g) \in SUBSET (Nodes(g) \X Nodes(g)) /\ \A n : From(Edges(g), n) = Below(g, n)
    BY EdgesAre
  <1>2. ASSUME NEW ids \in SUBSET Nodes(g)
        PROVE  ids \subseteq ReachIn(g, ids) /\ ReachIn(g, ids) \subseteq Nodes(g) /\ IsClosed(Edges(g), ReachIn(g, ids))
    BY <1>1, ClosureIs DEF ReachIn
  <1>3. ASSUME NEW ids \in SUBSET Nodes(g), NEW m \in Nodes(g), m \in ReachIn(g, ids)
        PROVE  Below(g, m) \subseteq ReachIn(g, ids)
    BY <1>2, <1>3 DEF IsClosed, Below, Edges
  <1>4. ASSUME NEW a \in SUBSET Nodes(g), NEW b \in SUBSET Nodes(g)
        PROVE  ReachIn(g, a \union b) = ReachIn(g, a) \union ReachIn(g, b)
    BY <1>1, ClosureOfBoth DEF ReachIn
  <1>5. ASSUME NEW n \in Nodes(g)
        PROVE  ReachIn(g, {n}) = {n} \union ReachIn(g, Below(g, n))
    BY <1>1, ClosureOfOne DEF ReachIn
  <1>6. ReachIn(g, {}) = {}
    BY ClosureOfNone DEF ReachIn
  <1> QED
    BY <1>2, <1>3, <1>4, <1>5, <1>6

-----------------------------------------------------------------------------
(* Siblings still to be looked at, and the nodes they are in *)

Places(g) == Seq(Nodes(g)) \X SUBSET Nodes(g)

Room(g) == [at \in Places(g) |-> Cardinality(Nodes(g) \ at[2])]
Length(g) == [at \in Places(g) |-> Len(at[1])]

\* Further down, or further along.
Deeper(g) == Smaller(Places(g), Room(g), Length(g))

LEMMA PlacesAreOrdered ==
    ASSUME NEW g \in Graphs
    PROVE  HasMinimal(Deeper(g), Places(g)) /\ IsTransitivelyClosedOn(Deeper(g), Places(g))
  <1>1. ASSUME NEW at \in Places(g)
        PROVE  Room(g)[at] \in Nat /\ Length(g)[at] \in Nat
    <2>1. IsFiniteSet(Nodes(g)) /\ at[2] \in SUBSET Nodes(g) /\ at[1] \in Seq(Nodes(g))
      BY GraphIs DEF Places
    <2>2. IsFiniteSet(Nodes(g) \ at[2])
      BY <2>1, FS_Subset
    <2>3. Cardinality(Nodes(g) \ at[2]) \in Nat /\ Len(at[1]) \in Nat
      BY <2>1, <2>2, FS_CardinalityType
    <2> QED
      BY <2>3 DEF Room, Length
  <1> QED
    BY <1>1, SmallerIsOrder DEF Deeper

\* The nodes of a place, the next one, and where to look after it and below it.
LEMMA PlaceIs ==
    ASSUME NEW g \in Graphs, NEW at \in Places(g), at[1] # <<>>
    PROVE  /\ Head(at[1]) \in Nodes(g) /\ at[2] \in SUBSET Nodes(g)
           /\ Range(at[1]) = {Head(at[1])} \union Range(Tail(at[1]))
           /\ <<Tail(at[1]), at[2]>> \in Places(g)
           /\ <<<<Tail(at[1]), at[2]>>, at>> \in Deeper(g)
           /\ \A s \in Seq(Nodes(g)), n \in Nodes(g) :
                 /\ <<s, at[2] \union {n}>> \in Places(g)
                 /\ n \notin at[2] => <<<<s, at[2] \union {n}>>, at>> \in Deeper(g)
  <1> DEFINE s == at[1]
             w == at[2]
  <1>1. s \in Seq(Nodes(g)) /\ w \in SUBSET Nodes(g) /\ at = <<s, w>> /\ s # <<>>
    BY DEF Places
  <1>10. <<s, w>> \in Places(g)
    BY <1>1
  <1> HIDE DEF s, w
  <1>2. Head(s) \in Nodes(g) /\ Tail(s) \in Seq(Nodes(g)) /\ Len(s) \in Nat /\ Len(Tail(s)) = Len(s) - 1
    BY <1>1
  <1>3. Range(s) = {Head(s)} \union Range(Tail(s))
    <2>1. DOMAIN s = 1..Len(s) /\ Len(s) >= 1 /\ DOMAIN Tail(s) = 1..Len(s) - 1 /\ Head(s) = s[1]
      BY <1>1, <1>2
    <2>2. \A i \in 1..Len(s) - 1 : Tail(s)[i] = s[i + 1]
      BY <1>1
    <2>3. \A i \in 1..Len(s) : i = 1 \/ (i - 1 \in 1..Len(s) - 1 /\ s[i] = Tail(s)[i - 1])
      BY <1>2, <2>2
    <2>4. \A i \in 1..Len(s) - 1 : i + 1 \in 1..Len(s) /\ 1 \in 1..Len(s)
      BY <1>2, <2>1
    <2>5. 1 \in 1..Len(s)
      BY <1>2, <2>1
    <2>6. Range(Tail(s)) = {Tail(s)[i] : i \in 1..Len(s) - 1} /\ Range(s) = {s[i] : i \in 1..Len(s)}
      BY <2>1, Zenon DEF Range
    <2>7. ASSUME NEW x \in Range(s)
          PROVE  x \in {Head(s)} \union Range(Tail(s))
      BY <2>1, <2>3, <2>6
    <2>8. ASSUME NEW x \in {Head(s)} \union Range(Tail(s))
          PROVE  x \in Range(s)
      BY <2>1, <2>2, <2>4, <2>5, <2>6
    <2> QED
      BY <2>7, <2>8
  <1>4. <<Tail(s), w>> \in Places(g)
    BY <1>1, <1>2 DEF Places
  <1>5. <<<<Tail(s), w>>, <<s, w>>>> \in Deeper(g)
    <2>1. Length(g)[<<Tail(s), w>>] < Length(g)[<<s, w>>]
      BY <1>2, <1>4, <1>10 DEF Length
    <2>2. Room(g)[<<Tail(s), w>>] = Room(g)[<<s, w>>]
      BY <1>4, <1>10 DEF Room
    <2> QED
      BY <1>4, <1>10, <2>1, <2>2 DEF Deeper, Smaller
  <1>6. ASSUME NEW t \in Seq(Nodes(g)), NEW n \in Nodes(g)
        PROVE  <<t, w \union {n}>> \in Places(g)
    BY <1>1 DEF Places
  <1>7. ASSUME NEW t \in Seq(Nodes(g)), NEW n \in Nodes(g), n \notin w
        PROVE  <<<<t, w \union {n}>>, <<s, w>>>> \in Deeper(g)
    <2> DEFINE big == Nodes(g) \ w
               small == Nodes(g) \ (w \union {n})
    <2>1. IsFiniteSet(big) /\ small \in SUBSET big /\ n \in big \ small
      BY <1>7, GraphIs, FS_Subset
    <2>2. Room(g)[<<t, w \union {n}>>] = Cardinality(small) /\ Room(g)[<<s, w>>] = Cardinality(big)
      BY <1>6, <1>10 DEF Room
    <2> HIDE DEF big, small
    <2>3. Cardinality(small) <= Cardinality(big) /\ Cardinality(small) # Cardinality(big) /\ IsFiniteSet(small)
      BY <2>1, FS_Subset
    <2>4. Cardinality(small) \in Nat /\ Cardinality(big) \in Nat
      BY <2>1, <2>3, FS_CardinalityType
    <2>5. Cardinality(small) < Cardinality(big)
      BY <2>3, <2>4
    <2>6. <<t, w \union {n}>> \in Places(g)
      BY <1>6
    <2> QED
      BY <1>10, <2>2, <2>5, <2>6 DEF Deeper, Smaller
  <1> QED
    BY <1>1, <1>2, <1>3, <1>4, <1>5, <1>6, <1>7 DEF s, w

-----------------------------------------------------------------------------
(* hasFilteredDescendant *)

Answers == {"yes", "no", "diverges"}

AmongRule(g, f, among, at) ==
    LET c     == Head(at[1])
        below == among[<<Neighbors(g, c), at[2] \union {c}>>]
    IN  IF at[1] = <<>> THEN "no"
        ELSE IF PassesFilter(g, f, c) THEN "yes"
        ELSE IF c \in at[2] THEN "diverges"
        ELSE IF below = "no" THEN among[<<Tail(at[1]), at[2]>>] ELSE below

LEMMA AmongIs ==
    ASSUME NEW g \in Graphs, NEW f
    PROVE  \A at \in Places(g) : FilteredAmong(g, f)[at] = AmongRule(g, f, FilteredAmong(g, f), at)
  <1> DEFINE S == Places(g)
             V == Answers
             F == [p \in S \X [S -> V] |-> AmongRule(g, f, p[2], p[1])]
             R == Deeper(g)
             from == CHOOSE a : a = [at \in S |-> AmongRule(g, f, a, at)]
  <1>1. FilteredAmong(g, f) = from
    BY Zenon DEF FilteredAmong, AmongRule, Places, Nodes
  <1>2. ASSUME NEW at \in S, NEW h \in [S -> V], at[1] # <<>>
        PROVE  /\ h[<<Tail(at[1]), at[2]>>] \in V
               /\ h[<<Neighbors(g, Head(at[1])), at[2] \union {Head(at[1])}>>] \in V
    BY <1>2, PlaceIs, NeighborsAre
  <1>3. ASSUME NEW at \in S, NEW h \in [S -> V]
        PROVE  AmongRule(g, f, h, at) \in V
    BY <1>2 DEF AmongRule, Answers
  <1>4. F \in [S \X [S -> V] -> V]
    BY <1>3
  <1>5. IsLocal(F, S, V, R)
    <2> SUFFICES ASSUME NEW x \in S, NEW a \in [S -> V], NEW h \in [S -> V],
                        \A y \in S : <<y, x>> \in R => a[y] = h[y]
                 PROVE  AmongRule(g, f, a, x) = AmongRule(g, f, h, x)
      BY DEF IsLocal
    <2>1. CASE x[1] = <<>>
      BY <2>1 DEF AmongRule
    <2>2. CASE x[1] # <<>>
      <3>1. a[<<Tail(x[1]), x[2]>>] = h[<<Tail(x[1]), x[2]>>]
        BY <2>2, PlaceIs
      <3>2. Head(x[1]) \notin x[2] =>
               a[<<Neighbors(g, Head(x[1])), x[2] \union {Head(x[1])}>>]
                 = h[<<Neighbors(g, Head(x[1])), x[2] \union {Head(x[1])}>>]
        BY <2>2, PlaceIs, NeighborsAre
      <3> QED
        BY <3>1, <3>2 DEF AmongRule
    <2> QED
      BY <2>1, <2>2
  <1>6. HasMinimal(R, S) /\ IsTransitivelyClosedOn(R, S) /\ V # {}
    BY PlacesAreOrdered DEF Answers
  <1>7. \E a \in [S -> V] : \A at \in S : a[at] = F[<<at, a>>]
    <2> HIDE DEF F, S, V, R
    <2>1. IsRule(F, S, V, R)
      BY <1>4, <1>5, <1>6 DEF IsRule
    <2>2. Solvable(F, S, V)
      BY <2>1, Recursion
    <2> QED
      BY <2>2 DEF Solvable
  <1>8. \E a : a = [at \in S |-> AmongRule(g, f, a, at)]
    <2>1. PICK a \in [S -> V] : \A at \in S : a[at] = F[<<at, a>>]
      BY <1>7
    <2>2. a = [at \in S |-> AmongRule(g, f, a, at)]
      BY <2>1
    <2> QED
      BY <2>2
  <1>9. from = [at \in S |-> AmongRule(g, f, from, at)]
    BY <1>8, Zenon
  <1> HIDE DEF from
  <1> QED
    BY <1>1, <1>9

\* What is still to be looked at is below the nodes it is in.
IsWithin(g, at) == \A w \in at[2] : Range(at[1]) \subseteq ReachIn(g, Below(g, w))

Passing(g, f, ids) == \E m \in ReachIn(g, ids) : PassesFilter(g, f, m)

AmongFine(g, f, at) ==
    LET answer == FilteredAmong(g, f)[at]
    IN  /\ answer \in Answers
        /\ IsWithin(g, at) =>
              /\ answer = "yes" => Passing(g, f, Range(at[1]))
              /\ answer = "no" => ~Passing(g, f, Range(at[1]))
              /\ answer = "diverges" => CyclicIn(g)

LEMMA PlaceIsWithin ==
    ASSUME NEW g \in Graphs, NEW at \in Places(g), at[1] # <<>>, IsWithin(g, at),
           NEW s \in Seq(Nodes(g)), Range(s) = Below(g, Head(at[1]))
    PROVE  /\ IsWithin(g, <<Tail(at[1]), at[2]>>)
           /\ IsWithin(g, <<s, at[2] \union {Head(at[1])}>>)
           /\ Head(at[1]) \in at[2] => CyclicIn(g)
  <1> DEFINE c == Head(at[1])
  <1>1. /\ c \in Nodes(g) /\ at[2] \in SUBSET Nodes(g) /\ Range(at[1]) = {c} \union Range(Tail(at[1]))
    BY PlaceIs
  <1> HIDE DEF c
  <1>2. \A w \in at[2] : Range(Tail(at[1])) \subseteq ReachIn(g, Below(g, w)) /\ c \in ReachIn(g, Below(g, w))
    BY <1>1 DEF IsWithin
  <1>3. \A w \in Nodes(g) : Below(g, w) \in SUBSET Nodes(g)
    BY EdgesAre
  <1>4. \A w \in at[2] : Below(g, c) \subseteq ReachIn(g, Below(g, w))
    BY <1>1, <1>2, <1>3, ReachIs
  <1>5. Below(g, c) \subseteq ReachIn(g, Below(g, c))
    BY <1>1, <1>3, ReachIs
  <1>6. Range(s) = Below(g, c)
    BY DEF c
  <1>7. IsWithin(g, <<Tail(at[1]), at[2]>>)
    BY <1>2 DEF IsWithin
  <1>8. IsWithin(g, <<s, at[2] \union {c}>>)
    BY <1>4, <1>5, <1>6 DEF IsWithin
  <1>9. c \in at[2] => CyclicIn(g)
    BY <1>1, <1>2 DEF CyclicIn
  <1> QED
    BY <1>7, <1>8, <1>9 DEF c

LEMMA FilteredIs ==
    ASSUME NEW g \in Graphs, NEW f, NEW place \in Places(g)
    PROVE  AmongFine(g, f, place)
  <1> DEFINE Bad == {at \in Places(g) : ~AmongFine(g, f, at)}
  <1>1. SUFFICES ASSUME Bad # {}
                 PROVE  FALSE
    OBVIOUS
  <1>2. PICK at \in Bad : \A other \in Bad : <<other, at>> \notin Deeper(g)
    <2>1. Bad \in SUBSET Places(g)
      OBVIOUS
    <2> HIDE DEF Bad
    <2> QED
      BY <1>1, <2>1, PlacesAreOrdered DEF HasMinimal
  <1>3. at \in Places(g) /\ ~AmongFine(g, f, at)
        /\ \A other \in Places(g) : <<other, at>> \in Deeper(g) => AmongFine(g, f, other)
    BY <1>2
  <1> HIDE DEF Bad
  <1> DEFINE among == FilteredAmong(g, f)
             c == Head(at[1])
             next == <<Tail(at[1]), at[2]>>
             down == <<Neighbors(g, c), at[2] \union {c}>>
  <1>4. among[at] = AmongRule(g, f, among, at)
    BY <1>3, AmongIs
  <1> HIDE DEF among
  <1>5. at[1] # <<>>
    <2>1. SUFFICES ASSUME at[1] = <<>>
                   PROVE  AmongFine(g, f, at)
      BY <1>3
    <2>2. among[at] = "no" /\ Range(at[1]) = {}
      BY <1>4, <2>1 DEF AmongRule, Range
    <2>3. ~Passing(g, f, {})
      BY ReachIs DEF Passing
    <2> QED
      BY <2>2, <2>3 DEF AmongFine, among, Answers
  <1>6. /\ c \in Nodes(g) /\ at[2] \in SUBSET Nodes(g) /\ Range(at[1]) = {c} \union Range(Tail(at[1]))
        /\ next \in Places(g) /\ AmongFine(g, f, next) /\ Tail(at[1]) \in Seq(Nodes(g))
    <2>1. next \in Places(g) /\ <<next, at>> \in Deeper(g)
      BY <1>3, <1>5, PlaceIs
    <2> QED
      BY <1>3, <1>5, <2>1, PlaceIs DEF Places
  <1>7. Neighbors(g, c) \in Seq(Nodes(g)) /\ Range(Neighbors(g, c)) = Below(g, c)
    BY NeighborsAre
  <1>8. c \notin at[2] => AmongFine(g, f, down)
    BY <1>3, <1>5, <1>7, PlaceIs
  <1>9. IsWithin(g, at) => IsWithin(g, next) /\ IsWithin(g, down) /\ (c \in at[2] => CyclicIn(g))
    BY <1>3, <1>5, <1>7, PlaceIsWithin
  <1>10. ReachIn(g, Range(at[1])) = {c} \union ReachIn(g, Below(g, c)) \union ReachIn(g, Range(Tail(at[1])))
    <2>1. {c} \in SUBSET Nodes(g) /\ Range(Tail(at[1])) \in SUBSET Nodes(g)
      BY <1>6 DEF Range
    <2>2. ReachIn(g, {c} \union Range(Tail(at[1]))) = ReachIn(g, {c}) \union ReachIn(g, Range(Tail(at[1])))
      BY <2>1, ReachIs
    <2>3. ReachIn(g, {c}) = {c} \union ReachIn(g, Below(g, c))
      BY <1>6, ReachIs
    <2> QED
      BY <1>6, <2>2, <2>3
  <1>11. Passing(g, f, Range(at[1])) <=>
            PassesFilter(g, f, c) \/ Passing(g, f, Below(g, c)) \/ Passing(g, f, Range(Tail(at[1])))
    BY <1>10 DEF Passing
  <1>12. next[1] = Tail(at[1]) /\ down[1] = Neighbors(g, c)
    OBVIOUS
  <1>13. among[at] = IF PassesFilter(g, f, c) THEN "yes"
                     ELSE IF c \in at[2] THEN "diverges"
                     ELSE IF among[down] = "no" THEN among[next] ELSE among[down]
    BY <1>4, <1>5 DEF AmongRule
  <1> HIDE DEF next, down, c
  <1>14. CASE PassesFilter(g, f, c)
    BY <1>3, <1>11, <1>13, <1>14 DEF AmongFine, Answers, among
  <1>15. CASE ~PassesFilter(g, f, c) /\ c \in at[2]
    BY <1>3, <1>9, <1>13, <1>15 DEF AmongFine, Answers, among
  <1>16. CASE ~PassesFilter(g, f, c) /\ c \notin at[2]
    <2>1. /\ among[down] \in Answers
          /\ IsWithin(g, at) =>
              /\ among[down] = "yes" => Passing(g, f, Below(g, c))
              /\ among[down] = "no" => ~Passing(g, f, Below(g, c))
              /\ among[down] = "diverges" => CyclicIn(g)
      BY <1>7, <1>8, <1>9, <1>12, <1>16 DEF AmongFine, among
    <2>2. /\ among[next] \in Answers
          /\ IsWithin(g, at) =>
              /\ among[next] = "yes" => Passing(g, f, Range(Tail(at[1])))
              /\ among[next] = "no" => ~Passing(g, f, Range(Tail(at[1])))
              /\ among[next] = "diverges" => CyclicIn(g)
      BY <1>6, <1>9, <1>12 DEF AmongFine, among
    <2>3. AmongFine(g, f, at)
      <3>1. CASE among[down] = "no"
        BY <1>11, <1>13, <1>16, <2>1, <2>2, <3>1 DEF AmongFine, among
      <3>2. CASE among[down] # "no"
        BY <1>11, <1>13, <1>16, <2>1, <3>2 DEF AmongFine, Answers, among
      <3> QED
        BY <3>1, <3>2
    <2> QED
      BY <1>3, <2>3
  <1> QED
    BY <1>14, <1>15, <1>16

WorthIn(g, f, n) == \E m \in ReachIn(g, {n}) : PassesFilter(g, f, m)

LEMMA KeptIs ==
    ASSUME NEW g \in Graphs, NEW f, NEW n \in Nodes(g)
    PROVE  /\ Kept(g, f, n) \in Answers
           /\ Kept(g, f, n) = "yes" => WorthIn(g, f, n)
           /\ Kept(g, f, n) = "no" => ~WorthIn(g, f, n)
           /\ Kept(g, f, n) = "diverges" => CyclicIn(g)
           /\ f = "" => Kept(g, f, n) = "yes"
  <1> DEFINE at == <<Neighbors(g, n), {n}>>
  <1>1. Neighbors(g, n) \in Seq(Nodes(g)) /\ Range(Neighbors(g, n)) = Below(g, n)
    BY NeighborsAre
  <1>2. at \in Places(g) /\ at[1] = Neighbors(g, n)
    BY <1>1 DEF Places
  <1>3. Below(g, n) \subseteq ReachIn(g, Below(g, n))
    BY EdgesAre, ReachIs
  <1>4. IsWithin(g, at)
    BY <1>1, <1>3 DEF IsWithin
  <1>5. WorthIn(g, f, n) <=> PassesFilter(g, f, n) \/ Passing(g, f, Below(g, n))
    BY ReachIs DEF WorthIn, Passing
  <1>6. AmongFine(g, f, at)
    BY <1>2, FilteredIs
  <1>7. Kept(g, f, n) = IF PassesFilter(g, f, n) THEN "yes" ELSE FilteredAmong(g, f)[at]
    BY DEF Kept
  <1> HIDE DEF at
  <1>8. f = "" => PassesFilter(g, f, n)
    BY DEF PassesFilter
  <1>9. CASE PassesFilter(g, f, n)
    BY <1>5, <1>7, <1>9 DEF Answers
  <1>10. CASE ~PassesFilter(g, f, n)
    BY <1>1, <1>2, <1>4, <1>5, <1>6, <1>7, <1>8, <1>10 DEF AmongFine
  <1> QED
    BY <1>9, <1>10

-----------------------------------------------------------------------------
(* The rows of the tree *)

RowsOrNot(g) == Seq(Nodes(g)) \union {Diverges}

RowsRule(g, f, open, rows, at) ==
    LET n     == Head(at[1])
        keep  == Kept(g, f, n)
        rest  == rows[<<Tail(at[1]), at[2]>>]
        below == IF n \notin open THEN <<>>
                 ELSE IF n \in at[2] THEN Diverges
                 ELSE rows[<<SortedNeighbors(g, n), at[2] \union {n}>>]
    IN  IF at[1] = <<>> THEN <<>>
        ELSE IF keep = "diverges" \/ rest = Diverges THEN Diverges
        ELSE IF keep = "no" THEN rest
        ELSE IF below = Diverges THEN Diverges
        ELSE <<n>> \o below \o rest

LEMMA RowsAreComputed ==
    ASSUME NEW g \in Graphs, NEW f, NEW open
    PROVE  \A at \in Places(g) : RowsOf(g, f, open)[at] = RowsRule(g, f, open, RowsOf(g, f, open), at)
  <1> DEFINE S == Places(g)
             V == RowsOrNot(g)
             F == [p \in S \X [S -> V] |-> RowsRule(g, f, open, p[2], p[1])]
             R == Deeper(g)
             from == CHOOSE a : a = [at \in S |-> RowsRule(g, f, open, a, at)]
  <1>1. RowsOf(g, f, open) = from
    BY Zenon DEF RowsOf, RowsRule, Places, Nodes
  <1>2. ASSUME NEW at \in S, NEW h \in [S -> V], at[1] # <<>>
        PROVE  /\ h[<<Tail(at[1]), at[2]>>] \in V
               /\ h[<<SortedNeighbors(g, Head(at[1])), at[2] \union {Head(at[1])}>>] \in V
    BY <1>2, PlaceIs, SortedNeighborsAre
  <1>3. ASSUME NEW at \in S, NEW h \in [S -> V]
        PROVE  RowsRule(g, f, open, h, at) \in V
    <2>1. CASE at[1] = <<>>
      BY <2>1 DEF RowsRule, RowsOrNot
    <2>2. CASE at[1] # <<>>
      <3> DEFINE n == Head(at[1])
                 rest == h[<<Tail(at[1]), at[2]>>]
                 under == h[<<SortedNeighbors(g, n), at[2] \union {n}>>]
                 below == IF n \notin open THEN <<>> ELSE IF n \in at[2] THEN Diverges ELSE under
      <3>1. rest \in V /\ under \in V /\ n \in Nodes(g)
        BY <1>2, <2>2, PlaceIs
      <3>2. below \in V
        BY <3>1 DEF RowsOrNot
      <3>3. RowsRule(g, f, open, h, at) =
               IF Kept(g, f, n) = "diverges" \/ rest = Diverges THEN Diverges
               ELSE IF Kept(g, f, n) = "no" THEN rest
               ELSE IF below = Diverges THEN Diverges
               ELSE <<n>> \o below \o rest
        BY <2>2 DEF RowsRule
      <3> HIDE DEF rest, below, n
      <3>4. rest # Diverges /\ below # Diverges => <<n>> \o below \o rest \in Seq(Nodes(g))
        BY <3>1, <3>2 DEF RowsOrNot
      <3> QED
        BY <3>1, <3>2, <3>3, <3>4 DEF RowsOrNot
    <2> QED
      BY <2>1, <2>2
  <1>4. F \in [S \X [S -> V] -> V]
    BY <1>3
  <1>5. IsLocal(F, S, V, R)
    <2> SUFFICES ASSUME NEW x \in S, NEW a \in [S -> V], NEW h \in [S -> V],
                        \A y \in S : <<y, x>> \in R => a[y] = h[y]
                 PROVE  RowsRule(g, f, open, a, x) = RowsRule(g, f, open, h, x)
      BY DEF IsLocal
    <2>1. CASE x[1] = <<>>
      BY <2>1 DEF RowsRule
    <2>2. CASE x[1] # <<>>
      <3>1. a[<<Tail(x[1]), x[2]>>] = h[<<Tail(x[1]), x[2]>>]
        BY <2>2, PlaceIs
      <3>2. Head(x[1]) \notin x[2] =>
               a[<<SortedNeighbors(g, Head(x[1])), x[2] \union {Head(x[1])}>>]
                 = h[<<SortedNeighbors(g, Head(x[1])), x[2] \union {Head(x[1])}>>]
        BY <2>2, PlaceIs, SortedNeighborsAre
      <3> QED
        BY <3>1, <3>2 DEF RowsRule
    <2> QED
      BY <2>1, <2>2
  <1>6. HasMinimal(R, S) /\ IsTransitivelyClosedOn(R, S) /\ V # {}
    BY PlacesAreOrdered DEF RowsOrNot
  <1>7. \E a \in [S -> V] : \A at \in S : a[at] = F[<<at, a>>]
    <2> HIDE DEF F, S, V, R
    <2>1. IsRule(F, S, V, R)
      BY <1>4, <1>5, <1>6 DEF IsRule
    <2>2. Solvable(F, S, V)
      BY <2>1, Recursion
    <2> QED
      BY <2>2 DEF Solvable
  <1>8. \E a : a = [at \in S |-> RowsRule(g, f, open, a, at)]
    <2>1. PICK a \in [S -> V] : \A at \in S : a[at] = F[<<at, a>>]
      BY <1>7
    <2>2. a = [at \in S |-> RowsRule(g, f, open, a, at)]
      BY <2>1
    <2> QED
      BY <2>2
  <1>9. from = [at \in S |-> RowsRule(g, f, open, from, at)]
    BY <1>8, Zenon
  <1> HIDE DEF from
  <1> QED
    BY <1>1, <1>9

OpenEdges(g, f, open) == {e \in Edges(g) : e[1] \in open /\ WorthIn(g, f, e[2])}

OpenedIn(g, f, open, ids) == ClosureIn(Nodes(g), OpenEdges(g, f, open), ids)

WorthOf(g, f, ids) == {n \in ids : WorthIn(g, f, n)}

OpenedBelow(g, f, open, n) == IF n \in open THEN OpenedIn(g, f, open, WorthOf(g, f, Below(g, n))) ELSE {}

LEMMA OpenedIs ==
    ASSUME NEW g \in Graphs, NEW f, NEW open
    PROVE  /\ OpenedIn(g, f, open, {}) = {}
           /\ \A a, b \in SUBSET Nodes(g) :
                 OpenedIn(g, f, open, a \union b) = OpenedIn(g, f, open, a) \union OpenedIn(g, f, open, b)
           /\ \A n \in Nodes(g) : OpenedIn(g, f, open, {n}) = {n} \union OpenedBelow(g, f, open, n)
  <1> DEFINE P == OpenEdges(g, f, open)
  <1>1. P \in SUBSET (Nodes(g) \X Nodes(g))
    BY EdgesAre DEF OpenEdges
  <1>2. OpenedIn(g, f, open, {}) = {}
    BY ClosureOfNone DEF OpenedIn
  <1>3. ASSUME NEW a \in SUBSET Nodes(g), NEW b \in SUBSET Nodes(g)
        PROVE  OpenedIn(g, f, open, a \union b) = OpenedIn(g, f, open, a) \union OpenedIn(g, f, open, b)
    BY <1>1, ClosureOfBoth DEF OpenedIn
  <1>4. ASSUME NEW n \in Nodes(g)
        PROVE  OpenedIn(g, f, open, {n}) = {n} \union OpenedBelow(g, f, open, n)
    <2>1. OpenedIn(g, f, open, {n}) = {n} \union OpenedIn(g, f, open, From(P, n))
      BY <1>1, ClosureOfOne DEF OpenedIn
    <2>2. n \in open => From(P, n) = WorthOf(g, f, Below(g, n))
      BY DEF From, OpenEdges, WorthOf, Below, Edges
    <2>3. n \notin open => From(P, n) = {}
      BY DEF From, OpenEdges
    <2> QED
      BY <1>2, <2>1, <2>2, <2>3 DEF OpenedBelow
  <1> QED
    BY <1>2, <1>3, <1>4

RowsFine(g, f, open, at) ==
    LET rows == RowsOf(g, f, open)[at]
    IN  /\ rows \in RowsOrNot(g)
        /\ rows # Diverges => Range(rows) = OpenedIn(g, f, open, WorthOf(g, f, Range(at[1])))
        /\ rows = Diverges /\ IsWithin(g, at) => CyclicIn(g)
        /\ rows = Diverges => f # "" \/ open # {}

LEMMA RowsAre ==
    ASSUME NEW g \in Graphs, NEW f, NEW open, NEW place \in Places(g)
    PROVE  RowsFine(g, f, open, place)
  <1>0. /\ OpenedIn(g, f, open, {}) = {}
        /\ \A a, b \in SUBSET Nodes(g) :
              OpenedIn(g, f, open, a \union b) = OpenedIn(g, f, open, a) \union OpenedIn(g, f, open, b)
        /\ \A n \in Nodes(g) : OpenedIn(g, f, open, {n}) = {n} \union OpenedBelow(g, f, open, n)
    BY OpenedIs
  <1> DEFINE Bad == {at \in Places(g) : ~RowsFine(g, f, open, at)}
  <1>1. SUFFICES ASSUME Bad # {}
                 PROVE  FALSE
    OBVIOUS
  <1>2. PICK at \in Bad : \A other \in Bad : <<other, at>> \notin Deeper(g)
    <2>1. Bad \in SUBSET Places(g)
      OBVIOUS
    <2> HIDE DEF Bad
    <2> QED
      BY <1>1, <2>1, PlacesAreOrdered DEF HasMinimal
  <1>3. at \in Places(g) /\ ~RowsFine(g, f, open, at)
        /\ \A other \in Places(g) : <<other, at>> \in Deeper(g) => RowsFine(g, f, open, other)
    BY <1>2
  <1> HIDE DEF Bad
  <1> DEFINE rows == RowsOf(g, f, open)
             n == Head(at[1])
             next == <<Tail(at[1]), at[2]>>
             down == <<SortedNeighbors(g, n), at[2] \union {n}>>
             under == IF n \notin open THEN <<>> ELSE IF n \in at[2] THEN Diverges ELSE rows[down]
             WO(ids) == OpenedIn(g, f, open, WorthOf(g, f, ids))
  <1>4. rows[at] = RowsRule(g, f, open, rows, at)
    BY <1>3, RowsAreComputed
  <1> HIDE DEF rows
  <1>5. at[1] # <<>>
    <2>1. SUFFICES ASSUME at[1] = <<>>
                   PROVE  RowsFine(g, f, open, at)
      BY <1>3
    <2>2. rows[at] = <<>> /\ Range(at[1]) = {}
      BY <1>4, <2>1 DEF RowsRule, Range
    <2>3. WorthOf(g, f, {}) = {} /\ OpenedIn(g, f, open, {}) = {} /\ <<>> \in Seq(Nodes(g)) /\ Range(<<>>) = {}
      BY OpenedIs DEF WorthOf, Range
    <2>4. <<>> # Diverges
      BY <2>3, ExplorerAssumption DEF Nodes
    <2> QED
      BY <2>2, <2>3, <2>4 DEF RowsFine, rows, RowsOrNot
  <1>6. /\ n \in Nodes(g) /\ at[2] \in SUBSET Nodes(g) /\ Range(at[1]) = {n} \union Range(Tail(at[1]))
        /\ next \in Places(g) /\ RowsFine(g, f, open, next) /\ Tail(at[1]) \in Seq(Nodes(g))
    <2>1. next \in Places(g) /\ <<next, at>> \in Deeper(g)
      BY <1>3, <1>5, PlaceIs
    <2> QED
      BY <1>3, <1>5, <2>1, PlaceIs DEF Places
  <1>7. SortedNeighbors(g, n) \in Seq(Nodes(g)) /\ Range(SortedNeighbors(g, n)) = Below(g, n)
    BY SortedNeighborsAre
  <1>8. n \notin at[2] => RowsFine(g, f, open, down)
    BY <1>3, <1>5, <1>7, PlaceIs
  <1>9. IsWithin(g, at) => IsWithin(g, next) /\ IsWithin(g, down) /\ (n \in at[2] => CyclicIn(g))
    BY <1>3, <1>5, <1>7, PlaceIsWithin
  <1>10. /\ ~WorthIn(g, f, n) => WO(Range(at[1])) = WO(Range(Tail(at[1])))
         /\ WorthIn(g, f, n) => WO(Range(at[1])) = {n} \union OpenedBelow(g, f, open, n)
                                                      \union WO(Range(Tail(at[1])))
    <2> DEFINE others == WorthOf(g, f, Range(Tail(at[1])))
    <2>1. {n} \in SUBSET Nodes(g) /\ others \in SUBSET Nodes(g)
      BY <1>6 DEF Range, WorthOf
    <2>2. ~WorthIn(g, f, n) => WorthOf(g, f, Range(at[1])) = others
      BY <1>6 DEF WorthOf
    <2>3. WorthIn(g, f, n) => WorthOf(g, f, Range(at[1])) = {n} \union others
      BY <1>6 DEF WorthOf
    <2> HIDE DEF others
    <2>4. OpenedIn(g, f, open, {n} \union others) = OpenedIn(g, f, open, {n}) \union OpenedIn(g, f, open, others)
      BY <1>0, <2>1
    <2>5. OpenedIn(g, f, open, {n}) = {n} \union OpenedBelow(g, f, open, n)
      BY <1>0, <1>6
    <2> QED
      BY <2>2, <2>3, <2>4, <2>5 DEF others
  <1>11. next[1] = Tail(at[1]) /\ down[1] = SortedNeighbors(g, n)
    OBVIOUS
  <1>12. rows[at] = IF Kept(g, f, n) = "diverges" \/ rows[next] = Diverges THEN Diverges
                    ELSE IF Kept(g, f, n) = "no" THEN rows[next]
                    ELSE IF under = Diverges THEN Diverges
                    ELSE <<n>> \o under \o rows[next]
    BY <1>4, <1>5 DEF RowsRule
  <1>13. /\ rows[next] \in RowsOrNot(g)
         /\ rows[next] # Diverges => Range(rows[next]) = WO(Range(Tail(at[1])))
         /\ rows[next] = Diverges /\ IsWithin(g, at) => CyclicIn(g)
         /\ rows[next] = Diverges => f # "" \/ open # {}
    BY <1>6, <1>9, <1>11 DEF RowsFine, rows
  <1>14. /\ under \in RowsOrNot(g)
         /\ under # Diverges => Range(under) = OpenedBelow(g, f, open, n)
         /\ under = Diverges /\ IsWithin(g, at) => CyclicIn(g)
         /\ under = Diverges => open # {}
    <2>1. CASE n \notin open
      <3>1. under = <<>> /\ <<>> \in Seq(Nodes(g)) /\ Range(<<>>) = {}
        BY <2>1 DEF Range
      <3>2. <<>> # Diverges
        BY <3>1, ExplorerAssumption DEF Nodes
      <3> QED
        BY <2>1, <3>1, <3>2 DEF RowsOrNot, OpenedBelow
    <2>2. CASE n \in open /\ n \in at[2]
      BY <1>9, <2>2 DEF RowsOrNot
    <2>3. CASE n \in open /\ n \notin at[2]
      <3>1. under = rows[down]
        BY <2>3
      <3>2. RowsFine(g, f, open, down) /\ Range(down[1]) = Below(g, n)
        BY <1>7, <1>8, <1>11, <2>3
      <3>3. IsWithin(g, at) => IsWithin(g, down)
        BY <1>9
      <3> HIDE DEF under, down
      <3> QED
        BY <2>3, <3>1, <3>2, <3>3 DEF RowsFine, rows, OpenedBelow
    <2> QED
      BY <2>1, <2>2, <2>3
  <1>15. /\ Kept(g, f, n) \in Answers
         /\ Kept(g, f, n) = "yes" => WorthIn(g, f, n)
         /\ Kept(g, f, n) = "no" => ~WorthIn(g, f, n)
         /\ Kept(g, f, n) = "diverges" => CyclicIn(g)
         /\ f = "" => Kept(g, f, n) = "yes"
    BY <1>6, KeptIs
  <1> HIDE DEF next, down, n, under, WO
  <1>16. ASSUME under # Diverges, rows[next] # Diverges
         PROVE  /\ <<n>> \o under \o rows[next] \in Seq(Nodes(g))
                /\ Range(<<n>> \o under \o rows[next]) = {n} \union Range(under) \union Range(rows[next])
    <2>1. under \in Seq(Nodes(g)) /\ rows[next] \in Seq(Nodes(g)) /\ n \in Nodes(g)
      BY <1>6, <1>13, <1>14, <1>16 DEF RowsOrNot
    <2> QED
      BY <2>1, JoinedRange
  <1>17. RowsFine(g, f, open, at)
    <2> DEFINE it == rows[at]
    <2>1. SUFFICES /\ it \in RowsOrNot(g)
                   /\ it # Diverges => Range(it) = WO(Range(at[1]))
                   /\ it = Diverges /\ IsWithin(g, at) => CyclicIn(g)
                   /\ it = Diverges => f # "" \/ open # {}
      BY DEF RowsFine, rows, WO
    <2> HIDE DEF it
    <2>2. CASE Kept(g, f, n) = "diverges" \/ rows[next] = Diverges
      <3>1. it = Diverges
        BY <1>12, <2>2 DEF it
      <3> QED
        BY <1>13, <1>15, <2>2, <3>1 DEF RowsOrNot
    <2>3. CASE Kept(g, f, n) = "no" /\ rows[next] # Diverges
      <3>1. it = rows[next]
        BY <1>12, <2>3 DEF it
      <3> QED
        BY <1>10, <1>13, <1>15, <2>3, <3>1
    <2>4. CASE Kept(g, f, n) = "yes" /\ rows[next] # Diverges /\ under = Diverges
      <3>1. it = Diverges
        BY <1>12, <2>4 DEF it
      <3> QED
        BY <1>14, <2>4, <3>1 DEF RowsOrNot
    <2>5. CASE Kept(g, f, n) = "yes" /\ rows[next] # Diverges /\ under # Diverges
      <3>1. it = <<n>> \o under \o rows[next]
        BY <1>12, <2>5 DEF it
      <3>2. it \in Seq(Nodes(g)) /\ Range(it) = {n} \union Range(under) \union Range(rows[next])
        BY <1>16, <2>5, <3>1
      <3>3. it # Diverges
        BY <3>2, ExplorerAssumption DEF Nodes
      <3> QED
        BY <1>10, <1>13, <1>14, <1>15, <2>5, <3>2, <3>3 DEF RowsOrNot
    <2> QED
      BY <1>15, <2>2, <2>3, <2>4, <2>5 DEF Answers
  <1> QED
    BY <1>3, <1>17

-----------------------------------------------------------------------------
(* The paths to a node *)

PathsRule(g, dst, from, path) ==
    IF Last(path) = dst /\ Len(path) > 1 THEN {path}
    ELSE IF Len(path) > PathDepth THEN {}
    ELSE UNION {from[Append(path, n)] : n \in Range(Neighbors(g, Last(path))) \ Range(path)}

LEMMA PathsAreComputed ==
    ASSUME NEW g \in Graphs, NEW dst
    PROVE  \A path \in Seq(Nodes(g)) : PathsFrom(g, dst)[path] = PathsRule(g, dst, PathsFrom(g, dst), path)
  <1> DEFINE S == Seq(Nodes(g))
             V == SUBSET S
             F == [p \in S \X [S -> V] |-> PathsRule(g, dst, p[2], p[1])]
             R == Longer(Nodes(g), PathDepth)
             from == CHOOSE a : a = [path \in S |-> PathsRule(g, dst, a, path)]
  <1>1. PathsFrom(g, dst) = from
    BY Zenon DEF PathsFrom, PathsRule, Nodes
  <1>2. ASSUME NEW path \in S, NEW n \in Range(Neighbors(g, Last(path)))
        PROVE  n \in Nodes(g) /\ Append(path, n) \in S /\ (Len(path) <= PathDepth => <<Append(path, n), path>> \in R)
    <2>1. n \in Nodes(g)
      BY NeighborsAre, EdgesAre
    <2> QED
      BY <2>1, LongerIsOrder, ExplorerAssumption
  <1>3. ASSUME NEW path \in S, NEW h \in [S -> V]
        PROVE  PathsRule(g, dst, h, path) \in V
    BY <1>2 DEF PathsRule
  <1>4. F \in [S \X [S -> V] -> V]
    BY <1>3
  <1>5. IsLocal(F, S, V, R)
    <2> SUFFICES ASSUME NEW x \in S, NEW a \in [S -> V], NEW h \in [S -> V],
                        \A y \in S : <<y, x>> \in R => a[y] = h[y]
                 PROVE  PathsRule(g, dst, a, x) = PathsRule(g, dst, h, x)
      BY DEF IsLocal
    <2>1. CASE Len(x) > PathDepth
      BY <2>1 DEF PathsRule
    <2>2. CASE ~(Len(x) > PathDepth)
      <3>1. Len(x) <= PathDepth
        BY <2>2, ExplorerAssumption
      <3>2. \A n \in Range(Neighbors(g, Last(x))) : a[Append(x, n)] = h[Append(x, n)]
        BY <1>2, <3>1
      <3> QED
        BY <3>2 DEF PathsRule
    <2> QED
      BY <2>1, <2>2
  <1>6. HasMinimal(R, S) /\ IsTransitivelyClosedOn(R, S) /\ V # {}
    BY LongerIsOrder, ExplorerAssumption
  <1>7. \E a \in [S -> V] : \A path \in S : a[path] = F[<<path, a>>]
    <2> HIDE DEF F, S, V, R
    <2>1. IsRule(F, S, V, R)
      BY <1>4, <1>5, <1>6 DEF IsRule
    <2>2. Solvable(F, S, V)
      BY <2>1, Recursion
    <2> QED
      BY <2>2 DEF Solvable
  <1>8. \E a : a = [path \in S |-> PathsRule(g, dst, a, path)]
    <2>1. PICK a \in [S -> V] : \A path \in S : a[path] = F[<<path, a>>]
      BY <1>7
    <2>2. a = [path \in S |-> PathsRule(g, dst, a, path)]
      BY <2>1
    <2> QED
      BY <2>2
  <1>9. from = [path \in S |-> PathsRule(g, dst, from, path)]
    BY <1>8, Zenon
  <1> HIDE DEF from
  <1> QED
    BY <1>1, <1>9

\* The paths to a node that begin like one.
Continued(g, dst, path) == RoutesLike(Nodes(g), Edges(g), PathDepth, dst, path)

IsBegun(g, path) == RouteBegins(Nodes(g), Edges(g), PathDepth, path)

PathsFine(g, dst, path) == IsBegun(g, path) => PathsFrom(g, dst)[path] = Continued(g, dst, path)

LEMMA ContinuedIs ==
    ASSUME NEW g \in Graphs, NEW dst, NEW path, IsBegun(g, path)
    PROVE  /\ Last(path) = dst /\ Len(path) > 1 => Continued(g, dst, path) = {path}
           /\ ~(Last(path) = dst /\ Len(path) > 1) /\ Len(path) > PathDepth => Continued(g, dst, path) = {}
           /\ ~(Last(path) = dst /\ Len(path) > 1) /\ Len(path) <= PathDepth =>
                 Continued(g, dst, path) =
                    UNION {Continued(g, dst, Append(path, n)) : n \in Below(g, Last(path)) \ Range(path)}
           /\ Len(path) <= PathDepth => \A n \in Below(g, Last(path)) \ Range(path) : IsBegun(g, Append(path, n))
  <1>1. LeadInto(Edges(g), Nodes(g)) /\ From(Edges(g), Last(path)) = Below(g, Last(path)) /\ PathDepth \in Nat
    BY EdgesAre, ExplorerAssumption DEF LeadInto
  <1>2. Len(path) <= PathDepth => \A n \in Below(g, Last(path)) \ Range(path) : IsBegun(g, Append(path, n))
    BY <1>1, RouteLonger DEF IsBegun
  <1> DEFINE like(p) == RoutesLike(Nodes(g), Edges(g), PathDepth, dst, p)
             more == From(Edges(g), Last(path)) \ Range(path)
  <1>3. RouteBegins(Nodes(g), Edges(g), PathDepth, path)
    BY DEF IsBegun
  <1>4. /\ Last(path) = dst /\ Len(path) > 1 => like(path) = {path}
        /\ ~(Last(path) = dst /\ Len(path) > 1) /\ Len(path) > PathDepth => like(path) = {}
        /\ ~(Last(path) = dst /\ Len(path) > 1) /\ Len(path) <= PathDepth =>
              like(path) = UNION {like(Append(path, n)) : n \in more}
    BY <1>1, <1>3, RoutesLikeAre
  <1>5. \A p : Continued(g, dst, p) = like(p)
    BY DEF Continued
  <1> HIDE DEF like
  <1> QED
    BY <1>1, <1>2, <1>4, <1>5

LEMMA PathsFromAre ==
    ASSUME NEW g \in Graphs, NEW dst, NEW start \in Seq(Nodes(g))
    PROVE  PathsFine(g, dst, start)
  <1> DEFINE Bad == {path \in Seq(Nodes(g)) : ~PathsFine(g, dst, path)}
  <1>1. SUFFICES ASSUME Bad # {}
                 PROVE  FALSE
    OBVIOUS
  <1>2. PICK path \in Bad : \A other \in Bad : <<other, path>> \notin Longer(Nodes(g), PathDepth)
    <2>1. Bad \in SUBSET Seq(Nodes(g))
      OBVIOUS
    <2> HIDE DEF Bad
    <2> QED
      BY <1>1, <2>1, LongerIsOrder, ExplorerAssumption DEF HasMinimal
  <1>3. path \in Seq(Nodes(g)) /\ ~PathsFine(g, dst, path)
        /\ \A other \in Seq(Nodes(g)) : <<other, path>> \in Longer(Nodes(g), PathDepth) => PathsFine(g, dst, other)
    BY <1>2
  <1> HIDE DEF Bad
  <1> DEFINE from == PathsFrom(g, dst)
  <1>4. IsBegun(g, path) /\ from[path] # Continued(g, dst, path)
    BY <1>3 DEF PathsFine
  <1>5. from[path] = PathsRule(g, dst, from, path)
    BY <1>3, PathsAreComputed
  <1> HIDE DEF from
  <1>6. Range(Neighbors(g, Last(path))) = Below(g, Last(path)) /\ Below(g, Last(path)) \in SUBSET Nodes(g)
    BY NeighborsAre, EdgesAre
  <1>7. CASE Last(path) = dst /\ Len(path) > 1
    BY <1>4, <1>5, <1>7, ContinuedIs DEF PathsRule
  <1>8. CASE ~(Last(path) = dst /\ Len(path) > 1) /\ Len(path) > PathDepth
    BY <1>4, <1>5, <1>8, ContinuedIs DEF PathsRule
  <1>9. CASE ~(Last(path) = dst /\ Len(path) > 1) /\ ~(Len(path) > PathDepth)
    <2>1. Len(path) <= PathDepth
      BY <1>3, <1>9, ExplorerAssumption
    <2>2. ASSUME NEW n \in Below(g, Last(path)) \ Range(path)
          PROVE  from[Append(path, n)] = Continued(g, dst, Append(path, n))
      <3>1. Append(path, n) \in Seq(Nodes(g)) /\ <<Append(path, n), path>> \in Longer(Nodes(g), PathDepth)
        BY <1>3, <1>6, <2>1, LongerIsOrder, ExplorerAssumption
      <3>2. PathsFine(g, dst, Append(path, n))
        BY <1>3, <3>1
      <3>3. IsBegun(g, Append(path, n))
        BY <1>4, <2>1, ContinuedIs
      <3> QED
        BY <3>2, <3>3 DEF PathsFine, from
    <2>3. from[path] = UNION {from[Append(path, n)] : n \in Below(g, Last(path)) \ Range(path)}
      BY <1>5, <1>6, <1>9 DEF PathsRule
    <2>4. from[path] = UNION {Continued(g, dst, Append(path, n)) : n \in Below(g, Last(path)) \ Range(path)}
      BY <2>2, <2>3
    <2>5. Continued(g, dst, path) =
             UNION {Continued(g, dst, Append(path, n)) : n \in Below(g, Last(path)) \ Range(path)}
      BY <1>4, <1>9, <2>1, ContinuedIs
    <2> QED
      BY <1>4, <2>4, <2>5
  <1> QED
    BY <1>7, <1>8, <1>9

LEMMA PathsAre ==
    ASSUME NEW g \in Graphs, NEW top \in FindRoots(g), NEW dst
    PROVE  ComputePaths(g, top, dst) =
              {s \in UNION {[1..k -> Nodes(g)] : k \in 2..PathDepth + 1} :
                  /\ s[1] \in RootsIn(g)
                  /\ s[Len(s)] = dst
                  /\ IsInjective(s)
                  /\ \A i \in 1..Len(s) - 1 : s[i + 1] \in Below(g, s[i])}
  <1> DEFINE all == UNION {[1..k -> Nodes(g)] : k \in 2..PathDepth + 1}
             fits(s) == IsInjective(s) /\ \A i \in 1..Len(s) - 1 : s[i + 1] \in Below(g, s[i])
             found(root) == Routes(Nodes(g), Edges(g), PathDepth, root, dst)
  <1>1. ASSUME NEW root \in RootsIn(g)
        PROVE  PathsFrom(g, dst)[<<root>>] = found(root)
    <2>1. <<root>> \in Seq(Nodes(g)) /\ root \in Nodes(g) /\ PathDepth \in Nat
      BY ExplorerAssumption DEF RootsIn
    <2>2. IsBegun(g, <<root>>) /\ Continued(g, dst, <<root>>) = found(root)
      BY <2>1, RoutesAre DEF IsBegun, Continued
    <2> QED
      BY <2>1, <2>2, PathsFromAre DEF PathsFine
  <1>2. \A root : found(root) = {s \in all : fits(s) /\ s[1] = root /\ s[Len(s)] = dst}
    <2>1. \A s \in all : s \in Seq(Nodes(g))
      BY ExplorerAssumption
    <2> HIDE DEF all
    <2>2. \A s \in all : IsRoute(Nodes(g), Edges(g), s) <=> fits(s)
      BY <2>1, EdgesAre DEF IsRoute
    <2> HIDE DEF fits
    <2> QED
      BY <2>2 DEF Routes, all
  <1>3. Range(top) = RootsIn(g)
    BY RootsAre
  <1> HIDE DEF all, fits, found
  <1>4. ComputePaths(g, top, dst) = UNION {found(root) : root \in RootsIn(g)}
    BY <1>1, <1>3 DEF ComputePaths
  <1> QED
    BY <1>2, <1>4 DEF all, fits

-----------------------------------------------------------------------------
(* The selection *)

\* One graph is explored, and its view has its three parts: it is made when it
\* is first entered, and then kept.
Same ==
    /\ graph \in Graphs
    /\ view # None \/ mode = "graph" => DOMAIN view = {"zoom", "selected", "visible"}

LEMMA SameStep == Same /\ [Next]_vars => Same'
  <1> SUFFICES ASSUME Same, [Next]_vars
               PROVE  Same'
    OBVIOUS
  <1> USE DEF KeepTheRest, Same
  <1>1. CASE UNCHANGED vars
    BY <1>1 DEF vars
  <1>2. CASE Resize \/ Quit \/ Up \/ Down \/ PageUp \/ PageDown
    BY <1>2 DEF Resize, Quit, Up, Down, PageUp, PageDown, MoveTo
  <1>3. CASE Expand \/ Inspect \/ CloseInspect \/ Tab \/ CycleFilter \/ ShowPaths \/ ClosePaths
    BY <1>3 DEF Expand, Inspect, CloseInspect, Tab, CycleFilter, ShowPaths, ClosePaths
  <1>4. CASE StartSearch \/ Type \/ ConfirmSearch \/ CancelSearch
    BY <1>4 DEF StartSearch, Type, ConfirmSearch, CancelSearch, Searched
  <1>5. CASE EnterGraph
    BY <1>5 DEF EnterGraph
  <1>6. CASE SelectNext \/ SelectPrev
    <2>1. PICK position : view' = [view EXCEPT !.selected = position] /\ graph' = graph /\ mode = "graph"
      BY <1>6 DEF SelectNext, SelectPrev, Select, Graphing
    <2> QED
      BY <2>1
  <1>7. CASE ZoomIn \/ ZoomOut \/ SetZoomCluster
    BY <1>7 DEF ZoomIn, ZoomOut, SetZoomCluster, Zoom
  <1>8. CASE EnterWalker \/ WalkerUp \/ WalkerDown \/ DrillIn \/ GoUp \/ BackToTree
    BY <1>8 DEF EnterWalker, WalkerUp, WalkerDown, DrillIn, GoUp, Walk, BackToTree
  <1> QED
    BY <1>1, <1>2, <1>3, <1>4, <1>5, <1>6, <1>7, <1>8 DEF Next

\* What a zoom shows is a finite sequence.
LEMMA ArrangedIsFinite ==
    ASSUME NEW ids, IsFiniteSet(ids), NEW s \in SetToSeqs(ids)
    PROVE  Len(s) \in Nat /\ DOMAIN s = 1..Len(s)
  <1>1. Cardinality(ids) \in Nat
    BY FS_CardinalityType
  <1>2. s \in [1..Cardinality(ids) -> ids]
    BY DEF SetToSeqs
  <1> QED
    BY <1>1, <1>2

LEMMA AroundIsFinite ==
    ASSUME NEW g \in Graphs, NEW c
    PROVE  IsFiniteSet(Around(g, Around(g, {c})))
  <1> DEFINE all == DOMAIN g.nodes \union {c}
  <1>1. IsFiniteSet(all)
    BY GraphsAreClosed, FS_AddElement
  <1>2. \A e \in Range(g.edges) : e[1] \in all /\ e[2] \in all
    <2>1. g.edges \in Seq((DOMAIN g.nodes) \X (DOMAIN g.nodes))
      BY GraphsAreClosed
    <2> QED
      BY <2>1 DEF Range
  <1>3. \A ids : ids \subseteq all => Around(g, ids) \subseteq all
    BY <1>2 DEF Around
  <1>4. Around(g, Around(g, {c})) \subseteq all
    BY <1>3
  <1> QED
    BY <1>1, <1>4, FS_Subset

LEMMA ZoomedIsFinite ==
    ASSUME NEW g \in Graphs, NEW zoom \in {"risk", "neighborhood", "cluster"}, NEW c, NEW s \in ZoomedTo(g, zoom, c)
    PROVE  Len(s) \in Nat /\ DOMAIN s = 1..Len(s)
  <1>1. CASE zoom = "risk"
    <2> DEFINE ids == {n \in DOMAIN g.nodes : g.nodes[n].risk \in {"HIGH", "CRITICAL"}}
    <2>1. IsFiniteSet(ids)
      BY GraphsAreClosed, FS_Subset
    <2>2. s \in SetToSeqs(ids)
      BY <1>1 DEF ZoomedTo, RiskNodes, InScoreOrder
    <2> QED
      BY <2>1, <2>2, ArrangedIsFinite
  <1>2. CASE zoom = "neighborhood"
    <2>1. s \in SetToSeqs(Around(g, Around(g, {c})))
      BY <1>2 DEF ZoomedTo, NeighborhoodNodes, InScoreOrder
    <2> QED
      BY <2>1, AroundIsFinite, ArrangedIsFinite
  <1>3. CASE zoom = "cluster"
    <2>1. s \in SetToSeqs(DOMAIN g.nodes)
      BY <1>3 DEF ZoomedTo, ClusterNodes, Sorted
    <2> QED
      BY <2>1, GraphsAreClosed, ArrangedIsFinite
  <1> QED
    BY <1>1, <1>2, <1>3

\* A node that is on screen is found where it is.
LEMMA SelectedByID ==
    ASSUME NEW s, Len(s) \in Nat, NEW id, NEW old, Contains(s, id)
    PROVE  /\ SelectByID(s, id, old) \in 0..(Len(s) - 1)
           /\ s[SelectByID(s, id, old) + 1] = id
  <1>1. PICK i \in 1..Len(s) : s[i] = id
    BY DEF Contains
  <1>2. i - 1 \in 0..(Len(s) - 1) /\ s[(i - 1) + 1] = id
    BY <1>1
  <1>3. \E k \in 0..(Len(s) - 1) : s[k + 1] = id
    BY <1>2
  <1> QED
    BY <1>3 DEF SelectByID

LEMMA ZoomKeeps ==
    ASSUME Same, NEW to \in {"risk", "neighborhood", "cluster"}, Zoom(to), Contains(view'.visible, Selected(view))
    PROVE  Selected(view') = Selected(view)
  <1> DEFINE id == Selected(view)
  <1>1. PICK s \in ZoomedTo(graph, to, id) :
            view' = [zoom |-> to, visible |-> s, selected |-> SelectByID(s, id, ClampSelection(s, view.selected))]
    BY DEF Zoom
  <1>2. Len(s) \in Nat
    BY ZoomedIsFinite DEF Same
  <1> HIDE DEF id
  <1>3. Contains(s, id)
    BY <1>1 DEF id
  <1> DEFINE at == SelectByID(s, id, ClampSelection(s, view.selected))
  <1>4. at \in 0..(Len(s) - 1) /\ s[at + 1] = id
    BY <1>2, <1>3, SelectedByID
  <1>5. view'.visible = s /\ view'.selected = at
    BY <1>1
  <1> HIDE DEF at
  <1>6. view'.selected < Len(view'.visible)
    BY <1>2, <1>4, <1>5
  <1> QED
    BY <1>4, <1>5, <1>6 DEF Selected, id

\* Whatever is on screen and however its nodes of equal score, or of equal type
\* and name, are ordered, zooming in, out or to all of the graph leaves the selection where it was
\* if that is still shown.  (selectByID)
THEOREM SelectionSurvivesZoom == Spec => ZoomKeepsSelection
  <1>1. Init => Same
    BY DEF Init, Same
  <1>2. Same /\ [Next]_vars =>
            ((view # None /\ view' # None /\ view'.zoom # view.zoom)
                => (Contains(view'.visible, Selected(view)) => Selected(view') = Selected(view)))
    <2> SUFFICES ASSUME Same, [Next]_vars, view # None, view'.zoom # view.zoom, Contains(view'.visible, Selected(view))
                 PROVE  Selected(view') = Selected(view)
      OBVIOUS
    <2> USE DEF KeepTheRest
    <2>1. CASE UNCHANGED vars
      BY <2>1 DEF vars
    <2>2. CASE Resize \/ Quit \/ Up \/ Down \/ PageUp \/ PageDown
      BY <2>2 DEF Resize, Quit, Up, Down, PageUp, PageDown, MoveTo
    <2>3. CASE Expand \/ Inspect \/ CloseInspect \/ Tab \/ CycleFilter \/ ShowPaths \/ ClosePaths
      BY <2>3 DEF Expand, Inspect, CloseInspect, Tab, CycleFilter, ShowPaths, ClosePaths
    <2>4. CASE StartSearch \/ Type \/ ConfirmSearch \/ CancelSearch
      BY <2>4 DEF StartSearch, Type, ConfirmSearch, CancelSearch, Searched
    <2>5. CASE EnterGraph
      BY <2>5 DEF EnterGraph
    <2>6. CASE SelectNext \/ SelectPrev
      <3>1. PICK position : view' = [view EXCEPT !.selected = position]
        BY <2>6 DEF SelectNext, SelectPrev, Select
      <3> QED
        BY <3>1 DEF Same
    <2>7. CASE ZoomIn
      BY <2>7, ZoomKeeps DEF ZoomIn
    <2>8. CASE ZoomOut
      BY <2>8, ZoomKeeps DEF ZoomOut
    <2>9. CASE SetZoomCluster
      BY <2>9, ZoomKeeps DEF SetZoomCluster
    <2>10. CASE EnterWalker \/ WalkerUp \/ WalkerDown \/ DrillIn \/ GoUp \/ BackToTree
      BY <2>10 DEF EnterWalker, WalkerUp, WalkerDown, DrillIn, GoUp, Walk, BackToTree
    <2> QED
      BY <2>1, <2>2, <2>3, <2>4, <2>5, <2>6, <2>7, <2>8, <2>9, <2>10 DEF Next
  <1> QED
    BY <1>1, <1>2, SameStep, PTL DEF Spec, ZoomKeepsSelection

-----------------------------------------------------------------------------
(* The list *)

\* The list shown is one that could be computed now.
Fresh ==
    mode \in {"tree", "flat"} /\ run # "crashed" =>
        list.visible \in Rows(graph, roots, mode, expanded, filter, search.query)

LEMMA RedrawIsFresh ==
    ASSUME NEW rows, NEW placed, placed.visible = rows, Redraw(rows, placed), run' # "crashed"
    PROVE  list'.visible = rows
  BY DEF Redraw

LEMMA FreshStep == Fresh /\ [Next]_vars => Fresh'
  <1> SUFFICES ASSUME Fresh, [Next]_vars
               PROVE  Fresh'
    OBVIOUS
  <1> USE DEF KeepTheRest
  <1>1. \A rows, cursor, lines : At(rows, cursor, lines).visible = rows
    BY DEF At
  <1>2. \A rows, lines : Clamp(rows, lines).visible = rows
    BY <1>1 DEF Clamp
  <1>3. \A rows : Top(rows).visible = rows
    BY DEF Top
  <1>4. CASE UNCHANGED vars
    BY <1>4 DEF vars, Fresh
  <1>5. CASE Resize
    BY <1>2, <1>5 DEF Resize, Fresh
  <1>6. CASE Up \/ Down \/ PageUp \/ PageDown
    <2>1. PICK cursor : MoveTo(cursor)
      BY <1>6 DEF Up, Down, PageUp, PageDown
    <2> QED
      BY <1>1, <2>1 DEF MoveTo, Fresh
  <1>7. CASE Quit \/ Inspect \/ CloseInspect \/ ShowPaths \/ ClosePaths
    BY <1>7 DEF Quit, Inspect, CloseInspect, ShowPaths, ClosePaths, Fresh, Browsing
  <1>8. CASE StartSearch
    BY <1>8 DEF StartSearch, Fresh
  <1>9. ASSUME NEW rows \in Rows(graph', roots', mode', expanded', filter', search'.query),
               NEW lines, Redraw(rows, Clamp(rows, lines)) \/ Redraw(rows, Top(rows))
        PROVE  Fresh'
    <2>1. run' # "crashed" => list'.visible = rows
      BY <1>2, <1>3, <1>9, RedrawIsFresh
    <2> QED
      BY <2>1 DEF Fresh
  <1>10. CASE Expand
    BY <1>9, <1>10 DEF Expand
  <1>11. CASE Tab
    BY <1>9, <1>11 DEF Tab
  <1>12. CASE CycleFilter
    BY <1>9, <1>12 DEF CycleFilter
  <1>13. CASE Type \/ ConfirmSearch \/ CancelSearch
    <2>1. PICK q, on, lines : \E rows \in Rows(graph, roots, mode, expanded, filter, q) :
              Searched(on, q, rows, Clamp(rows, lines)) \/ Searched(on, q, rows, Top(rows))
      BY <1>13 DEF Type, ConfirmSearch, CancelSearch
    <2>2. PICK rows \in Rows(graph, roots, mode, expanded, filter, q) :
              Searched(on, q, rows, Clamp(rows, lines)) \/ Searched(on, q, rows, Top(rows))
      BY <2>1
    <2>3. /\ search'.query = q /\ (Redraw(rows, Clamp(rows, lines)) \/ Redraw(rows, Top(rows)))
          /\ UNCHANGED <<graph, roots, mode, expanded, filter>>
      BY <2>2 DEF Searched
    <2> QED
      BY <1>9, <2>3
  <1>14. CASE BackToTree
    BY <1>9, <1>14 DEF BackToTree
  <1>15. CASE EnterGraph \/ EnterWalker
    BY <1>15 DEF EnterGraph, EnterWalker, Fresh
  <1>16. CASE SelectNext \/ SelectPrev \/ ZoomIn \/ ZoomOut \/ SetZoomCluster
    BY <1>16 DEF SelectNext, SelectPrev, Select, ZoomIn, ZoomOut, SetZoomCluster, Zoom, Fresh
  <1>17. CASE WalkerUp \/ WalkerDown \/ DrillIn \/ GoUp
    BY <1>17 DEF WalkerUp, WalkerDown, DrillIn, GoUp, Walk, Fresh
  <1> QED
    BY <1>4, <1>5, <1>6, <1>7, <1>8, <1>9, <1>10, <1>11, <1>12, <1>13, <1>14, <1>15, <1>16, <1>17 DEF Next

LEMMA FreshFirst == Init => Fresh
  <1> SUFFICES ASSUME Init
               PROVE  Fresh
    OBVIOUS
  <1>1. /\ list.visible \in Rows(graph, roots, "tree", {}, "", NoQuery)
        /\ mode = "tree" /\ expanded = {} /\ filter = "" /\ search.query = NoQuery
    <2>1. PICK rows \in Rows(graph, roots, "tree", {}, "", NoQuery) : list = Top(rows)
      BY DEF Init
    <2>2. Top(rows).visible = rows
      BY DEF Top
    <2> QED
      BY <2>1, <2>2 DEF Init
  <1>2. list.visible \in Rows(graph, roots, mode, expanded, filter, search.query)
    BY <1>1, Zenon
  <1> QED
    BY <1>2 DEF Fresh

\* Whatever keys are pressed, in whatever order, the list on screen is one that
\* rebuildVisible could compute now, that is but for the order of the nodes it
\* does not tell apart the one it would: no handler that changes the mode, the
\* expanded nodes, the filter or the query leaves an old one.
THEOREM ListIsFresh == Spec => []Fresh
  BY FreshFirst, FreshStep, PTL DEF Spec

-----------------------------------------------------------------------------
(* What the list shows *)

DueIn(g, m, open, f, q) ==
    LET shown == IF m = "tree" THEN OpenedIn(g, f, open, WorthOf(g, f, RootsIn(g)))
                 ELSE {n \in Nodes(g) : PassesFilter(g, f, n)}
    IN  {n \in shown : Matching(q, n)}

\* What a list shows, or why there is none.
Shows(g, m, open, f, q, it) ==
    /\ it = Diverges => CyclicIn(g) /\ (f # "" \/ open # {})
    /\ it # Diverges => it \in Seq(Nodes(g)) /\ Range(it) = DueIn(g, m, open, f, q)

LEMMA RowsShow ==
    ASSUME NEW g \in Graphs, NEW top \in FindRoots(g), NEW m, NEW open, NEW f, NEW q, NEW it \in Rows(g, top, m, open, f, q)
    PROVE  Shows(g, m, open, f, q, it)
  <1>0. PICK rows \in (IF m = "tree" THEN {TreeRows(g, top, f, open)} ELSE FlatRows(g, f)) :
            it = IF rows = Diverges THEN Diverges ELSE ApplySearchFilter(q, rows)
    BY DEF Rows
  <1> DEFINE shown == IF m = "tree" THEN OpenedIn(g, f, open, WorthOf(g, f, RootsIn(g)))
                      ELSE {n \in Nodes(g) : PassesFilter(g, f, n)}
             place == <<top, {}>>
  <1>1. /\ rows = Diverges => CyclicIn(g) /\ (f # "" \/ open # {})
        /\ rows # Diverges => rows \in Seq(Nodes(g)) /\ Range(rows) = shown
    <2>1. CASE m = "tree"
      <3>1. top \in Seq(Nodes(g)) /\ Range(top) = RootsIn(g)
        BY RootsAre
      <3>2. place \in Places(g) /\ place[1] = top
        BY <3>1 DEF Places
      <3>3. RowsFine(g, f, open, place) /\ IsWithin(g, place)
        BY <3>2, RowsAre DEF IsWithin
      <3>4. rows = RowsOf(g, f, open)[place]
        BY <1>0, <2>1 DEF TreeRows
      <3> HIDE DEF place
      <3>5. shown = OpenedIn(g, f, open, WorthOf(g, f, RootsIn(g)))
        BY <2>1
      <3> HIDE DEF shown
      <3> QED
        BY <3>1, <3>2, <3>3, <3>4, <3>5 DEF RowsFine, RowsOrNot
    <2>2. CASE m # "tree"
      <3>1. rows \in FlatRows(g, f) /\ shown = {n \in Nodes(g) : PassesFilter(g, f, n)}
        BY <1>0, <2>2
      <3> HIDE DEF shown
      <3>2. rows \in Seq(Nodes(g)) /\ Range(rows) = shown
        BY <3>1, FlatRowsAre
      <3>3. rows # Diverges
        BY <3>2, ExplorerAssumption DEF Nodes
      <3> QED
        BY <3>2, <3>3
    <2> QED
      BY <2>1, <2>2
  <1>2. it = IF rows = Diverges THEN Diverges ELSE ApplySearchFilter(q, rows)
    BY <1>0
  <1>3. DueIn(g, m, open, f, q) = {n \in shown : Matching(q, n)}
    BY DEF DueIn
  <1> HIDE DEF shown
  <1>4. CASE rows = Diverges
    BY <1>1, <1>2, <1>4 DEF Shows
  <1>5. CASE rows # Diverges
    <2>1. /\ ApplySearchFilter(q, rows) \in Seq(Nodes(g))
          /\ Range(ApplySearchFilter(q, rows)) = {n \in Range(rows) : Matching(q, n)}
      BY <1>1, <1>5, MatchesAre
    <2>2. ApplySearchFilter(q, rows) # Diverges
      BY <2>1, ExplorerAssumption DEF Nodes
    <2> QED
      BY <1>1, <1>2, <1>3, <1>5, <2>1, <2>2 DEF Shows
  <1> QED
    BY <1>4, <1>5

-----------------------------------------------------------------------------
(* Where the cursor is put *)

LEMMA MaxOfTwo ==
    ASSUME NEW a \in Int, NEW b \in Int
    PROVE  Max({a, b}) = IF a >= b THEN a ELSE b
  <1> DEFINE m == IF a >= b THEN a ELSE b
  <1>1. m \in {a, b} /\ \A y \in {a, b} : m >= y
    OBVIOUS
  <1>2. ASSUME NEW x \in {a, b}, \A y \in {a, b} : x >= y
        PROVE  x = m
    BY <1>2
  <1> HIDE DEF m
  <1>3. Max({a, b}) = m
    BY <1>1, <1>2 DEF Max
  <1> QED
    BY <1>3 DEF m

LEMMA MinOfTwo ==
    ASSUME NEW a \in Int, NEW b \in Int
    PROVE  Min({a, b}) = IF a <= b THEN a ELSE b
  <1> DEFINE m == IF a <= b THEN a ELSE b
  <1>1. m \in {a, b} /\ \A y \in {a, b} : m <= y
    OBVIOUS
  <1>2. ASSUME NEW x \in {a, b}, \A y \in {a, b} : x <= y
        PROVE  x = m
    BY <1>2
  <1> HIDE DEF m
  <1>3. Min({a, b}) = m
    BY <1>1, <1>2 DEF Min
  <1> QED
    BY <1>3 DEF m

\* The last row, or the first where there is none.
LastRow(rows) == Max({0, Len(rows) - 1})

LEMMA LastRowIs ==
    ASSUME NEW T, NEW rows \in Seq(T)
    PROVE  LastRow(rows) = IF Len(rows) = 0 THEN 0 ELSE Len(rows) - 1
  <1>1. Len(rows) \in Nat /\ Len(rows) - 1 \in Int
    OBVIOUS
  <1>2. LastRow(rows) = IF 0 >= Len(rows) - 1 THEN 0 ELSE Len(rows) - 1
    BY <1>1, MaxOfTwo DEF LastRow
  <1> QED
    BY <1>1, <1>2

Drawn(g, l) ==
    /\ l.visible \in Seq(Nodes(g))
    /\ l.cursor \in 0..LastRow(l.visible)
    /\ l.offset \in 0..l.cursor

LEMMA LinesAre ==
    ASSUME NEW h \in Heights, NEW on
    PROVE  ContentHeight(h, on) \in Nat /\ ContentHeight(h, on) >= 1
  <1> DEFINE k == h - 2 - (IF on THEN 1 ELSE 0)
  <1>1. h \in Nat
    BY ExplorerAssumption
  <1>2. k \in Int
    BY <1>1
  <1>3. ContentHeight(h, on) = Max({1, k})
    BY DEF ContentHeight
  <1> HIDE DEF k
  <1> QED
    BY <1>2, <1>3, MaxOfTwo

LEMMA AtIs ==
    ASSUME NEW g, NEW rows \in Seq(Nodes(g)), NEW cursor \in 0..LastRow(rows), NEW lines \in Nat, lines >= 1,
           list.offset \in Int
    PROVE  Drawn(g, At(rows, cursor, lines)) /\ At(rows, cursor, lines).cursor = cursor
  <1> DEFINE offset == EnsureVisible(cursor, list.offset, lines)
             above == IF cursor < list.offset THEN cursor ELSE list.offset
             below == IF cursor >= above + lines THEN cursor - lines + 1 ELSE above
  <1>1. cursor \in Nat
    <2>1. LastRow(rows) \in Int
      BY LastRowIs
    <2> QED
      BY <2>1
  <1>2. offset = Max({0, below})
    BY DEF EnsureVisible
  <1>3. below \in Int /\ below <= cursor
    BY <1>1
  <1> HIDE DEF above, below
  <1>4. offset \in 0..cursor
    <2>1. Max({0, below}) = IF 0 >= below THEN 0 ELSE below
      BY <1>3, MaxOfTwo
    <2> QED
      BY <1>1, <1>2, <1>3, <2>1
  <1>5. At(rows, cursor, lines) = [visible |-> rows, cursor |-> cursor, offset |-> offset]
    BY DEF At
  <1> HIDE DEF offset
  <1> QED
    BY <1>4, <1>5 DEF Drawn

LEMMA ClampIs ==
    ASSUME NEW g, NEW rows \in Seq(Nodes(g)), NEW lines \in Nat, lines >= 1, list.offset \in Int, list.cursor \in Int
    PROVE  /\ Drawn(g, Clamp(rows, lines)) /\ Clamp(rows, lines).visible = rows
           /\ list.cursor \in 0..Len(rows) - 1 => Clamp(rows, lines).cursor = list.cursor
  <1> DEFINE k == Min({list.cursor, Len(rows) - 1})
             cursor == Max({0, k})
  <1>1. Len(rows) \in Nat /\ Len(rows) - 1 \in Int
    OBVIOUS
  <1>2. k = (IF list.cursor <= Len(rows) - 1 THEN list.cursor ELSE Len(rows) - 1)
    BY <1>1, MinOfTwo
  <1> HIDE DEF k
  <1>3. k \in Int /\ k <= Len(rows) - 1
    BY <1>1, <1>2
  <1>4. cursor = IF 0 >= k THEN 0 ELSE k
    BY <1>3, MaxOfTwo
  <1>5. Clamp(rows, lines) = At(rows, cursor, lines)
    BY DEF Clamp, k
  <1> HIDE DEF cursor
  <1>6. cursor \in 0..LastRow(rows)
    BY <1>1, <1>3, <1>4, LastRowIs
  <1>7. list.cursor \in 0..Len(rows) - 1 => cursor = list.cursor
    BY <1>1, <1>2, <1>4
  <1>8. Drawn(g, At(rows, cursor, lines)) /\ At(rows, cursor, lines).cursor = cursor
    BY <1>6, AtIs
  <1>9. At(rows, cursor, lines).visible = rows
    BY DEF At
  <1> QED
    BY <1>5, <1>7, <1>8, <1>9

LEMMA TopIs ==
    ASSUME NEW g, NEW rows \in Seq(Nodes(g))
    PROVE  Drawn(g, Top(rows))
  <1>1. LastRow(rows) \in Nat
    BY LastRowIs
  <1>2. Top(rows) = [visible |-> rows, cursor |-> 0, offset |-> 0]
    BY DEF Top
  <1> QED
    BY <1>1, <1>2 DEF Drawn

-----------------------------------------------------------------------------
(* Every step *)

LEMMA GraphStays == [Next]_vars => graph' = graph /\ roots' = roots
  <1> SUFFICES ASSUME [Next]_vars
               PROVE  graph' = graph /\ roots' = roots
    OBVIOUS
  <1> USE DEF KeepTheRest
  <1>1. CASE UNCHANGED vars
    BY <1>1 DEF vars
  <1>2. CASE Resize \/ Quit \/ Up \/ Down \/ PageUp \/ PageDown
    BY <1>2 DEF Resize, Quit, Up, Down, PageUp, PageDown, MoveTo
  <1>3. CASE Expand \/ Inspect \/ CloseInspect \/ Tab \/ CycleFilter \/ ShowPaths \/ ClosePaths
    BY <1>3 DEF Expand, Inspect, CloseInspect, Tab, CycleFilter, ShowPaths, ClosePaths
  <1>4. CASE StartSearch \/ Type \/ ConfirmSearch \/ CancelSearch
    BY <1>4 DEF StartSearch, Type, ConfirmSearch, CancelSearch, Searched
  <1>5. CASE EnterGraph \/ SelectNext \/ SelectPrev \/ ZoomIn \/ ZoomOut \/ SetZoomCluster
    BY <1>5 DEF EnterGraph, SelectNext, SelectPrev, Select, ZoomIn, ZoomOut, SetZoomCluster, Zoom
  <1>6. CASE EnterWalker \/ WalkerUp \/ WalkerDown \/ DrillIn \/ GoUp \/ BackToTree
    BY <1>6 DEF EnterWalker, WalkerUp, WalkerDown, DrillIn, GoUp, Walk, BackToTree
  <1> QED
    BY <1>1, <1>2, <1>3, <1>4, <1>5, <1>6 DEF Next

\* The explorer has fallen over a cycle, or its list and its cursor are sound.
Standing ==
    /\ graph \in Graphs /\ roots \in FindRoots(graph) /\ height \in Heights
    /\ run = "crashed" => CyclicIn(graph)
    /\ run # "crashed" => Drawn(graph, list)

LEMMA DrawnIs ==
    ASSUME NEW g, NEW l, Drawn(g, l)
    PROVE  /\ l.visible \in Seq(Nodes(g)) /\ l.cursor \in Nat /\ l.offset \in Nat /\ Len(l.visible) \in Nat
           /\ LastRow(l.visible) = IF Len(l.visible) = 0 THEN 0 ELSE Len(l.visible) - 1
           /\ l.cursor <= LastRow(l.visible) /\ l.offset <= l.cursor
  <1>1. l.visible \in Seq(Nodes(g)) /\ l.cursor \in 0..LastRow(l.visible) /\ l.offset \in 0..l.cursor
    BY DEF Drawn
  <1>2. LastRow(l.visible) = IF Len(l.visible) = 0 THEN 0 ELSE Len(l.visible) - 1
    BY <1>1, LastRowIs
  <1>3. LastRow(l.visible) \in Nat
    BY <1>1, <1>2
  <1> QED
    BY <1>1, <1>2, <1>3

\* What a handler that rebuilds the list leaves.
LEMMA RedrawStands ==
    ASSUME Standing, run = "running", NEW m, NEW open, NEW f, NEW q, NEW rows \in Rows(graph, roots, m, open, f, q),
           NEW lines \in Nat, lines >= 1, NEW placed \in {Clamp(rows, lines), Top(rows)},
           Redraw(rows, placed), graph' = graph, roots' = roots, height' \in Heights
    PROVE  Standing'
  <1>1. CASE rows = Diverges
    <2>1. run' = "crashed" /\ CyclicIn(graph)
      BY <1>1, RowsShow DEF Redraw, Standing, Shows
    <2> QED
      BY <2>1 DEF Standing
  <1>2. CASE rows # Diverges
    <2>1. list' = placed /\ run' = run
      BY <1>2 DEF Redraw
    <2>2. rows \in Seq(Nodes(graph))
      BY <1>2, RowsShow DEF Standing, Shows
    <2>3. list.offset \in Int /\ list.cursor \in Int
      BY DrawnIs DEF Standing
    <2>4. Drawn(graph, placed)
      BY <2>2, <2>3, ClampIs, TopIs
    <2> QED
      BY <2>1, <2>4 DEF Standing
  <1> QED
    BY <1>1, <1>2

LEMMA StandingStep == Standing /\ [Next]_vars => Standing'
  <1> SUFFICES ASSUME Standing, [Next]_vars
               PROVE  Standing'
    OBVIOUS
  <1>1. graph' = graph /\ roots' = roots
    BY GraphStays
  <1>2. run # "crashed" =>
           /\ list.visible \in Seq(Nodes(graph)) /\ list.cursor \in Nat /\ list.offset \in Nat /\ Len(list.visible) \in Nat
           /\ LastRow(list.visible) = IF Len(list.visible) = 0 THEN 0 ELSE Len(list.visible) - 1
           /\ list.cursor <= LastRow(list.visible) /\ list.offset <= list.cursor
    BY DrawnIs DEF Standing
  <1>3. \A on : ContentHeight(height, on) \in Nat /\ ContentHeight(height, on) >= 1
    BY LinesAre DEF Standing
  <1>4. Lines \in Nat /\ Lines >= 1
    BY <1>3 DEF Lines
  <1>5. CASE UNCHANGED <<list, run, height>>
    BY <1>1, <1>5 DEF Standing
  <1>6. CASE Resize
    <2>1. PICK h \in Heights : height' = h /\ list' = Clamp(list.visible, ContentHeight(h, search.on))
                               /\ run = "running" /\ run' = run
      BY <1>6 DEF Resize
    <2>2. ContentHeight(h, search.on) \in Nat /\ ContentHeight(h, search.on) >= 1
      BY LinesAre
    <2>3. Drawn(graph, list')
      BY <1>2, <2>1, <2>2, ClampIs
    <2> QED
      BY <1>1, <2>1, <2>3 DEF Standing
  <1>7. ASSUME NEW cursor, MoveTo(cursor), cursor \in 0..LastRow(list.visible)
        PROVE  Standing'
    <2>1. list' = At(list.visible, cursor, Lines) /\ run = "running" /\ run' = run /\ height' = height
      BY <1>7 DEF MoveTo, Browsing
    <2>2. Drawn(graph, list')
      BY <1>2, <1>4, <1>7, <2>1, AtIs
    <2> QED
      BY <1>1, <2>1, <2>2 DEF Standing
  <1>8. CASE Up
    <2>1. MoveTo(Max({0, list.cursor - 1})) /\ run = "running"
      BY <1>8 DEF Up, MoveTo, Browsing
    <2>2. Max({0, list.cursor - 1}) = IF 0 >= list.cursor - 1 THEN 0 ELSE list.cursor - 1
      BY <1>2, <2>1, MaxOfTwo
    <2>3. Max({0, list.cursor - 1}) \in 0..LastRow(list.visible)
      BY <1>2, <2>1, <2>2
    <2> QED
      BY <1>7, <2>1, <2>3
  <1>9. CASE Down
    <2>1. MoveTo(list.cursor + 1) /\ run = "running" /\ list.cursor < Len(list.visible) - 1
      BY <1>9 DEF Down, MoveTo, Browsing
    <2>2. list.cursor + 1 \in 0..LastRow(list.visible)
      BY <1>2, <2>1
    <2> QED
      BY <1>7, <2>1, <2>2
  <1>10. Lines \div 2 \in Nat
    BY <1>4
  <1>11. CASE PageUp
    <2> DEFINE k == list.cursor - Lines \div 2
    <2>1. MoveTo(Max({0, k})) /\ run = "running"
      BY <1>11 DEF PageUp, MoveTo, Browsing
    <2>2. k \in Int /\ k <= list.cursor
      BY <1>2, <1>10, <2>1
    <2> HIDE DEF k
    <2>3. Max({0, k}) = IF 0 >= k THEN 0 ELSE k
      BY <2>2, MaxOfTwo
    <2>4. Max({0, k}) \in 0..LastRow(list.visible)
      BY <1>2, <2>1, <2>2, <2>3
    <2> QED
      BY <1>7, <2>1, <2>4
  <1>12. CASE PageDown
    <2> DEFINE j == list.cursor + Lines \div 2
               k == Min({j, Len(list.visible) - 1})
    <2>1. MoveTo(Max({0, k})) /\ run = "running"
      BY <1>12 DEF PageDown, MoveTo, Browsing
    <2>2. j \in Int
      BY <1>2, <1>10, <2>1
    <2> HIDE DEF j
    <2>3. k = IF j <= Len(list.visible) - 1 THEN j ELSE Len(list.visible) - 1
      BY <1>2, <2>1, <2>2, MinOfTwo
    <2> HIDE DEF k
    <2>4. k \in Int /\ k <= Len(list.visible) - 1
      BY <1>2, <2>1, <2>2, <2>3
    <2>5. Max({0, k}) = IF 0 >= k THEN 0 ELSE k
      BY <2>4, MaxOfTwo
    <2>6. Max({0, k}) \in 0..LastRow(list.visible)
      BY <1>2, <2>1, <2>4, <2>5
    <2> QED
      BY <1>7, <2>1, <2>6
  <1>13. CASE Quit
    BY <1>1, <1>13 DEF Quit, Standing
  <1>14. CASE Inspect \/ CloseInspect \/ ShowPaths \/ ClosePaths \/ StartSearch
    BY <1>5, <1>14 DEF Inspect, CloseInspect, ShowPaths, ClosePaths, StartSearch
  <1>15. height \in Heights
    BY DEF Standing
  <1>16. ASSUME NEW m, NEW open, NEW f, NEW q, NEW lines \in Nat, lines >= 1, run = "running", height' = height,
                \E rows \in Rows(graph, roots, m, open, f, q) :
                    Redraw(rows, Clamp(rows, lines)) \/ Redraw(rows, Top(rows))
         PROVE  Standing'
    <2>1. PICK rows \in Rows(graph, roots, m, open, f, q) : Redraw(rows, Clamp(rows, lines)) \/ Redraw(rows, Top(rows))
      BY <1>16
    <2> DEFINE a == Clamp(rows, lines)
               b == Top(rows)
    <2>2. PICK placed \in {a, b} : Redraw(rows, placed)
      BY <2>1
    <2> QED
      BY <1>1, <1>15, <1>16, <2>2, RedrawStands
  <1>17. CASE Expand
    BY <1>4, <1>16, <1>17 DEF Expand, Browsing
  <1>18. CASE Tab
    BY <1>4, <1>16, <1>18 DEF Tab, Browsing
  <1>19. CASE CycleFilter
    BY <1>4, <1>16, <1>19 DEF CycleFilter, Browsing
  <1>20. CASE Type
    BY <1>3, <1>16, <1>20 DEF Type, Searched, Searching
  <1>21. CASE ConfirmSearch \/ CancelSearch
    BY <1>3, <1>16, <1>21 DEF ConfirmSearch, CancelSearch, Searched, Searching
  <1>22. CASE BackToTree
    BY <1>4, <1>16, <1>22 DEF BackToTree
  <1>23. CASE EnterGraph \/ SelectNext \/ SelectPrev \/ ZoomIn \/ ZoomOut \/ SetZoomCluster
    BY <1>5, <1>23 DEF EnterGraph, SelectNext, SelectPrev, Select, ZoomIn, ZoomOut, SetZoomCluster, Zoom, KeepTheRest
  <1>24. CASE EnterWalker \/ WalkerUp \/ WalkerDown \/ DrillIn \/ GoUp
    BY <1>5, <1>24 DEF EnterWalker, WalkerUp, WalkerDown, DrillIn, GoUp, Walk, KeepTheRest
  <1>25. CASE UNCHANGED vars
    BY <1>5, <1>25 DEF vars
  <1> QED
    BY <1>6, <1>8, <1>9, <1>11, <1>12, <1>13, <1>14, <1>17, <1>18, <1>19, <1>20, <1>21, <1>22, <1>23, <1>24,
       <1>25 DEF Next

-----------------------------------------------------------------------------
(* The paths panel *)

\* While paths are shown nothing but the size of the terminal changes the list,
\* and that leaves the cursor where it is.
PathsShown ==
    paths # None =>
        /\ mode \in {"tree", "flat"} /\ ~search.on /\ run # "crashed"
        /\ OnARow
        /\ paths = ComputePaths(graph, roots, UnderCursor)

LEMMA PathsStep == Standing /\ PathsShown /\ [Next]_vars => PathsShown'
  <1> SUFFICES ASSUME Standing, PathsShown, [Next]_vars, paths' # None
               PROVE  PathsShown'
    BY DEF PathsShown
  <1>1. graph' = graph /\ roots' = roots
    BY GraphStays
  <1>2. CASE UNCHANGED <<mode, search, run, list, paths>>
    BY <1>1, <1>2 DEF PathsShown, OnARow, UnderCursor
  <1>3. CASE Resize
    <2>1. PICK h \in Heights : /\ list' = Clamp(list.visible, ContentHeight(h, search.on))
                               /\ UNCHANGED <<mode, search, run, paths>>
      BY <1>3 DEF Resize
    <2>2. paths # None /\ run # "crashed" /\ OnARow
      BY <2>1 DEF PathsShown
    <2>3. ContentHeight(h, search.on) \in Nat /\ ContentHeight(h, search.on) >= 1
      BY LinesAre
    <2>4. /\ list.visible \in Seq(Nodes(graph)) /\ list.cursor \in Nat /\ list.offset \in Nat /\ Len(list.visible) \in Nat
          /\ list.cursor \in 0..Len(list.visible) - 1
      BY <2>2, DrawnIs DEF Standing, OnARow
    <2>5. list'.visible = list.visible /\ list'.cursor = list.cursor
      BY <2>1, <2>3, <2>4, ClampIs
    <2> QED
      BY <1>1, <2>1, <2>2, <2>5 DEF PathsShown, OnARow, UnderCursor
  <1>4. CASE Quit
    <2>1. run' = "quit" /\ UNCHANGED <<mode, search, list, paths>>
      BY <1>4 DEF Quit
    <2> QED
      BY <1>1, <2>1 DEF PathsShown, OnARow, UnderCursor
  <1>5. CASE ShowPaths
    <2>1. /\ mode \in {"tree", "flat"} /\ ~search.on /\ run = "running" /\ OnARow
          /\ paths' = ComputePaths(graph, roots, UnderCursor) /\ UNCHANGED <<mode, search, run, list>>
      BY <1>5 DEF ShowPaths, Browsing
    <2> QED
      BY <1>1, <2>1 DEF PathsShown, OnARow, UnderCursor
  <1>6. CASE ClosePaths
    BY <1>6 DEF ClosePaths
  <1>7. paths' = paths => mode \in {"tree", "flat"} /\ ~search.on /\ paths # None
    BY DEF PathsShown
  <1>8. CASE \/ Up \/ Down \/ PageUp \/ PageDown \/ Expand \/ Inspect \/ CloseInspect \/ Tab \/ CycleFilter
             \/ StartSearch \/ EnterGraph \/ EnterWalker
    <2>1. Browsing /\ paths' = paths
      BY <1>8 DEF Up, Down, PageUp, PageDown, MoveTo, Expand, Inspect, CloseInspect, Tab, CycleFilter, StartSearch,
                  EnterGraph, EnterWalker
    <2> QED
      BY <1>7, <2>1 DEF Browsing
  <1>9. CASE Type \/ ConfirmSearch \/ CancelSearch
    <2>1. search.on /\ paths' = paths
      BY <1>9 DEF Type, ConfirmSearch, CancelSearch, Searched, Searching
    <2> QED
      BY <1>7, <2>1
  <1>10. CASE SelectNext \/ SelectPrev \/ ZoomIn \/ ZoomOut \/ SetZoomCluster
    <2>1. mode = "graph" /\ paths' = paths
      BY <1>10 DEF SelectNext, SelectPrev, Select, ZoomIn, ZoomOut, SetZoomCluster, Zoom, Graphing, KeepTheRest
    <2> QED
      BY <1>7, <2>1
  <1>11. CASE WalkerUp \/ WalkerDown \/ DrillIn \/ GoUp
    <2>1. mode = "walker" /\ paths' = paths
      BY <1>11 DEF WalkerUp, WalkerDown, DrillIn, GoUp, Walk, KeepTheRest
    <2> QED
      BY <1>7, <2>1
  <1>12. CASE BackToTree
    <2>1. mode \in {"graph", "walker"} /\ paths' = paths
      BY <1>12 DEF BackToTree
    <2> QED
      BY <1>7, <2>1
  <1>13. CASE UNCHANGED vars
    BY <1>2, <1>13 DEF vars
  <1> QED
    BY <1>3, <1>4, <1>5, <1>6, <1>8, <1>9, <1>10, <1>11, <1>12, <1>13 DEF Next

-----------------------------------------------------------------------------
(* The walker *)

\* What a node leads to, and the overview to.
LeadsTo(g, n) == IF n = None THEN RootsIn(g) ELSE Below(g, n)

LEMMA ChildrenAre ==
    ASSUME graph \in Graphs, NEW n, NEW children \in ChildrenOf(n)
    PROVE  /\ children \in Seq(Nodes(graph)) /\ Range(children) = LeadsTo(graph, n)
           /\ LeadsTo(graph, n) \in SUBSET Nodes(graph)
           /\ Len(children) \in Nat /\ LastRow(children) \in Nat
  <1>1. children \in Seq(Nodes(graph)) /\ Range(children) = LeadsTo(graph, n)
    <2>1. CASE n = None
      BY <2>1, RootsAre DEF ChildrenOf, LeadsTo
    <2>2. CASE n # None
      BY <2>2, SortedNeighborsAre DEF ChildrenOf, LeadsTo
    <2> QED
      BY <2>1, <2>2
  <1>2. LeadsTo(graph, n) \in SUBSET Nodes(graph)
    BY EdgesAre DEF LeadsTo, RootsIn
  <1>3. LastRow(children) \in Nat /\ Len(children) \in Nat
    BY <1>1, LastRowIs
  <1> QED
    BY <1>1, <1>2, <1>3

\* A trail starts at the overview and goes along edges.
IsTrail(g, trail) ==
    /\ trail \in Seq(Nodes(g) \union {None}) /\ trail # <<>>
    /\ \A i \in 1..Len(trail) : trail[i] = None <=> i = 1
    /\ \A i \in 1..Len(trail) - 1 : trail[i + 1] \in LeadsTo(g, trail[i])

Walking ==
    walker # None \/ mode = "walker" =>
        /\ DOMAIN walker = {"current", "children", "cursor", "path"}
        /\ walker.path \in Seq(Nodes(graph) \union {None})
        /\ IsTrail(graph, Append(walker.path, walker.current))
        /\ walker.children \in ChildrenOf(walker.current)
        /\ walker.cursor \in 0..LastRow(walker.children)

LEMMA TrailLonger ==
    ASSUME NEW g \in Graphs, NEW trail, IsTrail(g, trail), NEW n \in LeadsTo(g, Last(trail)), n \in Nodes(g)
    PROVE  IsTrail(g, Append(trail, n))
  <1> DEFINE s == Append(trail, n)
             T == Nodes(g) \union {None}
  <1>1. /\ trail \in Seq(T) /\ Len(trail) \in Nat /\ Len(trail) >= 1
        /\ \A i \in 1..Len(trail) : trail[i] = None <=> i = 1
        /\ \A i \in 1..Len(trail) - 1 : trail[i + 1] \in LeadsTo(g, trail[i])
    BY DEF IsTrail
  <1>2. n \in T /\ n # None
    BY ExplorerAssumption DEF Nodes
  <1> HIDE DEF T
  <1>3. s \in Seq(T) /\ Len(s) = Len(trail) + 1 /\ s # <<>>
    BY <1>1, <1>2
  <1>4. s[Len(trail) + 1] = n /\ \A i \in 1..Len(trail) : s[i] = trail[i]
    BY <1>1, <1>2
  <1>5. Len(s) = Len(trail) + 1 /\ Len(trail) \in Nat /\ Len(trail) >= 1
    BY <1>1, <1>3
  <1> HIDE DEF s
  <1>6. ASSUME NEW i \in 1..Len(s)
        PROVE  s[i] = None <=> i = 1
    <2>1. i \in 1..Len(trail) \/ (i = Len(trail) + 1 /\ i # 1)
      BY <1>5
    <2> QED
      BY <1>1, <1>2, <1>4, <2>1
  <1>7. ASSUME NEW i \in 1..Len(s) - 1
        PROVE  s[i + 1] \in LeadsTo(g, s[i])
    <2>1. i = Len(trail) \/ (i \in 1..Len(trail) - 1 /\ i + 1 \in 1..Len(trail))
      BY <1>5
    <2>2. i \in 1..Len(trail)
      BY <1>5
    <2>3. trail[Len(trail)] = Last(trail)
      BY DEF Last
    <2> QED
      BY <1>1, <1>4, <2>1, <2>2, <2>3
  <1> QED
    BY <1>3, <1>6, <1>7 DEF IsTrail, s, T

LEMMA TrailShorter ==
    ASSUME NEW g, NEW path, NEW n, IsTrail(g, Append(path, n)), path \in Seq(Nodes(g) \union {None}), path # <<>>
    PROVE  /\ Front(path) \in Seq(Nodes(g) \union {None})
           /\ Append(Front(path), Last(path)) = path
           /\ IsTrail(g, path)
  <1> DEFINE T == Nodes(g) \union {None}
             s == Append(path, n)
  <1>1. path \in Seq(T) /\ Len(path) \in Nat /\ Len(path) >= 1
    OBVIOUS
  <1>2. /\ \A i \in 1..Len(s) : s[i] = None <=> i = 1
        /\ \A i \in 1..Len(s) - 1 : s[i + 1] \in LeadsTo(g, s[i])
    BY DEF IsTrail
  <1>3. Len(s) = Len(path) + 1 /\ \A i \in 1..Len(path) : s[i] = path[i]
    OBVIOUS
  <1> HIDE DEF s, T
  <1>4. /\ \A i \in 1..Len(path) : path[i] = None <=> i = 1
        /\ \A i \in 1..Len(path) - 1 : path[i + 1] \in LeadsTo(g, path[i])
    <2>1. \A i \in 1..Len(path) : i \in 1..Len(s)
      BY <1>1, <1>3
    <2>2. \A i \in 1..Len(path) - 1 : i \in 1..Len(s) - 1 /\ i \in 1..Len(path) /\ i + 1 \in 1..Len(path)
      BY <1>1, <1>3
    <2> QED
      BY <1>2, <1>3, <2>1, <2>2
  <1>5. Front(path) \in Seq(T) /\ Len(Front(path)) = Len(path) - 1 /\ \A i \in 1..Len(path) - 1 : Front(path)[i] = path[i]
    <2>1. Len(path) - 1 \in Int /\ 1 \in Int /\ \A i \in 1..Len(path) - 1 : path[i] \in T
      BY <1>1
    <2>2. /\ SubSeq(path, 1, Len(path) - 1) \in Seq(T)
          /\ Len(SubSeq(path, 1, Len(path) - 1)) = IF 1 <= Len(path) - 1 THEN Len(path) - 1 - 1 + 1 ELSE 0
          /\ \A i \in 1..Len(path) - 1 - 1 + 1 : SubSeq(path, 1, Len(path) - 1)[i] = path[1 + i - 1]
      BY <2>1, SubSeqProperties
    <2>3. Front(path) = SubSeq(path, 1, Len(path) - 1)
      BY DEF Front
    <2>4. Len(path) - 1 - 1 + 1 = Len(path) - 1 /\ \A i \in 1..Len(path) - 1 : 1 + i - 1 = i
      BY <1>1
    <2>5. Len(Front(path)) = Len(path) - 1
      <3> DEFINE k == Len(path) - 1
      <3>1. k \in Int /\ k >= 0
        BY <1>1
      <3>2. Len(Front(path)) = IF 1 <= k THEN k - 1 + 1 ELSE 0
        BY <2>2, <2>3
      <3> HIDE DEF k
      <3>3. Len(Front(path)) = k
        BY <3>1, <3>2
      <3> QED
        BY <3>3 DEF k
    <2>6. \A i \in 1..Len(path) - 1 : Front(path)[i] = path[i]
      BY <2>2, <2>3, <2>4
    <2> QED
      BY <2>2, <2>3, <2>5, <2>6
  <1>6. Last(path) \in T
    BY <1>1 DEF Last
  <1>7. Append(Front(path), Last(path)) = path
    <2> DEFINE a == Append(Front(path), Last(path))
    <2>1. a \in Seq(T) /\ Len(a) = Len(path)
      BY <1>1, <1>5, <1>6
    <2>2. a[Len(path)] = path[Len(path)]
      BY <1>1, <1>5, <1>6 DEF Last
    <2>3. \A i \in 1..Len(path) - 1 : a[i] = path[i]
      BY <1>1, <1>5, <1>6
    <2>4. \A i \in 1..Len(path) : i \in 1..Len(path) - 1 \/ i = Len(path)
      BY <1>1
    <2> HIDE DEF a
    <2> QED
      BY <1>1, <2>1, <2>2, <2>3, <2>4 DEF a
  <1> QED
    BY <1>1, <1>4, <1>5, <1>7 DEF IsTrail, T

LEMMA WalkingStep == graph \in Graphs /\ Walking /\ [Next]_vars => Walking'
  <1> SUFFICES ASSUME graph \in Graphs, Walking, [Next]_vars
               PROVE  Walking'
    OBVIOUS
  <1>1. graph' = graph
    BY GraphStays
  <1>3. ASSUME UNCHANGED walker, mode' = mode \/ mode' # "walker" \/ walker # None
        PROVE  Walking'
    <2>1. ChildrenOf(walker.current)' = ChildrenOf(walker.current)
      BY <1>1, <1>3 DEF ChildrenOf
    <2> QED
      BY <1>1, <1>3, <2>1 DEF Walking
  <1>4. ASSUME NEW n, NEW path \in Seq(Nodes(graph) \union {None}), IsTrail(graph, Append(path, n)),
               NEW children \in ChildrenOf(n),
               walker' = [current |-> n, children |-> children, cursor |-> 0, path |-> path]
        PROVE  Walking'
    <2>1. LastRow(children) \in Nat
      BY ChildrenAre
    <2>2. /\ walker'.current = n /\ walker'.children = children /\ walker'.cursor = 0 /\ walker'.path = path
          /\ DOMAIN walker' = {"current", "children", "cursor", "path"}
      BY <1>4
    <2>3. walker'.children \in ChildrenOf(walker.current)'
      BY <1>1, <2>2 DEF ChildrenOf
    <2>4. walker'.cursor \in 0..LastRow(walker'.children)
      BY <2>1, <2>2
    <2> QED
      BY <1>1, <1>4, <2>2, <2>3, <2>4 DEF Walking
  <1>5. CASE EnterWalker
    <2>1. CASE walker # None
      BY <1>3, <1>5, <2>1 DEF EnterWalker
    <2>2. CASE walker = None
      <3>1. PICK children \in ChildrenOf(None) :
                walker' = [current |-> None, children |-> children, cursor |-> 0, path |-> <<>>]
        BY <1>5, <2>2 DEF EnterWalker
      <3>2. <<>> \in Seq(Nodes(graph) \union {None}) /\ Append(<<>>, None) = <<None>>
        OBVIOUS
      <3>3. IsTrail(graph, <<None>>)
        BY DEF IsTrail
      <3> QED
        BY <1>4, <3>1, <3>2, <3>3
    <2> QED
      BY <2>1, <2>2
  <1>6. ASSUME NEW cursor \in 0..LastRow(walker.children), mode = "walker", walker' = [walker EXCEPT !.cursor = cursor]
        PROVE  Walking'
    <2>1. DOMAIN walker = {"current", "children", "cursor", "path"}
      BY <1>6 DEF Walking
    <2>2. /\ walker'.current = walker.current /\ walker'.children = walker.children /\ walker'.path = walker.path
          /\ walker'.cursor = cursor /\ DOMAIN walker' = DOMAIN walker
      BY <1>6, <2>1
    <2>3. ChildrenOf(walker.current)' = ChildrenOf(walker.current)
      BY <1>1, <2>2 DEF ChildrenOf
    <2> QED
      BY <1>1, <1>6, <2>2, <2>3 DEF Walking
  <1>7. mode = "walker" =>
           /\ walker.children \in ChildrenOf(walker.current) /\ Len(walker.children) \in Nat
           /\ walker.cursor \in Nat /\ walker.cursor <= LastRow(walker.children)
           /\ LastRow(walker.children) = IF Len(walker.children) = 0 THEN 0 ELSE Len(walker.children) - 1
    <2>1. SUFFICES ASSUME mode = "walker"
                   PROVE  /\ walker.children \in ChildrenOf(walker.current) /\ Len(walker.children) \in Nat
                          /\ walker.cursor \in Nat /\ walker.cursor <= LastRow(walker.children)
                          /\ LastRow(walker.children) = IF Len(walker.children) = 0 THEN 0 ELSE Len(walker.children) - 1
      OBVIOUS
    <2>2. walker.children \in ChildrenOf(walker.current) /\ walker.cursor \in 0..LastRow(walker.children)
      BY <2>1 DEF Walking
    <2>3. walker.children \in Seq(Nodes(graph)) /\ Len(walker.children) \in Nat /\ LastRow(walker.children) \in Nat
      BY <2>2, ChildrenAre
    <2>4. LastRow(walker.children) = IF Len(walker.children) = 0 THEN 0 ELSE Len(walker.children) - 1
      BY <2>3, LastRowIs
    <2> QED
      BY <2>2, <2>3, <2>4
  <1>8. CASE WalkerUp
    <2>1. walker.cursor > 0 /\ walker' = [walker EXCEPT !.cursor = walker.cursor - 1] /\ mode = "walker"
      BY <1>8 DEF WalkerUp, Walk
    <2>2. walker.cursor - 1 \in 0..LastRow(walker.children)
      BY <1>7, <2>1
    <2> QED
      BY <1>6, <2>1, <2>2
  <1>9. CASE WalkerDown
    <2>1. /\ walker.cursor < Len(walker.children) - 1 /\ walker' = [walker EXCEPT !.cursor = walker.cursor + 1]
          /\ mode = "walker"
      BY <1>9 DEF WalkerDown, Walk
    <2>2. walker.cursor + 1 \in 0..LastRow(walker.children)
      BY <1>7, <2>1
    <2> QED
      BY <1>6, <2>1, <2>2
  <1>10. mode = "walker" =>
            /\ walker.path \in Seq(Nodes(graph) \union {None}) /\ IsTrail(graph, Append(walker.path, walker.current))
            /\ Last(Append(walker.path, walker.current)) = walker.current
            /\ Append(walker.path, walker.current) \in Seq(Nodes(graph) \union {None})
    <2>1. SUFFICES ASSUME mode = "walker"
                   PROVE  /\ Last(Append(walker.path, walker.current)) = walker.current
                          /\ Append(walker.path, walker.current) \in Seq(Nodes(graph) \union {None})
      BY DEF Walking
    <2>2. /\ walker.path \in Seq(Nodes(graph) \union {None})
          /\ Append(walker.path, walker.current) \in Seq(Nodes(graph) \union {None})
      BY <2>1 DEF Walking, IsTrail
    <2> QED
      BY <2>2 DEF Last
  <1>11. CASE DrillIn
    <2> DEFINE child == walker.children[walker.cursor + 1]
               trail == Append(walker.path, walker.current)
    <2>1. /\ walker.cursor < Len(walker.children) /\ mode = "walker"
          /\ \E children \in ChildrenOf(child) :
                walker' = [current |-> child, children |-> children, cursor |-> 0, path |-> trail]
      BY <1>11 DEF DrillIn, Walk
    <2>2. child \in LeadsTo(graph, walker.current) /\ child \in Nodes(graph)
      <3>1. walker.children \in Seq(Nodes(graph)) /\ Range(walker.children) = LeadsTo(graph, walker.current)
        BY <1>7, <2>1, ChildrenAre
      <3>2. walker.cursor + 1 \in 1..Len(walker.children)
        BY <1>7, <2>1
      <3> QED
        BY <3>1, <3>2 DEF Range
    <2> HIDE DEF child
    <2>3. IsTrail(graph, trail) /\ Last(trail) = walker.current /\ trail \in Seq(Nodes(graph) \union {None})
      BY <1>10, <2>1
    <2> HIDE DEF trail
    <2>4. IsTrail(graph, Append(trail, child))
      BY <2>2, <2>3, TrailLonger
    <2> QED
      BY <1>4, <2>1, <2>3, <2>4
  <1>12. CASE GoUp
    <2> DEFINE n == Last(walker.path)
               path == Front(walker.path)
    <2>1. /\ walker.path # <<>> /\ mode = "walker"
          /\ \E children \in ChildrenOf(n) :
                walker' = [current |-> n, children |-> children, cursor |-> 0, path |-> path]
      BY <1>12 DEF GoUp, Walk
    <2>2. path \in Seq(Nodes(graph) \union {None}) /\ IsTrail(graph, Append(path, n))
      BY <1>10, <2>1, TrailShorter
    <2> HIDE DEF n, path
    <2> QED
      BY <1>4, <2>1, <2>2
  <1>13. CASE Resize \/ Quit \/ Up \/ Down \/ PageUp \/ PageDown
    BY <1>3, <1>13 DEF Resize, Quit, Up, Down, PageUp, PageDown, MoveTo
  <1>14. CASE Expand \/ Inspect \/ CloseInspect \/ CycleFilter \/ ShowPaths \/ ClosePaths
    BY <1>3, <1>14 DEF Expand, Inspect, CloseInspect, CycleFilter, ShowPaths, ClosePaths
  <1>15. CASE Tab
    <2>1. UNCHANGED walker /\ mode' # "walker"
      BY <1>15 DEF Tab
    <2> QED
      BY <1>3, <2>1
  <1>16. CASE StartSearch \/ Type \/ ConfirmSearch \/ CancelSearch
    BY <1>3, <1>16 DEF StartSearch, Type, ConfirmSearch, CancelSearch, Searched
  <1>17. CASE SelectNext \/ SelectPrev \/ ZoomIn \/ ZoomOut \/ SetZoomCluster
    BY <1>3, <1>17 DEF SelectNext, SelectPrev, Select, ZoomIn, ZoomOut, SetZoomCluster, Zoom, KeepTheRest
  <1>18. CASE EnterGraph \/ BackToTree
    BY <1>3, <1>18 DEF EnterGraph, BackToTree
  <1>19. CASE UNCHANGED vars
    BY <1>3, <1>19 DEF vars
  <1> QED
    BY <1>5, <1>8, <1>9, <1>11, <1>12, <1>13, <1>14, <1>15, <1>16, <1>17, <1>18, <1>19 DEF Next

-----------------------------------------------------------------------------
(* The screen *)

\* What the explorer promises, in the words of these proofs.
LEMMA Promised ==
    ASSUME graph \in Graphs
    PROVE  /\ Cyclic <=> CyclicIn(graph)
           /\ Roots = RootsIn(graph)
           /\ \A n : Successors(n) = Below(graph, n)
           /\ Due = DueIn(graph, mode, expanded, filter, search.query)
  <1>1. \A n : Successors(n) = Below(graph, n)
    BY DEF Successors, Below
  <1>2. \A pairs, ids : Closure(pairs, ids) = ClosureIn(Nodes(graph), pairs, ids)
    BY DEF Closure, ClosureIn, IsClosed, Nodes
  <1>3. \A ids : Reach(ids) = ReachIn(graph, ids)
    BY <1>2 DEF Reach, ReachIn, Edges
  <1>4. Cyclic <=> CyclicIn(graph)
    BY <1>1, <1>3 DEF Cyclic, CyclicIn, Nodes
  <1>5. Roots = RootsIn(graph)
    <2>1. \A e \in Range(graph.edges) : e[1] \in Nodes(graph)
      BY GraphIs
    <2>2. UNION {Successors(n) : n \in Nodes(graph)} = {e[2] : e \in Range(graph.edges)}
      BY <1>1, <2>1 DEF Below
    <2> QED
      BY <2>2 DEF Roots, RootsIn, Nodes
  <1>6. \A n : Worth(n) <=> WorthIn(graph, filter, n)
    BY <1>3 DEF Worth, WorthIn
  <1>7. \A ids : Opened(ids) = OpenedIn(graph, filter, expanded, ids)
    <2>1. {e \in Range(graph.edges) : e[1] \in expanded /\ Worth(e[2])} = OpenEdges(graph, filter, expanded)
      BY <1>6 DEF OpenEdges, Edges
    <2> QED
      BY <1>2, <2>1 DEF Opened, OpenedIn
  <1>8. {n \in Roots : Worth(n)} = WorthOf(graph, filter, RootsIn(graph))
    BY <1>5, <1>6 DEF WorthOf
  <1>9. Due = DueIn(graph, mode, expanded, filter, search.query)
    BY <1>7, <1>8 DEF Due, DueIn, Nodes
  <1> QED
    BY <1>1, <1>4, <1>5, <1>9

LEMMA StandingFirst == Init => Standing
  <1> SUFFICES ASSUME Init
               PROVE  Standing
    OBVIOUS
  <1>1. graph \in Graphs /\ roots \in FindRoots(graph) /\ height \in Heights /\ run = "running"
    BY DEF Init
  <1>2. PICK rows \in Rows(graph, roots, "tree", {}, "", NoQuery) : list = Top(rows)
    BY DEF Init
  <1>3. rows # Diverges
    <2>1. rows = Diverges => "" # "" \/ {} # {}
      BY <1>1, RowsShow DEF Shows
    <2> QED
      BY <2>1
  <1>4. rows \in Seq(Nodes(graph))
    BY <1>1, <1>3, RowsShow DEF Shows
  <1>5. Drawn(graph, Top(rows))
    BY <1>4, TopIs
  <1> QED
    BY <1>1, <1>2, <1>5 DEF Standing

Screen == Standing /\ Fresh /\ PathsShown /\ Walking

LEMMA ScreenIs == Screen => ScreenIsCurrent
  <1> SUFFICES ASSUME Screen
               PROVE  ScreenIsCurrent
    OBVIOUS
  <1> USE DEF Screen
  <1>1. graph \in Graphs /\ roots \in FindRoots(graph)
    BY DEF Standing
  <1>2. /\ Cyclic <=> CyclicIn(graph)
        /\ Roots = RootsIn(graph)
        /\ \A n : Successors(n) = Below(graph, n)
        /\ Due = DueIn(graph, mode, expanded, filter, search.query)
    BY <1>1, Promised
  <1>3. run = "crashed" => Cyclic
    BY <1>2 DEF Standing
  <1>4. ASSUME run # "crashed"
        PROVE  ListIsDue
    <2>1. SUFFICES ASSUME mode \in {"tree", "flat"}
                   PROVE  Range(list.visible) = Due
      BY DEF ListIsDue
    <2>2. list.visible \in Rows(graph, roots, mode, expanded, filter, search.query)
      BY <1>4, <2>1 DEF Fresh
    <2>3. list.visible \in Seq(Nodes(graph))
      BY <1>4 DEF Standing, Drawn
    <2>4. list.visible # Diverges
      BY <1>1, <2>3, ExplorerAssumption DEF Nodes
    <2>5. Range(list.visible) = DueIn(graph, mode, expanded, filter, search.query)
      <3>1. \A m, open, f, q : \A it \in Rows(graph, roots, m, open, f, q) :
               it # Diverges => Range(it) = DueIn(graph, m, open, f, q)
        <4> TAKE m, open, f, q
        <4> TAKE it \in Rows(graph, roots, m, open, f, q)
        <4>1. Shows(graph, m, open, f, q, it)
          BY <1>1, RowsShow
        <4> QED
          BY <4>1 DEF Shows
      <3> QED
        BY <2>2, <2>4, <3>1, Zenon
    <2> QED
      BY <1>2, <2>5
  <1>5. ASSUME run # "crashed"
        PROVE  CursorOnARow
    BY <1>5 DEF Standing, Drawn, CursorOnARow, LastRow
  <1>6. PathsAreComplete
    <2>1. SUFFICES ASSUME paths # None
                   PROVE  paths = {s \in UNION {[1..k -> DOMAIN graph.nodes] : k \in 2..PathDepth + 1} :
                                     /\ s[1] \in Roots
                                     /\ s[Len(s)] = UnderCursor
                                     /\ IsInjective(s)
                                     /\ \A i \in 1..Len(s) - 1 : s[i + 1] \in Successors(s[i])}
      BY DEF PathsAreComplete
    <2>2. paths = ComputePaths(graph, roots, UnderCursor)
      BY <2>1 DEF PathsShown
    <2>3. paths = {s \in UNION {[1..k -> Nodes(graph)] : k \in 2..PathDepth + 1} :
                     /\ s[1] \in RootsIn(graph)
                     /\ s[Len(s)] = UnderCursor
                     /\ IsInjective(s)
                     /\ \A i \in 1..Len(s) - 1 : s[i + 1] \in Below(graph, s[i])}
      BY <1>1, <2>2, PathsAre
    <2> QED
      BY <1>2, <2>3 DEF Nodes
  <1>7. TrailIsReal
    <2>1. SUFFICES ASSUME walker # None
                   PROVE  LET trail == Append(walker.path, walker.current)
                          IN  /\ trail[1] = None
                              /\ \A i \in 1..Len(trail) - 1 :
                                    trail[i + 1] \in (IF i = 1 THEN Roots ELSE Successors(trail[i]))
                              /\ Range(walker.children) = (IF Len(trail) = 1 THEN Roots ELSE Successors(walker.current))
                              /\ walker.cursor \in 0..LastRow(walker.children)
      BY DEF TrailIsReal, LastRow
    <2> DEFINE trail == Append(walker.path, walker.current)
    <2>2. /\ walker.path \in Seq(Nodes(graph) \union {None}) /\ IsTrail(graph, trail)
          /\ walker.children \in ChildrenOf(walker.current) /\ walker.cursor \in 0..LastRow(walker.children)
      BY <2>1 DEF Walking
    <2>3. /\ trail \in Seq(Nodes(graph) \union {None}) /\ trail # <<>>
          /\ \A i \in 1..Len(trail) : trail[i] = None <=> i = 1
          /\ \A i \in 1..Len(trail) - 1 : trail[i + 1] \in LeadsTo(graph, trail[i])
      BY <2>2 DEF IsTrail
    <2>4. trail[Len(trail)] = walker.current
      BY <2>2, <2>3
    <2> HIDE DEF trail
    <2>5. Len(trail) \in Nat /\ Len(trail) >= 1
      BY <2>3
    <2>6. Range(walker.children) = LeadsTo(graph, walker.current)
      BY <1>1, <2>2, ChildrenAre
    <2>7. trail[1] = None
      BY <2>3, <2>5
    <2>8. \A i \in 1..Len(trail) : LeadsTo(graph, trail[i]) = IF i = 1 THEN Roots ELSE Successors(trail[i])
      BY <1>2, <2>3 DEF LeadsTo
    <2>9. \A i \in 1..Len(trail) - 1 : trail[i + 1] \in (IF i = 1 THEN Roots ELSE Successors(trail[i]))
      <3>1. \A i \in 1..Len(trail) - 1 : i \in 1..Len(trail)
        BY <2>5
      <3> QED
        BY <2>3, <2>8, <3>1
    <2>10. Range(walker.children) = (IF Len(trail) = 1 THEN Roots ELSE Successors(walker.current))
      <3>1. Len(trail) \in 1..Len(trail)
        BY <2>5
      <3>2. LeadsTo(graph, trail[Len(trail)]) = IF Len(trail) = 1 THEN Roots ELSE Successors(trail[Len(trail)])
        BY <2>8, <3>1
      <3> QED
        BY <2>4, <2>6, <3>2
    <2> QED
      BY <2>2, <2>7, <2>9, <2>10 DEF trail
  <1> QED
    BY <1>3, <1>4, <1>5, <1>6, <1>7 DEF ScreenIsCurrent

\* Whatever keys are pressed, in whatever order, on any graph whose edges join
\* nodes of it, with nodes of one type, name and score among them or not, and in
\* a terminal of any height: the list shows exactly the nodes the mode, the expanded nodes,
\* the filter and the query call for, the cursor and the offset are on it, the
\* paths panel shows every path from a root to the node under the cursor, the
\* walker's trail goes along edges from a root, and the explorer never falls over
\* a graph without a cycle.  (rebuildVisible, clampCursor, hasFilteredDescendant,
\* computePaths, WalkerModel)
THEOREM ScreenHolds == Spec => []ScreenIsCurrent
  <1>1. Init => Screen
    <2>1. Init => PathsShown /\ Walking
      BY DEF Init, PathsShown, Walking
    <2> QED
      BY <2>1, StandingFirst, FreshFirst DEF Screen
  <1>2. Screen /\ [Next]_vars => Screen'
    <2>1. Standing => graph \in Graphs
      BY DEF Standing
    <2> QED
      BY <2>1, StandingStep, FreshStep, PathsStep, WalkingStep DEF Screen
  <1> QED
    BY <1>1, <1>2, ScreenIs, PTL DEF Spec
=============================================================================
