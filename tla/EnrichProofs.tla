----------------------------- MODULE EnrichProofs -----------------------------
(***************************************************************************)
(* Proofs about enrichment, for any packages, repositories and size of the *)
(* pool, with calls that fail, other commands on the same tables and runs  *)
(* killed at any step.                                                     *)
(*                                                                         *)
(* The invariant says, for each package, what the goroutine at each of its *)
(* steps may hold and what was stored of it (Carried); for each            *)
(* repository, what the cache and the calls for it add up to (Shared); and *)
(* for the loop, what has become of the packages it has passed.            *)
(***************************************************************************)
EXTENDS Enrich, FiniteSetTheorems, SequenceTheorems, TLAPS

Steps == {"none", "fetch", "repo", "ask", "put", "cve", "query", "cache", "store"}

Settled == {"cve", "query", "cache", "store"}

\* A score that leaves the repository out has a failed call to blame.
Blamed(p, m) == m.score = "registry" /\ RepoOf[p] # NoRepo => RepoOf[p] \in denied

\* Findings that are missing have a failed query to blame.
Excused(p, m) ==
    p \in Named \intersect Versioned \intersect Advised /\ ~noCVE /\ m.cves = "none"
      => p \in unanswered

Carried(p) ==
    /\ step[p] \in {"none", "fetch"} => meta[p] = Blank
    /\ step[p] \in {"repo", "ask"} => meta[p].score = "registry"
    /\ step[p] = "put" => Blamed(p, meta[p]) /\ meta[p].score \in {"registry", "full"}
    /\ step[p] \in Settled => Blamed(p, meta[p])
    /\ step[p] = "cache" => meta[p].cves = Answer(p)
    /\ step[p] = "store" => Excused(p, meta[p])
    /\ cve[p] \in {"miss", Answer(p)}
    /\ p \in mine /\ Enriched(p) => Blamed(p, row[p]) /\ Excused(p, row[p])

Asking(r)  == {p \in Pkgs : step[p] = "ask" /\ RepoOf[p] = r}
Holding(r) == {p \in Pkgs : step[p] \in {"ask", "put"} /\ RepoOf[p] = r}

\* While nothing is remembered of a repository, whoever asks or asked for it
\* is still in the pool; afterwards nobody new asks.
Shared(r) ==
    /\ repos[r] = "nil" => r \in denied
    /\ asks[r] + Cardinality(Asking(r)) <= Pool
    /\ repos[r] = "miss" => asks[r] + Cardinality(Asking(r)) <= Cardinality(Holding(r))

\* Goroutines are for packages the loop has passed, and as many as have room.
Places ==
    /\ \A p \in Working : \E i \in 1 .. at - 1 : Order[i] = p
    /\ Cardinality(Working) <= Pool
    /\ pc = "acquire" => force \/ ~Enriched(Pkg) \/ Pkg \in unread

\* A package the loop has passed is done, lost by another command or in hand.
NoneForgotten ==
    (pc # "idle" \/ ended = "complete") /\ count.errors = 0 =>
      \A i \in 1 .. at - 1 :
        Enriched(Order[i]) \/ Order[i] \in upset \/ step[Order[i]] # "none"

AtRest ==
    /\ pc = "idle" => Working = {} /\ mine = {}
    /\ pc \in {"idle", "wait"} /\ ended = "complete" => at = total + 1

Inv ==
    /\ TypeOK /\ AtRest /\ Places /\ Accounting /\ NoneForgotten
    /\ \A p \in Pkgs : Carried(p)
    /\ \A r \in Repos : Shared(r)

-----------------------------------------------------------------------------
(* The order and the pool *)

\* The SELECT names every package once: as many places as packages, each taken.
LEMMA OrderIsOnce ==
    /\ Len(Order) \in Nat
    /\ \A i \in 1 .. Len(Order) : Order[i] \in Pkgs
    /\ \A p \in Pkgs : \E i \in 1 .. Len(Order) : Order[i] = p
    /\ \A i, j \in 1 .. Len(Order) : Order[i] = Order[j] => i = j
  <1> DEFINE n == Cardinality(Pkgs)
  <1>1. n \in Nat /\ Order \in [1 .. n -> Pkgs]
    BY EnrichAssumption, FS_CardinalityType
  <1>2. Order \in Seq(Pkgs)
    BY <1>1, SeqDef
  <1>3. Len(Order) = n
    <2>1. Len(Order) \in Nat /\ DOMAIN Order = 1 .. Len(Order)
      BY <1>2, LenProperties
    <2>2. 1 .. n = 1 .. Len(Order)
      BY <1>1, <2>1
    <2> QED
      BY <1>1, <2>1, <2>2, FS_Interval
  <1>4. IsFiniteSet(1 .. n) /\ Cardinality(1 .. n) = n
    BY <1>1, FS_Interval
  <1>5. Order \in Surjection(1 .. n, Pkgs)
    BY <1>1, EnrichAssumption DEF Surjection
  <1>6. Order \in Injection(1 .. n, Pkgs)
    BY <1>4, <1>5, FS_SurjSameCardinalityImpliesInj
  <1> QED
    BY <1>1, <1>3, <1>5, <1>6 DEF Surjection, Injection, IsInjective

LEMMA PoolIsFinite ==
    /\ IsFiniteSet(Working) /\ Cardinality(Working) \in Nat
    /\ \A r : /\ IsFiniteSet(Asking(r)) /\ Cardinality(Asking(r)) \in Nat
              /\ IsFiniteSet(Holding(r)) /\ Cardinality(Holding(r)) \in Nat
              /\ Cardinality(Holding(r)) <= Cardinality(Working)
  <1>1. IsFiniteSet(Pkgs) /\ Working \in SUBSET Pkgs
    BY EnrichAssumption DEF Working
  <1>2. IsFiniteSet(Working) /\ Cardinality(Working) \in Nat
    BY <1>1, FS_Subset, FS_CardinalityType
  <1>3. ASSUME NEW r
        PROVE  /\ IsFiniteSet(Asking(r)) /\ Cardinality(Asking(r)) \in Nat
               /\ IsFiniteSet(Holding(r)) /\ Cardinality(Holding(r)) \in Nat
               /\ Cardinality(Holding(r)) <= Cardinality(Working)
    <2>1. Asking(r) \in SUBSET Pkgs /\ Holding(r) \in SUBSET Working
      BY DEF Asking, Holding, Working
    <2> QED
      BY <1>1, <1>2, <2>1, FS_Subset, FS_CardinalityType
  <1> QED
    BY <1>2, <1>3

LEMMA PoolIsFiniteNext ==
    /\ IsFiniteSet(Working') /\ Cardinality(Working') \in Nat
    /\ \A r : /\ IsFiniteSet(Asking(r)') /\ Cardinality(Asking(r)') \in Nat
              /\ IsFiniteSet(Holding(r)') /\ Cardinality(Holding(r)') \in Nat
              /\ Cardinality(Holding(r)') <= Cardinality(Working')
  <1>1. IsFiniteSet(Pkgs) /\ Working' \in SUBSET Pkgs
    BY EnrichAssumption DEF Working
  <1>2. IsFiniteSet(Working') /\ Cardinality(Working') \in Nat
    BY <1>1, FS_Subset, FS_CardinalityType
  <1>3. ASSUME NEW r
        PROVE  /\ IsFiniteSet(Asking(r)') /\ Cardinality(Asking(r)') \in Nat
               /\ IsFiniteSet(Holding(r)') /\ Cardinality(Holding(r)') \in Nat
               /\ Cardinality(Holding(r)') <= Cardinality(Working')
    <2>1. Asking(r)' \in SUBSET Pkgs /\ Holding(r)' \in SUBSET Working'
      BY DEF Asking, Holding, Working
    <2> QED
      BY <1>1, <1>2, <2>1, FS_Subset, FS_CardinalityType
  <1> QED
    BY <1>2, <1>3

-----------------------------------------------------------------------------
(* A goroutine goes from one of its steps to another *)

Moves(q, to) ==
    /\ step[q] # "none" /\ to \in Steps \ {"none"}
    /\ step' = [step EXCEPT ![q] = to]
    /\ UNCHANGED <<row, main, count, mine, unread, upset, ever>>
    /\ denied \subseteq denied' /\ unanswered \subseteq unanswered'
    /\ \A p \in Pkgs \ {q} : meta'[p] = meta[p] /\ cve'[p] = cve[p]

\* What others hold stays as it is, and the loop has the same to count.
LEMMA MoveKeeps ==
    ASSUME Inv, NEW q \in Pkgs, NEW to, Moves(q, to), TypeOK',
           Carried(q)', \A r \in Repos : Shared(r)'
    PROVE  Inv'
  <1>1. \A p \in Pkgs : step'[p] = IF p = q THEN to ELSE step[p]
    BY DEF Inv, TypeOK, Moves
  <1>2. Working' = Working
    BY <1>1 DEF Moves, Working
  <1>3. ASSUME NEW p \in Pkgs
        PROVE  Carried(p)'
    <2>1. CASE p = q
      BY <2>1
    <2>2. CASE p # q
      <3>1. Carried(p)
        BY DEF Inv
      <3> QED
        BY <1>1, <2>2, <3>1
        DEF Moves, main, Carried, Blamed, Excused, Settled, Enriched, Answer
    <2> QED
      BY <2>1, <2>2
  <1>4. AtRest' /\ Places' /\ Accounting'
    BY <1>2 DEF Inv, Moves, main, AtRest, Places, Accounting, Enriched, Pkg
  <1>5. NoneForgotten'
    BY <1>1, OrderIsOnce DEF Inv, TypeOK, Moves, main, NoneForgotten, Enriched
  <1> QED
    BY <1>3, <1>4, <1>5 DEF Inv

\* Away from the repository nothing changes for the others who ask for it.
LEMMA SharedStays ==
    ASSUME Inv, NEW q \in Pkgs, NEW to \in Steps \ {"ask", "put"},
           step[q] \notin {"ask", "put"}, step' = [step EXCEPT ![q] = to],
           UNCHANGED <<repos, asks>>, denied \subseteq denied'
    PROVE  \A r \in Repos : Shared(r)'
  <1> SUFFICES ASSUME NEW r \in Repos PROVE Shared(r)'
    OBVIOUS
  <1>1. \A p \in Pkgs : step'[p] = IF p = q THEN to ELSE step[p]
    BY DEF Inv, TypeOK
  <1>2. Asking(r)' = Asking(r) /\ Holding(r)' = Holding(r)
    BY <1>1 DEF Asking, Holding
  <1>3. Shared(r)
    BY DEF Inv
  <1> QED
    BY <1>2, <1>3 DEF Shared

\* The score and the findings a goroutine holds, with one of them replaced.
LEMMA MetaOf ==
    ASSUME TypeOK, NEW q \in Pkgs
    PROVE  /\ Blank \in Meta /\ meta[q] \in Meta
           /\ \A score \in Scores :
                [meta EXCEPT ![q].score = score] \in [Pkgs -> Meta]
           /\ \A cves \in {"none", "some"} :
                [meta EXCEPT ![q].cves = cves] \in [Pkgs -> Meta]
  BY DEF TypeOK, Meta, Scores, Blank

\* Scored changes one score and leaves the findings alone.
LEMMA ScoredIs ==
    ASSUME TypeOK, NEW q \in Pkgs, NEW score \in Scores, Scored(q, score)
    PROVE  /\ meta' \in [Pkgs -> Meta]
           /\ meta'[q].score = score /\ meta'[q].cves = meta[q].cves
           /\ \A p \in Pkgs \ {q} : meta'[p] = meta[p]
  <1>1. meta \in [Pkgs -> Meta] /\ meta' = [meta EXCEPT ![q].score = score]
    BY DEF TypeOK, Scored
  <1>2. meta' \in [Pkgs -> Meta]
    BY <1>1, MetaOf
  <1>3. meta'[q] = [meta[q] EXCEPT !.score = score]
    BY <1>1
  <1> QED
    BY <1>1, <1>2, <1>3 DEF Meta

-----------------------------------------------------------------------------
(* The steps of a goroutine *)

LEMMA FetchKeeps ==
    ASSUME Inv, NEW q \in Pkgs, Fetch(q)
    PROVE  Inv'
  <1>1. TypeOK /\ Carried(q) /\ step[q] = "fetch" /\ meta[q] = Blank
    BY DEF Inv, Carried, Fetch
  <1>2. UNCHANGED <<row, cve, main, repos, count, asks, denied, mine, unanswered, unread, upset, ever>>
    BY DEF Fetch, tables, history
  <1>3. PICK to \in {"store", "cve", "repo"} :
          /\ step' = [step EXCEPT ![q] = to]
          /\ to = "store" => q \notin Named
          /\ to = "repo" => RepoOf[q] \in Repos
    BY EnrichAssumption DEF Fetch, Goto
  <1>4. step'[q] = to /\ \A p \in Pkgs : step'[p] = IF p = q THEN to ELSE step[p]
    BY <1>1, <1>3 DEF TypeOK
  <1>5. /\ meta' \in [Pkgs -> Meta] /\ \A p \in Pkgs \ {q} : meta'[p] = meta[p]
        /\ \/ meta'[q] = meta[q]
           \/ to = "cve" /\ meta'[q].score = "critical"
           \/ /\ meta'[q].score = "registry"
              /\ to = "repo" \/ RepoOf[q] = NoRepo
        /\ to = "repo" => meta'[q].score = "registry"
    <2>1. CASE UNCHANGED meta /\ to # "repo"
      BY <1>1, <2>1 DEF TypeOK
    <2>2. CASE Scored(q, "critical") /\ to = "cve"
      BY <1>1, <2>2, ScoredIs DEF Scores
    <2>3. CASE /\ Scored(q, "registry")
               /\ to = IF RepoOf[q] = NoRepo THEN "cve" ELSE "repo"
      BY <1>1, <2>3, ScoredIs DEF Scores
    <2>4. \/ UNCHANGED meta /\ to # "repo"
          \/ Scored(q, "critical") /\ to = "cve"
          \/ /\ Scored(q, "registry")
             /\ to = IF RepoOf[q] = NoRepo THEN "cve" ELSE "repo"
      BY <1>1, <1>3, <1>4 DEF Fetch, Goto, TypeOK
    <2> QED
      BY <2>1, <2>2, <2>3, <2>4
  <1>6. troubles' \in 0 .. MaxTroubles
    BY <1>1, EnrichAssumption DEF Fetch, Trouble, TypeOK
  <1>7. TypeOK'
    BY <1>1, <1>2, <1>3, <1>4, <1>5, <1>6 DEF TypeOK, main, Enriched
  <1>8. Carried(q)'
    BY <1>1, <1>2, <1>3, <1>4, <1>5
    DEF Carried, Blamed, Excused, Settled, Blank, Enriched, main, Answer
  <1>9. Moves(q, to)
    BY <1>1, <1>2, <1>3, <1>5 DEF Moves, Steps
  <1>10. \A r \in Repos : Shared(r)'
    BY <1>1, <1>2, <1>3, SharedStays DEF Steps
  <1> QED
    BY <1>7, <1>8, <1>9, <1>10, MoveKeeps

\* What the cache remembers of a repository is a result or a failed call.
LEMMA LookUpRepoKeeps ==
    ASSUME Inv, NEW q \in Pkgs, LookUpRepo(q)
    PROVE  Inv'
  <1> DEFINE r == RepoOf[q]
  <1>1. /\ TypeOK /\ Carried(q) /\ step[q] = "repo" /\ r \in Repos /\ Shared(r)
        /\ meta[q].score = "registry"
    BY DEF Inv, TypeOK, Carried, LookUpRepo
  <1>2. UNCHANGED <<row, cve, main, repos, count, troubles, asks, denied, mine, unanswered,
                    unread, upset, ever>>
    BY DEF LookUpRepo, tables, history
  <1>3. CASE repos[r] = "miss"
    <2>1. step' = [step EXCEPT ![q] = "ask"] /\ meta' = meta
      BY <1>3 DEF LookUpRepo, Goto
    <2>2. \A p \in Pkgs : step'[p] = IF p = q THEN "ask" ELSE step[p]
      BY <1>1, <2>1 DEF TypeOK
    <2>3. TypeOK'
      BY <1>1, <1>2, <2>1 DEF TypeOK, main, Enriched
    <2>4. Carried(q)'
      BY <1>1, <1>2, <2>1, <2>2
      DEF Carried, Blamed, Excused, Settled, Enriched, main, Answer
    <2>5. Moves(q, "ask")
      BY <1>1, <1>2, <2>1 DEF Moves, Steps
    <2>6. ASSUME NEW s \in Repos
          PROVE  Shared(s)'
      <3>1. Shared(s)
        BY DEF Inv
      <3>2. CASE s # r
        <4>1. Asking(s)' = Asking(s) /\ Holding(s)' = Holding(s)
          BY <1>1, <2>2, <3>2 DEF Asking, Holding
        <4> QED
          BY <1>2, <3>1, <4>1 DEF Shared
      <3>3. CASE s = r
        <4>1. /\ Asking(r)' = Asking(r) \union {q} /\ q \notin Asking(r)
              /\ Holding(r)' = Holding(r) \union {q} /\ q \notin Holding(r)
          BY <1>1, <2>2 DEF Asking, Holding
        <4>2. /\ Cardinality(Asking(r)') = Cardinality(Asking(r)) + 1
              /\ Cardinality(Holding(r)') = Cardinality(Holding(r)) + 1
          BY <4>1, PoolIsFinite, FS_AddElement
        <4>3. Working' = Working
          BY <1>1, <2>2 DEF Working
        <4>4. Cardinality(Holding(r)') <= Pool
          BY <4>3, PoolIsFinite, PoolIsFiniteNext, EnrichAssumption DEF Inv, Places
        <4>5. asks[r] \in Nat /\ Pool \in Nat
          BY <1>1, EnrichAssumption DEF TypeOK
        <4>6. asks[r] + Cardinality(Asking(r)) <= Cardinality(Holding(r))
          BY <1>1, <1>3 DEF Shared
        <4>7. asks[r] + Cardinality(Asking(r)') <= Cardinality(Holding(r)')
          BY <4>2, <4>5, <4>6, PoolIsFinite
        <4>8. asks[r] + Cardinality(Asking(r)') <= Pool
          BY <4>4, <4>5, <4>7, PoolIsFiniteNext
        <4> QED
          BY <1>2, <1>3, <3>1, <3>3, <4>7, <4>8 DEF Shared
      <3> QED
        BY <3>2, <3>3
    <2> QED
      BY <2>3, <2>4, <2>5, <2>6, MoveKeeps
  <1>4. CASE repos[r] # "miss"
    <2>1. /\ step' = [step EXCEPT ![q] = "cve"]
          /\ Scored(q, IF repos[r] = "info" THEN "full" ELSE "registry")
      BY <1>4 DEF LookUpRepo, Goto
    <2>2. /\ meta' \in [Pkgs -> Meta] /\ \A p \in Pkgs \ {q} : meta'[p] = meta[p]
          /\ meta'[q].score = IF repos[r] = "info" THEN "full" ELSE "registry"
      BY <1>1, <2>1, ScoredIs DEF Scores
    <2>3. step'[q] = "cve"
      BY <1>1, <2>1 DEF TypeOK
    <2>4. meta'[q].score = "registry" => r \in denied
      BY <1>1, <1>4, <2>2 DEF Shared, TypeOK
    <2>5. TypeOK'
      BY <1>1, <1>2, <2>1, <2>2 DEF TypeOK, main, Enriched
    <2>6. Carried(q)'
      BY <1>1, <1>2, <2>2, <2>3, <2>4
      DEF Carried, Blamed, Excused, Settled, Enriched, main, Answer
    <2>7. Moves(q, "cve")
      BY <1>1, <1>2, <2>1, <2>2 DEF Moves, Steps
    <2>8. \A s \in Repos : Shared(s)'
      BY <1>1, <1>2, <2>1, SharedStays DEF Steps
    <2> QED
      BY <2>5, <2>6, <2>7, <2>8, MoveKeeps
  <1> QED
    BY <1>3, <1>4

\* A call that begins has been waited for: the sum of both does not change.
LEMMA AskRepoKeeps ==
    ASSUME Inv, NEW q \in Pkgs, AskRepo(q)
    PROVE  Inv'
  <1> DEFINE r == RepoOf[q]
  <1>1. /\ TypeOK /\ Carried(q) /\ step[q] = "ask" /\ r \in Repos /\ meta[q].score = "registry"
        /\ step' = [step EXCEPT ![q] = "put"]
        /\ asks' = [asks EXCEPT ![r] = @ + 1]
    BY DEF Inv, TypeOK, Carried, AskRepo, Goto
  <1>2. UNCHANGED <<row, cve, main, repos, count, mine, unanswered, unread, upset, ever>>
    BY DEF AskRepo, tables
  <1>3. /\ meta' \in [Pkgs -> Meta] /\ \A p \in Pkgs \ {q} : meta'[p] = meta[p]
        /\ denied \subseteq denied' /\ denied' \subseteq Repos
        /\ troubles' \in 0 .. MaxTroubles
        /\ meta'[q].score = "full" \/ (meta'[q].score = "registry" /\ r \in denied')
    <2>1. CASE Scored(q, "full") /\ UNCHANGED <<troubles, denied>>
      BY <1>1, <2>1, ScoredIs DEF Scores, TypeOK
    <2>2. CASE UNCHANGED meta /\ Trouble /\ denied' = denied \union {r}
      BY <1>1, <2>2, EnrichAssumption DEF Trouble, TypeOK
    <2> QED
      BY <2>1, <2>2 DEF AskRepo
  <1>4. \A p \in Pkgs : step'[p] = IF p = q THEN "put" ELSE step[p]
    BY <1>1 DEF TypeOK
  <1>5. TypeOK'
    <2>1. asks' \in [Repos -> Nat]
      BY <1>1 DEF TypeOK
    <2>2. /\ step' \in [Pkgs -> Steps]
          /\ \A p \in Pkgs : step'[p] \in {"repo", "ask", "put"} => RepoOf[p] \in Repos
      BY <1>1, <1>4 DEF TypeOK, Steps
    <2> QED
      BY <1>1, <1>2, <1>3, <2>1, <2>2 DEF TypeOK, main, Steps
  <1>6. Carried(q)'
    BY <1>1, <1>2, <1>3, <1>4
    DEF Carried, Blamed, Excused, Settled, Enriched, main, Answer
  <1>7. Moves(q, "put")
    BY <1>1, <1>2, <1>3 DEF Moves, Steps
  <1>8. ASSUME NEW s \in Repos
        PROVE  Shared(s)'
    <2>1. Shared(s)
      BY DEF Inv
    <2>2. Holding(s)' = Holding(s)
      BY <1>1, <1>4 DEF Holding
    <2>3. CASE s # r
      <3>1. Asking(s)' = Asking(s) /\ asks'[s] = asks[s]
        BY <1>1, <1>4, <2>3 DEF Asking, TypeOK
      <3> QED
        BY <1>2, <1>3, <2>1, <2>2, <3>1 DEF Shared
    <2>4. CASE s = r
      <3>1. Asking(s)' = Asking(s) \ {q} /\ q \in Asking(s)
        BY <1>1, <1>4, <2>4 DEF Asking
      <3>2. Cardinality(Asking(s)') = Cardinality(Asking(s)) - 1
        BY <3>1, PoolIsFinite, FS_RemoveElement
      <3>3. asks'[s] = asks[s] + 1 /\ asks[s] \in Nat
        BY <1>1, <2>4 DEF TypeOK
      <3>4. asks'[s] + Cardinality(Asking(s)') = asks[s] + Cardinality(Asking(s))
        BY <3>2, <3>3, PoolIsFinite
      <3> QED
        BY <1>2, <1>3, <2>1, <2>2, <3>4 DEF Shared
    <2> QED
      BY <2>3, <2>4
  <1> QED
    BY <1>5, <1>6, <1>7, <1>8, MoveKeeps

\* From here on the repository is remembered, as an answer or as a failure.
LEMMA PutRepoKeeps ==
    ASSUME Inv, NEW q \in Pkgs, PutRepo(q)
    PROVE  Inv'
  <1> DEFINE r == RepoOf[q]
             new == IF meta[q].score = "full" THEN "info" ELSE "nil"
  <1>1. /\ TypeOK /\ Carried(q) /\ step[q] = "put" /\ r \in Repos
        /\ step' = [step EXCEPT ![q] = "cve"]
        /\ repos' = [repos EXCEPT ![r] = new]
    BY DEF Inv, TypeOK, PutRepo, Goto, Remembered
  <1>2. UNCHANGED <<row, cve, main, meta, count, troubles, asks, denied, mine, unanswered,
                    unread, upset, ever>>
    BY DEF PutRepo, tables, history
  <1>3. \A p \in Pkgs : step'[p] = IF p = q THEN "cve" ELSE step[p]
    BY <1>1 DEF TypeOK
  <1>4. new = "nil" => r \in denied
    BY <1>1, EnrichAssumption DEF Carried, Blamed
  <1>5. TypeOK'
    BY <1>1, <1>2 DEF TypeOK, main, Enriched
  <1>6. Carried(q)'
    BY <1>1, <1>2, <1>3 DEF Carried, Blamed, Excused, Settled, Enriched, main, Answer
  <1>7. Moves(q, "cve")
    BY <1>1, <1>2 DEF Moves, Steps
  <1>8. ASSUME NEW s \in Repos
        PROVE  Shared(s)'
    <2>1. Shared(s)
      BY DEF Inv
    <2>2. Asking(s)' = Asking(s)
      BY <1>1, <1>3 DEF Asking
    <2>3. CASE s # r
      <3>1. repos'[s] = repos[s] /\ Holding(s)' = Holding(s)
        BY <1>1, <1>3, <2>3 DEF Holding, TypeOK
      <3> QED
        BY <1>2, <2>1, <2>2, <3>1 DEF Shared
    <2>4. CASE s = r
      <3>1. repos'[s] = new /\ new # "miss"
        BY <1>1, <2>4 DEF TypeOK
      <3> QED
        BY <1>2, <1>4, <2>1, <2>2, <2>4, <3>1 DEF Shared
    <2> QED
      BY <2>3, <2>4
  <1> QED
    BY <1>5, <1>6, <1>7, <1>8, MoveKeeps

\* Findings are those of the cache, which never answers for a failed query.
LEMMA LookUpCVEKeeps ==
    ASSUME Inv, NEW q \in Pkgs, LookUpCVE(q)
    PROVE  Inv'
  <1>1. TypeOK /\ Carried(q) /\ step[q] = "cve"
    BY DEF Inv, LookUpCVE
  <1>2. UNCHANGED <<row, cve, main, repos, count, asks, denied, mine, unanswered,
                    unread, upset, ever>>
    BY DEF LookUpCVE, tables, history
  <1>3. PICK to \in {"store", "query"} : step' = [step EXCEPT ![q] = to]
    BY DEF LookUpCVE, Goto
  <1>4. step'[q] = to
    BY <1>1, <1>3 DEF TypeOK
  <1>5. /\ meta' \in [Pkgs -> Meta] /\ \A p \in Pkgs \ {q} : meta'[p] = meta[p]
        /\ meta'[q].score = meta[q].score
        /\ to = "store" => noCVE \/ q \notin Versioned \/ meta'[q].cves = Answer(q)
    <2>1. CASE meta' = meta
      <3>1. to = "store" => noCVE \/ q \notin Versioned
            \/ (meta' = [meta EXCEPT ![q].cves = cve[q]] /\ cve[q] # "miss")
        BY <1>1, <1>3, <1>4 DEF LookUpCVE, Goto, TypeOK
      <3>2. CASE meta' = [meta EXCEPT ![q].cves = cve[q]] /\ cve[q] # "miss"
        <4>1. meta'[q] = [meta[q] EXCEPT !.cves = cve[q]] /\ cve[q] = Answer(q)
          BY <1>1, <3>2 DEF TypeOK, Carried
        <4> QED
          BY <1>1, <2>1, <4>1 DEF TypeOK, Meta
      <3> QED
        BY <1>1, <2>1, <3>1, <3>2 DEF TypeOK
    <2>2. CASE meta' = [meta EXCEPT ![q].cves = cve[q]] /\ cve[q] # "miss"
      <3>1. meta'[q] = [meta[q] EXCEPT !.cves = cve[q]] /\ cve[q] = Answer(q)
        BY <1>1, <2>2 DEF TypeOK, Carried
      <3>2. meta' \in [Pkgs -> Meta]
        BY <1>1, <2>2, MetaOf DEF TypeOK
      <3> QED
        BY <1>1, <2>2, <3>1, <3>2 DEF TypeOK, Meta
    <2> QED
      BY <2>1, <2>2 DEF LookUpCVE
  <1>10. troubles' \in 0 .. MaxTroubles
    BY <1>1, EnrichAssumption DEF LookUpCVE, Trouble, TypeOK
  <1>6. TypeOK'
    BY <1>1, <1>2, <1>3, <1>5, <1>10 DEF TypeOK, main, Enriched
  <1>7. Carried(q)'
    BY <1>1, <1>2, <1>4, <1>5
    DEF Carried, Blamed, Excused, Settled, Enriched, main, Answer
  <1>8. Moves(q, to)
    BY <1>1, <1>2, <1>3, <1>5 DEF Moves, Steps
  <1>9. \A r \in Repos : Shared(r)'
    BY <1>1, <1>2, <1>3, SharedStays DEF Steps
  <1> QED
    BY <1>6, <1>7, <1>8, <1>9, MoveKeeps

LEMMA AskOSVKeeps ==
    ASSUME Inv, NEW q \in Pkgs, AskOSV(q)
    PROVE  Inv'
  <1>1. TypeOK /\ Carried(q) /\ step[q] = "query"
    BY DEF Inv, AskOSV, Goto
  <1>2. UNCHANGED <<row, cve, main, repos, count, asks, denied, mine, unread, upset, ever>>
    BY DEF AskOSV, tables
  <1>3. \/ /\ step' = [step EXCEPT ![q] = "cache"]
           /\ meta' = [meta EXCEPT ![q].cves = Answer(q)]
           /\ UNCHANGED <<troubles, unanswered>>
        \/ /\ step' = [step EXCEPT ![q] = "store"]
           /\ meta' = meta /\ Trouble /\ unanswered' = unanswered \union {q}
    BY DEF AskOSV, Goto
  <1>4. PICK to \in {"cache", "store"} : step' = [step EXCEPT ![q] = to]
    BY <1>3
  <1>5. step'[q] = to
    BY <1>1, <1>4 DEF TypeOK
  <1>6. /\ meta' \in [Pkgs -> Meta] /\ \A p \in Pkgs \ {q} : meta'[p] = meta[p]
        /\ meta'[q].score = meta[q].score
        /\ unanswered \subseteq unanswered' /\ unanswered' \subseteq Pkgs
        /\ to = "cache" => meta'[q].cves = Answer(q)
        /\ to = "store" => q \in unanswered'
        /\ troubles' \in 0 .. MaxTroubles
    <2>1. CASE /\ step' = [step EXCEPT ![q] = "cache"]
               /\ meta' = [meta EXCEPT ![q].cves = Answer(q)]
               /\ UNCHANGED <<troubles, unanswered>>
      <3>1. meta'[q] = [meta[q] EXCEPT !.cves = Answer(q)]
        BY <1>1, <2>1 DEF TypeOK
      <3>2. meta' \in [Pkgs -> Meta]
        BY <1>1, <2>1, MetaOf DEF Answer
      <3>3. to = "cache"
        BY <1>1, <1>5, <2>1 DEF TypeOK
      <3> QED
        BY <1>1, <2>1, <3>1, <3>2, <3>3 DEF TypeOK, Meta
    <2>2. CASE /\ step' = [step EXCEPT ![q] = "store"]
               /\ meta' = meta /\ Trouble /\ unanswered' = unanswered \union {q}
      <3>1. to = "store"
        BY <1>1, <1>5, <2>2 DEF TypeOK
      <3> QED
        BY <1>1, <2>2, <3>1, EnrichAssumption DEF TypeOK, Trouble
    <2> QED
      BY <1>3, <2>1, <2>2
  <1>7. TypeOK'
    BY <1>1, <1>2, <1>4, <1>6 DEF TypeOK, main, Enriched
  <1>8. Carried(q)'
    BY <1>1, <1>2, <1>5, <1>6
    DEF Carried, Blamed, Excused, Settled, Enriched, main, Answer
  <1>9. Moves(q, to)
    BY <1>1, <1>2, <1>4, <1>6 DEF Moves, Steps
  <1>10. \A r \in Repos : Shared(r)'
    BY <1>1, <1>2, <1>4, SharedStays DEF Steps
  <1> QED
    BY <1>7, <1>8, <1>9, <1>10, MoveKeeps

LEMMA PutCVEKeeps ==
    ASSUME Inv, NEW q \in Pkgs, PutCVE(q)
    PROVE  Inv'
  <1>1. /\ TypeOK /\ Carried(q) /\ step[q] = "cache" /\ step' = [step EXCEPT ![q] = "store"]
        /\ UNCHANGED <<row, main, meta, repos, count, asks, denied, mine, unanswered, unread, upset, ever>>
    BY DEF Inv, PutCVE, Goto, history
  <1>2. step'[q] = "store" /\ meta[q].cves = Answer(q)
    BY <1>1 DEF TypeOK, Carried
  <1>3. /\ cve' \in [Pkgs -> {"miss", "none", "some"}] /\ cve'[q] \in {cve[q], Answer(q)}
        /\ \A p \in Pkgs \ {q} : cve'[p] = cve[p]
        /\ troubles' \in 0 .. MaxTroubles
    <2>1. CASE cve' = [cve EXCEPT ![q] = meta[q].cves] /\ UNCHANGED troubles
      BY <1>1, <1>2, <2>1 DEF TypeOK, Answer
    <2>2. CASE UNCHANGED cve /\ Trouble
      BY <1>1, <2>2, EnrichAssumption DEF TypeOK, Trouble
    <2> QED
      BY <2>1, <2>2 DEF PutCVE
  <1>4. TypeOK'
    BY <1>1, <1>3 DEF TypeOK, main, Enriched
  <1>5. Carried(q)'
    BY <1>1, <1>2, <1>3 DEF Carried, Blamed, Excused, Settled, Enriched, main, Answer
  <1>6. Moves(q, "store")
    BY <1>1, <1>3 DEF Moves, Steps
  <1>7. \A r \in Repos : Shared(r)'
    BY <1>1, SharedStays DEF Steps
  <1> QED
    BY <1>4, <1>5, <1>6, <1>7, MoveKeeps

-----------------------------------------------------------------------------
(* The end of a goroutine *)

Ends(q) ==
    /\ step[q] = "store" /\ step' = [step EXCEPT ![q] = "none"]
    /\ meta' = [meta EXCEPT ![q] = Blank]
    /\ UNCHANGED <<cve, main, repos, asks, denied, unanswered, unread, upset>>
    /\ \A p \in Pkgs \ {q} : row'[p] = row[p] /\ (p \in mine' <=> p \in mine)

\* One goroutine less, and one more package enriched or counted as an error.
LEMMA EndKeeps ==
    ASSUME Inv, NEW q \in Pkgs, Ends(q), TypeOK', Carried(q)',
           count'.enriched + count'.skipped + count'.errors
             = count.enriched + count.skipped + count.errors + 1,
           count'.errors = 0 => count.errors = 0 /\ Enriched(q)'
    PROVE  Inv'
  <1>1. TypeOK /\ q \in Working /\ pc # "idle"
    BY DEF Inv, Ends, Working, AtRest
  <1>2. \A p \in Pkgs : step'[p] = IF p = q THEN "none" ELSE step[p]
    BY <1>1 DEF TypeOK, Ends
  <1>3. Working' = Working \ {q}
    BY <1>2 DEF Working
  <1>4. Cardinality(Working') = Cardinality(Working) - 1
    BY <1>1, <1>3, PoolIsFinite, FS_RemoveElement
  <1>5. ASSUME NEW p \in Pkgs
        PROVE  Carried(p)'
    <2>1. CASE p # q
      <3>1. Carried(p) /\ meta'[p] = meta[p]
        BY <1>1, <2>1 DEF Inv, Ends, TypeOK
      <3> QED
        BY <1>2, <2>1, <3>1
        DEF Ends, main, Carried, Blamed, Excused, Settled, Enriched, Answer
    <2> QED
      BY <2>1
  <1>6. \A r \in Repos : Shared(r)'
    BY SharedStays DEF Ends, Steps
  <1>7. AtRest'
    BY <1>1 DEF Inv, AtRest, Ends, main
  <1>8. Places'
    <2>1. pc = "acquire" => Pkg \in Pkgs /\ Pkg # q
      <3> SUFFICES ASSUME pc = "acquire" PROVE Pkg \in Pkgs /\ Pkg # q
        OBVIOUS
      <3>1. at \in 1 .. Len(Order)
        BY <1>1, OrderIsOnce DEF TypeOK
      <3>2. PICK i \in 1 .. at - 1 : Order[i] = q
        BY <1>1 DEF Inv, Places
      <3>3. i \in 1 .. Len(Order) /\ i # at
        BY <3>1, <3>2, OrderIsOnce
      <3> QED
        BY <3>1, <3>2, <3>3, OrderIsOnce DEF Pkg
    <2>2. Cardinality(Working') <= Pool
      BY <1>4, PoolIsFinite, EnrichAssumption DEF Inv, Places
    <2> QED
      BY <1>3, <2>1, <2>2 DEF Inv, Places, Ends, main, Enriched, Pkg
  <1>9. Accounting'
    <2>1. count \in [enriched : Nat, skipped : Nat, errors : Nat] /\ at \in Nat
      BY <1>1, OrderIsOnce DEF TypeOK
    <2>2. count' \in [enriched : Nat, skipped : Nat, errors : Nat]
      BY DEF TypeOK
    <2>3. count.enriched + count.skipped + count.errors + Cardinality(Working) = at - 1
      BY <1>1 DEF Inv, Accounting
    <2>4. count'.enriched + count'.skipped + count'.errors + Cardinality(Working') = at - 1
      BY <1>4, <2>1, <2>2, <2>3, PoolIsFinite
    <2> QED
      BY <2>4 DEF Accounting, Ends, main
  <1>10. NoneForgotten'
    <2> SUFFICES ASSUME count'.errors = 0, NEW i \in 1 .. at - 1
                 PROVE  \/ Enriched(Order[i])' \/ Order[i] \in upset
                        \/ step'[Order[i]] # "none"
      BY DEF NoneForgotten, Ends, main
    <2>1. Order[i] \in Pkgs
      BY <1>1, OrderIsOnce DEF TypeOK
    <2>2. Enriched(Order[i]) \/ Order[i] \in upset \/ step[Order[i]] # "none"
      BY <1>1 DEF Inv, NoneForgotten
    <2>3. CASE Order[i] = q
      BY <2>3
    <2>4. CASE Order[i] # q
      BY <1>2, <2>1, <2>2, <2>4 DEF Ends, Enriched
    <2> QED
      BY <2>3, <2>4
  <1> QED
    BY <1>5, <1>6, <1>7, <1>8, <1>9, <1>10 DEF Inv

Counts == [enriched : Nat, skipped : Nat, errors : Nat]
Total(c) == c.enriched + c.skipped + c.errors

LEMMA OneMore ==
    ASSUME NEW c \in Counts, NEW d,
           \/ d = [c EXCEPT !.enriched = @ + 1]
           \/ d = [c EXCEPT !.skipped = @ + 1]
           \/ d = [c EXCEPT !.errors = @ + 1]
    PROVE  /\ d \in Counts /\ Total(d) = Total(c) + 1
  <1>1. c.enriched \in Nat /\ c.skipped \in Nat /\ c.errors \in Nat
    BY DEF Counts
  <1>2. CASE d = [c EXCEPT !.enriched = @ + 1]
    <2>1. d \in Counts
      BY <1>1, <1>2 DEF Counts
    <2>2. d.enriched = c.enriched + 1 /\ d.skipped = c.skipped /\ d.errors = c.errors
      BY <1>2 DEF Counts
    <2> QED
      BY <1>1, <2>1, <2>2 DEF Total
  <1>3. CASE d = [c EXCEPT !.skipped = @ + 1]
    <2>1. d \in Counts
      BY <1>1, <1>3 DEF Counts
    <2>2. d.enriched = c.enriched /\ d.skipped = c.skipped + 1 /\ d.errors = c.errors
      BY <1>3 DEF Counts
    <2> QED
      BY <1>1, <2>1, <2>2 DEF Total
  <1>4. CASE d = [c EXCEPT !.errors = @ + 1]
    <2>1. d \in Counts
      BY <1>1, <1>4 DEF Counts
    <2>2. d.enriched = c.enriched /\ d.skipped = c.skipped /\ d.errors = c.errors + 1
      BY <1>4 DEF Counts
    <2> QED
      BY <1>1, <2>1, <2>2 DEF Total
  <1> QED
    BY <1>2, <1>3, <1>4

LEMMA StoreKeeps ==
    ASSUME Inv, NEW q \in Pkgs, Store(q)
    PROVE  Inv'
  <1>1. /\ TypeOK /\ Carried(q) /\ meta[q] \in Meta /\ Blank \in Meta
        /\ step[q] = "store" /\ step' = [step EXCEPT ![q] = "none"]
        /\ row' = [row EXCEPT ![q] = meta[q]] /\ meta' = [meta EXCEPT ![q] = Blank]
        /\ count' = [count EXCEPT !.enriched = @ + 1]
        /\ mine' = mine \union {q} /\ ever' = ever \union {q}
        /\ UNCHANGED <<cve, main, repos, troubles, asks, denied, unanswered, unread, upset>>
    BY MetaOf DEF Inv, Store, Goto
  <1>2. row'[q] = meta[q] /\ meta'[q] = Blank /\ step'[q] = "none"
    BY <1>1 DEF TypeOK
  <1>3. /\ count \in Counts /\ count' \in Counts /\ Total(count') = Total(count) + 1
        /\ count'.errors = count.errors
    <2>1. count \in Counts
      BY <1>1 DEF TypeOK, Counts
    <2>2. count'.errors = count.errors
      BY <1>1, <2>1 DEF Counts
    <2> QED
      BY <1>1, <2>1, <2>2, OneMore
  <1>4. TypeOK'
    BY <1>1, <1>3 DEF TypeOK, main, Counts
  <1>5. Carried(q)'
    BY <1>1, <1>2 DEF Carried, Blamed, Excused, Settled, Enriched, main, Answer
  <1>6. Ends(q)
    BY <1>1 DEF Ends, TypeOK
  <1> QED
    BY <1>1, <1>2, <1>3, <1>4, <1>5, <1>6, EndKeeps DEF Enriched, Total

LEMMA StoreFailsKeeps ==
    ASSUME Inv, NEW q \in Pkgs, StoreFails(q)
    PROVE  Inv'
  <1>1. /\ TypeOK /\ Carried(q) /\ Blank \in Meta
        /\ step[q] = "store" /\ step' = [step EXCEPT ![q] = "none"]
        /\ meta' = [meta EXCEPT ![q] = Blank]
        /\ count' = [count EXCEPT !.errors = @ + 1]
        /\ UNCHANGED <<row, cve, main, repos, asks, denied, mine, unanswered, unread, upset, ever>>
    BY MetaOf DEF Inv, StoreFails, Goto, tables, history
  <1>2. meta'[q] = Blank /\ step'[q] = "none"
    BY <1>1 DEF TypeOK
  <1>3. /\ count \in Counts /\ count' \in Counts /\ Total(count') = Total(count) + 1
        /\ count'.errors # 0
    <2>1. count \in Counts
      BY <1>1 DEF TypeOK, Counts
    <2>2. count'.errors = count.errors + 1 /\ count.errors \in Nat
      BY <1>1, <2>1 DEF Counts
    <2>3. count'.errors # 0
      BY <2>2
    <2> QED
      BY <1>1, <2>1, <2>3, OneMore
  <1>4. troubles' \in 0 .. MaxTroubles
    BY <1>1, EnrichAssumption DEF StoreFails, Trouble, TypeOK
  <1>5. TypeOK'
    BY <1>1, <1>3, <1>4 DEF TypeOK, main, Counts
  <1>6. Carried(q)'
    BY <1>1, <1>2 DEF Carried, Blamed, Excused, Settled, Enriched, main, Answer
  <1>7. Ends(q)
    BY <1>1 DEF Ends, TypeOK
  <1> QED
    BY <1>3, <1>5, <1>6, <1>7, EndKeeps DEF Total

-----------------------------------------------------------------------------
(* The other commands *)

\* They write rows of the tables; metadata that is lost is remembered as upset.
LEMMA OthersKeep ==
    ASSUME Inv, NEW q \in Pkgs, Others(q)
    PROVE  Inv'
  <1>1. TypeOK /\ Carried(q) /\ troubles' \in 0 .. MaxTroubles
    <2>1. TypeOK /\ Carried(q) /\ Trouble
      BY DEF Inv, Others, LoseMeta, CrawlCVE, Expire
    <2>2. troubles \in 0 .. MaxTroubles /\ MaxTroubles \in Nat
      BY <2>1, EnrichAssumption DEF TypeOK
    <2>3. troubles < MaxTroubles /\ troubles' = troubles + 1
      BY <2>1 DEF Trouble
    <2> QED
      BY <2>1, <2>2, <2>3
  <1>2. /\ UNCHANGED <<main, worker, repos, count, asks, denied, mine, unanswered, unread, ever>>
        /\ \/ /\ row' = [row EXCEPT ![q] = Bare] /\ upset' = upset \union {q} /\ cve' = cve
           \/ /\ UNCHANGED <<row, upset>>
              /\ \E new \in {"miss", Answer(q)} : cve' = [cve EXCEPT ![q] = new]
    BY DEF Others, LoseMeta, CrawlCVE, Expire, history
  <1>3. /\ \A p \in Pkgs : row'[p] = row[p] \/ (row'[p] = Bare /\ p \in upset')
        /\ \A p \in Pkgs : cve'[p] = cve[p] \/ cve'[p] \in {"miss", Answer(p)}
        /\ upset \subseteq upset'
    BY <1>1, <1>2 DEF TypeOK
  <1>4. Bare \notin Meta
    BY DEF Bare, Meta, Scores
  <1>5. /\ row' \in [Pkgs -> Meta \union {Bare}] /\ upset' \subseteq Pkgs
        /\ cve' \in [Pkgs -> {"miss", "none", "some"}]
    BY <1>1, <1>2 DEF TypeOK, Answer
  <1>6. TypeOK'
    BY <1>1, <1>2, <1>5 DEF TypeOK, main, worker
  <1>7. ASSUME NEW p \in Pkgs
        PROVE  Carried(p)'
    <2>1. Carried(p)
      BY DEF Inv
    <2>2. Enriched(p)' => Enriched(p) /\ row'[p] = row[p]
      BY <1>3, <1>4 DEF Enriched
    <2>3. cve'[p] \in {"miss", Answer(p)}
      BY <1>3, <2>1 DEF Carried
    <2> QED
      BY <1>2, <2>1, <2>2, <2>3 DEF Carried, Blamed, Excused, Settled, Answer, main, worker
  <1>8. \A r \in Repos : Shared(r)'
    BY <1>2 DEF Inv, Shared, Asking, Holding, worker
  <1>9. Working' = Working
    BY <1>2 DEF Working, worker
  <1>10. AtRest' /\ Accounting'
    BY <1>2, <1>9 DEF Inv, AtRest, Accounting, main
  <1>11. Places'
    <2>1. pc = "acquire" => Pkg \in Pkgs
      BY <1>1, OrderIsOnce DEF TypeOK, Pkg
    <2>2. \A p \in Pkgs : Enriched(p)' => Enriched(p)
      BY <1>3, <1>4 DEF Enriched
    <2>3. Pkg' = Pkg
      BY <1>2 DEF Pkg, main
    <2> QED
      BY <1>2, <1>9, <2>1, <2>2, <2>3 DEF Inv, Places, main
  <1>12. NoneForgotten'
    <2> SUFFICES ASSUME pc # "idle" \/ ended = "complete", count.errors = 0, NEW i \in 1 .. at - 1
                 PROVE  \/ Enriched(Order[i])' \/ Order[i] \in upset'
                        \/ step'[Order[i]] # "none"
      BY <1>2 DEF NoneForgotten, main
    <2>1. Order[i] \in Pkgs
      BY <1>1, OrderIsOnce DEF TypeOK
    <2>2. Enriched(Order[i]) \/ Order[i] \in upset \/ step[Order[i]] # "none"
      BY DEF Inv, NoneForgotten
    <2> QED
      BY <1>2, <1>3, <2>1, <2>2 DEF Enriched, worker
  <1> QED
    BY <1>6, <1>7, <1>8, <1>10, <1>11, <1>12 DEF Inv

-----------------------------------------------------------------------------
(* RunEnrich *)

\* A step of the loop that leaves the goroutines, the caches and rows alone.
LoopStep == UNCHANGED <<tables, worker, repos, noCVE, asks, denied, mine, unanswered>>

LEMMA LoopStepKeeps ==
    ASSUME Inv, LoopStep
    PROVE  /\ \A p \in Pkgs : Carried(p)'
           /\ \A r \in Repos : Shared(r)'
           /\ Working' = Working
  <1>1. \A p \in Pkgs : Carried(p)'
    BY DEF Inv, LoopStep, tables, worker, Carried, Blamed, Excused, Settled, Enriched, Answer
  <1>2. \A r \in Repos : Shared(r)'
    BY DEF Inv, LoopStep, worker, Shared, Asking, Holding
  <1> QED
    BY <1>1, <1>2 DEF LoopStep, worker, Working

LEMMA BeginKeeps ==
    ASSUME Inv, Begin
    PROVE  Inv'
  <1>1. TypeOK /\ Working = {} /\ mine = {}
    BY DEF Inv, AtRest, Begin
  <1>2. /\ UNCHANGED <<tables, worker, repos, ended, asks, denied, mine, unanswered, unread, ever>>
        /\ total' \in 0 .. Len(Order) /\ troubles' \in 0 .. MaxTroubles
        /\ pc' = "loop" /\ at' = 1 /\ count' = NoCount /\ upset' = {}
        /\ force' \in BOOLEAN /\ noCVE' \in BOOLEAN
    BY <1>1, OrderIsOnce, EnrichAssumption DEF Begin, Trouble, TypeOK
  <1>3. runs' \in 0 .. MaxRuns
    <2>1. runs \in 0 .. MaxRuns /\ MaxRuns \in Nat
      BY <1>1, EnrichAssumption DEF TypeOK
    <2>2. runs < MaxRuns /\ runs' = runs + 1
      BY DEF Begin
    <2> QED
      BY <2>1, <2>2
  <1>11. /\ at' \in 1 .. total' + 1 /\ total' \in 0 .. Len(Order)
         /\ count' \in [enriched : Nat, skipped : Nat, errors : Nat]
    <2>1. count' \in [enriched : Nat, skipped : Nat, errors : Nat]
      BY <1>2 DEF NoCount
    <2>2. \A n \in Nat : \A t \in 0 .. n : 1 \in 1 .. t + 1
      OBVIOUS
    <2>3. at' = 1 /\ Len(Order) \in Nat /\ total' \in 0 .. Len(Order)
      BY <1>2, OrderIsOnce
    <2>4. 1 \in 1 .. total' + 1
      BY <2>2, <2>3, Zenon
    <2> QED
      BY <2>1, <2>3, <2>4, Zenon
  <1>4. TypeOK'
    BY <1>1, <1>2, <1>3, <1>11 DEF TypeOK, tables, worker
  <1>5. \A p \in Pkgs : Carried(p)'
    <2>1. ASSUME NEW p \in Pkgs
          PROVE  Carried(p)'
      <3>1. Carried(p) /\ step[p] = "none"
        BY <1>1 DEF Inv, Working
      <3> QED
        BY <1>1, <1>2, <3>1
        DEF tables, worker, Carried, Blamed, Excused, Settled, Enriched, Answer
    <2> QED
      BY <2>1
  <1>6. \A r \in Repos : Shared(r)'
    BY <1>2 DEF Inv, worker, Shared, Asking, Holding
  <1>7. Working' = {}
    BY <1>1, <1>2 DEF worker, Working
  <1>8. Cardinality(Working') = 0
    BY <1>7, FS_EmptySet
  <1>9. AtRest' /\ Places' /\ Accounting'
    BY <1>2, <1>7, <1>8, EnrichAssumption DEF AtRest, Places, Accounting, NoCount
  <1>10. NoneForgotten'
    BY <1>2 DEF NoneForgotten
  <1> QED
    BY <1>4, <1>5, <1>6, <1>9, <1>10 DEF Inv

LEMMA SkipKeeps ==
    ASSUME Inv, Skip
    PROVE  Inv'
  <1>1. /\ TypeOK /\ pc = "loop" /\ pc' = pc /\ at \in 1 .. total /\ Enriched(Pkg)
        /\ total \in 0 .. Len(Order)
        /\ at' = at + 1 /\ count' = [count EXCEPT !.skipped = @ + 1]
        /\ UNCHANGED <<total, force, noCVE, ended, runs, troubles, unread, upset, ever>>
        /\ LoopStep
    BY OrderIsOnce DEF Inv, TypeOK, Skip, LoopStep, history
  <1>2. count \in Counts
    BY <1>1 DEF TypeOK, Counts
  <1>3. count' \in Counts /\ Total(count') = Total(count) + 1 /\ count'.errors = count.errors
    BY <1>1, <1>2, OneMore DEF Counts
  <1>4. TypeOK'
    BY <1>1, <1>3, OrderIsOnce DEF TypeOK, LoopStep, tables, worker, Counts
  <1>5. Working' = Working
    BY <1>1, LoopStepKeeps
  <1>6. AtRest' /\ Places'
    BY <1>1, <1>5 DEF Inv, AtRest, Places
  <1>7. Accounting'
    <2>1. Total(count) + Cardinality(Working) = at - 1
      BY <1>1 DEF Inv, Accounting, Total
    <2>2. Total(count) \in Nat
      BY <1>2 DEF Counts, Total
    <2>3. Total(count') + Cardinality(Working') = at' - 1
      BY <1>1, <1>3, <1>5, <2>1, <2>2, PoolIsFinite
    <2> QED
      BY <2>3 DEF Accounting, Total
  <1>8. NoneForgotten'
    <2> SUFFICES ASSUME count'.errors = 0, NEW i \in 1 .. at' - 1
                 PROVE  \/ Enriched(Order[i])' \/ Order[i] \in upset'
                        \/ step'[Order[i]] # "none"
      BY DEF NoneForgotten
    <2>1. CASE i = at
      BY <1>1, <2>1 DEF Enriched, Pkg, LoopStep, tables
    <2>2. CASE i \in 1 .. at - 1
      BY <1>1, <1>3, <2>2 DEF Inv, NoneForgotten, Enriched, LoopStep, tables, worker
    <2> QED
      BY <1>1, <2>1, <2>2
  <1> QED
    BY <1>1, <1>4, <1>6, <1>7, <1>8, LoopStepKeeps DEF Inv

LEMMA TakeKeeps ==
    ASSUME Inv, Take \/ LoopEnds("complete") \/ LoopEnds("cut")
    PROVE  Inv'
  <1>1. /\ TypeOK /\ pc = "loop" /\ at \in 1 .. total + 1
        /\ UNCHANGED <<total, at, force, noCVE, runs, count, upset, ever>> /\ LoopStep
    BY DEF Inv, TypeOK, Take, LoopEnds, LoopStep, history
  <1>2. \/ /\ pc' = "acquire" /\ ended' = ended /\ at <= total
           /\ force \/ ~Enriched(Pkg) \/ Pkg \in unread'
        \/ /\ pc' = "wait" /\ ended' \in {"complete", "cut"}
           /\ ended' = "complete" => at > total
    BY DEF Take, LoopEnds
  <1>8. troubles' \in 0 .. MaxTroubles /\ unread' \subseteq Pkgs
    <2>1. CASE UNCHANGED <<troubles, unread>>
      BY <1>1, <2>1 DEF TypeOK
    <2>2. CASE Take /\ Trouble /\ unread' = unread \union {Pkg}
      <3>1. Pkg \in Pkgs
        BY <1>1, <2>2, OrderIsOnce DEF Take, TypeOK, Pkg
      <3> QED
        BY <1>1, <2>2, <3>1, EnrichAssumption DEF Trouble, TypeOK
    <2> QED
      BY <2>1, <2>2 DEF Take, LoopEnds, history
  <1>3. TypeOK'
    BY <1>1, <1>2, <1>8 DEF TypeOK, LoopStep, tables, worker
  <1>4. Working' = Working
    BY <1>1, LoopStepKeeps
  <1>5. AtRest'
    <2>1. total \in Nat
      BY <1>1, OrderIsOnce DEF TypeOK
    <2> QED
      BY <1>1, <1>2, <2>1 DEF AtRest
  <1>6. Places'
    BY <1>1, <1>2, <1>4 DEF Inv, Places, Enriched, Pkg, LoopStep, tables
  <1>7. Accounting' /\ NoneForgotten'
    BY <1>1, <1>2, <1>4
    DEF Inv, Accounting, NoneForgotten, Enriched, LoopStep, tables, worker
  <1> QED
    BY <1>1, <1>3, <1>5, <1>6, <1>7, LoopStepKeeps DEF Inv

\* The package of a new goroutine is not in hand yet: the order names it once.
LEMMA SpawnKeeps ==
    ASSUME Inv, Spawn
    PROVE  Inv'
  <1>1. /\ TypeOK /\ pc = "acquire" /\ at \in 1 .. total /\ at \in 1 .. Len(Order)
        /\ Pkg \in Pkgs
    BY OrderIsOnce DEF Inv, TypeOK, Spawn, Pkg
  <1>2. /\ step' = [step EXCEPT ![Pkg] = "fetch"] /\ pc' = "loop" /\ at' = at + 1
        /\ Cardinality(Working) < Pool
        /\ UNCHANGED <<tables, total, force, noCVE, ended, runs, meta, repos, count, troubles,
                       asks, denied, mine, unanswered, unread, upset, ever>>
    BY DEF Spawn, history
  <1>3. step[Pkg] = "none"
    <2> SUFFICES ASSUME Pkg \in Working PROVE FALSE
      BY <1>1 DEF Working
    <2>1. PICK i \in 1 .. at - 1 : Order[i] = Order[at]
      BY DEF Inv, Places, Pkg
    <2>2. i \in 1 .. Len(Order) /\ i # at
      BY <1>1, <2>1, OrderIsOnce
    <2> QED
      BY <1>1, <2>1, <2>2, OrderIsOnce
  <1>4. \A p \in Pkgs : step'[p] = IF p = Pkg THEN "fetch" ELSE step[p]
    BY <1>1, <1>2 DEF TypeOK
  <1>5. Working' = Working \union {Pkg} /\ Pkg \notin Working
    BY <1>1, <1>3, <1>4 DEF Working
  <1>6. Cardinality(Working') = Cardinality(Working) + 1
    BY <1>5, PoolIsFinite, FS_AddElement
  <1>7. TypeOK'
    BY <1>1, <1>2, OrderIsOnce DEF TypeOK, tables
  <1>8. ASSUME NEW p \in Pkgs
        PROVE  Carried(p)'
    <2>1. Carried(p)
      BY DEF Inv
    <2> QED
      BY <1>2, <1>3, <1>4, <2>1
      DEF tables, Carried, Blamed, Excused, Settled, Enriched, Answer
  <1>9. \A r \in Repos : Shared(r)'
    BY <1>1, <1>2, <1>3, SharedStays DEF Steps
  <1>10. AtRest'
    BY <1>2 DEF AtRest
  <1>11. Places'
    <2>1. ASSUME NEW p \in Working'
          PROVE  \E i \in 1 .. at' - 1 : Order[i] = p
      <3>1. CASE p = Pkg
        BY <1>1, <1>2, <3>1 DEF Pkg
      <3>2. CASE p \in Working
        <4>1. PICK i \in 1 .. at - 1 : Order[i] = p
          BY <3>2 DEF Inv, Places
        <4>2. i \in 1 .. at' - 1
          BY <1>1, <1>2, <4>1
        <4> QED
          BY <4>1, <4>2
      <3> QED
        BY <1>5, <2>1, <3>1, <3>2
    <2>2. Cardinality(Working') <= Pool
      BY <1>2, <1>6, PoolIsFinite, EnrichAssumption
    <2> QED
      BY <1>2, <2>1, <2>2 DEF Places
  <1>12. Accounting'
    <2>1. count \in Counts
      BY <1>1 DEF TypeOK, Counts
    <2>2. Total(count) \in Nat
      BY <2>1 DEF Counts, Total
    <2>3. Total(count) + Cardinality(Working) = at - 1
      BY <1>1 DEF Inv, Accounting, Total
    <2>4. Total(count) + Cardinality(Working') = at' - 1
      BY <1>1, <1>2, <1>6, <2>2, <2>3, PoolIsFinite
    <2> QED
      BY <1>2, <2>4 DEF Accounting, Total
  <1>13. NoneForgotten'
    <2> SUFFICES ASSUME count.errors = 0, NEW i \in 1 .. at' - 1
                 PROVE  \/ Enriched(Order[i])' \/ Order[i] \in upset'
                        \/ step'[Order[i]] # "none"
      BY <1>2 DEF NoneForgotten
    <2>1. CASE i = at
      BY <1>1, <1>4, <2>1 DEF Pkg
    <2>2. CASE i \in 1 .. at - 1
      <3>1. Order[i] \in Pkgs
        BY <1>1, <2>2, OrderIsOnce
      <3>2. Enriched(Order[i]) \/ Order[i] \in upset \/ step[Order[i]] # "none"
        BY <1>1, <2>2 DEF Inv, NoneForgotten
      <3> QED
        BY <1>2, <1>4, <3>1, <3>2 DEF Enriched, tables
    <2> QED
      BY <1>1, <1>2, <2>1, <2>2
  <1> QED
    BY <1>7, <1>8, <1>9, <1>10, <1>11, <1>12, <1>13 DEF Inv

\* When the run returns or is killed, what it held is forgotten as a whole.
LEMMA ForgetKeeps ==
    ASSUME Inv, Return \/ Kill
    PROVE  Inv'
  <1>1. /\ TypeOK /\ Forget /\ UNCHANGED <<tables, total, runs, troubles, ever>>
        /\ \/ /\ pc = "wait" /\ Working = {}
              /\ UNCHANGED <<at, ended, count, upset>>
           \/ ended' = "cut" /\ at' = 1 /\ count' = NoCount /\ upset' = {}
    BY DEF Inv, Return, Kill
  <1>2. /\ pc' = "idle" /\ force' = FALSE /\ noCVE' = FALSE
        /\ step' = [p \in Pkgs |-> "none"] /\ meta' = [p \in Pkgs |-> Blank]
        /\ repos' = [r \in Repos |-> "miss"] /\ asks' = [r \in Repos |-> 0]
        /\ denied' = {} /\ mine' = {} /\ unanswered' = {} /\ unread' = {}
    BY <1>1 DEF Forget
  <1>3. Blank \in Meta
    BY DEF Blank, Meta, Scores
  <1>4. TypeOK'
    <2>1. /\ total' \in 0 .. Len(Order) /\ at' \in 1 .. total' + 1 /\ ended' \in {"never", "complete", "cut"}
          /\ count' \in [enriched : Nat, skipped : Nat, errors : Nat] /\ upset' \subseteq Pkgs
      BY <1>1, OrderIsOnce DEF TypeOK, NoCount
    <2>2. /\ step' \in [Pkgs -> Steps] /\ \A p \in Pkgs : step'[p] = "none"
          /\ meta' \in [Pkgs -> Meta]
      BY <1>2, <1>3 DEF Steps
    <2>3. /\ repos' \in [Repos -> {"miss", "nil", "info"}] /\ asks' \in [Repos -> Nat]
      BY <1>2
    <2>4. /\ row' \in [Pkgs -> Meta \union {Bare}] /\ cve' \in [Pkgs -> {"miss", "none", "some"}]
          /\ runs' \in 0 .. MaxRuns /\ troubles' \in 0 .. MaxTroubles /\ ever' \subseteq Pkgs
      BY <1>1 DEF TypeOK, tables
    <2> QED
      BY <1>2, <2>1, <2>2, <2>3, <2>4 DEF TypeOK, Steps
  <1>5. ASSUME NEW p \in Pkgs
        PROVE  Carried(p)'
    <2>1. Carried(p)
      BY DEF Inv
    <2> QED
      BY <1>1, <1>2, <2>1 DEF Carried, Settled, Answer, tables
  <1>6. Working' = {} /\ \A r \in Repos : Asking(r)' = {} /\ Holding(r)' = {}
    BY <1>2 DEF Working, Asking, Holding
  <1>7. Cardinality({}) = 0 /\ Pool \in Nat
    BY FS_EmptySet, EnrichAssumption
  <1>8. \A r \in Repos : Shared(r)'
    BY <1>2, <1>6, <1>7 DEF Shared
  <1>9. AtRest' /\ Places'
    BY <1>1, <1>2, <1>6, <1>7 DEF Inv, AtRest, Places
  <1>10. Accounting'
    BY <1>1, <1>2, <1>6, <1>7 DEF Inv, Accounting
  <1>11. NoneForgotten'
    <2> SUFFICES ASSUME ended' = "complete", count'.errors = 0, NEW i \in 1 .. at' - 1
                 PROVE  Enriched(Order[i])' \/ Order[i] \in upset'
      BY <1>2 DEF NoneForgotten
    <2>1. Working = {} /\ pc = "wait" /\ UNCHANGED <<at, ended, count, upset>>
      BY <1>1
    <2>2. Order[i] \in Pkgs
      BY <1>1, <2>1, OrderIsOnce DEF TypeOK
    <2>3. Enriched(Order[i]) \/ Order[i] \in upset \/ step[Order[i]] # "none"
      BY <2>1 DEF Inv, NoneForgotten
    <2> QED
      BY <1>1, <2>1, <2>2, <2>3 DEF Working, Enriched, tables
  <1> QED
    BY <1>4, <1>5, <1>8, <1>9, <1>10, <1>11 DEF Inv

-----------------------------------------------------------------------------
(* The theorems *)

LEMMA InvInit == Init => Inv
  <1> SUFFICES ASSUME Init PROVE Inv
    OBVIOUS
  <1>1. Blank \in Meta
    BY DEF Blank, Meta, Scores
  <1>2. TypeOK
    <2>1. MaxRuns \in Nat /\ MaxTroubles \in Nat
      BY EnrichAssumption
    <2>2. total \in 0 .. Len(Order) /\ at \in 1 .. total + 1 /\ runs \in 0 .. MaxRuns /\ troubles \in 0 .. MaxTroubles
      BY <2>1, OrderIsOnce DEF Init
    <2>3. count \in [enriched : Nat, skipped : Nat, errors : Nat]
      BY DEF Init, NoCount
    <2>4. /\ step \in [Pkgs -> Steps] /\ \A p \in Pkgs : step[p] = "none"
          /\ meta \in [Pkgs -> Meta] /\ asks \in [Repos -> Nat]
      BY <1>1 DEF Init, Steps
    <2> QED
      BY <2>2, <2>3, <2>4 DEF Init, TypeOK, Steps
  <1>3. Working = {} /\ \A r \in Repos : Asking(r) = {} /\ Holding(r) = {}
    BY DEF Init, Working, Asking, Holding
  <1>4. Cardinality({}) = 0 /\ Pool \in Nat
    BY FS_EmptySet, EnrichAssumption
  <1>5. \A p \in Pkgs : Carried(p)
    BY DEF Init, Carried, Settled
  <1>6. \A r \in Repos : Shared(r)
    BY <1>3, <1>4 DEF Init, Shared
  <1>7. AtRest /\ Places /\ Accounting /\ NoneForgotten
    BY <1>3, <1>4 DEF Init, AtRest, Places, Accounting, NoneForgotten
  <1> QED
    BY <1>2, <1>5, <1>6, <1>7 DEF Inv

LEMMA InvNext == Inv /\ [Next]_vars => Inv'
  <1> SUFFICES ASSUME Inv, [Next]_vars PROVE Inv'
    OBVIOUS
  <1>1. ASSUME NEW p \in Pkgs, Work(p) \/ Others(p)
        PROVE  Inv'
    BY <1>1, FetchKeeps, LookUpRepoKeeps, AskRepoKeeps, PutRepoKeeps, LookUpCVEKeeps,
       AskOSVKeeps, PutCVEKeeps, StoreKeeps, StoreFailsKeeps, OthersKeep DEF Work
  <1>2. CASE Begin \/ Loop \/ LoopEnds("cut") \/ Kill
    BY <1>2, BeginKeeps, SkipKeeps, TakeKeeps, SpawnKeeps, ForgetKeeps DEF Loop
  <1>3. CASE UNCHANGED vars
    <2>1. LoopStep /\ UNCHANGED <<pc, total, at, force, ended, runs, count, troubles, unread, upset, ever>>
      BY <1>3 DEF vars, main, history, LoopStep
    <2>2. Working' = Working
      BY <2>1, LoopStepKeeps
    <2>3. TypeOK' /\ AtRest' /\ Places' /\ Accounting' /\ NoneForgotten'
      BY <2>1, <2>2
      DEF Inv, TypeOK, AtRest, Places, Accounting, NoneForgotten, Enriched, Pkg,
          LoopStep, tables, worker
    <2> QED
      BY <2>1, <2>3, LoopStepKeeps DEF Inv
  <1> QED
    BY <1>1, <1>2, <1>3 DEF Next, Run

LEMMA InvHolds == Spec => []Inv
  BY InvInit, InvNext, PTL DEF Spec

\* Every reachable state of an enrichment is well typed.
THEOREM EnrichTyped == Spec => []TypeOK
  <1>1. Inv => TypeOK
    BY DEF Inv
  <1> QED
    BY InvHolds, <1>1, PTL

\* What RunEnrich reports adds up to the packages its loop has passed.
THEOREM ReportAddsUp == Spec => []Accounting
  <1>1. Inv => Accounting
    BY DEF Inv
  <1> QED
    BY InvHolds, <1>1, PTL

\* However many packages share a repository, the check-then-act on repoCache
\* costs no more calls for it than the pool has places.
THEOREM CallsAreBounded == Spec => []AsksBounded
  <1>1. Inv => AsksBounded
    <2> SUFFICES ASSUME Inv, NEW r \in Repos PROVE asks[r] <= Pool
      BY DEF AsksBounded
    <2>1. asks[r] \in Nat /\ Pool \in Nat
      BY EnrichAssumption DEF Inv, TypeOK
    <2>2. asks[r] + Cardinality(Asking(r)) <= Pool
      BY DEF Inv, Shared
    <2> QED
      BY <2>1, <2>2, PoolIsFinite
  <1> QED
    BY InvHolds, <1>1, PTL

\* No package is scored without its repository because another goroutine had
\* not finished asking for it.
THEOREM RepositoryNotMissed == Spec => []RepoNotMissed
  <1>1. Inv => RepoNotMissed
    BY DEF Inv, TypeOK, Carried, Blamed, RepoNotMissed
  <1> QED
    BY InvHolds, <1>1, PTL

\* No failing query is remembered as a clean bill, in the row or in the cache.
THEOREM FailureIsNotClean == Spec => []NoFalseClean
  <1>1. Inv => NoFalseClean
    BY DEF Inv, TypeOK, Carried, Excused, NoFalseClean
  <1> QED
    BY InvHolds, <1>1, PTL

\* A run that ends without an error leaves no package of its list behind.
THEOREM RunIsComplete == Spec => []CompleteRun
  <1>1. Inv => CompleteRun
    <2> SUFFICES ASSUME Inv, pc = "idle", ended = "complete", count.errors = 0,
                        NEW i \in 1 .. total
                 PROVE  Enriched(Order[i]) \/ Order[i] \in upset
      BY DEF CompleteRun
    <2>1. Working = {} /\ at = total + 1 /\ total \in 0 .. Len(Order)
      BY DEF Inv, AtRest, TypeOK
    <2>2. i \in 1 .. at - 1 /\ Order[i] \in Pkgs
      BY <2>1, OrderIsOnce
    <2>3. Enriched(Order[i]) \/ Order[i] \in upset \/ step[Order[i]] # "none"
      BY <2>2 DEF Inv, NoneForgotten
    <2> QED
      BY <2>1, <2>2, <2>3 DEF Working
  <1> QED
    BY InvHolds, <1>1, PTL

\* Between the look at a row and its goroutine nobody fills that row: without
\* --force nothing is fetched again while its metadata stands and can be read.
THEOREM FetchedOnce == Spec => NoNeedlessFetch
  <1>1. Inv /\ [Next]_vars =>
          [\A p \in Pkgs : step[p] = "none" /\ step'[p] = "fetch" => force \/ ~Enriched(p) \/ p \in unread]_vars
    <2> SUFFICES ASSUME Inv, Next, NEW p \in Pkgs, step[p] = "none", step'[p] = "fetch"
                 PROVE  force \/ ~Enriched(p) \/ p \in unread
      OBVIOUS
    <2>1. step \in [Pkgs -> Steps]
      BY DEF Inv, TypeOK, Steps
    <2>2. CASE Spawn
      <3>1. pc = "acquire" /\ step' = [step EXCEPT ![Pkg] = "fetch"]
        BY <2>2 DEF Spawn
      <3>2. p = Pkg
        BY <2>1, <3>1
      <3> QED
        BY <3>1, <3>2 DEF Inv, Places
    <2>3. ASSUME NEW q \in Pkgs, Work(q)
          PROVE  FALSE
      <3>1. PICK to \in Steps \ {"fetch"} : step[q] # "none" /\ step' = [step EXCEPT ![q] = to]
        BY <2>3 DEF Work, Fetch, LookUpRepo, AskRepo, PutRepo, LookUpCVE, AskOSV, PutCVE,
                    Store, StoreFails, Goto, Steps
      <3> QED
        BY <2>1, <3>1
    <2>4. CASE Return \/ Kill
      BY <2>4 DEF Return, Kill, Forget
    <2>5. CASE UNCHANGED step
      BY <2>5
    <2>6. \/ Spawn \/ Return \/ Kill \/ UNCHANGED step
          \/ \E q \in Pkgs : Work(q)
      BY DEF Next, Run, Loop, Begin, Skip, Take, LoopEnds, Others, LoseMeta, CrawlCVE, Expire,
             worker
    <2> QED
      BY <2>2, <2>3, <2>4, <2>5, <2>6
  <1> QED
    BY InvHolds, <1>1, PTL DEF Spec, NoNeedlessFetch
===============================================================================
