------------------------- MODULE AnalysisGraphProofs -------------------------
(***************************************************************************)
(* Proofs about the analyses that search a graph: the blast radius, the    *)
(* risks of what is not used directly, and what the parsers make of a lock *)
(* file, for any graph that a scan leaves, with cycles, doubled edges and  *)
(* edges that lead nowhere, any tree of dependencies and any directory.    *)
(*                                                                         *)
(* A search a level at a time finds the least closed set (GrownIs), and so *)
(* does one that goes down first (WalkIs), along chains of edges that go   *)
(* to nothing twice; the paths from a root are those that begin like it,   *)
(* and those that begin like a path go on by each of its neighbours        *)
(* (FoundAre).                                                             *)
(***************************************************************************)
EXTENDS AnalysisProofs, ListProofs

-----------------------------------------------------------------------------
(* The graph *)

\* A graph as a scan leaves it.
Scanned(g) == IsFiniteSet(DOMAIN g.nodes) /\ g.edges \in Seq(ScannedEdge)

Links(g) == {<<e.from, e.to>> : e \in ToSet(g.edges)}

\* All that a search from a node may meet.
Met(g, src) == {src} \union {e.to : e \in ToSet(g.edges)}

\* What the scan asked about is known to have found, and what a handler loads.
Lost(q) == q.kept = "nowhere" \/ (q.kept = "store" /\ "graph" \in q.failing)
Held(q) == IF Lost(q) THEN EmptyGraph ELSE q.graph
Loaded(q) == LoadGraph(ScanOf(q))

\* A graph that is stored and rebuilt is the same.
LEMMA RebuiltIs ==
    ASSUME NEW nodes, nodes \in [DOMAIN nodes -> ScannedNode], NEW edges \in Seq(ScannedEdge)
    PROVE  RebuildGraph(SaveGraph([nodes |-> nodes, edges |-> edges])) = [nodes |-> nodes, edges |-> edges]
  <1> DEFINE stored == SaveGraph([nodes |-> nodes, edges |-> edges])
             saved(id) == [id |-> id, type |-> nodes[id].type, name |-> nodes[id].name,
                           version |-> nodes[id].version, pinning |-> nodes[id].pinning, meta |-> nodes[id].meta]
             restored(n) == [type |-> ParseNodeType(n.type), name |-> n.name, version |-> n.version,
                             pinning |-> ParsePinning(n.pinning), meta |-> n.meta]
             picked(id) == CHOOSE n \in stored.nodes : n.id = id
  <1>1. stored.nodes = {saved(id) : id \in DOMAIN nodes} /\ stored.edges = edges
    BY DEF SaveGraph
  <1>2. \A id \in DOMAIN nodes : saved(id).id = id /\ restored(saved(id)) = nodes[id]
    <2> SUFFICES ASSUME NEW id \in DOMAIN nodes
                 PROVE  restored(saved(id)) = nodes[id]
      OBVIOUS
    <2>1. nodes[id] \in ScannedNode
      OBVIOUS
    <2>2. ParseNodeType(nodes[id].type) = nodes[id].type /\ ParsePinning(nodes[id].pinning) = nodes[id].pinning
      BY <2>1 DEF ParseNodeType, ParsePinning, ScannedNode
    <2> QED
      BY <2>1, <2>2 DEF ScannedNode
  <1>3. RebuildGraph(stored) =
           [nodes |-> [id \in {n.id : n \in stored.nodes} |-> restored(picked(id))],
            edges |-> [i \in DOMAIN stored.edges |-> [stored.edges[i] EXCEPT !.type = ParseEdgeType(@)]]]
    BY DEF RebuildGraph
  <1> HIDE DEF stored, restored, saved
  <1>4. {n.id : n \in stored.nodes} = DOMAIN nodes
    <2>1. \A n \in stored.nodes : \E id \in DOMAIN nodes : n = saved(id) /\ n.id = id
      BY <1>1, <1>2
    <2>2. \A id \in DOMAIN nodes : \E n \in stored.nodes : n.id = id
      BY <1>1, <1>2
    <2> QED
      BY <2>1, <2>2
  <1>5. \A id \in DOMAIN nodes : restored(picked(id)) = nodes[id]
    <2> SUFFICES ASSUME NEW id \in DOMAIN nodes
                 PROVE  restored(picked(id)) = nodes[id]
      OBVIOUS
    <2>1. saved(id) \in stored.nodes /\ saved(id).id = id /\ \A n \in stored.nodes : n.id = id => n = saved(id)
      BY <1>1, <1>2
    <2>2. picked(id) = saved(id)
      BY <2>1
    <2> QED
      BY <1>2, <2>2
  <1>6. \A i \in DOMAIN edges : [edges[i] EXCEPT !.type = ParseEdgeType(@)] = edges[i]
    <2> SUFFICES ASSUME NEW i \in DOMAIN edges
                 PROVE  [edges[i] EXCEPT !.type = ParseEdgeType(@)] = edges[i]
      OBVIOUS
    <2>1. edges[i] \in ScannedEdge
      OBVIOUS
    <2>2. ParseEdgeType(edges[i].type) = edges[i].type
      BY <2>1 DEF ParseEdgeType, ScannedEdge
    <2> QED
      BY <2>1, <2>2 DEF ScannedEdge
  <1>7. [i \in DOMAIN stored.edges |-> [stored.edges[i] EXCEPT !.type = ParseEdgeType(@)]] = edges
    <2>1. [i \in DOMAIN edges |-> edges[i]] = edges
      OBVIOUS
    <2> QED
      BY <1>1, <1>6, <2>1
  <1> HIDE DEF picked
  <1>8. [id \in {n.id : n \in stored.nodes} |-> restored(picked(id))] = nodes
    <2>1. [id \in DOMAIN nodes |-> nodes[id]] = nodes
      OBVIOUS
    <2> QED
      BY <1>4, <1>5, <2>1
  <1> QED
    BY <1>3, <1>7, <1>8 DEF stored

\* What the store gives back is what it was given, and nothing where it was
\* given no nodes.
LEMMA LoadedIs ==
    ASSUME NEW q, BlastRequest(q), Loaded(q) # NoGraph
    PROVE  /\ Scanned(Held(q)) /\ Scanned(Loaded(q))
           /\ Loaded(q) # Held(q) => DOMAIN Loaded(q).nodes = {} /\ DOMAIN Held(q).nodes = {}
  <1>1. Scanned(EmptyGraph) /\ DOMAIN EmptyGraph.nodes = {}
    <2>1. EmptyGraph.nodes = <<>> /\ EmptyGraph.edges = <<>> /\ DOMAIN <<>> = {}
      BY DEF EmptyGraph
    <2> QED
      BY <2>1, FS_EmptySet DEF Scanned
  <1>2. Scanned(q.graph)
    BY DEF Scanned, BlastRequest
  <1>3. CASE q.kept = "memory"
    BY <1>2, <1>3 DEF Held, Lost, Loaded, LoadGraph, ScanOf, BlastRequest
  <1>4. CASE q.kept = "nowhere"
    BY <1>1, <1>4 DEF Held, Lost, Loaded, LoadGraph, ScanOf
  <1>6. CASE q.kept = "store" /\ "graph" \in q.failing
    BY <1>1, <1>6 DEF Held, Lost, Loaded, LoadGraph, ScanOf
  <1>5. CASE q.kept = "store" /\ "graph" \notin q.failing
    <2> DEFINE nodes == q.graph.nodes
               stored == SaveGraph(q.graph)
    <2>1. ScanOf(q).stored = stored /\ ScanOf(q).inMemory = NoGraph /\ stored # NoGraph /\ Held(q) = q.graph
          /\ ScanOf(q).failing = q.failing
      BY <1>5 DEF ScanOf, Held, Lost, BlastRequest
    <2>2. stored.nodes = {} <=> DOMAIN nodes = {}
      <3>1. stored.nodes = {[id |-> id, type |-> nodes[id].type, name |-> nodes[id].name,
                             version |-> nodes[id].version, pinning |-> nodes[id].pinning,
                             meta |-> nodes[id].meta] : id \in DOMAIN nodes}
        BY DEF SaveGraph
      <3> HIDE DEF stored, nodes
      <3> QED
        BY <3>1
    <2>3. CASE DOMAIN nodes = {}
      <3>1. Loaded(q) = EmptyGraph
        BY <2>1, <2>2, <2>3 DEF LoadGraph, Loaded
      <3> QED
        BY <1>1, <1>2, <2>1, <2>3, <3>1
    <2>4. CASE DOMAIN nodes # {}
      <3>1. Loaded(q) = RebuildGraph(stored)
        BY <1>5, <2>1, <2>2, <2>4 DEF LoadGraph, Loaded
      <3>2. RebuildGraph(stored) = q.graph
        BY RebuiltIs DEF BlastRequest
      <3> QED
        BY <1>2, <2>1, <3>1, <3>2
    <2> QED
      BY <2>3, <2>4
  <1> QED
    BY <1>3, <1>4, <1>5, <1>6 DEF BlastRequest

-----------------------------------------------------------------------------
(* Its paths *)

LEMMA LinksLead == \A g, src : LeadInto(Links(g), Met(g, src))
  BY DEF LeadInto, Links, Met

\* A node's neighbours, once for every edge.
LEMMA AdjIs ==
    ASSUME NEW g, Scanned(g), NEW src, NEW id
    PROVE  Adj(g, id) \in Seq(Met(g, src)) /\ Range(Adj(g, id)) = From(Links(g), id)
  <1> DEFINE edges == g.edges
             places == {i \in DOMAIN edges : edges[i].from = id}
             out == Picked(edges, places)
             T == {e \in ScannedEdge : e \in ToSet(edges)}
  <1>1. edges \in Seq(T)
    <2>1. edges \in Seq(ScannedEdge) /\ \A i \in DOMAIN edges : edges[i] \in ScannedEdge /\ edges[i] \in ToSet(edges)
      BY DEF Scanned, ToSet
    <2> QED
      BY <2>1
  <1>2. Adj(g, id) = [i \in DOMAIN out |-> out[i].to]
    BY DEF Adj, Where
  <1> HIDE DEF edges
  <1>3. out \in Seq(T) /\ Range(out) = {edges[i] : i \in DOMAIN edges \intersect places}
    BY <1>1, PickedIs
  <1> HIDE DEF out, T
  <1>4. \A i \in DOMAIN out : out[i] \in ToSet(edges)
    BY <1>3 DEF T
  <1>5. Adj(g, id) \in Seq(Met(g, src))
    <2>1. \A i \in 1..Len(out) : out[i].to \in Met(g, src)
      BY <1>3, <1>4 DEF Met, edges
    <2>2. DOMAIN out = 1..Len(out) /\ Len(out) \in Nat
      BY <1>3
    <2> QED
      BY <1>2, <2>1, <2>2
  <1>6. Range(Adj(g, id)) = {e.to : e \in Range(out)}
    BY <1>2 DEF Range
  <1>7. Range(out) = {e \in ToSet(edges) : e.from = id}
    BY <1>3 DEF ToSet
  <1>8. {e.to : e \in {e \in ToSet(edges) : e.from = id}} = From(Links(g), id)
    <2> DEFINE E == ToSet(edges)
    <2>1. Links(g) = {<<e.from, e.to>> : e \in E}
      BY DEF Links, edges
    <2> HIDE DEF E
    <2>2. ASSUME NEW e \in E, e.from = id
          PROVE  e.to \in From(Links(g), id)
      <3> DEFINE p == <<e.from, e.to>>
      <3>1. p \in Links(g) /\ p[1] = id /\ p[2] = e.to
        BY <2>1, <2>2
      <3> HIDE DEF p
      <3> QED
        BY <3>1 DEF From
    <2>3. ASSUME NEW n \in From(Links(g), id)
          PROVE  \E e \in E : e.from = id /\ e.to = n
      <3>1. PICK p \in Links(g) : p[1] = id /\ p[2] = n
        BY DEF From
      <3>2. PICK e \in E : p = <<e.from, e.to>>
        BY <2>1
      <3>3. e.from = id /\ e.to = n
        BY <3>1, <3>2
      <3> QED
        BY <3>3
    <2> QED
      BY <2>2, <2>3 DEF E
  <1> QED
    BY <1>5, <1>6, <1>7, <1>8

\* Where a path goes on to.
Onwards(g, path) == Where(Adj(g, Last(path)), LAMBDA id : id \notin ToSet(path))

LEMMA OnwardsIs ==
    ASSUME NEW g, Scanned(g), NEW src, NEW path
    PROVE  Onwards(g, path) \in Seq(Met(g, src)) /\ Range(Onwards(g, path)) = From(Links(g), Last(path)) \ Range(path)
  <1> DEFINE adj == Adj(g, Last(path))
             places == {i \in DOMAIN adj : adj[i] \notin ToSet(path)}
  <1>1. adj \in Seq(Met(g, src)) /\ Range(adj) = From(Links(g), Last(path))
    BY AdjIs
  <1>2. Onwards(g, path) = Picked(adj, places)
    BY DEF Onwards, Where
  <1> HIDE DEF adj
  <1>3. Picked(adj, places) \in Seq(Met(g, src)) /\ Range(Picked(adj, places)) = {adj[i] : i \in DOMAIN adj \intersect places}
    BY <1>1, PickedIs
  <1>4. {adj[i] : i \in DOMAIN adj \intersect places} = Range(adj) \ Range(path)
    BY DEF Range, ToSet
  <1> QED
    BY <1>1, <1>2, <1>3, <1>4

\* All that is found where a path goes on to, one after another.
Further(g, path, found) ==
    FlattenSeq([i \in DOMAIN Onwards(g, path) |-> found[Append(path, Onwards(g, path)[i])]])

\* What dfs does with a path, from what it does with those that go on from it.
DfsRule(g, dst, bound, found, path) ==
    IF Last(path) = dst /\ Len(path) > 1 THEN <<path>>
    ELSE IF Len(path) > bound THEN <<>>
    ELSE Further(g, path, found)

DfsFrom(g, src, dst, bound) ==
    CHOOSE f : f = [path \in Seq(Met(g, src)) |-> DfsRule(g, dst, bound, f, path)]

LEMMA GoneOn ==
    ASSUME NEW g, Scanned(g), NEW src, NEW path \in Seq(Met(g, src)), NEW found, NEW T,
           \A n \in From(Links(g), Last(path)) \ Range(path) : found[Append(path, n)] \in Seq(T)
    PROVE  /\ Further(g, path, found) \in Seq(T)
           /\ Range(Further(g, path, found)) =
                 UNION {Range(found[Append(path, n)]) : n \in From(Links(g), Last(path)) \ Range(path)}
  <1> DEFINE next == Onwards(g, path)
             ss == [i \in DOMAIN next |-> found[Append(path, next[i])]]
  <1>1. next \in Seq(Met(g, src)) /\ Range(next) = From(Links(g), Last(path)) \ Range(path)
    BY OnwardsIs
  <1> HIDE DEF next
  <1>2. \A i \in DOMAIN next : next[i] \in From(Links(g), Last(path)) \ Range(path)
    BY <1>1 DEF Range
  <1>3. DOMAIN next = 1..Len(next) /\ Len(next) \in Nat
    BY <1>1
  <1>4. ss \in Seq(Seq(T)) /\ DOMAIN ss = DOMAIN next
    BY <1>2, <1>3
  <1>5. FlattenSeq(ss) \in Seq(T) /\ Range(FlattenSeq(ss)) = UNION {Range(ss[i]) : i \in DOMAIN ss}
    BY <1>4, FlattenedIs
  <1>6. UNION {Range(ss[i]) : i \in DOMAIN ss} = UNION {Range(found[Append(path, n)]) : n \in Range(next)}
    BY <1>4 DEF Range
  <1> HIDE DEF ss
  <1> QED
    BY <1>1, <1>5, <1>6 DEF next, ss, Further

LEMMA DfsIsComputed ==
    ASSUME NEW g, Scanned(g), NEW src, NEW dst, NEW bound \in Nat
    PROVE  \A path \in Seq(Met(g, src)) :
              DfsFrom(g, src, dst, bound)[path] = DfsRule(g, dst, bound, DfsFrom(g, src, dst, bound), path)
  <1> DEFINE S == Seq(Met(g, src))
             V == Seq(S)
             F == [p \in S \X [S -> V] |-> DfsRule(g, dst, bound, p[2], p[1])]
             R == Longer(Met(g, src), bound)
             from == CHOOSE f : f = [path \in S |-> DfsRule(g, dst, bound, f, path)]
  <1>1. DfsFrom(g, src, dst, bound) = from
    BY DEF DfsFrom
  <1>2. ASSUME NEW path \in S, NEW n \in From(Links(g), Last(path))
        PROVE  n \in Met(g, src) /\ Append(path, n) \in S /\ (Len(path) <= bound => <<Append(path, n), path>> \in R)
    <2>1. n \in Met(g, src)
      BY LinksLead, FromIs
    <2> QED
      BY <2>1, LongerIsOrder
  <1>3. ASSUME NEW path \in S, NEW f \in [S -> V]
        PROVE  DfsRule(g, dst, bound, f, path) \in V
    <2>1. \A n \in From(Links(g), Last(path)) \ Range(path) : f[Append(path, n)] \in Seq(S)
      BY <1>2
    <2>2. Further(g, path, f) \in V
      BY <2>1, GoneOn
    <2>3. <<path>> \in V /\ <<>> \in V
      OBVIOUS
    <2> QED
      BY <2>2, <2>3 DEF DfsRule
  <1>4. F \in [S \X [S -> V] -> V]
    BY <1>3
  <1>5. IsLocal(F, S, V, R)
    <2> SUFFICES ASSUME NEW x \in S, NEW f \in [S -> V], NEW h \in [S -> V],
                        \A y \in S : <<y, x>> \in R => f[y] = h[y]
                 PROVE  DfsRule(g, dst, bound, f, x) = DfsRule(g, dst, bound, h, x)
      BY DEF IsLocal
    <2>1. CASE Len(x) > bound
      BY <2>1 DEF DfsRule
    <2>2. CASE ~(Len(x) > bound)
      <3>1. Len(x) <= bound
        BY <2>2
      <3>2. \A n \in From(Links(g), Last(x)) : f[Append(x, n)] = h[Append(x, n)]
        BY <1>2, <3>1
      <3>3. \A i \in DOMAIN Onwards(g, x) : Onwards(g, x)[i] \in From(Links(g), Last(x))
        BY OnwardsIs DEF Range
      <3>4. [i \in DOMAIN Onwards(g, x) |-> f[Append(x, Onwards(g, x)[i])]] =
            [i \in DOMAIN Onwards(g, x) |-> h[Append(x, Onwards(g, x)[i])]]
        BY <3>2, <3>3
      <3> QED
        BY <3>4 DEF DfsRule, Further
    <2> QED
      BY <2>1, <2>2
  <1>6. HasMinimal(R, S) /\ IsTransitivelyClosedOn(R, S) /\ V # {}
    <2>1. <<>> \in V
      OBVIOUS
    <2>2. HasMinimal(R, S) /\ IsTransitivelyClosedOn(R, S)
      BY LongerIsOrder
    <2> HIDE DEF V
    <2> QED
      BY <2>1, <2>2
  <1>7. \E f \in [S -> V] : \A path \in S : f[path] = F[<<path, f>>]
    <2> HIDE DEF F, S, V, R
    <2>1. IsRule(F, S, V, R)
      BY <1>4, <1>5, <1>6 DEF IsRule
    <2>2. Solvable(F, S, V)
      BY <2>1, Recursion
    <2> QED
      BY <2>2 DEF Solvable
  <1>8. \E f : f = [path \in S |-> DfsRule(g, dst, bound, f, path)]
    <2>1. PICK f \in [S -> V] : \A path \in S : f[path] = F[<<path, f>>]
      BY <1>7
    <2>3. \A path \in S : F[<<path, f>>] = DfsRule(g, dst, bound, f, path)
      BY <2>1
    <2> HIDE DEF F, S, V
    <2>2. f = [path \in S |-> DfsRule(g, dst, bound, f, path)]
      BY <2>1, <2>3
    <2> QED
      BY <2>2
  <1>9. from = [path \in S |-> DfsRule(g, dst, bound, from, path)]
    BY <1>8, Zenon
  <1> HIDE DEF from
  <1> QED
    BY <1>1, <1>9

\* What dfs finds from a path: the paths to the node that begin like it.
DfsFine(g, src, dst, bound, path) ==
    LET found == DfsFrom(g, src, dst, bound)[path] IN
    /\ found \in Seq(Seq(Met(g, src)))
    /\ RouteBegins(Met(g, src), Links(g), bound, path) =>
          Range(found) = RoutesLike(Met(g, src), Links(g), bound, dst, path)

LEMMA DfsFinds ==
    ASSUME NEW g, Scanned(g), NEW src, NEW dst, NEW bound \in Nat, NEW start \in Seq(Met(g, src))
    PROVE  DfsFine(g, src, dst, bound, start)
  <1> DEFINE S == Seq(Met(g, src))
             R == Longer(Met(g, src), bound)
             like(p) == RoutesLike(Met(g, src), Links(g), bound, dst, p)
             begins(p) == RouteBegins(Met(g, src), Links(g), bound, p)
             from == DfsFrom(g, src, dst, bound)
             Fine(p) == DfsFine(g, src, dst, bound, p)
             Bad == {path \in S : ~Fine(path)}
  <1>1. SUFFICES ASSUME Bad # {}
                 PROVE  FALSE
    OBVIOUS
  <1>2. PICK path \in Bad : \A other \in Bad : <<other, path>> \notin R
    <2>1. Bad \in SUBSET S
      OBVIOUS
    <2>2. HasMinimal(R, S)
      BY LongerIsOrder
    <2> HIDE DEF Bad, R, S
    <2> QED
      BY <1>1, <2>1, <2>2 DEF HasMinimal
  <1>3. path \in S /\ ~Fine(path) /\ \A other \in S : <<other, path>> \in R => Fine(other)
    BY <1>2
  <1> HIDE DEF Bad
  <1>4. from[path] = DfsRule(g, dst, bound, from, path)
    BY <1>3, DfsIsComputed
  <1>5. ASSUME NEW p \in S, Fine(p)
        PROVE  from[p] \in Seq(S) /\ (begins(p) => Range(from[p]) = like(p))
    BY <1>5 DEF DfsFine
  <1>6. ~(from[path] \in Seq(S) /\ (begins(path) => Range(from[path]) = like(path)))
    BY <1>3 DEF DfsFine
  <1>7. LeadInto(Links(g), Met(g, src))
    BY LinksLead
  <1>8. begins(path) =>
           /\ Last(path) = dst /\ Len(path) > 1 => like(path) = {path}
           /\ ~(Last(path) = dst /\ Len(path) > 1) /\ Len(path) > bound => like(path) = {}
           /\ ~(Last(path) = dst /\ Len(path) > 1) /\ Len(path) <= bound =>
                 like(path) = UNION {like(Append(path, n)) : n \in From(Links(g), Last(path)) \ Range(path)}
    BY <1>7, RoutesLikeAre
  <1>9. begins(path) /\ Len(path) <= bound =>
           \A n \in From(Links(g), Last(path)) \ Range(path) : begins(Append(path, n))
    BY <1>7, RouteLonger
  <1>10. \A n \in From(Links(g), Last(path)) : n \in Met(g, src)
    BY <1>7, FromIs
  <1> HIDE DEF from, like, begins, Fine
  <1>11. CASE Last(path) = dst /\ Len(path) > 1
    <2>1. from[path] = <<path>> /\ <<path>> \in Seq(S) /\ Range(<<path>>) = {path}
      BY <1>3, <1>4, <1>11 DEF DfsRule, Range
    <2> QED
      BY <1>6, <1>8, <1>11, <2>1
  <1>12. CASE ~(Last(path) = dst /\ Len(path) > 1) /\ Len(path) > bound
    <2>1. from[path] = <<>> /\ <<>> \in Seq(S) /\ Range(<<>>) = {}
      BY <1>4, <1>12 DEF DfsRule, Range
    <2> QED
      BY <1>6, <1>8, <1>12, <2>1
  <1>13. CASE ~(Last(path) = dst /\ Len(path) > 1) /\ ~(Len(path) > bound)
    <2>1. Len(path) <= bound
      BY <1>3, <1>13
    <2>2. ASSUME NEW n \in From(Links(g), Last(path)) \ Range(path)
          PROVE  from[Append(path, n)] \in Seq(S) /\ (begins(path) => Range(from[Append(path, n)]) = like(Append(path, n)))
      <3>1. Append(path, n) \in S /\ <<Append(path, n), path>> \in R
        BY <1>3, <1>10, <2>1, LongerIsOrder
      <3>2. Fine(Append(path, n))
        BY <1>3, <3>1
      <3> QED
        BY <1>5, <1>9, <2>1, <3>1, <3>2
    <2> DEFINE all == Further(g, path, from)
    <2>3. /\ all \in Seq(S)
          /\ Range(all) = UNION {Range(from[Append(path, n)]) : n \in From(Links(g), Last(path)) \ Range(path)}
      BY <1>3, <2>2, GoneOn
    <2>4. from[path] = all
      BY <1>4, <1>13 DEF DfsRule
    <2> HIDE DEF all
    <2>5. begins(path) => Range(all) = UNION {like(Append(path, n)) : n \in From(Links(g), Last(path)) \ Range(path)}
      BY <2>2, <2>3
    <2> QED
      BY <1>6, <1>8, <1>13, <2>1, <2>3, <2>4, <2>5
  <1> QED
    BY <1>11, <1>12, <1>13

\* The paths from one node to another, all that are within the bound.
LEMMA PathsAre ==
    ASSUME NEW g, Scanned(g), NEW src, NEW dst, NEW bound \in Nat
    PROVE  /\ FindPaths(g, src, dst, bound) \in Seq(Seq(Met(g, src)))
           /\ Range(FindPaths(g, src, dst, bound)) = Routes(Met(g, src), Links(g), bound, src, dst)
  <1>1. ToSet(<<src>>) = {src} /\ <<src>> \in Seq(Met(g, src)) /\ src \in Met(g, src)
    BY DEF Met, ToSet
  <1>2. FindPaths(g, src, dst, bound) = DfsFrom(g, src, dst, bound)[<<src>>]
    BY <1>1, Zenon DEF FindPaths, Dfs, DfsFrom, DfsRule, Further, Onwards, Met
  <1>3. /\ RouteBegins(Met(g, src), Links(g), bound, <<src>>)
        /\ RoutesLike(Met(g, src), Links(g), bound, dst, <<src>>) = Routes(Met(g, src), Links(g), bound, src, dst)
    BY <1>1, RoutesAre
  <1>4. DfsFine(g, src, dst, bound, <<src>>)
    BY <1>1, DfsFinds
  <1> QED
    BY <1>2, <1>3, <1>4 DEF DfsFine

-----------------------------------------------------------------------------
(* The blast radius *)

\* The paths from one node to another, however many nodes there are besides.
RunsAmong(g, bound, src, dst, ids) ==
    {s \in UNION {[1..k -> ids] : k \in 2..(bound + 1)} :
        Follows(s, Links(g)) /\ IsInjective(s) /\ s[1] = src /\ Last(s) = dst}

LEMMA RoutesAmong ==
    ASSUME NEW g, Scanned(g), NEW bound \in Nat, NEW src, NEW dst, NEW ids, Met(g, src) \subseteq ids
    PROVE  Routes(Met(g, src), Links(g), bound, src, dst) = RunsAmong(g, bound, src, dst, ids)
  <1> DEFINE met == Met(g, src)
             few == UNION {[1..k -> met] : k \in 2..bound + 1}
             many == UNION {[1..k -> ids] : k \in 2..(bound + 1)}
  <1>1. few \subseteq many
    OBVIOUS
  <1>2. ASSUME NEW s \in many
        PROVE  s \in Seq(ids) /\ Len(s) \in 2..bound + 1 /\ s \in [1..Len(s) -> ids]
    <2>1. PICK k \in 2..bound + 1 : s \in [1..k -> ids]
      OBVIOUS
    <2>2. k \in Nat /\ Len(s) = k
      BY <2>1
    <2> QED
      BY <2>1, <2>2
  <1>3. \A n, m : <<n, m>> \in Links(g) <=> m \in From(Links(g), n)
    <2> SUFFICES ASSUME NEW n, NEW m
                 PROVE  <<n, m>> \in Links(g) <=> m \in From(Links(g), n)
      OBVIOUS
    <2>1. \A p \in Links(g) : p = <<p[1], p[2]>>
      BY DEF Links
    <2> QED
      BY <2>1 DEF From
  <1>4. ASSUME NEW s \in many, Follows(s, Links(g)), s[1] = src
        PROVE  s \in few /\ s \in Seq(met)
    <2>1. s \in [1..Len(s) -> ids] /\ Len(s) \in 2..bound + 1 /\ Len(s) \in Nat
      BY <1>2
    <2>2. ASSUME NEW i \in 1..Len(s)
          PROVE  s[i] \in met
      <3>1. CASE i = 1
        BY <1>4, <3>1 DEF Met
      <3>2. CASE i # 1
        <4>1. i - 1 \in 1..(Len(s) - 1) /\ (i - 1) + 1 = i
          <5> DEFINE n == Len(s)
          <5>1. n \in Nat /\ i \in 1..n
            BY <2>1
          <5> HIDE DEF n
          <5>2. i - 1 \in 1..(n - 1) /\ (i - 1) + 1 = i
            BY <3>2, <5>1
          <5> QED
            BY <5>2 DEF n
        <4>2. <<s[i - 1], s[i]>> \in Links(g)
          BY <1>4, <4>1 DEF Follows
        <4>3. s[i] \in From(Links(g), s[i - 1])
          BY <1>3, <4>2
        <4> QED
          BY <4>3, LinksLead, FromIs
      <3> QED
        BY <3>1, <3>2
    <2>3. s \in [1..Len(s) -> met]
      BY <2>1, <2>2
    <2> QED
      BY <2>1, <2>3
  <1>5. \A s \in many : Last(s) = s[Len(s)]
    BY <1>2 DEF Last
  <1>6. ASSUME NEW s \in few
        PROVE  IsRoute(met, Links(g), s) <=> IsInjective(s) /\ Follows(s, Links(g))
    <2>1. s \in Seq(met)
      <3>1. PICK k \in 2..bound + 1 : s \in [1..k -> met]
        OBVIOUS
      <3>2. k \in Nat
        BY <3>1
      <3> QED
        BY <3>1, <3>2
    <2> HIDE DEF few, many
    <2> QED
      BY <1>3, <2>1 DEF IsRoute, Follows
  <1>7. Routes(met, Links(g), bound, src, dst) = {s \in few : IsRoute(met, Links(g), s) /\ s[1] = src /\ s[Len(s)] = dst}
    BY DEF Routes
  <1> HIDE DEF few, many, met
  <1> QED
    BY <1>1, <1>4, <1>5, <1>6, <1>7 DEF many, met, RunsAmong

\* What lies on a path from a root to what is affected.
Exposed(g, affected, ids) ==
    {s \in UNION {[1..k -> ids] : k \in 2..(PathDepth + 1)} :
        /\ Follows(s, Links(g)) /\ IsInjective(s)
        /\ s[1] \in FindRootNodes(g) /\ Last(s) \in affected}

Among(g) == DOMAIN g.nodes \union UNION {{p[1], p[2]} : p \in Links(g)}

\* Cut off where there are enough.
LEMMA CutIs ==
    ASSUME NEW T, NEW s \in Seq(T), NEW most \in Nat
    PROVE  LET cut == SubSeq(s, 1, Min({Len(s), most}))
           IN  /\ Range(cut) \subseteq Range(s) /\ (Len(cut) < most => cut = s)
               /\ cut \in Seq(T) /\ \A i \in DOMAIN cut : i \in DOMAIN s /\ cut[i] = s[i]
  <1> DEFINE m == Min({Len(s), most})
             cut == SubSeq(s, 1, m)
  <1>1. Len(s) \in Nat /\ most \in Nat /\ {Len(s), most} # {}
    OBVIOUS
  <1>2. m \in {Len(s), most} /\ m <= Len(s) /\ m <= most
    BY <1>1, LeastNumber
  <1> HIDE DEF m
  <1>3. m \in Nat /\ Len(cut) = m /\ DOMAIN cut = 1..m /\ \A i \in 1..m : cut[i] = s[i]
    BY <1>1, <1>2
  <1>4. \A i \in 1..m : i \in DOMAIN s
    BY <1>1, <1>2, <1>3
  <1>5. cut \in Seq(T)
    BY <1>1, <1>2, <1>3
  <1> HIDE DEF cut
  <1>6. Range(cut) \subseteq Range(s)
    BY <1>3, <1>4 DEF Range
  <1>7. ASSUME Len(cut) < most
        PROVE  cut = s
    <2>1. m = Len(s)
      BY <1>1, <1>2, <1>3, <1>7
    <2> QED
      BY <1>3, <1>5, <2>1
  <1> QED
    BY <1>3, <1>4, <1>5, <1>6, <1>7 DEF cut, m

\* Any order of a set's members has each of them and nothing else.
LEMMA OrderedIs ==
    ASSUME NEW S, IsFiniteSet(S), NEW s \in SetToSeqs(S)
    PROVE  s \in Seq(S) /\ \A x \in S : \E i \in DOMAIN s : s[i] = x
  <1> DEFINE n == Cardinality(S)
  <1>1. n \in Nat
    BY FS_CardinalityType
  <1>2. s \in [1..n -> S] /\ \A i, j \in 1..n : i # j => s[i] # s[j]
    BY DEF SetToSeqs
  <1>3. IsFiniteSet(1..n) /\ Cardinality(1..n) = n
    BY <1>1, FS_Interval
  <1> HIDE DEF n
  <1>4. s \in Injection(1..n, S)
    BY <1>2 DEF Injection, IsInjective
  <1>5. s \in Surjection(1..n, S)
    BY <1>3, <1>4, FS_Injection DEF n
  <1> QED
    BY <1>1, <1>2, <1>5 DEF Surjection

LEMMA ExposurePathsAre ==
    ASSUME NEW g, Scanned(g), NEW affected, IsFiniteSet(affected), NEW result \in FindExposurePaths(g, affected)
    PROVE  /\ ToSet(result) \subseteq Exposed(g, affected, Among(g))
           /\ Len(result) < MaxPaths => ToSet(result) = Exposed(g, affected, Among(g))
  <1> DEFINE starts == FindRootNodes(g)
             table == [src \in starts |-> [dst \in affected |->
                          IF src = dst THEN <<>> ELSE FindPaths(g, src, dst, PathDepth)]]
             along(src, ends) == FlattenSeq([k \in DOMAIN ends |-> table[src][ends[k]]])
             met(roots, ends) == FlattenSeq([i \in DOMAIN roots |-> along(roots[i], ends[roots[i]])])
             cut(paths) == SubSeq(paths, 1, Min({Len(paths), MaxPaths}))
  <1>0. FindExposurePaths(g, affected) =
           {cut(met(roots, ends)) : roots \in SetToSeqs(starts), ends \in [starts -> SetToSeqs(affected)]}
    BY DEF FindExposurePaths
  <1> HIDE DEF met, cut
  <1> PICK roots \in SetToSeqs(starts), ends \in [starts -> SetToSeqs(affected)] : result = cut(met(roots, ends))
    BY <1>0
  <1> DEFINE ids == Among(g)
             T == Seq(ids)
             between(src, dst) == IF src = dst THEN <<>> ELSE FindPaths(g, src, dst, PathDepth)
             from(i) == [k \in DOMAIN ends[roots[i]] |-> between(roots[i], ends[roots[i]][k])]
             found == [i \in DOMAIN roots |-> FlattenSeq(from(i))]
             paths == FlattenSeq(found)
             many == UNION {[1..k -> ids] : k \in 2..(PathDepth + 1)}
             runs(s, src, dst) == Follows(s, Links(g)) /\ IsInjective(s) /\ s[1] = src /\ Last(s) = dst
  <1>1. PathDepth \in Nat /\ MaxPaths \in Nat
    BY PathsAssumption
  <1>2. IsFiniteSet(FindRootNodes(g))
    BY FS_Subset DEF FindRootNodes, Scanned
  <1>3. /\ roots \in Seq(FindRootNodes(g)) /\ \A src \in FindRootNodes(g) : \E i \in DOMAIN roots : roots[i] = src
        /\ \A src \in FindRootNodes(g) :
               ends[src] \in Seq(affected) /\ \A dst \in affected : \E i \in DOMAIN ends[src] : ends[src][i] = dst
    BY <1>2, OrderedIs
  <1>4. ASSUME NEW src \in FindRootNodes(g), NEW dst
        PROVE  between(src, dst) \in Seq(T) /\ Range(between(src, dst)) = {s \in many : runs(s, src, dst)}
    <2>1. Met(g, src) \subseteq ids
      <3>1. \A e \in ToSet(g.edges) : <<e.from, e.to>> \in Links(g)
        BY DEF Links
      <3>4. \A n, m : <<n, m>> \in Links(g) => m \in ids
        <4>1. \A p \in Links(g) : p[2] \in ids
          BY DEF Among
        <4> HIDE DEF ids
        <4> QED
          BY <4>1
      <3>2. \A e \in ToSet(g.edges) : e.to \in ids
        BY <3>1, <3>4
      <3>3. src \in ids
        BY DEF Among, FindRootNodes
      <3> QED
        BY <3>2, <3>3 DEF Met
    <2> HIDE DEF ids
    <2>2. CASE src # dst
      <3>1. between(src, dst) = FindPaths(g, src, dst, PathDepth)
        BY <2>2
      <3>2. FindPaths(g, src, dst, PathDepth) \in Seq(Seq(Met(g, src)))
        BY <1>1, PathsAre
      <3>3. Range(FindPaths(g, src, dst, PathDepth)) = {s \in many : runs(s, src, dst)}
        <4>1. Range(FindPaths(g, src, dst, PathDepth)) = Routes(Met(g, src), Links(g), PathDepth, src, dst)
          BY <1>1, PathsAre
        <4>2. Routes(Met(g, src), Links(g), PathDepth, src, dst) = RunsAmong(g, PathDepth, src, dst, ids)
          BY <1>1, <2>1, RoutesAmong
        <4> QED
          BY <4>1, <4>2 DEF RunsAmong
      <3>4. Seq(Seq(Met(g, src))) \subseteq Seq(T)
        <4>1. Seq(Met(g, src)) \subseteq T
          BY <2>1
        <4> HIDE DEF T
        <4> QED
          BY <4>1
      <3> QED
        BY <3>1, <3>2, <3>3, <3>4
    <2>3. CASE src = dst
      <3>1. \A s \in many : DOMAIN s = 1..Len(s) /\ Len(s) \in Nat /\ Len(s) >= 2 /\ Last(s) = s[Len(s)]
        BY <1>1 DEF Last
      <3>2. \A s \in many : 1 \in DOMAIN s /\ Len(s) \in DOMAIN s /\ 1 # Len(s)
        BY <3>1
      <3>3. \A s \in many : ~runs(s, src, dst)
        BY <2>3, <3>1, <3>2 DEF IsInjective
      <3>4. between(src, dst) = <<>> /\ <<>> \in Seq(T) /\ Range(<<>>) = {}
        BY <2>3 DEF Range
      <3> QED
        BY <3>3, <3>4
    <2> QED
      BY <2>2, <2>3
  <1> HIDE DEF between, runs, many, T, ids
  <1>5. ASSUME NEW i \in DOMAIN roots
        PROVE  FlattenSeq(from(i)) \in Seq(T) /\ Range(FlattenSeq(from(i))) = {s \in many : \E dst \in affected : runs(s, roots[i], dst)}
    <2> DEFINE order == ends[roots[i]]
    <2>1. roots[i] \in FindRootNodes(g)
      BY <1>3
    <2>8. order \in Seq(affected) /\ \A dst \in affected : \E k \in DOMAIN order : order[k] = dst
      BY <1>3, <2>1
    <2>9. from(i) = [k \in DOMAIN order |-> between(roots[i], order[k])]
      OBVIOUS
    <2> HIDE DEF order, from
    <2>2. DOMAIN order = 1..Len(order) /\ Len(order) \in Nat /\ \A k \in DOMAIN order : order[k] \in affected
      BY <2>8
    <2>3. from(i) \in Seq(Seq(T)) /\ DOMAIN from(i) = DOMAIN order
      BY <1>4, <2>1, <2>2, <2>9
    <2>4. FlattenSeq(from(i)) \in Seq(T) /\ Range(FlattenSeq(from(i))) = UNION {Range(from(i)[k]) : k \in DOMAIN from(i)}
      BY <2>3, FlattenedIs
    <2>5. \A k \in DOMAIN order : Range(from(i)[k]) = {s \in many : runs(s, roots[i], order[k])}
      BY <1>4, <2>1, <2>9
    <2>6. UNION {Range(from(i)[k]) : k \in DOMAIN from(i)} = UNION {{s \in many : runs(s, roots[i], order[k])} : k \in DOMAIN order}
      BY <2>3, <2>5
    <2>7. UNION {{s \in many : runs(s, roots[i], order[k])} : k \in DOMAIN order} = {s \in many : \E dst \in affected : runs(s, roots[i], dst)}
      BY <2>2, <2>8
    <2> QED
      BY <2>4, <2>6, <2>7
  <1> HIDE DEF from
  <1>6. paths \in Seq(T) /\ Range(paths) = {s \in many : \E src \in FindRootNodes(g), dst \in affected : runs(s, src, dst)}
    <2>1. DOMAIN roots = 1..Len(roots) /\ Len(roots) \in Nat /\ \A i \in DOMAIN roots : roots[i] \in FindRootNodes(g)
      BY <1>3
    <2>2. found \in Seq(Seq(T)) /\ DOMAIN found = DOMAIN roots
      BY <1>5, <2>1
    <2>3. paths \in Seq(T) /\ Range(paths) = UNION {Range(found[i]) : i \in DOMAIN found}
      BY <2>2, FlattenedIs
    <2>4. UNION {Range(found[i]) : i \in DOMAIN found} = UNION {{s \in many : \E dst \in affected : runs(s, roots[i], dst)} : i \in DOMAIN roots}
      BY <1>5, <2>2
    <2>5. UNION {{s \in many : \E dst \in affected : runs(s, roots[i], dst)} : i \in DOMAIN roots}
             = {s \in many : \E src \in FindRootNodes(g), dst \in affected : runs(s, src, dst)}
      <3> DEFINE leads(s, src) == \E dst \in affected : runs(s, src, dst)
                 begun(src) == {s \in many : leads(s, src)}
                 begin == FindRootNodes(g)
      <3>1. /\ \A i \in DOMAIN roots : roots[i] \in begin
            /\ \A src \in begin : \E i \in DOMAIN roots : roots[i] = src
        BY <1>3, <2>1
      <3> HIDE DEF begin, leads
      <3>2. UNION {begun(roots[i]) : i \in DOMAIN roots} = {s \in many : \E src \in begin : leads(s, src)}
        BY <3>1
      <3>3. {s \in many : \E src \in begin : leads(s, src)}
               = {s \in many : \E src \in begin, dst \in affected : runs(s, src, dst)}
        BY DEF leads
      <3> QED
        BY <3>2, <3>3 DEF leads, begin
    <2> HIDE DEF found, paths
    <2> QED
      BY <2>3, <2>4, <2>5, Zenon
  <1>7. Exposed(g, affected, ids) = {s \in many : \E src \in FindRootNodes(g), dst \in affected : runs(s, src, dst)}
    BY DEF Exposed, runs, many
  <1>8. result = SubSeq(paths, 1, Min({Len(paths), MaxPaths}))
    <2>1. \A i \in DOMAIN roots : along(roots[i], ends[roots[i]]) = FlattenSeq(from(i))
      <3> SUFFICES ASSUME NEW i \in DOMAIN roots
                   PROVE  along(roots[i], ends[roots[i]]) = FlattenSeq(from(i))
        OBVIOUS
      <3> DEFINE order == ends[roots[i]]
                 src == roots[i]
      <3>1. src \in starts /\ order \in Seq(affected)
        BY <1>3
      <3>2. from(i) = [k \in DOMAIN order |-> between(src, order[k])]
        BY DEF from
      <3> HIDE DEF order, src, starts
      <3>3. \A k \in DOMAIN order : table[src][order[k]] = between(src, order[k])
        BY <3>1 DEF between
      <3> HIDE DEF table
      <3>4. [k \in DOMAIN order |-> table[src][order[k]]] = from(i)
        BY <3>2, <3>3
      <3> QED
        BY <3>4 DEF order, src
    <2> HIDE DEF along
    <2>2. [i \in DOMAIN roots |-> along(roots[i], ends[roots[i]])] = found
      BY <2>1
    <2> HIDE DEF found, paths
    <2>3. met(roots, ends) = paths
      BY <2>2 DEF met, paths
    <2> QED
      BY <2>3 DEF cut
  <1> HIDE DEF paths
  <1>9. /\ Range(result) \subseteq Range(paths)
        /\ Len(result) < MaxPaths => result = paths
    BY <1>1, <1>6, <1>8, CutIs
  <1>10. \A s : ToSet(s) = Range(s)
    BY DEF ToSet, Range
  <1> QED
    BY <1>6, <1>7, <1>8, <1>9, <1>10 DEF ids

\* What computeBlast does for some packages of a graph.
Hits(g, pkgs) == UNION {FindAffectedNodes(g, pkgs[i].name, pkgs[i].range) : i \in DOMAIN pkgs}

Up(g, ids) == Downstream({<<p[2], p[1]>> : p \in Links(g)}, ids)

IsBlast(g, pkgs, body) ==
    LET up == Up(g, Hits(g, pkgs)) IN
    /\ body.affected = up /\ body.total = Cardinality(up)
    /\ ToSet(body.paths) \subseteq Exposed(g, up, Among(g))
    /\ Len(body.paths) < MaxPaths => ToSet(body.paths) = Exposed(g, up, Among(g))
    /\ body.depth = Max({0} \union {Len(s) : s \in ToSet(body.paths)})

LEMMA HitsAre == \A g, pkgs : Hits(g, pkgs) \subseteq DOMAIN g.nodes
  <1>1. \A g, name, range : FindAffectedNodes(g, name, range) \subseteq DOMAIN g.nodes
    BY DEF FindAffectedNodes
  <1> QED
    BY <1>1 DEF Hits

\* The search against the edges finds all that leads to a seed.
LEMMA UpIs ==
    ASSUME NEW g, Scanned(g), NEW ids, IsFiniteSet(ids)
    PROVE  ReverseBFS(g, ids) = Up(g, ids) /\ IsFiniteSet(Up(g, ids))
  <1> DEFINE back == {<<e.to, e.from>> : e \in ToSet(g.edges)}
             froms == [i \in DOMAIN g.edges |-> g.edges[i].from]
  <1>1. back = {<<p[2], p[1]>> : p \in Links(g)}
    <2> DEFINE E == ToSet(g.edges)
    <2>1. \A p : p \in Links(g) <=> \E e \in E : p = <<e.from, e.to>>
      BY DEF Links
    <2>2. \A p : p \in back <=> \E e \in E : p = <<e.to, e.from>>
      OBVIOUS
    <2> HIDE DEF E, back
    <2>3. ASSUME NEW p \in back
          PROVE  p \in {<<l[2], l[1]>> : l \in Links(g)}
      <3>1. PICK e \in E : p = <<e.to, e.from>>
        BY <2>2
      <3>2. <<e.from, e.to>> \in Links(g) /\ <<e.from, e.to>>[1] = e.from /\ <<e.from, e.to>>[2] = e.to
        BY <2>1
      <3> QED
        BY <3>1, <3>2
    <2>4. ASSUME NEW l \in Links(g)
          PROVE  <<l[2], l[1]>> \in back
      <3>1. PICK e \in E : l = <<e.from, e.to>>
        BY <2>1
      <3>2. l[1] = e.from /\ l[2] = e.to
        BY <3>1
      <3> QED
        BY <2>2, <3>2
    <2> QED
      BY <2>3, <2>4
  <1>2. {p[2] : p \in back} = Range(froms)
    <2> DEFINE E == ToSet(g.edges)
    <2>1. Range(froms) = {e.from : e \in E}
      BY DEF Range, ToSet
    <2>2. \A p : p \in back <=> \E e \in E : p = <<e.to, e.from>>
      OBVIOUS
    <2> HIDE DEF E, back, froms
    <2>3. ASSUME NEW p \in back
          PROVE  p[2] \in Range(froms)
      <3>1. PICK e \in E : p = <<e.to, e.from>>
        BY <2>2
      <3>2. p[2] = e.from
        BY <3>1
      <3> QED
        BY <2>1, <3>2
    <2>4. ASSUME NEW e \in E
          PROVE  \E p \in back : p[2] = e.from
      <3>1. <<e.to, e.from>> \in back /\ <<e.to, e.from>>[2] = e.from
        BY <2>2
      <3> QED
        BY <3>1
    <2> QED
      BY <2>1, <2>3, <2>4
  <1>3. froms \in Seq(STRING)
    <2>1. \A i \in DOMAIN g.edges : g.edges[i].from \in STRING
      <3>1. \A e \in ScannedEdge : e.from \in STRING
        BY DEF ScannedEdge
      <3>2. \A i \in DOMAIN g.edges : g.edges[i] \in ScannedEdge
        BY DEF Scanned
      <3> QED
        BY <3>1, <3>2
    <2>2. DOMAIN g.edges = 1..Len(g.edges) /\ Len(g.edges) \in Nat
      BY DEF Scanned
    <2> QED
      BY <2>1, <2>2
  <1> HIDE DEF froms
  <1>4. IsFiniteSet({p[2] : p \in back})
    BY <1>2, <1>3, RangeIsFinite
  <1> HIDE DEF back
  <1>5. Grown(back, ids) = Downstream(back, ids)
    BY <1>4, GrownIs
  <1>6. IsFiniteSet(ids \union {p[2] : p \in back})
    BY <1>4, FS_Union
  <1>7. IsFiniteSet(Downstream(back, ids))
    BY <1>6, DownstreamIs, FS_Subset
  <1> QED
    BY <1>1, <1>5, <1>7 DEF ReverseBFS, Up, back

LEMMA UpOfNone ==
    ASSUME NEW g
    PROVE  Up(g, {}) = {} /\ \A ids : Exposed(g, {}, ids) = {}
  <1>1. \A pairs : IsClosed(pairs, {})
    BY DEF IsClosed
  <1>2. \A pairs : Downstream(pairs, {}) = {}
    BY <1>1, DownstreamIs
  <1> QED
    BY <1>2 DEF Up, Exposed

LEMMA BlastIs ==
    ASSUME NEW g, Scanned(g), NEW pkgs
    PROVE  \A body \in ComputeBlast(g, pkgs) : IsBlast(g, pkgs, body)
  <1> SUFFICES ASSUME NEW body \in ComputeBlast(g, pkgs)
               PROVE  IsBlast(g, pkgs, body)
    OBVIOUS
  <1> DEFINE hits == Hits(g, pkgs)
             up == Up(g, hits)
  <1>1. IsFiniteSet(hits)
    BY HitsAre, FS_Subset DEF Scanned
  <1>2. ReverseBFS(g, hits) = up /\ IsFiniteSet(up)
    BY <1>1, UpIs
  <1>3. CASE hits = {}
    <2>1. body = [affected |-> {}, paths |-> <<>>, total |-> 0, depth |-> 0]
      BY <1>3 DEF ComputeBlast, Hits
    <2>2. up = {} /\ Exposed(g, up, Among(g)) = {}
      BY <1>3, UpOfNone
    <2>3. ToSet(<<>>) = {} /\ Cardinality({}) = 0
      BY FS_EmptySet DEF ToSet
    <2>4. Max({0} \union {Len(s) : s \in {}}) = 0
      <3>1. {0} \union {Len(s) : s \in {}} = {0} /\ {0} \in SUBSET (0..100)
        OBVIOUS
      <3> QED
        BY <3>1, GreatestIs
    <2> HIDE DEF up, hits
    <2>5. /\ body.affected = up /\ body.total = Cardinality(up) /\ body.paths = <<>> /\ body.depth = 0
      BY <2>1, <2>2, <2>3
    <2> QED
      BY <2>2, <2>3, <2>4, <2>5 DEF IsBlast, up, hits
  <1>4. CASE hits # {}
    <2> DEFINE answer(found) == [affected |-> up, paths |-> found, total |-> Cardinality(up), depth |-> BlastDepth(found)]
    <2>4. ComputeBlast(g, pkgs) = {answer(found) : found \in FindExposurePaths(g, up)}
      BY <1>2, <1>4, Zenon DEF ComputeBlast, Hits
    <2> HIDE DEF answer
    <2>5. PICK paths \in FindExposurePaths(g, up) : body = answer(paths)
      BY <2>4
    <2>1. body = [affected |-> up, paths |-> paths, total |-> Cardinality(up), depth |-> BlastDepth(paths)]
      BY <2>5, Zenon DEF answer
    <2>2. /\ ToSet(paths) \subseteq Exposed(g, up, Among(g))
          /\ Len(paths) < MaxPaths => ToSet(paths) = Exposed(g, up, Among(g))
      BY <1>2, ExposurePathsAre
    <2>3. BlastDepth(paths) = Max({0} \union {Len(s) : s \in ToSet(paths)})
      <3>1. {Len(paths[i]) : i \in DOMAIN paths} = {Len(s) : s \in ToSet(paths)}
        BY DEF ToSet
      <3> QED
        BY <3>1 DEF BlastDepth
    <2> HIDE DEF up, hits
    <2> QED
      BY <2>1, <2>2, <2>3 DEF IsBlast, up, hits
  <1> QED
    BY <1>3, <1>4

\* The blast radius of any package or advisory in any graph is what leads to a
\* node in range, and its paths those from the roots within the bound, in
\* whatever order the maps are ranged over; the store changes nothing of it
\* unless it cannot be read, and a simulation is as exact as the real thing.
\* (computeBlast, reverseBFS, findExposurePaths, loadGraph)
THEOREM BlastRadiusIsExact == Spec => []BlastIsExact
  <1>1. Answers => BlastIsExact
    <2> SUFFICES ASSUME Answers, Answered("blast")
                 PROVE  BlastIsExact
      BY DEF BlastIsExact
    <2> DEFINE q == request.asked
               scan == ScanOf(request)
               g == Loaded(request)
               h == Held(request)
               one == <<[name |-> q.name, range |-> q.range]>>
               pkgs == IF q.mode = "cve" THEN ExtractAffectedPackages(request.osv) ELSE one
    <2>1. BlastRequest(request)
      BY RequestsAssumption DEF Answers, Answered, Instances
    <2>2. /\ reply.blast = HandleBlastRadius(q, scan, request.osv)
          /\ reply.simulate = HandleSimulate(q, scan)
          /\ reply.gaps = HandleGaps(scan)
      BY DEF Answers, Answered
    <2>3. g # NoGraph => Scanned(g) /\ Scanned(h) /\ (g # h => DOMAIN g.nodes = {} /\ DOMAIN h.nodes = {})
      BY <2>1, LoadedIs
    <2>4. Unknown(scan) <=> ~request.known \/ "scan" \in request.failing
      BY DEF ScanOf, Unknown
    <2>5. \A n, other : Answer(n, other).status = n /\ Answer(n, other).body = other
      BY DEF Answer
    <2>6. ASSUME NEW a \in reply.blast, a.status = 200
          PROVE  /\ g # NoGraph /\ a.body \in ComputeBlast(g, pkgs)
                 /\ q.mode # Unparsed /\ ~Unknown(scan) /\ (q.mode = "package" => q.name # "" /\ q.range # <<>>)
      <3> DEFINE refused == q.mode \notin {"cve", "package"} \/ q.name = "" \/ (q.mode = "package" /\ q.range = <<>>)
                 refusals == {Answer(400, {}), Answer(404, {}), Answer(500, {}), Answer(502, {})}
                 granted == {Answer(200, body) : body \in ComputeBlast(g, pkgs)}
      <3>1. reply.blast = IF q.mode = Unparsed THEN {Answer(400, {})}
                          ELSE IF Unknown(scan) THEN {Answer(404, {})}
                          ELSE IF g = NoGraph THEN {Answer(500, {})}
                          ELSE IF refused THEN {Answer(400, {})}
                          ELSE IF q.mode = "cve" /\ request.osv = Unparsed THEN {Answer(502, {})}
                          ELSE granted
        BY <2>2, Zenon DEF HandleBlastRadius, Loaded
      <3>2. a \notin refusals
        BY <2>5, <2>6
      <3> HIDE DEF refused, granted
      <3>3. q.mode # Unparsed /\ ~Unknown(scan) /\ g # NoGraph /\ ~refused /\ a \in granted
        BY <3>1, <3>2
      <3>4. a.body \in ComputeBlast(g, pkgs)
        BY <2>5, <3>3 DEF granted
      <3> QED
        BY <3>3, <3>4 DEF refused
    <2>7. ASSUME g # NoGraph
          PROVE  ComputeBlast(g, pkgs) = ComputeBlast(h, pkgs) /\ AnalyzeGaps(g) = AnalyzeGaps(h)
      <3>1. CASE g = h
        BY <3>1
      <3>2. CASE g # h
        <4>1. Hits(g, pkgs) = {} /\ Hits(h, pkgs) = {}
          BY <2>3, <2>7, <3>2, HitsAre
        <4>2. AnalyzeGaps(g) = AnalyzeGaps(h)
          BY <2>3, <2>7, <3>2 DEF AnalyzeGaps
        <4> HIDE DEF pkgs, g, h
        <4> QED
          BY <4>1, <4>2 DEF ComputeBlast, Hits
      <3> QED
        BY <3>1, <3>2
    <2>8. \A a \in reply.blast : a.status = 200 => IsBlast(h, pkgs, a.body)
      <3> SUFFICES ASSUME NEW a \in reply.blast, a.status = 200
                   PROVE  IsBlast(h, pkgs, a.body)
        OBVIOUS
      <3>1. g # NoGraph /\ a.body \in ComputeBlast(g, pkgs)
        BY <2>6
      <3>2. a.body \in ComputeBlast(h, pkgs)
        BY <2>7, <3>1
      <3>3. Scanned(h)
        BY <2>3, <3>1
      <3> HIDE DEF h, g, pkgs
      <3> QED
        BY <3>2, <3>3, BlastIs
    <2>9. q.mode = "package" => \A a \in reply.blast, b \in reply.simulate :
              a.status = 200 => b.status = 200 /\ IsBlast(h, pkgs, b.body)
      <3> SUFFICES ASSUME q.mode = "package", NEW a \in reply.blast, NEW b \in reply.simulate, a.status = 200
                   PROVE  b.status = 200 /\ IsBlast(h, pkgs, b.body)
        OBVIOUS
      <3>1. g # NoGraph /\ q.mode # Unparsed /\ ~Unknown(scan) /\ q.name # "" /\ q.range # <<>>
        BY <2>6
      <3>2. pkgs = one
        OBVIOUS
      <3>3. reply.simulate = {Answer(200, body) : body \in ComputeBlast(g, one)}
        <4>1. reply.simulate = IF q.mode = Unparsed \/ q.name = "" \/ q.range = <<>> THEN {Answer(400, {})}
                               ELSE IF Unknown(scan) THEN {Answer(404, {})}
                               ELSE IF g = NoGraph THEN {Answer(500, {})}
                               ELSE {Answer(200, body) : body \in ComputeBlast(g, one)}
          BY <2>2, Zenon DEF HandleSimulate, Loaded
        <4> QED
          BY <3>1, <4>1, Zenon
      <3>4. Scanned(h) /\ ComputeBlast(g, pkgs) = ComputeBlast(h, pkgs)
        BY <2>3, <2>7, <3>1
      <3> HIDE DEF h, g, pkgs, one
      <3>5. PICK body \in ComputeBlast(h, pkgs) : b = Answer(200, body)
        BY <3>2, <3>3, <3>4
      <3> QED
        BY <2>5, <3>4, <3>5, BlastIs
    <2>10. reply.gaps.status = 200 => reply.gaps.body.gaps = AnalyzeGaps(h)
      <3> SUFFICES ASSUME reply.gaps.status = 200
                   PROVE  reply.gaps.body.gaps = AnalyzeGaps(h)
        OBVIOUS
      <3> DEFINE body == [gaps |-> AnalyzeGaps(g), summary |-> [t \in GapTypes |-> Cardinality({p \in AnalyzeGaps(g) : p[1] = t})]]
      <3>1. reply.gaps = IF Unknown(scan) THEN Answer(404, {}) ELSE IF g = NoGraph THEN Answer(500, {}) ELSE Answer(200, body)
        BY <2>2, Zenon DEF HandleGaps, Loaded
      <3>2. body.gaps = AnalyzeGaps(g)
        OBVIOUS
      <3> HIDE DEF body, g, h
      <3>3. g # NoGraph /\ reply.gaps = Answer(200, body)
        BY <2>5, <3>1
      <3> QED
        BY <2>5, <2>7, <3>2, <3>3
    <2>11. reply.gaps.status = 404 <=> ~request.known \/ "scan" \in request.failing
      <3>1. \E body : reply.gaps = IF Unknown(scan) THEN Answer(404, {}) ELSE IF g = NoGraph THEN Answer(500, {}) ELSE Answer(200, body)
        BY <2>2, Zenon DEF HandleGaps, Loaded
      <3> HIDE DEF g
      <3> QED
        BY <2>4, <2>5, <3>1
    <2> HIDE DEF g, pkgs, one
    <2> DEFINE pairs == {<<e.from, e.to>> : e \in ToSet(h.edges)}
               hits  == UNION {FindAffectedNodes(h, pkgs[i].name, pkgs[i].range) : i \in DOMAIN pkgs}
               up    == Downstream({<<p[2], p[1]>> : p \in pairs}, hits)
               ids   == DOMAIN h.nodes \union UNION {{p[1], p[2]} : p \in pairs}
               paths == {s \in UNION {[1..k -> ids] : k \in 2..(PathDepth + 1)} :
                            /\ Follows(s, pairs) /\ IsInjective(s)
                            /\ s[1] \in FindRootNodes(h) /\ Last(s) \in up}
               exact(body) ==
                   /\ body.affected = up /\ body.total = Cardinality(up)
                   /\ ToSet(body.paths) \subseteq paths
                   /\ Len(body.paths) < MaxPaths => ToSet(body.paths) = paths
                   /\ body.depth = Max({0} \union {Len(s) : s \in ToSet(body.paths)})
    <2>13. pairs = Links(h)
      BY DEF Links
    <2>15. hits = Hits(h, pkgs) /\ up = Up(h, Hits(h, pkgs)) /\ ids = Among(h)
      BY <2>13 DEF Hits, Up, Among
    <2>16. paths = Exposed(h, Up(h, Hits(h, pkgs)), Among(h))
      <3> HIDE DEF pairs, up, ids
      <3> QED
        BY <2>13, <2>15 DEF Exposed
    <2> HIDE DEF pairs, hits, up, ids, paths
    <2>17. \A body : IsBlast(h, pkgs, body) => exact(body)
      BY <2>15, <2>16 DEF IsBlast
    <2> HIDE DEF h, exact
    <2>18. BlastIsExact <=>
              /\ \A a \in reply.blast : a.status = 200 => exact(a.body)
              /\ q.mode = "package" => \A a \in reply.blast, b \in reply.simulate :
                     a.status = 200 => b.status = 200 /\ exact(b.body)
              /\ reply.gaps.status = 200 => reply.gaps.body.gaps = AnalyzeGaps(h)
              /\ (reply.gaps.status = 404) <=> ~request.known \/ "scan" \in request.failing
      BY Zenon DEF BlastIsExact, exact, paths, ids, up, hits, pairs, pkgs, one, h, Held, Lost
    <2> QED
      BY <2>8, <2>9, <2>10, <2>11, <2>17, <2>18
  <1> QED
    BY <1>1, AnswersHold, PTL

-----------------------------------------------------------------------------
(* Risk *)

\* The dependencies among some names.
PairsAmong(deps, names) == {p \in PairsOf(deps) : p[1] \in names /\ p[2] \in names}

\* Each name's dependencies are a list of names.
IsTree(deps, names) == \A q \in DOMAIN deps : deps[q] \in Seq(names)

LEMMA FollowedIs ==
    ASSUME NEW of, IsFiniteSet(DOMAIN of), NEW deps, NEW names, IsTree(deps, names)
    PROVE  /\ IsKids(Followed(deps, of)) /\ DOMAIN Followed(deps, of) = DOMAIN of
           /\ Leads(Followed(deps, of)) = PairsAmong(deps, DOMAIN of)
  <1> DEFINE kids == Followed(deps, of)
             N == DOMAIN of
             places(n) == {i \in DOMAIN DepsOf(deps, n) : DepsOf(deps, n)[i] \in N}
  <1>1. DOMAIN kids = N /\ \A n \in N : kids[n] = Picked(DepsOf(deps, n), places(n))
    BY DEF Followed, Where
  <1>2. ASSUME NEW n \in N
        PROVE  /\ kids[n] \in Seq(names) /\ Range(kids[n]) = {DepsOf(deps, n)[i] : i \in places(n)}
               /\ DepsOf(deps, n) \in Seq(names)
    <2>1. DepsOf(deps, n) \in Seq(names)
      BY DEF DepsOf, IsTree
    <2>2. places(n) = (DOMAIN DepsOf(deps, n)) \intersect places(n)
      OBVIOUS
    <2> DEFINE s == DepsOf(deps, n)
               at == places(n)
    <2>3. kids[n] = Picked(s, at)
      BY <1>1
    <2> HIDE DEF s, at
    <2>4. Picked(s, at) \in Seq(names) /\ Range(Picked(s, at)) = {s[i] : i \in (DOMAIN s) \intersect at}
      BY <2>1, PickedIs DEF s
    <2> QED
      BY <2>1, <2>2, <2>3, <2>4 DEF s, at
  <1>3. \A n \in N : \A x : x \in Range(kids[n]) <=> x \in N /\ n \in DOMAIN deps /\ x \in ToSet(deps[n])
    <2> SUFFICES ASSUME NEW n \in N, NEW x
                 PROVE  x \in Range(kids[n]) <=> x \in N /\ n \in DOMAIN deps /\ x \in ToSet(deps[n])
      OBVIOUS
    <2>1. x \in Range(kids[n]) <=> \E i \in DOMAIN DepsOf(deps, n) : DepsOf(deps, n)[i] \in N /\ DepsOf(deps, n)[i] = x
      BY <1>2
    <2>2. CASE n \in DOMAIN deps
      <3>1. DepsOf(deps, n) = deps[n]
        BY <2>2 DEF DepsOf
      <3> QED
        BY <2>1, <2>2, <3>1 DEF ToSet
    <2>3. CASE n \notin DOMAIN deps
      <3>1. DepsOf(deps, n) = <<>>
        BY <2>3 DEF DepsOf
      <3> QED
        BY <2>1, <2>3, <3>1
    <2> QED
      BY <2>2, <2>3
  <1> HIDE DEF kids
  <1>4. \A n \in N : kids[n] \in Seq(N)
    <2> SUFFICES ASSUME NEW n \in N
                 PROVE  kids[n] \in Seq(N)
      OBVIOUS
    <2>1. kids[n] \in Seq(names) /\ Range(kids[n]) \subseteq N
      BY <1>2, <1>3
    <2> QED
      BY <2>1, ListOf
  <1>5. kids \in [N -> Seq(N)]
    <2>1. kids = [n \in N |-> kids[n]]
      BY <1>1 DEF kids, Followed
    <2> QED
      BY <1>4, <2>1
  <1>6. Leads(kids) \subseteq PairsAmong(deps, N)
    <2> SUFFICES ASSUME NEW p \in Leads(kids)
                 PROVE  p \in PairsAmong(deps, N)
      OBVIOUS
    <2>1. p = <<p[1], p[2]>> /\ p[1] \in N /\ p[2] \in N /\ p[2] \in Range(kids[p[1]])
      BY <1>1 DEF Leads
    <2>2. p[1] \in DOMAIN deps /\ p[2] \in ToSet(deps[p[1]])
      BY <1>3, <2>1
    <2> QED
      BY <2>1, <2>2 DEF PairsAmong, PairsOf
  <1>7. PairsAmong(deps, N) \subseteq Leads(kids)
    <2> SUFFICES ASSUME NEW p \in PairsAmong(deps, N)
                 PROVE  p \in Leads(kids)
      OBVIOUS
    <2>1. PICK q \in DOMAIN deps : \E n \in ToSet(deps[q]) : p = <<q, n>>
      BY DEF PairsAmong, PairsOf
    <2>2. p[1] \in N /\ p[2] \in N /\ p = <<p[1], p[2]>> /\ p[1] \in DOMAIN deps /\ p[2] \in ToSet(deps[p[1]])
      BY <2>1 DEF PairsAmong
    <2>3. p[2] \in Range(kids[p[1]])
      BY <1>3, <2>2
    <2> QED
      BY <1>1, <2>2, <2>3 DEF Leads
  <1> QED
    BY <1>1, <1>5, <1>6, <1>7 DEF IsKids, kids

\* walkDescendants meets what the name leads to.
LEMMA WalkIs ==
    ASSUME NEW kids, IsKids(kids), NEW name \in DOMAIN kids
    PROVE  WalkDescendants(name, kids) = Downstream(Leads(kids), From(Leads(kids), name))
  <1> DEFINE chains == Chains(kids, name)
             D == Downstream(Leads(kids), {name})
  <1>1. chains \in Seq(ChainsIn(kids)) /\ Ends(chains) = D
    BY ChainsAre
  <1>2. WalkDescendants(name, kids) = UNION {Range(kids[Last(c)]) : c \in Range(chains)}
    BY DEF WalkDescendants, ToSet, Range
  <1> HIDE DEF chains, D
  <1>3. \A c \in Range(chains) : Last(c) \in DOMAIN kids
    <2> SUFFICES ASSUME NEW c \in Range(chains)
                 PROVE  Last(c) \in DOMAIN kids
      OBVIOUS
    <2>1. c \in Seq(DOMAIN kids) /\ c # <<>>
      BY <1>1 DEF Range, ChainsIn
    <2> QED
      BY <2>1, LastIs
  <1>4. \A n \in DOMAIN kids : Range(kids[n]) \subseteq DOMAIN kids
    BY DEF IsKids, Range
  <1>5. \A n, x : <<n, x>> \in Leads(kids) <=> n \in DOMAIN kids /\ x \in DOMAIN kids /\ x \in Range(kids[n])
    BY DEF Leads
  <1>6. \A p \in Leads(kids) : p = <<p[1], p[2]>>
    BY DEF Leads
  <1>7. ASSUME NEW x \in WalkDescendants(name, kids)
        PROVE  x \in Ahead(Leads(kids), D)
    <2>1. PICK c \in Range(chains) : x \in Range(kids[Last(c)])
      BY <1>2
    <2>2. Last(c) \in D /\ <<Last(c), x>> \in Leads(kids)
      BY <1>1, <1>3, <1>4, <1>5, <2>1 DEF Ends
    <2> QED
      BY <2>2 DEF Ahead
  <1>8. ASSUME NEW x \in Ahead(Leads(kids), D)
        PROVE  x \in WalkDescendants(name, kids)
    <2>1. PICK p \in Leads(kids) : p[1] \in D /\ p[2] = x
      BY DEF Ahead
    <2>2. PICK c \in Range(chains) : Last(c) = p[1]
      BY <1>1, <2>1 DEF Ends
    <2>3. x \in Range(kids[Last(c)])
      BY <1>5, <1>6, <2>1, <2>2
    <2> QED
      BY <1>2, <2>3
  <1>9. Ahead(Leads(kids), D) = Downstream(Leads(kids), From(Leads(kids), name))
    BY BelowIs DEF D
  <1> QED
    BY <1>7, <1>8, <1>9

\* What a set leads to is what its members do.
LEMMA DownstreamOfEach ==
    ASSUME NEW pairs, NEW ids, NEW n \in Downstream(pairs, ids)
    PROVE  \E m \in ids : n \in Downstream(pairs, {m})
  <1> DEFINE all == UNION {Downstream(pairs, {m}) : m \in ids}
  <1>1. \A m : m \in Downstream(pairs, {m}) /\ IsClosed(pairs, Downstream(pairs, {m}))
    BY DownstreamIs
  <1>2. ids \subseteq all /\ IsClosed(pairs, all)
    BY <1>1 DEF IsClosed
  <1>3. Downstream(pairs, ids) \subseteq all
    <2> HIDE DEF all
    <2> QED
      BY <1>2, DownstreamIs
  <1> QED
    BY <1>3

NamesOf(results) == {results[i].name : i \in DOMAIN results}

\* The last of those with a name.
LastPlace(results, n) == Max({i \in 1..Len(results) : results[i].name = n})

LEMMA GreatestBelow ==
    ASSUME NEW n \in Nat, NEW S \in SUBSET (1..n), S # {}
    PROVE  Max(S) \in S
  <1> DEFINE T == {n - x : x \in S}
  <1>0. \A x \in 1..n : n - x \in Nat
    OBVIOUS
  <1>1. T \in SUBSET Nat /\ T # {}
    BY <1>0
  <1> HIDE DEF T
  <1>2. PICK t \in T : \A y \in T : t <= y
    BY <1>1, LeastNumber
  <1>3. PICK m \in S : t = n - m
    BY <1>2 DEF T
  <1>4. \A x \in S : n - x \in T
    BY DEF T
  <1>5. \A x \in S : m >= x
    BY <1>2, <1>3, <1>4
  <1> QED
    BY <1>5 DEF Max

LEMMA ByNameIs ==
    ASSUME NEW T, NEW results \in Seq(T)
    PROVE  /\ DOMAIN ByName(results) = NamesOf(results) /\ IsFiniteSet(NamesOf(results))
           /\ \A n \in NamesOf(results) :
                 /\ ByName(results)[n] = results[LastPlace(results, n)]
                 /\ LastPlace(results, n) \in DOMAIN results /\ results[LastPlace(results, n)].name = n
  <1>1. DOMAIN results = 1..Len(results) /\ Len(results) \in Nat
    OBVIOUS
  <1>2. IsFiniteSet(NamesOf(results))
    <2> DEFINE f == [i \in 1..Len(results) |-> results[i].name]
    <2>1. IsFiniteSet(1..Len(results))
      BY <1>1, FS_Interval
    <2>2. f \in Surjection(1..Len(results), NamesOf(results))
      BY <1>1 DEF Surjection, NamesOf
    <2> QED
      BY <2>1, <2>2, FS_Surjection
  <1>3. DOMAIN ByName(results) = NamesOf(results)
    BY DEF ByName, NamesOf
  <1>4. ASSUME NEW n \in NamesOf(results)
        PROVE  ByName(results)[n] = results[LastPlace(results, n)] /\ LastPlace(results, n) \in DOMAIN results /\ results[LastPlace(results, n)].name = n
    <2> DEFINE I == {i \in 1..Len(results) : results[i].name = n}
    <2>1. I \in SUBSET (1..Len(results)) /\ I # {}
      BY <1>1 DEF NamesOf
    <2>2. ByName(results)[n] = results[SelectLastInSeq(results, LAMBDA r : r.name = n)]
      BY DEF ByName, NamesOf
    <2>3. SelectLastInSeq(results, LAMBDA r : r.name = n) = IF I # {} THEN Max(I) ELSE 0
      BY DEF SelectLastInSeq
    <2>4. LastPlace(results, n) = Max(I)
      BY DEF LastPlace
    <2>5. Max(I) \in I
      <3> HIDE DEF I
      <3> QED
        BY <1>1, <2>1, GreatestBelow
    <2> QED
      BY <1>1, <2>1, <2>2, <2>3, <2>4, <2>5
  <1> QED
    BY <1>2, <1>3, <1>4

\* Results with the same names have the same last places.
LEMMA SameNames ==
    ASSUME NEW results, NEW others, Len(results) = Len(others), \A i \in 1..Len(results) : results[i].name = others[i].name
    PROVE  \A n : LastPlace(results, n) = LastPlace(others, n)
  <1>1. \A n : {i \in 1..Len(results) : results[i].name = n} = {i \in 1..Len(others) : others[i].name = n}
    OBVIOUS
  <1> QED
    BY <1>1 DEF LastPlace

-----------------------------------------------------------------------------
(* Depths *)

\* The names nothing depends on.
UsedIn(deps) == UNION {ToSet(deps[q]) : q \in DOMAIN deps}
Roots(results, deps) == NamesOf(results) \ UsedIn(deps)

\* What is so many steps from them.
WithinRule(roots, deps, f, k) ==
    IF k = 0 THEN roots ELSE f[k - 1] \union UNION {ToSet(DepsOf(deps, n)) : n \in f[k - 1]}
WithinFrom(roots, deps) == CHOOSE f : f = [k \in Nat |-> WithinRule(roots, deps, f, k)]

LEMMA WithinIsComputed ==
    ASSUME NEW names, NEW roots \in SUBSET names, NEW deps, IsTree(deps, names)
    PROVE  /\ WithinFrom(roots, deps) \in [Nat -> SUBSET names]
           /\ \A k \in Nat : WithinFrom(roots, deps)[k] = WithinRule(roots, deps, WithinFrom(roots, deps), k)
  <1> DEFINE V == SUBSET names
             F == [p \in Nat \X [Nat -> V] |-> WithinRule(roots, deps, p[2], p[1])]
             id == [k \in Nat |-> k]
             R == Smaller(Nat, id, id)
             within == CHOOSE f : f = [k \in Nat |-> WithinRule(roots, deps, f, k)]
  <1>1. WithinFrom(roots, deps) = within
    BY DEF WithinFrom
  <1>2. \A k \in Nat : id[k] \in Nat
    OBVIOUS
  <1>3. HasMinimal(R, Nat) /\ IsTransitivelyClosedOn(R, Nat)
    BY <1>2, SmallerIsOrder
  <1>4. \A n : ToSet(DepsOf(deps, n)) \subseteq names
    BY DEF DepsOf, IsTree, ToSet
  <1>5. ASSUME NEW k \in Nat, NEW f \in [Nat -> V]
        PROVE  WithinRule(roots, deps, f, k) \in V
    <2>1. k # 0 => k - 1 \in Nat
      OBVIOUS
    <2>2. k # 0 => f[k - 1] \in V
      BY <2>1
    <2> QED
      BY <1>4, <2>2 DEF WithinRule
  <1>6. F \in [Nat \X [Nat -> V] -> V]
    BY <1>5
  <1>7. IsLocal(F, Nat, V, R)
    <2> SUFFICES ASSUME NEW x \in Nat, NEW f \in [Nat -> V], NEW h \in [Nat -> V],
                        \A y \in Nat : <<y, x>> \in R => f[y] = h[y]
                 PROVE  WithinRule(roots, deps, f, x) = WithinRule(roots, deps, h, x)
      BY DEF IsLocal
    <2>1. x # 0 => x - 1 \in Nat /\ <<x - 1, x>> \in R
      BY DEF Smaller
    <2>2. x # 0 => f[x - 1] = h[x - 1]
      BY <2>1
    <2> QED
      BY <2>2 DEF WithinRule
  <1>8. V # {}
    OBVIOUS
  <1>9. \E f \in [Nat -> V] : \A k \in Nat : f[k] = F[<<k, f>>]
    <2> HIDE DEF F, V, R
    <2>1. IsRule(F, Nat, V, R)
      BY <1>3, <1>6, <1>7, <1>8 DEF IsRule
    <2>2. Solvable(F, Nat, V)
      BY <2>1, Recursion
    <2> QED
      BY <2>2 DEF Solvable
  <1>10. \A f \in [Nat -> V] : (\A k \in Nat : f[k] = F[<<k, f>>]) => f = [k \in Nat |-> WithinRule(roots, deps, f, k)]
    <2> SUFFICES ASSUME NEW f \in [Nat -> V], \A k \in Nat : f[k] = F[<<k, f>>]
                 PROVE  f = [k \in Nat |-> WithinRule(roots, deps, f, k)]
      OBVIOUS
    <2>1. \A k \in Nat : F[<<k, f>>] = WithinRule(roots, deps, f, k)
      OBVIOUS
    <2> HIDE DEF F, V
    <2> QED
      BY <2>1
  <1>11. \E f : f = [k \in Nat |-> WithinRule(roots, deps, f, k)]
    BY <1>9, <1>10
  <1>12. within = [k \in Nat |-> WithinRule(roots, deps, within, k)]
    BY <1>11, Zenon
  <1> HIDE DEF within
  <1>13. \A k \in Nat : within[k] = WithinRule(roots, deps, within, k)
    BY <1>12
  <1> DEFINE Bad == {k \in Nat : within[k] \notin V}
  <1>14. ASSUME Bad # {}
         PROVE  FALSE
    <2>1. \A k \in Bad : id[k] \in Nat
      OBVIOUS
    <2>2. \A k \in Nat : id[k] = k /\ (k \notin Bad => within[k] \in V)
      OBVIOUS
    <2>3. \A k \in Bad : k \in Nat /\ within[k] \notin V
      OBVIOUS
    <2> HIDE DEF Bad, id
    <2>4. PICK k \in Bad : \A j \in Bad : id[k] <= id[j]
      BY <1>14, <2>1, LeastOf
    <2>5. CASE k = 0
      BY <1>13, <2>3, <2>4, <2>5 DEF WithinRule
    <2>6. CASE k # 0
      <3>1. k - 1 \in Nat /\ k - 1 < k
        BY <2>3, <2>4, <2>6
      <3>2. k - 1 \notin Bad
        BY <2>2, <2>3, <2>4, <3>1
      <3>3. within[k - 1] \in V
        BY <2>2, <3>1, <3>2
      <3>4. within[k] \in V
        <4>1. within[k] = within[k - 1] \union UNION {ToSet(DepsOf(deps, n)) : n \in within[k - 1]}
          BY <1>13, <2>3, <2>4, <2>6, Zenon DEF WithinRule
        <4> HIDE DEF V
        <4>2. UNION {ToSet(DepsOf(deps, n)) : n \in within[k - 1]} \subseteq names
          BY <1>4
        <4> QED
          BY <3>3, <4>1, <4>2 DEF V
      <3> QED
        BY <2>3, <2>4, <3>4
    <2> QED
      BY <2>5, <2>6
  <1>15. \A k \in Nat : within[k] \in V
    BY <1>14
  <1>16. within \in [Nat -> V]
    BY <1>12, <1>15
  <1> QED
    BY <1>1, <1>13, <1>16

\* What is within some steps of the roots lies below one of them.
LEMMA WithinIsBelow ==
    ASSUME NEW names, NEW roots \in SUBSET names, NEW deps, IsTree(deps, names)
    PROVE  \A k \in Nat : WithinFrom(roots, deps)[k] \subseteq Downstream(PairsAmong(deps, names), roots)
  <1> DEFINE within == WithinFrom(roots, deps)
             pairs == PairsAmong(deps, names)
             D == Downstream(pairs, roots)
             id == [k \in Nat |-> k]
             Bad == {k \in Nat : ~(within[k] \subseteq D)}
  <1>1. SUFFICES ASSUME Bad # {}
                 PROVE  FALSE
    OBVIOUS
  <1>2. roots \subseteq D /\ IsClosed(pairs, D)
    BY DownstreamIs
  <1>3. within \in [Nat -> SUBSET names] /\ \A k \in Nat : within[k] = WithinRule(roots, deps, within, k)
    BY WithinIsComputed
  <1>4. \A n \in names : \A x \in ToSet(DepsOf(deps, n)) : <<n, x>> \in pairs
    <2> SUFFICES ASSUME NEW n \in names, NEW x \in ToSet(DepsOf(deps, n))
                 PROVE  <<n, x>> \in pairs
      OBVIOUS
    <2>1. n \in DOMAIN deps /\ x \in ToSet(deps[n])
      BY DEF DepsOf, ToSet
    <2>2. x \in names
      BY <2>1 DEF IsTree, ToSet
    <2> QED
      BY <2>1, <2>2 DEF PairsAmong, PairsOf
  <1>5. \A k \in Bad : id[k] \in Nat /\ k \in Nat /\ ~(within[k] \subseteq D) /\ id[k] = k
    OBVIOUS
  <1>6. \A k \in Nat : id[k] = k /\ (k \notin Bad => within[k] \subseteq D)
    OBVIOUS
  <1> HIDE DEF Bad, id, within, D, pairs
  <1>7. PICK k \in Bad : \A j \in Bad : id[k] <= id[j]
    BY <1>1, <1>5, LeastOf
  <1>8. CASE k = 0
    BY <1>2, <1>3, <1>5, <1>7, <1>8 DEF WithinRule
  <1>9. CASE k # 0
    <2>1. k \in Nat /\ k - 1 \in Nat /\ k - 1 < k
      BY <1>5, <1>7, <1>9
    <2>2. k - 1 \notin Bad
      BY <1>6, <1>7, <2>1
    <2>3. within[k - 1] \subseteq D /\ within[k - 1] \subseteq names
      BY <1>3, <1>6, <2>1, <2>2
    <2>4. within[k] = within[k - 1] \union UNION {ToSet(DepsOf(deps, n)) : n \in within[k - 1]}
      BY <1>3, <1>9, <2>1, Zenon DEF WithinRule
    <2>5. \A n \in within[k - 1] : ToSet(DepsOf(deps, n)) \subseteq D
      BY <1>2, <1>4, <2>3 DEF IsClosed
    <2>6. UNION {ToSet(DepsOf(deps, n)) : n \in within[k - 1]} \subseteq D
      BY <2>5
    <2>7. within[k] \subseteq D
      BY <2>3, <2>4, <2>6
    <2> QED
      BY <1>5, <1>7, <2>7
  <1> QED
    BY <1>8, <1>9

\* What a name leads to, through other names.
Under(deps, names, name) == Downstream(PairsAmong(deps, names), {name})

\* Every package is below one that is given depth 1.
LEMMA DepthsAre ==
    ASSUME NEW T, NEW results \in Seq(T), NEW deps, IsTree(deps, NamesOf(results)), NEW n \in NamesOf(results)
    PROVE  \E m \in NamesOf(results) :
              /\ ComputeGraphDepths(results, deps)[m] = 1
              /\ n \in Under(deps, NamesOf(results), m)
  <1> DEFINE names == NamesOf(results)
             roots == Roots(results, deps)
             within == WithinFrom(roots, deps)
             all == within[Cardinality(names \union UsedIn(deps))]
             depths == ComputeGraphDepths(results, deps)
             pairs == PairsAmong(deps, names)
             steps(m) == {k \in 0..Cardinality(all) : m \in within[k]}
  <1>1. depths = [m \in names \union all |-> IF m \in all THEN 1 + Min(steps(m)) ELSE 1]
    BY Zenon DEF ComputeGraphDepths, NamesOf, Roots, UsedIn, WithinFrom, WithinRule
  <1>2. IsFiniteSet(names)
    BY ByNameIs
  <1>3. UsedIn(deps) \subseteq names
    BY DEF IsTree, UsedIn, ToSet
  <1>4. Cardinality(names \union UsedIn(deps)) \in Nat
    <2>1. names \union UsedIn(deps) = names
      BY <1>3
    <2> QED
      BY <1>2, <2>1, FS_CardinalityType
  <1>5. roots \in SUBSET names
    BY DEF Roots
  <1>6. within \in [Nat -> SUBSET names] /\ within[0] = roots
    <2>1. within \in [Nat -> SUBSET names] /\ within[0] = WithinRule(roots, deps, within, 0)
      <3>1. IsTree(deps, names)
        OBVIOUS
      <3> HIDE DEF names, roots
      <3>2. 0 \in Nat
        OBVIOUS
      <3> QED
        BY <1>5, <3>1, <3>2, WithinIsComputed
    <2> QED
      BY <2>1 DEF WithinRule
  <1>7. \A k \in Nat : within[k] \subseteq Downstream(pairs, roots)
    BY <1>5, WithinIsBelow
  <1> HIDE DEF within, depths, pairs, names, roots
  <1>8. all \subseteq names /\ all \subseteq Downstream(pairs, roots)
    BY <1>4, <1>6, <1>7
  <1>9. Cardinality(all) \in Nat
    BY <1>2, <1>8, FS_Subset, FS_CardinalityType
  <1> HIDE DEF all
  <1>10. \A m \in roots : depths[m] = 1
    <2> SUFFICES ASSUME NEW m \in roots
                 PROVE  depths[m] = 1
      OBVIOUS
    <2>1. m \in names
      BY <1>5
    <2>2. steps(m) \in SUBSET Nat /\ 0 \in steps(m)
      BY <1>6, <1>9
    <2>3. Min(steps(m)) \in Nat /\ Min(steps(m)) <= 0
      <3> HIDE DEF steps
      <3> QED
        BY <2>2, LeastNumber
    <2>4. 1 + Min(steps(m)) = 1
      BY <2>3
    <2> HIDE DEF steps
    <2> QED
      BY <1>1, <2>1, <2>4
  <1>11. CASE n \in all
    <2>1. PICK m \in roots : n \in Downstream(pairs, {m})
      BY <1>8, <1>11, DownstreamOfEach
    <2> QED
      BY <1>5, <1>10, <2>1 DEF names, depths, pairs, Under
  <1>12. CASE n \notin all
    <2>1. n \in names
      BY DEF names
    <2>2. depths[n] = 1
      BY <1>1, <1>12, <2>1
    <2>3. n \in Downstream(pairs, {n})
      BY DownstreamIs
    <2> QED
      BY <2>1, <2>2, <2>3 DEF names, depths, pairs, Under
  <1> QED
    BY <1>11, <1>12

-----------------------------------------------------------------------------
(* Risk paths *)

\* Paths along the pairs to packages that score below the threshold.
RiskPathsTo(pairs, of, threshold) ==
    {p \in [chain : Seq(DOMAIN of) \ {<<>>}, score : Int] :
        Linked(pairs, p.chain) /\ p.score = of[Last(p.chain)].own /\ p.score < threshold}

IsScored(of) == IsFiniteSet(DOMAIN of) /\ \A n \in DOMAIN of : of[n].own \in Int

\* Paths are risks, and reach all that is weak of some names.
ReachWeak(paths, deps, of, threshold, ids) ==
    /\ paths \in Seq(RiskPathsTo(PairsAmong(deps, DOMAIN of), of, threshold))
    /\ \A n \in ids : of[n].own < threshold => \E p \in Range(paths) : Last(p.chain) = n

LEMMA PathsFromAre ==
    ASSUME NEW of, IsScored(of), NEW deps, NEW names, IsTree(deps, names), NEW threshold, NEW name \in DOMAIN of
    PROVE  ReachWeak(FindPathsFrom(name, deps, of, threshold), deps, of, threshold, Under(deps, DOMAIN of, name))
  <1> DEFINE kids == Followed(deps, of)
             pairs == PairsAmong(deps, DOMAIN of)
             chains == Chains(kids, name)
             low(c) == of[Last(c)].own < threshold
             places == {i \in DOMAIN chains : low(chains[i])}
             weak == Picked(chains, places)
             paths == [i \in DOMAIN weak |-> [chain |-> weak[i], score |-> of[Last(weak[i])].own]]
             Good == RiskPathsTo(pairs, of, threshold)
             C == Seq(DOMAIN of) \ {<<>>}
  <1>1. FindPathsFrom(name, deps, of, threshold) = paths
    BY DEF FindPathsFrom, Where
  <1>2. IsKids(kids) /\ DOMAIN kids = DOMAIN of /\ Leads(kids) = pairs
    BY FollowedIs DEF IsScored
  <1>3. /\ chains \in Seq(C) /\ Ends(chains) = Downstream(pairs, {name})
        /\ \A c \in Range(chains) : Linked(pairs, c)
    BY <1>2, ChainsAre DEF ChainsIn
  <1> HIDE DEF C, pairs, kids, chains, low
  <1>4. weak \in Seq(C) /\ Range(weak) = {chains[i] : i \in (DOMAIN chains) \intersect places}
    <2> HIDE DEF places
    <2> QED
      BY <1>3, PickedIs
  <1>5. \A c : c \in Range(weak) <=> c \in Range(chains) /\ low(c)
    BY <1>4 DEF Range
  <1> HIDE DEF places, weak
  <1>6. \A c \in Range(weak) : /\ c \in C /\ Linked(pairs, c) /\ of[Last(c)].own < threshold /\ of[Last(c)].own \in Int
    <2> SUFFICES ASSUME NEW c \in Range(weak)
                 PROVE  c \in C /\ Linked(pairs, c) /\ of[Last(c)].own < threshold /\ of[Last(c)].own \in Int
      OBVIOUS
    <2>1. c \in C
      BY <1>4 DEF Range
    <2>2. Last(c) \in DOMAIN of
      BY <2>1, LastIs DEF C
    <2> QED
      BY <1>3, <1>5, <2>1, <2>2 DEF IsScored, low
  <1>7. \A i \in DOMAIN weak : weak[i] \in Range(weak)
    BY DEF Range
  <1>8. DOMAIN weak = 1..Len(weak) /\ Len(weak) \in Nat
    BY <1>4
  <1>9. \A i \in DOMAIN weak : [chain |-> weak[i], score |-> of[Last(weak[i])].own] \in Good
    BY <1>6, <1>7 DEF RiskPathsTo, C
  <1>10. paths \in Seq(Good)
    <2> HIDE DEF Good
    <2>1. paths \in [1..Len(weak) -> Good]
      BY <1>8, <1>9
    <2> QED
      BY <1>8, <2>1
  <1>11. ASSUME NEW n \in Downstream(pairs, {name}), of[n].own < threshold
         PROVE  \E p \in Range(paths) : Last(p.chain) = n
    <2>1. PICK c \in Range(chains) : Last(c) = n
      BY <1>3 DEF Ends
    <2>2. PICK i \in DOMAIN weak : weak[i] = c
      BY <1>5, <1>11, <2>1 DEF Range, low
    <2>3. paths[i] \in Range(paths) /\ paths[i].chain = c
      BY <2>2 DEF Range
    <2> QED
      BY <2>1, <2>3
  <1> QED
    BY <1>1, <1>10, <1>11 DEF pairs, ReachWeak, Under

\* The insertion sort keeps all there is, in the order of the scores.
LEMMA SortedIs ==
    ASSUME NEW T, NEW paths \in Seq(T), \A p \in T : p.score \in Int
    PROVE  /\ SortRiskPaths(paths) \in Seq(T) /\ Range(SortRiskPaths(paths)) = Range(paths)
           /\ Len(SortRiskPaths(paths)) = Len(paths)
           /\ \A i, k \in 1..Len(paths) : i < k => SortRiskPaths(paths)[i].score <= SortRiskPaths(paths)[k].score
  <1> DEFINE ids == DOMAIN paths
             before == {p \in ids \X ids : \/ paths[p[1]].score < paths[p[2]].score
                                           \/ paths[p[1]].score = paths[p[2]].score /\ p[1] < p[2]}
             order == Ranked(ids, before)
             sorted == [k \in DOMAIN order |-> paths[order[k]]]
  <1>1. SortRiskPaths(paths) = sorted
    BY DEF SortRiskPaths
  <1>2. ids = 1..Len(paths) /\ Len(paths) \in Nat /\ \A i \in ids : paths[i] \in T /\ paths[i].score \in Int /\ i \in Int
    OBVIOUS
  <1>3. \A i, k \in ids : <<i, k>> \in before <=>
           \/ paths[i].score < paths[k].score
           \/ paths[i].score = paths[k].score /\ i < k
    OBVIOUS
  <1> DEFINE sc == [i \in ids |-> paths[i].score]
  <1>13. /\ ids \subseteq Int /\ \A i \in ids : sc[i] \in Int /\ sc[i] = paths[i].score
         /\ \A i, k \in ids : <<i, k>> \in before <=> (sc[i] < sc[k] \/ (sc[i] = sc[k] /\ i < k))
    <2>1. \A i \in ids : sc[i] = paths[i].score
      OBVIOUS
    <2> HIDE DEF sc, ids, before
    <2>2. \A i, k \in ids : <<i, k>> \in before <=> (sc[i] < sc[k] \/ (sc[i] = sc[k] /\ i < k))
      <3> SUFFICES ASSUME NEW i \in ids, NEW k \in ids
                   PROVE  <<i, k>> \in before <=> (sc[i] < sc[k] \/ (sc[i] = sc[k] /\ i < k))
        OBVIOUS
      <3>1. sc[i] = paths[i].score /\ sc[k] = paths[k].score
        BY <2>1
      <3> QED
        BY <1>3, <3>1
    <2>3. ids \subseteq Int /\ \A i \in ids : paths[i].score \in Int
      BY <1>2
    <2> QED
      BY <2>1, <2>2, <2>3
  <1> HIDE DEF ids, before, sc
  <1>4. IsTotal(before, ids)
    <2>1. \A i \in ids : <<i, i>> \notin before
      BY <1>13
    <2>2. \A i, j \in ids : i = j \/ <<i, j>> \in before \/ <<j, i>> \in before
      <3> SUFFICES ASSUME NEW i \in ids, NEW j \in ids, i # j
                   PROVE  <<i, j>> \in before \/ <<j, i>> \in before
        OBVIOUS
      <3> DEFINE a == sc[i]
                 b == sc[j]
      <3>1. a \in Int /\ b \in Int /\ i \in Int /\ j \in Int
        BY <1>13
      <3>2. /\ <<i, j>> \in before <=> (a < b \/ (a = b /\ i < j))
            /\ <<j, i>> \in before <=> (b < a \/ (b = a /\ j < i))
        BY <1>13
      <3> HIDE DEF a, b
      <3> QED
        BY <3>1, <3>2
    <2>3. \A i, j, k \in ids : <<i, j>> \in before /\ <<j, k>> \in before => <<i, k>> \in before
      <3> SUFFICES ASSUME NEW i \in ids, NEW j \in ids, NEW k \in ids, <<i, j>> \in before, <<j, k>> \in before
                   PROVE  <<i, k>> \in before
        OBVIOUS
      <3>1. sc[i] \in Int /\ sc[j] \in Int /\ sc[k] \in Int /\ i \in Int /\ j \in Int /\ k \in Int
        BY <1>13
      <3>2. (sc[i] < sc[j] \/ (sc[i] = sc[j] /\ i < j)) /\ (sc[j] < sc[k] \/ (sc[j] = sc[k] /\ j < k))
        BY <1>13
      <3>3. sc[i] < sc[k] \/ (sc[i] = sc[k] /\ i < k)
        BY <3>1, <3>2
      <3> QED
        BY <1>13, <3>3
    <2> QED
      BY <2>1, <2>2, <2>3 DEF IsTotal
  <1>5. IsFiniteSet(ids) /\ Cardinality(ids) = Len(paths)
    <2> DEFINE n == Len(paths)
    <2>1. n \in Nat /\ ids = 1..n
      BY <1>2
    <2> HIDE DEF n
    <2>2. IsFiniteSet(1..n) /\ Cardinality(1..n) = n
      BY <2>1, FS_Interval
    <2> QED
      BY <2>1, <2>2 DEF n
  <1>6. /\ order \in Seq(ids) /\ Range(order) = ids
        /\ \A i, k \in DOMAIN order : i < k => <<order[i], order[k]>> \in before
    BY <1>4, <1>5, RankedIs
  <1>7. DOMAIN order = 1..Len(paths)
    BY <1>5 DEF Ranked
  <1> HIDE DEF order
  <1>8. \A k \in 1..Len(paths) : order[k] \in ids
    BY <1>6, <1>7
  <1>9. sorted \in [1..Len(paths) -> T] /\ Len(sorted) = Len(paths) /\ sorted \in Seq(T)
    <2>1. sorted \in [1..Len(paths) -> T]
      BY <1>2, <1>7, <1>8
    <2> HIDE DEF sorted
    <2> QED
      BY <1>2, <2>1
  <1>10. \A k \in 1..Len(paths) : sorted[k] = paths[order[k]]
    BY <1>7
  <1>11. Range(sorted) = Range(paths)
    <2>1. DOMAIN sorted = 1..Len(paths) /\ DOMAIN paths = ids
      BY <1>7 DEF ids
    <2> HIDE DEF sorted
    <2>2. Range(sorted) \subseteq Range(paths)
      BY <1>8, <1>10, <2>1 DEF Range
    <2>3. \A i \in ids : \E k \in 1..Len(paths) : order[k] = i
      BY <1>6, <1>7 DEF Range
    <2>4. Range(paths) \subseteq Range(sorted)
      BY <1>10, <2>1, <2>3 DEF Range
    <2> QED
      BY <2>2, <2>4
  <1>12. \A i, k \in 1..Len(paths) : i < k => sorted[i].score <= sorted[k].score
    <2> HIDE DEF sorted
    <2> SUFFICES ASSUME NEW i \in 1..Len(paths), NEW k \in 1..Len(paths), i < k
                 PROVE  sorted[i].score <= sorted[k].score
      OBVIOUS
    <2>1. <<order[i], order[k]>> \in before
      BY <1>6, <1>7
    <2>2. paths[order[i]].score <= paths[order[k]].score
      <3>1. order[i] \in ids /\ order[k] \in ids
        BY <1>8
      <3>2. sc[order[i]] \in Int /\ sc[order[k]] \in Int /\ sc[order[i]] <= sc[order[k]]
        <4> DEFINE x == order[i]
                   y == order[k]
        <4>1. x \in ids /\ y \in ids /\ <<x, y>> \in before
          BY <2>1, <3>1
        <4> HIDE DEF x, y
        <4>2. sc[x] \in Int /\ sc[y] \in Int /\ (sc[x] < sc[y] \/ (sc[x] = sc[y] /\ x < y))
          BY <1>13, <4>1
        <4>3. sc[x] <= sc[y]
          BY <4>2
        <4> QED
          BY <4>2, <4>3 DEF x, y
      <3> QED
        BY <1>13, <3>1, <3>2
    <2> QED
      BY <1>10, <2>2
  <1> QED
    BY <1>1, <1>9, <1>11, <1>12

\* What FindRiskPaths goes through from one result.
PathsOf(results, deps, threshold, i) ==
    IF results[i].depth = 1 THEN FindPathsFrom(results[i].name, deps, ByName(results), threshold) ELSE <<>>

\* Every package is below one of depth 1.
IsCovered(results, deps) ==
    \A n \in NamesOf(results) : \E i \in DOMAIN results :
        results[i].depth = 1 /\ n \in Under(deps, NamesOf(results), results[i].name)

FoundPaths(results, deps, threshold) == FlattenSeq([i \in DOMAIN results |-> PathsOf(results, deps, threshold, i)])

LEMMA FoundAreRisks ==
    ASSUME NEW T, NEW results \in Seq(T), IsScored(ByName(results)), NEW deps, IsTree(deps, NamesOf(results)),
           IsCovered(results, deps), NEW threshold
    PROVE  ReachWeak(FoundPaths(results, deps, threshold), deps, ByName(results), threshold, NamesOf(results))
  <1> DEFINE of == ByName(results)
             names == NamesOf(results)
             Good == RiskPathsTo(PairsAmong(deps, DOMAIN of), of, threshold)
             each == [i \in DOMAIN results |-> PathsOf(results, deps, threshold, i)]
             found == FlattenSeq(each)
  <1>1. DOMAIN of = names
    BY ByNameIs
  <1>2. DOMAIN results = 1..Len(results) /\ Len(results) \in Nat /\ \A i \in DOMAIN results : results[i].name \in names
    BY DEF NamesOf
  <1>3. ASSUME NEW i \in DOMAIN results
        PROVE  /\ PathsOf(results, deps, threshold, i) \in Seq(Good)
               /\ results[i].depth = 1 =>
                     \A n \in Under(deps, names, results[i].name) :
                        of[n].own < threshold => \E p \in Range(PathsOf(results, deps, threshold, i)) : Last(p.chain) = n
    <2>1. CASE results[i].depth = 1
      <3> DEFINE name == results[i].name
      <3>1. PathsOf(results, deps, threshold, i) = FindPathsFrom(name, deps, of, threshold)
        BY <2>1 DEF PathsOf
      <3>2. name \in DOMAIN of /\ IsScored(of) /\ IsTree(deps, names)
        BY <1>1, <1>2
      <3> HIDE DEF name, of, names
      <3>3. ReachWeak(FindPathsFrom(name, deps, of, threshold), deps, of, threshold, Under(deps, DOMAIN of, name))
        BY <3>2, PathsFromAre
      <3> QED
        BY <1>1, <3>1, <3>3 DEF name, ReachWeak
    <2>2. CASE results[i].depth # 1
      <3>1. PathsOf(results, deps, threshold, i) = <<>>
        BY <2>2 DEF PathsOf
      <3>2. <<>> \in Seq(Good)
        OBVIOUS
      <3> QED
        BY <2>2, <3>1, <3>2
    <2> QED
      BY <2>1, <2>2
  <1> HIDE DEF of, names, Good
  <1>4. each \in Seq(Seq(Good)) /\ DOMAIN each = DOMAIN results
    <2>1. each \in [1..Len(results) -> Seq(Good)] /\ DOMAIN each = DOMAIN results
      BY <1>2, <1>3
    <2> HIDE DEF each
    <2> QED
      BY <1>2, <2>1
  <1>5. found \in Seq(Good) /\ Range(found) = UNION {Range(each[i]) : i \in DOMAIN each}
    <2> HIDE DEF each
    <2> QED
      BY <1>4, FlattenedIs
  <1>6. \A i \in DOMAIN results : each[i] = PathsOf(results, deps, threshold, i)
    OBVIOUS
  <1>7. ASSUME NEW n \in names, of[n].own < threshold
        PROVE  \E p \in Range(found) : Last(p.chain) = n
    <2>1. PICK i \in DOMAIN results : results[i].depth = 1 /\ n \in Under(deps, names, results[i].name)
      BY <1>7 DEF IsCovered, names
    <2>2. PICK p \in Range(each[i]) : Last(p.chain) = n
      BY <1>3, <1>6, <1>7, <2>1
    <2>3. p \in Range(found)
      <3> HIDE DEF each, found
      <3> QED
        BY <1>4, <1>5, <2>2
    <2> QED
      BY <2>2, <2>3
  <1>8. FoundPaths(results, deps, threshold) = found
    BY DEF FoundPaths
  <1> HIDE DEF found
  <1>9. ReachWeak(found, deps, of, threshold, names)
    BY <1>5, <1>7 DEF ReachWeak, Good
  <1> QED
    BY <1>8, <1>9 DEF of, names

\* The paths reported are risks, in the order of their scores, and all of them
\* where there are fewer than the most that is reported.
LEMMA RiskPathsAre ==
    ASSUME NEW T, NEW results \in Seq(T), IsScored(ByName(results)), NEW deps, IsTree(deps, NamesOf(results)),
           IsCovered(results, deps), NEW threshold, NEW most \in Nat
    PROVE  /\ ReachWeak(FindRiskPaths(results, deps, threshold, most), deps, ByName(results), threshold,
                        IF Len(FindRiskPaths(results, deps, threshold, most)) < most THEN NamesOf(results) ELSE {})
           /\ \A i, k \in DOMAIN FindRiskPaths(results, deps, threshold, most) :
                 i < k => FindRiskPaths(results, deps, threshold, most)[i].score <= FindRiskPaths(results, deps, threshold, most)[k].score
  <1> DEFINE of == ByName(results)
             names == NamesOf(results)
             Good == RiskPathsTo(PairsAmong(deps, DOMAIN of), of, threshold)
             found == FoundPaths(results, deps, threshold)
             sorted == SortRiskPaths(found)
             paths == FindRiskPaths(results, deps, threshold, most)
  <1>1. paths = SubSeq(sorted, 1, Min({Len(found), most}))
    BY DEF FindRiskPaths, FoundPaths, PathsOf
  <1>2. /\ found \in Seq(Good)
        /\ \A n \in names : of[n].own < threshold => \E p \in Range(found) : Last(p.chain) = n
    BY FoundAreRisks DEF ReachWeak
  <1>3. \A p \in Good : p.score \in Int
    BY DEF RiskPathsTo
  <1> HIDE DEF of, names, Good, found, paths
  <1>4. /\ sorted \in Seq(Good) /\ Range(sorted) = Range(found) /\ Len(sorted) = Len(found)
        /\ \A i, k \in 1..Len(found) : i < k => sorted[i].score <= sorted[k].score
    BY <1>2, <1>3, SortedIs
  <1> HIDE DEF sorted
  <1>5. paths = SubSeq(sorted, 1, Min({Len(sorted), most}))
    BY <1>1, <1>4
  <1>6. /\ Len(paths) < most => paths = sorted
        /\ paths \in Seq(Good) /\ \A i \in DOMAIN paths : i \in DOMAIN sorted /\ paths[i] = sorted[i]
    BY <1>4, <1>5, CutIs
  <1>7. DOMAIN sorted = 1..Len(found)
    BY <1>4
  <1>8. \A i, k \in DOMAIN paths : i < k => paths[i].score <= paths[k].score
    BY <1>4, <1>6, <1>7
  <1>9. Len(paths) < most => \A n \in names : of[n].own < threshold => \E p \in Range(paths) : Last(p.chain) = n
    BY <1>2, <1>4, <1>6
  <1>10. ReachWeak(paths, deps, of, threshold, IF Len(paths) < most THEN names ELSE {})
    BY <1>6, <1>9 DEF ReachWeak, Good
  <1> QED
    BY <1>8, <1>10 DEF of, names, paths

-----------------------------------------------------------------------------
(* Trees *)

NameList(s) == [i \in DOMAIN s |-> s[i].name]

LEMMA NameListIs ==
    ASSUME NEW T, NEW s \in Seq(T), NEW names, NamesOf(s) \subseteq names
    PROVE  NameList(s) \in Seq(names) /\ Range(NameList(s)) = NamesOf(s)
  <1>1. DOMAIN s = 1..Len(s) /\ Len(s) \in Nat /\ \A i \in DOMAIN s : s[i].name \in names
    BY DEF NamesOf
  <1>2. NameList(s) \in [1..Len(s) -> names]
    BY <1>1 DEF NameList
  <1>3. Range(NameList(s)) = NamesOf(s)
    BY DEF Range, NameList, NamesOf
  <1> QED
    BY <1>1, <1>2, <1>3

LEMMA PickedNames ==
    ASSUME NEW T, NEW s \in Seq(T), NEW places
    PROVE  Picked(s, places) \in Seq(T) /\ NamesOf(Picked(s, places)) \subseteq NamesOf(s)
  <1> DEFINE p == Picked(s, places)
  <1>1. p \in Seq(T) /\ Range(p) = {s[i] : i \in (DOMAIN s) \intersect places}
    BY PickedIs
  <1> HIDE DEF p
  <1>2. \A i \in DOMAIN p : p[i] \in Range(p)
    BY DEF Range
  <1> QED
    BY <1>1, <1>2 DEF NamesOf, p

LEMMA TreeIs ==
    ASSUME NEW T, NEW pkgs \in Seq(T)
    PROVE  IsTree(BuildDepsMap(pkgs), NamesOf(pkgs))
  <1> DEFINE names == NamesOf(pkgs)
             parents == UNION {pkgs[i].parents : i \in DOMAIN pkgs}
             below(q) == NameList(Picked(pkgs, {i \in DOMAIN pkgs : q \in pkgs[i].parents}))
             indirect == NameList(Picked(pkgs, {i \in DOMAIN pkgs : pkgs[i].depth > 1}))
             direct == ToSet(NameList(Picked(pkgs, {i \in DOMAIN pkgs : pkgs[i].depth <= 1})))
             copies(d) == Cardinality({i \in DOMAIN pkgs : pkgs[i].name = d /\ pkgs[i].depth <= 1})
             all(d) == [k \in 1..copies(d) |-> indirect]
             deps == BuildDepsMap(pkgs)
  <1>1. ASSUME NEW places
        PROVE  NameList(Picked(pkgs, places)) \in Seq(names)
    BY PickedNames, NameListIs
  <1>2. CASE \E i \in DOMAIN pkgs : pkgs[i].parents # {}
    <2>1. deps = [q \in parents |-> Once(below(q))]
      BY <1>2 DEF BuildDepsMap, Where, NameList
    <2>2. \A q : below(q) \in Seq(names)
      BY <1>1
    <2> HIDE DEF below, deps, parents, names
    <2>3. \A q : Once(below(q)) \in Seq(names)
      BY <2>2, OnceIs
    <2> QED
      BY <2>1, <2>3 DEF IsTree, deps, names
  <1>3. CASE ~(\E i \in DOMAIN pkgs : pkgs[i].parents # {})
    <2>1. deps = [d \in direct |-> FlattenSeq(all(d))]
      BY <1>3 DEF BuildDepsMap, Where, NameList
    <2>2. indirect \in Seq(names)
      BY <1>1
    <2>3. ASSUME NEW d
          PROVE  FlattenSeq(all(d)) \in Seq(names)
      <3>1. IsFiniteSet(DOMAIN pkgs)
        BY FS_Interval
      <3>2. copies(d) \in Nat
        BY <3>1, FS_Subset, FS_CardinalityType
      <3> HIDE DEF copies, indirect, names
      <3>3. all(d) \in Seq(Seq(names))
        BY <2>2, <3>2
      <3> HIDE DEF all
      <3> QED
        BY <3>3, FlattenedIs
    <2> HIDE DEF direct, all, deps, names
    <2> QED
      BY <2>1, <2>3 DEF IsTree, deps, names
  <1> QED
    BY <1>2, <1>3

-----------------------------------------------------------------------------
(* What parsers give is a list *)

IsList(s) == s \in Seq(Range(s))

LEMMA ListIs ==
    ASSUME NEW T, NEW s \in Seq(T)
    PROVE  IsList(s)
  <1>1. Range(s) \subseteq Range(s)
    OBVIOUS
  <1> QED
    BY <1>1, ListOf DEF IsList

\* Where each of a list is made something else.
LEMMA LikeList ==
    ASSUME NEW T, NEW s \in Seq(T), NEW f, f = [i \in DOMAIN s |-> f[i]]
    PROVE  IsList(f)
  <1>1. DOMAIN s = 1..Len(s) /\ Len(s) \in Nat /\ DOMAIN f = DOMAIN s
    OBVIOUS
  <1>2. \A n \in Nat : \A g : g = [i \in 1..n |-> g[i]] => g \in Seq(Range(g))
    <2> SUFFICES ASSUME NEW n \in Nat, NEW g, g = [i \in 1..n |-> g[i]]
                 PROVE  g \in Seq(Range(g))
      OBVIOUS
    <2>1. g \in [1..n -> Range(g)]
      BY DEF Range
    <2> QED
      BY <2>1
  <1> QED
    BY <1>1, <1>2 DEF IsList

LEMMA JoinedLists ==
    ASSUME NEW a, IsList(a), NEW b, IsList(b)
    PROVE  IsList(a \o b)
  <1>1. a \in Seq(Range(a) \union Range(b)) /\ b \in Seq(Range(a) \union Range(b))
    <2>1. Range(a) \subseteq Range(a) \union Range(b) /\ Range(b) \subseteq Range(a) \union Range(b)
      OBVIOUS
    <2> QED
      BY <2>1, ListOf DEF IsList
  <1>2. a \o b \in Seq(Range(a) \union Range(b))
    BY <1>1
  <1> QED
    BY <1>2, ListIs

ListOrFails(pkgs) == pkgs = Fails \/ IsList(pkgs)

LEMMA DeclaredAreListed ==
    ASSUME NEW S, Declared(S), NEW U \in SUBSET S
    PROVE  SetToSeq(U) \in Seq(U) /\ IsFiniteSet(U)
  <1>1. IsFiniteSet(U)
    BY FS_Subset DEF Declared
  <1> QED
    BY <1>1, EnumeratedOnly

LEMMA PythonLockParsed ==
    ASSUME NEW lock \in ParsedLocks
    PROVE  IsList(ParsePythonLock(lock))
  <1> DEFINE f == ParsePythonLock(lock)
  <1>1. f = [i \in DOMAIN lock |-> f[i]]
    BY DEF ParsePythonLock
  <1> HIDE DEF f
  <1>2. IsList(f)
    BY <1>1, LikeList DEF ParsedLocks
  <1> QED
    BY <1>2 DEF f

LEMMA RequirementsParsed ==
    ASSUME NEW lines \in Seq(Requirement)
    PROVE  IsList(ParseRequirements(lines))
  <1> DEFINE kept == Picked(lines, {i \in DOMAIN lines : lines[i].name # ""})
             f == ParseRequirements(lines)
  <1>1. kept \in Seq(Requirement)
    BY PickedIs
  <1>2. f = [i \in DOMAIN kept |-> f[i]]
    BY DEF ParseRequirements, Where
  <1> HIDE DEF f, kept
  <1>3. IsList(f)
    BY <1>1, <1>2, LikeList
  <1> QED
    BY <1>3 DEF f

LEMMA PyprojectParsed ==
    ASSUME NEW toml, toml.project \in Seq(Requirement), Declared(toml.poetry)
    PROVE  IsList(ParsePyproject(toml))
  <1> DEFINE named == Picked(toml.project, {i \in DOMAIN toml.project : toml.project[i].name # ""})
             used == {d \in toml.poetry : Lower(d.name) # "python"}
             poetry == SetToSeq(used)
             f == ParsePyproject(toml)
  <1>1. named \in Seq(Requirement)
    BY PickedIs
  <1>2. poetry \in Seq(used)
    BY DeclaredAreListed
  <1>3. CASE named # <<>>
    <2>1. f = [i \in DOMAIN named |-> f[i]]
      BY <1>3 DEF ParsePyproject, Where
    <2> HIDE DEF f, named
    <2>2. IsList(f)
      BY <1>1, <2>1, LikeList
    <2> QED
      BY <2>2 DEF f
  <1>4. CASE named = <<>>
    <2>1. f = [i \in DOMAIN poetry |-> f[i]]
      BY <1>4 DEF ParsePyproject, Where
    <2> HIDE DEF f, poetry, used
    <2>2. IsList(f)
      BY <1>2, <2>1, LikeList
    <2> QED
      BY <2>2 DEF f
  <1> QED
    BY <1>3, <1>4

LEMMA PythonParsed ==
    ASSUME NEW dir, Directory(dir)
    PROVE  ListOrFails(ParsePython(dir))
  <1>1. \A f \in {"uv.lock", "poetry.lock"} : f \in DOMAIN dir /\ dir[f] # Malformed => dir[f] \in ParsedLocks
    BY DEF Directory, Content
  <1>2. "requirements.txt" \in DOMAIN dir => dir["requirements.txt"] \in Seq(Requirement)
    BY DEF Directory, Content
  <1>3. "pyproject.toml" \in DOMAIN dir /\ dir["pyproject.toml"] # Malformed =>
            dir["pyproject.toml"].project \in Seq(Requirement) /\ Declared(dir["pyproject.toml"].poetry)
    BY DEF Directory, Content
  <1>4. CASE "uv.lock" \in DOMAIN dir
    <2>1. ParsePython(dir) = IF dir["uv.lock"] = Malformed THEN Fails ELSE ParsePythonLock(dir["uv.lock"])
      BY <1>4, Zenon DEF ParsePython
    <2> QED
      BY <1>1, <1>4, <2>1, PythonLockParsed DEF ListOrFails
  <1>5. CASE "uv.lock" \notin DOMAIN dir /\ "poetry.lock" \in DOMAIN dir
    <2>1. ParsePython(dir) = IF dir["poetry.lock"] = Malformed THEN Fails ELSE ParsePythonLock(dir["poetry.lock"])
      BY <1>5 DEF ParsePython
    <2> QED
      BY <1>1, <1>5, <2>1, PythonLockParsed DEF ListOrFails
  <1>6. CASE "uv.lock" \notin DOMAIN dir /\ "poetry.lock" \notin DOMAIN dir /\ "requirements.txt" \in DOMAIN dir
    <2>1. ParsePython(dir) = ParseRequirements(dir["requirements.txt"])
      BY <1>6 DEF ParsePython
    <2> QED
      BY <1>2, <1>6, <2>1, RequirementsParsed DEF ListOrFails
  <1>7. CASE "uv.lock" \notin DOMAIN dir /\ "poetry.lock" \notin DOMAIN dir /\ "requirements.txt" \notin DOMAIN dir /\ "pyproject.toml" \in DOMAIN dir
    <2>1. ParsePython(dir) = IF dir["pyproject.toml"] = Malformed THEN Fails ELSE ParsePyproject(dir["pyproject.toml"])
      BY <1>7 DEF ParsePython
    <2> QED
      BY <1>3, <1>7, <2>1, PyprojectParsed DEF ListOrFails
  <1>8. CASE "uv.lock" \notin DOMAIN dir /\ "poetry.lock" \notin DOMAIN dir /\ "requirements.txt" \notin DOMAIN dir /\ "pyproject.toml" \notin DOMAIN dir
    <2>1. ParsePython(dir) = Fails
      BY <1>8 DEF ParsePython
    <2> QED
      BY <2>1 DEF ListOrFails
  <1> QED
    BY <1>4, <1>5, <1>6, <1>7, <1>8

LEMMA ResolvedIsFinite ==
    ASSUME NEW T, NEW lock \in Seq(T), NEW exclude
    PROVE  IsFiniteSet(DOMAIN CargoResolved(lock, exclude))
  <1>1. DOMAIN CargoResolved(lock, exclude) \subseteq NamesOf(lock)
    BY DEF CargoResolved, NamesOf
  <1>2. IsFiniteSet(NamesOf(lock))
    BY ByNameIs
  <1> QED
    BY <1>1, <1>2, FS_Subset

LEMMA RustParsed ==
    ASSUME NEW dir, Directory(dir)
    PROVE  ListOrFails(ParseRust(dir))
  <1> DEFINE toml == dir["Cargo.toml"]
             lock == IF "Cargo.lock" \in DOMAIN dir THEN dir["Cargo.lock"] ELSE <<>>
             resolved == CargoResolved(lock, {toml.root} \union toml.members)
             declared == SetToSeq(toml.deps)
             locked == SetToSeq(DOMAIN resolved)
             f == ParseRust(dir)
  <1>1. CASE "Cargo.toml" \notin DOMAIN dir \/ toml = Malformed \/ lock = Malformed
    BY <1>1 DEF ParseRust, ListOrFails
  <1>2. CASE ~("Cargo.toml" \notin DOMAIN dir \/ toml = Malformed \/ lock = Malformed)
    <2>1. Declared(toml.deps)
      BY <1>2 DEF Directory, Content
    <2>2. lock \in ParsedLocks
      <3>1. "Cargo.lock" \in DOMAIN dir /\ dir["Cargo.lock"] # Malformed => dir["Cargo.lock"] \in ParsedLocks
        BY DEF Directory, Content
      <3>2. <<>> \in ParsedLocks
        BY DEF ParsedLocks
      <3> QED
        BY <1>2, <3>1, <3>2
    <2>3. declared \in Seq(toml.deps)
      BY <2>1, DeclaredAreListed
    <2>4. locked \in Seq(DOMAIN resolved)
      <3>1. IsFiniteSet(DOMAIN resolved)
        <4> HIDE DEF lock, toml
        <4> QED
          BY <2>2, ResolvedIsFinite DEF ParsedLocks
      <3> HIDE DEF resolved
      <3> QED
        BY <3>1, EnumeratedOnly
    <2>5. CASE declared # <<>>
      <3>1. f = [i \in DOMAIN declared |-> f[i]]
        BY <1>2, <2>5 DEF ParseRust
      <3> HIDE DEF f, declared, toml
      <3>2. IsList(f)
        BY <2>3, <3>1, LikeList
      <3> QED
        BY <3>2 DEF f, ListOrFails
    <2>6. CASE declared = <<>>
      <3>1. f = [i \in DOMAIN locked |-> f[i]]
        BY <1>2, <2>6 DEF ParseRust
      <3> HIDE DEF f, locked, resolved
      <3>2. IsList(f)
        BY <2>4, <3>1, LikeList
      <3> QED
        BY <3>2 DEF f, ListOrFails
    <2> QED
      BY <2>5, <2>6
  <1> QED
    BY <1>1, <1>2

LEMMA MergedDeclared ==
    ASSUME NEW first, NEW second, Declared(first), Declared(second)
    PROVE  Declared(Merged(first, second))
  <1>1. Merged(first, second) \subseteq first \union second
    BY DEF Merged
  <1>2. IsFiniteSet(first \union second)
    BY FS_Union DEF Declared
  <1> QED
    BY <1>1, <1>2, FS_Subset DEF Declared

LEMMA PHPParsed ==
    ASSUME NEW dir, Directory(dir)
    PROVE  ListOrFails(ParsePHP(dir))
  <1> DEFINE json     == dir["composer.json"]
             lockfile == IF "composer.lock" \in DOMAIN dir THEN dir["composer.lock"] ELSE [packages |-> <<>>, dev |-> <<>>]
             entries  == lockfile.packages \o lockfile.dev
             lock     == WithoutPlatform(entries)
             resolved == CargoResolved(lock, {})
             declared == {d \in Merged(json.require, json.dev) : d.name \notin Platform}
             direct   == SetToSeq(declared)
             rest     == DOMAIN resolved \ {d.name : d \in declared}
             others   == SetToSeq(rest)
             version(n) == IF n \in DOMAIN resolved THEN resolved[n] ELSE ""
             pkg(n, c, type) == Package("php", n, version(n), c, type, Depth(ParentsIn(lock, n)), ParentsIn(lock, n))
             a == [i \in DOMAIN direct |-> pkg(direct[i].name, direct[i].constraint, PHPConstraintType(direct[i].constraint))]
             b == [i \in DOMAIN others |-> pkg(others[i], Bare(version(others[i])), "exact")]
  <1>1. CASE "composer.json" \notin DOMAIN dir \/ json = Malformed \/ lockfile = Malformed
    BY <1>1 DEF ParsePHP, ListOrFails
  <1>2. CASE ~("composer.json" \notin DOMAIN dir \/ json = Malformed \/ lockfile = Malformed)
    <2>1. Declared(json.require) /\ Declared(json.dev)
      BY <1>2 DEF Directory, Content
    <2>2. entries \in ParsedLocks
      <3>1. "composer.lock" \in DOMAIN dir => lockfile.packages \in ParsedLocks /\ lockfile.dev \in ParsedLocks
        BY <1>2 DEF Directory, Content
      <3>2. <<>> \in ParsedLocks
        BY DEF ParsedLocks
      <3>3. lockfile.packages \in ParsedLocks /\ lockfile.dev \in ParsedLocks
        BY <3>1, <3>2
      <3> HIDE DEF lockfile
      <3> QED
        BY <3>3 DEF ParsedLocks
    <2>3. direct \in Seq(declared)
      <3>1. Declared(Merged(json.require, json.dev)) /\ declared \in SUBSET Merged(json.require, json.dev)
        BY <2>1, MergedDeclared
      <3> HIDE DEF declared
      <3> QED
        BY <3>1, DeclaredAreListed
    <2>4. others \in Seq(rest)
      <3>1. IsFiniteSet(DOMAIN resolved)
        <4> HIDE DEF entries
        <4>1. IsList(lock)
          <5> DEFINE f == lock
          <5>1. f = [i \in DOMAIN entries |-> f[i]]
            BY DEF WithoutPlatform
          <5> HIDE DEF f
          <5>2. IsList(f)
            BY <2>2, <5>1, LikeList DEF ParsedLocks
          <5> QED
            BY <5>2 DEF f
        <4> HIDE DEF lock
        <4> QED
          BY <4>1, ResolvedIsFinite DEF IsList
      <3>2. IsFiniteSet(rest)
        <4> HIDE DEF resolved
        <4> QED
          BY <3>1, FS_Subset
      <3> HIDE DEF rest
      <3> QED
        BY <3>2, EnumeratedOnly
    <2>5. ParsePHP(dir) = a \o b
      BY <1>2, Zenon DEF ParsePHP
    <2>6. IsList(a)
      <3>1. a = [i \in DOMAIN direct |-> a[i]]
        OBVIOUS
      <3> HIDE DEF a, direct, declared
      <3> QED
        BY <2>3, <3>1, LikeList
    <2>7. IsList(b)
      <3>1. b = [i \in DOMAIN others |-> b[i]]
        OBVIOUS
      <3> HIDE DEF b, others, rest
      <3> QED
        BY <2>4, <3>1, LikeList
    <2> HIDE DEF a, b
    <2> QED
      BY <2>5, <2>6, <2>7, JoinedLists DEF ListOrFails
  <1> QED
    BY <1>1, <1>2

LEMMA JavaScriptParsed ==
    ASSUME NEW dir, Directory(dir)
    PROVE  ListOrFails(ParseJavaScript(dir))
  <1> DEFINE json == dir["package.json"]
             all == Merged(json.dependencies, json.dev)
             declared == SetToSeq(all)
             f == ParseJavaScript(dir)
             bad == {dir[g] : g \in DOMAIN dir \intersect {"package.json", "package-lock.json"}}
  <1>1. CASE "package.json" \notin DOMAIN dir \/ Malformed \in bad
    BY <1>1 DEF ParseJavaScript, ListOrFails
  <1>2. CASE ~("package.json" \notin DOMAIN dir \/ Malformed \in bad)
    <2>1. "package.json" \in DOMAIN dir /\ json # Malformed
      BY <1>2
    <2>2. Declared(json.dependencies) /\ Declared(json.dev)
      BY <2>1 DEF Directory, Content
    <2>3. Declared(all)
      BY <2>2, MergedDeclared
    <2>4. f = [i \in DOMAIN declared |-> f[i]]
      BY <1>2 DEF ParseJavaScript
    <2> HIDE DEF all
    <2>5. declared \in Seq(all)
      BY <2>3, DeclaredAreListed
    <2> HIDE DEF f, declared
    <2>6. IsList(f)
      BY <2>4, <2>5, LikeList
    <2> QED
      BY <2>6 DEF f, ListOrFails
  <1> QED
    BY <1>1, <1>2

LEMMA GoModParsed ==
    ASSUME NEW dir, Directory(dir)
    PROVE  ListOrFails(ParseGoMod(dir))
  <1> DEFINE reqs == dir["go.mod"]
             f == ParseGoMod(dir)
  <1>1. CASE "go.mod" \notin DOMAIN dir \/ reqs = Malformed
    BY <1>1 DEF ParseGoMod, ListOrFails
  <1>2. CASE ~("go.mod" \notin DOMAIN dir \/ reqs = Malformed)
    <2>1. reqs \in Seq([name : STRING, version : STRING, indirect : BOOLEAN])
      BY <1>2 DEF Directory, Content
    <2>2. f = [i \in DOMAIN reqs |-> f[i]]
      BY <1>2 DEF ParseGoMod
    <2> HIDE DEF f, reqs
    <2>3. IsList(f)
      BY <2>1, <2>2, LikeList
    <2> QED
      BY <2>3 DEF f, ListOrFails
  <1> QED
    BY <1>1, <1>2

Ecosystems == {"python", "rust", "php", "npm", "go"}

LEMMA FilesParsed ==
    ASSUME NEW dir, Directory(dir), NEW eco \in Ecosystems
    PROVE  ListOrFails(ParseFiles(eco, dir))
  <1>1. CASE eco = "python"
    BY <1>1, PythonParsed DEF ParseFiles
  <1>2. CASE eco = "rust"
    BY <1>2, RustParsed DEF ParseFiles
  <1>3. CASE eco = "php"
    BY <1>3, PHPParsed DEF ParseFiles
  <1>4. CASE eco = "npm"
    BY <1>4, JavaScriptParsed DEF ParseFiles
  <1>5. CASE eco = "go"
    BY <1>5, GoModParsed DEF ParseFiles
  <1> QED
    BY <1>1, <1>2, <1>3, <1>4, <1>5 DEF Ecosystems

\* Some of the files of a directory.
LEMMA PartOfDirectory ==
    ASSUME NEW dir, Directory(dir), NEW files \in SUBSET DOMAIN dir
    PROVE  Directory([f \in files |-> dir[f]])
  BY DEF Directory

LEMMA DiskParsed ==
    ASSUME NEW dir, Directory(dir), NEW eco \in Ecosystems
    PROVE  ListOrFails(Parse(eco, dir))
  <1> DEFINE locks == Where(NPMLocks, LAMBDA f : f \in DOMAIN dir)
             read  == IF locks = <<>> THEN {"package.json"} ELSE {"package.json", locks[1]}
             python == DOMAIN dir \intersect {"uv.lock", "poetry.lock", "requirements.txt"}
  <1>1. CASE eco = "python"
    <2>1. Parse(eco, dir) = IF python = {} THEN <<>> ELSE ParsePython([f \in python |-> dir[f]])
      BY <1>1 DEF Parse
    <2>2. IsList(<<>>)
      <3>1. <<>> \in Seq({})
        OBVIOUS
      <3> QED
        BY <3>1, ListIs
    <2>3. Directory([f \in python |-> dir[f]])
      BY PartOfDirectory
    <2> QED
      BY <2>1, <2>2, <2>3, PythonParsed DEF ListOrFails
  <1>2. CASE eco = "npm"
    <2>1. Parse(eco, dir) = ParseJavaScript([f \in read \intersect DOMAIN dir |-> dir[f]])
      BY <1>2 DEF Parse
    <2>2. Directory([f \in read \intersect DOMAIN dir |-> dir[f]])
      <3> HIDE DEF read
      <3> QED
        BY PartOfDirectory
    <2> QED
      BY <2>1, <2>2, JavaScriptParsed
  <1>3. CASE eco \notin {"python", "npm"}
    <2>1. Parse(eco, dir) = ParseFiles(eco, dir)
      BY <1>3 DEF Parse
    <2> QED
      BY <2>1, FilesParsed
  <1> QED
    BY <1>1, <1>2, <1>3

LEMMA FlattenedLists ==
    ASSUME NEW T, NEW order \in Seq(T), NEW F, F = [i \in DOMAIN order |-> F[i]],
           \A i \in DOMAIN order : IsList(F[i])
    PROVE  IsList(FlattenSeq(F))
  <1> DEFINE all == UNION {Range(F[i]) : i \in DOMAIN order}
  <1>1. \A i \in DOMAIN order : F[i] \in Seq(all)
    <2> SUFFICES ASSUME NEW i \in DOMAIN order
                 PROVE  F[i] \in Seq(all)
      OBVIOUS
    <2>1. Range(F[i]) \subseteq all
      OBVIOUS
    <2> HIDE DEF all
    <2> QED
      BY <2>1, ListOf DEF IsList
  <1> HIDE DEF all
  <1>2. F \in Seq(Seq(all))
    <2>1. F \in [DOMAIN order -> Seq(all)]
      BY <1>1
    <2>2. DOMAIN order = 1..Len(order) /\ Len(order) \in Nat
      OBVIOUS
    <2> QED
      BY <2>1, <2>2
  <1>3. FlattenSeq(F) \in Seq(all)
    BY <1>2, FlattenedIs
  <1> QED
    BY <1>3, ListIs

LEMMA DetectedIs ==
    ASSUME NEW files
    PROVE  DetectEcosystem(files) \in Ecosystems \union {""}
  <1> DEFINE T == {EcosystemFiles[i] : i \in 1..8}
  <1>1. EcosystemFiles \in Seq(T) /\ \A ef \in T : ef[2] \in Ecosystems
    BY DEF EcosystemFiles, Ecosystems
  <1> HIDE DEF T
  <1>2. Present(files) \in Seq(T)
    BY <1>1, PickedIs DEF Present, Where
  <1>3. Present(files) # <<>> => Present(files)[1][2] \in Ecosystems
    BY <1>1, <1>2
  <1> QED
    BY <1>3 DEF DetectEcosystem

LEMMA AllDetected ==
    ASSUME NEW files
    PROVE  DetectAllEcosystems(files) \in Seq(Ecosystems \union {"actions"})
  <1> DEFINE T == {EcosystemFiles[i] : i \in 1..8}
             found == Present(files)
             named == [i \in DOMAIN found |-> found[i][2]]
             ecos == Once(named)
  <1>1. EcosystemFiles \in Seq(T) /\ \A ef \in T : ef[2] \in Ecosystems
    BY DEF EcosystemFiles, Ecosystems
  <1> HIDE DEF T
  <1>2. found \in Seq(T)
    BY <1>1, PickedIs DEF Present, Where
  <1> HIDE DEF found
  <1>3. named \in Seq(Ecosystems)
    BY <1>1, <1>2
  <1>4. DetectAllEcosystems(files) = IF ".github/workflows" \in files THEN Append(ecos, "actions") ELSE ecos
    BY DEF DetectAllEcosystems, found
  <1> HIDE DEF named
  <1>5. ecos \in Seq(Ecosystems)
    BY <1>3, OnceIs
  <1> HIDE DEF ecos
  <1>6. ecos \in Seq(Ecosystems \union {"actions"})
    BY <1>5
  <1> QED
    BY <1>4, <1>6

LEMMA TreeParsed ==
    ASSUME NEW tree, IsFiniteSet(DOMAIN tree), \A d \in DOMAIN tree : Directory(tree[d]), NEW only
    PROVE  ListOrFails(PackagesOfTree(tree, only))
  <1> DEFINE eco(d) == DetectEcosystem(DOMAIN tree[d])
             wanted == {d \in DOMAIN tree : eco(d) # "" /\ (only = {} \/ eco(d) \in only)}
             parsed == [d \in wanted |-> ParseFiles(eco(d), tree[d])]
             order  == SetToSeq(wanted)
             F      == [i \in DOMAIN order |-> parsed[order[i]]]
  <1>1. PackagesOfTree(tree, only) = AllParsed(parsed)
    BY DEF PackagesOfTree
  <1>2. \A d \in wanted : ListOrFails(parsed[d])
    <2> SUFFICES ASSUME NEW d \in wanted
                 PROVE  ListOrFails(ParseFiles(eco(d), tree[d]))
      OBVIOUS
    <2>1. Directory(tree[d]) /\ eco(d) \in Ecosystems
      BY DetectedIs
    <2> HIDE DEF eco
    <2> QED
      BY <2>1, FilesParsed
  <1>3. DOMAIN parsed = wanted
    OBVIOUS
  <1>4. IsFiniteSet(wanted)
    BY FS_Subset
  <1> HIDE DEF wanted, parsed
  <1>5. order \in Seq(wanted)
    BY <1>4, EnumeratedOnly
  <1>6. CASE \E d \in DOMAIN parsed : parsed[d] = Fails
    BY <1>1, <1>6 DEF AllParsed, ListOrFails
  <1>7. CASE ~\E d \in DOMAIN parsed : parsed[d] = Fails
    <2>1. AllParsed(parsed) = FlattenSeq(F)
      BY <1>3, <1>7 DEF AllParsed
    <2> HIDE DEF order
    <2>2. \A i \in DOMAIN order : IsList(F[i])
      BY <1>2, <1>3, <1>5, <1>7 DEF ListOrFails
    <2>3. F = [i \in DOMAIN order |-> F[i]]
      OBVIOUS
    <2> HIDE DEF F
    <2>4. IsList(FlattenSeq(F))
      BY <1>5, <2>2, <2>3, FlattenedLists
    <2> QED
      BY <1>1, <2>1, <2>4 DEF ListOrFails
  <1> QED
    BY <1>6, <1>7

LEMMA DirParsed ==
    ASSUME NEW dir, Directory(dir), NEW only
    PROVE  ListOrFails(PackagesOfDir(dir, only))
  <1> DEFINE all == DetectAllEcosystems(DOMAIN dir)
             ecos == Where(all, LAMBDA e : only = {} \/ e \in only)
             packaged == Where(ecos, LAMBDA e : e # "actions")
             F == [i \in DOMAIN packaged |-> IfParsed(Parse(packaged[i], dir))]
             flat == FlattenSeq(F)
  <1>1. PackagesOfDir(dir, only) = IF ecos = <<>> THEN Fails ELSE OrNothing(flat, Contains(ecos, "actions"))
    BY DEF PackagesOfDir
  <1>2. all \in Seq(Ecosystems \union {"actions"})
    BY AllDetected
  <1> HIDE DEF all
  <1>3. ecos \in Seq(Ecosystems \union {"actions"})
    BY <1>2, PickedIs DEF Where
  <1> HIDE DEF ecos
  <1>4. packaged \in Seq(Ecosystems)
    <2> DEFINE places == {i \in DOMAIN ecos : ecos[i] # "actions"}
    <2>1. packaged = Picked(ecos, places)
      BY DEF Where
    <2>2. Range(packaged) = {ecos[i] : i \in DOMAIN ecos \intersect places} /\ packaged \in Seq(Ecosystems \union {"actions"})
      <3> HIDE DEF places, packaged
      <3> QED
        BY <1>3, <2>1, PickedIs
    <2>3. Range(packaged) \subseteq Ecosystems
      <3>1. \A i \in DOMAIN ecos \intersect places : ecos[i] \in Ecosystems
        BY <1>3
      <3> HIDE DEF packaged, places
      <3> QED
        BY <2>2, <3>1
    <2> HIDE DEF packaged
    <2> QED
      BY <2>2, <2>3, ListOf
  <1> HIDE DEF packaged
  <1>5. \A i \in DOMAIN packaged : IsList(F[i])
    <2> SUFFICES ASSUME NEW i \in DOMAIN packaged
                 PROVE  IsList(IfParsed(Parse(packaged[i], dir)))
      OBVIOUS
    <2>1. ListOrFails(Parse(packaged[i], dir))
      BY <1>4, DiskParsed
    <2>2. IsList(<<>>)
      <3>1. <<>> \in Seq({})
        OBVIOUS
      <3> QED
        BY <3>1, ListIs
    <2> QED
      BY <2>1, <2>2 DEF IfParsed, ListOrFails
  <1>6. F = [i \in DOMAIN packaged |-> F[i]]
    OBVIOUS
  <1> HIDE DEF F
  <1>7. IsList(flat)
    BY <1>4, <1>5, <1>6, FlattenedLists
  <1> HIDE DEF flat
  <1> QED
    BY <1>1, <1>7 DEF OrNothing, ListOrFails

-----------------------------------------------------------------------------
(* What is scored *)

ResultFields == {"name", "version", "eco", "depth", "own", "transitive", "ownRisk", "transitiveRisk", "vulns", "dependedOn"}

IsResult(r, name) == r.name = name /\ r.own \in 0..100 /\ DOMAIN r = ResultFields

\* A package keeps its name and gets a whole number.
LEMMA PackageScored ==
    ASSUME NEW pkg, NEW cfg, cfg.weights \in [FactorSet -> Nat], NEW noCVE, NEW world,
           \A k \in DOMAIN world.advisories : world.advisories[k] # Fails => world.advisories[k] \in Seq(STRING)
    PROVE  IsResult(ScorePackage(pkg, cfg, noCVE, world), pkg.name)
  <1> DEFINE info    == At(world.fetch, Key(pkg), NoInfo)
             repo    == RepoOf(info, world)
             version == IF pkg.version # "" THEN pkg.version ELSE IF info = NoInfo THEN "" ELSE info.version
             answer  == IF noCVE \/ version = "" THEN <<>> ELSE At(world.advisories, <<pkg.name, version>>, <<>>)
             vulns   == IF answer = Fails THEN <<>> ELSE answer
             scored  == Score(pkg, info, repo, cfg.weights)
             found   == [scored EXCEPT !.version = version, !.vulns = vulns]
  <1>1. ScorePackage(pkg, cfg, noCVE, world) = ApplyCVEPenalty(found)
    BY Zenon DEF ScorePackage
  <1>2. vulns \in Seq(STRING)
    <2>1. answer = <<>> \/ answer = Fails \/ answer \in Seq(STRING)
      <3> DEFINE key == <<pkg.name, version>>
      <3> HIDE DEF version
      <3>1. At(world.advisories, key, <<>>) = <<>> \/ At(world.advisories, key, <<>>) = Fails
                \/ At(world.advisories, key, <<>>) \in Seq(STRING)
        BY DEF At
      <3> QED
        BY <3>1
    <2>2. <<>> \in Seq(STRING)
      OBVIOUS
    <2> HIDE DEF answer
    <2>3. vulns = <<>> \/ (vulns = answer /\ answer # Fails)
      OBVIOUS
    <2> HIDE DEF vulns
    <2> QED
      BY <2>1, <2>2, <2>3, Zenon
  <1> HIDE DEF vulns, version
  <1>3. scored.own \in 0..100
    <2> HIDE DEF info, repo
    <2>1. info = NoInfo => scored.own = 0
      BY DEF Score
    <2>2. info # NoInfo => scored.own \in 0..100
      BY ScoreInRange
    <2> HIDE DEF scored
    <2> QED
      BY <2>1, <2>2
  <1>4. scored.name = pkg.name /\ DOMAIN scored = ResultFields
    <2> HIDE DEF info, repo
    <2> QED
      BY DEF Score, ResultFields
  <1> HIDE DEF scored
  <1>5. found.name = pkg.name /\ found.own \in 0..100 /\ found.vulns = vulns /\ DOMAIN found = ResultFields
    BY <1>3, <1>4 DEF ResultFields
  <1> HIDE DEF found
  <1>6. CASE found.vulns = <<>>
    BY <1>1, <1>5, <1>6 DEF ApplyCVEPenalty, IsResult
  <1>7. CASE found.vulns # <<>>
    <2> DEFINE own == Penalised(found.own, found.vulns)
    <2>1. ApplyCVEPenalty(found) = [found EXCEPT !.own = own, !.ownRisk = RiskLevelFromScore(own)]
      BY <1>7 DEF ApplyCVEPenalty
    <2>2. own \in 0..found.own
      BY <1>2, <1>5, PenaltyLowers
    <2> HIDE DEF own
    <2>3. own \in 0..100
      BY <1>5, <2>2, BelowBound, Zenon
    <2> QED
      BY <1>1, <1>5, <2>1, <2>3 DEF IsResult, ResultFields
  <1> QED
    BY <1>6, <1>7

ScoredList(pkgs, cfg, noCVE, world) ==
    [i \in DOMAIN pkgs |-> ScorePackage(pkgs[i], cfg, noCVE, [world EXCEPT !.fetch = FetchAll(pkgs, world)])]

AreResults(results, of) ==
    IsList(results) /\ DOMAIN results = DOMAIN of /\ \A i \in DOMAIN results : IsResult(results[i], of[i].name)

LEMMA AllScored ==
    ASSUME NEW pkgs, IsList(pkgs), NEW cfg, cfg.weights \in [FactorSet -> Nat], NEW noCVE, NEW world, WorldRequest(world)
    PROVE  AreResults(ScoredList(pkgs, cfg, noCVE, world), pkgs)
  <1> DEFINE w == [world EXCEPT !.fetch = FetchAll(pkgs, world)]
             f == ScoredList(pkgs, cfg, noCVE, world)
  <1>1. w.advisories = world.advisories
    BY DEF WorldRequest
  <1>2. f = [i \in DOMAIN pkgs |-> ScorePackage(pkgs[i], cfg, noCVE, w)]
    BY DEF ScoredList
  <1> HIDE DEF w
  <1>3. \A i \in DOMAIN pkgs : IsResult(ScorePackage(pkgs[i], cfg, noCVE, w), pkgs[i].name)
    BY <1>1, PackageScored DEF WorldRequest
  <1>4. f = [i \in DOMAIN pkgs |-> f[i]] /\ \A i \in DOMAIN pkgs : IsResult(f[i], pkgs[i].name)
    BY <1>2, <1>3
  <1> HIDE DEF f
  <1>5. DOMAIN pkgs = 1..Len(pkgs) /\ Len(pkgs) \in Nat /\ DOMAIN f = DOMAIN pkgs
    BY <1>4 DEF IsList
  <1>6. IsList(f)
    BY <1>4, LikeList DEF IsList
  <1> QED
    BY <1>4, <1>5, <1>6 DEF AreResults, f

LEMMA ResultsAre ==
    ASSUME NEW results, NEW of, IsList(of), AreResults(results, of)
    PROVE  /\ NamesOf(results) = NamesOf(of) /\ Len(results) = Len(of) /\ IsScored(ByName(results))
           /\ DOMAIN ByName(results) = NamesOf(results)
           /\ \A n \in NamesOf(results) : ByName(results)[n] = results[LastPlace(results, n)]
  <1>1. results \in Seq(Range(results)) /\ DOMAIN results = DOMAIN of
    BY DEF AreResults, IsList
  <1>2. DOMAIN results = 1..Len(results) /\ Len(results) \in Nat
    BY <1>1
  <1>3. Len(results) = Len(of)
    <2>1. DOMAIN of = 1..Len(of) /\ Len(of) \in Nat
      BY DEF IsList
    <2>2. ASSUME NEW m \in Nat, NEW n \in Nat, 1..m = 1..n
          PROVE  m = n
      <3>1. m # 0 => m \in 1..n
        BY <2>2
      <3>2. n # 0 => n \in 1..m
        BY <2>2
      <3> QED
        BY <3>1, <3>2
    <2>3. 1..Len(results) = 1..Len(of)
      BY <1>1, <1>2, <2>1
    <2> QED
      BY <1>2, <2>1, <2>2, <2>3
  <1>4. NamesOf(results) = NamesOf(of)
    BY DEF AreResults, IsResult, NamesOf
  <1>5. /\ DOMAIN ByName(results) = NamesOf(results) /\ IsFiniteSet(NamesOf(results))
        /\ \A n \in NamesOf(results) :
              /\ ByName(results)[n] = results[LastPlace(results, n)]
              /\ LastPlace(results, n) \in DOMAIN results /\ results[LastPlace(results, n)].name = n
    BY <1>1, ByNameIs
  <1>6. \A i \in DOMAIN results : results[i].own \in Int
    BY DEF AreResults, IsResult
  <1>7. IsScored(ByName(results))
    BY <1>5, <1>6 DEF IsScored
  <1> QED
    BY <1>3, <1>4, <1>5, <1>7

\* What Propagate and the depths change of the results.
Least(scored, deps, name) == LeastBelow(name, Followed(deps, ByName(scored)), ByName(scored))

LEMMA PropagatedAre ==
    ASSUME NEW scored, NEW of, AreResults(scored, of), NEW deps
    PROVE  /\ AreResults(Propagate(scored, deps), scored)
           /\ \A i \in DOMAIN scored : /\ Propagate(scored, deps)[i].transitive = Least(scored, deps, scored[i].name)
                                       /\ Propagate(scored, deps)[i].own = scored[i].own
  <1> DEFINE f == Propagate(scored, deps)
             least(r) == Least(scored, deps, r.name)
  <1>1. f = [i \in DOMAIN scored |-> [scored[i] EXCEPT !.transitive = least(scored[i]),
                                                       !.transitiveRisk = RiskLevelFromScore(least(scored[i]))]]
    BY Zenon DEF Propagate, Least
  <1> HIDE DEF least
  <1>2. f = [i \in DOMAIN scored |-> f[i]] /\ DOMAIN f = DOMAIN scored
    BY <1>1
  <1>3. \A i \in DOMAIN scored : IsResult(f[i], scored[i].name) /\ f[i].transitive = least(scored[i]) /\ f[i].own = scored[i].own
    <2> SUFFICES ASSUME NEW i \in DOMAIN scored
                 PROVE  IsResult(f[i], scored[i].name) /\ f[i].transitive = least(scored[i]) /\ f[i].own = scored[i].own
      OBVIOUS
    <2>1. DOMAIN scored[i] = ResultFields /\ scored[i].own \in 0..100
      BY DEF AreResults, IsResult
    <2>2. f[i] = [scored[i] EXCEPT !.transitive = least(scored[i]), !.transitiveRisk = RiskLevelFromScore(least(scored[i]))]
      BY <1>1
    <2> HIDE DEF f
    <2> QED
      BY <2>1, <2>2 DEF IsResult, ResultFields
  <1> HIDE DEF f
  <1>4. IsList(f)
    BY <1>2, LikeList DEF AreResults, IsList
  <1>5. AreResults(f, scored)
    BY <1>2, <1>3, <1>4 DEF AreResults
  <1> QED
    BY <1>3, <1>5 DEF f, least

LEMMA PlacedAre ==
    ASSUME NEW results, NEW of, AreResults(results, of), NEW depths, NEW deps
    PROVE  /\ AreResults(Placed(results, depths, deps), results)
           /\ \A i \in DOMAIN results : /\ Placed(results, depths, deps)[i].transitive = results[i].transitive
                                        /\ Placed(results, depths, deps)[i].own = results[i].own
                                        /\ Placed(results, depths, deps)[i].depth = depths[results[i].name]
  <1> DEFINE f == Placed(results, depths, deps)
             on(r) == DependedOn(deps, r.name)
  <1>1. f = [i \in DOMAIN results |-> [results[i] EXCEPT !.depth = depths[results[i].name], !.dependedOn = on(results[i])]]
    BY DEF Placed
  <1> HIDE DEF on
  <1>2. f = [i \in DOMAIN results |-> f[i]] /\ DOMAIN f = DOMAIN results
    BY <1>1
  <1>3. \A i \in DOMAIN results : /\ IsResult(f[i], results[i].name) /\ f[i].transitive = results[i].transitive
                                  /\ f[i].own = results[i].own /\ f[i].depth = depths[results[i].name]
    BY <1>1 DEF AreResults, IsResult, ResultFields
  <1> HIDE DEF f
  <1>4. IsList(f)
    BY <1>2, LikeList DEF AreResults, IsList
  <1>5. AreResults(f, results)
    BY <1>2, <1>3, <1>4 DEF AreResults
  <1> QED
    BY <1>3, <1>5 DEF f

\* What the results are once they are placed: covered, and scored as before.
LEMMA SpreadAre ==
    ASSUME NEW scored, NEW of, IsList(of), AreResults(scored, of), NEW deps, IsTree(deps, NamesOf(scored))
    PROVE  /\ AreResults(Spread(Propagate(scored, deps), deps), scored)
           /\ IsCovered(Spread(Propagate(scored, deps), deps), deps)
           /\ \A i \in DOMAIN scored : /\ Spread(Propagate(scored, deps), deps)[i].transitive = Least(scored, deps, scored[i].name)
                                       /\ Spread(Propagate(scored, deps), deps)[i].own = scored[i].own
  <1> DEFINE above  == Propagate(scored, deps)
             depths == ComputeGraphDepths(above, deps)
             results == Spread(above, deps)
  <1>1. /\ AreResults(above, scored)
        /\ \A i \in DOMAIN scored : /\ above[i].transitive = Least(scored, deps, scored[i].name)
                                    /\ above[i].own = scored[i].own
    BY PropagatedAre
  <1>2. results = Placed(above, depths, deps)
    BY DEF Spread
  <1> HIDE DEF above
  <1>3. IsList(scored) /\ DOMAIN above = DOMAIN scored /\ IsList(above)
    BY <1>1 DEF AreResults
  <1>4. NamesOf(above) = NamesOf(scored)
    BY <1>1, <1>3, ResultsAre
  <1>5. \A n \in NamesOf(above) : \E m \in NamesOf(above) : depths[m] = 1 /\ n \in Under(deps, NamesOf(above), m)
    <2>1. above \in Seq(Range(above))
      BY <1>3 DEF IsList
    <2> QED
      BY <1>4, <2>1, DepthsAre
  <1> HIDE DEF depths, results
  <1>6. /\ AreResults(results, above)
        /\ \A i \in DOMAIN above : /\ results[i].transitive = above[i].transitive /\ results[i].own = above[i].own
                                   /\ results[i].depth = depths[above[i].name]
    BY <1>1, <1>2, PlacedAre
  <1>7. NamesOf(results) = NamesOf(above) /\ DOMAIN results = DOMAIN above
    BY <1>3, <1>6, ResultsAre DEF AreResults
  <1>8. IsCovered(results, deps)
    <2> SUFFICES ASSUME NEW n \in NamesOf(results)
                 PROVE  \E i \in DOMAIN results : results[i].depth = 1 /\ n \in Under(deps, NamesOf(results), results[i].name)
      BY DEF IsCovered
    <2>1. PICK m \in NamesOf(above) : depths[m] = 1 /\ n \in Under(deps, NamesOf(above), m)
      BY <1>5, <1>7
    <2>2. PICK i \in DOMAIN above : above[i].name = m
      BY DEF NamesOf
    <2>3. results[i].name = above[i].name /\ results[i].depth = 1
      BY <1>6, <2>1, <2>2 DEF AreResults, IsResult
    <2> QED
      BY <1>7, <2>1, <2>2, <2>3
  <1>9. AreResults(results, scored)
    BY <1>1, <1>6 DEF AreResults, IsResult
  <1>10. \A i \in DOMAIN scored : results[i].transitive = Least(scored, deps, scored[i].name) /\ results[i].own = scored[i].own
    BY <1>1, <1>3, <1>6
  <1> QED
    BY <1>8, <1>9, <1>10 DEF results, above

LEMMA LeastBelowIs ==
    ASSUME NEW scored, NEW of, IsList(of), AreResults(scored, of), NEW deps, IsTree(deps, NamesOf(scored)),
           NEW name \in NamesOf(scored)
    PROVE  Least(scored, deps, name) =
               Min({100} \union {EffectiveScore(ByName(scored)[n].own, DepthOr1(ByName(scored)[n].depth)) :
                   n \in Downstream(PairsAmong(deps, NamesOf(scored)), From(PairsAmong(deps, NamesOf(scored)), name))})
  <1> DEFINE sc == ByName(scored)
             kids == Followed(deps, sc)
             pairs == PairsAmong(deps, NamesOf(scored))
  <1>1. IsScored(sc) /\ DOMAIN sc = NamesOf(scored)
    BY ResultsAre
  <1>2. IsKids(kids) /\ DOMAIN kids = DOMAIN sc /\ Leads(kids) = PairsAmong(deps, DOMAIN sc)
    <2> HIDE DEF sc
    <2> QED
      BY <1>1, FollowedIs DEF IsScored
  <1>3. WalkDescendants(name, kids) = Downstream(pairs, From(pairs, name))
    <2>1. IsKids(kids) /\ name \in DOMAIN kids /\ Leads(kids) = pairs
      BY <1>1, <1>2
    <2> HIDE DEF kids, pairs
    <2> QED
      BY <2>1, WalkIs
  <1> HIDE DEF sc, kids
  <1>4. Least(scored, deps, name) = LeastBelow(name, kids, sc)
    BY DEF Least, sc, kids
  <1> HIDE DEF pairs
  <1>5. LeastBelow(name, kids, sc) =
            Min({100} \union {EffectiveScore(sc[n].own, DepthOr1(sc[n].depth)) : n \in Downstream(pairs, From(pairs, name))})
    BY <1>3, Zenon DEF LeastBelow
  <1> QED
    BY <1>4, <1>5, Zenon DEF sc, pairs

\* Risk paths as a scan reports them.
AreRisks(paths, pairs, of, threshold) ==
    LET weak == {n \in DOMAIN of : of[n].own < threshold}
        ends == [i \in DOMAIN paths |-> Last(paths[i].chain)]
    IN  /\ Len(ends) < 10 => weak \subseteq ToSet(ends)
        /\ \A i \in DOMAIN ends : ends[i] \in weak /\ Follows(paths[i].chain, pairs)
        /\ \A i, k \in DOMAIN ends : i < k => of[ends[i]].own <= of[ends[k]].own

LEMMA RisksAre ==
    ASSUME NEW results, NEW of, IsList(of), AreResults(results, of), NEW deps, IsTree(deps, NamesOf(results)),
           IsCovered(results, deps), NEW threshold
    PROVE  AreRisks(FindRiskPaths(results, deps, threshold, 10), PairsAmong(deps, NamesOf(results)), ByName(results), threshold)
  <1> DEFINE paths == FindRiskPaths(results, deps, threshold, 10)
             sc    == ByName(results)
             pairs == PairsAmong(deps, NamesOf(results))
             ids   == IF Len(paths) < 10 THEN NamesOf(results) ELSE {}
             weak == {n \in DOMAIN sc : sc[n].own < threshold}
             ends == [i \in DOMAIN paths |-> Last(paths[i].chain)]
  <1>1. IsScored(sc) /\ DOMAIN sc = NamesOf(results)
    BY ResultsAre
  <1>2. /\ ReachWeak(paths, deps, sc, threshold, ids)
        /\ \A i, k \in DOMAIN paths : i < k => paths[i].score <= paths[k].score
    <2>1. results \in Seq(Range(results)) /\ 10 \in Nat
      BY DEF AreResults, IsList
    <2> QED
      BY <1>1, <2>1, RiskPathsAre
  <1> HIDE DEF paths, sc
  <1> HIDE DEF ids
  <1>3. paths \in Seq(RiskPathsTo(pairs, sc, threshold)) /\ \A n \in ids : sc[n].own < threshold => \E p \in Range(paths) : Last(p.chain) = n
    BY <1>1, <1>2 DEF ReachWeak
  <1> HIDE DEF pairs
  <1>4. \A i \in DOMAIN paths : /\ paths[i].chain \in Seq(DOMAIN sc) \ {<<>>} /\ Linked(pairs, paths[i].chain)
                                /\ paths[i].score = sc[Last(paths[i].chain)].own /\ paths[i].score < threshold
    <2>1. \A i \in DOMAIN paths : paths[i] \in RiskPathsTo(pairs, sc, threshold)
      BY <1>3
    <2> QED
      BY <2>1 DEF RiskPathsTo
  <1>5. \A i \in DOMAIN paths : ends[i] \in weak /\ Follows(paths[i].chain, pairs)
    <2> SUFFICES ASSUME NEW i \in DOMAIN paths
                 PROVE  Last(paths[i].chain) \in weak /\ Follows(paths[i].chain, pairs)
      OBVIOUS
    <2>1. Last(paths[i].chain) \in DOMAIN sc
      BY <1>4, LastIs
    <2> QED
      BY <1>4, <2>1 DEF Linked, Follows
  <1>6. Len(ends) = Len(paths) /\ DOMAIN ends = DOMAIN paths
    BY <1>3
  <1>7. \A i, k \in DOMAIN ends : i < k => sc[ends[i]].own <= sc[ends[k]].own
    BY <1>2, <1>4, <1>6
  <1>8. ASSUME Len(ends) < 10, NEW n \in weak
        PROVE  n \in ToSet(ends)
    <2>1. n \in ids /\ sc[n].own < threshold
      BY <1>1, <1>6, <1>8 DEF ids
    <2>2. PICK p \in Range(paths) : Last(p.chain) = n
      BY <1>3, <2>1
    <2>3. PICK i \in DOMAIN paths : paths[i] = p
      BY DEF Range
    <2> QED
      BY <2>2, <2>3 DEF ToSet
  <1>9. AreRisks(paths, pairs, sc, threshold)
    BY <1>5, <1>6, <1>7, <1>8 DEF AreRisks
  <1> QED
    BY <1>9 DEF paths, sc, pairs

\* What RiskTravelsUp says of a 
TravelsUp(scored, deps, packages, riskPaths, threshold) ==
    LET of     == ByName(scored)
        pairs  == {p \in PairsOf(deps) : p[1] \in DOMAIN of /\ p[2] \in DOMAIN of}
        below(n) == Downstream(pairs, {p[2] : p \in {p \in pairs : p[1] = n}})
        weak   == {n \in DOMAIN of : of[n].own < threshold}
        ends   == [i \in DOMAIN riskPaths |-> Last(riskPaths[i].chain)]
    IN  /\ \A i \in DOMAIN packages :
               packages[i].transitive =
                   Min({100} \union {EffectiveScore(of[n].own, DepthOr1(of[n].depth)) : n \in below(packages[i].name)})
        /\ Len(ends) < 10 => weak \subseteq ToSet(ends)
        /\ \A i \in DOMAIN ends : ends[i] \in weak /\ Follows(riskPaths[i].chain, pairs)
        /\ \A i, k \in DOMAIN ends : i < k => of[ends[i]].own <= of[ends[k]].own

\* Risks are the same by the scores a package has before and after.
LEMMA SameRisks ==
    ASSUME NEW paths, NEW pairs, NEW of, NEW others, NEW threshold, DOMAIN of = DOMAIN others,
           \A n \in DOMAIN of : of[n].own = others[n].own, AreRisks(paths, pairs, others, threshold)
    PROVE  AreRisks(paths, pairs, of, threshold)
  <1> DEFINE weak(sc) == {n \in DOMAIN sc : sc[n].own < threshold}
             ends == [i \in DOMAIN paths |-> Last(paths[i].chain)]
  <1>1. weak(of) = weak(others)
    OBVIOUS
  <1>2. /\ Len(ends) < 10 => weak(others) \subseteq ToSet(ends)
        /\ \A i \in DOMAIN ends : ends[i] \in weak(others) /\ Follows(paths[i].chain, pairs)
        /\ \A i, k \in DOMAIN ends : i < k => others[ends[i]].own <= others[ends[k]].own
    BY Zenon DEF AreRisks
  <1>3. \A i \in DOMAIN ends : ends[i] \in DOMAIN of
    BY <1>2
  <1> HIDE DEF weak, ends
  <1>4. /\ Len(ends) < 10 => weak(of) \subseteq ToSet(ends)
        /\ \A i \in DOMAIN ends : ends[i] \in weak(of) /\ Follows(paths[i].chain, pairs)
        /\ \A i, k \in DOMAIN ends : i < k => of[ends[i]].own <= of[ends[k]].own
    BY <1>1, <1>2, <1>3
  <1> QED
    BY <1>4, Zenon DEF AreRisks, weak, ends

LEMMA ReportTravelsUp ==
    ASSUME NEW scored, NEW of, IsList(of), AreResults(scored, of), NEW deps, IsTree(deps, NamesOf(scored)),
           NEW results, results = Spread(Propagate(scored, deps), deps), NEW threshold
    PROVE  TravelsUp(scored, deps, results, FindRiskPaths(results, deps, threshold, 10), threshold)
  <1> DEFINE sc    == ByName(scored)
             now   == ByName(results)
             pairs == PairsAmong(deps, NamesOf(scored))
             paths == FindRiskPaths(results, deps, threshold, 10)
             given == {p \in PairsOf(deps) : p[1] \in DOMAIN sc /\ p[2] \in DOMAIN sc}
             below(n) == Downstream(pairs, {p[2] : p \in {p \in pairs : p[1] = n}})
             least(n) == Min({100} \union {EffectiveScore(sc[k].own, DepthOr1(sc[k].depth)) : k \in below(n)})
  <1>1. /\ AreResults(results, scored) /\ IsCovered(results, deps)
        /\ \A i \in DOMAIN scored : /\ results[i].transitive = Least(scored, deps, scored[i].name)
                                    /\ results[i].own = scored[i].own
    BY SpreadAre
  <1>2. IsList(scored) /\ DOMAIN results = DOMAIN scored
    BY <1>1 DEF AreResults
  <1>3. /\ DOMAIN sc = NamesOf(scored)
        /\ \A n \in NamesOf(scored) : sc[n] = scored[LastPlace(scored, n)]
    BY ResultsAre
  <1>4. /\ NamesOf(results) = NamesOf(scored) /\ Len(results) = Len(scored) /\ DOMAIN now = NamesOf(results)
        /\ \A n \in NamesOf(results) : now[n] = results[LastPlace(results, n)]
    BY <1>1, <1>2, ResultsAre
  <1>5. \A n : LastPlace(results, n) = LastPlace(scored, n)
    <2>1. \A i \in 1..Len(results) : results[i].name = scored[i].name
      <3>1. DOMAIN results = 1..Len(results)
        BY <1>1 DEF AreResults, IsList
      <3> QED
        BY <1>1, <3>1 DEF AreResults, IsResult
    <2> QED
      BY <1>4, <2>1, SameNames
  <1>6. \A n \in NamesOf(scored) : LastPlace(scored, n) \in DOMAIN scored
    <2>1. scored \in Seq(Range(scored))
      BY <1>2 DEF IsList
    <2> QED
      BY <2>1, ByNameIs
  <1>7. DOMAIN sc = DOMAIN now /\ \A n \in DOMAIN sc : sc[n].own = now[n].own
    BY <1>1, <1>3, <1>4, <1>5, <1>6
  <1>8. AreRisks(paths, pairs, now, threshold)
    BY <1>1, <1>2, <1>4, RisksAre
  <1> HIDE DEF paths, now
  <1>9. AreRisks(paths, pairs, sc, threshold)
    <2> HIDE DEF sc, pairs
    <2> QED
      BY <1>7, <1>8, SameRisks
  <1>10. ASSUME NEW i \in DOMAIN results
         PROVE  results[i].transitive = least(results[i].name)
    <2>1. results[i].name = scored[i].name /\ scored[i].name \in NamesOf(scored)
      BY <1>1, <1>2 DEF AreResults, IsResult, NamesOf
    <2>2. Least(scored, deps, scored[i].name) = least(scored[i].name)
      <3>1. \A n \in NamesOf(scored) : Least(scored, deps, n) = least(n)
        <4> DEFINE leastOf(n) ==
                Min({100} \union {EffectiveScore(sc[k].own, DepthOr1(sc[k].depth)) : k \in Downstream(pairs, From(pairs, n))})
        <4>1. \A n \in NamesOf(scored) : Least(scored, deps, n) = leastOf(n)
          BY LeastBelowIs
        <4> HIDE DEF pairs, sc
        <4>2. \A n : leastOf(n) = least(n)
          BY Zenon DEF From
        <4> HIDE DEF least, leastOf
        <4> QED
          BY <4>1, <4>2
      <3> HIDE DEF least
      <3> QED
        BY <2>1, <3>1
    <2> HIDE DEF least
    <2> QED
      BY <1>1, <1>2, <2>1, <2>2
  <1>11. given = pairs
    BY <1>3 DEF PairsAmong
  <1> HIDE DEF sc
  <1> HIDE DEF pairs, given
  <1> QED
    <2>1. \A i \in DOMAIN results : results[i].transitive = least(results[i].name)
      BY <1>10
    <2> DEFINE other(n) == Downstream(given, {p[2] : p \in {p \in given : p[1] = n}})
               weak   == {n \in DOMAIN sc : sc[n].own < threshold}
               ends   == [i \in DOMAIN paths |-> Last(paths[i].chain)]
    <2>2. \A i \in DOMAIN results : results[i].transitive =
              Min({100} \union {EffectiveScore(sc[k].own, DepthOr1(sc[k].depth)) : k \in other(results[i].name)})
      BY <1>11, <2>1
    <2>3. /\ Len(ends) < 10 => weak \subseteq ToSet(ends)
          /\ \A i \in DOMAIN ends : ends[i] \in weak /\ Follows(paths[i].chain, given)
          /\ \A i, k \in DOMAIN ends : i < k => sc[ends[i]].own <= sc[ends[k]].own
      BY <1>9, <1>11, Zenon DEF AreRisks
    <2> HIDE DEF weak, ends, other
    <2> QED
      BY <2>2, <2>3, Zenon DEF TravelsUp, weak, ends, other, given, sc, paths

\* The scan's part of the result the property is about.
ScanTravelsUp(result, threshold) ==
    TravelsUp(result.scored, result.deps, result.packages, result.riskPaths, threshold)

LEMMA PipelineTravelsUp ==
    ASSUME NEW pkgs, IsList(pkgs), NEW cfg, cfg.weights \in [FactorSet -> Nat], NEW noCVE, NEW world, WorldRequest(world)
    PROVE  ScanTravelsUp(ScorePipeline(pkgs, cfg, noCVE, world), cfg.threshold)
  <1> DEFINE scored == ScoredList(pkgs, cfg, noCVE, world)
             deps == BuildDepsMap(pkgs)
             results == Spread(Propagate(scored, deps), deps)
             result == ScorePipeline(pkgs, cfg, noCVE, world)
  <1>1. result = Report(results, pkgs, FetchAll(pkgs, world), scored, deps, cfg)
    BY Zenon DEF ScorePipeline, ReportScored, ScoredList
  <1>2. AreResults(scored, pkgs)
    BY AllScored
  <1>3. IsTree(deps, NamesOf(scored))
    <2>1. IsTree(deps, NamesOf(pkgs))
      BY TreeIs DEF IsList
    <2>2. NamesOf(scored) = NamesOf(pkgs)
      <3> HIDE DEF scored
      <3> QED
        BY <1>2, ResultsAre
    <2> QED
      BY <2>1, <2>2
  <1> HIDE DEF scored, deps
  <1>4. TravelsUp(scored, deps, results, FindRiskPaths(results, deps, cfg.threshold, 10), cfg.threshold)
    BY <1>2, <1>3, ReportTravelsUp
  <1> HIDE DEF results, result
  <1>5. /\ result.packages = results /\ result.deps = deps /\ result.scored = scored
        /\ result.riskPaths = FindRiskPaths(results, deps, cfg.threshold, 10)
    BY <1>1 DEF Report
  <1>6. ScanTravelsUp(result, cfg.threshold)
    BY <1>4, <1>5 DEF ScanTravelsUp
  <1> QED
    BY <1>6 DEF result

\* In every scan the transitive score of a package is the least of what its
\* tree of dependencies leads to from it, cycles and packages of two versions
\* included; every weak package ends a risk path unless there are ten, and a
\* risk path follows the dependencies to a weak package, the weakest first:
\* for every tree the files declare and whatever the registries, the
\* repositories and OSV answer.  (core.Propagate, FindRiskPaths)
THEOREM RiskIsFollowed == Spec => []RiskTravelsUp
  <1>1. Answers => RiskTravelsUp
    <2> SUFFICES ASSUME Answers, Answered("url") \/ Answered("dir")
                 PROVE  RiskTravelsUp
      BY DEF RiskTravelsUp
    <2> DEFINE cfg == ProfileByName(request.profile)
    <2>1. PICK pkgs : ListOrFails(pkgs) /\ reply = Pipelined(pkgs) /\ WorldRequest(request.world)
      <3>1. CASE Answered("url")
        <4>1. UrlRequest(request)
          BY <3>1, RequestsAssumption DEF Answers, Answered, Instances
        <4>2. reply = Pipelined(PackagesOfTree(request.tree, request.only))
          BY <3>1 DEF Answers, Answered
        <4>3. ListOrFails(PackagesOfTree(request.tree, request.only))
          BY <4>1, TreeParsed DEF UrlRequest
        <4> QED
          BY <4>1, <4>2, <4>3 DEF UrlRequest
      <3>2. CASE Answered("dir")
        <4>1. DirRequest(request)
          BY <3>2, RequestsAssumption DEF Answers, Answered, Instances
        <4>2. reply = Pipelined(PackagesOfDir(request.dir, request.only))
          BY <3>2 DEF Answers, Answered
        <4>3. ListOrFails(PackagesOfDir(request.dir, request.only))
          BY <4>1, DirParsed DEF DirRequest
        <4> QED
          BY <4>1, <4>2, <4>3 DEF DirRequest
      <3> QED
        BY <3>1, <3>2
    <2>2. pkgs # Fails /\ IsList(pkgs)
      BY <2>1 DEF Answered, Pipelined, ListOrFails
    <2>3. reply = ScorePipeline(pkgs, cfg, request.noCVE, request.world)
      BY <2>1, <2>2 DEF Pipelined
    <2>4. cfg.weights \in [FactorSet -> Nat]
      BY ProfileWeights
    <2> HIDE DEF cfg
    <2>5. ScanTravelsUp(reply, cfg.threshold)
      BY <2>1, <2>2, <2>3, <2>4, PipelineTravelsUp
    <2> QED
      BY <2>5, Zenon DEF RiskTravelsUp, ScanTravelsUp, TravelsUp, cfg
  <1> QED
    BY <1>1, AnswersHold, PTL

-----------------------------------------------------------------------------
(* Lock files *)

IsLock(lock) == IsList(lock) /\ \A i \in DOMAIN lock : IsList(lock[i].deps)

\* What a lock file lists, and what of it is among some names.
Depends(lock) == UNION {{<<lock[i].name, d>> : d \in ToSet(lock[i].deps)} : i \in DOMAIN lock}
ListedOf(lock, names) == {p \in Depends(lock) : p[2] \in names}

LEMMA DependsAre ==
    ASSUME NEW lock, IsLock(lock)
    PROVE  /\ \A q, n : <<q, n>> \in Depends(lock) <=> q \in ParentsIn(lock, n)
           /\ \A p \in Depends(lock) : p = <<p[1], p[2]>>
  <1>1. \A i \in DOMAIN lock : \A d : d \in ToSet(lock[i].deps) <=> Contains(lock[i].deps, d)
    <2> SUFFICES ASSUME NEW i \in DOMAIN lock, NEW d
                 PROVE  d \in ToSet(lock[i].deps) <=> Contains(lock[i].deps, d)
      OBVIOUS
    <2>1. DOMAIN lock[i].deps = 1..Len(lock[i].deps)
      BY DEF IsLock, IsList
    <2> QED
      BY <2>1 DEF ToSet, Contains
  <1>2. ASSUME NEW q, NEW n
        PROVE  <<q, n>> \in Depends(lock) <=> q \in ParentsIn(lock, n)
    <2>1. <<q, n>> \in Depends(lock) <=> \E i \in DOMAIN lock : \E d \in ToSet(lock[i].deps) : <<q, n>> = <<lock[i].name, d>>
      BY DEF Depends
    <2>2. q \in ParentsIn(lock, n) <=> \E i \in DOMAIN lock : Contains(lock[i].deps, n) /\ q = lock[i].name
      BY DEF ParentsIn
    <2> QED
      BY <1>1, <2>1, <2>2
  <1>3. \A p \in Depends(lock) : p = <<p[1], p[2]>>
    BY DEF Depends
  <1> QED
    BY <1>2, <1>3

\* Packages that know their parents from a lock file.
FromLock(pkgs, lock) ==
    \A i \in DOMAIN pkgs : /\ pkgs[i].parents = ParentsIn(lock, pkgs[i].name)
                           /\ pkgs[i].depth = Depth(pkgs[i].parents)

\* The tree that is built where some package has a parent, and where none has.
LEMMA KnownTree ==
    ASSUME NEW T, NEW pkgs \in Seq(T), \E i \in DOMAIN pkgs : pkgs[i].parents # {}
    PROVE  LET deps == BuildDepsMap(pkgs) IN
           /\ DOMAIN deps = UNION {pkgs[i].parents : i \in DOMAIN pkgs}
           /\ \A q \in DOMAIN deps : /\ IsInjective(deps[q])
                                     /\ \A n : n \in Range(deps[q]) <=> \E i \in DOMAIN pkgs : pkgs[i].name = n /\ q \in pkgs[i].parents
  <1> DEFINE parents == UNION {pkgs[i].parents : i \in DOMAIN pkgs}
             by(q) == {i \in DOMAIN pkgs : q \in pkgs[i].parents}
             below(q) == NameList(Picked(pkgs, by(q)))
             deps == BuildDepsMap(pkgs)
  <1>1. deps = [q \in parents |-> Once(below(q))]
    BY DEF BuildDepsMap, Where, NameList
  <1>2. ASSUME NEW q
        PROVE  /\ IsInjective(Once(below(q)))
               /\ \A n : n \in Range(Once(below(q))) <=> \E i \in DOMAIN pkgs : pkgs[i].name = n /\ q \in pkgs[i].parents
    <2> DEFINE p == Picked(pkgs, by(q))
    <2>1. p \in Seq(T) /\ Range(p) = {pkgs[i] : i \in (DOMAIN pkgs) \intersect by(q)}
      <3> HIDE DEF by
      <3> QED
        BY PickedIs
    <2>2. \A n : n \in NamesOf(p) <=> \E i \in DOMAIN pkgs : pkgs[i].name = n /\ q \in pkgs[i].parents
      <3> HIDE DEF p
      <3>1. \A n : n \in NamesOf(p) <=> \E r \in Range(p) : r.name = n
        BY DEF NamesOf, Range
      <3>2. \A r : r \in Range(p) <=> \E i \in DOMAIN pkgs : r = pkgs[i] /\ q \in pkgs[i].parents
        BY <2>1
      <3> QED
        BY <3>1, <3>2
    <2> HIDE DEF p
    <2>3. NameList(p) \in Seq(NamesOf(p)) /\ Range(NameList(p)) = NamesOf(p)
      BY <2>1, NameListIs
    <2>4. Range(Once(NameList(p))) = NamesOf(p) /\ IsInjective(Once(NameList(p)))
      BY <2>3, OnceIs
    <2> QED
      BY <2>2, <2>4 DEF p
  <1> HIDE DEF below, parents, deps
  <1>3. DOMAIN deps = parents /\ \A q \in DOMAIN deps : deps[q] = Once(below(q))
    BY <1>1
  <1>4. \A q \in DOMAIN deps : /\ IsInjective(deps[q])
                               /\ \A n : n \in Range(deps[q]) <=> \E i \in DOMAIN pkgs : pkgs[i].name = n /\ q \in pkgs[i].parents
    BY <1>2, <1>3
  <1> QED
    BY <1>3, <1>4 DEF deps, parents

LEMMA FlatTree ==
    ASSUME NEW T, NEW pkgs \in Seq(T), \A i \in DOMAIN pkgs : pkgs[i].parents = {} /\ pkgs[i].depth = 1
    PROVE  \A q \in DOMAIN BuildDepsMap(pkgs) : BuildDepsMap(pkgs)[q] = <<>>
  <1> DEFINE indirect == NameList(Picked(pkgs, {i \in DOMAIN pkgs : pkgs[i].depth > 1}))
             direct == ToSet(NameList(Picked(pkgs, {i \in DOMAIN pkgs : pkgs[i].depth <= 1})))
             copies(d) == Cardinality({i \in DOMAIN pkgs : pkgs[i].name = d /\ pkgs[i].depth <= 1})
             all(d) == [k \in 1..copies(d) |-> indirect]
             deps == BuildDepsMap(pkgs)
  <1>1. deps = [d \in direct |-> FlattenSeq(all(d))]
    BY DEF BuildDepsMap, Where, NameList
  <1>2. indirect = <<>>
    <2> DEFINE none == {i \in DOMAIN pkgs : pkgs[i].depth > 1}
    <2>1. none = {}
      OBVIOUS
    <2>2. Picked(pkgs, {}) \in Seq(T) /\ Range(Picked(pkgs, {})) = {pkgs[i] : i \in (DOMAIN pkgs) \intersect {}}
      BY PickedIs
    <2>3. Picked(pkgs, {}) = <<>>
      <3> DEFINE p == Picked(pkgs, {})
      <3>1. p \in Seq(T) /\ Range(p) = {}
        BY <2>2
      <3> HIDE DEF p
      <3>2. DOMAIN p = {} /\ DOMAIN p = 1..Len(p) /\ Len(p) \in Nat
        BY <3>1 DEF Range
      <3>3. Len(p) = 0
        BY <3>2
      <3>4. p = <<>>
        BY <3>1, <3>3
      <3> QED
        BY <3>4 DEF p
    <2> HIDE DEF none
    <2>4. NameList(Picked(pkgs, none)) = <<>>
      BY <2>1, <2>3 DEF NameList
    <2> QED
      BY <2>4 DEF none
  <1>3. ASSUME NEW d
        PROVE  FlattenSeq(all(d)) = <<>>
    <2>1. IsFiniteSet(DOMAIN pkgs)
      BY FS_Interval
    <2>2. copies(d) \in Nat
      BY <2>1, FS_Subset, FS_CardinalityType
    <2> HIDE DEF copies, indirect
    <2>3. all(d) \in Seq(Seq({}))
      <3>1. indirect \in Seq({})
        BY <1>2
      <3> QED
        BY <2>2, <3>1
    <2> HIDE DEF all
    <2>4. FlattenSeq(all(d)) \in Seq({})
      BY <2>3, FlattenedIs
    <2> QED
      BY <2>4
  <1> HIDE DEF all, direct, deps
  <1> QED
    BY <1>1, <1>3 DEF deps

LEMMA TreeIsListed ==
    ASSUME NEW T, NEW pkgs \in Seq(T), NEW lock, IsLock(lock), FromLock(pkgs, lock)
    PROVE  /\ PairsOf(BuildDepsMap(pkgs)) = ListedOf(lock, NamesOf(pkgs))
           /\ \A q \in DOMAIN BuildDepsMap(pkgs) : IsInjective(BuildDepsMap(pkgs)[q])
  <1> DEFINE deps == BuildDepsMap(pkgs)
  <1>1. \A q, n : <<q, n>> \in ListedOf(lock, NamesOf(pkgs)) <=> n \in NamesOf(pkgs) /\ q \in ParentsIn(lock, n)
    BY DependsAre DEF ListedOf
  <1>2. \A q, n : <<q, n>> \in ListedOf(lock, NamesOf(pkgs)) <=> \E i \in DOMAIN pkgs : pkgs[i].name = n /\ q \in pkgs[i].parents
    <2>1. \A n : n \in NamesOf(pkgs) <=> \E i \in DOMAIN pkgs : pkgs[i].name = n
      BY DEF NamesOf
    <2>2. \A i \in DOMAIN pkgs : pkgs[i].parents = ParentsIn(lock, pkgs[i].name)
      BY DEF FromLock
    <2>3. ASSUME NEW q, NEW n
          PROVE  (n \in NamesOf(pkgs) /\ q \in ParentsIn(lock, n)) <=> \E i \in DOMAIN pkgs : pkgs[i].name = n /\ q \in pkgs[i].parents
      <3>1. ASSUME n \in NamesOf(pkgs), q \in ParentsIn(lock, n)
            PROVE  \E i \in DOMAIN pkgs : pkgs[i].name = n /\ q \in pkgs[i].parents
        <4>1. PICK i \in DOMAIN pkgs : pkgs[i].name = n
          BY <2>1, <3>1
        <4> QED
          BY <2>2, <3>1, <4>1
      <3>2. ASSUME NEW i \in DOMAIN pkgs, pkgs[i].name = n, q \in pkgs[i].parents
            PROVE  n \in NamesOf(pkgs) /\ q \in ParentsIn(lock, n)
        BY <2>1, <2>2, <3>2
      <3> QED
        BY <3>1, <3>2
    <2> QED
      BY <1>1, <2>3, Zenon
  <1>3. \A p \in ListedOf(lock, NamesOf(pkgs)) : p = <<p[1], p[2]>>
    BY DependsAre DEF ListedOf
  <1>4. \A q, n : <<q, n>> \in PairsOf(deps) <=> q \in DOMAIN deps /\ n \in Range(deps[q])
    <2> HIDE DEF deps
    <2> QED
      BY DEF PairsOf, ToSet, Range
  <1>5. \A p \in PairsOf(deps) : p = <<p[1], p[2]>>
    <2> HIDE DEF deps
    <2> QED
      BY DEF PairsOf
  <1>6. /\ \A q, n : <<q, n>> \in PairsOf(deps) <=> \E i \in DOMAIN pkgs : pkgs[i].name = n /\ q \in pkgs[i].parents
        /\ \A q \in DOMAIN deps : IsInjective(deps[q])
    <2>1. CASE \E i \in DOMAIN pkgs : pkgs[i].parents # {}
      <3>1. /\ DOMAIN deps = UNION {pkgs[i].parents : i \in DOMAIN pkgs}
            /\ \A q \in DOMAIN deps : /\ IsInjective(deps[q])
                                      /\ \A n : n \in Range(deps[q]) <=> \E i \in DOMAIN pkgs : pkgs[i].name = n /\ q \in pkgs[i].parents
        BY <2>1, KnownTree
      <3> HIDE DEF deps
      <3>2. ASSUME NEW q, NEW n
            PROVE  <<q, n>> \in PairsOf(deps) <=> \E i \in DOMAIN pkgs : pkgs[i].name = n /\ q \in pkgs[i].parents
        <4>1. q \in DOMAIN deps <=> \E i \in DOMAIN pkgs : q \in pkgs[i].parents
          BY <3>1
        <4>2. q \in DOMAIN deps => (n \in Range(deps[q]) <=> \E i \in DOMAIN pkgs : pkgs[i].name = n /\ q \in pkgs[i].parents)
          BY <3>1
        <4>3. <<q, n>> \in PairsOf(deps) <=> q \in DOMAIN deps /\ n \in Range(deps[q])
          BY <1>4
        <4> QED
          BY <4>1, <4>2, <4>3
      <3> QED
        BY <3>1, <3>2
    <2>2. CASE \A i \in DOMAIN pkgs : pkgs[i].parents = {}
      <3>1. \A q \in DOMAIN deps : deps[q] = <<>>
        BY <2>2, FlatTree DEF FromLock, Depth
      <3> HIDE DEF deps
      <3>2. \A q \in DOMAIN deps : Range(deps[q]) = {} /\ IsInjective(deps[q])
        BY <3>1 DEF Range, IsInjective
      <3> QED
        BY <1>4, <2>2, <3>2
    <2> QED
      BY <2>1, <2>2
  <1> HIDE DEF deps
  <1>7. PairsOf(deps) = ListedOf(lock, NamesOf(pkgs))
    <2> DEFINE A == PairsOf(deps)
               B == ListedOf(lock, NamesOf(pkgs))
    <2>1. \A q, n : <<q, n>> \in A <=> <<q, n>> \in B
      BY <1>2, <1>6
    <2>2. (\A p \in A : p = <<p[1], p[2]>>) /\ \A p \in B : p = <<p[1], p[2]>>
      BY <1>3, <1>5
    <2> HIDE DEF A, B
    <2>3. \A p : p \in A <=> p \in B
      BY <2>1, <2>2
    <2> QED
      BY <2>3 DEF A, B
  <1> QED
    BY <1>6, <1>7 DEF deps

LEMMA RefNames ==
    ASSUME NEW s
    PROVE  \A n : (\E r \in ToSet(Refs(s)) : r.name = n) <=> \E i \in DOMAIN s : s[i].name = n
  <1> DEFINE f == Refs(s)
  <1>1. DOMAIN f = DOMAIN s /\ \A i \in DOMAIN f : f[i].name = s[i].name
    <2>1. f = [i \in DOMAIN s |-> PkgToDepRef(s[i])]
      BY DEF Refs
    <2>2. \A p : PkgToDepRef(p).name = p.name
      BY DEF PkgToDepRef
    <2> HIDE DEF f
    <2> QED
      BY <2>1, <2>2
  <1> HIDE DEF f
  <1>2. \A n : (\E r \in ToSet(f) : r.name = n) <=> \E i \in DOMAIN f : f[i].name = n
    BY DEF ToSet
  <1> QED
    BY <1>1, <1>2 DEF f

LEMMA ChildrenAre ==
    ASSUME NEW names, NEW s \in Seq(names), NEW all, DOMAIN all = names, \A n \in names : all[n].name = n
    PROVE  \A n : (\E r \in ToSet(Refs(Children(s, all))) : r.name = n) <=> n \in Range(s)
  <1> DEFINE places == {i \in DOMAIN s : s[i] \in DOMAIN all}
             known == Picked(s, places)
             kids == Children(s, all)
  <1>1. kids = [i \in DOMAIN known |-> all[known[i]]]
    BY DEF Children, Where
  <1>2. DOMAIN s = places
    <2>1. \A i \in DOMAIN s : s[i] \in names
      OBVIOUS
    <2> QED
      BY <2>1
  <1> HIDE DEF places
  <1>3. known \in Seq(names) /\ Range(known) = {s[i] : i \in (DOMAIN s) \intersect places}
    BY PickedIs
  <1>4. Range(known) = Range(s)
    BY <1>2, <1>3 DEF Range
  <1> HIDE DEF known
  <1>5. \A i \in DOMAIN known : known[i] \in names
    BY <1>3
  <1>6. DOMAIN kids = DOMAIN known /\ \A i \in DOMAIN kids : kids[i].name = known[i]
    BY <1>1, <1>5
  <1> HIDE DEF kids
  <1>7. \A n : (\E r \in ToSet(Refs(kids)) : r.name = n) <=> \E i \in DOMAIN kids : kids[i].name = n
    BY RefNames
  <1>8. \A n : (\E i \in DOMAIN kids : kids[i].name = n) <=> n \in Range(known)
    BY <1>6 DEF Range
  <1> QED
    BY <1>4, <1>7, <1>8 DEF kids

LEMMA UnusedAre ==
    ASSUME NEW T, NEW pkgs \in Seq(T), NEW deps
    PROVE  {r.name : r \in ToSet(Refs(Unused(pkgs, deps)))} = NamesOf(pkgs) \ UsedIn(deps)
  <1> DEFINE used == UsedIn(deps)
             places == {i \in DOMAIN pkgs : pkgs[i].name \notin used}
             unused == Unused(pkgs, deps)
  <1>1. unused = IF deps = <<>> THEN pkgs ELSE Picked(pkgs, places)
    BY DEF Unused, UsedIn, Where
  <1>2. deps = <<>> => used = {}
    BY DEF UsedIn
  <1> HIDE DEF used
  <1>3. NamesOf(unused) = NamesOf(pkgs) \ used
    <2>1. CASE deps = <<>>
      BY <1>1, <1>2, <2>1
    <2>2. CASE deps # <<>>
      <3> DEFINE p == Picked(pkgs, places)
      <3>1. p \in Seq(T) /\ Range(p) = {pkgs[i] : i \in (DOMAIN pkgs) \intersect places}
        <4> HIDE DEF places
        <4> QED
          BY PickedIs
      <3>2. \A r : r \in Range(p) <=> \E i \in DOMAIN pkgs : r = pkgs[i] /\ pkgs[i].name \notin used
        BY <3>1
      <3> HIDE DEF p
      <3>3. \A n : n \in NamesOf(p) <=> \E r \in Range(p) : r.name = n
        BY DEF NamesOf, Range
      <3>4. \A n : n \in NamesOf(p) <=> n \in NamesOf(pkgs) \ used
        BY <3>2, <3>3 DEF NamesOf
      <3>5. NamesOf(p) = NamesOf(pkgs) \ used
        BY <3>4
      <3> QED
        BY <1>1, <2>2, <3>5 DEF p
    <2> QED
      BY <2>1, <2>2
  <1> HIDE DEF unused
  <1>4. {r.name : r \in ToSet(Refs(unused))} = NamesOf(unused)
    <2> DEFINE A == {r.name : r \in ToSet(Refs(unused))}
    <2>1. \A n : n \in A <=> \E r \in ToSet(Refs(unused)) : r.name = n
      OBVIOUS
    <2>2. \A n : n \in NamesOf(unused) <=> \E i \in DOMAIN unused : unused[i].name = n
      BY DEF NamesOf
    <2> HIDE DEF A
    <2>3. \A n : n \in A <=> n \in NamesOf(unused)
      BY <2>1, <2>2, RefNames
    <2>4. A = NamesOf(unused)
      BY <2>3
    <2> QED
      BY <2>4 DEF A
  <1> QED
    BY <1>3, <1>4 DEF unused, used

LEMMA ReachedIs ==
    ASSUME NEW T, NEW pkgs \in Seq(T), pkgs # Fails, NEW deps, IsTree(deps, NamesOf(pkgs))
    PROVE  Reached(DetectParsed(FreshResolver, pkgs, deps)) = Downstream(PairsOf(deps), NamesOf(pkgs) \ UsedIn(deps))
  <1> DEFINE names == NamesOf(pkgs)
             all == LastNamed(pkgs)
             kept == Update(<<>>, all)
             below == [q \in DOMAIN deps |-> Children(deps[q], kept)]
             known == Update(<<>>, below)
             d == DetectParsed(FreshResolver, pkgs, deps)
             res(n) == ToSet(Resolve(d.resolver, [name |-> n]))
             places == DOMAIN d.resolver.deps
             leads == UNION {{<<n, r.name>> : r \in res(n)} : n \in places}
             start == {r.name : r \in ToSet(d.refs)}
  <1>1. \A f : DOMAIN Update(<<>>, f) = DOMAIN f /\ \A x \in DOMAIN f : Update(<<>>, f)[x] = f[x]
    BY DEF Update
  <1>2. DOMAIN all = names /\ IsFiniteSet(names) /\ \A n \in names : all[n].name = n
    <2>1. all = ByName(pkgs)
      BY DEF LastNamed, ByName
    <2> HIDE DEF all
    <2> QED
      BY <2>1, ByNameIs
  <1>3. d.resolver = [all |-> kept, deps |-> known] /\ d.refs = Refs(Unused(pkgs, deps))
    BY DEF DetectParsed, FreshResolver, Remember
  <1> HIDE DEF all
  <1>4. DOMAIN kept = names /\ \A n \in names : kept[n].name = n
    BY <1>1, <1>2
  <1> HIDE DEF kept
  <1>5. DOMAIN known = DOMAIN deps /\ \A q \in DOMAIN deps : known[q] = Children(deps[q], kept)
    BY <1>1
  <1> HIDE DEF known, d
  <1>6. leads = PairsOf(deps)
    <2>1. \A n \in DOMAIN deps : Resolve(d.resolver, [name |-> n]) = Refs(Children(deps[n], kept))
      BY <1>3, <1>5 DEF Resolve
    <2>2. \A n \in DOMAIN deps : \A m : (\E r \in ToSet(Resolve(d.resolver, [name |-> n])) : r.name = m) <=> m \in ToSet(deps[n])
      <3> SUFFICES ASSUME NEW n \in DOMAIN deps
                   PROVE  \A m : (\E r \in ToSet(Refs(Children(deps[n], kept))) : r.name = m) <=> m \in ToSet(deps[n])
        BY <2>1
      <3>1. deps[n] \in Seq(names)
        BY DEF IsTree
      <3> HIDE DEF names
      <3>2. \A m : (\E r \in ToSet(Refs(Children(deps[n], kept))) : r.name = m) <=> m \in Range(deps[n])
        BY <1>4, <3>1, ChildrenAre
      <3> QED
        BY <3>2 DEF Range, ToSet
    <2>3. \A p : p \in leads <=> \E n \in DOMAIN deps : \E r \in ToSet(Resolve(d.resolver, [name |-> n])) : p = <<n, r.name>>
      <3>1. d.resolver.deps = known
        BY <1>3
      <3>2. places = DOMAIN deps
        BY <1>5, <3>1
      <3> HIDE DEF res, places
      <3>3. \A p : p \in leads <=> \E n \in places : \E r \in res(n) : p = <<n, r.name>>
        OBVIOUS
      <3> QED
        BY <3>2, <3>3 DEF res
    <2>4. \A p : p \in PairsOf(deps) <=> \E n \in DOMAIN deps : \E m \in ToSet(deps[n]) : p = <<n, m>>
      BY DEF PairsOf
    <2> HIDE DEF leads
    <2>5. \A p : p \in leads <=> p \in PairsOf(deps)
      <3>1. ASSUME NEW p, p \in leads
            PROVE  p \in PairsOf(deps)
        <4>1. PICK n \in DOMAIN deps : \E r \in ToSet(Resolve(d.resolver, [name |-> n])) : p = <<n, r.name>>
          BY <2>3, <3>1
        <4>2. PICK r \in ToSet(Resolve(d.resolver, [name |-> n])) : p = <<n, r.name>>
          BY <4>1
        <4>3. r.name \in ToSet(deps[n])
          BY <2>2, <4>2
        <4> QED
          BY <2>4, <4>2, <4>3
      <3>2. ASSUME NEW p, p \in PairsOf(deps)
            PROVE  p \in leads
        <4>3. PICK n \in DOMAIN deps : \E m \in ToSet(deps[n]) : p = <<n, m>>
          BY <2>4, <3>2
        <4>1. PICK m \in ToSet(deps[n]) : p = <<n, m>>
          BY <4>3
        <4>2. PICK r \in ToSet(Resolve(d.resolver, [name |-> n])) : r.name = m
          BY <2>2, <4>1
        <4> QED
          BY <2>3, <4>1, <4>2
      <3> QED
        BY <3>1, <3>2
    <2> QED
      BY <2>5
  <1>7. start = names \ UsedIn(deps)
    BY <1>3, UnusedAre
  <1>8. Reached(d) = Grown(leads, start)
    BY DEF Reached
  <1> HIDE DEF leads, start
  <1>9. IsFiniteSet(start) /\ IsFiniteSet({p[2] : p \in leads})
    <2>1. \A p \in PairsOf(deps) : p[2] \in names
      BY DEF PairsOf, ToSet, IsTree
    <2>2. {p[2] : p \in leads} \subseteq names /\ start \subseteq names
      BY <1>6, <1>7, <2>1
    <2> QED
      BY <1>2, <2>2, FS_Subset
  <1> QED
    BY <1>6, <1>7, <1>8, <1>9, GrownIs DEF d

LockEntry == [name : STRING, version : STRING, deps : Seq(STRING)]

LEMMA EntriesAre ==
    ASSUME NEW lock \in ParsedLocks
    PROVE  \A i \in DOMAIN lock : lock[i] \in LockEntry
  <1>1. lock \in Seq(LockEntry)
    BY DEF ParsedLocks, LockEntry
  <1> QED
    BY <1>1

LEMMA ParsedIsLock ==
    ASSUME NEW lock \in ParsedLocks
    PROVE  IsLock(lock)
  <1>1. IsList(lock)
    BY ListIs DEF ParsedLocks
  <1>2. \A i \in DOMAIN lock : lock[i].deps \in Seq(STRING)
    BY EntriesAre DEF LockEntry
  <1> QED
    BY <1>1, <1>2, ListIs DEF IsLock

LEMMA LoweredIsLock ==
    ASSUME NEW lock \in ParsedLocks
    PROVE  /\ IsLock(Lowered(lock)) /\ DOMAIN Lowered(lock) = DOMAIN lock
           /\ \A i \in DOMAIN lock : /\ Lowered(lock)[i].name = Lower(lock[i].name)
                                     /\ Lowered(lock)[i].deps = [k \in DOMAIN lock[i].deps |-> Lower(lock[i].deps[k])]
  <1> DEFINE f == Lowered(lock)
             low(e) == [k \in DOMAIN e.deps |-> Lower(e.deps[k])]
  <1>1. f = [i \in DOMAIN lock |-> [lock[i] EXCEPT !.name = Lower(lock[i].name), !.deps = low(lock[i])]]
    BY DEF Lowered
  <1>2. \A i \in DOMAIN lock : lock[i] \in [name : STRING, version : STRING, deps : Seq(STRING)]
    BY EntriesAre DEF LockEntry
  <1>3. \A i \in DOMAIN lock : IsList(low(lock[i]))
    <2> SUFFICES ASSUME NEW i \in DOMAIN lock
                 PROVE  IsList(low(lock[i]))
      OBVIOUS
    <2>1. lock[i].deps \in Seq(STRING)
      BY <1>2
    <2>2. low(lock[i]) = [k \in DOMAIN lock[i].deps |-> low(lock[i])[k]]
      OBVIOUS
    <2> HIDE DEF low
    <2> QED
      BY <2>1, <2>2, LikeList
  <1> HIDE DEF low, f
  <1>4. DOMAIN f = DOMAIN lock /\ f = [i \in DOMAIN lock |-> f[i]]
    BY <1>1
  <1>5. \A i \in DOMAIN lock : f[i].name = Lower(lock[i].name) /\ f[i].deps = low(lock[i])
    BY <1>1, <1>2
  <1>6. IsList(f)
    BY <1>4, LikeList DEF ParsedLocks
  <1>7. IsLock(f)
    BY <1>3, <1>4, <1>5, <1>6 DEF IsLock
  <1> QED
    BY <1>4, <1>5, <1>7 DEF f, low

LEMMA StrippedIsLock ==
    ASSUME NEW lock \in ParsedLocks
    PROVE  IsLock(WithoutPlatform(lock))
  <1> DEFINE f == WithoutPlatform(lock)
             few(e) == Where(e.deps, LAMBDA d : d \notin Platform)
  <1>1. f = [i \in DOMAIN lock |-> [lock[i] EXCEPT !.deps = few(lock[i])]]
    BY DEF WithoutPlatform
  <1>2. \A i \in DOMAIN lock : lock[i] \in [name : STRING, version : STRING, deps : Seq(STRING)]
    BY EntriesAre DEF LockEntry
  <1>3. \A i \in DOMAIN lock : IsList(few(lock[i]))
    <2> SUFFICES ASSUME NEW i \in DOMAIN lock
                 PROVE  IsList(few(lock[i]))
      OBVIOUS
    <2> DEFINE deps == lock[i].deps
               places == {k \in DOMAIN deps : deps[k] \notin Platform}
    <2>1. few(lock[i]) = Picked(deps, places)
      BY DEF Where
    <2>2. deps \in Seq(STRING)
      BY <1>2
    <2> HIDE DEF few, deps, places
    <2>3. Picked(deps, places) \in Seq(STRING)
      BY <2>2, PickedIs
    <2> QED
      BY <2>1, <2>3, ListIs
  <1> HIDE DEF few, f
  <1>4. DOMAIN f = DOMAIN lock /\ f = [i \in DOMAIN lock |-> f[i]]
    BY <1>1
  <1>5. \A i \in DOMAIN lock : f[i].deps = few(lock[i])
    BY <1>1, <1>2
  <1>6. IsList(f)
    BY <1>4, LikeList DEF ParsedLocks
  <1>7. IsLock(f)
    BY <1>3, <1>4, <1>5, <1>6 DEF IsLock
  <1> QED
    BY <1>7 DEF f

LEMMA PythonFromLock ==
    ASSUME NEW lock
    PROVE  FromLock(ParsePythonLock(lock), Lowered(lock))
  BY DEF FromLock, ParsePythonLock, Package

LEMMA PythonRead ==
    ASSUME NEW dir, Directory(dir), ParsePython(dir) # Fails, LockEntriesOf("python", dir) # <<>>
    PROVE  \E lock \in ParsedLocks : /\ LockEntriesOf("python", dir) = Lowered(lock) /\ ParsePython(dir) = ParsePythonLock(lock)
                                     /\ "uv.lock" \notin DOMAIN dir => lock = dir["poetry.lock"] /\ dir["poetry.lock"] # Malformed
  <1>1. \A f \in {"uv.lock", "poetry.lock"} : f \in DOMAIN dir /\ dir[f] # Malformed => dir[f] \in ParsedLocks
    BY DEF Directory, Content
  <1>2. CASE "uv.lock" \in DOMAIN dir
    <2>1. ParsePython(dir) = IF dir["uv.lock"] = Malformed THEN Fails ELSE ParsePythonLock(dir["uv.lock"])
      BY <1>2, Zenon DEF ParsePython
    <2>2. LockEntriesOf("python", dir) = Lowered(dir["uv.lock"])
      BY <1>2 DEF LockEntriesOf
    <2>3. dir["uv.lock"] # Malformed
      BY <2>1
    <2>4. dir["uv.lock"] \in ParsedLocks
      BY <1>1, <1>2, <2>3
    <2> QED
      BY <1>2, <2>1, <2>2, <2>3, <2>4
  <1>3. CASE "uv.lock" \notin DOMAIN dir
    <2>1. "poetry.lock" \in DOMAIN dir /\ LockEntriesOf("python", dir) = Lowered(dir["poetry.lock"])
      BY <1>3 DEF LockEntriesOf, LockFor
    <2>2. ParsePython(dir) = IF dir["poetry.lock"] = Malformed THEN Fails ELSE ParsePythonLock(dir["poetry.lock"])
      BY <1>3, <2>1 DEF ParsePython
    <2>3. dir["poetry.lock"] # Malformed
      BY <2>2
    <2>4. dir["poetry.lock"] \in ParsedLocks
      BY <1>1, <2>1, <2>3
    <2> QED
      BY <2>1, <2>2, <2>3, <2>4
  <1> QED
    BY <1>2, <1>3

\* The names of packages made one by one from a set of declarations, or of
\* names, and of two lists of packages together.
LEMMA NamesMade ==
    ASSUME NEW S, IsFiniteSet(S), NEW pkgs, DOMAIN pkgs = DOMAIN SetToSeq(S)
    PROVE  /\ (\A i \in DOMAIN pkgs : pkgs[i].name = SetToSeq(S)[i].name) => NamesOf(pkgs) = {d.name : d \in S}
           /\ (\A i \in DOMAIN pkgs : pkgs[i].name = SetToSeq(S)[i]) => NamesOf(pkgs) = S
           /\ SetToSeq(S) = <<>> <=> S = {}
  <1> DEFINE s == SetToSeq(S)
  <1>1. /\ \A x \in S : \E i \in DOMAIN s : s[i] = x
        /\ s \in Seq(S)
    BY Enumerated, EnumeratedOnly
  <1> HIDE DEF s
  <1>2. \A i \in DOMAIN s : s[i] \in S
    BY <1>1
  <1>3. s = <<>> <=> S = {}
    <2>1. DOMAIN s = 1..Len(s) /\ Len(s) \in Nat /\ (s = <<>> <=> Len(s) = 0)
      BY <1>1
    <2> QED
      BY <1>1, <1>2, <2>1
  <1>4. DOMAIN pkgs = DOMAIN s
    BY DEF s
  <1>5. ASSUME \A i \in DOMAIN pkgs : pkgs[i].name = s[i].name
        PROVE  NamesOf(pkgs) = {d.name : d \in S}
    <2>1. \A n : n \in NamesOf(pkgs) <=> \E i \in DOMAIN s : s[i].name = n
      BY <1>4, <1>5 DEF NamesOf
    <2>2. \A n : n \in {d.name : d \in S} <=> \E i \in DOMAIN s : s[i].name = n
      BY <1>1, <1>2
    <2> QED
      BY <2>1, <2>2
  <1>6. ASSUME \A i \in DOMAIN pkgs : pkgs[i].name = s[i]
        PROVE  NamesOf(pkgs) = S
    <2>1. \A n : n \in NamesOf(pkgs) <=> \E i \in DOMAIN s : s[i] = n
      BY <1>4, <1>6 DEF NamesOf
    <2> QED
      BY <1>1, <1>2, <2>1
  <1> QED
    BY <1>3, <1>5, <1>6 DEF s

LEMMA NamesJoined ==
    ASSUME NEW a, NEW b, IsList(a), IsList(b)
    PROVE  NamesOf(a \o b) = NamesOf(a) \union NamesOf(b)
  <1>1. \A i \in DOMAIN (a \o b) : (\E k \in DOMAIN a : (a \o b)[i] = a[k]) \/ (\E k \in DOMAIN b : (a \o b)[i] = b[k])
    BY DEF IsList
  <1>2. \A k \in DOMAIN a : k \in DOMAIN (a \o b) /\ (a \o b)[k] = a[k]
    BY DEF IsList
  <1>3. \A k \in DOMAIN b : Len(a) + k \in DOMAIN (a \o b) /\ (a \o b)[Len(a) + k] = b[k]
    BY DEF IsList
  <1> DEFINE c == a \o b
  <1> HIDE DEF c
  <1>4. ASSUME NEW n \in NamesOf(c)
        PROVE  n \in NamesOf(a) \union NamesOf(b)
    <2>1. PICK i \in DOMAIN c : n = c[i].name
      BY <1>4 DEF NamesOf
    <2> QED
      BY <1>1, <2>1 DEF NamesOf, c
  <1>5. ASSUME NEW n \in NamesOf(a)
        PROVE  n \in NamesOf(c)
    <2>1. PICK k \in DOMAIN a : n = a[k].name
      BY <1>5 DEF NamesOf
    <2>2. k \in DOMAIN c /\ c[k] = a[k]
      BY <1>2, <2>1 DEF c
    <2> QED
      BY <2>1, <2>2 DEF NamesOf
  <1>6. ASSUME NEW n \in NamesOf(b)
        PROVE  n \in NamesOf(c)
    <2>1. PICK k \in DOMAIN b : n = b[k].name
      BY <1>6 DEF NamesOf
    <2>2. PICK i \in DOMAIN c : c[i] = b[k]
      BY <1>3, <2>1 DEF c
    <2> QED
      BY <2>1, <2>2 DEF NamesOf
  <1> QED
    BY <1>4, <1>5, <1>6 DEF c

LEMMA RustRead ==
    ASSUME NEW dir, Directory(dir), ParseRust(dir) # Fails, LockEntriesOf("rust", dir) # <<>>
    PROVE  /\ NamesOf(ParseRust(dir)) = PackagesOf("rust", dir["Cargo.lock"], dir)
           /\ dir["Cargo.lock"] \in ParsedLocks /\ dir["Cargo.lock"] # Malformed /\ LockEntriesOf("rust", dir) = dir["Cargo.lock"]
           /\ FromLock(ParseRust(dir), dir["Cargo.lock"])
  <1> DEFINE toml == dir["Cargo.toml"]
             lock == dir["Cargo.lock"]
             resolved == CargoResolved(lock, {toml.root} \union toml.members)
             version(n) == IF n \in DOMAIN resolved THEN resolved[n] ELSE ""
             declared == SetToSeq(toml.deps)
             locked   == SetToSeq(DOMAIN resolved)
             pkg(n, c, type) == Package("rust", n, version(n), c, type, Depth(ParentsIn(lock, n)), ParentsIn(lock, n))
             some == [i \in DOMAIN declared |->
                         pkg(declared[i].name, declared[i].constraint, CargoConstraintType(declared[i].constraint))]
             every == [i \in DOMAIN locked |-> pkg(locked[i], Bare(resolved[locked[i]]), "exact")]
  <1>1. "Cargo.lock" \in DOMAIN dir /\ LockEntriesOf("rust", dir) = lock
    BY DEF LockEntriesOf, LockFor
  <1>2. "Cargo.toml" \in DOMAIN dir /\ toml # Malformed /\ lock # Malformed
    BY <1>1, Zenon DEF ParseRust
  <1>3. lock \in ParsedLocks
    BY <1>1, <1>2 DEF Directory, Content
  <1>4. \A n, c, type : pkg(n, c, type).name = n /\ pkg(n, c, type).parents = ParentsIn(lock, n)
                        /\ pkg(n, c, type).depth = Depth(ParentsIn(lock, n))
    BY DEF Package
  <1>5. ParseRust(dir) = IF declared # <<>> THEN some ELSE every
    BY <1>1, <1>2, Zenon DEF ParseRust
  <1>8. Declared(toml.deps)
    BY <1>2 DEF Directory, Content
  <1>9. DOMAIN resolved = NamesOf(lock) \ ({toml.root} \union toml.members) /\ IsFiniteSet(DOMAIN resolved)
    <2>1. IsFiniteSet(NamesOf(lock))
      <3> HIDE DEF lock
      <3> QED
        BY <1>3, ByNameIs DEF ParsedLocks
    <2>2. DOMAIN resolved = NamesOf(lock) \ ({toml.root} \union toml.members)
      BY DEF CargoResolved, NamesOf
    <2> HIDE DEF resolved, lock
    <2> QED
      BY <2>1, <2>2, FS_Subset
  <1> HIDE DEF pkg, resolved, toml, lock
  <1>10. /\ NamesOf(some) = {d.name : d \in toml.deps} /\ (declared = <<>> <=> toml.deps = {})
         /\ NamesOf(every) = DOMAIN resolved
    <2>1. IsFiniteSet(toml.deps)
      BY <1>8 DEF Declared
    <2>2. /\ DOMAIN some = DOMAIN declared /\ \A i \in DOMAIN some : some[i].name = declared[i].name
          /\ DOMAIN every = DOMAIN locked /\ \A i \in DOMAIN every : every[i].name = locked[i]
      BY <1>4
    <2> HIDE DEF some, every
    <2> QED
      BY <1>9, <2>1, <2>2, NamesMade
  <1> HIDE DEF declared, locked
  <1>6. FromLock(some, lock) /\ FromLock(every, lock)
    BY <1>4 DEF FromLock
  <1> HIDE DEF some, every
  <1>7. FromLock(ParseRust(dir), lock)
    BY <1>5, <1>6
  <1>11. NamesOf(ParseRust(dir)) = IF toml.deps # {} THEN {d.name : d \in toml.deps}
                                   ELSE NamesOf(lock) \ ({toml.root} \union toml.members)
    BY <1>5, <1>9, <1>10
  <1>12. PackagesOf("rust", lock, dir) = IF toml.deps # {} THEN {d.name : d \in toml.deps}
                                         ELSE NamesOf(lock) \ ({toml.root} \union toml.members)
    BY DEF PackagesOf, NamesOf, toml
  <1> QED
    BY <1>1, <1>2, <1>3, <1>7, <1>11, <1>12 DEF lock

LEMMA PHPRead ==
    ASSUME NEW dir, Directory(dir), ParsePHP(dir) # Fails, LockEntriesOf("php", dir) # <<>>
    PROVE  LET lock == dir["composer.lock"].packages \o dir["composer.lock"].dev IN
           /\ lock \in ParsedLocks /\ LockEntriesOf("php", dir) = WithoutPlatform(lock) /\ dir["composer.lock"] # Malformed
           /\ FromLock(ParsePHP(dir), WithoutPlatform(lock))
           /\ NamesOf(ParsePHP(dir)) = PackagesOf("php", WithoutPlatform(lock), dir)
  <1> DEFINE json     == dir["composer.json"]
             lockfile == dir["composer.lock"]
             entries  == lockfile.packages \o lockfile.dev
             lock     == WithoutPlatform(entries)
             resolved == CargoResolved(lock, {})
             declared == {d \in Merged(json.require, json.dev) : d.name \notin Platform}
             direct   == SetToSeq(declared)
             others   == SetToSeq(DOMAIN resolved \ {d.name : d \in declared})
             version(n) == IF n \in DOMAIN resolved THEN resolved[n] ELSE ""
             pkg(n, c, type) == Package("php", n, version(n), c, type, Depth(ParentsIn(lock, n)), ParentsIn(lock, n))
             a == [i \in DOMAIN direct |-> pkg(direct[i].name, direct[i].constraint, PHPConstraintType(direct[i].constraint))]
             b == [i \in DOMAIN others |-> pkg(others[i], Bare(version(others[i])), "exact")]
  <1>1. "composer.lock" \in DOMAIN dir /\ LockEntriesOf("php", dir) = lock
    BY DEF LockEntriesOf, LockFor
  <1>2. "composer.json" \in DOMAIN dir /\ json # Malformed /\ lockfile # Malformed
    BY <1>1, Zenon DEF ParsePHP
  <1>3. entries \in ParsedLocks
    <2>1. lockfile.packages \in ParsedLocks /\ lockfile.dev \in ParsedLocks
      BY <1>1, <1>2 DEF Directory, Content
    <2> HIDE DEF lockfile
    <2> QED
      BY <2>1 DEF ParsedLocks
  <1>4. \A n, c, type : pkg(n, c, type).name = n /\ pkg(n, c, type).parents = ParentsIn(lock, n)
                        /\ pkg(n, c, type).depth = Depth(ParentsIn(lock, n))
    BY DEF Package
  <1>5. ParsePHP(dir) = a \o b
    BY <1>1, <1>2, Zenon DEF ParsePHP
  <1>6. IsList(a) /\ IsList(b)
    <2>1. declared \subseteq Merged(json.require, json.dev) /\ Declared(Merged(json.require, json.dev))
      BY <1>2, MergedDeclared DEF Directory, Content
    <2>2. IsFiniteSet(DOMAIN resolved)
      <3>1. IsList(lock)
        BY <1>3, StrippedIsLock DEF IsLock
      <3> HIDE DEF lock
      <3> QED
        BY <3>1, ResolvedIsFinite DEF IsList
    <2> HIDE DEF declared, resolved
    <2>3. direct \in Seq(declared)
      BY <2>1, DeclaredAreListed
    <2> DEFINE rest == DOMAIN resolved \ {d.name : d \in declared}
    <2>4. rest \subseteq DOMAIN resolved
      OBVIOUS
    <2> HIDE DEF rest
    <2>5. SetToSeq(rest) \in Seq(rest)
      BY <2>2, <2>4, FS_Subset, EnumeratedOnly
    <2>6. others \in Seq(rest)
      BY <2>5 DEF rest
    <2>7. a = [i \in DOMAIN direct |-> a[i]] /\ b = [i \in DOMAIN others |-> b[i]]
      OBVIOUS
    <2> HIDE DEF a, b, direct, others
    <2> QED
      BY <2>3, <2>6, <2>7, LikeList
  <1>9. NamesOf(a) \union NamesOf(b) = PackagesOf("php", lock, dir)
    <2> DEFINE all == json.require \union json.dev
               merged == Merged(json.require, json.dev)
               rest == DOMAIN resolved \ {d.name : d \in declared}
    <2>1. Declared(merged)
      BY <1>2, MergedDeclared DEF Directory, Content
    <2>2. {d.name : d \in merged} = {d.name : d \in all}
      BY DEF Merged
    <2>3. IsFiniteSet(NamesOf(lock))
      <3>1. IsList(lock)
        BY <1>3, StrippedIsLock DEF IsLock
      <3> HIDE DEF lock
      <3> QED
        BY <3>1, ByNameIs DEF IsList
    <2>4. DOMAIN resolved = NamesOf(lock)
      BY DEF CargoResolved, NamesOf
    <2>5. PackagesOf("php", lock, dir) = NamesOf(lock) \union ({d.name : d \in all} \ Platform)
      BY DEF PackagesOf, NamesOf
    <2>6. declared = {d \in merged : d.name \notin Platform}
      OBVIOUS
    <2> HIDE DEF pkg, resolved, declared, lock, version, merged, all
    <2>7. IsFiniteSet(declared) /\ IsFiniteSet(rest)
      BY <2>1, <2>3, <2>4, <2>6, FS_Subset DEF Declared
    <2>8. /\ DOMAIN a = DOMAIN direct /\ \A i \in DOMAIN a : a[i].name = direct[i].name
          /\ DOMAIN b = DOMAIN others /\ \A i \in DOMAIN b : b[i].name = others[i]
      BY <1>4
    <2> HIDE DEF a, b
    <2>9. NamesOf(a) = {d.name : d \in declared} /\ NamesOf(b) = rest
      BY <2>7, <2>8, NamesMade
    <2>10. {d.name : d \in declared} = {d.name : d \in all} \ Platform
      <3>1. {d.name : d \in declared} = {d.name : d \in merged} \ Platform
        BY <2>6
      <3> QED
        BY <2>2, <3>1
    <2> QED
      BY <2>4, <2>5, <2>9, <2>10
  <1> HIDE DEF pkg, resolved, direct, others, declared, lock, version
  <1>7. FromLock(a, lock) /\ FromLock(b, lock)
    <2>1. \A i \in DOMAIN a : a[i].parents = ParentsIn(lock, a[i].name) /\ a[i].depth = Depth(a[i].parents)
      BY <1>4
    <2>2. \A i \in DOMAIN b : b[i].parents = ParentsIn(lock, b[i].name) /\ b[i].depth = Depth(b[i].parents)
      BY <1>4
    <2> HIDE DEF a, b
    <2> QED
      BY <2>1, <2>2 DEF FromLock
  <1> HIDE DEF a, b
  <1>8. FromLock(a \o b, lock)
    <2> SUFFICES ASSUME NEW i \in DOMAIN (a \o b)
                 PROVE  /\ (a \o b)[i].parents = ParentsIn(lock, (a \o b)[i].name)
                        /\ (a \o b)[i].depth = Depth((a \o b)[i].parents)
      BY DEF FromLock
    <2>1. (\E k \in DOMAIN a : (a \o b)[i] = a[k]) \/ (\E k \in DOMAIN b : (a \o b)[i] = b[k])
      BY <1>6 DEF IsList
    <2> QED
      BY <1>7, <2>1 DEF FromLock
  <1>10. NamesOf(a \o b) = PackagesOf("php", lock, dir)
    BY <1>6, <1>9, NamesJoined
  <1> QED
    BY <1>1, <1>2, <1>3, <1>5, <1>8, <1>10 DEF lock

LEMMA NpmRead ==
    ASSUME NEW dir, Directory(dir), ParseJavaScript(dir) # Fails
    PROVE  /\ FromLock(ParseJavaScript(dir), <<>>) /\ IsLock(<<>>)
           /\ NamesOf(ParseJavaScript(dir)) = PackagesOf("npm", <<>>, dir)
  <1> DEFINE json     == dir["package.json"]
             resolved == NPMResolved(dir)
             merged   == Merged(json.dependencies, json.dev)
             declared == SetToSeq(merged)
             version(n) == IF <<n>> \in DOMAIN resolved THEN resolved[<<n>>] ELSE ""
             f == [i \in DOMAIN declared |->
                      Package("npm", declared[i].name, version(declared[i].name), declared[i].constraint,
                              NPMConstraintType(declared[i].constraint), 1, {})]
  <1>1. "package.json" \in DOMAIN dir /\ ParseJavaScript(dir) = f
    BY Zenon DEF ParseJavaScript
  <1>2. json # Malformed
    BY <1>1, Zenon DEF ParseJavaScript
  <1>3. IsFiniteSet(merged)
    BY <1>1, <1>2, MergedDeclared DEF Directory, Content, Declared
  <1>4. {d.name : d \in merged} = {d.name : d \in json.dependencies \union json.dev}
    BY DEF Merged
  <1>5. PackagesOf("npm", <<>>, dir) = {d.name : d \in json.dependencies \union json.dev}
    BY DEF PackagesOf
  <1> HIDE DEF resolved, merged, json, version
  <1>6. DOMAIN f = DOMAIN declared
        /\ \A i \in DOMAIN f : f[i].name = declared[i].name /\ f[i].parents = {} /\ f[i].depth = 1
    BY DEF Package
  <1> HIDE DEF f
  <1>7. NamesOf(f) = {d.name : d \in merged}
    BY <1>3, <1>6, NamesMade
  <1>8. \A n : ParentsIn(<<>>, n) = {}
    BY DEF ParentsIn
  <1>9. FromLock(f, <<>>)
    BY <1>6, <1>8 DEF FromLock, Depth
  <1>10. IsLock(<<>>)
    <2>1. <<>> \in Seq({})
      OBVIOUS
    <2>2. IsList(<<>>)
      BY <2>1, ListIs
    <2>3. DOMAIN <<>> = {}
      OBVIOUS
    <2> QED
      BY <2>2, <2>3, Zenon DEF IsLock
  <1> QED
    BY <1>1, <1>4, <1>5, <1>7, <1>9, <1>10 DEF json

\* A name as a lock file's parser gives it, and what the indexer's edges say by
\* these names.
NormOf(eco, n) == IF eco = "python" THEN Lower(n) ELSE n
LinkPairs(eco, edges) == {<<NormOf(eco, e.parent[2]), NormOf(eco, e.child[2])>> : e \in edges}

LEMMA EdgePairs ==
    ASSUME NEW eco, NEW lock
    PROVE  \A p : p \in LinkPairs(eco, EdgesOf(eco, lock)) <=>
               \E i \in DOMAIN lock : \E d \in ToSet(lock[i].deps) : p = <<NormOf(eco, lock[i].name), NormOf(eco, d)>>
  <1> DEFINE edge(i, d) == [parent |-> <<eco, lock[i].name>>, version |-> lock[i].version, child |-> <<eco, d>>]
             all == EdgesOf(eco, lock)
  <1>1. \A e : e \in all <=> \E i \in DOMAIN lock : \E d \in ToSet(lock[i].deps) : e = edge(i, d)
    BY DEF EdgesOf
  <1>2. \A i, d : edge(i, d).parent[2] = lock[i].name /\ edge(i, d).child[2] = d
    OBVIOUS
  <1> HIDE DEF edge, all
  <1>3. \A p : p \in LinkPairs(eco, all) <=> \E e \in all : p = <<NormOf(eco, e.parent[2]), NormOf(eco, e.child[2])>>
    BY DEF LinkPairs
  <1>4. ASSUME NEW p, p \in LinkPairs(eco, all)
        PROVE  \E i \in DOMAIN lock : \E d \in ToSet(lock[i].deps) : p = <<NormOf(eco, lock[i].name), NormOf(eco, d)>>
    <2>1. PICK e \in all : p = <<NormOf(eco, e.parent[2]), NormOf(eco, e.child[2])>>
      BY <1>3, <1>4
    <2>2. PICK i \in DOMAIN lock : \E d \in ToSet(lock[i].deps) : e = edge(i, d)
      BY <1>1
    <2>3. PICK d \in ToSet(lock[i].deps) : e = edge(i, d)
      BY <2>2
    <2> QED
      BY <1>2, <2>1, <2>3
  <1>5. ASSUME NEW p, NEW i \in DOMAIN lock, NEW d \in ToSet(lock[i].deps), p = <<NormOf(eco, lock[i].name), NormOf(eco, d)>>
        PROVE  p \in LinkPairs(eco, all)
    <2>1. edge(i, d) \in all
      BY <1>1
    <2>2. p = <<NormOf(eco, edge(i, d).parent[2]), NormOf(eco, edge(i, d).child[2])>>
      BY <1>2, <1>5
    <2> QED
      BY <1>3, <2>1, <2>2
  <1> QED
    BY <1>4, <1>5 DEF all

LEMMA PlainEdges ==
    ASSUME NEW eco, eco # "python", NEW lock
    PROVE  LinkPairs(eco, EdgesOf(eco, lock)) = Depends(lock)
  <1>1. \A p : p \in LinkPairs(eco, EdgesOf(eco, lock)) <=>
            \E i \in DOMAIN lock : \E d \in ToSet(lock[i].deps) : p = <<lock[i].name, d>>
    BY EdgePairs DEF NormOf
  <1>2. \A p : p \in Depends(lock) <=> \E i \in DOMAIN lock : \E d \in ToSet(lock[i].deps) : p = <<lock[i].name, d>>
    BY DEF Depends
  <1>3. \A p : p \in LinkPairs(eco, EdgesOf(eco, lock)) <=> p \in Depends(lock)
    BY <1>1, <1>2, Zenon
  <1> DEFINE A == LinkPairs(eco, EdgesOf(eco, lock))
             B == Depends(lock)
  <1> HIDE DEF A, B
  <1>4. A = B
    BY <1>3 DEF A, B
  <1> QED
    BY <1>4 DEF A, B

LEMMA PythonEdges ==
    ASSUME NEW lock \in ParsedLocks
    PROVE  LinkPairs("python", EdgesOf("python", lock)) = Depends(Lowered(lock))
  <1> DEFINE low == Lowered(lock)
             A == LinkPairs("python", EdgesOf("python", lock))
             B == Depends(low)
  <1>1. \A p : p \in A <=> \E i \in DOMAIN lock : \E d \in ToSet(lock[i].deps) : p = <<Lower(lock[i].name), Lower(d)>>
    BY EdgePairs DEF NormOf
  <1>2. \A p : p \in B <=> \E i \in DOMAIN low : \E d \in ToSet(low[i].deps) : p = <<low[i].name, d>>
    <2> HIDE DEF low
    <2> QED
      BY DEF Depends
  <1>3. /\ DOMAIN low = DOMAIN lock
        /\ \A i \in DOMAIN lock : /\ low[i].name = Lower(lock[i].name)
                                  /\ low[i].deps = [k \in DOMAIN lock[i].deps |-> Lower(lock[i].deps[k])]
    BY LoweredIsLock
  <1> HIDE DEF low, A, B
  <1>4. \A i \in DOMAIN lock : \A n : n \in ToSet(low[i].deps) <=> \E d \in ToSet(lock[i].deps) : n = Lower(d)
    <2> SUFFICES ASSUME NEW i \in DOMAIN lock
                 PROVE  \A n : n \in ToSet(low[i].deps) <=> \E d \in ToSet(lock[i].deps) : n = Lower(d)
      OBVIOUS
    <2> DEFINE s == lock[i].deps
               t == low[i].deps
    <2>1. t = [k \in DOMAIN s |-> Lower(s[k])]
      BY <1>3
    <2> HIDE DEF s, t
    <2>2. DOMAIN t = DOMAIN s /\ \A k \in DOMAIN s : t[k] = Lower(s[k])
      BY <2>1
    <2>3. \A n : n \in ToSet(t) <=> \E d \in ToSet(s) : n = Lower(d)
      BY <2>2 DEF ToSet
    <2> QED
      BY <2>3 DEF s, t
  <1>5. \A p : p \in A => p \in B
    <2> SUFFICES ASSUME NEW p \in A
                 PROVE  p \in B
      OBVIOUS
    <2>1. PICK i \in DOMAIN lock : \E d \in ToSet(lock[i].deps) : p = <<Lower(lock[i].name), Lower(d)>>
      BY <1>1
    <2>2. PICK d \in ToSet(lock[i].deps) : p = <<Lower(lock[i].name), Lower(d)>>
      BY <2>1
    <2>3. Lower(d) \in ToSet(low[i].deps) /\ low[i].name = Lower(lock[i].name) /\ i \in DOMAIN low
      BY <1>3, <1>4
    <2> QED
      BY <1>2, <2>2, <2>3
  <1>6. \A p : p \in B => p \in A
    <2> SUFFICES ASSUME NEW p \in B
                 PROVE  p \in A
      OBVIOUS
    <2>1. PICK i \in DOMAIN low : \E d \in ToSet(low[i].deps) : p = <<low[i].name, d>>
      BY <1>2
    <2>2. PICK n \in ToSet(low[i].deps) : p = <<low[i].name, n>>
      BY <2>1
    <2>3. PICK d \in ToSet(lock[i].deps) : n = Lower(d)
      BY <1>3, <1>4
    <2> QED
      BY <1>1, <1>3, <2>2, <2>3
  <1>7. A = B
    BY <1>5, <1>6
  <1> QED
    BY <1>7 DEF A, B, low

\* What the parser of an ecosystem and the indexer make of a lock file.
LEMMA LockRead ==
    ASSUME NEW dir, Directory(dir), NEW eco \in Ecosystems \union {""}, ParseFiles(eco, dir) # Fails,
           LockEntriesOf(eco, dir) # <<>> \/ eco = "npm"
    PROVE  /\ NamesOf(ParseFiles(eco, dir)) = PackagesOf(eco, LockEntriesOf(eco, dir), dir)
           /\ eco \in Ecosystems /\ IsLock(LockEntriesOf(eco, dir)) /\ FromLock(ParseFiles(eco, dir), LockEntriesOf(eco, dir))
           /\ LockFor(eco) \in DOMAIN dir /\ "uv.lock" \notin DOMAIN dir /\ eco # "npm" =>
                  LinkPairs(eco, ExtractDependencyEdges(eco, dir)) = Depends(LockEntriesOf(eco, dir))
  <1>1. CASE eco = "python"
    <2>1. ParseFiles(eco, dir) = ParsePython(dir)
      BY <1>1 DEF ParseFiles
    <2>2. PICK lock \in ParsedLocks : /\ LockEntriesOf(eco, dir) = Lowered(lock) /\ ParsePython(dir) = ParsePythonLock(lock)
                                      /\ "uv.lock" \notin DOMAIN dir => lock = dir["poetry.lock"] /\ dir["poetry.lock"] # Malformed
      BY <1>1, <2>1, PythonRead
    <2>3. LockFor(eco) \in DOMAIN dir /\ "uv.lock" \notin DOMAIN dir => ExtractDependencyEdges(eco, dir) = EdgesOf("python", lock)
      BY <1>1, <2>2 DEF ExtractDependencyEdges, LockFor
    <2>4. IsLock(Lowered(lock)) /\ FromLock(ParsePythonLock(lock), Lowered(lock))
      BY LoweredIsLock, PythonFromLock
    <2>6. NamesOf(ParsePythonLock(lock)) = PackagesOf("python", Lowered(lock), dir)
      <3>1. /\ DOMAIN ParsePythonLock(lock) = DOMAIN lock
            /\ \A i \in DOMAIN lock : ParsePythonLock(lock)[i].name = Lower(lock[i].name)
        BY DEF ParsePythonLock, Package
      <3>2. DOMAIN Lowered(lock) = DOMAIN lock /\ \A i \in DOMAIN lock : Lowered(lock)[i].name = Lower(lock[i].name)
        BY LoweredIsLock
      <3> DEFINE low == Lowered(lock)
                 pkgs == ParsePythonLock(lock)
      <3>3. PackagesOf("python", low, dir) = NamesOf(low)
        BY DEF PackagesOf, NamesOf
      <3> HIDE DEF low, pkgs
      <3>4. NamesOf(pkgs) = NamesOf(low)
        BY <3>1, <3>2 DEF NamesOf, low, pkgs
      <3> QED
        BY <3>3, <3>4 DEF low, pkgs
    <2>5. LinkPairs("python", EdgesOf("python", lock)) = Depends(Lowered(lock))
      BY PythonEdges
    <2> QED
      BY <1>1, <2>1, <2>2, <2>3, <2>4, <2>5, <2>6 DEF Ecosystems
  <1>2. CASE eco = "rust"
    <2> DEFINE lock == dir["Cargo.lock"]
    <2>1. ParseFiles(eco, dir) = ParseRust(dir)
      BY <1>2 DEF ParseFiles
    <2>2. lock \in ParsedLocks /\ lock # Malformed /\ LockEntriesOf(eco, dir) = lock /\ FromLock(ParseRust(dir), lock)
          /\ NamesOf(ParseRust(dir)) = PackagesOf(eco, lock, dir)
      BY <1>2, <2>1, RustRead
    <2>3. LockFor(eco) \in DOMAIN dir => ExtractDependencyEdges(eco, dir) = EdgesOf(eco, lock)
      BY <1>2, <2>2 DEF ExtractDependencyEdges, LockFor
    <2> HIDE DEF lock
    <2>4. LinkPairs(eco, EdgesOf(eco, lock)) = Depends(lock) /\ IsLock(lock)
      BY <1>2, <2>2, PlainEdges, ParsedIsLock
    <2> QED
      BY <1>2, <2>1, <2>2, <2>3, <2>4 DEF Ecosystems
  <1>3. CASE eco = "php"
    <2> DEFINE entries == dir["composer.lock"].packages \o dir["composer.lock"].dev
               lock == WithoutPlatform(entries)
    <2>1. ParseFiles(eco, dir) = ParsePHP(dir)
      BY <1>3 DEF ParseFiles
    <2>2. /\ entries \in ParsedLocks /\ dir["composer.lock"] # Malformed /\ LockEntriesOf(eco, dir) = lock
          /\ FromLock(ParsePHP(dir), lock) /\ NamesOf(ParsePHP(dir)) = PackagesOf(eco, lock, dir)
      BY <1>3, <2>1, PHPRead
    <2>3. LockFor(eco) \in DOMAIN dir => ExtractDependencyEdges(eco, dir) = EdgesOf(eco, lock)
      BY <1>3, <2>2 DEF ExtractDependencyEdges, LockFor
    <2> HIDE DEF entries
    <2>4. IsLock(lock)
      BY <2>2, StrippedIsLock
    <2> HIDE DEF lock
    <2>5. LinkPairs(eco, EdgesOf(eco, lock)) = Depends(lock)
      BY <1>3, PlainEdges
    <2> QED
      BY <1>3, <2>1, <2>2, <2>3, <2>4, <2>5 DEF Ecosystems
  <1>4. CASE eco \in {"go", ""}
    <2>1. LockEntriesOf(eco, dir) = <<>>
      BY <1>4 DEF LockEntriesOf, LockFor, Directory
    <2> QED
      BY <1>4, <2>1
  <1>5. CASE eco = "npm"
    <2>1. LockEntriesOf(eco, dir) = <<>>
      BY <1>5 DEF LockEntriesOf
    <2>2. ParseFiles(eco, dir) = ParseJavaScript(dir)
      BY <1>5 DEF ParseFiles
    <2> QED
      BY <1>5, <2>1, <2>2, NpmRead DEF Ecosystems
  <1> QED
    BY <1>1, <1>2, <1>3, <1>4, <1>5 DEF Ecosystems

\* Pairs that lead into names lead from these to no others.
LEMMA DownstreamWithin ==
    ASSUME NEW names, NEW pairs, LeadInto(pairs, names), NEW ids \in SUBSET names
    PROVE  Downstream(pairs, ids) = Downstream({p \in pairs : p[1] \in names}, ids)
  <1> DEFINE few == {p \in pairs : p[1] \in names}
             D == Downstream(few, ids)
  <1>1. \A p \in few : p \in pairs /\ p[1] \in names /\ p[2] \in names
    BY DEF LeadInto
  <1>2. \A p \in pairs : p[1] \in names => p \in few
    OBVIOUS
  <1> HIDE DEF few
  <1>3. /\ ids \subseteq D /\ D \subseteq ids \union {p[2] : p \in few} /\ IsClosed(few, D)
        /\ \A s : ids \subseteq s /\ IsClosed(few, s) => D \subseteq s
    BY DownstreamIs
  <1> HIDE DEF D
  <1>4. D \subseteq names
    BY <1>1, <1>3
  <1>5. IsClosed(pairs, D)
    BY <1>2, <1>3, <1>4 DEF IsClosed
  <1>6. ASSUME NEW s, ids \subseteq s, IsClosed(pairs, s)
        PROVE  D \subseteq s
    BY <1>1, <1>3, <1>6 DEF IsClosed
  <1>7. D = Downstream(pairs, ids)
    BY <1>3, <1>5, <1>6, DownstreamIsLeast
  <1> QED
    BY <1>7 DEF D, few

\* What TreeFollowsLock says of an answer.
ReadsExactly(eco, lock, dir, packages, deps, edges, reached) ==
    LET names   == PackagesOf(eco, lock, dir)
        depends == UNION {{<<lock[i].name, d>> : d \in ToSet(lock[i].deps)} : i \in DOMAIN lock}
        listed  == {p \in depends : p[2] \in names}
        used    == {p[2] : p \in listed}
        norm(n) == IF eco = "python" THEN Lower(n) ELSE n
    IN  lock # <<>> \/ eco = "npm" =>
        /\ {packages[i].name : i \in DOMAIN packages} = names
        /\ PairsOf(deps) = listed
        /\ \A q \in DOMAIN deps : IsInjective(deps[q])
        /\ \A i \in DOMAIN packages : packages[i].depth = 1 <=> packages[i].name \notin used
        /\ LockFor(eco) \in DOMAIN dir /\ "uv.lock" \notin DOMAIN dir /\ eco # "npm" =>
               {<<norm(e.parent[2]), norm(e.child[2])>> : e \in edges} = depends
        /\ reached = Downstream({p \in listed : p[1] \in names}, names \ used)

LEMMA LockReadExactly ==
    ASSUME NEW dir, Directory(dir), NEW eco, eco = DetectEcosystem(DOMAIN dir), ParseFiles(eco, dir) # Fails
    PROVE  ReadsExactly(eco, LockEntriesOf(eco, dir), dir, ParseFiles(eco, dir), BuildDepsMap(ParseFiles(eco, dir)),
                        ExtractDependencyEdges(eco, dir), Reached(Detect(FreshResolver, dir)))
  <1> DEFINE lock == LockEntriesOf(eco, dir)
             pkgs == ParseFiles(eco, dir)
             deps == BuildDepsMap(pkgs)
             names == PackagesOf(eco, lock, dir)
             depends == Depends(lock)
             listed == ListedOf(lock, names)
             used == {p[2] : p \in listed}
             edges == ExtractDependencyEdges(eco, dir)
             pairs == LinkPairs(eco, edges)
             reached == Reached(Detect(FreshResolver, dir))
  <1>1. CASE lock = <<>> /\ eco # "npm"
    BY <1>1 DEF ReadsExactly
  <1>2. CASE lock # <<>> \/ eco = "npm"
    <2>1. /\ eco \in Ecosystems /\ IsLock(lock) /\ FromLock(pkgs, lock) /\ NamesOf(pkgs) = names
          /\ LockFor(eco) \in DOMAIN dir /\ "uv.lock" \notin DOMAIN dir /\ eco # "npm" => pairs = depends
      BY <1>2, DetectedIs, LockRead
    <2>2. reached = Reached(DetectParsed(FreshResolver, pkgs, deps))
      BY <2>1 DEF Detect, DetectIn, Ecosystems
    <2>3. IsList(pkgs)
      BY <2>1, FilesParsed DEF ListOrFails
    <2> HIDE DEF lock, pkgs, edges, reached, names
    <2>4. PairsOf(deps) = listed /\ \A q \in DOMAIN deps : IsInjective(deps[q])
      BY <2>1, <2>3, TreeIsListed DEF IsList
    <2>5. IsTree(deps, NamesOf(pkgs))
      BY <2>3, TreeIs DEF IsList
    <2> HIDE DEF deps
    <2>6. UsedIn(deps) = used
      <3>1. \A n : n \in UsedIn(deps) <=> \E p \in PairsOf(deps) : n = p[2]
        <4>1. \A n : n \in UsedIn(deps) <=> \E q \in DOMAIN deps : n \in ToSet(deps[q])
          BY DEF UsedIn
        <4>2. \A p : p \in PairsOf(deps) <=> \E q \in DOMAIN deps : \E m \in ToSet(deps[q]) : p = <<q, m>>
          BY DEF PairsOf
        <4>3. ASSUME NEW n \in UsedIn(deps)
              PROVE  \E p \in PairsOf(deps) : n = p[2]
          <5>1. PICK q \in DOMAIN deps : n \in ToSet(deps[q])
            BY <4>1, <4>3
          <5>2. <<q, n>> \in PairsOf(deps)
            BY <4>2, <5>1
          <5> QED
            BY <5>2
        <4>4. ASSUME NEW p \in PairsOf(deps)
              PROVE  p[2] \in UsedIn(deps)
          <5>1. PICK q \in DOMAIN deps : \E m \in ToSet(deps[q]) : p = <<q, m>>
            BY <4>2, <4>4
          <5> QED
            BY <4>1, <5>1
        <4> QED
          BY <4>3, <4>4
      <3>2. \A n : n \in used <=> \E p \in listed : n = p[2]
        OBVIOUS
      <3> HIDE DEF used, listed
      <3>3. \A n : n \in UsedIn(deps) <=> n \in used
        BY <2>4, <3>1, <3>2
      <3> QED
        BY <3>3
    <2>7. reached = Downstream({p \in listed : p[1] \in names}, names \ used)
      <3>1. reached = Downstream(PairsOf(deps), names \ UsedIn(deps))
        <4>1. pkgs # Fails
          BY DEF pkgs
        <4> QED
          BY <2>1, <2>2, <2>3, <2>5, <4>1, ReachedIs DEF IsList
      <3>2. LeadInto(listed, names)
        BY DEF LeadInto, ListedOf
      <3> DEFINE start == names \ used
      <3>3. start \in SUBSET names
        OBVIOUS
      <3>5. reached = Downstream(listed, start)
        BY <2>4, <2>6, <3>1
      <3> HIDE DEF start, listed, names
      <3>4. Downstream(listed, start) = Downstream({p \in listed : p[1] \in names}, start)
        BY <3>2, <3>3, DownstreamWithin
      <3> QED
        BY <3>4, <3>5 DEF start
    <2>8. \A i \in DOMAIN pkgs : pkgs[i].depth = 1 <=> pkgs[i].name \notin used
      <3> SUFFICES ASSUME NEW i \in DOMAIN pkgs
                   PROVE  pkgs[i].depth = 1 <=> pkgs[i].name \notin used
        OBVIOUS
      <3> DEFINE n == pkgs[i].name
      <3>1. n \in names /\ pkgs[i].parents = ParentsIn(lock, n) /\ pkgs[i].depth = Depth(pkgs[i].parents)
        BY <2>1 DEF FromLock, NamesOf
      <3>2. pkgs[i].depth = 1 <=> ParentsIn(lock, n) = {}
        BY <3>1 DEF Depth
      <3> HIDE DEF n
      <3>3. \A q : q \in ParentsIn(lock, n) <=> <<q, n>> \in listed
        BY <2>1, <3>1, DependsAre DEF ListedOf
      <3>4. \A p \in listed : p = <<p[1], p[2]>>
        BY <2>1, DependsAre DEF ListedOf
      <3> HIDE DEF listed
      <3>5. n \in used <=> \E q : q \in ParentsIn(lock, n)
        <4>1. ASSUME n \in used
              PROVE  \E q : q \in ParentsIn(lock, n)
          <5>1. PICK p \in listed : n = p[2]
            BY <4>1
          <5>2. <<p[1], n>> \in listed
            BY <3>4, <5>1
          <5> QED
            BY <3>3, <5>2
        <4>2. ASSUME NEW q \in ParentsIn(lock, n)
              PROVE  n \in used
          <5>1. <<q, n>> \in listed
            BY <3>3
          <5> QED
            BY <5>1
        <4> QED
          BY <4>1, <4>2
      <3> HIDE DEF used
      <3>6. pkgs[i].depth = 1 <=> n \notin used
        BY <3>2, <3>5
      <3> QED
        BY <3>6 DEF n
    <2> HIDE DEF used
    <2>10. /\ NamesOf(pkgs) = names
           /\ PairsOf(deps) = listed
           /\ \A q \in DOMAIN deps : IsInjective(deps[q])
           /\ \A i \in DOMAIN pkgs : pkgs[i].depth = 1 <=> pkgs[i].name \notin used
           /\ LockFor(eco) \in DOMAIN dir /\ "uv.lock" \notin DOMAIN dir /\ eco # "npm" => pairs = depends
           /\ reached = Downstream({p \in listed : p[1] \in names}, names \ used)
      BY <2>1, <2>4, <2>7, <2>8
    <2> HIDE DEF listed, pairs, depends
    <2>11. ReadsExactly(eco, lock, dir, pkgs, deps, edges, reached)
      BY <2>10, Zenon DEF ReadsExactly, listed, ListedOf, Depends, depends, names, NamesOf, used, pairs, LinkPairs, NormOf
    <2> QED
      BY <2>11, Zenon DEF lock, pkgs, deps, edges, reached
  <1> QED
    BY <1>1, <1>2

\* What becomes of any project with a lock file: of which entries and
\* declarations the packages are, with exactly the dependencies that the lock
\* lists on them, each once; a package is direct exactly if the lock lists no
\* dependency on it; the indexer finds all that the lock lists, uv's and npm's
\* aside; and the crawl, which is handed the packages the lock lists no
\* dependency on, reaches all that follows from these and nothing else.
\* (RustParser.ParseFiles, BuildDepsMap, extractDependencyEdges,
\* PackageResolver.Detect)
THEOREM LockIsFollowed == Spec => []TreeFollowsLock
  <1>1. Answers => TreeFollowsLock
    <2> SUFFICES ASSUME Answers, Answered("lock")
                 PROVE  TreeFollowsLock
      BY DEF TreeFollowsLock
    <2> DEFINE dir == request.dir
               eco == DetectEcosystem(DOMAIN dir)
               pkgs == ParseFiles(eco, dir)
    <2>1. Directory(dir)
      BY RequestsAssumption DEF Answers, Answered, Instances
    <2>2. reply = Reading(dir, eco, pkgs) /\ reply # Fails
      BY Zenon DEF Answers, Answered, LockReading
    <2> HIDE DEF eco, pkgs, dir
    <2>3. pkgs # Fails
      BY <2>2 DEF Reading
    <2>4. /\ reply.packages = pkgs /\ reply.deps = BuildDepsMap(pkgs) /\ reply.reached = Reached(Detect(FreshResolver, dir))
          /\ reply.edges = ExtractDependencyEdges(eco, dir)
      BY <2>2, <2>3 DEF Reading
    <2>5. ReadsExactly(eco, LockEntriesOf(eco, dir), dir, reply.packages, reply.deps, reply.edges, reply.reached)
      <3>1. ReadsExactly(eco, LockEntriesOf(eco, dir), dir, pkgs, BuildDepsMap(pkgs),
                         ExtractDependencyEdges(eco, dir), Reached(Detect(FreshResolver, dir)))
        BY <2>1, <2>3, LockReadExactly DEF eco, pkgs
      <3> QED
        BY <2>4, <3>1
    <2> QED
      BY <2>5, Zenon DEF TreeFollowsLock, ReadsExactly, eco, dir
  <1> QED
    BY <1>1, AnswersHold, PTL
=============================================================================
