---------------------------- MODULE CrawlerProofs ----------------------------
(***************************************************************************)
(* Proofs about Crawler, for every set of references, every repository and *)
(* cache, and every depth limit: types and the shape of the graph; the     *)
(* order of the crawl: that its levels do not mix, that its depth stays    *)
(* below the limit, and that every version is expanded once and at its     *)
(* least depth; what the crawl leaves behind: that a fresh crawl whose     *)
(* resolvers answer is complete, that entries of seen stand, that no       *)
(* version is looked up twice, and that no timeout is blamed on a          *)
(* dependency.                                                             *)
(***************************************************************************)
EXTENDS Crawler, FiniteSetTheorems, TLAPS

-----------------------------------------------------------------------------
(* Facts about the data.                                                   *)

LEMMA IdsInclude ==
    /\ RootId \in Ids
    /\ \A ref \in Refs : NodeOf(ref) \in Ids /\ ErrorId(ref) \in Ids
    /\ \A vk \in VKs : DepId(PackageSource, vk) \in Ids
  BY CrawlerAssumption DEF Ids, NodeOf

\* A dependency's node is never the missing parent nor the missing entry.
LEMMA DepIdIsSomething ==
    ASSUME NEW src, NEW vk
    PROVE  DepId(src, vk) # NoParent
  BY DEF DepId, NoParent

LEMMA CachedDepsType ==
    ASSUME TypeOK, NEW project, NEW vk
    PROVE  CachedDeps(project, vk) \in SUBSET Child
  <1>1. world.rows \in SUBSET (Child \X Child)
    BY DEF TypeOK, World
  <1>2. \A row \in world.rows : row[2] \in Child
    BY <1>1
  <1> QED
    BY <1>2 DEF CachedDeps

LEMMA EnqueueType ==
    ASSUME TypeOK, NEW tree \in Trees \union {NoTree}, NEW deps \in SUBSET Child,
           NEW id \in Ids, Enqueue(tree, deps, id)
    PROVE  queue' \subseteq Item
  BY DEF TypeOK, Enqueue, Item

LEMMA AddEdgeType ==
    ASSUME TypeOK, NEW from \in Ids, NEW to \in Ids, AddEdge(from, to)
    PROVE  edges' \subseteq Edge
  <1>1. item.depth + 1 \in Nat \ {0}
    BY DEF TypeOK, Item
  <1> QED
    BY <1>1 DEF TypeOK, AddEdge, Edge

LEMMA FromType ==
    ASSUME TypeOK
    PROVE  From \in Ids
  BY IdsInclude DEF TypeOK, Item, From, ParentOf

LEMMA AddNodeType ==
    ASSUME TypeOK, NEW id \in Ids, NEW project \in Projects \union {NoProject},
           AddNode(id, project)
    PROVE  nodes' \subseteq Ids /\ owner' \in [Ids -> Projects \union {NoProject}]
  BY DEF TypeOK, AddNode

-----------------------------------------------------------------------------
(* Type correctness.                                                       *)

LEMMA ProcessType ==
    ASSUME TypeOK, NEW ref \in Refs, Process(ref)
    PROVE  TypeOK'
  <1> USE DEF graph
  <1>1. /\ NodeOf(ref) \in Ids /\ ErrorId(ref) \in Ids /\ From \in Ids
        /\ VKOf[ref] \in VKs /\ ProjectOf[ref] \in Projects
        /\ SourceOf[ref] \in Sources
        /\ Version(ref) \in Child
    BY IdsInclude, FromType, CrawlerAssumption DEF Version, Child
  <1>2. /\ world' \in World /\ ctxDone' \in BOOLEAN /\ pc' = pc
        /\ level' \subseteq Item /\ item' \in Item /\ toDetect' \subseteq Sources
        /\ refs' \subseteq Refs /\ toProcess' \subseteq Refs
        /\ results' \in [Refs -> {"none", "dep", "nil", "error", "aborted"}]
        /\ children' \subseteq Child /\ maxDepthHit' \in Nat
    BY DEF Process, HandleResult, TypeOK
  <1>3. CASE ProcessError(ref)
    <2>1. errors' \subseteq CrawlError
      BY <1>1, <1>3 DEF ProcessError, TypeOK, CrawlError, Item
    <2>2. nodes' \subseteq Ids /\ owner' \in [Ids -> Projects \union {NoProject}]
      BY <1>1, <1>3, AddNodeType DEF ProcessError
    <2>3. edges' \subseteq Edge
      BY <1>1, <1>3, AddEdgeType DEF ProcessError
    <2> QED
      BY <1>2, <1>3, <2>1, <2>2, <2>3 DEF ProcessError, TypeOK
  <1>4. CASE ProcessNil(ref)
    BY <1>2, <1>4 DEF ProcessNil, TypeOK
  <1>5. CASE ProcessSeen(ref)
    <2>1. seen[VKOf[ref]] \in Ids
      BY <1>1, <1>5 DEF ProcessSeen, TypeOK
    <2>2. edges' \subseteq Edge
      BY <1>1, <1>5, <2>1, AddEdgeType DEF ProcessSeen
    <2> QED
      BY <1>2, <1>5, <2>2 DEF ProcessSeen, TypeOK
  <1>6. CASE ProcessNew(ref)
    <2>1. nodes' \subseteq Ids /\ owner' \in [Ids -> Projects \union {NoProject}]
      BY <1>1, <1>6, AddNodeType DEF ProcessNew
    <2>2. edges' \subseteq Edge
      BY <1>1, <1>6, AddEdgeType DEF ProcessNew
    <2>3. seen' \in [VKs -> Ids \union {Unseen}] /\ errors' \subseteq CrawlError
      BY <1>1, <1>6 DEF ProcessNew, TypeOK
    <2>4. /\ queue' \subseteq Item /\ hits' \in Nat /\ misses' \in Nat
          /\ versions' \in [Child -> {"absent", "bare", "enriched"}]
      <3>1. CASE AtMaxDepth
        BY <3>1 DEF AtMaxDepth, TypeOK
      <3>2. CASE CacheHit(ref)
        <4>1. queue' \subseteq Item
          BY <1>1, <3>2, CachedDepsType, EnqueueType DEF CacheHit
        <4> QED
          BY <3>2, <4>1 DEF CacheHit, TypeOK
      <3>3. CASE CacheMiss(ref)
        <4>1. queue' \subseteq Item
          BY <1>1, <3>3, EnqueueType DEF CacheMiss, TypeOK, Trees
        <4>2. misses' \in Nat /\ hits' \in Nat
          BY <3>3 DEF CacheMiss, TypeOK
        <4>3. versions' \in [Child -> {"absent", "bare", "enriched"}]
          BY <1>1, <3>3 DEF CacheMiss, TypeOK
        <4> QED
          BY <4>1, <4>2, <4>3
      <3> QED
        BY <1>6, <3>1, <3>2, <3>3 DEF ProcessNew
    <2> QED
      BY <1>2, <2>1, <2>2, <2>3, <2>4 DEF TypeOK
  <1> QED
    BY <1>3, <1>4, <1>5, <1>6 DEF Process, HandleResult

LEMMA ProcessCachedType ==
    ASSUME TypeOK, pc = "cached" => item.parent # NoParent,
           NEW child \in Child, ProcessCached(child)
    PROVE  TypeOK'
  <1>1. /\ DepId(PackageSource, child[2]) \in Ids
        /\ child[1] \in Projects /\ child[2] \in VKs
    BY IdsInclude DEF Child
  <1>2. item.parent \in Ids
    BY DEF ProcessCached, TypeOK, Item
  <1>3. edges' \subseteq Edge
    BY <1>1, <1>2, AddEdgeType DEF ProcessCached
  <1>4. nodes' \subseteq Ids /\ owner' \in [Ids -> Projects \union {NoProject}]
    BY <1>1, AddNodeType DEF ProcessCached
  <1>5. queue' \subseteq Item
    BY <1>1, CachedDepsType, EnqueueType DEF ProcessCached, SeeCached, TypeOK
  <1>6. seen' \in [VKs -> Ids \union {Unseen}]
    BY <1>1 DEF ProcessCached, SeeCached, TypeOK
  <1> QED
    BY <1>3, <1>4, <1>5, <1>6 DEF ProcessCached, TypeOK, stats

\* Every other action changes only the control and the locals of an item.
LEMMA ControlType ==
    ASSUME TypeOK,
           \/ Cancel \/ CutOff \/ Finish \/ BeginLevel \/ EndLevel \/ TakeItem
           \/ \E src \in Sources : Detect(src)
           \/ DetectDone
           \/ \E ref \in Refs : Resolve(ref)
           \/ ResolveDone \/ ProcessDone \/ CachedDone
           \/ UNCHANGED vars
    PROVE  TypeOK' /\ UNCHANGED <<graph, seen>>
  <1> USE DEF TypeOK, loop, phase, graph, stats
  <1>1. CASE Cancel
    BY <1>1 DEF Cancel
  <1>2. CASE CutOff \/ Finish \/ EndLevel \/ CachedDone
    BY <1>2 DEF CutOff, Finish, EndLevel, CachedDone
  <1>3. CASE BeginLevel
    BY <1>3 DEF BeginLevel, Item
  <1>4. CASE TakeItem
    BY <1>4 DEF TakeItem, Item
  <1>5. ASSUME NEW src \in Sources, Detect(src)
        PROVE  TypeOK' /\ UNCHANGED <<graph, seen>>
    <2>1. Found(src) \subseteq Refs
      BY DEF Found
    <2>2. errors' \subseteq CrawlError
      BY <1>5 DEF Detect, CrawlError, Item
    <2> QED
      BY <1>5, <2>1, <2>2 DEF Detect
  <1>6. CASE DetectDone \/ ResolveDone
    BY <1>6 DEF DetectDone, ResolveDone
  <1>7. ASSUME NEW ref \in Refs, Resolve(ref)
        PROVE  TypeOK' /\ UNCHANGED <<graph, seen>>
    BY <1>7, CrawlerAssumption DEF Resolve
  <1>8. CASE ProcessDone
    BY <1>8 DEF ProcessDone, NoResults
  <1>9. CASE UNCHANGED vars
    BY <1>9 DEF vars
  <1> QED
    BY <1>1, <1>2, <1>3, <1>4, <1>5, <1>6, <1>7, <1>8, <1>9

-----------------------------------------------------------------------------
(* The graph: what the items, the table of seen versions and the edges     *)
(* owe to each other.                                                      *)

\* Adding nodes and edges never unhooks an item.
LEMMA HookedGrows ==
    ASSUME NEW it, Hooked(it), nodes \subseteq nodes', edges \subseteq edges'
    PROVE  Hooked(it)'
  BY DEF Hooked, Graph!FoundAt, ParentOf

\* One new edge below the item at hand, to a node that is in the graph
\* afterwards: the graph stays closed and anchored, and an item queued below
\* the new edge is hooked.
LEMMA OneMoreEdge ==
    ASSUME TypeOK, Closed, Anchored, NEW from \in Ids, NEW to \in Ids,
           from \in nodes, Graph!FoundAt(from, item.depth), AddEdge(from, to),
           nodes' = nodes \union {to}
    PROVE  /\ Closed' /\ Anchored'
           /\ edges \subseteq edges'
           /\ \E e \in edges' : e.to = to /\ e.depth = item.depth + 1
  <1> DEFINE e == [from |-> from, to |-> to, depth |-> item.depth + 1]
  <1>1. /\ edges \subseteq edges' /\ e \in edges'
        /\ \A f \in edges' : f \in edges \/ f = e
    BY DEF AddEdge
  <1>2. e.from = from /\ e.to = to /\ e.depth = item.depth + 1
    OBVIOUS
  <1>3. e.depth - 1 = item.depth
    BY DEF TypeOK, Item
  <1> HIDE DEF e
  <1>4. Closed'
    BY <1>1, <1>2 DEF Closed, Graph!Closed
  <1>5. \A id \in nodes' : id = RootId \/ \E f \in edges' : f.to = id
    BY <1>1, <1>2 DEF Anchored, Graph!Anchored
  <1>6. ASSUME NEW f \in edges'
        PROVE  \/ f.from = RootId /\ f.depth - 1 = 0
               \/ \E g \in edges' : g.to = f.from /\ g.depth = f.depth - 1
    <2>1. CASE f \in edges
      BY <1>1, <2>1 DEF Anchored, Graph!Anchored, Graph!FoundAt
    <2>2. CASE f = e
      BY <1>1, <1>2, <1>3, <2>2 DEF Graph!FoundAt
    <2> QED
      BY <1>1, <2>1, <2>2
  <1>7. Anchored'
    BY <1>5, <1>6 DEF Anchored, Graph!Anchored, Graph!FoundAt
  <1> QED
    BY <1>1, <1>2, <1>4, <1>7

\* A step that leaves the graph alone keeps what the items owe it, if the
\* item at hand, when there is one, is the old one or comes from the level.
LEMMA GraphUntouched ==
    ASSUME GraphInv, UNCHANGED <<graph, seen>>,
           queue' \union level' \subseteq queue \union level,
           Busy' => \/ Busy /\ item' = item
                    \/ item' \in level,
           pc' = "cached" => \/ pc = "cached" /\ item' = item
                             \/ item'.deps # {}
    PROVE  GraphInv'
  <1>1. UNCHANGED <<nodes, edges>>
    BY DEF graph
  <1>2. Closed' /\ Anchored'
    BY <1>1 DEF GraphInv, Closed, Graph!Closed, Anchored, Graph!Anchored, Graph!FoundAt
  <1>3. \A vk \in VKs : seen'[vk] # Unseen => seen'[vk] \in nodes'
    BY <1>1 DEF GraphInv
  <1>4. \A it : Hooked(it) => Hooked(it)'
    BY <1>1, HookedGrows
  <1>5. \A it \in Pending' : Hooked(it)'
    BY <1>4 DEF GraphInv, Pending
  <1>6. ASSUME Busy' PROVE \E it : it = item' /\ Hooked(it)'
    BY <1>4, <1>6 DEF GraphInv, Pending
  <1>7. (Busy => Hooked(item))'
    BY <1>6 DEF Hooked, ParentOf, Graph!FoundAt
  <1>8. (pc = "cached" => item.deps # {})'
    BY DEF GraphInv
  <1> QED
    BY <1>2, <1>3, <1>5, <1>7, <1>8 DEF GraphInv

LEMMA ControlGraph ==
    ASSUME GraphInv,
           \/ Cancel \/ CutOff \/ Finish \/ BeginLevel \/ EndLevel \/ TakeItem
           \/ \E src \in Sources : Detect(src)
           \/ DetectDone
           \/ \E ref \in Refs : Resolve(ref)
           \/ ResolveDone \/ ProcessDone \/ CachedDone
           \/ UNCHANGED vars,
           UNCHANGED <<graph, seen>>
    PROVE  GraphInv'
  <1>1. queue' \union level' \subseteq queue \union level
    BY DEF Cancel, CutOff, Finish, BeginLevel, EndLevel, TakeItem, Detect,
           DetectDone, Resolve, ResolveDone, ProcessDone, CachedDone, vars, loop
  <1>2. Busy' => \/ Busy /\ item' = item
                 \/ item' \in level
    BY DEF Cancel, CutOff, Finish, BeginLevel, EndLevel, TakeItem, Detect,
           DetectDone, Resolve, ResolveDone, ProcessDone, CachedDone, vars, loop, Busy
  <1>3. pc' = "cached" => \/ pc = "cached" /\ item' = item
                          \/ item'.deps # {}
    BY DEF Cancel, CutOff, Finish, BeginLevel, EndLevel, TakeItem, Detect,
           DetectDone, Resolve, ResolveDone, ProcessDone, CachedDone, vars, loop
  <1> QED
    BY <1>1, <1>2, <1>3, GraphUntouched

\* The item at hand is expanded from a node that was found at its depth.
LEMMA ItemHooked ==
    ASSUME GraphInv, Busy
    PROVE  From \in nodes /\ Graph!FoundAt(From, item.depth)
  BY DEF GraphInv, Hooked, From

\* The step from GraphInv to GraphInv' for the two actions that add an edge.
LEMMA GraphExtended ==
    ASSUME TypeOK, GraphInv, Busy, pc' = pc, UNCHANGED <<level, item>>,
           NEW to \in Ids, AddEdge(From, to), nodes' = nodes \union {to},
           \A vk \in VKs : seen'[vk] \in {seen[vk], to},
           \A it \in queue' : \/ it \in queue
                              \/ /\ it.parent = to /\ to # NoParent
                                 /\ it.depth = item.depth + 1
    PROVE  GraphInv'
  <1>1. From \in Ids /\ From \in nodes /\ Graph!FoundAt(From, item.depth)
    BY FromType, ItemHooked
  <1>2. /\ Closed' /\ Anchored' /\ edges \subseteq edges'
        /\ \E e \in edges' : e.to = to /\ e.depth = item.depth + 1
    BY <1>1, OneMoreEdge DEF GraphInv
  <1>3. \A it : Hooked(it) => Hooked(it)'
    BY <1>2, HookedGrows
  <1>4. ASSUME NEW it \in Pending' PROVE Hooked(it)'
    <2>1. CASE it \in Pending
      BY <1>3, <2>1 DEF GraphInv
    <2>2. CASE it.parent = to /\ to # NoParent /\ it.depth = item.depth + 1
      BY <1>2, <2>2 DEF Hooked, ParentOf, Graph!FoundAt
    <2> QED
      BY <2>1, <2>2 DEF Pending
  <1>5. \A vk \in VKs : seen'[vk] # Unseen => seen'[vk] \in nodes'
    BY DEF GraphInv
  <1>6. (Busy => Hooked(item))'
    <2>1. \E it : it = item' /\ Hooked(it)'
      BY <1>3 DEF GraphInv
    <2> QED
      BY <2>1 DEF Hooked, ParentOf, Graph!FoundAt
  <1>7. (pc = "cached" => item.deps # {})'
    BY DEF GraphInv
  <1> QED
    BY <1>2, <1>4, <1>5, <1>6, <1>7 DEF GraphInv

\* Such a step is an Attach of the abstract graph.
LEMMA AttachStep ==
    ASSUME GraphInv, Busy, NEW to \in Ids, AddEdge(From, to),
           nodes' = nodes \union {to}
    PROVE  Graph!GraphNext
  <1>1. From \in nodes /\ Graph!FoundAt(From, item.depth)
    BY ItemHooked
  <1>2. item.depth \in Graph!Depths
    BY <1>1 DEF Graph!FoundAt, Graph!Depths
  <1>3. Graph!Attach(From, to, item.depth)
    BY <1>1 DEF Graph!Attach, AddEdge
  <1> QED
    BY <1>1, <1>2, <1>3 DEF Graph!GraphNext

LEMMA ProcessGraph ==
    ASSUME TypeOK, GraphInv, NEW ref \in Refs, Process(ref)
    PROVE  GraphInv' /\ [Graph!GraphNext]_(Graph!graph)
  <1>1. /\ Busy /\ pc' = pc /\ UNCHANGED <<level, item>>
        /\ NodeOf(ref) \in Ids /\ ErrorId(ref) \in Ids
        /\ VKOf[ref] \in VKs /\ From \in Ids
    BY IdsInclude, FromType, CrawlerAssumption DEF Process, HandleResult, Busy
  <1>2. CASE ProcessError(ref)
    <2>1. /\ AddEdge(From, ErrorId(ref)) /\ nodes' = nodes \union {ErrorId(ref)}
          /\ queue' = queue /\ seen' = seen
      BY <1>2 DEF ProcessError, AddNode
    <2>2. \A vk \in VKs : seen'[vk] \in {seen[vk], ErrorId(ref)}
      BY <2>1
    <2> QED
      BY <1>1, <2>1, <2>2, GraphExtended, AttachStep
  <1>3. CASE ProcessNil(ref)
    <2>1. UNCHANGED <<graph, seen>> /\ queue' \union level' \subseteq queue \union level
      BY <1>1, <1>3 DEF ProcessNil
    <2>2. pc' = "process"
      BY DEF Process, HandleResult
    <2>3. GraphInv'
      BY <1>1, <2>1, <2>2, GraphUntouched
    <2> QED
      BY <2>1, <2>3 DEF graph, Graph!graph
  <1>4. CASE ProcessSeen(ref)
    <2>1. /\ seen[VKOf[ref]] \in Ids /\ seen[VKOf[ref]] \in nodes
          /\ AddEdge(From, seen[VKOf[ref]])
          /\ nodes' = nodes \union {seen[VKOf[ref]]}
          /\ queue' = queue /\ seen' = seen
      BY <1>1, <1>4 DEF ProcessSeen, TypeOK, GraphInv
    <2>2. \A vk \in VKs : seen'[vk] \in {seen[vk], seen[VKOf[ref]]}
      BY <2>1
    <2> QED
      BY <1>1, <2>1, <2>2, GraphExtended, AttachStep
  <1>5. CASE ProcessNew(ref)
    <2>1. /\ AddEdge(From, NodeOf(ref)) /\ nodes' = nodes \union {NodeOf(ref)}
          /\ \A vk \in VKs : seen'[vk] \in {seen[vk], NodeOf(ref)}
      BY <1>1, <1>5 DEF ProcessNew, AddNode, TypeOK
    <2>2. NodeOf(ref) # NoParent
      BY DepIdIsSomething DEF NodeOf
    <2>3. ASSUME NEW it \in queue'
          PROVE  \/ it \in queue
                 \/ /\ it.parent = NodeOf(ref) /\ NodeOf(ref) # NoParent
                    /\ it.depth = item.depth + 1
      BY <1>5, <2>2, <2>3 DEF ProcessNew, AtMaxDepth, CacheHit, CacheMiss, Enqueue
    <2> QED
      BY <1>1, <2>1, <2>3, GraphExtended, AttachStep
  <1> QED
    BY <1>2, <1>3, <1>4, <1>5 DEF Process, HandleResult

LEMMA ProcessCachedGraph ==
    ASSUME TypeOK, GraphInv, NEW child \in Child, ProcessCached(child)
    PROVE  GraphInv' /\ [Graph!GraphNext]_(Graph!graph)
  <1> DEFINE id == DepId(PackageSource, child[2])
  <1>1. /\ Busy /\ pc' = pc /\ UNCHANGED <<level, item>>
        /\ id \in Ids /\ id # NoParent /\ child[2] \in VKs
    BY IdsInclude, DepIdIsSomething DEF ProcessCached, Busy, Child
  <1>2. item.parent = From
    BY <1>1 DEF ProcessCached, GraphInv, Hooked, From, ParentOf
  <1>3. /\ AddEdge(From, id) /\ nodes' = nodes \union {id}
        /\ \A vk \in VKs : seen'[vk] \in {seen[vk], id}
    BY <1>1, <1>2 DEF ProcessCached, SeeCached, AddNode, TypeOK
  <1>4. ASSUME NEW it \in queue'
        PROVE  \/ it \in queue
               \/ /\ it.parent = id /\ id # NoParent
                  /\ it.depth = item.depth + 1
    BY <1>1, <1>4 DEF ProcessCached, Enqueue
  <1> HIDE DEF id
  <1> QED
    BY <1>1, <1>3, <1>4, GraphExtended, AttachStep

-----------------------------------------------------------------------------
(* The theorems.                                                           *)

\* The inductive invariant: types alone are not inductive, because a cached
\* item hangs its children from item.parent, which GraphInv says is there.
Inv == TypeOK /\ GraphInv

LEMMA InvInit == Init => Inv
  <1> SUFFICES ASSUME Init PROVE Inv
    OBVIOUS
  <1>1. TypeOK
    <2>1. RootItem \in Item
      BY DEF RootItem, Item, Trees
    <2>2. world \in World /\ versions \in [Child -> {"absent", "bare", "enriched"}]
      BY CrawlerAssumption DEF Init, World
    <2> QED
      BY <2>1, <2>2, IdsInclude DEF Init, TypeOK, NoResults
  <1>2. Closed /\ Anchored
    BY DEF Init, Closed, Graph!Closed, Anchored, Graph!Anchored
  <1>3. \A it \in Pending : Hooked(it)
    BY DEF Init, Pending, Hooked, RootItem, ParentOf, Graph!FoundAt
  <1> QED
    BY <1>1, <1>2, <1>3 DEF Inv, GraphInv, Init, Busy

LEMMA InvNext ==
    Inv /\ [Next]_vars => Inv' /\ [Graph!GraphNext]_(Graph!graph)
  <1> SUFFICES ASSUME Inv, [Next]_vars
               PROVE  Inv' /\ [Graph!GraphNext]_(Graph!graph)
    OBVIOUS
  <1>1. TypeOK /\ GraphInv
    BY DEF Inv
  <1>2. ASSUME NEW ref \in Refs, Process(ref)
        PROVE  Inv' /\ [Graph!GraphNext]_(Graph!graph)
    BY <1>1, <1>2, ProcessType, ProcessGraph DEF Inv
  <1>3. ASSUME NEW child \in Child, ProcessCached(child)
        PROVE  Inv' /\ [Graph!GraphNext]_(Graph!graph)
    <2>1. pc = "cached" => item.parent # NoParent
      BY <1>1 DEF GraphInv, Hooked, Busy
    <2> QED
      BY <1>1, <1>3, <2>1, ProcessCachedType, ProcessCachedGraph DEF Inv
  <1>4. CASE \/ Cancel \/ CutOff \/ Finish \/ BeginLevel \/ EndLevel \/ TakeItem
             \/ \E src \in Sources : Detect(src)
             \/ DetectDone
             \/ \E ref \in Refs : Resolve(ref)
             \/ ResolveDone \/ ProcessDone \/ CachedDone
             \/ UNCHANGED vars
    <2>1. TypeOK' /\ UNCHANGED <<graph, seen>>
      BY <1>1, <1>4, ControlType
    <2>2. GraphInv'
      BY <1>1, <1>4, <2>1, ControlGraph
    <2> QED
      BY <2>1, <2>2 DEF Inv, graph, Graph!graph
  <1> QED
    BY <1>2, <1>3, <1>4 DEF Next, Step, Terminated

\* The crawl's state is well typed whatever it meets.
THEOREM TypeCorrect == Spec => []TypeOK
  <1>1. Inv => TypeOK
    BY DEF Inv
  <1> QED
    BY InvInit, InvNext, <1>1, PTL DEF Spec

\* Crawl never returns a dangling edge, and every node it returns hangs from
\* the scanned project: addDepNode, addErrorNode and processCachedDeps, with
\* dedup, failures, cache hits and a cancellation anywhere, keep it so.
THEOREM GraphSound == Spec => [](Closed /\ Anchored)
  <1>1. Inv => Closed /\ Anchored
    BY DEF Inv, GraphInv
  <1> QED
    BY InvInit, InvNext, <1>1, PTL DEF Spec

\* The crawl implements the abstract graph: it starts as the root alone, and
\* every step of Crawl attaches a node to the graph or leaves it alone.
THEOREM Refinement == Spec => GraphGrows
  <1>1. Init => Graph!GraphInit
    BY DEF Init, Graph!GraphInit
  <1> QED
    BY InvInit, InvNext, <1>1, PTL DEF Spec, GraphGrows, Graph!GraphSpec

-----------------------------------------------------------------------------
(* Node identifiers of different kinds differ in length, and those of      *)
(* dependencies tell their version keys apart.                             *)

LEMMA DepIdIsNotRoot ==
    ASSUME NEW src, NEW vk
    PROVE  DepId(src, vk) # RootId
  BY DEF DepId, RootId

LEMMA DepIdIsNotError ==
    ASSUME NEW src, NEW vk, NEW ref
    PROVE  DepId(src, vk) # ErrorId(ref)
  BY DEF DepId, ErrorId

LEMMA DepIdInjective ==
    ASSUME NEW s, NEW vk, NEW t, NEW wk, DepId(s, vk) = DepId(t, wk)
    PROVE  vk = wk
  <1>1. DepId(s, vk)[2] = vk /\ DepId(t, wk)[2] = wk
    BY DEF DepId
  <1> QED
    BY <1>1

LEMMA NoParentIsNoId == NoParent \notin Ids
  BY DEF NoParent, Ids, RootId, DepId, ErrorId

-----------------------------------------------------------------------------
(* What Process and ProcessCached do to the graph and to the queue: at     *)
(* most one edge below the item at hand, and at most one item, one level   *)
(* deeper, below a node that was not in the graph.                         *)
Expansion(to) ==
    /\ Busy /\ pc' = pc /\ UNCHANGED <<level, item>>
    /\ edges' \subseteq edges \union
                 {[from |-> From, to |-> to, depth |-> item.depth + 1]}
    /\ queue \subseteq queue'
    /\ \A a \in queue' : a \in queue \/
          /\ a.parent = to /\ a.depth = item.depth + 1 /\ ~AtLimit
          /\ to \notin nodes /\ to # RootId
    /\ \A a, b \in queue' : a \in queue \/ b \in queue \/ a = b

LEMMA EnqueueOne ==
    ASSUME NEW tree, NEW deps, NEW id, Enqueue(tree, deps, id)
    PROVE  /\ queue \subseteq queue'
           /\ \A a \in queue' : a \in queue \/
                 (a.parent = id /\ a.depth = item.depth + 1)
           /\ \A a, b \in queue' : a \in queue \/ b \in queue \/ a = b
  BY DEF Enqueue

LEMMA ProcessExpands ==
    ASSUME TypeOK, ExpandInv, NEW ref \in Refs, Process(ref)
    PROVE  \E to \in Ids : Expansion(to)
  <1>1. /\ Busy /\ pc' = pc /\ UNCHANGED <<level, item>>
        /\ NodeOf(ref) \in Ids /\ ErrorId(ref) \in Ids /\ VKOf[ref] \in VKs
    BY IdsInclude, CrawlerAssumption DEF Process, HandleResult, Busy
  <1>2. CASE ProcessError(ref)
    BY <1>1, <1>2 DEF ProcessError, AddEdge, Expansion
  <1>3. CASE ProcessNil(ref)
    BY <1>1, <1>3 DEF ProcessNil, graph, Expansion
  <1>4. CASE ProcessSeen(ref)
    <2>1. seen[VKOf[ref]] \in Ids
      BY <1>1, <1>4 DEF ProcessSeen, TypeOK
    <2> QED
      BY <1>1, <1>4, <2>1 DEF ProcessSeen, AddEdge, Expansion
  <1>5. CASE ProcessNew(ref)
    <2>1. NodeOf(ref) \notin nodes /\ NodeOf(ref) # RootId
      BY <1>1, <1>5, CrawlerAssumption, DepIdIsNotRoot DEF ProcessNew, ExpandInv, NodeOf
    <2>2. /\ queue \subseteq queue'
          /\ \A a \in queue' : a \in queue \/
                (a.parent = NodeOf(ref) /\ a.depth = item.depth + 1 /\ ~AtLimit)
          /\ \A a, b \in queue' : a \in queue \/ b \in queue \/ a = b
      <3>1. CASE AtMaxDepth
        BY <3>1 DEF AtMaxDepth, AtLimit
      <3>2. CASE CacheHit(ref)
        BY <3>2, EnqueueOne DEF CacheHit
      <3>3. CASE CacheMiss(ref)
        <4>1. Enqueue(ref, {}, NodeOf(ref)) \/ UNCHANGED queue
          BY <3>3 DEF CacheMiss
        <4>2. ~AtLimit
          BY <3>3 DEF CacheMiss
        <4> QED
          BY <4>1, <4>2, EnqueueOne
      <3> QED
        BY <1>5, <3>1, <3>2, <3>3 DEF ProcessNew
    <2> QED
      BY <1>1, <1>5, <2>1, <2>2 DEF ProcessNew, AddEdge, Expansion
  <1> QED
    BY <1>2, <1>3, <1>4, <1>5 DEF Process, HandleResult

LEMMA ProcessCachedExpands ==
    ASSUME TypeOK, GraphInv, ExpandInv, NEW child \in Child, ProcessCached(child)
    PROVE  \E to \in Ids : Expansion(to)
  <1> DEFINE id == DepId(PackageSource, child[2])
  <1>1. /\ Busy /\ pc' = pc /\ UNCHANGED <<level, item>>
        /\ id \in Ids /\ id # RootId /\ child[2] \in VKs
    BY IdsInclude, DepIdIsNotRoot DEF ProcessCached, Busy, Child
  <1>2. item.parent = From
    BY <1>1 DEF ProcessCached, GraphInv, Hooked, From, ParentOf
  <1>3. AddEdge(From, id)
    BY <1>2 DEF ProcessCached
  <1>4. seen[child[2]] = Unseen => id \notin nodes
    BY <1>1 DEF ExpandInv
  <1>5. /\ queue \subseteq queue'
        /\ \A a \in queue' : a \in queue \/
              /\ a.parent = id /\ a.depth = item.depth + 1 /\ ~AtLimit
              /\ id \notin nodes
        /\ \A a, b \in queue' : a \in queue \/ b \in queue \/ a = b
    BY <1>4, EnqueueOne DEF ProcessCached
  <1> HIDE DEF id
  <1> QED
    BY <1>1, <1>3, <1>5 DEF AddEdge, Expansion

-----------------------------------------------------------------------------
(* Levels and depth.                                                       *)

LEMMA ExpansionDepth ==
    ASSUME TypeOK, DepthInv, NEW to \in Ids, Expansion(to)
    PROVE  DepthInv'
  <1>1. item.depth \in Nat /\ MaxDepth \in Nat /\ item.depth < MaxDepth
    BY CrawlerAssumption DEF TypeOK, Item, Expansion, DepthInv
  <1>2. /\ \A a \in level : a.depth = item.depth
        /\ \A a \in queue' : a.depth = item.depth + 1
        /\ \A a \in queue' : a \in queue \/ a.depth < MaxDepth
    BY <1>1 DEF DepthInv, LevelByLevel, Expansion, AtLimit
  <1>3. \A e \in edges' : e.depth <= MaxDepth
    BY <1>1 DEF DepthInv, DepthBound, Expansion
  <1>4. LevelByLevel'
    BY <1>2 DEF LevelByLevel, Expansion, Busy
  <1>5. DepthBound'
    BY <1>2, <1>3 DEF DepthInv, DepthBound, Expansion, Pending
  <1> QED
    BY <1>1, <1>4, <1>5 DEF DepthInv, Expansion

Control ==
    \/ Cancel \/ CutOff \/ Finish \/ BeginLevel \/ EndLevel \/ TakeItem
    \/ \E src \in Sources : Detect(src)
    \/ DetectDone
    \/ \E ref \in Refs : Resolve(ref)
    \/ ResolveDone \/ ProcessDone \/ CachedDone
    \/ UNCHANGED vars

\* An item is taken from a level, a level from the queue, or the two and the
\* item at hand stay.
Loop ==
    \/ /\ UNCHANGED <<queue, level, item>>
       /\ Busy' => Busy
       /\ pc' = "level" => pc = "level" \/ level = {}
       /\ pc = "level" => pc' = "level" \/ ~Busy'
    \/ BeginLevel
    \/ TakeItem

LEMMA ControlLoop ==
    ASSUME Control
    PROVE  Loop
  BY DEF Control, Loop, Cancel, CutOff, Finish, EndLevel, Detect, DetectDone,
         Resolve, ResolveDone, ProcessDone, CachedDone, vars, loop, Busy

LEMMA LoopDepth ==
    ASSUME TypeOK, DepthInv, Loop, UNCHANGED edges
    PROVE  DepthInv'
  <1> USE DEF DepthInv, LevelByLevel, DepthBound, Pending, Busy
  <1>1. CASE UNCHANGED <<queue, level, item>> /\ ~BeginLevel /\ ~TakeItem
    BY <1>1 DEF Loop
  <1>2. CASE BeginLevel
    BY <1>2 DEF BeginLevel
  <1>3. CASE TakeItem
    BY <1>3 DEF TakeItem
  <1> QED
    BY <1>1, <1>2, <1>3 DEF Loop

-----------------------------------------------------------------------------
(* Once and shallowest first.                                              *)

\* The nodes an expansion adds belong to versions with an entry in seen.
SeenNodes ==
    \A vk \in VKs : seen[vk] = Unseen =>
       \A s \in Sources \union {PackageSource} : DepId(s, vk) \notin nodes

LEMMA ProcessSeenNodes ==
    ASSUME TypeOK, GraphInv, SeenNodes, NEW ref \in Refs, Process(ref)
    PROVE  SeenNodes'
  <1>1. VKOf[ref] \in VKs /\ SourceOf[ref] \in Sources
    BY CrawlerAssumption
  <1>2. CASE ProcessError(ref)
    BY <1>2, DepIdIsNotError DEF ProcessError, AddNode, SeenNodes
  <1>3. CASE ProcessNil(ref) \/ ProcessSeen(ref)
    BY <1>3 DEF ProcessNil, ProcessSeen, graph, SeenNodes
  <1>4. CASE ProcessNew(ref)
    <2> SUFFICES ASSUME NEW vk \in VKs, seen'[vk] = Unseen,
                        NEW s \in Sources \union {PackageSource}
                 PROVE  DepId(s, vk) \notin nodes'
      BY DEF SeenNodes
    <2>1. NodeOf(ref) # Unseen
      BY DepIdIsSomething DEF NodeOf, Unseen, NoParent
    <2>2. vk # VKOf[ref] /\ seen[vk] = Unseen
      BY <1>1, <1>4, <2>1 DEF ProcessNew, TypeOK
    <2>3. DepId(s, vk) # NodeOf(ref)
      BY <2>2, DepIdInjective DEF NodeOf
    <2> QED
      BY <1>4, <2>2, <2>3 DEF ProcessNew, AddNode, SeenNodes
  <1> QED
    BY <1>2, <1>3, <1>4 DEF Process, HandleResult

LEMMA ProcessCachedSeenNodes ==
    ASSUME TypeOK, SeenNodes, NEW child \in Child, ProcessCached(child)
    PROVE  SeenNodes'
  <1> DEFINE id == DepId(PackageSource, child[2])
  <1>1. child[2] \in VKs
    BY DEF Child
  <1> SUFFICES ASSUME NEW vk \in VKs, seen'[vk] = Unseen,
                      NEW s \in Sources \union {PackageSource}
               PROVE  DepId(s, vk) \notin nodes'
    BY DEF SeenNodes
  <1>2. id # Unseen
    BY DepIdIsSomething DEF Unseen, NoParent
  <1>3. vk # child[2] /\ seen[vk] = Unseen
    BY <1>1, <1>2 DEF ProcessCached, SeeCached, TypeOK
  <1>4. DepId(s, vk) # id
    BY <1>3, DepIdInjective
  <1> QED
    BY <1>3, <1>4 DEF ProcessCached, AddNode, SeenNodes

LEMMA ExpansionOnce ==
    ASSUME TypeOK, GraphInv, DepthInv, ExpandInv, SeenNodes',
           NEW to \in Ids, Expansion(to)
    PROVE  ExpandInv'
  <1>1. /\ item.depth \in Nat /\ From \in nodes
        /\ \A e \in edges : e.from \in nodes /\ e.to \in nodes
    BY ItemHooked DEF TypeOK, Item, Expansion, GraphInv, Closed, Graph!Closed
  <1>2. \A it \in Pending : it.parent = NoParent \/ it.parent \in nodes
    BY DEF GraphInv, Hooked, ParentOf
  <1>3. to # NoParent /\ From # NoParent
    BY NoParentIsNoId, FromType
  <1>4. ASSUME NEW a \in Pending'
        PROVE  \/ a \in Pending
               \/ /\ a \in queue' /\ a \notin queue /\ a.parent = to
                  /\ a.depth = item.depth + 1 /\ to \notin nodes /\ to # RootId
    BY DEF Expansion, Pending
  <1>5. ASSUME NEW a \in Pending', NEW b \in Pending', a.parent = b.parent
        PROVE  a = b
    <2>1. CASE a \in Pending /\ b \in Pending
      BY <1>5, <2>1 DEF ExpandInv, ExpandOnce
    <2>2. CASE a \notin Pending /\ b \notin Pending
      BY <1>4, <2>2 DEF Expansion
    <2>3. CASE (a \in Pending) # (b \in Pending)
      BY <1>2, <1>3, <1>4, <1>5, <2>3
    <2> QED
      BY <2>1, <2>2, <2>3
  <1>6. \A it \in Pending' : it.parent # item.parent
    <2>1. item.parent = NoParent \/ item.parent \in nodes
      BY DEF GraphInv, Hooked, ParentOf, Expansion
    <2>2. \A it \in Pending : it.parent # item.parent
      BY DEF ExpandInv, ExpandOnce, Expansion
    <2> QED
      BY <1>3, <1>4, <2>1, <2>2
  <1>7. \A it \in Pending' : it.parent # RootId
    BY <1>4 DEF ExpandInv
  <1>8. \A it \in Pending' : it.parent # From
    BY <1>6, <1>7 DEF From, ParentOf
  <1>9. ASSUME NEW it \in Pending', NEW e \in edges'
        PROVE  e.from # it.parent /\ (e.to = it.parent => e.depth >= it.depth)
    <2>1. CASE e \in edges /\ it \in Pending
      BY <2>1 DEF ExpandInv, ExpandOnce, ShallowestFirst
    <2>2. CASE e \in edges /\ it \notin Pending
      BY <1>1, <1>4, <2>2
    <2>3. CASE e \notin edges
      <3>1. e.from = From /\ e.depth = item.depth + 1
        BY <2>3 DEF Expansion
      <3>2. it.depth = item.depth \/ it.depth = item.depth + 1
        BY <1>4 DEF DepthInv, LevelByLevel, Expansion, Pending
      <3> QED
        BY <1>1, <1>8, <3>1, <3>2
    <2> QED
      BY <2>1, <2>2, <2>3
  <1>10. ExpandOnce'
    BY <1>5, <1>6, <1>9 DEF ExpandOnce, Expansion
  <1>11. ShallowestFirst'
    BY <1>9 DEF ShallowestFirst
  <1> QED
    BY <1>7, <1>10, <1>11 DEF ExpandInv, SeenNodes

LEMMA LoopOnce ==
    ASSUME TypeOK, DepthInv, ExpandInv, Loop, UNCHANGED <<nodes, edges, seen>>
    PROVE  ExpandInv'
  <1>1. Pending' \subseteq Pending
    BY DEF Loop, BeginLevel, TakeItem, Pending
  <1>2. Busy' => \A it \in Pending' : it.parent # item'.parent
    <2>1. CASE BeginLevel
      BY <2>1 DEF BeginLevel, Busy
    <2>2. CASE TakeItem
      <3>1. item' \in Pending /\ item' \in level /\ level' = level \ {item'} /\ queue' = queue
        BY <2>2 DEF TakeItem, Pending
      <3>2. item' \notin queue
        <4>1. pc # "level" /\ item'.depth \in Nat
          BY <2>2, <3>1 DEF TakeItem, TypeOK, Item
        <4>2. \A b \in queue : b.depth = item'.depth + 1
          BY <2>2, <3>1, <4>1 DEF DepthInv, LevelByLevel
        <4> QED
          BY <4>1, <4>2
      <3>3. item' \notin Pending'
        BY <3>1, <3>2 DEF Pending
      <3> QED
        BY <1>1, <3>1, <3>3 DEF ExpandInv, ExpandOnce
    <2>3. CASE UNCHANGED <<queue, level, item>> /\ (Busy' => Busy)
      BY <1>1, <2>3 DEF ExpandInv, ExpandOnce
    <2> QED
      BY <2>1, <2>2, <2>3 DEF Loop
  <1>3. ExpandOnce'
    BY <1>1, <1>2 DEF ExpandInv, ExpandOnce
  <1>4. ShallowestFirst'
    BY <1>1 DEF ExpandInv, ShallowestFirst
  <1> QED
    BY <1>1, <1>3, <1>4 DEF ExpandInv

-----------------------------------------------------------------------------
(* The theorems.                                                           *)

OrderInv == Inv /\ DepthInv /\ ExpandInv

LEMMA OrderInit == Init => OrderInv
  <1> SUFFICES ASSUME Init PROVE OrderInv
    OBVIOUS
  <1>1. Pending = {RootItem}
    BY DEF Init, Pending
  <1>2. RootItem.depth = 0 /\ RootItem.parent = NoParent
    BY DEF RootItem
  <1>3. pc = "level" /\ ~Busy /\ queue = {RootItem} /\ level = {} /\ edges = {}
    BY DEF Init, Busy
  <1>4. DepthInv
    BY <1>1, <1>2, <1>3, CrawlerAssumption DEF DepthInv, LevelByLevel, DepthBound
  <1>5. ExpandOnce /\ ShallowestFirst
    BY <1>1, <1>3 DEF ExpandOnce, ShallowestFirst
  <1>6. RootItem.parent # RootId
    BY <1>2 DEF RootId, NoParent
  <1>7. ExpandInv
    BY <1>1, <1>5, <1>6, DepIdIsNotRoot DEF ExpandInv, Init
  <1> QED
    BY <1>4, <1>7, InvInit DEF OrderInv

LEMMA OrderNext == OrderInv /\ [Next]_vars => OrderInv'
  <1> SUFFICES ASSUME OrderInv, [Next]_vars PROVE OrderInv'
    OBVIOUS
  <1>1. TypeOK /\ GraphInv /\ DepthInv /\ ExpandInv /\ SeenNodes /\ Inv'
    BY InvNext DEF OrderInv, Inv, ExpandInv, SeenNodes
  <1>2. ASSUME NEW ref \in Refs, Process(ref)
        PROVE  DepthInv' /\ ExpandInv'
    BY <1>1, <1>2, ProcessExpands, ProcessSeenNodes, ExpansionDepth, ExpansionOnce
  <1>3. ASSUME NEW child \in Child, ProcessCached(child)
        PROVE  DepthInv' /\ ExpandInv'
    BY <1>1, <1>3, ProcessCachedExpands, ProcessCachedSeenNodes, ExpansionDepth, ExpansionOnce
  <1>4. ASSUME Control
        PROVE  DepthInv' /\ ExpandInv'
    <2>1. UNCHANGED <<nodes, edges, seen>>
      BY <1>1, <1>4, ControlType DEF Control, graph
    <2> QED
      BY <1>1, <1>4, <2>1, ControlLoop, LoopDepth, LoopOnce
  <1> QED
    BY <1>1, <1>2, <1>3, <1>4 DEF Next, Step, Terminated, Control, OrderInv

\* The level loop of Crawl never mixes depths, and with the guard at MaxDepth
\* no edge is deeper than the limit, whatever resolves, fails or is cached.
THEOREM LevelsAndDepth == Spec => []InDepthOrder
  <1>1. OrderInv => InDepthOrder
    BY DEF OrderInv, DepthInv, InDepthOrder
  <1> QED
    BY OrderInit, OrderNext, <1>1, PTL DEF Spec

\* The seen table of Crawl and processCachedDeps makes every version wait for
\* its expansion at most once, however many paths lead to it.
THEOREM ExpandedOnce == Spec => []ExpandOnce
  <1>1. OrderInv => ExpandOnce
    BY DEF OrderInv, ExpandInv
  <1> QED
    BY OrderInit, OrderNext, <1>1, PTL DEF Spec

\* A version waits for its expansion at the least depth of all edges to it, so
\* the limit cuts nothing off that a shorter path would have reached.
THEOREM ExpandedShallowest == Spec => []ShallowestFirst
  <1>1. OrderInv => ShallowestFirst
    BY DEF OrderInv, ExpandInv
  <1> QED
    BY OrderInit, OrderNext, <1>1, PTL DEF Spec

-----------------------------------------------------------------------------
(* Completeness.  What is promised holds of a crawl without a cache (the   *)
(* cached children of another manifest's version are not what its contents *)
(* refer to), whose resolvers can read every tree and answer every ref     *)
(* with a dependency or an error, and where no two refs share a version    *)
(* key.                                                                    *)
FreshCrawl ==
    /\ ~HasCache
    /\ DetectFails = {}
    /\ "nil" \notin Outcomes
    /\ \A r, q \in Refs : VKOf[r] = VKOf[q] => r = q

\* The items that are queued, taken, or being handled.
InHand == Pending \union (IF Busy THEN {item} ELSE {})

Waiting(tree, parent) ==
    \E it \in InHand : it.tree = tree /\ it.parent = parent

\* What q resolved to, or that it did not, is below the node `from`.
Shown(from, q) == \E e \in edges : e.from = from /\ e.to \in {NodeOf(q), ErrorId(q)}

Expanded(tree, from) == \A q \in world.finds[tree] : Shown(from, q)

\* First met at the depth limit, which everything that follows has reached.
AtBottom(id) ==
    /\ \A e \in edges : e.to = id => e.depth >= MaxDepth
    /\ \A it \in InHand : it.depth + 1 >= MaxDepth

\* Nothing is forgotten: contents that were found wait, have been expanded,
\* or lie at the limit.
Accounted ==
    /\ Waiting(RootTree, NoParent) \/ Expanded(RootTree, RootId)
    /\ \A r \in world.contents :
          NodeOf(r) \in nodes => \/ Waiting(r, NodeOf(r))
                                 \/ Expanded(r, NodeOf(r))
                                 \/ AtBottom(NodeOf(r))

\* The item at hand: each of its refs is still to be detected, resolved or
\* processed, or is shown below it.
Asked ==
    /\ pc = "detect" => \A q \in world.finds[item.tree] :
                           SourceOf[q] \in toDetect \/ q \in refs
    /\ pc = "resolve" => world.finds[item.tree] \subseteq refs
    /\ pc = "process" => \A q \in world.finds[item.tree] :
                            q \in toProcess \/ Shown(From, q)
    /\ pc = "process" => \A q \in toProcess : results[q] # "none"
    /\ \A q \in Refs : results[q] # "nil"

FreshItems ==
    /\ pc # "cached"
    /\ \A it \in InHand : it.deps = {} /\ it.tree \in Trees
    /\ \A r \in Refs : seen[VKOf[r]] \in {Unseen, NodeOf(r)}
    /\ pc = "finished" => Pending = {}

CompleteInv == FreshItems /\ Asked /\ (pc # "cutoff" => Accounted)

LEMMA CompleteInit ==
    ASSUME FreshCrawl, Init
    PROVE  CompleteInv
  <1>1. /\ pc = "level" /\ ~Busy /\ InHand = {RootItem}
        /\ nodes = {RootId} /\ queue = {RootItem}
    BY DEF Init, Busy, InHand, Pending
  <1>2. /\ RootItem.tree = RootTree /\ RootItem.deps = {}
        /\ RootItem.parent = NoParent
    BY DEF RootItem
  <1>3. \A r \in Refs : NodeOf(r) \notin nodes
    BY <1>1, DepIdIsNotRoot DEF NodeOf
  <1>4. \A r \in Refs : results[r] = "none" /\ seen[VKOf[r]] = Unseen
    BY CrawlerAssumption DEF Init, NoResults
  <1>5. world.contents \subseteq Refs
    BY CrawlerAssumption DEF Init, World
  <1>6. FreshItems /\ Asked
    BY <1>1, <1>2, <1>4 DEF FreshItems, Asked, Trees
  <1>7. Accounted
    BY <1>1, <1>2, <1>3, <1>5 DEF Accounted, Waiting
  <1> QED
    BY <1>6, <1>7 DEF CompleteInv

\* A result that is handled shows below the item at hand what its ref
\* resolved to, and queues a dependency met for the first time whose contents
\* are there, unless it lies at the limit.
LEMMA ProcessShows ==
    ASSUME FreshCrawl, TypeOK, FreshItems, Asked, NEW ref \in Refs, Process(ref)
    PROVE  /\ edges \subseteq edges'
           /\ \E e \in edges' : e.from = From /\ e.to \in {NodeOf(ref), ErrorId(ref)}
           /\ \A r \in Refs : seen'[VKOf[r]] \in {Unseen, NodeOf(r)}
           /\ \A it \in queue' : it \in queue \/ (it.deps = {} /\ it.tree \in Trees)
           /\ \A r \in Refs : NodeOf(r) \in nodes' =>
                 \/ NodeOf(r) \in nodes
                 \/ r = ref /\ AtLimit /\ UNCHANGED queue
                 \/ r = ref /\ r \notin world.contents
                 \/ r = ref /\ \E it \in queue' : it.tree = r /\ it.parent = NodeOf(r)
  <1>1. /\ VKOf[ref] \in VKs /\ ref \in toProcess /\ pc = "process"
        /\ results[ref] # "none" /\ results[ref] # "nil"
    BY CrawlerAssumption DEF Process, HandleResult, Asked
  <1>2. ASSUME NEW to, AddEdge(From, to)
        PROVE  edges \subseteq edges' /\ \E e \in edges' : e.from = From /\ e.to = to
    <2> DEFINE f == [from |-> From, to |-> to, depth |-> item.depth + 1]
    <2>1. f.from = From /\ f.to = to
      OBVIOUS
    <2>2. edges' = edges \union {f}
      BY <1>2 DEF AddEdge
    <2> QED
      BY <2>1, <2>2
  <1>3. CASE ProcessError(ref)
    <2>1. AddEdge(From, ErrorId(ref)) /\ queue' = queue /\ seen' = seen
      BY <1>3 DEF ProcessError
    <2>2. \A r \in Refs : NodeOf(r) # ErrorId(ref)
      BY DepIdIsNotError DEF NodeOf
    <2>3. nodes' = nodes \union {ErrorId(ref)}
      BY <1>3 DEF ProcessError, AddNode
    <2> QED
      BY <1>2, <2>1, <2>2, <2>3 DEF FreshItems
  <1>4. CASE ProcessSeen(ref)
    <2>1. seen[VKOf[ref]] = NodeOf(ref)
      BY <1>4 DEF ProcessSeen, FreshItems
    <2>2. AddEdge(From, NodeOf(ref)) /\ queue' = queue /\ seen' = seen /\ nodes' = nodes
      BY <1>4, <2>1 DEF ProcessSeen
    <2> QED
      BY <1>2, <2>2 DEF FreshItems
  <1>5. CASE ProcessNew(ref)
    <2>1. /\ AddEdge(From, NodeOf(ref)) /\ seen[VKOf[ref]] = Unseen
          /\ nodes' = nodes \union {NodeOf(ref)}
          /\ seen' = [seen EXCEPT ![VKOf[ref]] = NodeOf(ref)]
      BY <1>5 DEF ProcessNew, AddNode
    <2>2. \A r \in Refs : seen'[VKOf[r]] \in {Unseen, NodeOf(r)}
      BY <1>1, <2>1, CrawlerAssumption DEF FreshItems, FreshCrawl, TypeOK
    <2>3. \A r \in Refs : NodeOf(r) \in nodes' => NodeOf(r) \in nodes \/ r = ref
      BY <2>1, DepIdInjective DEF NodeOf, FreshCrawl
    <2>4. \/ AtLimit /\ UNCHANGED queue
          \/ UNCHANGED queue /\ ref \notin world.contents
          \/ Enqueue(ref, {}, NodeOf(ref))
      BY <1>5 DEF ProcessNew, AtMaxDepth, CacheHit, CacheMiss, FreshCrawl
    <2>5. ASSUME Enqueue(ref, {}, NodeOf(ref))
          PROVE  /\ \A it \in queue' : it \in queue \/ (it.deps = {} /\ it.tree \in Trees)
                 /\ \E it \in queue' : it.tree = ref /\ it.parent = NodeOf(ref)
      <3> DEFINE new == [tree |-> ref, deps |-> {}, depth |-> item.depth + 1,
                         parent |-> NodeOf(ref)]
      <3>1. /\ new.tree = ref /\ new.deps = {} /\ new.parent = NodeOf(ref)
            /\ ref \in Trees
        BY DEF Trees
      <3>2. queue' = queue \union {new}
        BY <2>5 DEF Enqueue
      <3> HIDE DEF new
      <3> QED
        BY <3>1, <3>2
    <2> QED
      BY <1>2, <2>1, <2>2, <2>3, <2>4, <2>5
  <1> QED
    BY <1>1, <1>3, <1>4, <1>5 DEF Process, HandleResult, ProcessNil

LEMMA ProcessComplete ==
    ASSUME FreshCrawl, OrderInv, CompleteInv, NEW ref \in Refs, Process(ref)
    PROVE  CompleteInv'
  <1>1. /\ TypeOK /\ GraphInv /\ ExpandInv /\ DepthInv
        /\ FreshItems /\ Asked /\ Accounted
        /\ pc = "process" /\ pc' = pc /\ Busy /\ Busy'
        /\ UNCHANGED <<world, level, item, refs, results>>
        /\ toProcess' = toProcess \ {ref}
    BY DEF OrderInv, Inv, CompleteInv, Process, HandleResult, Busy
  <1>2. /\ edges \subseteq edges'
        /\ \E e \in edges' : e.from = From /\ e.to \in {NodeOf(ref), ErrorId(ref)}
        /\ \A r \in Refs : seen'[VKOf[r]] \in {Unseen, NodeOf(r)}
        /\ \A it \in queue' : it \in queue \/ (it.deps = {} /\ it.tree \in Trees)
        /\ \A r \in Refs : NodeOf(r) \in nodes' =>
              \/ NodeOf(r) \in nodes
              \/ r = ref /\ AtLimit /\ UNCHANGED queue
              \/ r = ref /\ r \notin world.contents
              \/ r = ref /\ \E it \in queue' : it.tree = r /\ it.parent = NodeOf(r)
    BY <1>1, ProcessShows
  <1>3. PICK to \in Ids : Expansion(to)
    BY <1>1, ProcessExpands
  <1>4. /\ InHand \subseteq InHand' /\ item \in InHand /\ queue' \subseteq InHand'
        /\ \A it \in InHand' : it \in InHand \/ it \in queue'
        /\ \A it \in InHand' : it \in InHand \/ ~AtLimit
    BY <1>1, <1>3 DEF InHand, Pending, Expansion
  <1>5. FreshItems'
    <2>1. \A it \in InHand' : it.deps = {} /\ it.tree \in Trees
      BY <1>1, <1>2, <1>4 DEF FreshItems, InHand, Pending
    <2> QED
      BY <1>1, <1>2, <2>1 DEF FreshItems
  <1>6. Asked'
    BY <1>1, <1>2 DEF Asked, Shown, From
  <1>7. \A tree, from : Expanded(tree, from) => Expanded(tree, from)'
    BY <1>1, <1>2 DEF Expanded, Shown
  <1>8. \A tree, parent : Waiting(tree, parent) => Waiting(tree, parent)'
    BY <1>4 DEF Waiting
  <1>9. item.depth \in Nat /\ MaxDepth \in Nat
    BY <1>1, CrawlerAssumption DEF TypeOK, Item
  <1>10. \A e \in edges' : e \in edges \/ e.depth = item.depth + 1
    BY <1>3 DEF Expansion
  <1>11. ASSUME NEW id, AtBottom(id)
         PROVE  AtBottom(id)'
    <2>1. item.depth + 1 >= MaxDepth /\ AtLimit
      BY <1>4, <1>11 DEF AtBottom, AtLimit
    <2> QED
      BY <1>4, <1>10, <1>11, <2>1 DEF AtBottom
  <1>12. ASSUME NEW r \in Refs, NodeOf(r) \notin nodes, AtLimit, UNCHANGED queue
         PROVE  AtBottom(NodeOf(r))'
    <2>1. item.depth + 1 >= MaxDepth
      BY <1>12 DEF AtLimit
    <2>2. \A e \in edges : e.to # NodeOf(r)
      BY <1>1, <1>12 DEF GraphInv, Closed, Graph!Closed
    <2>3. \A it \in InHand : it.depth = item.depth \/ it.depth = item.depth + 1
      BY <1>1 DEF InHand, Pending, DepthInv, LevelByLevel
    <2>4. InHand' = InHand
      BY <1>1, <1>12 DEF InHand, Pending
    <2> QED
      BY <1>9, <1>10, <2>1, <2>2, <2>3, <2>4 DEF AtBottom
  <1>13. Accounted'
    <2>1. Waiting(RootTree, NoParent)' \/ Expanded(RootTree, RootId)'
      BY <1>1, <1>7, <1>8 DEF Accounted
    <2>2. ASSUME NEW r \in world'.contents, NodeOf(r) \in nodes'
          PROVE  Waiting(r, NodeOf(r))' \/ Expanded(r, NodeOf(r))' \/ AtBottom(NodeOf(r))'
      <3>1. r \in Refs /\ r \in world.contents
        BY <1>1 DEF TypeOK, World
      <3>2. CASE NodeOf(r) \in nodes
        BY <1>1, <1>7, <1>8, <1>11, <3>1, <3>2 DEF Accounted
      <3>3. CASE NodeOf(r) \notin nodes
        <4>1. \/ AtLimit /\ UNCHANGED queue
              \/ \E it \in queue' : it.tree = r /\ it.parent = NodeOf(r)
          BY <1>2, <2>2, <3>1, <3>3
        <4> QED
          BY <1>4, <1>12, <3>1, <3>3, <4>1 DEF Waiting
      <3> QED
        BY <3>2, <3>3
    <2> QED
      BY <2>1, <2>2 DEF Accounted, NodeOf, DepId
  <1> QED
    BY <1>5, <1>6, <1>13 DEF CompleteInv

-----------------------------------------------------------------------------
(* The steps that add nothing to the graph: an item leaves the hand only   *)
(* when all its refs are shown below it.                                   *)

LEMMA InHandKept ==
    ASSUME Accounted, UNCHANGED <<world, nodes, edges>>,
           InHand' \subseteq InHand,
           \A it \in InHand : \/ it \in InHand'
                              \/ it = item /\ Expanded(item.tree, From)
    PROVE  Accounted'
  <1>1. \A tree, from : Expanded(tree, from) => Expanded(tree, from)'
    BY DEF Expanded, Shown
  <1>2. \A id : AtBottom(id) => AtBottom(id)'
    BY DEF AtBottom
  <1>3. ASSUME NEW tree, NEW parent, Waiting(tree, parent)
        PROVE  \/ Waiting(tree, parent)'
               \/ Expanded(tree, IF parent = NoParent THEN RootId ELSE parent)'
    BY <1>1, <1>3 DEF Waiting, From, ParentOf
  <1>4. \A r : NodeOf(r) # NoParent
    BY DepIdIsSomething DEF NodeOf
  <1>5. Waiting(RootTree, NoParent)' \/ Expanded(RootTree, RootId)'
    BY <1>1, <1>3 DEF Accounted
  <1>6. \A r \in world.contents : NodeOf(r) \in nodes =>
           Waiting(r, NodeOf(r))' \/ Expanded(r, NodeOf(r))' \/ AtBottom(NodeOf(r))'
    BY <1>1, <1>2, <1>3, <1>4 DEF Accounted
  <1> QED
    BY <1>5, <1>6 DEF Accounted, NodeOf, DepId

LEMMA ControlAsked ==
    ASSUME FreshCrawl, TypeOK, FreshItems, Asked, Control,
           UNCHANGED <<graph, seen>>
    PROVE  Asked'
  <1>1. /\ world' = world /\ world.finds \in [Trees -> SUBSET Refs]
        /\ UNCHANGED <<edges, world>>
    BY DEF TypeOK, World, Control, Cancel, CutOff, Finish, BeginLevel, EndLevel,
           TakeItem, Detect, DetectDone, Resolve, ResolveDone, ProcessDone,
           CachedDone, vars, graph
  <1>2. CASE Cancel \/ CutOff \/ Finish \/ BeginLevel \/ EndLevel \/ UNCHANGED vars
    BY <1>2 DEF Cancel, CutOff, Finish, BeginLevel, EndLevel, vars, loop, phase,
                graph, Asked, Shown, From
  <1>3. CASE TakeItem
    <2>1. /\ item' \in InHand /\ item'.deps = {} /\ item'.tree \in Trees
          /\ pc' = "detect" /\ toDetect' = Sources /\ results' = results
      BY <1>3 DEF TakeItem, FreshItems, InHand, Pending
    <2>2. \A q \in world.finds[item'.tree] : SourceOf[q] \in Sources
      BY <1>1, <2>1, CrawlerAssumption
    <2> QED
      BY <1>1, <2>1, <2>2 DEF Asked
  <1>4. ASSUME NEW src \in Sources, Detect(src)
        PROVE  Asked'
    <2>1. /\ pc = "detect" /\ pc' = pc /\ item' = item /\ results' = results
          /\ toDetect' = toDetect \ {src} /\ refs' = refs \union Found(src)
          /\ Busy
      BY <1>4 DEF Detect, FreshCrawl, loop, Busy
    <2>2. world.finds[item.tree] \subseteq Refs
      BY <1>1, <2>1 DEF FreshItems, InHand
    <2>3. \A q \in world.finds[item.tree] : SourceOf[q] = src => q \in Found(src)
      BY <2>2 DEF Found
    <2> QED
      BY <1>1, <2>1, <2>3 DEF Asked
  <1>5. CASE DetectDone
    BY <1>1, <1>5 DEF DetectDone, Asked, phase
  <1>6. ASSUME NEW ref \in Refs, Resolve(ref)
        PROVE  Asked'
    <2>1. \A q \in Refs : results'[q] # "nil"
      BY <1>6 DEF Resolve, TypeOK, Asked, FreshCrawl
    <2> QED
      BY <1>1, <1>6, <2>1 DEF Resolve, loop, Asked
  <1>7. CASE ResolveDone
    BY <1>1, <1>7 DEF ResolveDone, Asked
  <1>8. CASE ProcessDone
    BY <1>8 DEF ProcessDone, NoResults, Asked
  <1>9. CASE CachedDone
    BY <1>9 DEF CachedDone, FreshItems
  <1> QED
    BY <1>2, <1>3, <1>4, <1>5, <1>6, <1>7, <1>8, <1>9 DEF Control

LEMMA ControlHand ==
    ASSUME TypeOK, DepthInv, FreshItems, Asked, Control, pc' # "cutoff"
    PROVE  /\ pc # "cutoff" /\ UNCHANGED world
           /\ InHand' \subseteq InHand
           /\ \A it \in InHand : \/ it \in InHand'
                                 \/ it = item /\ Expanded(item.tree, From)
  <1> USE DEF InHand, Pending, Busy
  <1>1. CASE Cancel \/ CutOff \/ Finish \/ EndLevel \/ UNCHANGED vars
    BY <1>1 DEF Cancel, CutOff, Finish, EndLevel, vars, loop
  <1>2. CASE BeginLevel
    <2>1. level = {} /\ queue = queue' \union level'
      BY <1>2 DEF BeginLevel, DepthInv, LevelByLevel
    <2> QED
      BY <1>2, <2>1 DEF BeginLevel
  <1>3. CASE TakeItem
    <2>1. level = level' \union {item'} /\ queue' = queue /\ pc = "item" /\ Busy'
      BY <1>3 DEF TakeItem
    <2> QED
      BY <1>3, <2>1 DEF TakeItem
  <1>4. CASE (\E src \in Sources : Detect(src)) \/ (\E ref \in Refs : Resolve(ref)) \/ ResolveDone
    BY <1>4 DEF Detect, Resolve, ResolveDone, loop
  <1>5. CASE DetectDone
    <2>1. refs = {} => Expanded(item.tree, From)
      BY <1>5 DEF DetectDone, Asked, Expanded
    <2> QED
      BY <1>5, <2>1 DEF DetectDone
  <1>6. CASE ProcessDone
    <2>1. Expanded(item.tree, From)
      BY <1>6 DEF ProcessDone, Asked, Expanded
    <2> QED
      BY <1>6, <2>1 DEF ProcessDone
  <1>7. CASE CachedDone
    BY <1>7 DEF CachedDone, FreshItems
  <1> QED
    BY <1>1, <1>2, <1>3, <1>4, <1>5, <1>6, <1>7 DEF Control

LEMMA ControlItems ==
    ASSUME DepthInv, FreshItems, Control, UNCHANGED <<graph, seen>>
    PROVE  FreshItems'
  <1> USE DEF InHand, Pending, Busy
  <1>1. pc' # "cached"
    BY DEF Control, Cancel, CutOff, Finish, BeginLevel, EndLevel, TakeItem, Detect,
           DetectDone, Resolve, ResolveDone, ProcessDone, CachedDone, vars, loop,
           FreshItems
  <1>2. InHand' \subseteq InHand
    BY DEF Control, Cancel, CutOff, Finish, BeginLevel, EndLevel, TakeItem, Detect,
           DetectDone, Resolve, ResolveDone, ProcessDone, CachedDone, vars, loop
  <1>3. pc' = "finished" => Pending' = {}
    BY DEF Control, Cancel, CutOff, Finish, BeginLevel, EndLevel, TakeItem, Detect,
           DetectDone, Resolve, ResolveDone, ProcessDone, CachedDone, vars, loop,
           FreshItems, DepthInv, LevelByLevel
  <1> QED
    BY <1>1, <1>2, <1>3 DEF FreshItems

LEMMA CompleteNext ==
    ASSUME FreshCrawl, OrderInv, CompleteInv, [Next]_vars
    PROVE  CompleteInv'
  <1>1. TypeOK /\ DepthInv /\ FreshItems /\ Asked
    BY DEF OrderInv, Inv, CompleteInv
  <1>2. ASSUME NEW child \in Child, ProcessCached(child)
        PROVE  CompleteInv'
    BY <1>1, <1>2 DEF ProcessCached, FreshItems
  <1>3. CASE Control
    <2>1. UNCHANGED <<graph, seen>>
      BY <1>1, <1>3, ControlType DEF Control
    <2>2. pc' # "cutoff" => Accounted'
      BY <1>1, <1>3, <2>1, ControlHand, InHandKept DEF CompleteInv, graph
    <2> QED
      BY <1>1, <1>3, <2>1, <2>2, ControlAsked, ControlItems DEF CompleteInv
  <1> QED
    BY <1>2, <1>3, ProcessComplete DEF Next, Step, Terminated, Control

\* A fresh crawl that Crawl ends by itself has shown every reference in the
\* contents of the project and of every dependency above the depth limit,
\* whatever the graph, its cycles and the errors in it.
THEOREM CrawlIsComplete ==
    ASSUME FreshCrawl
    PROVE  Spec => []Complete
  <1>1. Init => OrderInv /\ CompleteInv
    BY OrderInit, CompleteInit
  <1>2. OrderInv /\ CompleteInv /\ [Next]_vars => (OrderInv /\ CompleteInv)'
    BY OrderNext, CompleteNext
  <1>3. OrderInv /\ CompleteInv => Complete
    <2> SUFFICES ASSUME OrderInv, CompleteInv, pc = "finished"
                 PROVE  Complete
      BY DEF Complete
    <2>1. InHand = {} /\ Accounted
      BY DEF CompleteInv, FreshItems, InHand, Busy
    <2>2. Expanded(RootTree, RootId)
      BY <2>1 DEF Accounted, Waiting
    <2>3. ASSUME NEW r \in world.contents,
                 NodeOf(r) \in nodes, MinDepthOf(NodeOf(r)) < MaxDepth
          PROVE  Expanded(r, NodeOf(r))
      <3> DEFINE P(d) == /\ \E e \in edges : e.to = NodeOf(r) /\ e.depth = d
                         /\ \A e \in edges : e.to = NodeOf(r) => e.depth >= d
      <3>1. SUFFICES ~AtBottom(NodeOf(r))
        BY <2>1, <2>3 DEF Accounted, Waiting
      <3>2. SUFFICES ASSUME \A e \in edges : e.to = NodeOf(r) => e.depth >= MaxDepth
                     PROVE  FALSE
        BY DEF AtBottom
      <3>3. PICK e \in edges : e.to = NodeOf(r)
        BY <2>3, DepIdIsNotRoot DEF OrderInv, Inv, GraphInv, Anchored, Graph!Anchored, NodeOf
      <3>4. e.depth = MaxDepth /\ MaxDepth \in 1 .. MaxDepth
        <4>1. e.depth \in Nat /\ e.depth <= MaxDepth /\ e.depth >= MaxDepth
          BY <3>2, <3>3 DEF OrderInv, Inv, TypeOK, Edge, DepthInv, DepthBound
        <4> QED
          BY <4>1, CrawlerAssumption
      <3>5. \E d \in 1 .. MaxDepth : P(d)
        BY <3>2, <3>3, <3>4
      <3>6. /\ MinDepthOf(NodeOf(r)) \in 1 .. MaxDepth
            /\ P(MinDepthOf(NodeOf(r)))
        BY <3>5 DEF MinDepthOf
      <3> QED
        BY <2>3, <3>2, <3>6, CrawlerAssumption
    <2> QED
      BY <2>2, <2>3 DEF Complete, Expanded, Shown
  <1> QED
    BY <1>1, <1>2, <1>3, PTL DEF Spec

-----------------------------------------------------------------------------
(* What Crawl says of a version and of a failure, of any crawl.            *)

\* An abort is in the results only once the context is done, and then no
\* result is handled any more.
AbortsAreLate ==
    /\ NoTimeoutBlame
    /\ \A q \in Refs : results[q] = "aborted" => ctxDone

LEMMA AbortsNext ==
    ASSUME TypeOK, AbortsAreLate, [Next]_vars
    PROVE  AbortsAreLate'
  <1> USE DEF AbortsAreLate, NoTimeoutBlame
  <1>1. ASSUME NEW ref \in Refs, Process(ref)
        PROVE  AbortsAreLate'
    <2>1. /\ UNCHANGED <<results, ctxDone>> /\ results[ref] # "aborted"
      BY <1>1 DEF Process, HandleResult
    <2>2. errors' = errors \/ \E e : errors' = errors \union {e} /\ e.why = results[ref]
      BY <1>1 DEF Process, HandleResult, ProcessError, ProcessNil, ProcessSeen, ProcessNew
    <2> QED
      BY <2>1, <2>2
  <1>2. ASSUME NEW child \in Child, ProcessCached(child)
        PROVE  AbortsAreLate'
    BY <1>2 DEF ProcessCached
  <1>3. ASSUME NEW src \in Sources, Detect(src)
        PROVE  AbortsAreLate'
    <2>1. errors' = errors \/ \E e : errors' = errors \union {e} /\ e.why = "error"
      BY <1>3 DEF Detect
    <2> QED
      BY <1>3, <2>1 DEF Detect
  <1>4. ASSUME NEW ref \in Refs, Resolve(ref)
        PROVE  AbortsAreLate'
    BY <1>4, CrawlerAssumption DEF Resolve, TypeOK
  <1>5. CASE ProcessDone
    BY <1>5 DEF ProcessDone, NoResults
  <1>6. CASE \/ Cancel \/ CutOff \/ Finish \/ BeginLevel \/ EndLevel \/ TakeItem
             \/ DetectDone \/ ResolveDone \/ CachedDone \/ UNCHANGED vars
    BY <1>6 DEF Cancel, CutOff, Finish, BeginLevel, EndLevel, TakeItem, DetectDone,
                ResolveDone, CachedDone, vars, phase
  <1> QED
    BY <1>1, <1>2, <1>3, <1>4, <1>5, <1>6 DEF Next, Step, Terminated

\* Crawl looks at the context before each result, so that what was aborted
\* is never reported as an error of the dependency.
THEOREM TimeoutsBlameNobody == Spec => []NoTimeoutBlame
  <1>1. Init => Inv /\ AbortsAreLate
    BY InvInit DEF Init, NoResults, AbortsAreLate, NoTimeoutBlame
  <1>2. Inv /\ AbortsAreLate /\ [Next]_vars => (Inv /\ AbortsAreLate)'
    BY InvNext, AbortsNext DEF Inv
  <1>3. AbortsAreLate => NoTimeoutBlame
    BY DEF AbortsAreLate
  <1> QED
    BY <1>1, <1>2, <1>3, PTL DEF Spec

\* At most one entry of seen is made in a step, and a look-up of the index is
\* counted only together with one.
LEMMA SeenStep ==
    ASSUME TypeOK, [Next]_vars
    PROVE  \/ UNCHANGED <<seen, hits, misses>>
           \/ \E vk \in VKs, id \in Ids :
                 /\ seen[vk] = Unseen /\ id # Unseen
                 /\ seen' = [seen EXCEPT ![vk] = id]
                 /\ hits' + misses' <= hits + misses + 1
  <1>1. hits \in Nat /\ misses \in Nat
    BY DEF TypeOK
  <1>2. ASSUME NEW ref \in Refs, Process(ref), ProcessNew(ref)
        PROVE  \E vk \in VKs, id \in Ids :
                 /\ seen[vk] = Unseen /\ id # Unseen
                 /\ seen' = [seen EXCEPT ![vk] = id]
                 /\ hits' + misses' <= hits + misses + 1
    <2>1. VKOf[ref] \in VKs /\ NodeOf(ref) \in Ids /\ NodeOf(ref) # Unseen
      BY CrawlerAssumption, IdsInclude, DepIdIsSomething DEF NodeOf, Unseen, NoParent
    <2>2. hits' + misses' <= hits + misses + 1
      BY <1>1, <1>2 DEF ProcessNew, AtMaxDepth, CacheHit, CacheMiss
    <2> QED
      BY <1>2, <2>1, <2>2 DEF ProcessNew
  <1>3. ASSUME NEW ref \in Refs, Process(ref), ~ProcessNew(ref)
        PROVE  UNCHANGED <<seen, hits, misses>>
    BY <1>3 DEF Process, HandleResult, ProcessError, ProcessNil, ProcessSeen
  <1>4. ASSUME NEW child \in Child, ProcessCached(child), seen[child[2]] = Unseen
        PROVE  \E vk \in VKs, id \in Ids :
                 /\ seen[vk] = Unseen /\ id # Unseen
                 /\ seen' = [seen EXCEPT ![vk] = id]
                 /\ hits' + misses' <= hits + misses + 1
    <2> DEFINE node == DepId(PackageSource, child[2])
    <2>1. child[2] \in VKs /\ node \in Ids /\ node # Unseen
      BY IdsInclude, DepIdIsSomething DEF Child, Unseen, NoParent
    <2>2. seen' = [seen EXCEPT ![child[2]] = node]
      BY <1>4 DEF ProcessCached, SeeCached
    <2>3. hits' + misses' <= hits + misses + 1
      <3>1. hits' = hits /\ misses' = misses
        BY <1>4 DEF ProcessCached, stats
      <3> QED
        BY <1>1, <3>1
    <2> HIDE DEF node
    <2> QED
      BY <1>4, <2>1, <2>2, <2>3
  <1>5. ASSUME NEW child \in Child, ProcessCached(child), seen[child[2]] # Unseen
        PROVE  UNCHANGED <<seen, hits, misses>>
    BY <1>5 DEF ProcessCached, SeeCached, stats
  <1>6. CASE Control
    BY <1>6 DEF Control, Cancel, CutOff, Finish, BeginLevel, EndLevel, TakeItem,
                Detect, DetectDone, Resolve, ResolveDone, ProcessDone, CachedDone,
                vars, stats
  <1> QED
    BY <1>2, <1>3, <1>4, <1>5, <1>6 DEF Next, Step, Terminated, Control

\* An entry that Crawl or processCachedDeps made in seen names a node of the
\* graph, and is never replaced, whatever comes to the same version later.
THEOREM SeenEntriesStand == Spec => SeenIsStable
  <1> DEFINE Stands == \A vk \in VKs : seen[vk] # Unseen =>
                          seen'[vk] = seen[vk] /\ seen[vk] \in nodes
  <1>1. Inv /\ [Next]_vars => [Stands]_vars
    <2> SUFFICES ASSUME Inv, [Next]_vars PROVE Stands
      OBVIOUS
    <2>1. \A vk \in VKs : seen[vk] # Unseen => seen[vk] \in nodes
      BY DEF Inv, GraphInv
    <2>2. \A vk \in VKs : seen[vk] # Unseen => seen'[vk] = seen[vk]
      BY SeenStep DEF Inv, TypeOK
    <2> QED
      BY <2>1, <2>2
  <1> QED
    BY <1>1, InvInit, InvNext, PTL DEF Spec, SeenIsStable

SeenKeys == {vk \in VKs : seen[vk] # Unseen}

\* A version is looked up in the index when its entry in seen is made, so at
\* most once in a crawl, by Crawl's own count of hits and misses.
THEOREM LookUpsAreCounted ==
    ASSUME IsFiniteSet(VKs)
    PROVE  Spec => []LookedUpOnce
  <1>1. Init => LookedUpOnce
    <2> SUFFICES ASSUME Init PROVE LookedUpOnce
      OBVIOUS
    <2>1. SeenKeys = {} /\ hits + misses = 0
      BY DEF Init, SeenKeys
    <2> QED
      BY <2>1, FS_EmptySet DEF LookedUpOnce, SeenKeys
  <1>2. Inv /\ LookedUpOnce /\ [Next]_vars => LookedUpOnce'
    <2> SUFFICES ASSUME Inv, LookedUpOnce, [Next]_vars PROVE LookedUpOnce'
      OBVIOUS
    <2>1. TypeOK /\ hits \in Nat /\ misses \in Nat /\ TypeOK'
      BY InvNext DEF Inv, TypeOK
    <2>2. IsFiniteSet(SeenKeys) /\ hits + misses <= Cardinality(SeenKeys)
      BY FS_Subset DEF SeenKeys, LookedUpOnce
    <2>3. CASE UNCHANGED <<seen, hits, misses>>
      BY <2>3 DEF LookedUpOnce
    <2>4. ASSUME NEW vk \in VKs, NEW id \in Ids,
                 seen[vk] = Unseen, id # Unseen,
                 seen' = [seen EXCEPT ![vk] = id],
                 hits' + misses' <= hits + misses + 1
          PROVE  LookedUpOnce'
      <3>1. SeenKeys' = SeenKeys \union {vk} /\ vk \notin SeenKeys
        BY <2>1, <2>4 DEF SeenKeys, TypeOK
      <3>2. Cardinality(SeenKeys') = Cardinality(SeenKeys) + 1
        BY <2>2, <3>1, FS_AddElement
      <3>3. Cardinality(SeenKeys) \in Nat /\ hits' \in Nat /\ misses' \in Nat
        BY <2>1, <2>2, FS_CardinalityType DEF TypeOK
      <3>4. /\ hits + misses <= Cardinality(SeenKeys)
            /\ hits' + misses' <= hits + misses + 1
        BY <2>2, <2>4
      <3>5. hits' + misses' <= Cardinality(SeenKeys) + 1
        <4>1. \A a, b, c, d, n \in Nat :
                 a + b <= n /\ c + d <= a + b + 1 => c + d <= n + 1
          OBVIOUS
        <4> QED
          BY <2>1, <3>3, <3>4, <4>1
      <3>6. hits' + misses' <= Cardinality(SeenKeys')
        BY <3>2, <3>5
      <3> QED
        BY <3>6 DEF LookedUpOnce, SeenKeys
    <2> QED
      BY <2>1, <2>3, <2>4, SeenStep
  <1> QED
    BY <1>1, <1>2, InvInit, InvNext, PTL DEF Spec
=============================================================================
