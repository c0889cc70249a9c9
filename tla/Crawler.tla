------------------------------- MODULE Crawler -------------------------------
(***************************************************************************)
(* The breadth-first crawl of internal/crawler/crawler.go: Crawl,          *)
(* resolveRefs, addDepNode, addErrorNode, processCachedDeps, cacheVersion. *)
(*                                                                         *)
(* One action per step between two looks at the context: starting a level, *)
(* taking an item, asking one resolver to Detect, the return of one of the *)
(* goroutines that Resolve, handling one result, handling one cached       *)
(* child.  The timeout (or the caller) may cancel the context anywhere.    *)
(*                                                                         *)
(* Go ranges over the resolvers, and the resolvers over their files, in no *)
(* fixed order, so the refs of an item and the items of a level are sets   *)
(* and are taken in any order.                                             *)
(*                                                                         *)
(* A definition named X_Y is X with a plausible mistake Y: TLC is shown to *)
(* find each of them with the properties below.                            *)
(***************************************************************************)
EXTENDS Naturals, FiniteSets

CONSTANTS
    Refs,           \* dependency references a Detect can return (DepRef)
    Sources,        \* the keys of c.resolvers (DepSourceType)
    Projects,       \* ResolvedDep.ProjectID
    VKs,            \* ResolvedDep.VersionKey
    SourceOf,       \* DepRef.Source
    ProjectOf,      \* the ProjectID a ref resolves to
    VKOf,           \* the VersionKey a ref resolves to
    PackageSource,  \* DepSourcePackage, whose nodes are NodePackage
    MaxDepth,       \* opts.MaxDepth
    HasCache,       \* c.cache != nil
    DetectFails,    \* the resolvers whose Detect may return an error
    Outcomes,       \* what Resolve may return while the context is live
    Worlds          \* the repositories and caches a crawl may meet

\* The contents of the scanned project, beside the contents of each ref.
RootTree == "project"
Trees    == Refs \union {RootTree}
NoTree   == "nil"

\* A row of version_dependencies names a child by project and by the text
\* of its constraint, which CachedChild carries as VersionKey.
Child == Projects \X VKs

\* finds    the refs in a tree (what the resolvers' Detect return together)
\* contents the refs whose ResolvedDep has Contents
\* rows     version_dependencies, as <<parent version, child>> pairs
\* store    project_versions: absent, without metadata, or enriched
World == [finds    : [Trees -> SUBSET Refs],
          contents : SUBSET Refs,
          rows     : SUBSET (Child \X Child),
          store    : [Child -> {"absent", "bare", "enriched"}]]

ASSUME CrawlerAssumption ==
    /\ SourceOf \in [Refs -> Sources]
    /\ ProjectOf \in [Refs -> Projects]
    /\ VKOf \in [Refs -> VKs]
    /\ MaxDepth \in Nat \ {0}
    /\ HasCache \in BOOLEAN
    /\ DetectFails \subseteq Sources
    /\ Outcomes \subseteq {"dep", "nil", "error"}
    /\ Worlds \subseteq World

-----------------------------------------------------------------------------
(* Node identifiers: graph.NodeID prefixes the key with the node's type,   *)
(* and each source has a node type of its own.                             *)
RootId         == <<"root">>
DepId(src, vk) == <<src, vk>>
ErrorId(ref)   == <<"error", SourceOf[ref], ref>>
NoParent       == <<>>
Unseen         == <<>>
NoProject      == ""

Ids == {RootId}
         \union {DepId(s, vk) : s \in Sources \union {PackageSource}, vk \in VKs}
         \union {ErrorId(ref) : ref \in Refs}

NodeOf(ref) == DepId(SourceOf[ref], VKOf[ref])

Version(ref) == <<ProjectOf[ref], VKOf[ref]>>

VARIABLES
    world,       \* what the crawl meets; store is in `versions` once it runs
    versions,    \* the project_versions table
    ctxDone,     \* ctx.Err() # nil
    pc,          \* where Crawl is
    queue,       \* queue, between two levels
    level,       \* the rest of levelItems
    item,        \* the item being handled
    toDetect,    \* the resolvers that have not been asked for this item
    refs,        \* allRefs
    results,     \* results[ref]: what Resolve returned
    toProcess,   \* the results still to be handled
    children,    \* the cached children of the item still to be handled
    nodes,       \* graph.Nodes
    edges,       \* graph.Edges
    owner,       \* owner[id]: the ProjectID of node id
    seen,        \* c.seen
    errors,      \* c.errors
    maxDepthHit, hits, misses    \* CrawlStats

loop  == <<pc, queue, level, item>>
phase == <<toDetect, refs, results, toProcess, children>>
graph == <<nodes, edges, owner>>
stats == <<maxDepthHit, hits, misses>>
vars  == <<world, versions, ctxDone, loop, phase, graph, seen, errors, stats>>

Item == [tree   : Trees \union {NoTree},
         deps   : SUBSET Child,
         depth  : Nat,
         parent : Ids \union {NoParent}]

RootItem == [tree |-> RootTree, deps |-> {}, depth |-> 0, parent |-> NoParent]

NoResults == [ref \in Refs |-> "none"]

Edge == [from : Ids, to : Ids, depth : Nat \ {0}]

CrawlError == [resolver : Sources, ref : Refs \union {"detect"},
               depth : Nat, why : {"error", "aborted"}]

TypeOK ==
    /\ world \in World
    /\ versions \in [Child -> {"absent", "bare", "enriched"}]
    /\ ctxDone \in BOOLEAN
    /\ pc \in {"level", "item", "detect", "resolve", "process", "cached",
               "finished", "cutoff"}
    /\ queue \subseteq Item /\ level \subseteq Item /\ item \in Item
    /\ toDetect \subseteq Sources
    /\ refs \subseteq Refs /\ toProcess \subseteq Refs
    /\ results \in [Refs -> {"none", "dep", "nil", "error", "aborted"}]
    /\ children \subseteq Child
    /\ nodes \subseteq Ids /\ edges \subseteq Edge
    /\ owner \in [Ids -> Projects \union {NoProject}]
    /\ seen \in [VKs -> Ids \union {Unseen}]
    /\ errors \subseteq CrawlError
    /\ maxDepthHit \in Nat /\ hits \in Nat /\ misses \in Nat

Init ==
    /\ world \in Worlds
    /\ versions = world.store
    /\ ctxDone = FALSE
    /\ pc = "level"
    /\ queue = {RootItem} /\ level = {} /\ item = RootItem
    /\ toDetect = {} /\ refs = {} /\ results = NoResults
    /\ toProcess = {} /\ children = {}
    /\ nodes = {RootId} /\ edges = {}
    /\ owner = [id \in Ids |-> NoProject]
    /\ seen = [vk \in VKs |-> Unseen]
    /\ errors = {}
    /\ maxDepthHit = 0 /\ hits = 0 /\ misses = 0

-----------------------------------------------------------------------------
(* The context and the two ways Crawl returns.                             *)

\* The timeout fires, or the caller gives up.
Cancel ==
    /\ ~ctxDone
    /\ pc \notin {"finished", "cutoff"}
    /\ ctxDone' = TRUE
    /\ UNCHANGED <<world, versions, loop, phase, graph, seen, errors, stats>>

\* The loops look at the context before each level, item, Detect and result,
\* and return what has been built so far, without an error.
AtCheck ==
    \/ pc = "level" /\ queue # {}
    \/ pc = "item" /\ level # {}
    \/ pc = "detect" /\ toDetect # {}
    \/ pc = "process" /\ toProcess # {}

CutOff ==
    /\ ctxDone
    /\ AtCheck
    /\ pc' = "cutoff"
    /\ UNCHANGED <<world, versions, ctxDone, queue, level, item, phase, graph,
                   seen, errors, stats>>

Finish ==
    /\ pc = "level" /\ queue = {}
    /\ pc' = "finished"
    /\ UNCHANGED <<world, versions, ctxDone, queue, level, item, phase, graph,
                   seen, errors, stats>>

-----------------------------------------------------------------------------
(* The level and item loops.                                               *)

\* `queue = remaining` is forgotten: the level is handled over and over.
BeginLevel_KeepsQueue ==
    /\ pc = "level" /\ ~ctxDone
    /\ \E head \in queue : level' = {it \in queue : it.depth = head.depth}
    /\ pc' = "item"
    /\ UNCHANGED <<world, versions, ctxDone, queue, item, phase, graph, seen,
                   errors, stats>>

\* A worklist without levels, its items taken one by one in any order.
BeginLevel_OneItem ==
    /\ pc = "level" /\ ~ctxDone
    /\ \E head \in queue : level' = {head} /\ queue' = queue \ {head}
    /\ pc' = "item"
    /\ UNCHANGED <<world, versions, ctxDone, item, phase, graph, seen, errors,
                   stats>>

\* All the items as deep as the head of the queue leave it together.
BeginLevel ==
    /\ pc = "level" /\ ~ctxDone
    /\ \E head \in queue :
          /\ level' = {it \in queue : it.depth = head.depth}
          /\ queue' = {it \in queue : it.depth # head.depth}
          /\ maxDepthHit' = IF head.depth > maxDepthHit THEN head.depth
                                                        ELSE maxDepthHit
    /\ pc' = "item"
    /\ UNCHANGED <<world, versions, ctxDone, item, phase, graph, seen, errors,
                   hits, misses>>

EndLevel ==
    /\ pc = "item" /\ level = {}
    /\ pc' = "level"
    /\ UNCHANGED <<world, versions, ctxDone, queue, level, item, phase, graph,
                   seen, errors, stats>>

\* An item either carries the children the cache knows or has to be scanned.
TakeItem ==
    /\ pc = "item" /\ ~ctxDone
    /\ \E it \in level :
          /\ level' = level \ {it}
          /\ item' = it
          /\ \/ /\ it.deps # {}
                /\ pc' = "cached"
                /\ children' = it.deps
                /\ UNCHANGED toDetect
             \/ /\ it.deps = {}
                /\ pc' = "detect"
                /\ toDetect' = Sources
                /\ UNCHANGED children
    /\ UNCHANGED <<world, versions, ctxDone, queue, refs, results, toProcess,
                   graph, seen, errors, stats>>

-----------------------------------------------------------------------------
(* Phase 1 and 2 of an item: Detect, one resolver after the other, then    *)
(* Resolve, one goroutine for each ref, joined by a WaitGroup.             *)

Found(src) ==
    {ref \in Refs : SourceOf[ref] = src /\ ref \in world.finds[item.tree]}

\* A resolver that cannot read the tree is recorded and the others go on.
Detect(src) ==
    /\ pc = "detect" /\ ~ctxDone
    /\ src \in toDetect
    /\ toDetect' = toDetect \ {src}
    /\ \/ refs' = refs \union Found(src) /\ UNCHANGED errors
       \/ /\ src \in DetectFails
          /\ errors' = errors \union {[resolver |-> src, ref |-> "detect",
                                       depth |-> item.depth, why |-> "error"]}
          /\ UNCHANGED refs
    /\ UNCHANGED <<world, versions, ctxDone, loop, results, toProcess,
                   children, graph, seen, stats>>

DetectDone ==
    /\ pc = "detect" /\ toDetect = {}
    /\ pc' = IF refs = {} THEN "item" ELSE "resolve"
    /\ UNCHANGED <<world, versions, ctxDone, queue, level, item, phase, graph,
                   seen, errors, stats>>

\* A Resolve answers for itself, or gives up because the context is done.
Resolve(ref) ==
    /\ pc = "resolve"
    /\ ref \in refs /\ results[ref] = "none"
    /\ \E out \in Outcomes \union (IF ctxDone THEN {"aborted"} ELSE {}) :
          results' = [results EXCEPT ![ref] = out]
    /\ UNCHANGED <<world, versions, ctxDone, loop, toDetect, refs, toProcess,
                   children, graph, seen, errors, stats>>

\* The WaitGroup counts more goroutines than are started.
ResolveDone_Miscounts ==
    /\ pc = "resolve" /\ \A ref \in Refs : results[ref] # "none"
    /\ pc' = "process"
    /\ toProcess' = refs
    /\ UNCHANGED <<world, versions, ctxDone, queue, level, item, toDetect, refs,
                   results, children, graph, seen, errors, stats>>

ResolveDone ==
    /\ pc = "resolve" /\ \A ref \in refs : results[ref] # "none"
    /\ pc' = "process"
    /\ toProcess' = refs
    /\ UNCHANGED <<world, versions, ctxDone, queue, level, item, toDetect, refs,
                   results, children, graph, seen, errors, stats>>

-----------------------------------------------------------------------------
(* Phase 3: the results, one at a time.                                    *)

\* The project's own dependencies have no parent to hang from.
ParentOf_NoRoot(it) == it.parent

\* ParentVK is empty for the project itself.
ParentOf(it) == IF it.parent = NoParent THEN RootId ELSE it.parent

From == ParentOf(item)

\* A node that is there already keeps what it holds.
AddNode(id, project) ==
    /\ nodes' = nodes \union {id}
    /\ owner' = IF id \in nodes THEN owner ELSE [owner EXCEPT ![id] = project]

\* The depth of the edge is the parent's, not the child's.
AddEdge_ParentDepth(from, to) ==
    edges' = edges \union {[from |-> from, to |-> to, depth |-> item.depth]}

AddEdge(from, to) ==
    edges' = edges \union {[from |-> from, to |-> to, depth |-> item.depth + 1]}

\* GetVersionDependencies
CachedDeps(project, vk) ==
    {row[2] : row \in {r \in world.rows : r[1] = <<project, vk>>}}

Enqueue(tree, deps, id) ==
    queue' = queue \union {[tree |-> tree, deps |-> deps,
                            depth |-> item.depth + 1, parent |-> id]}

\* A failed Resolve leaves a node that says so, below the same parent.
ProcessError(ref) ==
    /\ results[ref] \in {"error", "aborted"}
    /\ AddNode(ErrorId(ref), NoProject)
    /\ AddEdge(From, ErrorId(ref))
    /\ errors' = errors \union {[resolver |-> SourceOf[ref], ref |-> ref,
                                 depth |-> item.depth + 1, why |-> results[ref]]}
    /\ UNCHANGED <<versions, queue, seen, hits, misses>>

ProcessNil(ref) ==
    /\ results[ref] = "nil"
    /\ UNCHANGED <<versions, queue, graph, seen, errors, hits, misses>>

AtLimit_Late  == item.depth + 1 > MaxDepth
AtLimit_Early == item.depth + 2 >= MaxDepth

AtLimit == item.depth + 1 >= MaxDepth

\* At the last level, the node and the edge are added and nothing is queued.
AtMaxDepth ==
    /\ AtLimit
    /\ UNCHANGED <<versions, queue, hits, misses>>

\* The index knows what this version depends on: its contents stay unread.
CacheHit(ref) ==
    /\ ~AtLimit
    /\ HasCache /\ versions[Version(ref)] # "absent"
    /\ CachedDeps(ProjectOf[ref], VKOf[ref]) # {}
    /\ Enqueue(NoTree, CachedDeps(ProjectOf[ref], VKOf[ref]), NodeOf(ref))
    /\ hits' = hits + 1
    /\ UNCHANGED <<versions, misses>>

\* Otherwise its contents are queued, if it has any, and cacheVersion writes
\* the version, with empty metadata whatever the row held.
CacheMiss(ref) ==
    /\ ~AtLimit
    /\ ~ /\ HasCache /\ versions[Version(ref)] # "absent"
         /\ CachedDeps(ProjectOf[ref], VKOf[ref]) # {}
    /\ IF ref \in world.contents THEN Enqueue(ref, {}, NodeOf(ref))
                                 ELSE UNCHANGED queue
    /\ misses' = IF HasCache THEN misses + 1 ELSE misses
    /\ versions' = IF HasCache THEN [versions EXCEPT ![Version(ref)] = "bare"]
                               ELSE versions
    /\ UNCHANGED hits

\* The `continue` after the edge is forgotten: what was seen is looked up
\* and queued again.
ProcessSeen_GoesOn(ref) ==
    /\ results[ref] = "dep" /\ seen[VKOf[ref]] # Unseen
    /\ AddEdge(From, seen[VKOf[ref]])
    /\ AtMaxDepth \/ CacheHit(ref) \/ CacheMiss(ref)
    /\ UNCHANGED <<nodes, owner, seen, errors>>

\* A version seen before in this crawl gets the edge and nothing more.
ProcessSeen(ref) ==
    /\ results[ref] = "dep" /\ seen[VKOf[ref]] # Unseen
    /\ AddEdge(From, seen[VKOf[ref]])
    /\ UNCHANGED <<versions, queue, nodes, owner, seen, errors, hits,
                   misses>>

ProcessNew(ref) ==
    /\ results[ref] = "dep" /\ seen[VKOf[ref]] = Unseen
    /\ AddNode(NodeOf(ref), ProjectOf[ref])
    /\ seen' = [seen EXCEPT ![VKOf[ref]] = NodeOf(ref)]
    /\ AddEdge(From, NodeOf(ref))
    /\ AtMaxDepth \/ CacheHit(ref) \/ CacheMiss(ref)
    /\ UNCHANGED errors

HandleResult(ref) ==
    /\ pc = "process" /\ ref \in toProcess
    /\ toProcess' = toProcess \ {ref}
    /\ ProcessError(ref) \/ ProcessNil(ref) \/ ProcessSeen(ref) \/ ProcessNew(ref)
    /\ UNCHANGED <<world, ctxDone, pc, level, item, toDetect, refs, results,
                   children, maxDepthHit>>

\* The results are handled to the end, whatever became of the context.
Process_Unchecked(ref) == HandleResult(ref)

Process(ref) == ~ctxDone /\ HandleResult(ref)

\* The locals of the iteration go out of scope.
ProcessDone ==
    /\ pc = "process" /\ toProcess = {}
    /\ pc' = "item"
    /\ refs' = {} /\ results' = NoResults
    /\ UNCHANGED <<world, versions, ctxDone, queue, level, item, toDetect,
                   toProcess, children, graph, seen, errors, stats>>

-----------------------------------------------------------------------------
(* An item with cached children: processCachedDeps, which never looks at   *)
(* the context and takes every child for a package.                        *)

SeeCached_Always(vk, id) == seen' = [seen EXCEPT ![vk] = id]

SeeCached(vk, id) ==
    seen' = IF seen[vk] = Unseen THEN [seen EXCEPT ![vk] = id] ELSE seen

ProcessCached(child) ==
    LET id   == DepId(PackageSource, child[2])
        deps == CachedDeps(child[1], child[2])
    IN  /\ pc = "cached" /\ child \in children
        /\ children' = children \ {child}
        /\ AddNode(id, child[1])
        /\ AddEdge(item.parent, id)
        /\ SeeCached(child[2], id)
        /\ IF seen[child[2]] = Unseen /\ ~AtLimit /\ HasCache /\ deps # {}
           THEN Enqueue(NoTree, deps, id)
           ELSE UNCHANGED queue
        /\ UNCHANGED <<world, versions, ctxDone, pc, level, item, toDetect,
                       refs, results, toProcess, errors, stats>>

CachedDone ==
    /\ pc = "cached" /\ children = {}
    /\ pc' = "item"
    /\ UNCHANGED <<world, versions, ctxDone, queue, level, item, phase, graph,
                   seen, errors, stats>>

-----------------------------------------------------------------------------
Step ==
    \/ CutOff \/ Finish \/ BeginLevel \/ EndLevel \/ TakeItem
    \/ \E src \in Sources : Detect(src)
    \/ DetectDone
    \/ \E ref \in Refs : Resolve(ref)
    \/ ResolveDone
    \/ \E ref \in Refs : Process(ref)
    \/ ProcessDone
    \/ \E child \in Child : ProcessCached(child)
    \/ CachedDone

Returned == pc \in {"finished", "cutoff"}

\* The end of the function is not a deadlock.
Terminated == Returned /\ UNCHANGED vars

Next == Cancel \/ Step \/ Terminated

\* Crawl runs to its next step whenever it has one, and every Resolve
\* returns: the clients below it carry their own timeouts.  Nothing makes
\* the context end.
Spec == Init /\ [][Next]_vars /\ WF_vars(Step)

-----------------------------------------------------------------------------
(* Properties.                                                             *)

Graph == INSTANCE RootedGraph WITH
    Ids <- Ids, RootId <- RootId, nodes <- nodes, edges <- edges

\* The crawl's graph only grows, from the root down, and never dangles,
\* through dedup, failures, cache hits and a cancellation at any point.
GraphGrows == Graph!GraphSpec

Closed   == Graph!Closed
Anchored == Graph!Anchored

\* The items that are queued, or taken but not yet handled.
Pending == queue \union level

Busy == pc \in {"detect", "resolve", "process", "cached"}

\* Levels do not mix: while a level is handled the queue holds only items one
\* level deeper, between levels all items are equally deep.  The depth guard
\* of the crawl and the depth of its edges rest on it.
LevelByLevel ==
    /\ pc = "level" => level = {}
    /\ \A a, b \in queue : a.depth = b.depth
    /\ \A a, b \in level : a.depth = b.depth
    /\ pc # "level" => \A a \in level, b \in queue : b.depth = a.depth + 1
    /\ Busy => /\ \A a \in level : a.depth = item.depth
               /\ \A b \in queue : b.depth = item.depth + 1

\* A version is expanded at the smallest depth at which it occurs, so the
\* depth limit never hides a subtree that another path reaches earlier.
ShallowestFirst ==
    \A it \in Pending : \A e \in edges : e.to = it.parent => e.depth >= it.depth

\* No edge is deeper than MaxDepth, and no item is queued at MaxDepth.
DepthBound ==
    /\ \A e \in edges : e.depth <= MaxDepth
    /\ \A it \in Pending : it.depth < MaxDepth

\* Levels never mix and none lies beyond the limit: together, what makes the
\* depth of a queued item the number of its level (the loop of Crawl).
InDepthOrder == LevelByLevel /\ DepthBound

\* What waits to be expanded has not been expanded before and waits once:
\* diamonds and cycles among the dependencies cost one expansion.
ExpandOnce ==
    /\ \A a, b \in Pending : a.parent = b.parent => a = b
    /\ \A it \in Pending : \A e \in edges : e.from # it.parent
    /\ Busy => \A it \in Pending : it.parent # item.parent

-----------------------------------------------------------------------------
(* What makes these facts inductive.                                       *)

\* An item can be expanded: its parent is in the graph at the item's depth,
\* and only items with a parent carry cached children, because that path
\* has no fallback to the root.
Hooked(it) ==
    /\ ParentOf(it) \in nodes
    /\ Graph!FoundAt(ParentOf(it), it.depth)
    /\ it.deps # {} => it.parent # NoParent

GraphInv ==
    /\ Closed /\ Anchored
    /\ \A vk \in VKs : seen[vk] # Unseen => seen[vk] \in nodes
    /\ \A it \in Pending : Hooked(it)
    /\ Busy => Hooked(item)
    /\ pc = "cached" => item.deps # {}

DepthInv ==
    /\ LevelByLevel /\ DepthBound
    /\ Busy => item.depth < MaxDepth

\* A version without an entry in seen has no node under any type, so that a
\* node that is about to be queued is new, and nothing pending has it as
\* parent; the project's own item is the only one expanded from the root.
ExpandInv ==
    /\ ExpandOnce /\ ShallowestFirst
    /\ \A vk \in VKs : seen[vk] = Unseen =>
          \A s \in Sources \union {PackageSource} : DepId(s, vk) \notin nodes
    /\ \A it \in Pending : it.parent # RootId

-----------------------------------------------------------------------------
\* An entry of seen names a node of the graph, for that version, for good.
SeenIsStable ==
    [][\A vk \in VKs : seen[vk] # Unseen =>
          seen'[vk] = seen[vk] /\ seen[vk] \in nodes]_vars

\* A cancelled crawl never reports as CRITICAL a dependency whose only fault
\* is that the context ended while it was being resolved.
NoTimeoutBlame == \A e \in errors : e.why # "aborted"

\* Each version counts once in the statistics, as a hit or as a miss.
LookedUpOnce == hits + misses <= Cardinality({vk \in VKs : seen[vk] # Unseen})

\* The depth at which the crawl first met a node.
MinDepthOf(id) == CHOOSE d \in 1 .. MaxDepth :
                     /\ \E e \in edges : e.to = id /\ e.depth = d
                     /\ \A e \in edges : e.to = id => e.depth >= d

\* When Crawl returns by the end of its loop, the graph is complete: every
\* reference in the contents of the project, and of every dependency found
\* above the last level, is there, resolved or as an error node.
Complete ==
    pc = "finished" =>
      /\ \A q \in world.finds[RootTree] :
            \E e \in edges : e.from = RootId /\ e.to \in {NodeOf(q), ErrorId(q)}
      /\ \A r \in world.contents :
            NodeOf(r) \in nodes /\ MinDepthOf(NodeOf(r)) < MaxDepth =>
              \A q \in world.finds[r] :
                \E e \in edges : /\ e.from = NodeOf(r)
                                 /\ e.to \in {NodeOf(q), ErrorId(q)}

\* A child known from the cache whose own dependencies are not cached is
\* resolved afresh, so that what it depends on is in the graph too.
CacheMissFallsBack ==
    pc = "finished" =>
      \A r \in world.contents :
        /\ NodeOf(r) \in nodes /\ MinDepthOf(NodeOf(r)) < MaxDepth
        /\ CachedDeps(ProjectOf[r], VKOf[r]) = {}
        => \A q \in world.finds[r] :
              \E e \in edges : /\ e.from = NodeOf(r)
                               /\ e.to \in {NodeOf(q), ErrorId(q)}

\* Every project the scanned repository refers to has a node of its own.
EveryProjectShown ==
    pc = "finished" =>
      \A q \in world.finds[RootTree] :
        ErrorId(q) \in nodes \/ \E id \in nodes : owner[id] = ProjectOf[q]

\* The crawl always returns, cycles or not, cancelled or not.
Terminates == <>Returned
=============================================================================
