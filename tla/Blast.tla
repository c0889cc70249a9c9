-------------------------------- MODULE Blast --------------------------------
(***************************************************************************)
(* Questions asked of a finished scan's graph over HTTP: the blast radius   *)
(* of a package or an advisory, the simulation of one, and the gaps in the *)
(* supply chain (internal/server/blast.go, gaps.go), over the graph of     *)
(* internal/graph as memory holds it or as the store gives it back.        *)
(*                                                                         *)
(* A graph is [nodes, edges]: a function from identities to                *)
(* [type, name, version, pinning, meta], meta the set of its metadata's    *)
(* keys, and the sequence of edges [from, to, type].  An edge may lead to  *)
(* an identity without a node, and be there more than once.                *)
(*                                                                         *)
(* A definition named X_Y is X with a plausible mistake Y.                 *)
(***************************************************************************)
EXTENDS Versions, Lists

CONSTANTS
    PathDepth,  \* maxDepth of findExposurePaths; 10 in the code
    MaxPaths,   \* its maxPaths; 50 in the code
    NoGraph     \* a scan that has no graph stored or in memory, and the error of loading one

ASSUME PathsAssumption == PathDepth \in Nat /\ MaxPaths \in Nat

EmptyGraph == [nodes |-> <<>>, edges |-> <<>>]

-----------------------------------------------------------------------------
(* The graph and the store *)

NodeTypes == {"package", "repo", "action", "workflow", "docker_image", "script_download", "precommit_hook",
              "terraform_module", "git_submodule", "dev_tool", "build_tool"}

EdgeTypes == {"depends_on", "hosted_at", "uses_action", "bundles", "triggers", "resolves_to", "pulls_image",
              "downloads", "uses_hook", "uses_module", "includes_submodule", "uses_tool", "built_with"}

Pinnings == {"sha", "digest", "exact_version", "semver_range", "major_tag", "branch", "unpinned", "n/a"}

ParseNodeType(s) == IF s \in NodeTypes THEN s ELSE "package"
ParseEdgeType(s) == IF s \in EdgeTypes THEN s ELSE "depends_on"
ParsePinning(s)  == IF s \in Pinnings THEN s ELSE "n/a"

\* What a scan leaves in the store; nodes in no order, edges in theirs.
SaveGraph(g) ==
    [nodes |-> {[id |-> id, type |-> g.nodes[id].type, name |-> g.nodes[id].name, version |-> g.nodes[id].version,
                 pinning |-> g.nodes[id].pinning, meta |-> g.nodes[id].meta] : id \in DOMAIN g.nodes},
     edges |-> g.edges]

RebuildGraph(stored) ==
    [nodes |-> [id \in {n.id : n \in stored.nodes} |->
                   LET n == CHOOSE n \in stored.nodes : n.id = id IN
                   [type |-> ParseNodeType(n.type), name |-> n.name, version |-> n.version,
                    pinning |-> ParsePinning(n.pinning), meta |-> n.meta]],
     edges |-> [i \in DOMAIN stored.edges |-> [stored.edges[i] EXCEPT !.type = ParseEdgeType(@)]]]

\* loadGraph: the stored graph if it is read and has nodes, else the one in
\* memory, else an empty one: for a scan that has not finished as for one
\* without a graph, and for one whose stored graph could not be read.
LoadGraph(scan) ==
    IF "graph" \notin scan.failing /\ scan.stored # NoGraph /\ scan.stored.nodes # {} THEN RebuildGraph(scan.stored)
    ELSE IF "job" \in scan.failing THEN NoGraph
    ELSE IF scan.inMemory # NoGraph THEN scan.inMemory ELSE EmptyGraph

Adj(g, id) ==
    LET out == Where(g.edges, LAMBDA e : e.from = id) IN [i \in DOMAIN out |-> out[i].to]

\* Graph.FindPaths: every path that does not meet itself, of at most maxDepth
\* edges, once for every combination of the edges along it.
Dfs(g, path, dst, maxDepth) ==
    LET ids == ToSet(path) \union {e.to : e \in ToSet(g.edges)}
        dfs[p \in Seq(ids)] ==
            IF Last(p) = dst /\ Len(p) > 1 THEN <<p>>
            ELSE IF Len(p) > maxDepth THEN <<>>
            ELSE LET next == Where(Adj(g, Last(p)), LAMBDA id : id \notin ToSet(p)) IN
                 FlattenSeq([i \in DOMAIN next |-> dfs[Append(p, next[i])]])
    IN  dfs[path]

FindPaths(g, src, dst, maxDepth) == Dfs(g, <<src>>, dst, maxDepth)

-----------------------------------------------------------------------------
(* Blast radius *)

\* Fold compares names as strings.EqualFold does.
Fold(name) == IF name = "B" THEN "b" ELSE name

FindAffectedNodes(g, name, specs) ==
    LET range == ParseRange(specs)
        version(id) == ParseVersion(g.nodes[id].version)
    IN  IF range = Unparsed THEN {}
        ELSE {id \in DOMAIN g.nodes :
                 /\ g.nodes[id].type = "package" /\ Fold(g.nodes[id].name) = Fold(name)
                 /\ version(id) # Unparsed /\ InRange(range, version(id))}

Parents(g, ids) == {e.from : e \in {e \in ToSet(g.edges) : e.to \in ids}}

\* Mistake: only what depends on a seed directly.
ReverseBFS_OneLevel(g, seeds) == seeds \union Parents(g, seeds)

ReverseBFS(g, seeds) == Grown({<<e.to, e.from>> : e \in ToSet(g.edges)}, seeds)

FindRootNodes(g) == DOMAIN g.nodes \ {e.to : e \in ToSet(g.edges)}

\* All that may be found: the roots are met in any order of a map, and for
\* each of them the affected nodes in an order of their own, which decides
\* what is left out past the limit.
FindExposurePaths(g, affected) ==
    LET starts == FindRootNodes(g)
        found  == [src \in starts |-> [dst \in affected |->
                      IF src = dst THEN <<>> ELSE FindPaths(g, src, dst, PathDepth)]]
        from(src, ends) == FlattenSeq([k \in DOMAIN ends |-> found[src][ends[k]]])
        met(roots, ends) == FlattenSeq([i \in DOMAIN roots |-> from(roots[i], ends[roots[i]])])
        cut(paths) == SubSeq(paths, 1, Min({Len(paths), MaxPaths}))
    IN  {cut(met(roots, ends)) : roots \in SetToSeqs(starts), ends \in [starts -> SetToSeqs(affected)]}

\* The nodes on the longest path.
BlastDepth(paths) == Max({0} \union {Len(paths[i]) : i \in DOMAIN paths})

\* computeBlastForMultiplePackages, all that it may answer; computeBlast is it
\* for one package.
ComputeBlast(g, pkgs) ==
    LET direct   == UNION {FindAffectedNodes(g, pkgs[i].name, pkgs[i].range) : i \in DOMAIN pkgs}
        affected == ReverseBFS(g, direct)
        body(paths) == [affected |-> affected, paths |-> paths, total |-> Cardinality(affected),
                        depth |-> BlastDepth(paths)]
    IN  IF direct = {} THEN {[affected |-> {}, paths |-> <<>>, total |-> 0, depth |-> 0]}
        ELSE {body(paths) : paths \in FindExposurePaths(g, affected)}

\* extractAffectedPackages: of the events of a range the last introduction and
\* the last fix, "" where there is none; "0" stands for the beginning.
RangeOf(events) ==
    LET from == SelectSeq(events, LAMBDA e : e.introduced # "")
        to   == SelectSeq(events, LAMBDA e : e.fixed # "")
        low  == IF from = <<>> THEN "" ELSE Last(from).introduced
    IN  (IF low \in {"", "0"} THEN <<>> ELSE <<[op |-> ">=", version |-> low]>>)
        \o (IF to = <<>> THEN <<>> ELSE <<[op |-> "<", version |-> Last(to).fixed]>>)

\* A range that never begins nor ends is left out.
ExtractAffectedPackages(advisory) ==
    LET all == FlattenSeq([i \in DOMAIN advisory |->
                   [k \in DOMAIN advisory[i].ranges |->
                       [name |-> advisory[i].name, range |-> RangeOf(advisory[i].ranges[k])]]])
    IN  SelectSeq(all, LAMBDA p : p.range # <<>>)

-----------------------------------------------------------------------------
(* The handlers, and all that they may answer.  scan is [known, stored,        *)
(* inMemory, failing], failing the reads of the store that return an error:   *)
(* of the scan, of its graph, and once more of the scan for its result; osv   *)
(* is what OSV answers for the advisory asked for, Unparsed where it fails.   *)
(* A body that is no JSON is a request whose mode is Unparsed.                *)

Answer(status, body) == [status |-> status, body |-> body]

\* Every error of the store is taken for a scan that is not there.
Unknown(scan) == ~scan.known \/ "scan" \in scan.failing

HandleBlastRadius(req, scan, osv) ==
    LET g    == LoadGraph(scan)
        pkgs == IF req.mode = "cve" THEN ExtractAffectedPackages(osv) ELSE <<[name |-> req.name, range |-> req.range]>>
    IN  IF req.mode = Unparsed THEN {Answer(400, {})}
        ELSE IF Unknown(scan) THEN {Answer(404, {})}
        ELSE IF g = NoGraph THEN {Answer(500, {})}
        ELSE IF req.mode \notin {"cve", "package"} \/ req.name = "" \/ (req.mode = "package" /\ req.range = <<>>)
        THEN {Answer(400, {})}
        ELSE IF req.mode = "cve" /\ osv = Unparsed THEN {Answer(502, {})}
        ELSE {Answer(200, body) : body \in ComputeBlast(g, pkgs)}

HandleSimulate(req, scan) ==
    LET g    == LoadGraph(scan)
        pkgs == <<[name |-> req.name, range |-> req.range]>>
    IN  IF req.mode = Unparsed \/ req.name = "" \/ req.range = <<>> THEN {Answer(400, {})}
        ELSE IF Unknown(scan) THEN {Answer(404, {})}
        ELSE IF g = NoGraph THEN {Answer(500, {})}
        ELSE {Answer(200, body) : body \in ComputeBlast(g, pkgs)}

-----------------------------------------------------------------------------
(* Gaps *)

GapOf(node) ==
    CASE node.type = "action" /\ node.pinning \notin {"sha", "n/a"}                 -> "unpinned_action"
      [] node.type = "docker_image" /\ node.pinning \notin {"digest", "sha", "n/a"} -> "unpinned_docker"
      [] node.type = "package" /\ node.version = ""                                 -> "no_lockfile"
      [] node.type = "workflow" /\ "permissions_broad" \in node.meta                -> "broad_permissions"
      [] node.type = "script_download"                                              -> "script_download"
      [] OTHER                                                                      -> "none"

AnalyzeGaps(g) == {<<GapOf(g.nodes[id]), id>> : id \in {id \in DOMAIN g.nodes : GapOf(g.nodes[id]) # "none"}}

GapTypes == {"unpinned_action", "unpinned_docker", "no_lockfile", "broad_permissions", "script_download"}

HandleGaps(scan) ==
    LET g    == LoadGraph(scan)
        gaps == AnalyzeGaps(g)
    IN  IF Unknown(scan) THEN Answer(404, {})
        ELSE IF g = NoGraph THEN Answer(500, {})
        ELSE Answer(200, [gaps |-> gaps, summary |-> [t \in GapTypes |-> Cardinality({p \in gaps : p[1] = t})]])
=============================================================================
