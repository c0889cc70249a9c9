------------------------------ MODULE Pipeline ------------------------------
(***************************************************************************)
(* From packages or a crawled graph to a scan's result: scorePipeline and  *)
(* its callers (internal/scanner/scanner.go), the passes of a crawl        *)
(* (internal/crawler/scorepass.go, cvepass.go, internal/scanner/crawl.go)  *)
(* and the supply chain graph built from a result (internal/graph).        *)
(*                                                                         *)
(* A world says what the outside answers during one scan: fetch[key] the   *)
(* registry's facts on a package, or NoInfo; repos[source] a repository's  *)
(* data, or NoRepo; advisories[name, version] the severities OSV lists, or *)
(* Fails.  One repository gets one answer for the whole of a scan.         *)
(*                                                                         *)
(* A definition named X_Y is X with a plausible mistake Y.                 *)
(***************************************************************************)
EXTENDS Scoring, Manifests

CONSTANT Root   \* RootNodeID

Key(p) == <<p.eco, p.name, p.version>>

At(f, x, default) == IF x \in DOMAIN f THEN f[x] ELSE default

\* FetchAll: one request for each key; an ecosystem without a client fails.
FetchAll(pkgs, world) == [k \in {Key(pkgs[i]) : i \in DOMAIN pkgs} |-> At(world.fetch, k, NoInfo)]

RepoOf(info, world) ==
    IF info = NoInfo THEN NoRepo ELSE IF info.source = "" THEN NoRepo ELSE At(world.repos, info.source, NoRepo)

-----------------------------------------------------------------------------
(* What is scanned *)

AllParsed(parsed) ==
    LET order == SetToSeq(DOMAIN parsed) IN
    IF \E d \in DOMAIN parsed : parsed[d] = Fails THEN Fails
    ELSE FlattenSeq([i \in DOMAIN order |-> parsed[order[i]]])

\* ScanURL: the packages of every directory of a remote tree that holds a
\* manifest; one that does not parse fails the scan.
PackagesOfTree(tree, only) ==
    LET eco(d)  == DetectEcosystem(DOMAIN tree[d])
        wanted  == {d \in DOMAIN tree : eco(d) # "" /\ (only = {} \/ eco(d) \in only)}
    IN  AllParsed([d \in wanted |-> ParseFiles(eco(d), tree[d])])

IfParsed(pkgs) == IF pkgs = Fails THEN <<>> ELSE pkgs
OrNothing(pkgs, actions) == IF pkgs = <<>> /\ ~actions THEN Fails ELSE pkgs

\* ScanDir: every ecosystem of one directory; one that does not parse is
\* left out.  Fails where nothing is left to report on.
PackagesOfDir(dir, only) ==
    LET ecos     == Where(DetectAllEcosystems(DOMAIN dir), LAMBDA e : only = {} \/ e \in only)
        packaged == Where(ecos, LAMBDA e : e # "actions")
    IN  IF ecos = <<>> THEN Fails
        ELSE OrNothing(FlattenSeq([i \in DOMAIN packaged |-> IfParsed(Parse(packaged[i], dir))]), Contains(ecos, "actions"))

-----------------------------------------------------------------------------
(* scorePipeline *)

\* The body of its loop: score, advisories for the resolved or else the latest
\* version, penalty.  A failed query counts as no advisories.
ScorePackage(pkg, cfg, noCVE, world) ==
    LET info    == At(world.fetch, Key(pkg), NoInfo)
        version == IF pkg.version # "" THEN pkg.version ELSE IF info = NoInfo THEN "" ELSE info.version
        answer  == IF noCVE \/ version = "" THEN <<>> ELSE At(world.advisories, <<pkg.name, version>>, <<>>)
    IN  ApplyCVEPenalty([Score(pkg, info, RepoOf(info, world), cfg.weights) EXCEPT
                             !.version = version, !.vulns = IF answer = Fails THEN <<>> ELSE answer])

\* computeGraphDepths: a breadth-first search from the packages nothing
\* depends on; whatever it does not reach is given depth 1.
ComputeGraphDepths(results, deps) ==
    LET names == {results[i].name : i \in DOMAIN results}
        isDep == UNION {ToSet(deps[q]) : q \in DOMAIN deps}
        within[k \in Nat] == IF k = 0 THEN names \ isDep
                             ELSE within[k - 1] \union UNION {ToSet(DepsOf(deps, n)) : n \in within[k - 1]}
        all   == within[Cardinality(names \union isDep)]
    IN  [n \in names \union all |-> IF n \in all THEN 1 + Min({k \in 0..Cardinality(all) : n \in within[k]}) ELSE 1]

\* A dependency listed twice below one parent counts twice.
DependedOn(deps, name) ==
    FoldFunction(+, 0, [q \in DOMAIN deps |-> Len(SelectSeq(deps[q], LAMBDA n : n = name))])

-----------------------------------------------------------------------------
(* The graph of a result.  Of two results with one name the last one's node   *)
(* gets the edges.                                                            *)

BuildFromScanResult(results, deps) ==
    LET last == ByName(results) IN
    [nodes |-> [id \in {Key(results[i]) : i \in DOMAIN results} |->
                   LET r == results[SelectLastInSeq(results, LAMBDA q : Key(q) = id)] IN
                   [own |-> r.own, risk |-> r.ownRisk, depth |-> r.depth]],
     adj   |-> [id \in {Key(last[q]) : q \in DOMAIN deps \intersect DOMAIN last} |->
                   LET kids == SelectSeq(deps[id[2]], LAMBDA n : n \in DOMAIN last) IN
                   [i \in DOMAIN kids |-> Key(last[kids[i]])]]]

\* graph.Propagate, over the nodes' identities and the depths of the graph.
GraphPropagate(g) ==
    [id \in DOMAIN g.nodes |-> LeastBelow(id, Followed(g.adj, g.nodes), g.nodes)]

\* Depths and numbers of dependents, once the transitive scores are there.
Placed(results, depths, deps) ==
    [i \in DOMAIN results |-> [results[i] EXCEPT !.depth = depths[results[i].name],
                                                 !.dependedOn = DependedOn(deps, results[i].name)]]

\* The facts on each package by its name, where there are any.
InfosOf(pkgs, fetched) ==
    LET last == LastNamed(SelectSeq(pkgs, LAMBDA p : fetched[Key(p)] # NoInfo)) IN
    [n \in DOMAIN last |-> fetched[Key(last[n])]]

Spread(results, deps) == Placed(results, ComputeGraphDepths(results, deps), deps)

\* What scorePipeline reports of its results, once they are placed.
Report(results, pkgs, fetched, scored, deps, cfg) ==
    LET direct == Cardinality({i \in DOMAIN pkgs : pkgs[i].depth <= 1})
        graph  == BuildFromScanResult(results, deps)
    IN  [packages |-> results, deps |-> deps, scored |-> scored,
         direct |-> direct, transitive |-> Len(pkgs) - direct,
         riskPaths |-> FindRiskPaths(results, deps, cfg.threshold, 10),
         suspicious |-> DetectSuspicious(results, InfosOf(pkgs, fetched)),
         passed |-> Passed(results, cfg.threshold),
         graph |-> graph, graphRisk |-> GraphPropagate(graph)]

ReportScored(pkgs, fetched, scored, deps, cfg) ==
    Report(Spread(Propagate(scored, deps), deps), pkgs, fetched, scored, deps, cfg)

ScorePipeline(pkgs, cfg, noCVE, world) ==
    LET fetched == FetchAll(pkgs, world) IN
    ReportScored(pkgs, fetched,
        [i \in DOMAIN pkgs |-> ScorePackage(pkgs[i], cfg, noCVE, [world EXCEPT !.fetch = fetched])],
        BuildDepsMap(pkgs), cfg)

-----------------------------------------------------------------------------
(* The passes of a crawl.  A node is a record [type, project, org, name,      *)
(* version, pinning, eco, score, risk, cves]; project is the path of its      *)
(* ProjectID, <<>> where it has none.                                         *)

PinningScore(p) ==
    CASE p \in {"sha", "digest"} -> 100 [] p = "exact version" -> 85 [] p = "semver range" -> 70
      [] p = "major tag" -> 40 [] p = "branch" -> 20 [] p = "n/a" -> 50 [] OTHER -> 0

Scored(node, score) == [node EXCEPT !.score = score, !.risk = RiskLevelFromScore(score)]

Registries == {"PyPI", "npm", "crates.io", "Go", "Packagist"}
MapEcosystem(eco) ==
    CASE eco \in {"python", "pypi"} -> "PyPI" [] eco \in {"rust", "crates.io"} -> "crates.io"
      [] eco \in {"go", "Go"} -> "Go" [] eco = "php" -> "Packagist" [] OTHER -> eco

\* The scorer of a package node.  Weights are the enterprise profile's and the
\* constraint counts as loose, the node does not have one.
ScorePackageNode(node, world) ==
    LET split   == Len(node.project) >= 2
        eco     == IF split THEN node.project[1] ELSE node.eco
        name    == IF split THEN node.project[2] ELSE node.name
        reg     == MapEcosystem(eco)
        info    == At(world.fetch, <<reg, name, node.version>>, NoInfo)
        pkg     == [name |-> name, version |-> node.version, eco |-> reg, type |-> "", depth |-> 0]
        as(result) == [node EXCEPT !.score = result.own, !.risk = result.ownRisk, !.eco = reg]
    IN  IF eco = "" THEN node
        ELSE IF reg \notin Registries THEN [node EXCEPT !.score = 0, !.risk = "CRITICAL"]
        ELSE IF info = NoInfo THEN [node EXCEPT !.score = 0, !.risk = "CRITICAL", !.eco = reg]
        ELSE as(Score(pkg, info, RepoOf(info, world), ProfileByName("enterprise").weights))

StarPoints(n) == IF n >= 10000 THEN 20 ELSE IF n >= 1000 THEN 15 ELSE IF n >= 100 THEN 10 ELSE IF n >= 10 THEN 5 ELSE 0
PeoplePoints(n) == IF n >= 20 THEN 20 ELSE IF n >= 5 THEN 15 ELSE IF n >= 2 THEN 10 ELSE 5

ScoreGitNode(node, world) ==
    LET repo == IF node.project = <<>> THEN NoRepo ELSE At(world.repos, node.project, NoRepo)
        base == PinningScore(node.pinning)
    IN  IF repo = NoRepo THEN Scored(node, Min({base + 10, 100}))
        ELSE Scored(node, Clamp(base + StarPoints(repo.stars) + PeoplePoints(repo.people)
                                - (IF repo.archived THEN 30 ELSE 0), 0, 100))

GitTypes == {"action", "precommit_hook", "git_submodule", "terraform_module"}

RunScorePass(nodes, world) ==
    [id \in DOMAIN nodes |->
        LET n == nodes[id] IN
        CASE id = Root            -> n
          [] id # Root /\ n.type = "package"     -> ScorePackageNode(n, world)
          [] id # Root /\ n.type \in GitTypes    -> ScoreGitNode(n, world)
          [] OTHER                -> Scored(n, PinningScore(n.pinning))]

\* The penalty lowers the score and leaves the risk as the score pass set it.
RunCVEPass(nodes, world) ==
    [id \in DOMAIN nodes |->
        LET n      == nodes[id]
            answer == At(world.advisories, <<n.name, n.version>>, <<>>)
        IN  IF n.version = "" THEN [n EXCEPT !.cves = "unchecked"]
            ELSE IF answer = Fails THEN [n EXCEPT !.cves = "unchecked"]
            ELSE [n EXCEPT !.cves = "checked", !.score = IF answer = <<>> THEN @ ELSE Penalised(@, answer)]]

OwnOrgFloor == 80

OrgPass(nodes, trusted) ==
    [id \in DOMAIN nodes |->
        [nodes[id] EXCEPT !.org = ClassifyOrg(nodes[id].project, trusted),
                          !.score = ApplyOrgTrust(@, ClassifyOrg(nodes[id].project, trusted), OwnOrgFloor)]]

CheckedBy(scored, noCVE, world) == IF noCVE THEN scored ELSE RunCVEPass(scored, world)

CrawlPasses_TrustFirst(nodes, noCVE, trusted, world) ==
    CheckedBy(OrgPass(RunScorePass(nodes, world), trusted), noCVE, world)

\* CrawlDir and CrawlURL: what they do to the graph of the crawl.
CrawlPasses(nodes, noCVE, trusted, world) ==
    OrgPass(CheckedBy(RunScorePass(nodes, world), noCVE, world), trusted)

\* CrawlResultToScanResult: a result for every node, the root's included, none
\* of them with a depth; a node counts as direct if no edge leads to it.
CrawlResultToScanResult(nodes, edges) ==
    [packages |-> [id \in DOMAIN nodes |->
                      LET n    == nodes[id]
                          risk == IF n.risk \in {"", "UNKNOWN"} THEN RiskLevelFromScore(n.score) ELSE n.risk
                      IN  [own |-> n.score, transitive |-> n.score, ownRisk |-> risk, depth |-> 0,
                           eco |-> IF n.eco # "" THEN n.eco ELSE IF Len(n.project) >= 2 THEN n.project[1] ELSE "",
                           dependsOn |-> {e[2] : e \in {e \in edges : e[1] = id}}]],
     direct   |-> Cardinality({id \in DOMAIN nodes : \A e \in edges : e[2] # id \/ e[1] \notin DOMAIN nodes})]
=============================================================================
