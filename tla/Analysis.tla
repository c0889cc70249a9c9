------------------------------ MODULE Analysis ------------------------------
(***************************************************************************)
(* One question put to depscope's analyses and the answer it gets: a score, *)
(* a scan of a repository or a directory, the passes over a crawl's graph, *)
(* the reading of a lock file, a comparison of ranges, discover, the check *)
(* for compromised packages, a request to the blast radius endpoints, a    *)
(* scan of workflows.  The analyses compute; what makes them wrong is what *)
(* they are given, so the questions are all that Requests holds, and the   *)
(* properties compare each answer with its definition.                     *)
(*                                                                         *)
(* The operators are those of the modules extended, each a part of the     *)
(* program; an action here is the entry point that puts them together.     *)
(***************************************************************************)
EXTENDS Pipeline, Discover, Blast, Compromised

CONSTANTS
    Requests,           \* from the kind of a question to the set of its instances
    Pending,            \* no answer yet
    WorkflowScan(_, _)  \* a scan's answer for workflow files, see Workflows

Instances(k) == IF k \in DOMAIN Requests THEN Requests[k] ELSE {}

\* A package that has facts, and the whole numbers a configuration gives to
\* some of the factors.
ScoreRequest(q) ==
    /\ q.info # NoInfo
    /\ DOMAIN q.overrides \subseteq ToSet(Factors)
    /\ \A f \in DOMAIN q.overrides : q.overrides[f] \in Int

\* A graph as a crawl leaves it, before any of the passes, and lists of
\* advisories.
NodeFields == {"type", "project", "org", "name", "version", "pinning", "eco", "score", "risk", "cves"}

CrawlRequest(q) ==
    /\ \A id \in DOMAIN q.nodes :
           DOMAIN q.nodes[id] = NodeFields /\ q.nodes[id].score \in 0..100 /\ q.nodes[id].cves # "checked"
    /\ \A k \in DOMAIN q.world.advisories :
           q.world.advisories[k] # Fails => q.world.advisories[k] \in Seq(STRING)

\* Directories whose package.json, unless it does not parse, declares finitely
\* many packages, and whose package-lock.json has one entry for a path of a
\* workspace.
NpmLockOf(dir) ==
    IF "package-lock.json" \notin DOMAIN dir THEN {}
    ELSE IF dir["package-lock.json"] = Malformed THEN {} ELSE dir["package-lock.json"]

LockedByNpm(dir) == "package-lock.json" \in DOMAIN dir \/ "pnpm-lock.yaml" \notin DOMAIN dir

CompromisedRequest(q) ==
    \A d \in DiscoverManifests(q.fs) :
        LET json == q.fs[d]["package.json"] IN
        /\ json # Malformed =>
               /\ json.dependencies \union json.dev \subseteq [name : STRING, constraint : Constraints]
               /\ IsFiniteSet(json.dependencies \union json.dev)
        /\ \A e, f \in NpmLockOf(q.fs[d]) : e.within = f.within /\ e.path = f.path => e = f
        /\ \A e \in NpmLockOf(q.fs[d]) : e.version \in STRING

\* A directory: what the decoders yield for the files there are parsers for,
\* Malformed where one returns an error.
ParsedLocks   == Seq([name : STRING, version : STRING, deps : Seq(STRING)])
Requirement   == [name : STRING, constraint : Constraints]
Declared(set) == set \subseteq Requirement /\ IsFiniteSet(set)

Content(file, x) ==
    /\ file \in {"uv.lock", "poetry.lock", "Cargo.lock", "pnpm-lock.yaml"} => x \in ParsedLocks
    /\ file = "requirements.txt" => x \in Seq(Requirement)
    /\ file = "pyproject.toml"   => x.project \in Seq(Requirement) /\ Declared(x.poetry)
    /\ file = "Cargo.toml"       => Declared(x.deps)
    /\ file = "composer.json"    => Declared(x.require) /\ Declared(x.dev)
    /\ file = "composer.lock"    => x.packages \in ParsedLocks /\ x.dev \in ParsedLocks
    /\ file = "package.json"     => Declared(x.dependencies) /\ Declared(x.dev)
    /\ file = "go.mod"           => x \in Seq([name : STRING, version : STRING, indirect : BOOLEAN])

Directory(dir) ==
    /\ "" \notin DOMAIN dir
    /\ \A f \in DOMAIN dir :
           \/ dir[f] = Malformed /\ f \notin {"requirements.txt", "pnpm-lock.yaml"}
           \/ Content(f, dir[f])

\* What the registries, the repositories and OSV answer.
WorldRequest(w) ==
    /\ DOMAIN w = {"fetch", "repos", "advisories"}
    /\ \A k \in DOMAIN w.advisories : w.advisories[k] # Fails => w.advisories[k] \in Seq(STRING)

UrlRequest(q) == IsFiniteSet(DOMAIN q.tree) /\ (\A d \in DOMAIN q.tree : Directory(q.tree[d])) /\ WorldRequest(q.world)
DirRequest(q) == Directory(q.dir) /\ WorldRequest(q.world)

\* A graph as a scan leaves it: finitely many nodes of the types and pinnings
\* there are, and edges of the types there are, to whatever.
ScannedNode == [type : NodeTypes, name : STRING, version : STRING, pinning : Pinnings, meta : SUBSET STRING]
ScannedEdge == [from : STRING, to : STRING, type : EdgeTypes]

BlastRequest(q) ==
    LET nodes == q.graph.nodes
        edges == q.graph.edges
    IN  /\ q.kept \in {"store", "memory", "nowhere"} /\ q.failing \subseteq {"scan", "graph", "job"}
        /\ q.graph # NoGraph /\ SaveGraph(q.graph) # NoGraph /\ EmptyGraph # NoGraph
        /\ q.graph = [nodes |-> nodes, edges |-> edges]
        /\ IsFiniteSet(DOMAIN nodes) /\ nodes \in [DOMAIN nodes -> ScannedNode]
        /\ edges \in Seq(ScannedEdge)

\* A range that parses, for a constraint that need not.
RangeRequest(q) == ParseRange(q.range) # Unparsed

ASSUME RequestsAssumption ==
    /\ \A q \in Instances("score") : ScoreRequest(q)
    /\ \A q \in Instances("crawl") : CrawlRequest(q)
    /\ \A q \in Instances("compromised") : CompromisedRequest(q)
    /\ \A q \in Instances("range") : RangeRequest(q)
    /\ \A q \in Instances("blast") : BlastRequest(q)
    /\ \A q \in Instances("url") : UrlRequest(q)
    /\ \A q \in Instances("dir") : DirRequest(q)
    /\ \A q \in Instances("lock") : Directory(q.dir)

VARIABLES
    kind,       \* what is asked
    request,    \* the question
    reply       \* the answer

vars == <<kind, request, reply>>

Init ==
    /\ kind \in DOMAIN Requests
    /\ request \in Requests[kind]
    /\ reply = Pending

Reply(k, answer) ==
    /\ kind = k
    /\ reply = Pending
    /\ reply' = answer
    /\ UNCHANGED <<kind, request>>

\* One package, with the weights of a profile as a configuration changes them.
ScoreOne ==
    Reply("score",
        {[weights |-> w, result |-> Score(request.pkg, request.info, request.repo, w)]
            : w \in WithWeights(ProfileByName(request.profile).weights, request.overrides)})

Pipelined(pkgs) ==
    IF pkgs = Fails THEN Fails
    ELSE ScorePipeline(pkgs, ProfileByName(request.profile), request.noCVE, request.world)

ScanURL == Reply("url", Pipelined(PackagesOfTree(request.tree, request.only)))

ScanDir == Reply("dir", Pipelined(PackagesOfDir(request.dir, request.only)))

Crawled(nodes, edges) == [nodes |-> nodes, result |-> CrawlResultToScanResult(nodes, edges)]

CrawlScan ==
    Reply("crawl", Crawled(CrawlPasses(request.nodes, request.noCVE, request.trusted, request.world), request.edges))

\* A directory as the scan, the crawl's resolver and the indexer read it.
Reading(dir, eco, pkgs) ==
    IF pkgs = Fails THEN Fails
    ELSE [packages |-> pkgs,
          deps     |-> BuildDepsMap(pkgs),
          reached  |-> Reached(Detect(FreshResolver, dir)),
          links    |-> UNION {IndexedPackages(dir, f) : f \in DOMAIN KnownManifests \intersect DOMAIN dir},
          edges    |-> ExtractDependencyEdges(eco, dir)]

ReadLocks ==
    LET eco == DetectEcosystem(DOMAIN request.dir) IN
    Reply("lock", Reading(request.dir, eco, ParseFiles(eco, request.dir)))

CompareRanges ==
    Reply("range", [overlaps  |-> ConstraintOverlaps(request.constraint, ParseRange(request.range)),
                    satisfied |-> {v \in DOMAIN Text : SemverSatisfies(request.constraint, v)}])

DiscoverExposed == Reply("discover", Run(request.cfg, request.fs, request.registry))

DiscoverCached == Reply("cached", DiscoverFromCache(request.edges, request.child, request.range))

CompromisedIn(fs, links, targets, edges) ==
    IF targets = Fails THEN Fails
    ELSE [files |-> ScanCompromised(fs, targets),
          index |-> ScanFromIndex(links, targets),
          trace |-> {TraceDependencyPath(edges, l.project) : l \in links}]

CheckCompromised ==
    Reply("compromised",
        CompromisedIn(request.fs, IndexLinks(request.fs), ParseTargets(request.entries), request.edges))

\* The scan a request of the endpoints is about: its graph in the store, in
\* memory, or nowhere, as that of a scan that still runs.
ScanOf(q) ==
    [known    |-> q.known, failing |-> q.failing,
     stored   |-> IF q.kept = "store" THEN SaveGraph(q.graph) ELSE NoGraph,
     inMemory |-> IF q.kept = "memory" THEN q.graph ELSE NoGraph]

ServeGraphQuestions ==
    Reply("blast", [blast    |-> HandleBlastRadius(request.asked, ScanOf(request), request.osv),
                    simulate |-> HandleSimulate(request.asked, ScanOf(request)),
                    gaps     |-> HandleGaps(ScanOf(request))])

ScanActions == Reply("actions", WorkflowScan(request.files, request.github))

Next ==
    \/ ScoreOne \/ ScanURL \/ ScanDir \/ CrawlScan \/ ReadLocks \/ CompareRanges
    \/ DiscoverExposed \/ DiscoverCached \/ CheckCompromised \/ ServeGraphQuestions \/ ScanActions

Spec == Init /\ [][Next]_vars

-----------------------------------------------------------------------------
(* What the answers are compared with *)

Answered(k) == kind = k /\ reply \notin {Pending, Fails}

\* A sequence each of whose steps is one of the pairs.
Follows(path, pairs) == \A i \in 1..(Len(path) - 1) : <<path[i], path[i + 1]>> \in pairs

PairsOf(deps) == UNION {{<<q, n>> : n \in ToSet(deps[q])} : q \in DOMAIN deps}

\* The versions a constraint stands for.
Admits(constraint, v) ==
    LET c == ParseRange(constraint) IN
    IF constraint = <<>> THEN TRUE
    ELSE IF c # Unparsed THEN InRange(c, v)
    ELSE ParseVersion(constraint[1].version) # Unparsed /\ Compare(v, ParseVersion(constraint[1].version)) = 0

\* Constraints that are read as what they say: not those with "===", whose bounds
\* are exclusive, nor a bare version with specifiers behind it, which is read as
\* one version.
Plain(c) == (\A i \in DOMAIN c : c[i].op # "===") /\ (c # <<>> /\ c[1].op = "" => Len(c) = 1)

InSome(range, Test(_)) == \E s \in DOMAIN Text : ParseVersion(s) # Unparsed /\ InRange(range, ParseVersion(s)) /\ Test(s)

-----------------------------------------------------------------------------
(* Properties *)

\* However a configuration changes the weights and whichever factor has no
\* data, a score lies between the lowest and the highest of the factors that
\* have, and within what truncation may move of their weighted mean; the
\* weights add up to 100 unless all of them are given, and none is negative
\* unless one is given negative or more than 100 is given.
\* (redistributeUnavailable, WithWeights)
ScoreIsWeightedMean ==
    Answered("score") =>
        LET scores == FactorScores(request.pkg, request.info, request.repo)
            known  == DOMAIN scores \ Unavailable(scores)
        IN  \A r \in reply :
            LET share == Total(Restrict(r.weights, known))
                sum   == Total([f \in known |-> r.weights[f] * scores[f]])
                own   == r.result.own
                given == DOMAIN request.overrides = DOMAIN r.weights
                positive == \A f \in DOMAIN r.weights : r.weights[f] >= 0
            IN  /\ ~given => Total(r.weights) = 100
                /\ Total(request.overrides) <= 100 /\ (\A f \in DOMAIN request.overrides : request.overrides[f] >= 0) => positive
                /\ Total(r.weights) = 100 /\ positive /\ share > 0 =>
                       /\ own \in Min({scores[f] : f \in known})..Max({scores[f] : f \in known})
                       /\ own * share - sum \in -(6 * share)..(6 * share)

\* The transitive score of every package of a scan is the least of what is
\* found below it, cycles and packages of two versions included, whatever
\* order the walk takes; every weak package ends a risk path from a package
\* nothing depends on or from a cycle, and every risk path follows the
\* dependencies to a weak package.  (core.Propagate, FindRiskPaths)
RiskTravelsUp ==
    Answered("url") \/ Answered("dir") =>
        LET of     == ByName(reply.scored)
            pairs  == {p \in PairsOf(reply.deps) : p[1] \in DOMAIN of /\ p[2] \in DOMAIN of}
            below(n) == Downstream(pairs, {p[2] : p \in {p \in pairs : p[1] = n}})
            weak   == {n \in DOMAIN of : of[n].own < ProfileByName(request.profile).threshold}
            ends   == [i \in DOMAIN reply.riskPaths |-> Last(reply.riskPaths[i].chain)]
        IN  /\ \A i \in DOMAIN reply.packages :
                   reply.packages[i].transitive =
                       Min({100} \union {EffectiveScore(of[n].own, DepthOr1(of[n].depth)) : n \in below(reply.packages[i].name)})
            /\ Len(ends) < 10 => weak \subseteq ToSet(ends)
            /\ \A i \in DOMAIN ends : ends[i] \in weak /\ Follows(reply.riskPaths[i].chain, pairs)
            /\ \A i, k \in DOMAIN ends : i < k => of[ends[i]].own <= of[ends[k]].own

\* The passes over a crawl's graph come in an order that keeps what each
\* promises: a package of one's own organisation stays at its floor whatever
\* advisories there are, and no advisory, nor the lack of an answer, raises a
\* score.  (scanner.CrawlDir, CrawlURL)
PassesCompose ==
    Answered("crawl") =>
        \A without \in {CrawlPasses(request.nodes, TRUE, request.trusted, request.world)}, id \in DOMAIN reply.nodes :
            LET n == reply.nodes[id] IN
            /\ n.score \in 0..100
            /\ n.score <= without[id].score
            /\ ClassifyOrg(n.project, request.trusted) = "own" => n.score >= OwnOrgFloor
            /\ n.cves = "checked" => n.version # "" /\ At(request.world.advisories, <<n.name, n.version>>, <<>>) # Fails


\* The entries of a lock file, by the names its parser gives them.
LockEntriesOf(eco, dir) ==
    LET file == IF eco = "python" /\ "uv.lock" \in DOMAIN dir THEN "uv.lock" ELSE LockFor(eco) IN
    IF file \notin DOMAIN dir \/ eco = "npm" THEN <<>>
    ELSE CASE eco = "python" -> Lowered(dir[file])
           [] eco = "php"    -> WithoutPlatform(dir[file].packages \o dir[file].dev)
           [] OTHER          -> dir[file]

\* The names of the packages a scan has: every entry of a lock of Python or
\* PHP, and what composer.json declares besides; of Rust what Cargo.toml
\* declares, and the entries of its lock only where it declares nothing; of npm
\* what package.json declares.
PackagesOf(eco, lock, dir) ==
    LET locked   == {lock[i].name : i \in DOMAIN lock}
        named(s) == {d.name : d \in s}
    IN  CASE eco = "python" -> locked
          [] eco = "php"    -> locked \union (named(dir["composer.json"].require \union dir["composer.json"].dev) \ Platform)
          [] eco = "npm"    -> named(dir["package.json"].dependencies \union dir["package.json"].dev)
          [] eco = "rust"   -> LET toml == dir["Cargo.toml"] IN
                               IF toml.deps # {} THEN named(toml.deps) ELSE locked \ ({toml.root} \union toml.members)

\* The packages of a project with a lock file are those of PackagesOf, and the
\* tree has exactly the dependencies that the lock lists on them, each once;
\* a package is direct only if the lock lists no dependency on it; the indexer,
\* which reads the same files by other code, finds all that the lock lists,
\* unless it is uv's or npm's; and the crawl reaches what follows from the
\* packages the lock lists no dependency on, and nothing else.  npm's lock
\* says nothing but versions, and the tree is flat.  Two parts of this are not
\* what is meant: the packages below those a Cargo.toml declares are left out,
\* and as its lock lists the crate itself with all it declares, the crawl of
\* such a crate reaches nothing.
\* (RustParser.ParseFiles, BuildDepsMap, extractDependencyEdges,
\* PackageResolver.Detect)
TreeFollowsLock ==
    Answered("lock") =>
        LET eco     == DetectEcosystem(DOMAIN request.dir)
            lock    == LockEntriesOf(eco, request.dir)
            names   == PackagesOf(eco, lock, request.dir)
            depends == UNION {{<<lock[i].name, d>> : d \in ToSet(lock[i].deps)} : i \in DOMAIN lock}
            listed  == {p \in depends : p[2] \in names}
            used    == {p[2] : p \in listed}
            norm(n) == IF eco = "python" THEN Lower(n) ELSE n
        IN  lock # <<>> \/ eco = "npm" =>
            /\ {reply.packages[i].name : i \in DOMAIN reply.packages} = names
            /\ PairsOf(reply.deps) = listed
            /\ \A q \in DOMAIN reply.deps : IsInjective(reply.deps[q])
            /\ \A i \in DOMAIN reply.packages : reply.packages[i].depth = 1 <=> reply.packages[i].name \notin used
            /\ LockFor(eco) \in DOMAIN request.dir /\ "uv.lock" \notin DOMAIN request.dir /\ eco # "npm" =>
                   {<<norm(e.parent[2]), norm(e.child[2])>> : e \in reply.edges} = depends
            /\ reply.reached = Downstream({p \in listed : p[1] \in names}, names \ used)

\* A constraint is said to allow no version of a range only where there is none
\* in both, for constraints that are read as what they say.
NoOverlapMissed ==
    Answered("range") =>
        LET allowed(v) == Admits(request.constraint, ParseVersion(v))
        IN  reply.overlaps = FALSE /\ Plain(request.constraint) /\ Plain(request.range) =>
                ~InSome(ParseRange(request.range), allowed)

\* Where discover reports a project as safe none of its files locks or allows a
\* version in the range; a locked version in the range makes it confirmed,
\* whatever the others say.  A version is what its text is read as.  Left out are
\* constraints that are not read as what they say, and what only the registry
\* knows of.  A requirement that pins a version and goes on, as in
\* "==1.1.0,<2.0.0", is one of these: all of its text is taken for a version, a
\* pre-release of 1.1.0, and such a project can be called safe.
NoExposureMissed ==
    Answered("discover") =>
        LET range == ParseRange(request.cfg.range)
            here(p) == {f \in ToSet(MatchPackageInProject(request.cfg.name, request.fs, p)) : EcosystemForFile(f) # ""}
            among(pkgs) == IF pkgs = Fails THEN {} ELSE {k \in ToSet(pkgs) : Lower(k.name) = Lower(request.cfg.name)}
            named(p, f) == among(ParseFiles(EcosystemForFile(f), [x \in {f} |-> request.fs[p.dir].files[f]]))
            pinned(k) == k.eco # "python" \/ Len(k.constraint) = 1
            hit(k) == IF k.version # "" THEN pinned(k) /\ InSome(range, LAMBDA v : v = k.version)
                      ELSE /\ Plain(k.constraint) /\ Plain(request.cfg.range)
                           /\ InSome(range, LAMBDA v : Admits(k.constraint, ParseVersion(v)))
        IN  \A p \in DOMAIN reply : \A all \in {UNION {named(p, f) : f \in here(p)}} :
                /\ all # {} => Len(reply[p]) = 1
                /\ \A k \in all : hit(k) =>
                       /\ reply[p][1].status # "safe"
                       /\ k.version # "" => reply[p][1].status = "confirmed"

\* No project is called safe that is not.  (ConstraintOverlaps, Classify,
\* deduplicateMatches)
NoFalseSafe == NoOverlapMissed /\ NoExposureMissed

\* The blast radius is exactly what leads to a package in the range, along
\* cycles and doubled edges; every path it names runs from a root to one of
\* these within the limits, and below the limits none is missing, in whatever
\* order the maps are ranged over; a graph that was stored and rebuilt gives
\* the answers the one in memory gives, and a simulation is as exact as the
\* real thing.  Of more paths than the limit two answers may show different
\* ones.  A stored graph that cannot be read is answered for as an empty one,
\* and so is a scan without any.  (computeBlast, rebuildGraph, loadGraph)
BlastIsExact ==
    Answered("blast") =>
        LET lost  == request.kept = "nowhere" \/ (request.kept = "store" /\ "graph" \in request.failing)
            g     == IF lost THEN EmptyGraph ELSE request.graph
            q     == request.asked
            pairs == {<<e.from, e.to>> : e \in ToSet(g.edges)}
            pkgs  == IF q.mode = "cve" THEN ExtractAffectedPackages(request.osv) ELSE <<[name |-> q.name, range |-> q.range]>>
            hits  == UNION {FindAffectedNodes(g, pkgs[i].name, pkgs[i].range) : i \in DOMAIN pkgs}
            up    == Downstream({<<p[2], p[1]>> : p \in pairs}, hits)
            ids   == DOMAIN g.nodes \union UNION {{p[1], p[2]} : p \in pairs}
            paths == {s \in UNION {[1..k -> ids] : k \in 2..(PathDepth + 1)} :
                         /\ Follows(s, pairs) /\ IsInjective(s)
                         /\ s[1] \in FindRootNodes(g) /\ Last(s) \in up}
            exact(body) ==
                /\ body.affected = up /\ body.total = Cardinality(up)
                /\ ToSet(body.paths) \subseteq paths
                /\ Len(body.paths) < MaxPaths => ToSet(body.paths) = paths
                /\ body.depth = Max({0} \union {Len(s) : s \in ToSet(body.paths)})
        IN  /\ \A a \in reply.blast : a.status = 200 => exact(a.body)
            /\ q.mode = "package" =>
                   \A a \in reply.blast, b \in reply.simulate :
                       a.status = 200 => b.status = 200 /\ exact(b.body)
            /\ reply.gaps.status = 200 => reply.gaps.body.gaps = AnalyzeGaps(g)
            /\ (reply.gaps.status = 404) <=> ~request.known \/ "scan" \in request.failing

\* A manifest is reported for a bad version exactly if it has one: whatever the
\* order in which a package-lock.json is read, a package locked at one version
\* is judged by that version alone, direct if the manifest declares it, one
\* that is not locked by the bad versions its constraint admits, or by any bad
\* entry if it admits everything; and the index gives the answer of the files
\* for what it holds of them.  Locked is what a lock file lists below the
\* project's own node_modules: a bad version that a workspace has below its own
\* is not looked for.  (processManifest, ScanCompromisedFromIndex)
CompromisedAreFound ==
    Answered("compromised") =>
        \A d \in {d \in DiscoverManifests(request.fs) : LockedByNpm(request.fs[d])}, o \in reply.files :
            LET bad    == TargetMap(ParseTargets(request.entries))
                direct == ParseDirectDeps(request.fs[d]["package.json"])
                lock   == NpmLockOf(request.fs[d])
                versions(n) == {e.version : e \in {e \in Installed(lock) : e.version # "" /\ Last(e.path) = n}}
                said(n)     == {f \in o.findings : f.manifest = d /\ f.name = n}
                relation(n) == IF n \in DOMAIN direct THEN "direct" ELSE "indirect"
                exact(r)    == Len(r) = 1 /\ r[1].op \in {"", "="}
                any(c)      == c # <<>> /\ \A i \in DOMAIN c : c[i].op \in {"*", "latest"}
                admits(c, r) == any(c) \/ (exact(r) /\ SemverSatisfies(c, r[1].version))
            IN  /\ \A n \in DOMAIN bad :
                      /\ versions(n) # {} => said(n) \in SUBSET {Finding(d, n, v, relation(n)) : v \in versions(n)}
                      /\ (\A v \in versions(n) : Satisfied(bad[n], v)) /\ versions(n) # {} => said(n) # {}
                      /\ (\A v \in versions(n) : ~Satisfied(bad[n], v)) /\ versions(n) # {} => said(n) = {}
                      /\ versions(n) = {} => (said(n) # {}
                             <=> n \in DOMAIN direct /\ \E i \in 1..Len(bad[n]) : admits(direct[n], bad[n][i]))
                /\ \A n \in DOMAIN bad \intersect DOMAIN direct : \A e \in {e \in Installed(lock) : e.path = <<n>>} :
                      versions(n) = {e.version} =>
                          (Finding(d, n, e.version, "direct") \in o.findings <=> Finding(d, n, e.version, "direct") \in reply.index)
=============================================================================
