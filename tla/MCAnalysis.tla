----------------------------- MODULE MCAnalysis -----------------------------
(* The questions of one run of Analysis: small directories, graphs and       *)
(* workflows, all of the shapes that make an answer hard to compute.         *)
EXTENDS Workflows

V(nums, pre, dash) == [nums |-> nums, pre |-> pre, dash |-> dash]

\* What follows the numbers is ranked as strings are: "," before "-" before "r".
MCText == [v \in {"1.0", "1.0.0", "1.1.0", "1.1.0,<2.0.0", "1.1.5", "2.0.0rc1", "2.0.0-rc.1", "2.0.0", "7"} |->
    CASE v = "1.0" -> V(<<1, 0>>, 0, FALSE)            [] v = "1.0.0" -> V(<<1, 0, 0>>, 0, FALSE)
      [] v = "1.1.0" -> V(<<1, 1, 0>>, 0, FALSE)       [] v = "1.1.5" -> V(<<1, 1, 5>>, 0, FALSE)
      [] v = "1.1.0,<2.0.0" -> V(<<1, 1, 0>>, 1, FALSE)
      [] v = "2.0.0rc1" -> V(<<2, 0, 0>>, 3, FALSE)    [] v = "2.0.0-rc.1" -> V(<<2, 0, 0>>, 2, TRUE)
      [] v = "2.0.0" -> V(<<2, 0, 0>>, 0, FALSE)       [] v = "7" -> V(<<7>>, 0, FALSE)]

Spec1(op, version) == <<[op |-> op, version |-> version]>>
Dep(name, constraint) == [name |-> name, constraint |-> constraint]
Entry(name, version, deps) == [name |-> name, version |-> version, deps |-> SetToSeq(deps)]

\* All ways for each of names to depend on some of names, itself included or not.
Relations(names) == [names -> SUBSET names]
Irreflexive(names) == {r \in Relations(names) : \A n \in names : n \notin r[n]}

-----------------------------------------------------------------------------
(* Scores *)

Info(last, people, downloads, source) ==
    [last |-> last, first |-> IF last = NoDate THEN NoDate ELSE last + 100, maintainers |-> people,
     downloads |-> downloads, org |-> FALSE, source |-> source, releases |-> 2, version |-> "2.0.0"]

Repo(healthy) == [open |-> IF healthy THEN 0 ELSE 9, closed |-> 1, org |-> healthy, archived |-> ~healthy,
                  commit |-> 10, stars |-> IF healthy THEN 20000 ELSE 3, people |-> IF healthy THEN 30 ELSE 1]

Overrides == {<<>>, [version_pinning |-> 40], [version_pinning |-> 30, repo_health |-> 31], [download_velocity |-> 100],
              [version_pinning |-> 150], [version_pinning |-> -20], [f \in ToSet(Factors) |-> 10]}

ScoreRequests ==
    {[pkg |-> Package("python", "a", "1.0.0", <<>>, type, 1, {}), info |-> i, repo |-> r, profile |-> p, overrides |-> o]
        : type \in {"exact", "major"}, p \in {"hobby", "opensource", "enterprise"}, o \in Overrides,
          i \in {Info(l, m, d, "r") : l \in {NoDate, 10, 400}, m \in {0, 1, 5}, d \in {0, 500, 5000000}},
          r \in {NoRepo, Repo(TRUE), Repo(FALSE)}}

-----------------------------------------------------------------------------
(* Scans *)

Strong == Info(10, 5, 5000000, "healthy")
Weak   == Info(2000, 1, 0, "")
Repos  == [s \in {"healthy", "poor"} |-> Repo(s = "healthy")]

Facts == {Strong, Weak, NoInfo}

Names == {"a", "b", "c"}

Lock(relation) == LET s == SetToSeq(DOMAIN relation) IN [i \in DOMAIN s |-> Entry(s[i], "1.0.0", relation[s[i]])]

World(facts, advisories) ==
    [fetch |-> [k \in {<<"python", n, "1.0.0">> : n \in DOMAIN facts} |-> facts[k[2]]], repos |-> Repos, advisories |-> advisories]

Advisories == {[x \in {<<"c", "1.0.0">>} |-> <<"CRITICAL", "HIGH", "LOW">>]}

UrlOf(tree, only, world) ==
    [tree |-> tree, only |-> only, profile |-> "opensource", noCVE |-> FALSE, world |-> world]

Facts3 == {f \in [Names -> Facts] : f["a"] = Strong \/ f["b"] = f["c"]}

UrlRequests ==
    {UrlOf([d \in {"root"} |-> [f \in {"poetry.lock"} |-> Lock(r)]], {}, World(facts, a))
        : r \in Irreflexive(Names), facts \in Facts3, a \in Advisories}
    \union
    \* two directories, one package of both with two versions, and filters
    {UrlOf([d \in {"api", "web"} |->
                    IF d = "api" THEN [f \in {"poetry.lock"} |-> Lock(r)]
                    ELSE [f \in {"requirements.txt"} |-> IF bad THEN Malformed ELSE <<Dep("c", Spec1("==", "1.1.0")), Dep("d", Spec1(">=", "1.0.0"))>>]],
                only, World([n \in Names |-> Strong], a))
        : r \in Irreflexive(Names), bad \in {FALSE}, only \in {{}, {"python"}, {"rust"}}, a \in Advisories}

DirRequests ==
    {[dir |-> dir, only |-> only, profile |-> "hobby", noCVE |-> n, world |-> World([x \in {"a", "c"} |-> w], a)]
        : only \in {{}, {"python"}, {"go"}}, n \in BOOLEAN, w \in Facts, a \in Advisories \union {[x \in {<<"c", "1.0.0">>} |-> Fails]},
          dir \in {[f \in {"requirements.txt", "go.mod"} |->
                       IF f = "go.mod" THEN go ELSE <<Dep("a", Spec1("==", "1.0.0")), Dep("c", Spec1("~=", "1.0.0")), Dep("", <<>>)>>]
                      : go \in {Malformed, <<[name |-> "m", version |-> "1.0.0", indirect |-> FALSE],
                                             [name |-> "n", version |-> "1.0.0", indirect |-> TRUE]>>}}}
    \union {[dir |-> dir, only |-> {}, profile |-> "hobby", noCVE |-> TRUE, world |-> World(<<>>, <<>>)]
        : dir \in {<<>>, [f \in {".github/workflows"} |-> Malformed]}}

-----------------------------------------------------------------------------
(* A crawl's graph *)

Node(type, project, name, version, pinning, eco) ==
    [type |-> type, project |-> project, org |-> "", name |-> name, version |-> version, pinning |-> pinning,
     eco |-> eco, score |-> 0, risk |-> "UNKNOWN", cves |-> ""]

\* What nodes of a type have for a project.
ProjectsOf(type) ==
    CASE type = "package" -> {<<>>, <<"python", "a">>, <<"terraform", "a">>}
      [] type = "action"  -> {<<"github.com", "us", "act">>, <<"github.com", "google", "act">>, <<"github.com", "me", "act">>}
      [] OTHER            -> {<<>>}

CrawlRequests ==
    UNION {{[nodes |-> [id \in {Root, "x"} |-> IF id = Root THEN Node("repo", <<"local", "app">>, "app", "", "n/a", "")
                                             ELSE Node(type, project, "a", version, pinning, eco)],
             edges |-> {<<Root, "x">>}, noCVE |-> n, trusted |-> t,
             world |-> [fetch |-> [k \in {<<"PyPI", "a", "1.0.0">>} |-> facts],
                        repos |-> IF type = "package" THEN Repos
                                  ELSE [k \in {<<"github.com", "us", "act">>} |-> Repo(facts = Strong)],
                        advisories |-> adv]]
        : project \in ProjectsOf(type), version \in {"", "1.0.0"}, pinning \in {"sha", "branch"}, eco \in {"", "python"},
          n \in BOOLEAN, t \in {{}, {<<"github.com", "us">>}}, facts \in {Strong, NoInfo},
          adv \in {[x \in {<<"a", "1.0.0">>} |-> Fails], [x \in {<<"a", "1.0.0">>} |-> <<"CRITICAL", "CRITICAL", "LOW">>]}}
        : type \in {"package", "action", "docker_image", "build_tool"}}

-----------------------------------------------------------------------------
(* Lock files *)

Twisted == {"a", "B", "c"}

TomlOf(deps) == [root |-> "app", members |-> {}, deps |-> {Dep(n, Spec1("^", "1.0.0")) : n \in deps}]
JsonOf(deps) == [require |-> {Dep(n, Spec1("^", "1.0.0")) : n \in deps} \union {Dep("php", Spec1(">=", "7"))}, dev |-> {}]
NpmOf(deps)  == [dependencies |-> {Dep(n, Spec1("^", "1.0.0")) : n \in deps}, dev |-> {}]

NpmLock(relation, direct) ==
    {[within |-> "", path |-> <<>>, version |-> "", deps |-> SetToSeq(direct)],
     [within |-> "web", path |-> <<>>, version |-> "0.1.0", deps |-> <<"b">>]}
    \union {[within |-> "", path |-> <<n>>, version |-> "1.0.0", deps |-> SetToSeq(relation[n])] : n \in DOMAIN relation}

LockDirs(relation, direct) ==
    {[f \in {"poetry.lock", "pyproject.toml"} |-> IF f = "poetry.lock" THEN Lock(relation) ELSE [project |-> <<>>, poetry |-> {}]],
     [f \in {"Cargo.toml", "Cargo.lock"} |-> IF f = "Cargo.toml" THEN TomlOf(direct)
                                             ELSE Append(Lock(relation), Entry("app", "0.1.0", direct))],
     [f \in {"composer.json", "composer.lock"} |-> IF f = "composer.json" THEN JsonOf(direct)
                                                   ELSE [packages |-> Lock(relation), dev |-> <<>>]]}

LockRequests ==
    {[dir |-> d] : d \in
        UNION {LockDirs(r, direct) : r \in Relations(Twisted), direct \in {{"a"}}}
        \union UNION {LockDirs(r, direct) : r \in Irreflexive(Twisted), direct \in {{}, {"c", "B"}}}
        \union {[f \in {"uv.lock"} |-> Lock(r)] : r \in Irreflexive(Twisted)}
        \union {[f \in {"package.json", "package-lock.json"} |-> IF f = "package.json" THEN NpmOf({"a", "c"}) ELSE NpmLock(r, {"a", "c"})]
                    : r \in Irreflexive(Names)}
        \union {[f \in {"package.json", "pnpm-lock.yaml"} |-> IF f = "package.json" THEN NpmOf({"a"}) ELSE Lock([n \in {"a"} |-> {}])],
                 [f \in {"pyproject.toml"} |-> [project |-> <<Dep("B", Spec1(">=", "1.0.0"))>>, poetry |-> {}]],
                 [f \in {"Cargo.toml"} |-> Malformed]}}

-----------------------------------------------------------------------------
(* Ranges *)

RangeVersions == {"1.0", "1.1.0", "2.0.0rc1", "2.0.0"}

Singles == {<<[op |-> o, version |-> v]>> : o \in RangeOps, v \in RangeVersions}
Doubles == {<<[op |-> o, version |-> "1.1.0"], [op |-> q, version |-> w]>>
               : o \in {">=", ">", "=="}, q \in {"<", "<=", "!=", "~="}, w \in {"1.0", "2.0.0rc1", "2.0.0"}}

\* A bare version with a further specifier.
BareUpTo == <<[op |-> "", version |-> "1.1.0"], [op |-> "<", version |-> "2.0.0"]>>

RangeRequests ==
    {[constraint |-> c, range |-> r]
        : c \in Singles \union Doubles \union {<<>>} \union {Spec1(o, v) : o \in {"", "^"}, v \in {"1.1.0", "7"}} \union {BareUpTo},
          r \in Doubles \union {s \in Singles : s[1].op \in {"<", "<=", "=="}}}

-----------------------------------------------------------------------------
(* Discover: the exposure of projects to a range of package "b".             *)

Exposed == <<[op |-> ">=", version |-> "1.1.0"], [op |-> "<", version |-> "2.0.0"]>>

Cfg(range, eco, list, offline) == [name |-> "b", range |-> range, list |-> list, maxDepth |-> 2, eco |-> eco, offline |-> offline]

\* A project's files; the text of each holds the names given.
Dir(files, names) == [files |-> files, text |-> [f \in DOMAIN files |-> names]]

PyFiles(locked, required) ==
    [f \in {"poetry.lock", "requirements.txt"} |->
        IF f = "poetry.lock" THEN <<Entry("a", "1.0.0", {}), Entry("B", locked, {})>> ELSE <<Dep("b", required), Dep("a", <<>>)>>]

Registry == [k \in {<<"a", "1.0.0">>, <<"a", "">>} |-> <<Dep("c", Spec1("==", "1.0.0")), Dep("B", Spec1(IF k[2] = "" THEN "^" ELSE ">", "1.0.0"))>>]

DiscoverFs(locked, required, names) ==
    [d \in {<<>>, <<"web">>, <<"node_modules", "x">>, <<"go", "deep", "er">>} |->
        CASE d = <<>>      -> Dir(PyFiles(locked, required), names)
          [] d = <<"web">> -> Dir([f \in {"package.json", "Makefile"} |-> IF f = "Makefile" THEN Malformed ELSE NpmOf({"a"})], names)
          [] OTHER         -> Dir([f \in {"requirements.txt"} |-> <<Dep("a", Spec1("==", "1.0.0"))>>], names)]

\* A pin with a further specifier.
PinnedUpTo == <<[op |-> "==", version |-> "1.1.0"], [op |-> "<", version |-> "2.0.0"]>>

DiscoverRequests ==
    {[cfg |-> Cfg(Exposed, "", {}, TRUE), fs |-> DiscoverFs(locked, required, {"a", "b"}), registry |-> <<>>]
        : locked \in DOMAIN MCText, required \in {<<>>, PinnedUpTo}
                    \union {Spec1(o, v) : o \in {"", "==", "<=", "^", "~="}, v \in {"1.0", "2.0.0"}}}
    \union
    {[cfg |-> Cfg(range, eco, list, offline), fs |-> DiscoverFs("1.0.0", <<>>, names), registry |-> registry]
        : range \in {Exposed, <<>>}, eco \in {"", "python", "npm"}, list \in {{}, {<<"go", "deep", "er">>, <<"gone">>}},
          offline \in BOOLEAN, names \in {{"a"}, {"a", "b"}}, registry \in {<<>>, Registry}}

CachedRequests ==
    {[edges |-> {[parent |-> "a", child |-> "b", version |-> v] : v \in vs}, child |-> c, range |-> r]
        : vs \in SUBSET {"1.1.0", "2.0.0", "7"}, c \in {"b", "c"}, r \in {Exposed, <<>>}}

-----------------------------------------------------------------------------
(* Compromised packages *)

BadLists ==
    {<<[name |-> "b", version |-> Bare("1.1.0")]>>,
     <<[name |-> "b", version |-> Spec1("^", "1.0.0")], [name |-> "b", version |-> Bare("2.0.0")]>>,
     <<[name |-> "a", version |-> Unparsed]>>, <<[name |-> "b", version |-> Spec1("=", "1.1.0")]>>,
     <<[name |-> "", version |-> Bare("1.1.0")]>>,
     <<>>}

Missing == NoInfo   \* a directory without a lock file

CompromisedFs(declared, lock) ==
    [d \in {<<>>, <<"node_modules", "b">>} |->
        IF d = <<>> THEN [f \in {"package.json"} \union (IF lock = Missing THEN {} ELSE {"package-lock.json"}) |->
                             IF f = "package.json" THEN [dependencies |-> declared, dev |-> {}] ELSE lock]
        ELSE [f \in {"package.json"} |-> [name |-> "b", version |-> "1.1.0", dependencies |-> {}, dev |-> {}]]]

LockEntries ==
    {[within |-> w, path |-> p, version |-> v, deps |-> <<>>]
        : w \in {"", "web"}, p \in {<<"a">>, <<"b">>, <<"a", "b">>}, v \in {"1.1.0", "2.0.0"}}

NpmLocks ==
    {l \in SUBSET {e \in LockEntries : e.within = "" \/ e.path = <<"b">>} :
        \A e, f \in l : e.within = f.within /\ e.path = f.path => e = f}

CompromisedRequests ==
    {[entries |-> list, fs |-> CompromisedFs(declared, lock),
      edges |-> <<[parent |-> <<"npm", "a">>, child |-> <<"npm", "b">>], [parent |-> <<"npm", "b">>, child |-> <<"npm", "a">>]>>]
        : list \in BadLists, lock \in NpmLocks \union {Malformed, Missing},
          declared \in {{Dep("b", c)} : c \in {Spec1("^", "1.0.0"), Spec1("~", "1.1.0"), Bare("2.0.0"), AnyVersion}}
                        \union {{Dep("a", Bare("1.1.0"))}}}

-----------------------------------------------------------------------------
(* Blast radius *)

GNode(type, name, version, meta) == [type |-> type, name |-> name, version |-> version, pinning |-> "branch", meta |-> meta]

\* One edge is there twice.
GraphEdges == <<<<"r", "p">>, <<"r", "q">>, <<"p", "q">>, <<"q", "p">>, <<"q", "s">>, <<"p", "s">>, <<"s", "gone">>, <<"p", "q">>>>

GraphOf(edges, version) ==
    [nodes |-> [id \in {"r", "p", "q", "s"} |->
                   CASE id = "r" -> GNode("workflow", "ci", "", {"permissions_broad"})
                     [] id = "p" -> GNode("action", "p", "", {})
                     [] id = "q" -> GNode("package", "B", version, {})
                     [] id = "s" -> GNode("package", "b", "1.1.5", {})],
     edges |-> LET s == SelectSeq(GraphEdges, LAMBDA e : e \in edges) IN
               [i \in DOMAIN s |-> [from |-> s[i][1], to |-> s[i][2], type |-> "depends_on"]]]

Asked(mode, name, range) == [mode |-> mode, name |-> name, range |-> range]

Advisory == <<[name |-> "b", ranges |-> <<<<[introduced |-> "0", fixed |-> ""], [introduced |-> "", fixed |-> "1.1.0"]>>,
                                         <<[introduced |-> "1.1.5", fixed |-> "2.0.0"]>>>>]>>

BlastRequests ==
    {[graph |-> GraphOf(edges, v), known |-> known, kept |-> kept, failing |-> {}, asked |-> asked, osv |-> osv]
        : edges \in SUBSET ToSet(GraphEdges), v \in {"1.1.0", ""}, known \in {TRUE}, kept \in {"memory", "store"},
          asked \in {Asked("package", "b", Exposed)}, osv \in {Unparsed}}
    \union
    {[graph |-> GraphOf(edges, "1.0.0"), known |-> known, kept |-> kept, failing |-> failing, asked |-> asked, osv |-> osv]
        : edges \in {ToSet(GraphEdges)}, failing \in SUBSET {"scan", "graph", "job"}, known \in BOOLEAN, kept \in {"memory", "store", "nowhere"},
          asked \in {Asked("cve", "X", <<>>), Asked("package", "b", Spec1("^", "1.0.0")), Asked("package", "b", <<>>), Asked(Unparsed, "", <<>>),
                     Asked("other", "b", Exposed)},
          osv \in {Unparsed, Advisory}}

-----------------------------------------------------------------------------
(* Workflows *)

Image(name, tag, digest) == [name |-> name, tag |-> tag, digest |-> digest]
Use(kd, repo, path, form, image) ==
    [kind |-> kd, repo |-> repo, path |-> path, ref |-> "v1", form |-> form, first |-> repo = "A",
     image |-> image, workflow |-> path = "ci.yml"]

NoImage == Image("", "", "")
Of(repo)      == Use("github", repo, "", "major_tag", NoImage)
Reusable(repo) == Use("github", repo, "ci.yml", "branch", NoImage)
DockerUse     == Use("docker", "", "", "unpinned", Image("alpine", "", ""))
LocalUse      == Use("local", "", "", "unpinned", NoImage)

NoScript == <<>>
Piped    == <<[kind |-> "pipe", url |-> "u", file |-> ""]>>
Fetched  == <<[kind |-> "download", url |-> "u", file |-> "f"], [kind |-> "run", url |-> "", file |-> "f"], [kind |-> "run", url |-> "", file |-> "f"]>>

Step(uses, run) == [uses |-> uses, run |-> run]
Job(uses, container, steps) == [uses |-> uses, container |-> container, steps |-> steps]
Raw(permissions, jobs) == [permissions |-> permissions, jobs |-> jobs]

Composite(uses) == [using |-> "composite", image |-> NoImage, steps |-> <<Step(uses, Fetched)>>]

UseLists == {<<>>, <<Of("A")>>, <<Of("B")>>, <<Of("C")>>, <<Of("B"), Of("C")>>, <<Of("C"), Of("A")>>}

\* Three actions; C may be a JavaScript or a Docker action, with or without an
\* image, or have no tag.
GithubOf(a, b, c, failing) ==
    [tags  |-> [k \in {<<"A", "v1">>, <<"B", "v1">>} \union (IF c = "gone" THEN {} ELSE {<<"C", "v1">>}) |-> "sha" \o k[1]],
     failing |-> failing,
     heads |-> [k \in {<<"A", "v1">>} |-> "other"],
     files |-> [k \in {<<"A", "action.yml", "shaA">>, <<"B", "action.yaml", "shaB">>, <<"C", "action.yml", "shaC">>,
                       <<"C", "package.json", "shaC">>, <<"C", "Dockerfile", "shaC">>, <<"B", "ci.yml", "shaB">>} |->
                  CASE k[1] = "A" -> Composite(a)
                    [] k[1] = "B" /\ k[2] # "ci.yml" -> Composite(b)
                    [] k[1] = "B" /\ k[2] = "ci.yml" -> Raw(<<"read">>, <<Job(<<Of("A")>>, <<DockerUse>>, <<Step(<<Reusable("B")>>, Piped)>>)>>)
                    [] k[2] = "action.yml" -> [using |-> IF c = "node" THEN "node20" ELSE "docker",
                                                   image |-> IF c = "docker" THEN Image("Dockerfile", "", "") ELSE NoImage, steps |-> <<>>]
                    [] k[2] = "package.json" -> NpmOf({"a"})
                    [] k[2] = "Dockerfile" -> <<Image("alpine", "3", "d")>>]]

ActionsRequests ==
    {[files |-> <<[path |-> "ci", raw |-> raw]>>, github |-> GithubOf(a, b, c, failing)]
        : a \in UseLists, b \in UseLists, c \in {"docker", "bare", "node", "gone"}, failing \in {{}, {<<"B", "action.yml", "shaB">>}},
          raw \in {Raw(Fails, <<Job(<<>>, <<>>, <<Step(u, NoScript)>>)>>)
                      : u \in {<<Of("A")>>, <<Of("A"), Of("B")>>, <<Of("B"), Of("C")>>, <<Of("A"), Of("B"), Of("C")>>}}
                   \union {Raw(<<"write">>, <<Job(<<Reusable("B")>>, <<DockerUse>>, <<Step(<<LocalUse>>, Piped)>>)>>), Malformed}}

MCSalvaged == <<Entry("a", "1.0.0", {"b"})>>

MCRequests ==
    [score |-> ScoreRequests, url |-> UrlRequests, dir |-> DirRequests, crawl |-> CrawlRequests, lock |-> LockRequests,
     range |-> RangeRequests, discover |-> DiscoverRequests, cached |-> CachedRequests, compromised |-> CompromisedRequests,
     blast |-> BlastRequests, actions |-> ActionsRequests]
=============================================================================
