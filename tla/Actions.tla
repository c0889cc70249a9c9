-------------------------------- MODULE Actions --------------------------------
(***************************************************************************)
(* The GitHub Actions scan of internal/actions: workflow files, the actions *)
(* and reusable workflows they use, what those bundle, and the scripts and *)
(* images they pull, added to the supply chain graph.                      *)
(*                                                                         *)
(* github says what GitHub answers during one scan: tags and heads from     *)
(* <<repo, ref>> to a commit, files from <<repo, path, commit>> to content, *)
(* and the files whose request fails for another reason than a 404.         *)
(* A use is a record [kind, repo, path, ref, form, first, image, workflow]: *)
(* kind is "github", "docker" or "local", form the shape of the ref, first  *)
(* whether GitHub owns it, image [name, tag, digest], workflow whether the *)
(* path is that of a workflow file.  A script is a sequence of lines       *)
(* [kind, url, file].                                                      *)
(*                                                                         *)
(* A definition named X_Y is X with a plausible mistake Y.                 *)
(***************************************************************************)
EXTENDS Scoring, Manifests

CONSTANT MaxActionDepth     \* DefaultMaxDepth; 10 in the code

-----------------------------------------------------------------------------
(* Scores *)

ScorePinQuality(pin) ==
    CASE pin = "sha" -> 100 [] pin = "exact_version" -> 80 [] pin = "major_tag" -> 50 [] pin = "branch" -> 20 [] OTHER -> 0

Fresh(days, unknown) ==
    IF days = 0 THEN unknown ELSE IF days < 30 THEN 100 ELSE IF days < 90 THEN 80
    ELSE IF days < 180 THEN 60 ELSE IF days < 365 THEN 40 ELSE 20

StarScore(stars) ==
    IF stars >= 10000 THEN 100 ELSE IF stars >= 1000 THEN 80 ELSE IF stars >= 100 THEN 60 ELSE IF stars >= 10 THEN 40 ELSE 20

ScoreMaintainer(count, org) == IF org THEN 100 ELSE IF count >= 3 THEN 80 ELSE IF count = 2 THEN 60 ELSE 40

ScoreAction(in) ==
    IF in.script THEN 0
    ELSE (ScorePinQuality(in.pinning) * 25 + (IF in.first THEN 100 ELSE 40) * 15
          + (IF in.archived THEN 0 ELSE (StarScore(in.stars) + Fresh(in.commit, 60)) \div 2) * 15
          + ScoreMaintainer(in.people, in.org) * 10 + Fresh(in.release, 60) * 10
          + in.bundled * 15 + (IF in.broad THEN 30 ELSE 90) * 10) \div 100

ScoreDockerImage(in) ==
    ((IF in.digest THEN 100 ELSE IF in.tag THEN 70 ELSE 20) * 30
     + (IF in.official THEN 100 ELSE IF in.verified THEN 80 ELSE 40) * 20 + Fresh(in.pushed, 60) * 20
     + (IF in.base THEN 80 ELSE 40) * 15
     + (IF in.vulns = 0 THEN 100 ELSE IF in.vulns <= 5 THEN 60 ELSE IF in.vulns <= 20 THEN 30 ELSE 0) * 15) \div 100

-----------------------------------------------------------------------------
(* Reading workflows *)

\* Broad permissions: no permissions block, or a scope that may write; of a
\* block given as one word only the word "write" does.
PermissionsBroad(permissions) == permissions = Fails \/ "write" \in ToSet(permissions)

\* DetectScriptDownloads: a download piped into an interpreter, or to a file
\* that a later line runs; a file is run at most once.
DetectScriptDownloads(script) ==
    LET step(a, line) ==
            CASE line.kind = "pipe"     -> [a EXCEPT !.found = Append(@, line.url)]
              [] line.kind = "download" -> [a EXCEPT !.files = [f \in DOMAIN @ \union {line.file} |->
                                                                   IF f = line.file THEN line.url ELSE @[f]]]
              [] line.kind = "run" /\ line.file \in DOMAIN a.files ->
                    [found |-> Append(a.found, a.files[line.file]),
                     files |-> [f \in DOMAIN a.files \ {line.file} |-> a.files[f]]]
              [] OTHER                  -> a
    IN  FoldLeft(step, [found |-> <<>>, files |-> <<>>], script).found

\* ParseWorkflow: the steps' uses, then the reusable workflows, then the
\* containers of its jobs, in the order a map gives them.
ParseWorkflow(raw) ==
    LET jobs  == raw.jobs
        steps == FlattenSeq([i \in DOMAIN jobs |-> jobs[i].steps])
    IN  [permissions |-> raw.permissions,
         actions |-> FlattenSeq([i \in DOMAIN steps |-> steps[i].uses])
                     \o FlattenSeq([i \in DOMAIN jobs |-> jobs[i].uses])
                     \o FlattenSeq([i \in DOMAIN jobs |-> jobs[i].container]),
         downloads |-> FlattenSeq([i \in DOMAIN steps |-> DetectScriptDownloads(steps[i].run)])]

\* parseBaseImage: with a digest the tag stays in the name.
ParseBaseImage(image) ==
    IF image.digest = "" THEN image
    ELSE [name |-> IF image.tag = "" THEN image.name ELSE image.name \o ":" \o image.tag, tag |-> "", digest |-> image.digest]

-----------------------------------------------------------------------------
(* Resolving an action *)

FileContent(github, repo, path, sha) ==
    IF <<repo, path, sha>> \in DOMAIN github.files \ github.failing THEN github.files[<<repo, path, sha>>] ELSE Fails

\* A tag before a branch of the same name.
ResolveRefToSHA(ref, github) ==
    LET key == <<ref.repo, ref.ref>> IN
    IF key \in DOMAIN github.tags THEN github.tags[key]
    ELSE IF key \in DOMAIN github.heads THEN github.heads[key] ELSE Fails

\* action.yml, or action.yaml where the first is not there, always that of the
\* repository's root.  A request for the first that fails otherwise ends it.
FetchActionYAML(ref, sha, github) ==
    LET yml == FileContent(github, ref.repo, "action.yml", sha) IN
    IF yml # Fails \/ <<ref.repo, "action.yml", sha>> \in github.failing THEN yml
    ELSE FileContent(github, ref.repo, "action.yaml", sha)

ClassifyActionType(yaml) ==
    CASE yaml \in {Fails, Malformed} -> "unknown"
      [] OTHER -> CASE yaml.using \in {"composite", "Composite"} -> "composite" [] yaml.using = "node20" -> "node"
                    [] yaml.using = "docker" -> "docker" [] OTHER -> "unknown"

ResolveAction(ref, github) ==
    LET sha  == IF ref.form = "sha" THEN ref.ref ELSE ResolveRefToSHA(ref, github)
        yaml == FetchActionYAML(ref, sha, github)
    IN  IF sha = Fails THEN Fails ELSE [sha |-> sha, yaml |-> yaml, type |-> ClassifyActionType(yaml)]

\* The spelling of "composite" counts here and not in the type.
ExtractCompositeActions(yaml) ==
    IF yaml.using # "composite" THEN <<>> ELSE FlattenSeq([i \in DOMAIN yaml.steps |-> yaml.steps[i].uses])

\* FetchBundledDeps: packages of a JavaScript action, base images of a Docker
\* one, downloads of a composite one's steps; what cannot be had is left out.
\* The image of a Docker action is [name, tag, digest], name "" where it has none.
FetchBundledDeps(ref, resolved, github) ==
    LET file(path) == FileContent(github, ref.repo, path, resolved.sha)
        npm    == [f \in {f \in {"package.json", "package-lock.json"} : file(f) # Fails} |-> file(f)]
        parsed(pkgs) == IF pkgs = Fails THEN <<>> ELSE pkgs
        image  == resolved.yaml.image
        images == CASE image.name = "Dockerfile" -> file(image.name) [] image.name = "" -> <<>> [] OTHER -> <<image>>
        none   == [packages |-> <<>>, images |-> <<>>, downloads |-> <<>>]
    IN  CASE resolved.type = "node"   -> [none EXCEPT !.packages = parsed(ParseJavaScript(npm))]
          [] resolved.type = "docker" -> [none EXCEPT !.images = IF images = Fails THEN <<>>
                                                                  ELSE [i \in DOMAIN images |-> ParseBaseImage(images[i])]]
          [] resolved.type = "composite" ->
                [none EXCEPT !.downloads = FlattenSeq([i \in DOMAIN resolved.yaml.steps |->
                                                          DetectScriptDownloads(resolved.yaml.steps[i].run)])]
          [] OTHER -> none

-----------------------------------------------------------------------------
(* The graph.  The state of a scan is [nodes, edges, visited]; a node is      *)
(* [type, name, version, pinning, score, risk, first].                        *)

GraphNode(type, name, version, pinning, score) ==
    [type |-> type, name |-> name, version |-> version, pinning |-> pinning, score |-> score,
     risk |-> RiskLevelFromScore(score), first |-> FALSE]

AddNode(s, id, node) == [s EXCEPT !.nodes = [i \in DOMAIN @ \union {id} |-> IF i = id THEN node ELSE @[i]]]
AddIfNone(s, id, node) == IF id \in DOMAIN s.nodes THEN s ELSE AddNode(s, id, node)
AddEdge(s, from, to, type) == [s EXCEPT !.edges = Append(@, [from |-> from, to |-> to, type |-> type])]

AddDockerImageNode(s, parent, image) ==
    LET bi    == ParseBaseImage(image)
        tag   == bi.tag \notin {"", "latest"}
        score == ScoreDockerImage([digest |-> bi.digest # "", tag |-> tag, official |-> FALSE, verified |-> FALSE,
                                   pushed |-> 0, base |-> FALSE, vulns |-> 0])
        pin   == IF bi.digest # "" THEN "digest" ELSE IF tag THEN "exact_version" ELSE "unpinned"
        id    == <<"docker_image", bi.name, bi.tag, bi.digest>>
    IN  AddEdge(AddIfNone(s, id, GraphNode("docker_image", bi.name, bi.tag, pin, score)), parent, id, "pulls_image")

AddDownload(s, parent, url) ==
    LET id == <<"script_download", url>> IN
    AddEdge(AddIfNone(s, id, GraphNode("script_download", url, "", "unpinned", 0)), parent, id, "downloads")

DownloadAll(s, parent, urls) == FoldLeft(LAMBDA a, url : AddDownload(a, parent, url), s, urls)

AddBundled(s, id, bundled) ==
    LET package(a, p) ==
            LET pid == <<"package", p.eco, p.name, p.version>> IN
            AddEdge(AddIfNone(a, pid, [GraphNode("package", p.name, p.version, "n/a", 0) EXCEPT !.risk = ""]), id, pid, "bundles")
    IN  DownloadAll(FoldLeft(LAMBDA a, i : AddDockerImageNode(a, id, i), FoldLeft(package, s, bundled.packages), bundled.images),
                    id, bundled.downloads)

ActionID(ref) == <<"action", ref.repo, ref.path, ref.ref>>

ActionNode(ref, version, score) ==
    [GraphNode("action", <<ref.repo, ref.path>>, version, ref.form, score) EXCEPT !.first = ref.first]

\* Mistake: an action is marked before the depth is looked at.
RECURSIVE ProcessActionRef_MarksFirst(_, _, _, _, _, _)
ProcessActionRef_MarksFirst(s, parent, ref, broad, depth, github) ==
    LET id == ActionID(ref)
        seen == [s EXCEPT !.visited = @ \union {id}]
        resolved == ResolveAction(ref, github)
        linked == AddEdge(AddNode(seen, id, ActionNode(ref, resolved.sha, 0)), parent, id, "uses_action")
    IN  IF ref.kind # "github" THEN s
        ELSE IF id \in s.visited THEN AddEdge(s, parent, id, "uses_action")
        ELSE IF depth >= MaxActionDepth \/ resolved = Fails THEN seen
        ELSE IF resolved.type # "composite" THEN linked
        ELSE FoldLeft(LAMBDA a, r : ProcessActionRef_MarksFirst(a, id, r, broad, depth + 1, github),
                      linked, ExtractCompositeActions(resolved.yaml))

EnterWorkflow(s, parent, wid, ref, sha) ==
    AddEdge(AddNode(s, wid, [GraphNode("workflow", ref.path, sha, ref.form, 0) EXCEPT !.risk = ""]), parent, wid, "triggers")

\* What could not be resolved has no first_party in its metadata.
LinkAction(s, parent, ref, broad, resolved) ==
    LET score == ScoreAction([script |-> FALSE, pinning |-> ref.form, first |-> ref.first, archived |-> FALSE,
                              stars |-> 0, commit |-> 0, people |-> 0, org |-> FALSE, release |-> 0,
                              bundled |-> 100, broad |-> broad])
        node  == IF resolved = Fails THEN [ActionNode(ref, "", 0) EXCEPT !.first = FALSE]
                 ELSE ActionNode(ref, resolved.sha, score)
    IN  AddEdge(AddNode([s EXCEPT !.visited = @ \union {ActionID(ref)}], ActionID(ref), node), parent, ActionID(ref), "uses_action")

\* An action is expanded where it is first met above the depth limit; met
\* again it only gets an edge.
RECURSIVE ProcessActionRef(_, _, _, _, _, _)
ProcessActionRef(s, parent, ref, broad, depth, github) ==
    LET id       == ActionID(ref)
        wid      == <<"workflow", ref.repo, ref.path, ref.ref>>
        within(a, from, uses) ==
            FoldLeft(LAMBDA b, u : ProcessActionRef(b, from, u, broad, depth + 1, github), a, uses)
        enter(a, sha, workflow) ==
            DownloadAll(within(EnterWorkflow(a, parent, wid, ref, sha), wid, workflow.actions), wid, workflow.downloads)
        called(a, sha, file) ==
            LET marked == [a EXCEPT !.visited = @ \union {wid}] IN
            IF ~ref.workflow \/ wid \in a.visited THEN a
            ELSE IF file \in {Fails, Malformed} THEN marked ELSE enter(marked, sha, ParseWorkflow(file))
        expand(a, resolved) ==
            IF resolved = Fails THEN a
            ELSE called(AddBundled(IF resolved.type # "composite" THEN a
                                   ELSE within(a, id, ExtractCompositeActions(resolved.yaml)),
                                   id, FetchBundledDeps(ref, resolved, github)),
                        resolved.sha, FileContent(github, ref.repo, ref.path, resolved.sha))
        resolve(resolved) == expand(LinkAction(s, parent, ref, broad, resolved), resolved)
    IN  IF depth >= MaxActionDepth \/ ref.kind = "local" THEN s
        ELSE IF ref.kind = "docker" THEN AddDockerImageNode(s, parent, ref.image)
        ELSE IF id \in s.visited THEN AddEdge(s, parent, id, "uses_action")
        ELSE resolve(ResolveAction(ref, github))

\* What one workflow file of the directory adds.
ScanWorkflow(s, path, wf, github) ==
    LET id    == <<"workflow", path>>
        added == AddNode(s, id, [GraphNode("workflow", path, "", "n/a", 0) EXCEPT !.risk = ""])
    IN  DownloadAll(FoldLeft(LAMBDA a, u : ProcessActionRef(a, id, u, PermissionsBroad(wf.permissions), 0, github), added, wf.actions),
                    id, wf.downloads)

\* ScanWorkflows over the parsed workflow files of a directory, [path, raw];
\* one that does not parse fails the scan before anything is added.
ScanWorkflows(files, github) ==
    IF \E i \in DOMAIN files : files[i].raw = Malformed THEN Fails
    ELSE FoldLeft(LAMBDA s, f : ScanWorkflow(s, f.path, ParseWorkflow(f.raw), github),
                  [nodes |-> <<>>, edges |-> <<>>, visited |-> {}], files)

\* ComputePinningSummary: how many actions there are of each pinning, and how
\* many scripts are downloaded.
ComputePinningSummary(g) ==
    LET actions == {id \in DOMAIN g.nodes : g.nodes[id].type = "action"} IN
    [pinned  |-> [p \in {"sha", "exact_version", "major_tag", "branch", "unpinned"} |->
                     Cardinality({id \in actions : g.nodes[id].pinning = p})],
     first   |-> Cardinality({id \in actions : g.nodes[id].first}),
     scripts |-> Cardinality({id \in DOMAIN g.nodes : g.nodes[id].type = "script_download"}),
     total   |-> Cardinality(actions)]
=============================================================================
