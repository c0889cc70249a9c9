------------------------------- MODULE Discover -------------------------------
(***************************************************************************)
(* discover: which projects below a directory are exposed to a package in  *)
(* a range of versions (internal/discover).  Projects are enumerated, those *)
(* whose files hold the package's name anywhere are parsed file by file,   *)
(* and each keeps the most pressing of what its files say.                 *)
(*                                                                         *)
(* A file system is a function from the path of a directory below the      *)
(* start, a sequence of names, to [files, text]: what its files hold, as   *)
(* in Manifests, and the lower-case names their text contains.             *)
(*                                                                         *)
(* A definition named X_Y is X with a plausible mistake Y.                 *)
(***************************************************************************)
EXTENDS Manifests, Versions

CONSTANT TransitiveDepth    \* how far ResolveTransitive looks; 10 in the code

-----------------------------------------------------------------------------
(* Enumeration *)

\* ecosystemForFile over resolve.ManifestFilenames, in the order a directory
\* lists them; "" marks those no parser reads.
EcosystemForFile(file) ==
    CASE file \in {"go.mod", "go.sum"} -> "go"
      [] file \in {"requirements.txt", "pyproject.toml", "poetry.lock", "uv.lock"} -> "python"
      [] file \in {"Cargo.toml", "Cargo.lock"} -> "rust"
      [] file \in {"package.json", "package-lock.json", "pnpm-lock.yaml", "bun.lock"} -> "npm"
      [] file \in {"composer.json", "composer.lock"} -> "php"
      [] OTHER -> ""

ManifestFilenames ==
    <<"Cargo.lock", "Cargo.toml", "Makefile", "bun.lock", "composer.json", "composer.lock", "go.mod", "go.sum",
      "package-lock.json", "package.json", "pnpm-lock.yaml", "poetry.lock", "pyproject.toml", "requirements.txt",
      "uv.lock">>

ManifestsOf(dir) == SelectSeq(ManifestFilenames, LAMBDA f : f \in DOMAIN dir.files)

IgnoredDirs == {"node_modules", "vendor"}

\* WalkProjects: a project starts at the first file of the ecosystem asked
\* for ("" for any) and takes every manifest after it, of any ecosystem.
WalkProjects(fs, maxDepth, eco) ==
    LET walked == {d \in DOMAIN fs : Len(d) <= maxDepth /\ ToSet(d) \intersect IgnoredDirs = {}}
        first(d) == SelectInSeq(ManifestsOf(fs[d]), LAMBDA f : eco = "" \/ EcosystemForFile(f) = eco)
    IN  {[dir |-> d, files |-> SubSeq(ManifestsOf(fs[d]), first(d), Len(ManifestsOf(fs[d])))]
            : d \in {d \in walked : first(d) > 0}}

\* ReadProjectList: every listed directory, ignored ones and any depth
\* included, with its files of the ecosystem only.
ReadProjectList(fs, list, eco) ==
    LET files(d) == SelectSeq(ManifestsOf(fs[d]), LAMBDA f : eco = "" \/ EcosystemForFile(f) = eco) IN
    {[dir |-> d, files |-> files(d)] : d \in {d \in list \intersect DOMAIN fs : files(d) # <<>>}}

MatchPackageInProject(name, fs, project) ==
    SelectSeq(project.files, LAMBDA f : Lower(name) \in fs[project.dir].text[f])

-----------------------------------------------------------------------------
(* Classification *)

Found(status, depth) == [status |-> status, depth |-> depth]

\* What it means that a constraint allows a range, does not, or does not parse.
Allowing(allowed, unparsed) == IF allowed = Unparsed THEN unparsed ELSE IF allowed THEN "potentially" ELSE "safe"

Classify(pkg, range) ==
    LET depth   == IF pkg.depth > 1 THEN "transitive" ELSE "direct"
        version == ParseVersion(pkg.version)
    IN  IF pkg.version # ""
        THEN Found(IF version = Unparsed THEN "unresolvable"
                   ELSE IF InRange(range, version) THEN "confirmed" ELSE "safe", depth)
        ELSE IF pkg.constraint # <<>>
        THEN Found(Allowing(ConstraintOverlaps(pkg.constraint, range), "unresolvable"), depth)
        ELSE Found("unresolvable", depth)

\* All that follows the first "==" of a constraint, further specifiers too.
ExtractVersionFromConstraint(constraint) ==
    CASE Op(constraint) = "=="  -> Written(constraint)
      [] Op(constraint) = "===" -> "=" \o Written(constraint)
      [] OTHER                  -> ""

\* ResolveTransitive: breadth first over what the registry says each package
\* depends on; <<>> if the package is not among them, else its constraint.
Search(target, queue, visited, registry) ==
    LET items == [name : STRING, version : STRING, path : Seq(STRING)]
        search[q \in Seq(items), seen \in SUBSET (STRING \X STRING)] ==
            LET item == Head(q)
                key  == <<item.name, item.version>>
                deps == IF Len(item.path) > TransitiveDepth \/ key \notin DOMAIN registry THEN Fails ELSE registry[key]
                hit  == SelectInSeq(deps, LAMBDA d : Lower(d.name) = target)
                next == [i \in DOMAIN deps |-> [name |-> deps[i].name, version |-> ExtractVersionFromConstraint(deps[i].constraint),
                                                path |-> Append(item.path, deps[i].name)]]
            IN  IF q = <<>> THEN <<>>
                ELSE IF key \in seen \/ deps = Fails THEN search[Tail(q), seen \union {key}]
                ELSE IF hit > 0 THEN <<[constraint |-> deps[hit].constraint, path |-> Append(item.path, deps[hit].name)]>>
                ELSE search[Tail(q) \o next, seen \union {key}]
    IN  search[queue, visited]

ResolveTransitive(name, pkgs, registry) ==
    Search(Lower(name), [i \in DOMAIN pkgs |-> [name |-> pkgs[i].name, version |-> pkgs[i].version,
                                               path |-> <<pkgs[i].name>>]], {}, registry)

\* What a constraint found in the registry means; one that does not parse
\* counts as not allowing the range.
ClassifyTransitive(constraint, range) ==
    Found(Allowing(ConstraintOverlaps(constraint, range), "safe"), "transitive")

\* The matches of one file, each at the position of its package.  Registries
\* exist for two ecosystems; the others are not resolved further.
ClassifyParsed(name, eco, pkgs, range, offline, registry) ==
    LET named == {i \in DOMAIN pkgs : Lower(pkgs[i].name) = Lower(name)}
        deeper(found) == [i \in DOMAIN found |-> ClassifyTransitive(found[i].constraint, range)]
    IN  IF pkgs = Fails THEN <<>>
        ELSE IF named # {} THEN [i \in named |-> Classify(pkgs[i], range)]
        ELSE IF offline \/ eco \notin {"python", "npm"} THEN <<>>
        ELSE deeper(ResolveTransitive(name, pkgs, registry))

ClassifyFile(name, file, content, range, offline, registry) ==
    LET eco == EcosystemForFile(file) IN
    IF eco = "" THEN <<>>
    ELSE ClassifyParsed(name, eco, ParseFiles(eco, [f \in {file} |-> content]), range, offline, registry)

StatusPriority(status) ==
    CASE status = "confirmed" -> 3 [] status = "potentially" -> 2 [] status = "unresolvable" -> 1 [] OTHER -> 0

\* Which of some positions <<file, package>> comes first, and last.
First(places) == CHOOSE a \in places : \A b \in places : a[1] < b[1] \/ (a[1] = b[1] /\ a[2] <= b[2])
Final(places) == CHOOSE a \in places : \A b \in places : a[1] > b[1] \/ (a[1] = b[1] /\ a[2] >= b[2])

\* Mistake: what the last file says wins.
DeduplicateMatches_Last(matches) == IF DOMAIN matches = {} THEN <<>> ELSE <<matches[Final(DOMAIN matches)]>>

\* The first of those with the highest priority.
DeduplicateMatches(matches) ==
    LET statuses == {matches[a].status : a \in DOMAIN matches}
        top      == CHOOSE s \in statuses : \A t \in statuses : StatusPriority(t) <= StatusPriority(s)
    IN  IF DOMAIN matches = {} THEN <<>>
        ELSE <<Found(top, matches[First({a \in DOMAIN matches : matches[a].status = top})].depth)>>

ClassifyProject(name, fs, project, range, offline, registry) ==
    LET files == MatchPackageInProject(name, fs, project)
        found == [i \in DOMAIN files |->
                     ClassifyFile(name, files[i], fs[project.dir].files[files[i]], range, offline, registry)]
    IN  DeduplicateMatches([a \in UNION {{<<i, k>> : k \in DOMAIN found[i]} : i \in DOMAIN files} |-> found[a[1]][a[2]]])

\* Run: the verdict on each project, <<>> where it is not reported.
Run(cfg, fs, registry) ==
    LET range    == ParseRange(cfg.range)
        projects == IF cfg.list # {} THEN ReadProjectList(fs, cfg.list, cfg.eco)
                    ELSE WalkProjects(fs, cfg.maxDepth, cfg.eco)
    IN  IF range = Unparsed THEN Fails
        ELSE [p \in projects |-> ClassifyProject(cfg.name, fs, p, range, cfg.offline, registry)]

-----------------------------------------------------------------------------
\* DiscoverFromCache: the dependents whose recorded constraint, read as a
\* version, lies in the range; edges as the cache keeps them.
DiscoverFromCache(edges, child, specs) ==
    LET range == ParseRange(specs)
        version(e) == ParseVersion(e.version)
    IN  IF range = Unparsed THEN Fails
        ELSE {e \in edges : e.child = child /\ version(e) # Unparsed /\ InRange(range, version(e))}
=============================================================================
