------------------------------ MODULE Manifests ------------------------------
(***************************************************************************)
(* What is read from a project's files: the parsers and BuildDepsMap of    *)
(* internal/manifest, the package resolver of the crawl that is built on   *)
(* them (internal/crawler/resolvers/package.go), and the indexer's own     *)
(* reading of the same lock files (internal/scanner/indexer.go).           *)
(*                                                                         *)
(* A directory is a function from the names of its files to what they      *)
(* hold, Malformed where a file does not parse.  A lock file is a sequence *)
(* of entries [name, version, deps]; a constraint is the sequence of its   *)
(* specifiers [op, version], op "" for a bare version, and <<>> where there *)
(* is none; a requirement or a declared dependency is [name, constraint].  *)
(* Where the code ranges over a map the order of the result is of no       *)
(* account and is left to SetToSeq; lists of parents are sets.             *)
(*                                                                         *)
(* A definition named X_Y is X with a plausible mistake Y.                 *)
(***************************************************************************)
EXTENDS Integers, Sequences, FiniteSetsExt, SequencesExt, Lists

CONSTANTS
    Malformed,  \* a file that does not parse
    Fails,      \* a parser's outcome where the code returns an error
    Salvaged    \* the entries a scan for lines finds in a Cargo.lock that does not parse

Lower(name) == IF name = "B" THEN "b" ELSE name

Package(eco, name, version, constraint, type, depth, parents) ==
    [name |-> name, version |-> version, constraint |-> constraint, type |-> type,
     eco |-> eco, depth |-> depth, parents |-> parents]

Constraints == Seq([op : STRING, version : STRING])
ConstraintTypes == {"exact", "patch", "minor", "major"}
Packages ==
    [name : STRING, version : STRING \union {""}, constraint : Constraints, type : ConstraintTypes,
     eco : {"npm", "go", "rust", "python", "php"}, depth : Nat, parents : SUBSET STRING]

ASSUME FailsAssumption == Fails \notin Seq(Packages)

Depth(parents) == IF parents = {} THEN 1 ELSE 2

-----------------------------------------------------------------------------
(* Ecosystems *)

EcosystemFiles ==
    <<<<"go.mod", "go">>, <<"Cargo.toml", "rust">>, <<"package.json", "npm">>,
      <<"composer.json", "php">>, <<"uv.lock", "python">>, <<"poetry.lock", "python">>,
      <<"pyproject.toml", "python">>, <<"requirements.txt", "python">>>>

Present(files) == Where(EcosystemFiles, LAMBDA ef : ef[1] \in files)

DetectEcosystem(files) == IF Present(files) = <<>> THEN "" ELSE Present(files)[1][2]

DetectAllEcosystems(files) ==
    LET found == Present(files)
        ecos  == Once([i \in DOMAIN found |-> found[i][2]])
    IN  IF ".github/workflows" \in files THEN Append(ecos, "actions") ELSE ecos

-----------------------------------------------------------------------------
(* Constraints *)

Bare(version) == <<[op |-> "", version |-> version]>>

\* What the operator a constraint starts with says of it, by ecosystem.
Op(constraint) == IF constraint = <<>> THEN "" ELSE constraint[1].op

ParseConstraintType(constraint) ==
    LET bounded == Op(constraint) = ">=" /\ \E i \in DOMAIN constraint : constraint[i].op \in {"<", "<="} IN
    CASE Op(constraint) \in {"===", "==", "="} -> "exact" [] Op(constraint) \in {"~=", "~"} -> "patch"
      [] Op(constraint) = "^" \/ bounded       -> "minor" [] OTHER -> "major"

CargoConstraintType(constraint) ==
    CASE Op(constraint) \in {"=", "=="} -> "exact" [] Op(constraint) \in {"~", "~="} -> "patch"
      [] Op(constraint) \in {">=", ">"} -> "major" [] OTHER -> "minor"

PHPConstraintType(constraint) ==
    CASE Op(constraint) = "^" -> "minor" [] Op(constraint) \in {"~", "~="} -> "patch"
      [] Op(constraint) \in {">=", ">", "*"} -> "major" [] OTHER -> "exact"

NPMConstraintType(constraint) ==
    CASE Op(constraint) = "^" -> "minor" [] Op(constraint) \in {"~", "~="} -> "patch"
      [] Op(constraint) \in {">=", ">"} -> "major" [] OTHER -> "exact"

-----------------------------------------------------------------------------
(* Python *)

\* Operators in the order they are looked for, anywhere in the line; one is
\* found in each that starts with it.
Ops == <<"===", "~=", "==", "!=", ">=", "<=", ">", "<", "~">>
FoundIn(op) ==
    CASE op = "==" -> {"==", "==="} [] op = ">" -> {">", ">="}
      [] op = "<" -> {"<", "<="} [] op = "~" -> {"~", "~="} [] OTHER -> {op}

\* Name and constraint of a requirement: what precedes the operator found
\* first goes to the name, other specifiers included; all of it without one.
SplitRequirement(req) ==
    LET specs  == req.constraint
        at(op) == SelectInSeq(specs, LAMBDA c : c.op \in FoundIn(op))
        first  == SelectInSeq(Ops, LAMBDA op : at(op) > 0)
        cut    == IF first = 0 THEN Len(specs) + 1 ELSE at(Ops[first])
        name   == FoldLeft(LAMBDA n, c : n \o c.op \o c.version, req.name, SubSeq(specs, 1, cut - 1))
    IN  [name |-> name, constraint |-> SubSeq(specs, cut, Len(specs))]

\* The version of a requirement that pins one is all that follows the equals
\* signs, further specifiers included.
PinnedPackage(name, constraint) ==
    LET type == ParseConstraintType(constraint) IN
    Package("python", name, IF type = "exact" THEN Written(constraint) ELSE "", constraint, type, 1, {})

\* Options, editable installs and URLs are requirements without a name.
ParseRequirements(lines) ==
    LET kept == Where(lines, LAMBDA l : l.name # "") IN
    [i \in DOMAIN kept |-> LET req == SplitRequirement(kept[i]) IN PinnedPackage(req.name, req.constraint)]

ParsePyproject(toml) ==
    LET named  == Where(toml.project, LAMBDA l : l.name # "")
        poetry == SetToSeq({d \in toml.poetry : Lower(d.name) # "python"})
    IN  IF named # <<>>
        THEN [i \in DOMAIN named |->
                 LET req == SplitRequirement(named[i]) IN PinnedPackage(Lower(req.name), req.constraint)]
        ELSE [i \in DOMAIN poetry |->
                 Package("python", Lower(poetry[i].name), "", poetry[i].constraint,
                         ParseConstraintType(poetry[i].constraint), 1, {})]

\* Who depends on name, by a lock file's own names.
ParentsIn_FirstOnly(lock, name) ==
    LET on == {i \in DOMAIN lock : Contains(lock[i].deps, name)}
    IN  IF on = {} THEN {} ELSE {lock[Min(on)].name}

ParentsIn(lock, name) == {lock[i].name : i \in {i \in DOMAIN lock : Contains(lock[i].deps, name)}}

\* parsePoetryLockBytes and parseUVLockBytes
Lowered(lock) ==
    [i \in DOMAIN lock |-> [lock[i] EXCEPT !.name = Lower(@), !.deps = [k \in DOMAIN @ |-> Lower(@[k])]]]

ParsePythonLock(lock) ==
    [i \in DOMAIN lock |->
        LET name == Lower(lock[i].name)
            parents == ParentsIn(Lowered(lock), name)
        IN  Package("python", name, lock[i].version, Bare(lock[i].version), "exact", Depth(parents), parents)]

ParsePython(dir) ==
    CASE "uv.lock" \in DOMAIN dir          -> IF dir["uv.lock"] = Malformed THEN Fails ELSE ParsePythonLock(dir["uv.lock"])
      [] "uv.lock" \notin DOMAIN dir /\ "poetry.lock" \in DOMAIN dir
                                           -> IF dir["poetry.lock"] = Malformed THEN Fails ELSE ParsePythonLock(dir["poetry.lock"])
      [] {"uv.lock", "poetry.lock"} \intersect DOMAIN dir = {} /\ "requirements.txt" \in DOMAIN dir
                                           -> ParseRequirements(dir["requirements.txt"])
      [] DOMAIN dir \intersect {"uv.lock", "poetry.lock", "requirements.txt"} = {} /\ "pyproject.toml" \in DOMAIN dir
                                           -> IF dir["pyproject.toml"] = Malformed THEN Fails ELSE ParsePyproject(dir["pyproject.toml"])
      [] OTHER                             -> Fails

-----------------------------------------------------------------------------
(* Rust *)

\* The version kept for a name is that of its last entry; entries of the
\* workspace itself are no packages but remain parents.
CargoResolved(lock, exclude) ==
    [n \in {lock[i].name : i \in DOMAIN lock} \ exclude |-> lock[SelectLastInSeq(lock, LAMBDA e : e.name = n)].version]

ParseRust(dir) ==
    LET toml     == dir["Cargo.toml"]
        lock     == IF "Cargo.lock" \in DOMAIN dir THEN dir["Cargo.lock"] ELSE <<>>
        resolved == CargoResolved(lock, {toml.root} \union toml.members)
        version(n) == IF n \in DOMAIN resolved THEN resolved[n] ELSE ""
        declared == SetToSeq(toml.deps)
        locked   == SetToSeq(DOMAIN resolved)
        pkg(n, c, type) == LET parents == ParentsIn(lock, n) IN
                           Package("rust", n, version(n), c, type, Depth(parents), parents)
    IN  IF "Cargo.toml" \notin DOMAIN dir THEN Fails
        ELSE IF toml = Malformed \/ lock = Malformed THEN Fails
        ELSE IF declared # <<>>
        THEN [i \in DOMAIN declared |-> pkg(declared[i].name, declared[i].constraint, CargoConstraintType(declared[i].constraint))]
        ELSE [i \in DOMAIN locked |-> pkg(locked[i], Bare(resolved[locked[i]]), "exact")]

-----------------------------------------------------------------------------
(* PHP, JavaScript and Go *)

Platform == {"php", "ext-json", "lib-curl"}

\* A name both sections declare keeps the first one's constraint.
Merged(first, second) == first \union {d \in second : \A e \in first : e.name # d.name}

WithoutPlatform(lock) ==
    [i \in DOMAIN lock |-> [lock[i] EXCEPT !.deps = Where(@, LAMBDA d : d \notin Platform)]]

ParsePHP(dir) ==
    LET json     == dir["composer.json"]
        lockfile == IF "composer.lock" \in DOMAIN dir THEN dir["composer.lock"] ELSE [packages |-> <<>>, dev |-> <<>>]
        lock     == WithoutPlatform(lockfile.packages \o lockfile.dev)
        resolved == CargoResolved(lock, {})
        version(n) == IF n \in DOMAIN resolved THEN resolved[n] ELSE ""
        declared == {d \in Merged(json.require, json.dev) : d.name \notin Platform}
        direct   == SetToSeq(declared)
        others   == SetToSeq(DOMAIN resolved \ {d.name : d \in declared})
        pkg(n, c, type) == LET parents == ParentsIn(lock, n) IN
                           Package("php", n, version(n), c, type, Depth(parents), parents)
    IN  IF "composer.json" \notin DOMAIN dir THEN Fails
        ELSE IF json = Malformed \/ lockfile = Malformed THEN Fails
        ELSE [i \in DOMAIN direct |-> pkg(direct[i].name, direct[i].constraint, PHPConstraintType(direct[i].constraint))]
             \o [i \in DOMAIN others |-> pkg(others[i], Bare(version(others[i])), "exact")]

\* package-lock.json, a set of entries [within, path, version, deps]: within the
\* directory of a workspace, "" for the project's own, path the names below
\* each node_modules there, <<>> for the project or the workspace itself.
\* Parsers look at what is below the project's own node_modules only.
Installed(lock) == {e \in lock : e.within = "" /\ e.path # <<>>}

\* package-lock.json by path below node_modules, joined for a nested package;
\* pnpm-lock.yaml by name, its last entry kept.  bun.lock is not read.
NPMResolved(dir) ==
    CASE "package-lock.json" \in DOMAIN dir ->
             LET lock == Installed(dir["package-lock.json"]) IN
             [p \in {e.path : e \in lock} |-> (CHOOSE e \in lock : e.path = p).version]
      [] "package-lock.json" \notin DOMAIN dir /\ "pnpm-lock.yaml" \in DOMAIN dir ->
             LET lock == CargoResolved(dir["pnpm-lock.yaml"], {}) IN [p \in {<<n>> : n \in DOMAIN lock} |-> lock[p[1]]]
      [] OTHER -> <<>>

ParseJavaScript(dir) ==
    LET json     == dir["package.json"]
        resolved == NPMResolved(dir)
        declared == SetToSeq(Merged(json.dependencies, json.dev))
        version(n) == IF <<n>> \in DOMAIN resolved THEN resolved[<<n>>] ELSE ""
    IN  IF "package.json" \notin DOMAIN dir THEN Fails
        ELSE IF Malformed \in {dir[f] : f \in DOMAIN dir \intersect {"package.json", "package-lock.json"}} THEN Fails
        ELSE [i \in DOMAIN declared |->
                 Package("npm", declared[i].name, version(declared[i].name), declared[i].constraint,
                         NPMConstraintType(declared[i].constraint), 1, {})]

ParseGoMod(dir) ==
    LET reqs == dir["go.mod"] IN
    IF "go.mod" \notin DOMAIN dir THEN Fails ELSE IF reqs = Malformed THEN Fails
    ELSE [i \in DOMAIN reqs |->
             Package("go", reqs[i].name, reqs[i].version, Bare(reqs[i].version), "exact",
                     IF reqs[i].indirect THEN 2 ELSE 1, {})]

ParseFiles(eco, dir) ==
    CASE eco = "python" -> ParsePython(dir) [] eco = "rust" -> ParseRust(dir)
      [] eco = "php" -> ParsePHP(dir) [] eco = "npm" -> ParseJavaScript(dir) [] eco = "go" -> ParseGoMod(dir)

\* Parse(dir): what the parser makes of a directory on disk.  Python's does
\* not read pyproject.toml there, and npm's takes the first lock file only.
NPMLocks == <<"package-lock.json", "pnpm-lock.yaml", "bun.lock">>
Parse(eco, dir) ==
    LET locks == Where(NPMLocks, LAMBDA f : f \in DOMAIN dir)
        read  == IF locks = <<>> THEN {"package.json"} ELSE {"package.json", locks[1]}
        python == DOMAIN dir \intersect {"uv.lock", "poetry.lock", "requirements.txt"}
    IN  CASE eco = "python" -> IF python = {} THEN <<>> ELSE ParsePython([f \in python |-> dir[f]])
          [] eco = "npm"    -> ParseJavaScript([f \in read \intersect DOMAIN dir |-> dir[f]])
          [] OTHER          -> ParseFiles(eco, dir)

-----------------------------------------------------------------------------
(* The tree of dependencies *)

\* BuildDepsMap: by the parents of each package if any has one, otherwise
\* every direct dependency is given all the indirect ones.
BuildDepsMap(pkgs) ==
    LET known    == \E i \in DOMAIN pkgs : pkgs[i].parents # {}
        parents  == UNION {pkgs[i].parents : i \in DOMAIN pkgs}
        names(s) == [i \in DOMAIN s |-> s[i].name]
        direct   == ToSet(names(Where(pkgs, LAMBDA p : p.depth <= 1)))
        copies(d) == Cardinality({i \in DOMAIN pkgs : pkgs[i].name = d /\ pkgs[i].depth <= 1})
        indirect == names(Where(pkgs, LAMBDA p : p.depth > 1))
    IN  IF known THEN [q \in parents |-> Once(names(Where(pkgs, LAMBDA p : q \in p.parents)))]
        ELSE [d \in direct |-> FlattenSeq([k \in 1..copies(d) |-> indirect])]

-----------------------------------------------------------------------------
(* The package resolver of the crawl.  It keeps every package it has parsed  *)
(* by name, and the children of every parent, over all trees of one crawl.   *)

FreshResolver == [all |-> <<>>, deps |-> <<>>]

Update(f, g) == [x \in DOMAIN f \union DOMAIN g |-> IF x \in DOMAIN g THEN g[x] ELSE f[x]]

LastNamed(pkgs) ==
    [n \in {pkgs[i].name : i \in DOMAIN pkgs} |-> pkgs[SelectLastInSeq(pkgs, LAMBDA p : p.name = n)]]

PkgToDepRef(p) ==
    [name |-> p.name, eco |-> p.eco, ref |-> IF p.version = "" THEN p.constraint ELSE Bare(p.version),
     pinning |-> IF p.version # "" THEN "exact version" ELSE IF p.constraint # <<>> THEN "semver range" ELSE "n/a"]

Refs(pkgs) == [i \in DOMAIN pkgs |-> PkgToDepRef(pkgs[i])]

Children(names, all) ==
    LET known == Where(names, LAMBDA n : n \in DOMAIN all) IN [i \in DOMAIN known |-> all[known[i]]]

Remember(resolver, all, deps) ==
    [all |-> all, deps |-> Update(resolver.deps, [q \in DOMAIN deps |-> Children(deps[q], all)])]

\* What is handed out: the packages no other depends on.
Unused(pkgs, deps) ==
    LET isDep == UNION {ToSet(deps[q]) : q \in DOMAIN deps} IN
    IF deps = <<>> THEN pkgs ELSE Where(pkgs, LAMBDA p : p.name \notin isDep)

DetectParsed(resolver, pkgs, deps) ==
    IF pkgs = Fails THEN [resolver |-> resolver, refs |-> <<>>]
    ELSE [resolver |-> Remember(resolver, Update(resolver.all, LastNamed(pkgs)), deps), refs |-> Refs(Unused(pkgs, deps))]

\* Detect on a tree of manifests: one ecosystem of it.
DetectIn(resolver, eco, pkgs) ==
    IF eco = "" THEN [resolver |-> resolver, refs |-> <<>>] ELSE DetectParsed(resolver, pkgs, BuildDepsMap(pkgs))

Detect(resolver, dir) ==
    LET eco == DetectEcosystem(DOMAIN dir) IN DetectIn(resolver, eco, ParseFiles(eco, dir))

\* Resolve: the references of the synthetic tree handed back for a reference,
\* and what Detect makes of that tree.
Resolve(resolver, ref) ==
    IF ref.name \in DOMAIN resolver.deps THEN Refs(resolver.deps[ref.name]) ELSE <<>>

\* What a crawl reaches by package references from what Detect found in one
\* tree: Resolve of everything found until nothing new is.
Reached(d) ==
    LET leads == UNION {{<<n, r.name>> : r \in ToSet(Resolve(d.resolver, [name |-> n]))} : n \in DOMAIN d.resolver.deps}
    IN  Grown(leads, {r.name : r \in ToSet(d.refs)})

-----------------------------------------------------------------------------
(* The indexer's reading of the same files *)

\* detectManifestEcosystem: the files that make the indexer look at a directory.
KnownManifests ==
    [f \in {"package.json", "go.mod", "Cargo.toml", "pyproject.toml", "requirements.txt", "composer.json"} |->
        CASE f = "package.json" -> "npm" [] f = "go.mod" -> "go" [] f = "Cargo.toml" -> "rust"
          [] f = "composer.json" -> "php" [] OTHER -> "python"]

CompanionsFor(file) ==
    CASE file = "package.json"   -> {"package-lock.json", "pnpm-lock.yaml", "bun.lock"}
      [] file = "pyproject.toml" -> {"poetry.lock", "uv.lock"}
      [] file = "Cargo.toml"     -> {"Cargo.lock"}
      [] file = "composer.json"  -> {"composer.lock"}
      [] OTHER                   -> {}

LinksOf(eco, pkgs) ==
    IF pkgs = Fails THEN {}
    ELSE {[project |-> <<eco, pkgs[i].name>>, version |-> pkgs[i].version,
           scope |-> IF pkgs[i].depth > 1 THEN "transitive" ELSE "direct"] : i \in DOMAIN pkgs}

\* parseManifestPackages: what is linked to one manifest file.
IndexedPackages(dir, file) ==
    LET read == ({file} \union CompanionsFor(file)) \intersect DOMAIN dir IN
    LinksOf(KnownManifests[file], ParseFiles(KnownManifests[file], [f \in read |-> dir[f]]))

\* The edges of a lock file of entries: project and version of the parent,
\* and project of the child.
EdgesOf(eco, lock) ==
    UNION {{[parent |-> <<eco, lock[i].name>>, version |-> lock[i].version, child |-> <<eco, d>>]
               : d \in ToSet(lock[i].deps)} : i \in DOMAIN lock}

\* extractNpmName: the last segment of a path below node_modules; whatever does
\* not begin there is taken for the root.
NpmName(e) == IF e.within # "" \/ e.path = <<>> THEN "__root__" ELSE Last(e.path)

ExtractNpmDeps(lock) ==
    UNION {{[parent |-> <<"npm", NpmName(e)>>, version |-> e.version, child |-> <<"npm", d>>]
               : d \in ToSet(e.deps)} : e \in lock}

\* extractDependencyEdges: one lock file per ecosystem; uv.lock,
\* pnpm-lock.yaml and bun.lock are not among them.  Cargo.lock is scanned for
\* lines, so that one that does not parse has edges too.
LockFor(eco) ==
    CASE eco = "npm" -> "package-lock.json" [] eco = "rust" -> "Cargo.lock"
      [] eco = "python" -> "poetry.lock" [] eco = "php" -> "composer.lock" [] OTHER -> ""

ExtractDependencyEdges(eco, dir) ==
    LET file == LockFor(eco)
        lock == dir[file]
    IN  IF file \notin DOMAIN dir THEN {}
        ELSE IF lock = Malformed THEN IF eco = "rust" THEN EdgesOf(eco, Salvaged) ELSE {}
        ELSE CASE eco = "npm" -> ExtractNpmDeps(lock)
               [] eco = "php" -> EdgesOf(eco, WithoutPlatform(lock.packages \o lock.dev))
               [] OTHER       -> EdgesOf(eco, lock)
=============================================================================
