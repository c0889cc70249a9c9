------------------------------ MODULE Compromised ------------------------------
(***************************************************************************)
(* The compromised-package scan of internal/scanner/compromised.go: every   *)
(* package.json below a directory against a list of known-bad versions,    *)
(* with what it leaves in the cache database, and the same question asked  *)
(* of the index instead of the files.                                      *)
(*                                                                         *)
(* A file system is a function from paths to directories; these, and the   *)
(* entries of a package-lock.json, are as in Manifests.                    *)
(*                                                                         *)
(* A definition named X_Y is X with a plausible mistake Y.                 *)
(***************************************************************************)
EXTENDS Manifests, Versions

CONSTANT TraceLimit     \* steps of traceDependencyPath; 20 in the code

-----------------------------------------------------------------------------
(* Targets *)

\* parseTarget on an entry [name, version] split at its last @; without a
\* version any will do.  version is a constraint here.
AnyVersion == <<[op |-> "*", version |-> ""]>>

ParseTarget(entry) ==
    IF entry.name = "" THEN Fails
    ELSE [name |-> entry.name, range |-> IF entry.version = Unparsed THEN AnyVersion ELSE entry.version]

\* ParseCompromisedList and ParseCompromisedFile: blank entries, and comments
\* of a file, are no entries; one that is none fails the whole list.
ParseTargets(entries) ==
    LET targets == [i \in DOMAIN entries |-> ParseTarget(entries[i])] IN
    IF entries = <<>> \/ \E i \in DOMAIN targets : targets[i] = Fails THEN Fails ELSE targets

\* targetMap: what is bad of each name, in the order given.
TargetMap(targets) ==
    [n \in {targets[i].name : i \in DOMAIN targets} |->
        LET own == SelectSeq(targets, LAMBDA t : t.name = n) IN [i \in DOMAIN own |-> own[i].range]]

-----------------------------------------------------------------------------
(* Manifests *)

SkippedDirs == {".git", "node_modules"}

DiscoverManifests(fs) == {d \in DOMAIN fs : ToSet(d) \intersect SkippedDirs = {} /\ "package.json" \in DOMAIN fs[d]}

ParseDirectDeps(json) ==
    IF json = Malformed THEN <<>>
    ELSE LET declared == Merged(json.dependencies, json.dev) IN
         [n \in {d.name : d \in declared} |-> (CHOOSE d \in declared : d.name = n).constraint]

\* parseLockfileResolved: by a package's own name.  A name locked at several
\* paths keeps the version of the one the iteration meets last; what a workspace
\* has in a node_modules of its own is not looked at.
ParseLockfileResolved(lock) ==
    LET entries  == {e \in Installed(lock) : e.version # ""}
        names    == {Last(e.path) : e \in entries}
        versions == [n \in names |-> {e.version : e \in {e \in entries : Last(e.path) = n}}]
    IN  {f \in [names -> UNION Range(versions)] : \A n \in names : f[n] \in versions[n]}

\* parsePnpmResolved: of the entries of one name the last is kept.
ParsePnpmResolved(lock) == CargoResolved(lock, {})

\* The versions a directory's lock file resolves to: the first lock file there
\* is, none if it does not parse.
Resolved(dir) ==
    LET npm  == dir["package-lock.json"]
        pnpm == dir["pnpm-lock.yaml"]
    IN  IF "package-lock.json" \in DOMAIN dir THEN IF npm = Malformed THEN {<<>>} ELSE ParseLockfileResolved(npm)
        ELSE IF "pnpm-lock.yaml" \in DOMAIN dir THEN {ParsePnpmResolved(pnpm)} ELSE {<<>>}

-----------------------------------------------------------------------------
(* The scan of one manifest *)

Finding(manifest, name, version, relation) ==
    [manifest |-> manifest, name |-> name, version |-> version, relation |-> relation]

\* A target read as a version: only a bare one is.
AsVersion(range) == IF Len(range) = 1 /\ range[1].op \in {"", "="} THEN range[1].version ELSE ""

Satisfied(ranges, version) == \E i \in DOMAIN ranges : SemverSatisfies(ranges[i], version)

\* Mistake: a dependency the lock file holds is matched by its constraint too.
ProcessManifest_IgnoresLock(manifest, direct, resolved, bad) ==
    LET admitted(n) == SelectInSeq(bad[n], LAMBDA r : SemverSatisfies(direct[n], AsVersion(r))) IN
    {Finding(manifest, n, resolved[n], IF n \in DOMAIN direct THEN "direct" ELSE "indirect")
        : n \in {n \in DOMAIN resolved \intersect DOMAIN bad : Satisfied(bad[n], resolved[n])}}
    \union
    {Finding(manifest, n, AsVersion(bad[n][admitted(n)]), "possible")
        : n \in {n \in DOMAIN direct \intersect DOMAIN bad : admitted(n) > 0}}

\* Locked versions first; a direct dependency the lock file does not hold is
\* reported with the first bad version its constraint admits.
ProcessManifest(manifest, direct, resolved, bad) ==
    LET unlocked    == (DOMAIN direct \ DOMAIN resolved) \intersect DOMAIN bad
        admitted(n) == SelectInSeq(bad[n], LAMBDA r : SemverSatisfies(direct[n], AsVersion(r)))
    IN  {Finding(manifest, n, resolved[n], IF n \in DOMAIN direct THEN "direct" ELSE "indirect")
            : n \in {n \in DOMAIN resolved \intersect DOMAIN bad : Satisfied(bad[n], resolved[n])}}
        \union
        {Finding(manifest, n, AsVersion(bad[n][admitted(n)]), "possible") : n \in {n \in unlocked : admitted(n) > 0}}

\* findParentChain: at most three other direct dependencies, none of which
\* need lead to it.
FindParentChain(direct, name) == LET others == DOMAIN direct \ {name} IN
    {chain \in SUBSET others : Cardinality(chain) = Min({3, Cardinality(others)})}

\* What one manifest leaves in the cache: projects, versions and edges.
LogManifest(manifest, direct, resolved) ==
    LET names      == DOMAIN resolved \union DOMAIN direct
        version(n) == IF n \in DOMAIN resolved THEN Bare(resolved[n]) ELSE direct[n]
        given(n)   == n \in DOMAIN direct /\ direct[n] # <<>>
    IN  [projects |-> {<<"manifest", manifest>>} \union {<<"npm", n>> : n \in names},
         versions |-> {<<<<"npm", n>>, version(n)>> : n \in names},
         edges    |-> {[parent |-> <<"manifest", manifest>>, child |-> <<"npm", n>>,
                        constraint |-> IF n \in DOMAIN direct THEN direct[n] ELSE <<>>,
                        scope |-> IF n \notin DOMAIN resolved \/ given(n) THEN "direct" ELSE "transitive"] : n \in names}]

\* ScanCompromised: one of the outcomes the lock files leave open.
ScanCompromised(fs, targets) ==
    LET manifests == DiscoverManifests(fs)
        bad       == TargetMap(targets)
        direct    == [d \in manifests |-> ParseDirectDeps(fs[d]["package.json"])]
        outcomes  == [d \in manifests |-> Resolved(fs[d])]
        choices   == {f \in [manifests -> UNION Range(outcomes)] : \A d \in manifests : f[d] \in outcomes[d]}
    IN  {[findings |-> UNION {ProcessManifest(d, direct[d], f[d], bad) : d \in manifests},
          logged   |-> [d \in manifests |-> LogManifest(d, direct[d], f[d])]] : f \in choices}

-----------------------------------------------------------------------------
(* The same from the index *)

\* A package below node_modules is linked by its own package.json.
ParseNodeModulesPackage(json) ==
    IF json = Malformed THEN {}
    ELSE IF json.name = "" THEN {}
    ELSE {[project |-> <<"npm", json.name>>, version |-> json.version, scope |-> "installed"]}

\* What the package.json of a directory has linked to it.
LinkedIn(d, dir) ==
    IF "node_modules" \in ToSet(d) THEN ParseNodeModulesPackage(dir["package.json"])
    ELSE IndexedPackages(dir, "package.json")

\* parseManifestPackages over a file system: links [manifest, project,
\* version, scope].
IndexLinks(fs) ==
    UNION {{[manifest |-> d, project |-> l.project, version |-> l.version, scope |-> l.scope] : l \in LinkedIn(d, fs[d])}
              : d \in {d \in DOMAIN fs : "package.json" \in DOMAIN fs[d]}}

Relation(scope) == IF scope \in {"transitive", "installed"} THEN "indirect" ELSE "direct"

\* ScanCompromisedFromIndex, over every ecosystem.
ScanFromIndex(links, targets) ==
    LET bad == TargetMap(targets) IN
    {Finding(l.manifest, l.project[2], l.version, Relation(l.scope))
        : l \in {l \in links : l.project[2] \in DOMAIN bad /\ Satisfied(bad[l.project[2]], l.version)}}

\* traceDependencyPath: up to the first recorded parent, until there is none
\* or it has been seen; edges in the order they were recorded.
TraceDependencyPath(edges, project) ==
    LET step(t) ==
            LET at == SelectInSeq(edges, LAMBDA e : e.child = Head(t.chain)) IN
            IF at = 0 \/ t.done THEN [t EXCEPT !.done = TRUE]
            ELSE IF edges[at].parent \in t.visited THEN [t EXCEPT !.done = TRUE]
            ELSE [t EXCEPT !.chain = <<edges[at].parent>> \o @, !.visited = @ \union {edges[at].parent}]
        end == FoldLeft(LAMBDA t, i : step(t), [chain |-> <<project>>, visited |-> {}, done |-> FALSE],
                        [i \in 1..TraceLimit |-> i])
    IN  IF Len(end.chain) <= 1 THEN <<>> ELSE end.chain
=============================================================================
