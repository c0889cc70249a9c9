# Formal models of depscope

depscope scans a repository for the dependencies it pulls in (packages, GitHub
Actions, submodules, scripts, Terraform modules, tools), scores them, and shows
the result as a report, a graph or a searchable index. This directory holds TLA+
specifications of its stateful parts, the TLC configurations that check them, and
TLAPS proofs about the core.

    tlc -config MCCrawlerFresh.cfg MCCrawler.tla
    tlapm CrawlerProofs.tla
    tlapm ScanJobsProofs.tla
    tlapm IndexProofs.tla
    tlapm EnrichProofs.tla
    tlapm ListProofs.tla
    tlapm AnalysisProofs.tla
    tlapm AnalysisGraphProofs.tla
    tlapm ExplorerProofs.tla

## 1. Inventory

| component | state | operations | interacts with | what is hard | correct when |
|---|---|---|---|---|---|
| Crawler (`internal/crawler`) | graph, `seen`, queue of items by level, errors, statistics | `Crawl`, `resolveRefs`, `processCachedDeps`, `cacheVersion` | resolvers (calls, goroutines), cache DB (read and written), context | concurrency inside a level, cancellation anywhere, diamonds and cycles, depth limit, mixture of fresh and cached children | returns always; the graph is rooted, closed and complete to the depth limit; each version is expanded once, at its least depth |
| Scan server (`internal/server`, `store`) | `ScanJob` rows, graph rows, one goroutine per scan | submit, run, page, status, graph API | crawler, three stores, browser, Lambda | asynchronous scans, write failures that are dropped, crashes, unsynchronised memory store, two-query reads | an outcome is stored whole and stays; whoever submits is answered |
| Manifest indexer (`internal/scanner/indexer.go`, `internal/cache`) | SQLite tables | `RunIndex`, upserts, prune, run records | file system, crawler and server (same database file) | incremental runs, kill between two writes, rowids, a tree that changes while it is walked | the index says of each manifest what is in it |
| Package resolver and parsers (`resolvers/package.go`, `internal/manifest`) | maps by package name | `Detect`, `Resolve` | crawler | parents versus direct dependencies, cycles, shared maps | the tree has exactly the edges of the lock file |
| Other resolvers (`internal/crawler/resolvers`) | caches of SHAs | `Detect`, `Resolve` | crawler, GitHub | choice of version key | keys of different projects differ |
| CVE and score passes (`cvepass.go`, `scorepass.go`) | node scores, repository cache | worker pool over nodes | graph, registries, OSV | check-then-act on the cache | each node scored once |
| Enrichment (`enrich.go`) | `project_versions.metadata` | resumable pass over a pool of goroutines | index, crawler, prune (same tables) | shared caches, kills, transient failures stored for good, metadata wiped by a re-index | what has its metadata is not fetched again, what has none is; no cache answers for a call that failed or is not finished |
| Scoring, propagation, paths (`internal/core`, `internal/graph`) | none | pure functions | everything above | cycles, rounding, missing factors | transitive score is the least one reachable |
| Blast radius, gaps (`server/blast.go`, `gaps.go`) | none | reverse search | stored graphs | dangling edges, cycles | affected = what reaches the package |
| GitHub Actions scan (`internal/actions`) | visited set | recursion of limited depth | GitHub | order of visits, depth limit | what is below the limit is expanded |
| Discovery (`internal/discover`) | none | version ranges, classification | file system | boundaries of ranges, merging of statuses | nothing affected is called safe |
| Compromised scan (`compromised.go`, `semver.go`) | findings table | match by range, parent chains | index | ranges, cycles | a match is found in every manifest that has it |
| Fetcher pool (`registry/fetcher.go`) | semaphore | `FetchAll` | registries | weight zero | terminates |
| TTL caches (`cache.go`, `db.go`) | files, rows | get, set, prune | all clients | expiry against readers | no stale answer after expiry |
| Terminal explorer (`internal/tui`) | list, cursor, filter, search, sub-views | keys | graph of a scan | derived lists that must be rebuilt, cycles | what is listed is what was asked for |
| Reports, commands, configuration | none | formatting, flags, profiles | everything above | weights that are overridden | weights add up |

How they interact: `CrawlURL`/`CrawlDir` build the resolvers and call `Crawl`, then
the CVE pass, the score pass and the propagation over its graph. The server runs
`CrawlURL` in a goroutine (or in the request, on Lambda) and stores the outcome. The
indexer fills the SQLite tables that the crawler reads as its cache when the server is
given the same database, and that enrichment updates.

## 2. Plan

In the order of the modules' importance; all of them are done.

1. `RootedGraph`: what the crawl promises about its graph. `Crawler` implements it.
2. `Crawler`: the crawl. Runs on fresh and cached worlds. `CrawlerProofs`.
3. `JobLife`: what a store promises of a scan's status. `ScanJobs`, the server over its
   three stores, implements it. `ScanJobsProofs`.
4. `Index`: the indexer over its tables. `IndexProofs`.
5. `Enrich`: enrichment, its pool and caches, with the other writers of its tables.
   `EnrichProofs`.
6. `Manifests`, `Scoring`, `Pipeline`, `Versions`, `Discover`, `Blast`, `Compromised`,
   `Actions`, `Workflows`: the analyses, operators only, put together by `Analysis`.
   `AnalysisProofs`, `AnalysisGraphProofs`.
7. `Explorer`: the terminal explorer. `ExplorerProofs`.
8. `Lists`: what the analyses and the explorer do with sequences and searches, as recursive
   functions. `ListProofs`.

Left: a form of `Actions` without RECURSIVE operators, so that `ActionsAreExpanded` can be proved;
expiry of DynamoDB items in `ScanJobs`; the browser of the index in the terminal.

## 3. Modules and how they correspond to the code

Conventions: one action per step of the code between two points where another actor
(goroutine, context, process, user) can interfere; definitions keep the source's names.
`X_Y` beside a definition `X` is the same definition with a plausible mistake `Y`; no
specification uses it, it is there to show that a property notices the mistake.

### `RootedGraph`, `Crawler`, `MCCrawler`

`RootedGraph` is the abstract graph: a root, and steps that attach one node below a
node found one level higher. `Crawler` has the state of `Crawler` and of the locals of
`Crawl`:

| code | model |
|---|---|
| `queue`, `levelItems`, the item | `queue`, `level`, `item` |
| `allRefs`, results of `resolveRefs` | `refs`, `results`, `toProcess` |
| `c.graph`, `c.seen`, `c.errors` | `nodes`, `edges`, `owner`, `seen`, `errors` |
| `ctx.Err()` | `ctxDone`, set by `Cancel` at any time |
| cache tables | `versions`, `world.rows` |
| loop over levels / items / resolvers / results | `BeginLevel`, `TakeItem`, `Detect`, `Process` |
| goroutine of `resolveRefs` | `Resolve(ref)`, one step each, in any order |
| the `if` chain over one result | `ProcessError`, `ProcessNil`, `ProcessSeen`, `ProcessNew` with `AtMaxDepth`, `CacheHit`, `CacheMiss` |
| `processCachedDeps` | `ProcessCached(child)` |
| `return c.buildResult(...)` | `CutOff` (after a cancellation), `Finish` |

What the resolvers find and which contents they return is a `world`, chosen at the
start from the constant `Worlds`. Go's maps are ranged over in no order, and the items
of a level are handled in any order; the code's order is one of these. Edges are a set:
the code may list an edge twice, which no reader of the graph distinguishes. A `Resolve`
may fail, return nil or be aborted by the context, as the `Resolver` interface and
the crawler's tests have it.

### `JobLife`, `ScanJobs`, `MCScanJobs`

`jobs[id]` is the stored `ScanJob` (status, whether it has a result, an error), `graphs`
the graph rows, `scan[id]` where `runScan` is, `page[id]` what the browser of that
scan shows. Each store call is a step, and a call of a database may fail (`CallFails`).
`Write` is one UPDATE: it happens whole or fails, and `runScan` drops the error (`lost`
remembers it). A `Get` that fails is answered 404, whatever is stored, by a page that asks no
more (`GetPage`; `misread` remembers the scan); a poll that fails goes on. The memory store
assigns two fields of a shared struct without a lock, so `SetResult` and `SetStatus`, and
`SetError` and `SetFailed`, are two steps that readers may see in either order. `Crash` kills
the goroutines and the memory store; `LambdaTimeout` one invocation. `ReadNodes` and
`ReadEdges` are the two queries of `LoadGraph`; `ReadResultGraph` the type assertion the other
stores' graphs go through.

`JobLife` is the abstract life of a scan: its status is queued, may be seen running, ends
once, and is lost only when a process that kept it in memory starts again. `ScanJobs`
implements it with the status of its rows, whether the store outlives the process, and the
number of crashes (`StatusForward`). A lost `UpdateStatus` ends a scan that was never seen
running, and a lost `SaveResult` or `SaveError` never ends it: both are behaviours of
`JobLife`. An UPDATE that goes back in status, or one that follows a crash, would not be.

### `Index`, `MCIndex`

The tables are `rows` (`index_manifests`), `links` (`manifest_packages`), `projects`,
`vrow` (`project_versions`: the rowid of a version, 0 where it has no row; `versions` are
those that have one), `drow` (`version_dependencies`, with `deps`), `runs`; the connection's
`last_insert_rowid` is `lastId`, and the rowids the tables hand out are modelled because
`UpsertIndexManifest` reads it. `files` is
the disk. Each database write of `RunIndex` is a step: `Upsert`, `Clear`, `AddPackage`
(which may stop after any of its three writes), `AddParent`, `AddEdge`, `PruneOne`,
`Finish`. `Look` takes the mtime, `Upsert` reads the content, `Reread` opens the lockfile
again for the edges. `CachePrune` is `depscope cache prune`, which takes versions with the edges
below them, any at any time, and leaves the links to them; `pruned` remembers which, until
they are stored again. The user may edit, make, remove, hide and show manifests between any
two steps; an edit may leave the mtime alone (a lockfile, or the same second).

### `Enrich`, `MCEnrich`

`row` is the metadata column of `project_versions` (`Bare` where there is none, or no
row), `cve` the fresh entries of `cve_cache`. The loop of `RunEnrich` is at `pc`/`at`, over the
first `total` packages: `rows.Err` is not looked at, so that a listing that fails on its way is a
shorter one (`Begin`). `Take` looks at the row, where a SELECT that fails is taken for no
metadata (`unread` remembers the package), `Spawn` is the send on `sem`, `Return` the end of `wg.Wait()`.
Each goroutine has a `step` and the `meta` it has put together; the two critical sections
on `repoCache` are `LookUpRepo` and `PutRepo`, with the call between them, `AskRepo`,
outside of both. A score is reduced to what it rests on (nothing, a failed fetch, the
registry, registry and repository), findings to some or none. `LoseMeta`, `CrawlCVE` and
`Expire` are the other commands and the clock. The goroutines of a cancelled run go on to
their end, as in the code; those of a killed process do not.

### The analyses: `Analysis`, `MCAnalysis` and the modules they extend

The analyses keep nothing between calls. Their modules hold one operator per function of
the code, from input to result, and `Analysis` is one question and its answer: `request` is
chosen from `Requests`, and one action per entry point computes `reply`. What the code
leaves to the iteration of a map is a set of results or a choice (the handlers of the blast
radius answer with one of a set); a file that does not parse
is `Malformed`, a function that returns an error `Fails`. `Salvaged` stands for what the
indexer's scan for lines still finds in a `Cargo.lock` that does not parse. Operators are in the code's order,
loop for loop where the order of the loop decides the outcome (`RedistributeUnavailable`,
`FindRiskPaths`, `ProcessActionRef`, `Search`).

| module | code | data |
|---|---|---|
| `Manifests` | `internal/manifest`, `resolvers/package.go`, the extraction of `scanner/indexer.go` | a file is what its decoder yields: entries with a name, a version, the names they depend on; an entry of `package-lock.json` has the directory of its workspace and the names below each `node_modules`; a constraint is a sequence of operators and versions, and `Written` its text; one name, `B`, differs from another in case only |
| `Scoring` | `internal/core`, `internal/config` | scores are integers, weights a function on the factors; dates are days |
| `Pipeline` | `scanner.go`, `crawl.go`, `scorepass.go`, `cvepass.go`, `graph/builder.go`, `graph/propagator.go` | the registries, repositories and advisories are functions, undefined where the call fails |
| `Versions` | `discover/version.go`, `scanner/semver.go` | `Text` gives the numbers and the pre-release of the version texts in use, one with a comma among them: the two parsers read some of them differently |
| `Discover` | `internal/discover`, `resolve/filters.go` | a file system is a function from directories (sequences of names) to files |
| `Blast` | `server/blast.go`, `gaps.go`, `vuln/osv.go`, `graph/graph.go` | nodes and the sequence of edges; the store keeps types and pinnings as text; each of its three reads may fail |
| `Compromised` | `scanner/compromised.go` and the index queries | the same directories and files |
| `Actions`, `Workflows` | `internal/actions` | a workflow is its jobs' references, steps and permissions; GitHub answers a ref with a SHA, or with nothing, and a request for a file with its contents, a 404 or another error |

`Actions` is written with RECURSIVE operators, its recursion passing a visited set and two
results along. So that theorems can be stated about the other analyses, `Analysis` takes the
scan of workflow files as a constant, `WorkflowScan`, and the runs give it the one
operator of `Workflows`, `ScanAndSummarise`; everything else is recursive functions and
folds. The loops that search a graph, keep what passes a test or sort are in `Lists`, as recursive
functions of one argument, the form they can be proved about in; the explorer uses them too.

`RequestsAssumption` says which questions the program can be asked: a package scored has facts
and the overrides name its factors, with whole numbers (`ScoreRequest`); a graph handed to the
passes is one a crawl leaves (`CrawlRequest`); a manifest declares finitely many
packages and a lock has one entry per path (`CompromisedRequest`); the range compared with a
constraint has been parsed before (`RangeRequest`). A tree scanned (`UrlRequest`), a
directory scanned (`DirRequest`) or read has files whose decoders yield what their types in the
source allow, or an error (`Content`, `Directory`): entries in sequences for lock files, finite sets
for tables; there are finitely many directories, and OSV's answer is a list of severities or a
failure (`WorldRequest`). `TextAssumption` is what the parsers of
versions accept, and that the empty text is no version; `FailsAssumption` and
`UnparsedAssumption` keep the two values for errors apart from results.

The properties do not repeat the code's algorithm. What is "below" a package is the least
set closed under the dependencies (`Downstream`), not a walk; what a range holds is
membership, version by version, not bounds; a score is compared with the exact weighted
mean; the indexer's edges with those of the scan's parser, which is other code.

Divisions of floating-point numbers are exact quotients truncated towards zero: Go may be
lower by one where the quotient is a whole number.

### `Explorer`, `MCExplorer`

One action per key of `Model.Update` and of the sub-views' updates. `list` is the visible
rows with cursor and offset, `expanded`, `filter`, `search`, `inspecting`, `paths` the
fields of the same names, `view` the graph view with its own list, zoom and selection,
`walker` the walker with its trail. `roots` are those the explorer was made with; they, the flat
list and the clusters are sorted from a map by an unstable sort, so what the comparison does not tell
apart, as two refs of one action or two versions of one package, comes in any order each time
(`Sorted`); the children of a node are sorted from a list, in one order each time.
`hasFilteredDescendant` and `buildTreeVisible` recurse
without a visited set; where that does not end, the operators yield `Diverges` and the
program has `crashed`. Heights are lines of the terminal, names are numbers (their order is
all that counts). The width is left out with the drawing.

## 4. Runs

| run | question | bounds | result |
|---|---|---|---|
| `crawl_fresh` | does a crawl without a cache return, completely, expanding versions at their least depth, and without blaming anyone for a timeout? | 4 references of 2 sources, 144 graphs (chains, diamonds, cycles), depth limit 4, resolves may fail | holds |
| `crawl_cache` | does the graph stay sound, and every version handled once, when fresh and cached children mix? | 3 references, all subsets of 5 dependency rows, depth limit 3, detects and resolves may fail | holds |
| `crawl_pruned` | do cached children whose rows are gone fall back to a fresh resolve? | one chain of three | violated |
| `crawl_tag` | does every project referred to have a node? | two actions at one tag | violated |
| `scan_jobs` | are outcomes whole, lasting, and told to the user? | 2 scans, every deployment, 1 crash, any call of a database may fail | holds |
| `scan_graph` | does a shown report have its graph? | 1 scan, SQLite | violated |
| `index_runs` | is the index consistent with the tree and with itself? | 2 manifests, 2 packages, 2 runs, 1 change of the user, any call may fail, kills, the cache pruned at any time | holds |
| `index_rerun` | are a manifest's packages right after a clean re-run? | the same, nothing fails | violated |
| `enrich_runs` | does an enrichment add up, spare calls without mixing up answers, resume, and end? | 5 packages, 3 of one repository, pool of 2, 2 runs, 1 failing call, query or listing, expiry or write of another command, kills | holds |
| `enrich_skip` | is a package that was enriched skipped without `--force`? | the same | violated |
| `analysis` | is every answer of the analyses what its definition says? | all requests of `MCAnalysis` | holds |
| `explore` | does the terminal explorer show what was asked for, after any keys? | 3 graphs of 2 or 3 nodes, heights 3 and 5, 1 search, trail of 3 | holds |

Why the bounds are enough. The crawl needs a level with two items, a version reached
along paths of different length and a cycle through the depth limit: four references
and four levels give all of them. `crawl_fresh` has distinct version keys; the
collision of keys is the subject of `crawl_tag`. Two scans suffice because jobs share
nothing but the process. The indexer needs one manifest whose row is older than
another one's and a second run; the user's one change may come in the first run, between
the runs or in the second. The enrichment needs one package more
than the pool has places for one repository, so that a look-up can find another's call
unfinished, finished or failed; a second run to resume; one trouble, because each property
is lost to the first one if it is lost at all. `MaxRuns`, `MaxEdits`, `MaxCrashes`,
`MaxTroubles` and, in the explorer, `MaxTrail` are the only counters cut by a bound.

The requests of `MCAnalysis` are families of small shapes: every relation between three
locked packages, self-loops and cycles included, for `poetry.lock`, `Cargo.lock` and
`composer.lock` (without self-loops for `uv.lock` and `package-lock.json`); constraints and
ranges of one or two specifiers over four versions, one of them a pre-release, so that every
bound meets itself and its neighbours; missing, weak and strong data per factor with every
kind of override; crawled nodes of each type with and without a project, a version and an
advisory; every subgraph of a blast graph with a diamond, a cycle, a dangling and a doubled
edge, from the store, from memory or from nowhere, and any of the three reads failing; pins and
bare versions with a further specifier; locks with the entries of a workspace; actions that use each other and
themselves, within the depth limit and across it. `PathDepth`,
`MaxPaths`, `TraceLimit`, `TransitiveDepth` and `MaxActionDepth` are the code's limits made
small enough for the graphs to pass them. The explorer needs a row under two parents, two nodes
of equal score, two that no sort tells apart, a node that fails the filter above one that passes,
and a cycle; a screen shorter than the list and one longer than it. There are 33,528 states of
`analysis`, 2.0 million of `index_runs` and 0.9 million of `explore`.

Deadlock is checked for the crawl, which has an explicit `Terminated` step. It is off
for `ScanJobs`, where every browser may have been refused, and for `Index` and `Enrich`,
where the bounds on runs end the behaviour, for `Analysis`, which answers one question, and
for `Explorer`, which may quit or crash.

Fairness. `Crawler`: weak fairness of `Step`: the loop runs on, and every `Resolve`
returns because the clients below carry timeouts of their own; nothing makes the
context end, so `Terminates` rests on deduplication, not on the timeout. `ScanJobs`: weak
fairness for a scan's goroutine, for following a redirect or reload and for a poll that
would find an end (not every one of the polls, two seconds apart, fails for ever); none for submitting, crashing or opening the graph. `Index` has no
liveness property. `Enrich`: weak fairness of `Run`, the loop and the goroutines taken
together: as long as one of them can go on, one does; their calls carry timeouts.

### What the violated properties show

* `CacheMissFallsBack`: `processCachedDeps` queues a child only when the index has rows for
  it; nothing resolves it otherwise, although the design says it falls back.
* `EveryProjectShown`: deduplication is by version key alone and some resolvers use the
  bare ref as key.
* `GraphAfterReport`: `SaveResult` precedes `SaveGraph`.
* `RunIsExact`: the comment in `UpsertIndexManifest` says it always re-queries the id; it
  does not, and after an update it uses the id of the last row inserted anywhere.
* `EnrichedAreSkipped`: the indexer, the crawl and the compromised scan upsert versions with
  empty metadata, and `UpsertVersion` overwrites what an enrichment stored.

### What the properties had to grant

The properties hold of the code as it is. Where the code does less
than a reader may expect, the property has the exception in it, or the behaviour is below it:

* Server. A read of a scan that fails for a moment is answered 404 by a page that does not poll, so
  `EveryScanAnswered` excepts the scans this happened to. In the memory store complete may be seen
  before the result and failed before the error: such a page has neither, and is an answer to
  `EveryScanAnswered`; `WholeOutcome` is about the rows of databases.
* Index. `depscope cache prune` leaves links to versions it deleted (`VersionBehindLink` excepts
  these). A run killed between the mtime of a manifest and its packages leaves the packages
  missing until the manifest changes; `IndexMatchesTree` compares rows and mtimes, not links.
* Enrichment. A listing of the packages that fails on its way is a shorter index, and the run ends
  without an error (`CompleteRun` is about what was listed); a SELECT of metadata that fails leads
  to a fetch that was not needed (`NoNeedlessFetch` excepts it).
* Lock files. Where `Cargo.toml` declares dependencies only these become packages, and what its
  lock lists below them is dropped. They have the project itself as their parent, which
  is no package: they count as depth 2, and `Detect` finds none of them, although its comment
  keeps the direct ones. `TreeFollowsLock` says so (`PackagesOf`): the crawl of such a crate
  reaches nothing. `package-lock.json` gives versions only, and the tree of npm is flat; the indexer's
  reader of it knows more. Of a whole tree `Detect` parses one ecosystem, and files of one base
  name collide. `Parse` of a Python directory
  never reads `pyproject.toml`; `bun.lock` is never read. The indexer does not lower the names
  of `poetry.lock` and finds no edges in `uv.lock`. `splitRequirement` takes the operators in a
  fixed order, so `django<4,>=3.2` is a package named `django<4,`.
* Scores. An override above 100 makes the other weights negative, and overriding all seven
  factors to a sum other than 100 is not normalised. `core.Propagate` goes by name, and of
  two packages of one name the last counts; `graph.Propagate` goes by node and runs after the
  depths were computed again, so the two differ, although a comment says that they match. The
  risk of a node is not updated after the CVE penalty and the trust in organisations.
* `CrawlResultToScanResult` counts as direct what has no incoming edge, which is the root.
* Discovery. `highInclusive` does not know `===`, so that a constraint `===1.0` is said not to
  meet `>=1.0`; `NoFalseSafe` leaves `===` out, in constraints and in ranges. A requirement that pins
  a version and goes on, `==1.1.0,<2.0.0`, keeps all of its text as the locked version, which is read
  as a pre-release of 1.1.0; a bare version with specifiers behind it is read as one version in the
  same way. A project that pins an affected version like this can be called safe. The requests have
  both, and `NoFalseSafe` makes no claim about them (`Plain`, `pinned`). A transitive constraint that
  does not parse is safe; of a safe lock file and a potentially affected manifest the manifest wins, although
  the comment prefers the lock file; the filter by ecosystem looks at a directory's first file
  only; each file is parsed alone, which leaves `Cargo.lock`, `package-lock.json` and
  `composer.lock` without a parser; `DiscoverFromCache` has no caller.
* Blast radius. While a scan runs its graph is empty, and so is the answer, with status 200; a
  stored graph that cannot be read is passed over, and the answer is as empty. Past the limit
  of 50 paths the order of two maps decides which are shown and how deep the radius is said
  to be, so that a simulation need not show what the real thing shows: the property holds of
  each answer by itself. Nothing sets the metadata `broad_permissions` gaps are found by.
* Compromised packages. A range among the targets is read as a version where a package is not
  locked, and never matches. A package locked at several versions is judged by one of
  them, which the iteration of a map picks. What a workspace has below its own
  `node_modules` (`packages/app/node_modules/axios`) is not looked at, and a bad version there is not
  reported: `CompromisedAreFound` is about what is below the project's. In a cycle a path may list
  its start twice.
* Actions. An action first met at the depth limit stays unexpanded when it is met again
  above it; it is scored with the permissions of the workflow that met it first;
  `permissions: write-all` is not broad; an action in a sub-directory is resolved by the
  `action.yml` at the root.
* Explorer. A terminal narrower than four columns makes the flat list panic (`flat.go:74`).
  Nodes that tie in score, type and name change places from one redraw to the next, under a
  cursor that stays. A cycle below a node that fails the filter crashes it. The cursor is on a row, but
  not always on the screen: opening the search shrinks the list without scrolling.

## 5. Proofs

`CrawlerProofs`, for every value of the constants under `CrawlerAssumption`:

* `TypeCorrect`: `Spec => []TypeOK`.
* `GraphSound`: `Spec => [](Closed /\ Anchored)`.
* `Refinement`: `Spec => GraphGrows`, the crawl implements `RootedGraph`.

`Anchored` is not inductive: that an edge starts one level above its end depends on the
item being handled. `GraphInv` adds that every pending item, and the one being handled, is
`Hooked`: its parent is in the graph at the item's depth, and an item with cached children
has a parent, because `processCachedDeps` has no fallback to the root. It also needs that
`seen` names only nodes of the graph. The proof has a lemma for the initial state, one for
each action that touches the graph and one for those that do not; the refinement uses the
same invariant to find the depth at which a step attaches its node.

Its second part is about the order of the levels:

* `LevelsAndDepth`: `Spec => []InDepthOrder`.
* `ExpandedOnce`: `Spec => []ExpandOnce`.
* `ExpandedShallowest`: `Spec => []ShallowestFirst`.

All three follow from `OrderInv`, which adds to the invariant above two strengthenings.
`DepthInv`: the item at hand is above the limit and as deep as what is left of its level.
`ExpandInv`: no pending item hangs below the root, and a version `seen` does not know has no
node under any source. The last one is why an item may only be queued below a new node: the
key of `seen` is the version, the identity of a node is the version and its source. Every
step of the crawl is either an `Expansion` (one edge below the item at hand, and at most one
item one level deeper below a node that was not in the graph) or a step of the `Loop`
(a level is taken from the queue, an item from the level, or the three stay); the lemmas are
about these two shapes, not about the actions one by one.

Its third part is about what a crawl leaves behind:

* `CrawlIsComplete`: `FreshCrawl` implies `Spec => []Complete`. `FreshCrawl` is what
  completeness rests on, and what `crawl_fresh` is run with: no cache (`crawl_pruned` shows
  what is missing with one), resolvers that can read every tree and answer every ref with a
  dependency or an error, and no two refs with one version key (`crawl_tag`). The references
  may form any graph, finite or not, and any resolve may fail. `CompleteInv` says that
  contents which were found wait in the queue or the level, are at hand, have been expanded,
  or were first met at the limit (`Accounted`); for the item at hand, that each of its refs is
  still in one of the three phases or shown (`Asked`). The limit is where the order of the
  levels is needed: a version first met there has no shallower edge later, because everything
  still in hand is at the last level already (`AtBottom`).
* `SeenEntriesStand`: `Spec => SeenIsStable`; `LookUpsAreCounted`: `LookedUpOnce` for any finite
  set of versions; both from `SeenStep`, that a step makes at most one entry of `seen` and
  counts a look-up only with it.
* `TimeoutsBlameNobody`: `Spec => []NoTimeoutBlame`. It is inductive with the fact that an abort
  among the results means that the context is done, after which no result is handled.

`ScanJobsProofs`, for any number of scans and crashes, any deployment and any failing call:

* `JobsTyped`, `OutcomeIsWhole` (`WholeOutcome`), `ReportStays` (`ReportIsShareable`).
* `ImplementsJobLife`: `Spec => StatusForward`, the refinement of `JobLife`.

`runScan` looks at no row before it writes, so nothing about a row is inductive without where
its goroutine is. `Sound(id)` gives for each step of the goroutine what the row can hold then
(`RowAt`), how far the scan must have come for its graph to be stored or a page of it to be
shown (`ShownAt`), and the properties of that row (`Promised`). Scans share only the process:
a step of one leaves `Sound` of the others alone (`StepKeeps`), and the crash is the one action
that touches them all. The refinement adds, action by action, that a change of one row is a
change of one status that `JobLife` allows.

`IndexProofs`, for any tree, any edits, any failing call, any kill and any pruning of the cache:

* `KeysStand` (`ForeignKeys`), `LinkedAreStored` (`VersionBehindLink`, which excepts versions that
  the cache prune took and nothing has stored since), `PruneIsSafe` (`PruneSafe`).

The invariant adds that manifests have ids of their own, all given out already (`KeysGiven`):
without it a manifest's cascade would take the links of another one along, and
a new manifest could take over the links of an old one. `PruneSafe` needs how far the walk
has come (`WalkedSoFar`): what lies behind it was met, or could not be read at some time.
The id that `UpsertIndexManifest` returns may be that of the wrong manifest (`RunIsExact` is
violated); an id that no manifest has, the foreign key refuses.

Its second part is under `IndexAssumption` (each path comes once in the order
of the walk, and there are contents a file may have):

* `TypesHold`: `Spec => []TypeOK`. An id is one more than the greatest in the table, so the
  proof needs that the tables stay finite and that a finite set of numbers has a greatest one
  (`FiniteHasGreatest`); induction over sets is out of the prover's reach, and the lemma takes
  a smallest counterexample instead.
* `IndexIsTheTree`: `Spec => []IndexMatchesTree`, which compares rows and mtimes. `TreeInv` carries it along the walk: in a run
  that nothing disturbs, what the walk has passed is `Synced` with the disk, and a run is not
  recorded as ended while a row is `Stale`.
* `FirstRunIsExact`: `Spec => []FirstRunExact`. `FirstInv` says of an undisturbed first run on an
  empty database that each manifest behind the walk is linked to what its contents declare, and
  that nothing is stored ahead of it. This is where `UpsertIndexManifest` is right: a manifest
  without a row gets the id of its own insert, and the wrong id needs an update.

`EnrichProofs`, for any packages, repositories, pool and bounds under `EnrichAssumption`:

* `EnrichTyped`, `ReportAddsUp` (`Accounting`), `CallsAreBounded` (`AsksBounded`),
  `RepositoryNotMissed` (`RepoNotMissed`), `FailureIsNotClean` (`NoFalseClean`), `RunIsComplete`
  (`CompleteRun`), `FetchedOnce` (`NoNeedlessFetch`).

`Carried(p)` says what a goroutine holds at each of its steps and whom it may blame for what is
missing. `Shared(r)` is the argument for the bound on calls: as long as nothing is remembered
of a repository, whoever asks for it or has asked is still in the pool, so calls made and calls
about to be made are at most as many as goroutines that hold them; once something is remembered
nobody new asks. `Places` ties the pool to the places the loop has passed (each package has one
place in the order, `OrderIsOnce`), `NoneForgotten` is `CompleteRun` in the middle of a run.

`AnalysisProofs`, for any questions under `RequestsAssumption`, so for inputs of any size and not
only those of `MCAnalysis`. The inductive invariant, `Answers`, only says that the
answer is the operator's; each theorem is then about an operator:

* `ScoresAreMeans`: `Spec => []ScoreIsWeightedMean`. The weights of a profile with overrides
  are whole numbers that add up to 100 unless all seven are overridden; without data for a factor, six
  weights are multiplied by 100 and divided by what they add up to. Each quotient loses less than
  one, what they lose together is at most five, and `redistributeUnavailable` adds it to
  the first factor (`RoundingFits`): so the score is at most six points off the exact mean,
  and, where no weight is negative, between the lowest and the highest factor (`MeanLiesBetween`).
* `PassesKeepPromises`: `Spec => []PassesCompose`. A pass keeps the fields it does not own
  (`ScorePassKeeps`), the CVE pass only lowers a score (`CVEPassLowers`), and trust keeps the
  order of two scores (`TrustIsMonotone`), so that the passes compose.
* `BadVersionsAreFound`: `Spec => []CompromisedAreFound`. A package that a lock resolves below the
  project's own `node_modules` is judged
  by one of its versions in it (`LockedFindings`, `ResolvedVersions`), any other by its constraint,
  which is held against the bad versions one after the other (`UnlockedFindings`); the index
  links a declared package with the version its own entry locks (`FoundInIndex`).
* `OverlapsAreFound`: `Spec => []NoOverlapMissed`, for constraints that are read as what they say
  (`Plain`). A version in a range lies on the right side of
  every bound in `Lows` and `Highs` (`InRangeIsBounded`), an exclusive end included, so no upper
  bound of one range is below a lower bound of another that shares it (`SharedIsNotBelow`).
* `ExposuresAreFound`: `Spec => []NoExposureMissed`. A file with an exposed package yields a
  verdict for it that is not safe (`AllowedIsReported`), confirmed if it is locked
  (`LockedIsConfirmed`), and what `deduplicateMatches` keeps is at least as bad as each verdict
  (`VerdictStands`). `SafeIsSafe` puts the two together: `Spec => []NoFalseSafe`.

`ExplorerProofs`, for any graphs with finitely many nodes and no dangling edge (`GraphsAreClosed`:
the crawler, the scan of workflows and `BuildFromScanResult` add an edge only between nodes of the
graph), nodes that tie in type, name and score included, any search, any height and any limit on
the length of paths (`ExplorerAssumption`, which also keeps `None` and `Diverges` apart from nodes
and lists of nodes):

* `SelectionSurvivesZoom`: `Spec => ZoomKeepsSelection`. What a zoom level shows is arranged
  without repetition, so `selectByID` finds the node again if it is shown; until then the
  position has been clamped, and the node is looked up by the old list.
* `ListIsFresh`: `Spec => []Fresh`. The list on screen is one `rebuildVisible` could compute now
  from the mode, the expanded nodes, the filter and the query (there are several where nodes tie): no handler changes one of
  these and leaves the list, however the sub-views are entered and left.
* `ScreenHolds`: `Spec => []ScreenIsCurrent`, all that the screen promises. The inductive invariant,
  `Screen`, is `Fresh` with three more parts. `Standing`: the list is a list of nodes with the
  cursor and the offset on it, or the explorer has fallen over a cycle. `PathsShown`: while
  the paths panel is open, only the size of the terminal changes the list, and that leaves the cursor
  where it is. `Walking`: the walker's trail starts at the overview and goes along edges, and its
  children are those of the node it is at.

What is left is that the lists computed are the ones the graph calls for: `FilteredIs` and `RowsAre`
for the tree, by how the nodes reached from some siblings are those reached from the first and
those reached from the others (`ReachIs`, `OpenedIs`), and `PathsFromAre` for paths. They are
recursive functions, and `ListProofs` says how these are proved about.

`ListProofs` is about the operators of `Lists`, for all sequences and graphs. Most of it is what a
loop leaves (`PickedIs`, `RankedIs`, `FlattenedIs`, `OnceIs`), how closures and paths fall apart along
their first step (`FromIs`, `RoutesLikeAre`), and that a search finds what the least closed set holds,
a level at a time (`GrownIs`) or going down first and to nothing twice (`ChainsAre`: the chains
it goes along follow the edges from where it started and end in everything below). The library's induction theorems take an operator as a parameter,
which the provers cannot instantiate; `Recursion` takes the rule as a function instead: a rule that
gives a value for `x` from the values below `x` in an order without endless descent has a function
that obeys it (`IsRule`, `Solvable`). A claim about the function that obeys the rule then has no least
counterexample. For the tree the order is room left to go down, then siblings left (`Deeper`); for
paths it is the edges left (`Longer`); for a search a level at a time what has not been met, and
for one that goes down first that, then the calls left (`SearchOrderIsOrder`).

`AnalysisGraphProofs`, on top of `AnalysisProofs` and `ListProofs`, under `RequestsAssumption` and
`PathsAssumption` (the limits on paths are natural numbers):

* `BlastRadiusIsExact`: `Spec => []BlastIsExact`, for any graph of a scan, dangling edges, cycles and
  doubled edges included. `RebuiltIs` and `LoadedIs`: a graph that went through the store has the
  same nodes, links and roots, if it can be read, although what its types and pinnings are written as is read by two
  other functions. `UpIs`: the reverse search finds what leads to the packages hit, which is
  `GrownIs` with the links turned round (`AdjIs`). `DfsIsComputed` and `DfsFinds`: the depth-first search yields
  each simple path to the target within its limit exactly once, from any prefix, and nothing else
  (`GoneOn` says how the paths from a prefix fall apart by its next node); `CutIs` and
  `ExposurePathsAre` carry this over the loop over roots and targets and its limit on the
  number of paths, in any order of the roots and, root by root, of the targets.

* `RiskIsFollowed`: `Spec => []RiskTravelsUp`, for any files of a scan, `only` filter, profile and answers
  of registries, repositories and OSV. First, that the parsers leave a list of packages whatever
  is in the files (`FilesParsed`, `TreeParsed`, `DirParsed`), and that scoring keeps it, with
  whole numbers as scores (`AllScored`, `ResultsAre`). `WalkIs`: `walkDescendants` looks at exactly what is
  downstream, because its chains end in it and all of it (`ChainsAre`); so the least score met is the
  least there is (`RisksAre`), several packages of one name counting as the last of them (`ByNameIs`). `DepthsAre`: `computeGraphDepths` gives depth 1 to what nothing depends
  on and to what only a cycle leads to, so everything is downstream of a direct package, and no weak
  package is out of reach of `findPaths` (`FoundAreRisks`, `RiskPathsAre`). `SortedIs`: the insertion sort
  loses nothing and leaves the weakest first.
* `LockIsFollowed`: `Spec => []TreeFollowsLock`, for any directory of Rust, Python, PHP or npm. `LockRead`: what the parsers of
  Cargo, Poetry, uv and Composer make of a lock is its entries with, as parents, those
  that list it; `TreeIsListed`: `BuildDepsMap` over these holds the dependencies that the lock
  lists, each once, whether there are parents (`KnownTree`) or none (`FlatTree`). `LockRead` also
  compares with the indexer's reader of the same file (`PlainEdges`, `PythonEdges`). `ReachedIs`: the
  crawl is handed what nothing depends on and resolves a name to its dependencies, which is `GrownIs`
  once more; pairs that lead into the packages lead from these to no others (`DownstreamWithin`).

Only model-checked:

* liveness (`Terminates`, `EveryScanAnswered`, `RunEnds`), which is out of the prover's reach;
* `ActionsAreExpanded`, about `Actions`, whose operators are RECURSIVE: an expansion passes the visited
  set and two results from call to call, and the depth-first search of `Lists` hands on only the
  first.

## 6. Not modelled

Decoding of JSON, TOML and YAML and the patterns that find tools, scripts, submodules and
Terraform modules in text (their outcome is a constant); the width of the terminal; HTTP clients, whose callers see an
answer or a failure; the download of a tree; reports, drawing, flags and the reading of the
configuration file; the browser of the index in the terminal (`tui/indexsearch.go`), which is
a search over rows read once; the semaphore of the fetcher; expiry of DynamoDB items; the
handlers that only read packages and nodes; the files of the disk cache. `Enrich` does not
have two enrichments at once, nor manifests that change while one runs. `Analysis` asks one
question at a time: what the analyses share with other processes is in `Enrich` and `Index`.
