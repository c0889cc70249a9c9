-------------------------------- MODULE Enrich --------------------------------
(***************************************************************************)
(* Enrichment of the index: RunEnrich and enrichPackage of                 *)
(* internal/scanner/enrich.go, a loop that hands packages to a bounded     *)
(* pool of goroutines, over the tables project_versions and cve_cache of   *)
(* internal/cache/db.go, which `depscope index`, `depscope scan`,          *)
(* `depscope compromised` and `depscope cache prune` write as well.        *)
(*                                                                         *)
(* One action per database call, per network call and per critical         *)
(* section.  A registry, a repository host, OSV and the database may each  *)
(* fail; a run may be cancelled, or its process killed, between any two    *)
(* steps; the tables survive.                                              *)
(*                                                                         *)
(* A definition named X_Y is X with a plausible mistake Y: TLC is shown to *)
(* find each of them with the properties below.                            *)
(***************************************************************************)
EXTENDS Naturals, Sequences, FiniteSets

CONSTANTS
    Pkgs,       \* (project_id, version_key) pairs linked to some manifest
    Order,      \* the order the SELECT DISTINCT returns them in
    Named,      \* those whose project_id has an ecosystem and a name
    Known,      \* those whose ecosystem has a registry client
    Versioned,  \* those whose version_key has a version
    Advised,    \* those OSV has advisories for
    Repos,      \* source repositories
    RepoOf,     \* info.SourceRepoURL of a package
    NoRepo,     \* its value where the registry names no repository
    Pool,       \* capacity of sem
    MaxRuns,    \* bound: runs of depscope index enrich
    MaxTroubles \* bound: failing calls, other commands' writes, expired entries

ASSUME EnrichAssumption ==
    /\ IsFiniteSet(Pkgs) /\ Order \in [1..Cardinality(Pkgs) -> Pkgs]
    /\ \A p \in Pkgs : \E i \in DOMAIN Order : Order[i] = p
    /\ {Named, Known, Versioned, Advised} \subseteq SUBSET Pkgs
    /\ RepoOf \in [Pkgs -> Repos \union {NoRepo}] /\ NoRepo \notin Repos
    /\ Pool \in Nat \ {0}
    /\ {MaxRuns, MaxTroubles} \subseteq Nat

VARIABLES
    row,        \* project_versions: the metadata of a package, Bare where its
                \* row has none and where it has no row
    cve,        \* cve_cache: the findings for a package, if they are fresh
    pc,         \* where RunEnrich is
    total,      \* result.Total: how much of Order was listed
    at,         \* the loop's position in Order
    force,      \* opts.Force
    noCVE,      \* opts.NoCVE
    step,       \* where the goroutine of a package is
    meta,       \* the metadata it has put together so far
    repos,      \* repoCache
    count,      \* result
    ended,      \* how the last run ended
    runs,       \* runs so far
    troubles,   \* failing calls, other writes and expired entries so far
    asks,       \* (history) calls of RepoFromURL in this run, by repository
    denied,     \* (history) repositories such a call failed for in this run
    mine,       \* (history) packages this run stored
    unanswered, \* (history) packages OSV failed for in this run
    unread,     \* (history) packages a look at whose row failed in this run
    upset,      \* (history) packages that lost their metadata in this run or since
    ever        \* (history) packages that were enriched once

tables  == <<row, cve>>
main    == <<pc, total, at, force, noCVE, ended, runs>>
worker  == <<step, meta>>
history == <<asks, denied, mine, unanswered, unread, upset, ever>>
vars    == <<tables, main, worker, repos, count, troubles, history>>

\* What a score rests on: nothing (UNKNOWN), a failed fetch (CRITICAL), the
\* registry alone, or the registry and the repository.
Scores == {"unknown", "critical", "registry", "full"}
Meta   == [score : Scores, cves : {"none", "some"}]
Bare   == [score |-> "bare", cves |-> "none"]
Blank  == [score |-> "unknown", cves |-> "none"]

Enriched(p) == row[p] \in Meta
Working     == {p \in Pkgs : step[p] # "none"}
Pkg         == Order[at]
Trouble     == troubles < MaxTroubles /\ troubles' = troubles + 1

TypeOK ==
    /\ row \in [Pkgs -> Meta \union {Bare}]
    /\ cve \in [Pkgs -> {"miss", "none", "some"}]
    /\ pc \in {"idle", "loop", "acquire", "wait"}
    /\ total \in 0..Len(Order)
    /\ at \in 1..total + 1 /\ (pc = "acquire" => at <= total)
    /\ {force, noCVE} \subseteq BOOLEAN
    /\ step \in [Pkgs -> {"none", "fetch", "repo", "ask", "put",
                          "cve", "query", "cache", "store"}]
    /\ meta \in [Pkgs -> Meta]
    /\ \A p \in Pkgs : step[p] \in {"repo", "ask", "put"} => RepoOf[p] \in Repos
    /\ repos \in [Repos -> {"miss", "nil", "info"}]
    /\ count \in [enriched : Nat, skipped : Nat, errors : Nat]
    /\ ended \in {"never", "complete", "cut"}
    /\ runs \in 0..MaxRuns /\ troubles \in 0..MaxTroubles
    /\ asks \in [Repos -> Nat] /\ denied \subseteq Repos
    /\ {mine, unanswered, unread} \subseteq SUBSET Pkgs
    /\ upset \subseteq Pkgs /\ ever \subseteq Pkgs

NoCount == [enriched |-> 0, skipped |-> 0, errors |-> 0]

\* The index was just built: its rows have no metadata.
Init ==
    /\ row = [p \in Pkgs |-> Bare] /\ cve = [p \in Pkgs |-> "miss"]
    /\ pc = "idle" /\ total = 0 /\ at = 1 /\ force = FALSE /\ noCVE = FALSE
    /\ ended = "never" /\ runs = 0
    /\ step = [p \in Pkgs |-> "none"] /\ meta = [p \in Pkgs |-> Blank]
    /\ repos = [r \in Repos |-> "miss"] /\ count = NoCount
    /\ troubles = 0
    /\ asks = [r \in Repos |-> 0] /\ denied = {}
    /\ mine = {} /\ unanswered = {} /\ unread = {} /\ upset = {} /\ ever = {}

-----------------------------------------------------------------------------
(* RunEnrich.                                                              *)
\* rows.Err is not looked at: a listing that fails on its way is a shorter one.
Begin ==
    /\ pc = "idle" /\ runs < MaxRuns
    /\ runs' = runs + 1 /\ pc' = "loop" /\ at' = 1
    /\ \/ total' = Len(Order) /\ UNCHANGED troubles
       \/ total' \in 0..Len(Order) - 1 /\ Trouble
    /\ force' \in BOOLEAN /\ noCVE' \in BOOLEAN
    /\ count' = NoCount /\ upset' = {}
    /\ UNCHANGED <<tables, worker, repos, ended,
                   asks, denied, mine, unanswered, unread, ever>>

\* Any row will do, with metadata or not.
Skip_AnyRow ==
    /\ pc = "loop" /\ at <= total /\ ~force
    /\ at' = at + 1 /\ count' = [count EXCEPT !.skipped = @ + 1]
    /\ UNCHANGED <<tables, pc, total, force, noCVE, ended, runs, worker, repos, troubles>>
    /\ UNCHANGED history

\* Has metadata already.
Skip ==
    /\ pc = "loop" /\ at <= total
    /\ ~force /\ Enriched(Pkg)
    /\ at' = at + 1 /\ count' = [count EXCEPT !.skipped = @ + 1]
    /\ UNCHANGED <<tables, pc, total, force, noCVE, ended, runs, worker, repos, troubles>>
    /\ UNCHANGED history

\* The row is not looked at.
Take_Anything ==
    /\ pc = "loop" /\ at <= total
    /\ pc' = "acquire"
    /\ UNCHANGED <<tables, total, at, force, noCVE, ended, runs, worker, repos, count>>
    /\ UNCHANGED <<troubles, history>>

\* No metadata, or a SELECT that fails.
Take ==
    /\ pc = "loop" /\ at <= total
    /\ \/ (force \/ ~Enriched(Pkg)) /\ UNCHANGED <<troubles, unread>>
       \/ ~force /\ Trouble /\ unread' = unread \union {Pkg}
    /\ pc' = "acquire"
    /\ UNCHANGED <<tables, total, at, force, noCVE, ended, runs, worker, repos, count>>
    /\ UNCHANGED <<asks, denied, mine, unanswered, upset, ever>>

\* `sem <- struct{}{}` blocks while the pool is full.
Spawn ==
    /\ pc = "acquire" /\ Cardinality(Working) < Pool
    /\ step' = [step EXCEPT ![Pkg] = "fetch"]
    /\ pc' = "loop" /\ at' = at + 1
    /\ UNCHANGED <<tables, total, force, noCVE, ended, runs, meta, repos, count>>
    /\ UNCHANGED <<troubles, history>>

\* The loop ends, or finds its context cancelled: wg.Wait().
LoopEnds(how) ==
    /\ pc = "loop" /\ (how = "complete" <=> at > total)
    /\ pc' = "wait" /\ ended' = how
    /\ UNCHANGED <<tables, total, at, force, noCVE, runs, worker, repos, count>>
    /\ UNCHANGED <<troubles, history>>

\* What the process held is gone, and what is remembered of this run alone.
Forget ==
    /\ pc' = "idle"
    /\ force' = FALSE /\ noCVE' = FALSE
    /\ step' = [p \in Pkgs |-> "none"] /\ meta' = [p \in Pkgs |-> Blank]
    /\ repos' = [r \in Repos |-> "miss"] /\ asks' = [r \in Repos |-> 0]
    /\ denied' = {} /\ mine' = {} /\ unanswered' = {} /\ unread' = {}

\* wg.Add before the package is skipped.
Return_AfterSkipped ==
    /\ pc = "wait" /\ Working = {} /\ count.skipped = 0
    /\ Forget
    /\ UNCHANGED <<tables, total, at, ended, runs, count, troubles, upset, ever>>

Return ==
    /\ pc = "wait" /\ Working = {}
    /\ Forget
    /\ UNCHANGED <<tables, total, at, ended, runs, count, troubles, upset, ever>>

Kill ==
    /\ pc # "idle"
    /\ Forget /\ ended' = "cut" /\ at' = 1 /\ count' = NoCount /\ upset' = {}
    /\ UNCHANGED <<tables, total, runs, troubles, ever>>

-----------------------------------------------------------------------------
(* The goroutine of package p.                                             *)
Goto(p, from, to) == step[p] = from /\ step' = [step EXCEPT ![p] = to]
Scored(p, score)  == meta' = [meta EXCEPT ![p].score = score]

\* A project_id that does not split is stored as it is; an ecosystem with no
\* client is not fetched; a failing fetch is a score of its own.
Fetch(p) ==
    /\ step[p] = "fetch"
    /\ \/ /\ p \notin Named /\ Goto(p, "fetch", "store")
          /\ UNCHANGED <<meta, troubles>>
       \/ /\ p \in Named \ Known /\ Goto(p, "fetch", "cve")
          /\ UNCHANGED <<meta, troubles>>
       \/ /\ p \in Named \intersect Known
          /\ \/ Goto(p, "fetch", "cve") /\ Scored(p, "critical") /\ Trouble
             \/ /\ Goto(p, "fetch", IF RepoOf[p] = NoRepo THEN "cve" ELSE "repo")
                /\ Scored(p, "registry") /\ UNCHANGED troubles
    /\ UNCHANGED <<tables, main, repos, count, history>>

\* The entry is made before the call, so that no one else makes it.
LookUpRepo_Reserves(p) ==
    /\ step[p] = "repo"
    /\ \/ /\ repos[RepoOf[p]] = "miss"
          /\ repos' = [repos EXCEPT ![RepoOf[p]] = "nil"]
          /\ Goto(p, "repo", "ask") /\ UNCHANGED meta
       \/ /\ repos[RepoOf[p]] # "miss" /\ UNCHANGED repos
          /\ Goto(p, "repo", "cve")
          /\ Scored(p, IF repos[RepoOf[p]] = "info" THEN "full" ELSE "registry")
    /\ UNCHANGED <<tables, main, count, troubles, history>>

\* The first critical section of the repository cache.
LookUpRepo(p) ==
    /\ step[p] = "repo"
    /\ \/ /\ repos[RepoOf[p]] = "miss"
          /\ Goto(p, "repo", "ask") /\ UNCHANGED meta
       \/ /\ repos[RepoOf[p]] # "miss"
          /\ Goto(p, "repo", "cve")
          /\ Scored(p, IF repos[RepoOf[p]] = "info" THEN "full" ELSE "registry")
    /\ UNCHANGED <<tables, main, repos, count, troubles, history>>

\* The repository host, outside any critical section.
AskRepo(p) ==
    /\ Goto(p, "ask", "put")
    /\ asks' = [asks EXCEPT ![RepoOf[p]] = @ + 1]
    /\ \/ Scored(p, "full") /\ UNCHANGED <<troubles, denied>>
       \/ UNCHANGED meta /\ Trouble /\ denied' = denied \union {RepoOf[p]}
    /\ UNCHANGED <<tables, main, repos, count, mine, unanswered, unread, upset, ever>>

\* Only what was found is remembered.
Remembered_InfoOnly(p) ==
    IF meta[p].score = "full" THEN [repos EXCEPT ![RepoOf[p]] = "info"] ELSE repos

\* The second one: what was learned, the nil of a failure included.
Remembered(p) ==
    [repos EXCEPT ![RepoOf[p]] = IF meta[p].score = "full" THEN "info" ELSE "nil"]

PutRepo(p) ==
    /\ Goto(p, "put", "cve")
    /\ repos' = Remembered(p)
    /\ UNCHANGED <<tables, main, meta, count, troubles, history>>

\* What the cache answers is used without looking whether it is anything.
LookUpCVE_Unchecked(p) ==
    /\ step[p] = "cve"
    /\ Goto(p, "cve", "store") /\ meta' = [meta EXCEPT ![p].cves = cve[p]]
    /\ UNCHANGED <<tables, main, repos, count, troubles, history>>

\* GetCVECache: findings stay nil where nothing fresh is cached, or where the
\* cache cannot be read.
LookUpCVE(p) ==
    /\ step[p] = "cve"
    /\ \/ /\ noCVE \/ p \notin Versioned
          /\ Goto(p, "cve", "store") /\ UNCHANGED <<meta, troubles>>
       \/ /\ ~noCVE /\ p \in Versioned
          /\ (cve[p] = "miss" /\ UNCHANGED troubles) \/ Trouble
          /\ Goto(p, "cve", "query") /\ UNCHANGED meta
       \/ /\ ~noCVE /\ p \in Versioned /\ cve[p] # "miss"
          /\ Goto(p, "cve", "store") /\ meta' = [meta EXCEPT ![p].cves = cve[p]]
          /\ UNCHANGED troubles
    /\ UNCHANGED <<tables, main, repos, count, history>>

Answer(p) == IF p \in Advised THEN "some" ELSE "none"

\* The error is not looked at before the cache is written.
AskOSV_CachesFailure(p) ==
    /\ Goto(p, "query", "cache")
    /\ \/ /\ meta' = [meta EXCEPT ![p].cves = Answer(p)]
          /\ UNCHANGED <<troubles, unanswered>>
       \/ Trouble /\ unanswered' = unanswered \union {p} /\ UNCHANGED meta
    /\ UNCHANGED <<tables, main, repos, count, asks, denied, mine, unread, upset, ever>>

\* OSV: an error leaves the findings nil, and is counted as no CVE.
AskOSV(p) ==
    /\ \/ /\ Goto(p, "query", "cache")
          /\ meta' = [meta EXCEPT ![p].cves = Answer(p)]
          /\ UNCHANGED <<troubles, unanswered>>
       \/ /\ Goto(p, "query", "store")
          /\ Trouble /\ unanswered' = unanswered \union {p} /\ UNCHANGED meta
    /\ UNCHANGED <<tables, main, repos, count, asks, denied, mine, unread, upset, ever>>

\* SetCVECache, whose error is dropped.
PutCVE(p) ==
    /\ Goto(p, "cache", "store")
    /\ \/ cve' = [cve EXCEPT ![p] = meta[p].cves] /\ UNCHANGED troubles
       \/ UNCHANGED cve /\ Trouble
    /\ UNCHANGED <<row, main, meta, repos, count, history>>

\* UpsertVersion and the result under mu; then the deferred release of sem.
Store(p) ==
    /\ Goto(p, "store", "none")
    /\ row' = [row EXCEPT ![p] = meta[p]]
    /\ count' = [count EXCEPT !.enriched = @ + 1]
    /\ meta' = [meta EXCEPT ![p] = Blank]
    /\ mine' = mine \union {p} /\ ever' = ever \union {p}
    /\ UNCHANGED <<cve, main, repos, troubles, asks, denied, unanswered, unread, upset>>

\* The return after the error is forgotten.
StoreFails_GoesOn(p) ==
    /\ Goto(p, "store", "none") /\ Trouble
    /\ count' = [count EXCEPT !.errors = @ + 1, !.enriched = @ + 1]
    /\ meta' = [meta EXCEPT ![p] = Blank]
    /\ UNCHANGED <<tables, main, repos, history>>

StoreFails(p) ==
    /\ Goto(p, "store", "none") /\ Trouble
    /\ count' = [count EXCEPT !.errors = @ + 1]
    /\ meta' = [meta EXCEPT ![p] = Blank]
    /\ UNCHANGED <<tables, main, repos, history>>
-----------------------------------------------------------------------------
(* The other commands on the same file.                                    *)
\* RunIndex on a changed manifest, cacheVersion of the crawl and
\* logManifestToDB of the compromised scan upsert the version with no metadata
\* whatever the row holds.  Prune deletes versions not accessed for the given
\* time: their metadata is gone as well, and each counts as one of the
\* troubles.  Where there is no metadata nothing changes.
LoseMeta(p) ==
    /\ Enriched(p) /\ Trouble
    /\ row' = [row EXCEPT ![p] = Bare]
    /\ upset' = upset \union {p}
    /\ UNCHANGED <<cve, main, worker, repos, count, asks, denied, mine, unanswered, unread, ever>>

\* RunCVEPass over a node for the same version fills a missing entry of the
\* CVE cache and leaves a fresh one alone.
CrawlCVE(p) ==
    /\ Trouble
    /\ p \in Versioned /\ cve[p] = "miss"
    /\ cve' = [cve EXCEPT ![p] = Answer(p)]
    /\ UNCHANGED <<row, main, worker, repos, count, history>>

\* Six hours later.
Expire(p) ==
    /\ Trouble
    /\ cve[p] # "miss" /\ cve' = [cve EXCEPT ![p] = "miss"]
    /\ UNCHANGED <<row, main, worker, repos, count, history>>

-----------------------------------------------------------------------------
Loop == Skip \/ Take \/ Spawn \/ LoopEnds("complete") \/ Return

Work(p) == \/ Fetch(p) \/ LookUpRepo(p) \/ AskRepo(p) \/ PutRepo(p)
           \/ LookUpCVE(p) \/ AskOSV(p) \/ PutCVE(p)
           \/ Store(p) \/ StoreFails(p)

Others(p) == LoseMeta(p) \/ CrawlCVE(p) \/ Expire(p)

Run == Loop \/ \E p \in Pkgs : Work(p)

Next == Begin \/ Run \/ LoopEnds("cut") \/ Kill \/ \E p \in Pkgs : Others(p)

\* As long as the loop or some goroutine can run, one of them does: the least
\* a scheduler grants.  No one has to begin a run, cut one short or write to
\* the tables.
Fairness == WF_vars(Run)

Spec == Init /\ [][Next]_vars /\ Fairness

-----------------------------------------------------------------------------
\* Every package the loop has passed is enriched, skipped or an error, each
\* once, or in the hands of a goroutine: what RunEnrich reports adds up.
Accounting ==
    pc # "idle" \/ ended = "complete" =>
      count.enriched + count.skipped + count.errors + Cardinality(Working) = at - 1

\* The repository cache spares calls: of all packages that share a repository
\* no more ask for it than the pool has places, failures included.
AsksBounded == \A r \in Repos : asks[r] <= Pool

\* A package is scored without its repository only where a call for that
\* repository failed: a goroutine never takes another's unfinished look-up
\* for an answer.
RepoNotMissed ==
    \A p \in mine :
      /\ Enriched(p) /\ row[p].score = "registry" /\ RepoOf[p] # NoRepo
      => RepoOf[p] \in denied

\* A package OSV has advisories for is stored without CVEs only by a run
\* whose own query for it failed: no failure is remembered as a clean bill.
NoFalseClean ==
    \A p \in mine \intersect Named \intersect Versioned \intersect Advised :
      Enriched(p) /\ ~noCVE /\ row[p].cves = "none" => p \in unanswered

\* A run that comes to its end without an error leaves every package it has
\* listed with metadata, after however many runs that were cut short, except
\* those whose rows other commands wrote meanwhile.  That is every package of
\* the index only where the listing did not fail on its way: RunEnrich does not
\* ask (rows.Err), and its report tells the two apart by nothing but the total.
CompleteRun ==
    pc = "idle" /\ ended = "complete" /\ count.errors = 0 =>
      \A i \in 1..total : Enriched(Order[i]) \/ Order[i] \in upset

\* Without --force no package is fetched again while its metadata stands,
\* unless the SELECT that looks for it failed, which RunEnrich takes for none.
NoNeedlessFetch ==
    [][\A p \in Pkgs : step[p] = "none" /\ step'[p] = "fetch"
                         => force \/ ~Enriched(p) \/ p \in unread]_vars

\* Every run ends: no goroutine keeps its place in the pool.
RunEnds == pc # "idle" ~> pc = "idle"

\* What the help text of the command says: a package that was enriched once
\* is skipped unless --force is set, where no look at a row fails.
EnrichedAreSkipped ==
    [][\A p \in Pkgs : step[p] = "none" /\ step'[p] = "fetch"
                         => force \/ p \notin ever \/ p \in unread]_vars
=============================================================================
