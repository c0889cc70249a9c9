------------------------------- MODULE Scoring -------------------------------
(***************************************************************************)
(* Reputation scores: the profiles and their weights (internal/config),    *)
(* the seven factors, the weighted mean, the penalty for advisories, the   *)
(* propagation of risk, risk paths and the supply chain indicators of      *)
(* internal/core.  All of it computes; nothing here keeps state.           *)
(*                                                                         *)
(* A package is a record of manifest.Package and its facts a record of     *)
(* registry.PackageInfo and vcs.RepoInfo.  A date is an age in days, NoDate *)
(* where the registry gives none.  The issues a factor words are left out. *)
(*                                                                         *)
(* A definition named X_Y is X with a plausible mistake Y.                 *)
(***************************************************************************)
EXTENDS Integers, Sequences, FiniteSetsExt, Functions, SequencesExt, Lists

CONSTANTS
    NoInfo,     \* what the registry gives where the fetch failed
    NoRepo      \* repository data that is missing

NoDate == -1

Clamp(val, lo, hi) == IF val < lo THEN lo ELSE IF val > hi THEN hi ELSE val

\* int(x / y * z) of Go: the quotient, towards zero.
Quot(a, b) == IF a >= 0 THEN a \div b ELSE -((-a) \div b)

-----------------------------------------------------------------------------
(* Profiles and weights *)

Factors == <<"release_recency", "maintainer_count", "download_velocity",
             "open_issue_ratio", "org_backing", "version_pinning", "repo_health">>

Weigh(ws) == [f \in ToSet(Factors) |-> ws[CHOOSE i \in 1..7 : Factors[i] = f]]

ProfileByName(name) ==
    CASE name = "hobby"      -> [threshold |-> 40, weights |-> Weigh(<<15, 5, 15, 10, 5, 25, 25>>)]
      [] name = "opensource" -> [threshold |-> 55, weights |-> Weigh(<<18, 12, 15, 10, 8, 17, 20>>)]
      [] OTHER               -> [threshold |-> 70, weights |-> Weigh(<<20, 15, 15, 10, 10, 15, 15>>)]

\* The sum over the factors that w has.
Total(w) ==
    LET at(f) == IF f \in DOMAIN w THEN w[f] ELSE 0 IN
    at("release_recency") + at("maintainer_count") + at("download_velocity") + at("open_issue_ratio")
        + at("org_backing") + at("version_pinning") + at("repo_health")

\* The weights a file may end up with: what is left of 100 goes to the weights
\* it does not name, in proportion, and what truncation leaves of that to
\* whichever of them the iteration of the map meets first.
WithWeights(base, overrides) ==
    LET kept   == DOMAIN base \ DOMAIN overrides
        left   == 100 - Total(overrides)
        share  == Total(Restrict(base, kept))
        merged == [k \in DOMAIN base |->
                      IF k \in DOMAIN overrides THEN overrides[k]
                      ELSE IF share = 0 THEN 0 ELSE Quot(base[k] * left, share)]
        diff   == 100 - Total(merged)
    IN  IF diff = 0 \/ kept = {} THEN {merged}
        ELSE {[merged EXCEPT ![k] = @ + diff] : k \in kept}

RedistributeUnavailable_KeepsWeights(w, unavailable) ==
    [f \in DOMAIN w |-> IF f \in unavailable THEN 0 ELSE w[f]]

RedistributeUnavailable(w, unavailable) ==
    LET available == DOMAIN w \ unavailable
        sum       == Total(Restrict(w, available))
        scaled    == [f \in DOMAIN w |-> IF f \in unavailable THEN 0 ELSE (w[f] * 100) \div sum]
        first     == SelectInSeq(Factors, LAMBDA f : f \in available)
    IN  IF unavailable = {} \/ sum = 0 THEN w
        ELSE [scaled EXCEPT ![Factors[first]] = @ + 100 - Total(scaled)]

-----------------------------------------------------------------------------
(* Factors *)

Recency(info) ==
    LET age == info.last IN
    IF age = NoDate THEN 20
    ELSE IF age < 180 THEN 100 ELSE IF age < 365 THEN 80
    ELSE IF age < 730 THEN 60 ELSE IF age < 1095 THEN 40 ELSE 20

Maintainers(info) ==
    CASE info.maintainers >= 5     -> 100
      [] info.maintainers \in 3..4 -> 80
      [] info.maintainers = 2      -> 60
      [] info.maintainers = 1      -> IF info.last # NoDate /\ info.last < 365 THEN 45 ELSE 30
      [] OTHER                     -> 20

Downloads(info) ==
    LET d == info.downloads IN
    IF d = 0 THEN 0
    ELSE IF d > 1000000 THEN 100 ELSE IF d > 100000 THEN 80
    ELSE IF d > 10000 THEN 60 ELSE IF d > 1000 THEN 40 ELSE 20

OpenIssues(repo) ==
    LET all == repo.open + repo.closed IN
    IF all = 0 THEN 75
    ELSE IF repo.open * 10 < all THEN 100 ELSE IF repo.open * 4 < all THEN 75
    ELSE IF repo.open * 2 < all THEN 50 ELSE 20

OrgBacking(repo, info) == IF info.org \/ repo.org THEN 100 ELSE 30

Pinning(constraint) ==
    CASE constraint = "exact" -> 100 [] constraint = "patch" -> 75
      [] constraint = "minor" -> 50  [] OTHER -> 25

RepoHealth(repo) ==
    LET age == repo.commit IN
    IF repo.archived THEN 0 ELSE IF age = NoDate THEN 10
    ELSE IF age < 90 THEN 100 ELSE IF age < 365 THEN 70
    ELSE IF age < 730 THEN 40 ELSE 10

\* Every factor's score; without repository data a guess that depends on
\* whether the registry links a repository.
FactorScores(pkg, info, repo) ==
    LET known  == repo # NoRepo
        linked == info.source # ""
    IN  Weigh(<<Recency(info), Maintainers(info), Downloads(info),
                IF known THEN OpenIssues(repo) ELSE IF linked THEN 70 ELSE 40,
                IF known THEN OrgBacking(repo, info) ELSE IF linked THEN 65 ELSE 30,
                Pinning(pkg.type),
                IF known THEN RepoHealth(repo) ELSE IF linked THEN 70 ELSE 40>>)

Unavailable(scores) == {f \in {"download_velocity"} : scores[f] = 0}

RiskLevelFromScore(score) ==
    IF score >= 80 THEN "LOW" ELSE IF score >= 60 THEN "MEDIUM"
    ELSE IF score >= 40 THEN "HIGH" ELSE "CRITICAL"

\* Score: the result for one package, its place in the tree and its advisories
\* still to come.
Score(pkg, info, repo, weights) ==
    LET scores == FactorScores(pkg, info, repo)
        w      == RedistributeUnavailable(weights, Unavailable(scores))
        own    == IF info = NoInfo THEN 0
                  ELSE Clamp(Quot(Total([f \in DOMAIN w |-> w[f] * scores[f]]), 100), 0, 100)
        risk   == RiskLevelFromScore(own)
    IN  [name |-> pkg.name, version |-> pkg.version, eco |-> pkg.eco, depth |-> pkg.depth, own |-> own, transitive |-> 100,
         ownRisk |-> risk, transitiveRisk |-> risk, vulns |-> <<>>, dependedOn |-> 0]

-----------------------------------------------------------------------------
(* Advisories and organisations *)

Penalty(severity) ==
    CASE severity = "CRITICAL" -> 15 [] severity = "HIGH" -> 10
      [] severity = "LOW" -> 2 [] OTHER -> 5

\* What all the advisories cost, counted by what each of them does.
Penalised(score, severities) ==
    LET costing(p) == Cardinality({i \in DOMAIN severities : Penalty(severities[i]) = p}) IN
    Clamp(score - (15 * costing(15) + 10 * costing(10) + 5 * costing(5) + 2 * costing(2)), 0, 100)

ApplyCVEPenalty(result) ==
    IF result.vulns = <<>> THEN result
    ELSE LET own == Penalised(result.own, result.vulns) IN
         [result EXCEPT !.own = own, !.ownRisk = RiskLevelFromScore(own)]

CorporateOrgs == {"google", "actions"}

\* A project is the sequence of its segments: a trusted organisation is
\* matched at a segment's end.
ClassifyOrg(project, trusted) ==
    IF \E org \in trusted : IsPrefix(org, project) THEN "own"
    ELSE IF Len(project) >= 2 /\ project[1] = "github.com" /\ project[2] \in CorporateOrgs
    THEN "corporate" ELSE "individual"

ApplyOrgTrust(score, class, floor) ==
    CASE class = "own"       -> IF score < floor THEN floor ELSE score
      [] class = "corporate" -> Clamp(score + 5, 0, 100)
      [] OTHER               -> score

-----------------------------------------------------------------------------
(* Risk through the tree.  deps is the map from a name to its dependencies;  *)
(* a name it does not hold has none.                                         *)

EffectiveScore(own, depth) == Clamp(own + (depth - 1) * 5, 0, 100)

DepsOf(deps, name) == IF name \in DOMAIN deps THEN deps[name] ELSE <<>>

\* scoreByName, depthByName, ...: of results with one name the last is kept.
ByName(results) ==
    [n \in {results[i].name : i \in DOMAIN results} |-> results[SelectLastInSeq(results, LAMBDA r : r.name = n)]]

DepthOr1(depth) == IF depth = 0 THEN 1 ELSE depth

\* The dependencies the searches follow: those there is a score for.
Followed(deps, of) == [n \in DOMAIN of |-> Where(DepsOf(deps, n), LAMBDA child : child \in DOMAIN of)]

\* walkDescendants: every child it looks at on its way down.
WalkDescendants(name, kids) == UNION {ToSet(kids[Last(c)]) : c \in ToSet(Chains(kids, name))}

LeastBelow(name, kids, of) ==
    Min({100} \union {EffectiveScore(of[n].own, DepthOr1(of[n].depth)) : n \in WalkDescendants(name, kids)})

\* Mistake: only the children are looked at.
Propagate_OneLevel(results, deps) ==
    LET of == ByName(results)
        eff(r) == {EffectiveScore(of[c].own, DepthOr1(of[c].depth)) :
                      c \in ToSet(DepsOf(deps, r.name)) \intersect DOMAIN of}
    IN  [i \in DOMAIN results |-> [results[i] EXCEPT !.transitive = Min({100} \union eff(results[i]))]]

Propagate(results, deps) ==
    LET of   == ByName(results)
        kids == Followed(deps, of)
        least(r) == LeastBelow(r.name, kids, of)
    IN  [i \in DOMAIN results |->
            [results[i] EXCEPT !.transitive = least(results[i]),
                               !.transitiveRisk = RiskLevelFromScore(least(results[i]))]]

\* findPaths from one package: the chains to the weak ones.
FindPathsFrom(name, deps, of, threshold) ==
    LET weak == Where(Chains(Followed(deps, of), name), LAMBDA c : of[Last(c)].own < threshold)
    IN  [i \in DOMAIN weak |-> [chain |-> weak[i], score |-> of[Last(weak[i])].own]]

\* The insertion sort keeps the order of equal scores.
SortRiskPaths(paths) ==
    LET before == {p \in (DOMAIN paths) \X (DOMAIN paths) :
                      \/ paths[p[1]].score < paths[p[2]].score
                      \/ paths[p[1]].score = paths[p[2]].score /\ p[1] < p[2]}
        order  == Ranked(DOMAIN paths, before)
    IN  [k \in DOMAIN order |-> paths[order[k]]]

FindRiskPaths(results, deps, threshold, maxPaths) ==
    LET of    == ByName(results)
        found == FlattenSeq([i \in DOMAIN results |->
                     IF results[i].depth = 1 THEN FindPathsFrom(results[i].name, deps, of, threshold) ELSE <<>>])
    IN  SubSeq(SortRiskPaths(found), 1, Min({Len(found), maxPaths}))

-----------------------------------------------------------------------------
(* Supply chain indicators *)

\* The indicators raised for one package, in the order they are raised.
Indicators(r, info) ==
    LET dated   == info.first # NoDate /\ info.last # NoDate
        span    == info.first - info.last
        dormant == /\ info.releases > 1 /\ dated /\ span > 730 /\ info.last < 90
                   /\ span > 365 * (info.releases - 1)
        raised  == <<[type |-> "new_popular",       on |-> dated /\ info.first < 180 /\ info.downloads > 100000],
                     [type |-> "dormant_spike",     on |-> dormant],
                     [type |-> "no_source",         on |-> /\ info.source = ""
                                                           /\ info.downloads > 10000 \/ r.dependedOn > 2],
                     [type |-> "low_age_high_deps", on |-> info.releases <= 2 /\ r.dependedOn > 5],
                     [type |-> "high_value_solo",   on |-> info.maintainers = 1 /\ info.downloads > 1000000]>>
    IN  FoldLeft(LAMBDA out, i : IF i.on THEN Append(out, <<r.name, i.type>>) ELSE out, <<>>, raised)

DetectSuspicious(results, infos) ==
    FlattenSeq([i \in DOMAIN results |->
        IF results[i].name \in DOMAIN infos THEN Indicators(results[i], infos[results[i].name]) ELSE <<>>])

-----------------------------------------------------------------------------
FinalScore(r) == Min({r.own, r.transitive})

Passed(results, threshold) == \A i \in DOMAIN results : FinalScore(results[i]) >= threshold
=============================================================================
