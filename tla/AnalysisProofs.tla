--------------------------- MODULE AnalysisProofs ---------------------------
(***************************************************************************)
(* Proofs about the analyses, for any questions that a program can be      *)
(* asked (RequestsAssumption): what a configuration may do to the weights  *)
(* and a factor without data to the mean, what the passes over a crawl's   *)
(* graph promise, that no bad version is overlooked among the packages of  *)
(* a tree, and that no range, constraint or file makes an exposed project  *)
(* look safe.                                                              *)
(*                                                                         *)
(* An action computes, so the invariant is only that the answer is the     *)
(* operator's (Answers); the work is in the operators.  The hard one is    *)
(* the mean of whole numbers: six weights are multiplied by 100 and        *)
(* divided by what they add up to, each losing less than one, and what is  *)
(* lost in all, at most five, goes to the first factor (RoundingFits).     *)
(* Ranges are compared as sets of bounds, of which a version in the range  *)
(* lies between any two (InRangeIsBounded); what discover keeps of several *)
(* verdicts is one of the worst (TopStatus).                               *)
(***************************************************************************)
EXTENDS Analysis, FiniteSetTheorems, TLAPS

(* Penalties *)

LEMMA CostLowers ==
    ASSUME NEW a \in Nat, NEW b \in Nat, NEW c \in Nat, NEW d \in Nat, NEW x \in 0..100
    PROVE  Clamp(x - (15 * a + 10 * b + 5 * c + 2 * d), 0, 100) \in 0..x
  BY DEF Clamp

LEMMA PenaltyLowers ==
    ASSUME NEW s \in Seq(STRING), NEW x \in 0..100
    PROVE  Penalised(x, s) \in 0..x
  <1> DEFINE costing(p) == Cardinality({i \in DOMAIN s : Penalty(s[i]) = p})
  <1>1. IsFiniteSet(DOMAIN s)
    BY FS_Interval
  <1>2. \A p : costing(p) \in Nat
    BY <1>1, FS_Subset, FS_CardinalityType
  <1>3. Penalised(x, s) = Clamp(x - (15 * costing(15) + 10 * costing(10) + 5 * costing(5) + 2 * costing(2)), 0, 100)
    BY DEF Penalised
  <1> HIDE DEF costing
  <1>4. costing(15) \in Nat /\ costing(10) \in Nat /\ costing(5) \in Nat /\ costing(2) \in Nat
    BY <1>2
  <1>5. Clamp(x - (15 * costing(15) + 10 * costing(10) + 5 * costing(5) + 2 * costing(2)), 0, 100) \in 0..x
    BY <1>4, CostLowers
  <1> QED
    BY <1>3, <1>5

-----------------------------------------------------------------------------
(* Factors, and what a score is made of *)

FactorSet == {"release_recency", "maintainer_count", "download_velocity", "open_issue_ratio",
              "org_backing", "version_pinning", "repo_health"}

LEMMA FactorsAre == ToSet(Factors) = FactorSet
  BY DEF ToSet, Factors, FactorSet

\* Each weight goes to the factor in its place.
LEMMA WeighAt ==
    ASSUME NEW a, NEW b, NEW c, NEW d, NEW e, NEW g, NEW h
    PROVE  /\ Weigh(<<a, b, c, d, e, g, h>>) = [f \in FactorSet |-> Weigh(<<a, b, c, d, e, g, h>>)[f]]
           /\ Weigh(<<a, b, c, d, e, g, h>>)["release_recency"] = a
           /\ Weigh(<<a, b, c, d, e, g, h>>)["maintainer_count"] = b
           /\ Weigh(<<a, b, c, d, e, g, h>>)["download_velocity"] = c
           /\ Weigh(<<a, b, c, d, e, g, h>>)["open_issue_ratio"] = d
           /\ Weigh(<<a, b, c, d, e, g, h>>)["org_backing"] = e
           /\ Weigh(<<a, b, c, d, e, g, h>>)["version_pinning"] = g
           /\ Weigh(<<a, b, c, d, e, g, h>>)["repo_health"] = h
  <1> DEFINE ws == <<a, b, c, d, e, g, h>>
             at(f) == CHOOSE i \in 1..7 : Factors[i] = f
  <1>1. \A i \in 1..7 : \A k \in 1..7 : Factors[i] = Factors[k] => i = k
    BY DEF Factors
  <1>2. \A i \in 1..7 : at(Factors[i]) = i
    BY <1>1
  <1>3. \A i \in 1..7 : Factors[i] \in FactorSet
    BY DEF Factors, FactorSet
  <1>4. Weigh(ws) = [f \in FactorSet |-> ws[at(f)]]
    BY FactorsAre DEF Weigh
  <1> HIDE DEF at, ws
  <1>5. \A i \in 1..7 : Weigh(ws)[Factors[i]] = ws[i]
    BY <1>2, <1>3, <1>4
  <1>6. /\ Factors[1] = "release_recency" /\ Factors[2] = "maintainer_count" /\ Factors[3] = "download_velocity"
        /\ Factors[4] = "open_issue_ratio" /\ Factors[5] = "org_backing" /\ Factors[6] = "version_pinning"
        /\ Factors[7] = "repo_health"
    BY DEF Factors
  <1>7. /\ ws[1] = a /\ ws[2] = b /\ ws[3] = c /\ ws[4] = d /\ ws[5] = e /\ ws[6] = g /\ ws[7] = h
    BY DEF ws
  <1>8. /\ Weigh(ws)[Factors[1]] = a /\ Weigh(ws)[Factors[2]] = b /\ Weigh(ws)[Factors[3]] = c /\ Weigh(ws)[Factors[4]] = d
        /\ Weigh(ws)[Factors[5]] = e /\ Weigh(ws)[Factors[6]] = g /\ Weigh(ws)[Factors[7]] = h
    BY <1>5, <1>7
  <1>9. Weigh(ws) = [f \in FactorSet |-> Weigh(ws)[f]]
    BY <1>4
  <1> QED
    BY <1>6, <1>8, <1>9 DEF ws

\* Whatever the facts are, each factor's score is a number up to 100.
LEMMA ScoresBounded ==
    ASSUME NEW pkg, NEW info, NEW repo
    PROVE  FactorScores(pkg, info, repo) \in [FactorSet -> 0..100]
  <1>1. /\ Recency(info) \in 0..100 /\ Maintainers(info) \in 0..100 /\ Downloads(info) \in 0..100
        /\ Pinning(pkg.type) \in 0..100
    BY DEF Recency, Maintainers, Downloads, Pinning
  <1>2. OpenIssues(repo) \in 0..100 /\ OrgBacking(repo, info) \in 0..100 /\ RepoHealth(repo) \in 0..100
    BY DEF OpenIssues, OrgBacking, RepoHealth
  <1> DEFINE i == IF repo # NoRepo THEN OpenIssues(repo) ELSE IF info.source # "" THEN 70 ELSE 40
             o == IF repo # NoRepo THEN OrgBacking(repo, info) ELSE IF info.source # "" THEN 65 ELSE 30
             r == IF repo # NoRepo THEN RepoHealth(repo) ELSE IF info.source # "" THEN 70 ELSE 40
  <1>3. i \in 0..100 /\ o \in 0..100 /\ r \in 0..100
    BY <1>2
  <1>4. FactorScores(pkg, info, repo) = Weigh(<<Recency(info), Maintainers(info), Downloads(info), i, o, Pinning(pkg.type), r>>)
    BY DEF FactorScores
  <1> HIDE DEF i, o, r
  <1> DEFINE fs == FactorScores(pkg, info, repo)
  <1>5. /\ fs = [f \in FactorSet |-> fs[f]]
        /\ fs["release_recency"] = Recency(info) /\ fs["maintainer_count"] = Maintainers(info)
        /\ fs["download_velocity"] = Downloads(info) /\ fs["open_issue_ratio"] = i /\ fs["org_backing"] = o
        /\ fs["version_pinning"] = Pinning(pkg.type) /\ fs["repo_health"] = r
    BY <1>4, WeighAt
  <1> HIDE DEF fs
  <1>6. \A f \in FactorSet : fs[f] \in 0..100
    BY <1>1, <1>3, <1>5 DEF FactorSet
  <1>7. fs \in [FactorSet -> 0..100]
    BY <1>5, <1>6
  <1> QED
    BY <1>7 DEF fs

LEMMA TotalIsWhole ==
    ASSUME NEW w, \A f \in FactorSet : f \in DOMAIN w => w[f] \in Int
    PROVE  Total(w) \in Int
  BY DEF Total, FactorSet

LEMMA TotalIsNatural ==
    ASSUME NEW w, \A f \in FactorSet : f \in DOMAIN w => w[f] \in Nat
    PROVE  Total(w) \in Nat
  BY DEF Total, FactorSet

LEMMA QuotIsWhole ==
    ASSUME NEW a \in Int, NEW b \in Nat, b # 0
    PROVE  Quot(a, b) \in Int
  BY DEF Quot

\* Weights that are no less than nothing stay whole numbers when those of the
\* factors without data are spread.
LEMMA RedistributedWhole ==
    ASSUME NEW w \in [FactorSet -> Nat], NEW u
    PROVE  RedistributeUnavailable(w, u) \in [FactorSet -> Int]
  <1> DEFINE available == DOMAIN w \ u
             sum       == Total(Restrict(w, available))
             scaled    == [f \in DOMAIN w |-> IF f \in u THEN 0 ELSE (w[f] * 100) \div sum]
             k         == Factors[SelectInSeq(Factors, LAMBDA f : f \in available)]
  <1>1. sum \in Nat
    BY TotalIsNatural DEF Restrict
  <1>2. RedistributeUnavailable(w, u) = IF u = {} \/ sum = 0 THEN w ELSE [scaled EXCEPT ![k] = @ + 100 - Total(scaled)]
    BY DEF RedistributeUnavailable
  <1> HIDE DEF sum, k
  <1>3. CASE u = {} \/ sum = 0
    BY <1>2, <1>3
  <1>4. CASE ~(u = {} \/ sum = 0)
    <2>1. \A f \in FactorSet : w[f] * 100 \in Int
      OBVIOUS
    <2>2. \A x \in Int : x \div sum \in Int
      BY <1>1, <1>4
    <2>3. scaled \in [FactorSet -> Int]
      BY <2>1, <2>2
    <2> HIDE DEF scaled
    <2>4. Total(scaled) \in Int
      BY <2>3, TotalIsWhole
    <2>5. \A f \in FactorSet : scaled[f] \in Int /\ scaled[f] + 100 - Total(scaled) \in Int
      BY <2>3, <2>4
    <2> DEFINE spread == [scaled EXCEPT ![k] = @ + 100 - Total(scaled)]
    <2>6. \A f \in FactorSet : spread[f] = IF f = k THEN scaled[f] + 100 - Total(scaled) ELSE scaled[f]
      BY <2>3
    <2>7. spread = [f \in FactorSet |-> spread[f]]
      BY <2>3
    <2> HIDE DEF spread
    <2>8. spread \in [FactorSet -> Int]
      BY <2>5, <2>6, <2>7
    <2> QED
      BY <1>2, <1>4, <2>8 DEF spread, scaled
  <1> QED
    BY <1>3, <1>4

\* A package with facts scores the weighted mean of its factors, cut off.
LEMMA OwnScore ==
    ASSUME NEW pkg, NEW info, NEW repo, NEW w, info # NoInfo
    PROVE  LET scores == FactorScores(pkg, info, repo)
               r      == RedistributeUnavailable(w, Unavailable(scores))
           IN  Score(pkg, info, repo, w).own = Clamp(Quot(Total([f \in DOMAIN r |-> r[f] * scores[f]]), 100), 0, 100)
  BY DEF Score

LEMMA ScoreInRange ==
    ASSUME NEW pkg, NEW info, NEW repo, NEW w \in [FactorSet -> Nat], info # NoInfo
    PROVE  Score(pkg, info, repo, w).own \in 0..100
  <1> DEFINE scores == FactorScores(pkg, info, repo)
             r      == RedistributeUnavailable(w, Unavailable(scores))
             terms  == [f \in DOMAIN r |-> r[f] * scores[f]]
  <1>1. Score(pkg, info, repo, w).own = Clamp(Quot(Total(terms), 100), 0, 100)
    BY OwnScore
  <1>2. r \in [FactorSet -> Int] /\ scores \in [FactorSet -> 0..100]
    BY RedistributedWhole, ScoresBounded
  <1> HIDE DEF r, scores
  <1>3. terms \in [FactorSet -> Int]
    BY <1>2
  <1> HIDE DEF terms
  <1>4. Total(terms) \in Int
    BY <1>3, TotalIsWhole
  <1>5. Quot(Total(terms), 100) \in Int
    BY <1>4, QuotIsWhole
  <1> QED
    BY <1>1, <1>5 DEF Clamp

-----------------------------------------------------------------------------
(* Weights *)

Weight(w, f) == IF f \in DOMAIN w THEN w[f] ELSE 0

LEMMA TotalOfWeights ==
    ASSUME NEW w
    PROVE  Total(w) = Weight(w, "release_recency") + Weight(w, "maintainer_count") + Weight(w, "download_velocity")
                          + Weight(w, "open_issue_ratio") + Weight(w, "org_backing") + Weight(w, "version_pinning")
                          + Weight(w, "repo_health")
  BY DEF Total, Weight

SumOf(w) == w["release_recency"] + w["maintainer_count"] + w["download_velocity"] + w["open_issue_ratio"]
                + w["org_backing"] + w["version_pinning"] + w["repo_health"]

LEMMA TotalOfAll ==
    ASSUME NEW w \in [FactorSet -> Int]
    PROVE  Total(w) = SumOf(w)
  BY DEF Total, SumOf, FactorSet

\* What is added to one weight is added to their sum.
LEMMA TotalAdds ==
    ASSUME NEW w \in [FactorSet -> Int], NEW k \in FactorSet, NEW d \in Int
    PROVE  /\ [w EXCEPT ![k] = @ + d] \in [FactorSet -> Int]
           /\ Total([w EXCEPT ![k] = @ + d]) = Total(w) + d
  <1> DEFINE v == [w EXCEPT ![k] = @ + d]
  <1>1. \A f \in FactorSet : v[f] = IF f = k THEN w[f] + d ELSE w[f]
    OBVIOUS
  <1>2. v = [f \in FactorSet |-> v[f]]
    OBVIOUS
  <1> HIDE DEF v
  <1>3. \A f \in FactorSet : w[f] \in Int /\ w[f] + d \in Int
    OBVIOUS
  <1>4. v \in [FactorSet -> Int]
    BY <1>1, <1>2, <1>3
  <1>5. Total(v) = SumOf(v) /\ Total(w) = SumOf(w)
    BY <1>4, TotalOfAll
  <1>6. Total(v) = Total(w) + d
    BY <1>1, <1>3, <1>5 DEF SumOf, FactorSet
  <1> QED
    BY <1>4, <1>6 DEF v

LEMMA DivBounds ==
    ASSUME NEW a \in Int, NEW d \in Nat, d # 0
    PROVE  /\ a \div d \in Int
           /\ (a \div d) * d <= a
           /\ a < (a \div d) * d + d
  OBVIOUS

LEMMA DivNatural ==
    ASSUME NEW a \in Nat, NEW d \in Nat, d # 0
    PROVE  a \div d \in Nat
  OBVIOUS

\* The quotients by the sum of what was multiplied are no more than the
\* multiplier in all.
LEMMA SharesFit ==
    ASSUME NEW left \in Nat, NEW b \in [FactorSet -> Nat], NEW q \in [FactorSet -> Int], SumOf(b) # 0,
           \A f \in FactorSet : q[f] * SumOf(b) <= b[f] * left
    PROVE  SumOf(q) <= left
  <1> DEFINE b1 == b["release_recency"]
             b2 == b["maintainer_count"]
             b3 == b["download_velocity"]
             b4 == b["open_issue_ratio"]
             b5 == b["org_backing"]
             b6 == b["version_pinning"]
             b7 == b["repo_health"]
             q1 == q["release_recency"]
             q2 == q["maintainer_count"]
             q3 == q["download_velocity"]
             q4 == q["open_issue_ratio"]
             q5 == q["org_backing"]
             q6 == q["version_pinning"]
             q7 == q["repo_health"]
             s  == SumOf(b)
  <1>1. /\ b1 \in Nat /\ b2 \in Nat /\ b3 \in Nat /\ b4 \in Nat /\ b5 \in Nat /\ b6 \in Nat /\ b7 \in Nat
        /\ q1 \in Int /\ q2 \in Int /\ q3 \in Int /\ q4 \in Int /\ q5 \in Int /\ q6 \in Int /\ q7 \in Int
    BY DEF FactorSet
  <1>2. /\ q1 * s <= b1 * left /\ q2 * s <= b2 * left /\ q3 * s <= b3 * left /\ q4 * s <= b4 * left
        /\ q5 * s <= b5 * left /\ q6 * s <= b6 * left /\ q7 * s <= b7 * left
    BY DEF FactorSet
  <1>3. s = b1 + b2 + b3 + b4 + b5 + b6 + b7
    BY DEF SumOf
  <1> DEFINE sum == SumOf(q)
  <1>4. sum = q1 + q2 + q3 + q4 + q5 + q6 + q7
    BY DEF SumOf
  <1>5. s # 0
    OBVIOUS
  <1> HIDE DEF b1, b2, b3, b4, b5, b6, b7, q1, q2, q3, q4, q5, q6, q7, s, sum
  <1>6. s \in Nat /\ sum \in Int
    BY <1>1, <1>3, <1>4
  <1>7. s * left = b1 * left + b2 * left + b3 * left + b4 * left + b5 * left + b6 * left + b7 * left
    BY <1>1, <1>3
  <1>8. sum * s = q1 * s + q2 * s + q3 * s + q4 * s + q5 * s + q6 * s + q7 * s
    BY <1>1, <1>4, <1>6
  <1>9. sum * s <= left * s
    BY <1>1, <1>2, <1>6, <1>7, <1>8
  <1>10. sum <= left
    BY <1>5, <1>6, <1>9
  <1> QED
    BY <1>10 DEF sum

\* Mixed with the weights of a configuration, a profile's weights stay whole
\* numbers; they add up to 100 unless all were replaced; and none is negative
\* unless one is given negative or more than 100 in all.
LEMMA MixedWeights ==
    ASSUME NEW base \in [FactorSet -> Nat], NEW o, DOMAIN o \subseteq FactorSet, \A f \in DOMAIN o : o[f] \in Int,
           NEW w \in WithWeights(base, o)
    PROVE  /\ w \in [FactorSet -> Int]
           /\ DOMAIN o # FactorSet => Total(w) = 100
           /\ Total(o) <= 100 /\ (\A f \in DOMAIN o : o[f] >= 0) => \A f \in FactorSet : w[f] >= 0
  <1> DEFINE kept   == DOMAIN base \ DOMAIN o
             left   == 100 - Total(o)
             b      == [f \in FactorSet |-> Weight(Restrict(base, kept), f)]
             share  == Total(Restrict(base, kept))
             merged == [f \in DOMAIN base |->
                           IF f \in DOMAIN o THEN o[f] ELSE IF share = 0 THEN 0 ELSE Quot(base[f] * left, share)]
             diff   == 100 - Total(merged)
             q      == [f \in FactorSet |-> IF f \in DOMAIN o THEN 0 ELSE merged[f]]
  <1>1. /\ kept \subseteq FactorSet /\ (kept = {} => DOMAIN o = FactorSet)
        /\ \/ w = merged /\ (diff = 0 \/ kept = {})
           \/ \E k \in kept : w = [merged EXCEPT ![k] = @ + diff]
    BY DEF WithWeights
  <1>2. /\ \A f \in FactorSet : b[f] = IF f \in DOMAIN o THEN 0 ELSE base[f]
        /\ \A f \in FactorSet : b[f] \in Nat
    BY DEF Weight, Restrict
  <1>3. share = SumOf(b) /\ b \in [FactorSet -> Nat]
    BY <1>2, TotalOfWeights DEF SumOf, FactorSet
  <1> HIDE DEF b
  <1>4. share \in Nat
    BY <1>3 DEF SumOf, FactorSet
  <1>5. Total(o) \in Int /\ left \in Int
    BY TotalIsWhole
  <1> HIDE DEF share, left
  <1>6. \A f \in FactorSet : base[f] * left \in Int
    BY <1>5
  <1>7. \A f \in FactorSet : share # 0 => Quot(base[f] * left, share) \in Int
    BY <1>4, <1>6, QuotIsWhole
  <1>8. merged \in [FactorSet -> Int]
    BY <1>7
  <1>9. \A f \in FactorSet : merged[f] = Weight(o, f) + q[f] /\ Weight(o, f) \in Int /\ q[f] \in Int
    BY <1>8 DEF Weight
  <1>10. Total(merged) \in Int /\ diff \in Int
    BY <1>8, TotalIsWhole
  <1> HIDE DEF diff
  <1>11. w \in [FactorSet -> Int]
    BY <1>1, <1>8, <1>10, TotalAdds
  <1>12. ASSUME DOMAIN o # FactorSet
         PROVE  Total(w) = 100
    <2>1. CASE w = merged /\ diff = 0
      BY <1>10, <2>1 DEF diff
    <2>2. CASE \E k \in kept : w = [merged EXCEPT ![k] = @ + diff]
      <3>1. Total(w) = Total(merged) + diff
        BY <1>1, <1>8, <1>10, <2>2, TotalAdds
      <3> QED
        BY <1>10, <3>1 DEF diff
    <2> QED
      BY <1>1, <1>12, <2>1, <2>2
  <1>13. ASSUME Total(o) <= 100, \A f \in DOMAIN o : o[f] >= 0
         PROVE  \A f \in FactorSet : w[f] >= 0
    <2>1. left \in Nat
      BY <1>5, <1>13 DEF left
    <2>2. \A f \in FactorSet : base[f] * left \in Nat /\ b[f] * left \in Nat
      BY <1>2, <2>1
    <2>3. ASSUME NEW f \in FactorSet
          PROVE  q[f] \in Nat /\ (share # 0 => q[f] * share <= b[f] * left)
      <3>1. CASE f \in DOMAIN o
        BY <1>4, <2>2, <3>1
      <3>2. CASE f \notin DOMAIN o /\ share = 0
        BY <3>2
      <3>3. CASE f \notin DOMAIN o /\ share # 0
        <4>1. q[f] = (base[f] * left) \div share /\ b[f] = base[f]
          BY <1>2, <2>2, <3>3 DEF Quot
        <4> QED
          BY <1>4, <2>2, <3>3, <4>1, DivBounds, DivNatural
      <3> QED
        BY <3>1, <3>2, <3>3
    <2>4. \A f \in FactorSet : merged[f] >= 0
      BY <1>13, <2>3
    <2> HIDE DEF q, merged
    <2> DEFINE sum == SumOf(q)
    <2>8. SumOf(merged) = Total(o) + sum
      BY <1>9, TotalOfWeights DEF SumOf, FactorSet
    <2>5. Total(merged) = Total(o) + sum
      BY <1>8, <2>8, TotalOfAll
    <2>6. CASE share = 0
      <3>1. \A f \in FactorSet : q[f] = 0
        BY <2>6 DEF q, merged
      <3>2. sum = 0
        BY <3>1 DEF SumOf, FactorSet
      <3>3. diff >= 0
        BY <1>5, <1>13, <2>5, <3>2 DEF diff
      <3> QED
        BY <1>1, <1>8, <1>10, <2>4, <3>3
    <2>7. CASE share # 0
      <3>3. q \in [FactorSet -> Int]
        BY <2>3 DEF q
      <3>1. sum <= left
        BY <1>3, <2>1, <2>3, <2>7, <3>3, SharesFit
      <3>2. diff >= 0
        BY <1>5, <1>9, <2>3, <2>5, <3>1 DEF diff, left, SumOf, FactorSet
      <3> QED
        BY <1>1, <1>8, <1>10, <2>4, <3>2
    <2> QED
      BY <2>6, <2>7
  <1> QED
    BY <1>11, <1>12, <1>13

LEMMA WeighNatural ==
    ASSUME NEW a \in Nat, NEW b \in Nat, NEW c \in Nat, NEW d \in Nat, NEW e \in Nat, NEW g \in Nat, NEW h \in Nat
    PROVE  Weigh(<<a, b, c, d, e, g, h>>) \in [FactorSet -> Nat]
  <1> DEFINE w == Weigh(<<a, b, c, d, e, g, h>>)
  <1>1. /\ w = [f \in FactorSet |-> w[f]]
        /\ w["release_recency"] = a /\ w["maintainer_count"] = b /\ w["download_velocity"] = c
        /\ w["open_issue_ratio"] = d /\ w["org_backing"] = e /\ w["version_pinning"] = g /\ w["repo_health"] = h
    BY WeighAt
  <1> HIDE DEF w
  <1>2. \A f \in FactorSet : w[f] \in Nat
    BY <1>1 DEF FactorSet
  <1>3. w \in [FactorSet -> Nat]
    BY <1>1, <1>2
  <1> QED
    BY <1>3 DEF w

LEMMA ProfileWeights ==
    ASSUME NEW name
    PROVE  ProfileByName(name).weights \in [FactorSet -> Nat]
  <1>1. \/ ProfileByName(name).weights = Weigh(<<15, 5, 15, 10, 5, 25, 25>>)
        \/ ProfileByName(name).weights = Weigh(<<18, 12, 15, 10, 8, 17, 20>>)
        \/ ProfileByName(name).weights = Weigh(<<20, 15, 15, 10, 10, 15, 15>>)
    BY DEF ProfileByName
  <1>2. /\ Weigh(<<15, 5, 15, 10, 5, 25, 25>>) \in [FactorSet -> Nat]
        /\ Weigh(<<18, 12, 15, 10, 8, 17, 20>>) \in [FactorSet -> Nat]
        /\ Weigh(<<20, 15, 15, 10, 10, 15, 15>>) \in [FactorSet -> Nat]
    BY WeighNatural
  <1> QED
    BY <1>1, <1>2

-----------------------------------------------------------------------------
(* The mean *)

\* The sum over the factors is linear.
Linear(a, u, v) == [f \in FactorSet |-> a * u[f] + v[f]]
SumsUp(a, u, v) == SumOf(Linear(a, u, v)) = a * SumOf(u) + SumOf(v)

LEMMA SumIsLinear ==
    ASSUME NEW a \in Int, NEW u \in [FactorSet -> Int], NEW v \in [FactorSet -> Int]
    PROVE  SumsUp(a, u, v)
  <1> DEFINE s == SumOf(u)
             at(f) == a * u[f]
  <1>1. a * s = at("release_recency") + at("maintainer_count") + at("download_velocity") + at("open_issue_ratio")
                    + at("org_backing") + at("version_pinning") + at("repo_health")
    BY DEF SumOf, FactorSet
  <1>2. \A f \in FactorSet : at(f) \in Int /\ Linear(a, u, v)[f] = at(f) + v[f]
    BY DEF Linear
  <1> HIDE DEF at
  <1>3. SumOf(Linear(a, u, v)) = a * s + SumOf(v)
    BY <1>1, <1>2 DEF SumOf, FactorSet
  <1> QED
    BY <1>3 DEF SumsUp

LEMMA SumIsMonotone ==
    ASSUME NEW u \in [FactorSet -> Int], NEW v \in [FactorSet -> Int], \A f \in FactorSet : u[f] <= v[f]
    PROVE  SumOf(u) \in Int /\ SumOf(v) \in Int /\ SumOf(u) <= SumOf(v)
  BY DEF SumOf, FactorSet

\* A mean by weights that add up to 100 lies between the bounds of the scores
\* that have a weight.
Averaged(v, s, lo, hi, own) ==
    /\ SumOf(v) = 100
    /\ \A f \in FactorSet : v[f] # 0 => lo <= s[f] /\ s[f] <= hi
    /\ own = Clamp(Quot(SumOf([f \in FactorSet |-> v[f] * s[f]]), 100), 0, 100)

LiesBetween(v, s, lo, hi, own) ==
    LET sum == SumOf([f \in FactorSet |-> v[f] * s[f]]) IN
    own \in lo..hi /\ own * 100 <= sum /\ sum < own * 100 + 100

LEMMA MeanLiesBetween ==
    ASSUME NEW v \in [FactorSet -> Nat], NEW s \in [FactorSet -> 0..100],
           NEW lo \in 0..100, NEW hi \in 0..100, NEW own, Averaged(v, s, lo, hi, own)
    PROVE  LiesBetween(v, s, lo, hi, own)
  <1> USE DEF Averaged, LiesBetween
  <1> DEFINE terms == [f \in FactorSet |-> v[f] * s[f]]
             low   == [f \in FactorSet |-> lo * v[f]]
             high  == [f \in FactorSet |-> hi * v[f]]
             none  == [f \in FactorSet |-> 0]
             sum   == SumOf(terms)
  <1>1. \A f \in FactorSet : terms[f] \in Int /\ low[f] \in Int /\ high[f] \in Int
    OBVIOUS
  <1>2. terms \in [FactorSet -> Int] /\ low \in [FactorSet -> Int] /\ high \in [FactorSet -> Int] /\ none \in [FactorSet -> Int]
    BY <1>1
  <1>3. ASSUME NEW f \in FactorSet
        PROVE  low[f] <= terms[f] /\ terms[f] <= high[f]
    <2> DEFINE x == v[f]
               y == s[f]
    <2>1. x \in Nat /\ y \in 0..100 /\ (x # 0 => lo <= y /\ y <= hi)
      OBVIOUS
    <2> HIDE DEF x, y
    <2>2. lo * x <= x * y /\ x * y <= hi * x
      BY <2>1
    <2> QED
      BY <2>2 DEF x, y
  <1>4. SumOf(none) = 0
    BY DEF SumOf, FactorSet
  <1>5. \A f \in FactorSet : low[f] = lo * v[f] + none[f] /\ high[f] = hi * v[f] + none[f]
    BY <1>1
  <1>6. v \in [FactorSet -> Int]
    OBVIOUS
  <1> HIDE DEF terms, low, high, none
  <1>14. low = Linear(lo, v, none)
    BY <1>2, <1>5 DEF Linear
  <1>15. high = Linear(hi, v, none)
    BY <1>2, <1>5 DEF Linear
  <1>16. lo \in Int /\ hi \in Int
    OBVIOUS
  <1>17. SumOf(low) = lo * SumOf(v) + SumOf(none)
    BY <1>2, <1>6, <1>14, <1>16, SumIsLinear DEF SumsUp
  <1>18. SumOf(high) = hi * SumOf(v) + SumOf(none)
    BY <1>2, <1>6, <1>15, <1>16, SumIsLinear DEF SumsUp
  <1>7. SumOf(low) = lo * 100 /\ SumOf(high) = hi * 100
    BY <1>4, <1>16, <1>17, <1>18
  <1>8. sum \in Int /\ lo * 100 <= sum /\ sum <= hi * 100
    BY <1>2, <1>3, <1>7, SumIsMonotone
  <1>9. own = Clamp(Quot(sum, 100), 0, 100)
    BY DEF terms
  <1> HIDE DEF sum
  <1>10. Quot(sum, 100) = sum \div 100
    BY <1>8 DEF Quot
  <1>11. sum \div 100 \in lo..hi
    BY <1>8
  <1>12. own = sum \div 100
    BY <1>9, <1>10, <1>11 DEF Clamp
  <1>13. own * 100 <= sum /\ sum < own * 100 + 100
    BY <1>8, <1>12
  <1> QED
    BY <1>11, <1>12, <1>13 DEF sum, terms

LEMMA SumIsWhole ==
    ASSUME NEW w \in [FactorSet -> Int]
    PROVE  SumOf(w) \in Int
  BY DEF SumOf, FactorSet

LEMMA Products ==
    ASSUME NEW d \in Nat, NEW c \in 0..100
    PROVE  d * c \in Nat /\ d * c <= 100 * d
  OBVIOUS

\* The sums of the lemma after this: u of the quotients and x of what they
\* leave, y and z of both times the scores, t of the weights times the scores.
Rounded(share, u, x, y, z, t, c, own, mean) ==
    /\ share * u + x = 100 * share /\ share * y + z = 100 * t
    /\ 0 <= z /\ z <= 100 * x /\ 0 <= x /\ x < 6 * share
    /\ mean = y + (100 - u) * c /\ own * 100 <= mean /\ mean < own * 100 + 100

LEMMA RoundingInNumbers ==
    ASSUME NEW share \in Nat, share # 0, NEW u \in Int, NEW x \in Int, NEW y \in Int, NEW z \in Int, NEW t \in Int,
           NEW c \in 0..100, NEW own \in Int, NEW mean, Rounded(share, u, x, y, z, t, c, own, mean)
    PROVE  own * share - t \in -(6 * share)..(6 * share)
  <1> USE DEF Rounded
  <1> DEFINE left == 100 - u
             e    == own * share
             g    == y * share
             h    == x * c
  <1>1. left \in Int /\ e \in Int /\ g \in Int
    OBVIOUS
  <1>2. left * share = x
    OBVIOUS
  <1>3. left \in 0..5
    BY <1>1, <1>2
  <1>4. x <= 5 * share
    BY <1>2, <1>3
  <1>5. h \in Int /\ 0 <= h /\ h <= 100 * x
    BY Products
  <1>6. mean \in Int /\ mean * share = g + h
    <2>1. left * c \in Int /\ mean = y + left * c
      BY <1>1
    <2>2. (left * c) * share = (left * share) * c
      BY <1>1
    <2> QED
      BY <1>2, <2>1, <2>2
  <1>7. mean * share >= 100 * e /\ mean * share <= 100 * e + 100 * share
    <2>1. \A m \in Int, n \in Int : m <= n => m * share <= n * share
      OBVIOUS
    <2>2. (own * 100) * share <= mean * share /\ mean * share <= (own * 100 + 100) * share
      BY <1>6, <2>1
    <2>3. (own * 100) * share = 100 * e /\ (own * 100 + 100) * share = 100 * e + 100 * share
      OBVIOUS
    <2> QED
      BY <2>2, <2>3
  <1>8. g + z = 100 * t
    OBVIOUS
  <1> HIDE DEF e, g, h
  <1>9. 100 * (e - t) <= 500 * share /\ 100 * (e - t) >= -(600 * share)
    BY <1>1, <1>4, <1>5, <1>6, <1>7, <1>8
  <1>10. e - t \in -(6 * share)..(6 * share)
    BY <1>1, <1>9
  <1> QED
    BY <1>10 DEF e

\* What truncation moves: six quotients q of the weights by what they add up
\* to, what is left of 100 given to one factor, and the mean itself.
Quotients(w, share, q) ==
    /\ w["download_velocity"] = 0 /\ share = SumOf(w) /\ share # 0
    /\ \A f \in FactorSet : q[f] * share <= 100 * w[f] /\ 100 * w[f] < q[f] * share + share
MeanOf(q, s, own, mean) ==
    /\ mean = SumOf([f \in FactorSet |-> q[f] * s[f]]) + (100 - SumOf(q)) * s["release_recency"]
    /\ own * 100 <= mean /\ mean < own * 100 + 100
Fits(w, share, s, own) ==
    own * share - SumOf([f \in FactorSet |-> w[f] * s[f]]) \in -(6 * share)..(6 * share)

LEMMA RoundingFits ==
    ASSUME NEW w \in [FactorSet -> Nat], NEW share, NEW s \in [FactorSet -> 0..100], NEW q \in [FactorSet -> Nat],
           Quotients(w, share, q), NEW own \in Int, NEW mean, MeanOf(q, s, own, mean)
    PROVE  Fits(w, share, s, own)
  <1> USE DEF Quotients, MeanOf, Fits
  <1> DEFINE r  == [f \in FactorSet |-> 100 * w[f] - q[f] * share]
             ws == [f \in FactorSet |-> w[f] * s[f]]
             qs == [f \in FactorSet |-> q[f] * s[f]]
             rs == [f \in FactorSet |-> r[f] * s[f]]
             hw == [f \in FactorSet |-> 100 * w[f]]
             hs == [f \in FactorSet |-> 100 * ws[f]]
             hr == [f \in FactorSet |-> 100 * r[f]]
             no == [f \in FactorSet |-> 0]
             left == 100 - SumOf(q)
  <1>1. share \in Nat
    BY DEF SumOf, FactorSet
  <1>2. ASSUME NEW f \in FactorSet
        PROVE  /\ r[f] = 100 * w[f] - q[f] * share /\ ws[f] = w[f] * s[f] /\ qs[f] = q[f] * s[f] /\ rs[f] = r[f] * s[f]
               /\ hw[f] = 100 * w[f] /\ hs[f] = 100 * ws[f] /\ hr[f] = 100 * r[f] /\ no[f] = 0
    OBVIOUS
  <1>3. /\ r = [f \in FactorSet |-> r[f]] /\ ws = [f \in FactorSet |-> ws[f]] /\ qs = [f \in FactorSet |-> qs[f]]
        /\ rs = [f \in FactorSet |-> rs[f]] /\ hw = [f \in FactorSet |-> hw[f]] /\ hs = [f \in FactorSet |-> hs[f]]
        /\ hr = [f \in FactorSet |-> hr[f]] /\ no = [f \in FactorSet |-> no[f]]
    OBVIOUS
  <1>10. mean = SumOf(qs) + left * s["release_recency"]
    OBVIOUS
  <1> HIDE DEF r, ws, qs, rs, hw, hs, hr, no
  <1>4. ASSUME NEW f \in FactorSet
        PROVE  /\ r[f] \in 0..(share - 1) /\ hw[f] = share * q[f] + r[f] /\ hw[f] = 100 * w[f] + no[f]
               /\ ws[f] \in Nat /\ qs[f] \in Nat /\ rs[f] \in Nat /\ hs[f] \in Int /\ hw[f] \in Int /\ hr[f] \in Int
               /\ hs[f] = share * qs[f] + rs[f] /\ hs[f] = 100 * ws[f] + no[f] /\ hr[f] = 100 * r[f] + no[f]
               /\ no[f] <= rs[f] /\ rs[f] <= hr[f]
    <2> DEFINE a == w[f]
               b == q[f]
               c == s[f]
               d == r[f]
    <2>1. a \in Nat /\ b \in Nat /\ c \in 0..100 /\ b * share <= 100 * a /\ 100 * a < b * share + share
      OBVIOUS
    <2>2. d = 100 * a - b * share
      BY <1>2
    <2> HIDE DEF a, b, c, d
    <2>3. d \in 0..(share - 1) /\ 100 * a = share * b + d
      BY <1>1, <2>1, <2>2
    <2>4. d * c \in Nat /\ d * c <= 100 * d /\ a * c \in Nat /\ b * c \in Nat
      BY <1>1, <2>1, <2>3, Products
    <2>5. 100 * (a * c) = share * (b * c) + d * c
      BY <1>1, <2>1, <2>2
    <2>6. ws[f] = a * c /\ qs[f] = b * c /\ rs[f] = d * c /\ hw[f] = 100 * a /\ hs[f] = 100 * (a * c) /\ hr[f] = 100 * d /\ no[f] = 0
      BY <1>2 DEF a, b, c, d
    <2>7. /\ hw[f] = share * b + d /\ hs[f] = share * qs[f] + rs[f] /\ rs[f] <= hr[f]
          /\ ws[f] \in Nat /\ qs[f] \in Nat /\ rs[f] \in Nat
      BY <2>3, <2>4, <2>5, <2>6
    <2>8. /\ hw[f] = 100 * a + no[f] /\ hs[f] = 100 * ws[f] + no[f] /\ hr[f] = 100 * d + no[f] /\ no[f] <= rs[f]
          /\ hs[f] \in Int /\ hw[f] \in Int /\ hr[f] \in Int
      BY <1>1, <2>1, <2>3, <2>4, <2>6
    <2> QED
      BY <2>3, <2>7, <2>8 DEF a, b, d
  <1>5. /\ \A f \in FactorSet : hw[f] = share * q[f] + r[f]
        /\ \A f \in FactorSet : hw[f] = 100 * w[f] + no[f]
        /\ \A f \in FactorSet : hs[f] = share * qs[f] + rs[f]
        /\ \A f \in FactorSet : hs[f] = 100 * ws[f] + no[f]
        /\ \A f \in FactorSet : hr[f] = 100 * r[f] + no[f]
    BY <1>4
  <1>6. \A f \in FactorSet : r[f] \in Int /\ ws[f] \in Int /\ qs[f] \in Int /\ rs[f] \in Int
            /\ hw[f] \in Int /\ hs[f] \in Int /\ hr[f] \in Int /\ no[f] \in Int /\ no[f] <= rs[f] /\ rs[f] <= hr[f]
    BY <1>1, <1>2, <1>4
  <1>7. /\ r \in [FactorSet -> Int] /\ ws \in [FactorSet -> Int] /\ qs \in [FactorSet -> Int] /\ rs \in [FactorSet -> Int]
        /\ hw \in [FactorSet -> Int] /\ hs \in [FactorSet -> Int] /\ hr \in [FactorSet -> Int] /\ no \in [FactorSet -> Int]
    BY <1>3, <1>6
  <1>8. q \in [FactorSet -> Int] /\ w \in [FactorSet -> Int] /\ share \in Int /\ 100 \in Int
    BY <1>1
  <1>9. SumOf(no) = 0
    BY <1>2 DEF SumOf, FactorSet
  <1>24. hw = Linear(share, q, r) /\ hw = Linear(100, w, no)
    BY <1>3, <1>5 DEF Linear
  <1>25. hs = Linear(share, qs, rs) /\ hs = Linear(100, ws, no) /\ hr = Linear(100, r, no)
    BY <1>3, <1>5 DEF Linear
  <1>27. /\ SumsUp(share, q, r) /\ SumsUp(100, w, no) /\ SumsUp(share, qs, rs) /\ SumsUp(100, ws, no)
         /\ SumsUp(100, r, no)
    BY <1>7, <1>8, SumIsLinear
  <1>11. SumOf(hw) = share * SumOf(q) + SumOf(r) /\ SumOf(hw) = 100 * SumOf(w) + SumOf(no)
    BY <1>24, <1>27 DEF SumsUp
  <1>12. SumOf(hs) = share * SumOf(qs) + SumOf(rs) /\ SumOf(hs) = 100 * SumOf(ws) + SumOf(no)
    BY <1>25, <1>27 DEF SumsUp
  <1>13. SumOf(hr) = 100 * SumOf(r) + SumOf(no)
    BY <1>25, <1>27 DEF SumsUp
  <1>16. SumOf(no) <= SumOf(rs) /\ SumOf(rs) <= SumOf(hr)
    BY <1>6, <1>7, SumIsMonotone
  <1>17. /\ SumOf(q) \in Int /\ SumOf(qs) \in Int /\ SumOf(rs) \in Int /\ SumOf(ws) \in Int /\ SumOf(r) \in Int
         /\ SumOf(w) \in Int
    BY <1>7, <1>8, SumIsWhole
  <1>18. 0 <= SumOf(r) /\ SumOf(r) < 6 * share
    <2>1. r["download_velocity"] \in 0..0
      <3>1. "download_velocity" \in FactorSet
        BY DEF FactorSet
      <3>2. r["download_velocity"] = 0 - q["download_velocity"] * share
        BY <1>2, <3>1
      <3>3. q["download_velocity"] * share \in Nat
        BY <1>1, <3>1
      <3> QED
        BY <1>4, <3>1, <3>2, <3>3
    <2>2. \A f \in FactorSet : r[f] \in 0..(share - 1)
      BY <1>4
    <2> QED
      BY <1>1, <2>1, <2>2 DEF SumOf, FactorSet
  <1> DEFINE x == SumOf(r)
             y == SumOf(qs)
             z == SumOf(rs)
             t == SumOf(ws)
             u == SumOf(q)
             c == s["release_recency"]
  <1>19. c \in 0..100
    BY DEF FactorSet
  <1>20. x \in Int /\ y \in Int /\ z \in Int /\ t \in Int /\ u \in Int /\ share \in Nat /\ share # 0
    BY <1>1, <1>17
  <1>21. share * u + x = 100 * share /\ share * y + z = 100 * t /\ 0 <= z /\ z <= 100 * x /\ 0 <= x /\ x < 6 * share
    BY <1>9, <1>11, <1>12, <1>13, <1>16, <1>17, <1>18
  <1>22. mean = y + (100 - u) * c
    BY <1>10
  <1> HIDE DEF x, y, z, t, u, c
  <1>26. Rounded(share, u, x, y, z, t, c, own, mean)
    BY <1>21, <1>22 DEF Rounded
  <1>23. own * share - t \in -(6 * share)..(6 * share)
    BY <1>19, <1>20, <1>26, RoundingInNumbers
  <1> QED
    BY <1>23 DEF t, ws

\* Scores have a lowest and a highest.
LEMMA LeastIs ==
    ASSUME NEW S \in SUBSET (0..100), S # {}
    PROVE  Min(S) \in S /\ \A x \in S : Min(S) <= x
  <1> DEFINE less == {p \in Nat \X Nat : p[1] < p[2]}
  <1>1. IsWellFoundedOn(less, Nat)
    BY NatLessThanWellFounded DEF OpToRel
  <1> HIDE DEF less
  <1>3. S \subseteq Nat
    OBVIOUS
  <1>4. \E m \in S : \A x \in S : ~(<<x, m>> \in less)
    BY <1>1, <1>3, WFMin
  <1>5. \A x \in S, m \in S : ~(<<x, m>> \in less) => m <= x
    BY <1>3 DEF less
  <1>2. \E m \in S : \A x \in S : m <= x
    BY <1>4, <1>5
  <1> QED
    BY <1>2 DEF Min

LEMMA GreatestIs ==
    ASSUME NEW S \in SUBSET (0..100), S # {}
    PROVE  Max(S) \in S /\ \A x \in S : Max(S) >= x
  <1> DEFINE T == {100 - x : x \in S}
  <1>0. \A x \in 0..100 : 100 - x \in 0..100
    OBVIOUS
  <1>1. T \in SUBSET (0..100) /\ T # {}
    BY <1>0
  <1>2. PICK t \in T : \A y \in T : t <= y
    BY <1>1, LeastIs
  <1>3. PICK m \in S : t = 100 - m
    BY <1>2
  <1>4. \A x \in S : m >= x
    BY <1>2, <1>3
  <1> QED
    BY <1>3, <1>4 DEF Max

\* What ScoreIsWeightedMean says of a score and its weights.
IsMean(scores, w, own) ==
    LET known == DOMAIN scores \ Unavailable(scores)
        share == Total(Restrict(w, known))
        sum   == Total([f \in known |-> w[f] * scores[f]])
    IN  share > 0 =>
            /\ own \in Min({scores[f] : f \in known})..Max({scores[f] : f \in known})
            /\ own * share - sum \in -(6 * share)..(6 * share)

LEMMA ScoresLieBetween ==
    ASSUME NEW scores \in [FactorSet -> 0..100], NEW known \in SUBSET FactorSet, known # {}
    PROVE  /\ Min({scores[f] : f \in known}) \in 0..100 /\ Max({scores[f] : f \in known}) \in 0..100
           /\ \A f \in known : Min({scores[g] : g \in known}) <= scores[f] /\ scores[f] <= Max({scores[g] : g \in known})
  <1> DEFINE S == {scores[f] : f \in known}
  <1>1. S \in SUBSET (0..100) /\ S # {}
    OBVIOUS
  <1>2. \A f \in known : scores[f] \in S
    OBVIOUS
  <1> HIDE DEF S
  <1>3. Min(S) \in S /\ (\A x \in S : Min(S) <= x) /\ Max(S) \in S /\ (\A x \in S : Max(S) >= x)
    BY <1>1, LeastIs, GreatestIs
  <1>4. \A f \in known : Min(S) <= scores[f] /\ scores[f] <= Max(S)
    <2>1. \A x \in 0..100, y \in 0..100 : x >= y => y <= x
      OBVIOUS
    <2> QED
      BY <1>1, <1>2, <1>3, <2>1
  <1> QED
    BY <1>1, <1>3, <1>4 DEF S

LEMMA AllKnown ==
    ASSUME NEW scores \in [FactorSet -> 0..100], NEW w \in [FactorSet -> Nat], Total(w) = 100, Unavailable(scores) = {},
           NEW own, own = Clamp(Quot(Total([f \in FactorSet |-> w[f] * scores[f]]), 100), 0, 100)
    PROVE  IsMean(scores, w, own)
  <1> DEFINE S     == {scores[f] : f \in FactorSet}
             terms == [f \in FactorSet |-> w[f] * scores[f]]
             sum   == SumOf(terms)
             lo    == Min(S)
             hi    == Max(S)
  <1>1. FactorSet # {}
    BY DEF FactorSet
  <1>2. lo \in 0..100 /\ hi \in 0..100 /\ \A f \in FactorSet : lo <= scores[f] /\ scores[f] <= hi
    BY <1>1, ScoresLieBetween
  <1>3. terms \in [FactorSet -> Int]
    OBVIOUS
  <1>4. Total(terms) = sum /\ sum \in Int
    BY <1>3, TotalOfAll, SumIsWhole
  <1>5. SumOf(w) = 100
    BY TotalOfAll
  <1>6. own = Clamp(Quot(SumOf([f \in FactorSet |-> w[f] * scores[f]]), 100), 0, 100)
    BY <1>4
  <1> HIDE DEF lo, hi
  <1>11. Averaged(w, scores, lo, hi, own)
    BY <1>2, <1>5, <1>6 DEF Averaged
  <1>12. LiesBetween(w, scores, lo, hi, own)
    BY <1>2, <1>11, MeanLiesBetween
  <1>7. own \in lo..hi /\ own * 100 <= sum /\ sum < own * 100 + 100
    BY <1>12 DEF LiesBetween
  <1>8. Restrict(w, FactorSet) = w
    BY DEF Restrict
  <1> HIDE DEF terms, sum
  <1>9. own * 100 - sum \in -(6 * 100)..(6 * 100)
    BY <1>2, <1>4, <1>7
  <1>10. DOMAIN scores \ Unavailable(scores) = FactorSet
    OBVIOUS
  <1> QED
    BY <1>4, <1>7, <1>8, <1>9, <1>10 DEF IsMean, lo, hi, terms

LEMMA DownloadsUnknown ==
    ASSUME NEW scores \in [FactorSet -> 0..100], NEW w \in [FactorSet -> Nat], Total(w) = 100,
           Unavailable(scores) = {"download_velocity"},
           NEW v, v = RedistributeUnavailable(w, Unavailable(scores)),
           NEW own, own = Clamp(Quot(Total([f \in FactorSet |-> v[f] * scores[f]]), 100), 0, 100)
    PROVE  IsMean(scores, w, own)
  <1> DEFINE dl    == "download_velocity"
             known == FactorSet \ {dl}
             S     == {scores[f] : f \in known}
             lo    == Min(S)
             hi    == Max(S)
             wk    == [f \in FactorSet |-> IF f = dl THEN 0 ELSE w[f]]
             share == SumOf(wk)
             q     == [f \in FactorSet |-> IF f = dl THEN 0 ELSE (w[f] * 100) \div share]
             left  == 100 - SumOf(q)
             qs    == [f \in FactorSet |-> q[f] * scores[f]]
             vs    == [f \in FactorSet |-> v[f] * scores[f]]
             ws    == [f \in FactorSet |-> wk[f] * scores[f]]
             first == "release_recency"
  <1> SUFFICES ASSUME share > 0
               PROVE  own \in lo..hi /\ own * share - SumOf(ws) \in -(6 * share)..(6 * share)
    <2>1. Total(Restrict(w, known)) = share
      BY DEF Total, Restrict, SumOf, FactorSet
    <2>2. Total([f \in known |-> w[f] * scores[f]]) = SumOf(ws)
      <3>1. \A x \in 0..100 : 0 * x = 0
        OBVIOUS
      <3>2. ws[dl] = 0
        BY <3>1 DEF FactorSet
      <3>3. \A f \in known : ws[f] = w[f] * scores[f]
        OBVIOUS
      <3> HIDE DEF ws
      <3> QED
        BY <3>2, <3>3 DEF Total, SumOf, FactorSet
    <2> QED
      BY <2>1, <2>2 DEF IsMean
  <1>1. wk \in [FactorSet -> Nat] /\ wk[dl] = 0
    BY DEF FactorSet
  <1>2. share \in Nat /\ share # 0
    BY <1>1 DEF SumOf, FactorSet
  <1>3. \A f \in FactorSet : w[f] * 100 \in Nat
    OBVIOUS
  <1>4. ASSUME NEW f \in FactorSet
        PROVE  q[f] \in Nat /\ q[f] * share <= 100 * wk[f] /\ 100 * wk[f] < q[f] * share + share
    <2>1. CASE f = dl
      BY <1>2, <2>1
    <2>2. CASE f # dl
      <3> DEFINE a == w[f] * 100
      <3>1. q[f] = a \div share /\ 100 * wk[f] = a /\ a \in Nat
        BY <1>3, <2>2
      <3> HIDE DEF a, q, wk, share
      <3>2. a \div share \in Nat /\ (a \div share) * share <= a /\ a < (a \div share) * share + share
        BY <1>2, <3>1, DivBounds, DivNatural
      <3> QED
        BY <3>1, <3>2
    <2> QED
      BY <2>1, <2>2
  <1>5. q \in [FactorSet -> Nat]
    BY <1>4
  <1>6. q \in [FactorSet -> Int] /\ SumOf(q) \in Int /\ Total(q) = SumOf(q)
    BY <1>5, TotalOfAll, SumIsWhole
  <1>7. left \in Nat
    <2>1. \A f \in FactorSet : q[f] * SumOf(wk) <= wk[f] * 100
      BY <1>1, <1>4
    <2>2. SumOf(q) <= 100
      BY <1>1, <1>2, <1>6, <2>1, SharesFit
    <2> QED
      BY <1>6, <2>2
  <1>8. v = [q EXCEPT ![first] = @ + left]
    <2>1. Factors[SelectInSeq(Factors, LAMBDA f : f \in known)] = first
      <3> DEFINE I == {i \in 1..Len(Factors) : Factors[i] \in known}
      <3>1. Len(Factors) = 7 /\ Factors[1] = first
        BY DEF Factors
      <3>2. 1 \in I /\ \A i \in I : 1 <= i
        BY <3>1 DEF FactorSet
      <3>3. \A i \in I : i \in Nat
        BY <3>1
      <3> HIDE DEF I
      <3>4. Min(I) = 1
        BY <3>2, <3>3 DEF Min
      <3>5. SelectInSeq(Factors, LAMBDA f : f \in known) = IF I # {} THEN Min(I) ELSE 0
        BY DEF SelectInSeq, I
      <3> QED
        BY <3>1, <3>2, <3>4, <3>5
    <2>2. Total(Restrict(w, known)) = share
      BY DEF Total, Restrict, SumOf, FactorSet
    <2>5. [f \in DOMAIN w |-> IF f \in {dl} THEN 0 ELSE (w[f] * 100) \div share] = q
      OBVIOUS
    <2>6. DOMAIN w \ {dl} = known
      OBVIOUS
    <2> DEFINE u      == {dl}
               sum    == Total(Restrict(w, DOMAIN w \ u))
               scaled == [f \in DOMAIN w |-> IF f \in u THEN 0 ELSE (w[f] * 100) \div sum]
               k      == Factors[SelectInSeq(Factors, LAMBDA f : f \in DOMAIN w \ u)]
    <2>7. RedistributeUnavailable(w, u) = IF u = {} \/ sum = 0 THEN w ELSE [scaled EXCEPT ![k] = @ + 100 - Total(scaled)]
      BY DEF RedistributeUnavailable
    <2>8. sum = share
      BY <2>2, <2>6
    <2>9. k = first
      BY <2>1, <2>6
    <2>10. scaled = q
      BY <2>5, <2>8
    <2>11. u # {} /\ v = RedistributeUnavailable(w, u)
      OBVIOUS
    <2> HIDE DEF share, q, sum, scaled, k, u
    <2>3. v = [q EXCEPT ![first] = @ + 100 - Total(q)]
      BY <1>2, <2>7, <2>8, <2>9, <2>10, <2>11
    <2>4. q[first] + 100 - Total(q) = q[first] + left
      BY <1>5, <1>6 DEF FactorSet
    <2> QED
      BY <2>3, <2>4
  <1>9. v \in [FactorSet -> Nat] /\ SumOf(v) = 100 /\ v[dl] = 0
    <2>1. first \in FactorSet /\ dl \in FactorSet
      BY DEF FactorSet
    <2>2. \A f \in FactorSet : q[f] + left \in Nat
      BY <1>5, <1>7
    <2>3. q[dl] = 0
      BY <2>1
    <2> HIDE DEF q, left
    <2>4. v \in [FactorSet -> Nat] /\ v[dl] = 0
      BY <1>5, <1>8, <2>1, <2>2, <2>3
    <2>5. Total(v) = Total(q) + left /\ v \in [FactorSet -> Int]
      BY <1>6, <1>7, <1>8, <2>1, TotalAdds
    <2>6. Total(v) = SumOf(v)
      BY <2>5, TotalOfAll
    <2> QED
      BY <1>6, <2>4, <2>5, <2>6 DEF left
  <1>10. SumOf(vs) = SumOf(qs) + left * scores[first]
    <2> DEFINE c == left * scores[first]
    <2>1. first \in FactorSet /\ c \in Int
      BY <1>7 DEF FactorSet
    <2>2. qs \in [FactorSet -> Int] /\ vs \in [FactorSet -> Int]
      BY <1>5, <1>9
    <2>3. ASSUME NEW f \in FactorSet
          PROVE  vs[f] = IF f = first THEN qs[f] + c ELSE qs[f]
      <3>1. v[f] = IF f = first THEN q[f] + left ELSE q[f]
        BY <1>5, <1>8
      <3>2. \A x \in Nat, y \in Nat, z \in 0..100 : (x + y) * z = x * z + y * z
        OBVIOUS
      <3> HIDE DEF q, left
      <3> QED
        BY <1>5, <1>7, <3>1, <3>2
    <2> HIDE DEF c, qs, vs
    <2>4. vs = [qs EXCEPT ![first] = @ + c]
      BY <2>2, <2>3
    <2>5. Total(vs) = Total(qs) + c
      BY <2>1, <2>2, <2>4, TotalAdds
    <2> QED
      BY <2>2, <2>5, TotalOfAll DEF c
  <1>11. Total(vs) = SumOf(vs) /\ own = Clamp(Quot(SumOf(vs), 100), 0, 100)
    <2>1. vs \in [FactorSet -> Int]
      BY <1>9
    <2> QED
      BY <2>1, TotalOfAll
  <1>12. known \in SUBSET FactorSet /\ known # {}
    BY DEF FactorSet
  <1>13. lo \in 0..100 /\ hi \in 0..100 /\ \A f \in known : lo <= scores[f] /\ scores[f] <= hi
    BY <1>12, ScoresLieBetween
  <1> HIDE DEF lo, hi
  <1>14. Averaged(v, scores, lo, hi, own)
    BY <1>9, <1>11, <1>13 DEF Averaged
  <1>18. LiesBetween(v, scores, lo, hi, own)
    <2>1. v \in [FactorSet -> Nat] /\ lo \in 0..100 /\ hi \in 0..100
      BY <1>9, <1>13
    <2> HIDE DEF known, S, wk, share, q, left, qs, vs, ws
    <2> QED
      BY <1>14, <2>1, MeanLiesBetween
  <1>15. own \in lo..hi /\ own * 100 <= SumOf(vs) /\ SumOf(vs) < own * 100 + 100
    BY <1>18 DEF LiesBetween
  <1>16. own \in Int
    BY <1>13, <1>15
  <1>19. Quotients(wk, share, q)
    <2> HIDE DEF wk, q
    <2> QED
      BY <1>1, <1>2, <1>4 DEF Quotients
  <1>20. MeanOf(q, scores, own, SumOf(vs))
    BY <1>10, <1>15 DEF MeanOf
  <1>21. Fits(wk, share, scores, own)
    <2> HIDE DEF wk, q, share, vs
    <2> QED
      BY <1>1, <1>5, <1>16, <1>19, <1>20, RoundingFits
  <1>17. own * share - SumOf(ws) \in -(6 * share)..(6 * share)
    BY <1>21 DEF Fits
  <1> QED
    BY <1>15, <1>17

-----------------------------------------------------------------------------
(* The passes over a crawl's graph *)

\* What every pass keeps of a node n in the node s it makes of it.
Kept(n, s) ==
    /\ DOMAIN s = NodeFields
    /\ s.project = n.project /\ s.name = n.name /\ s.version = n.version

\* s is n with another score, and perhaps another risk.
OnlyScored(n, s) == Kept(n, s) /\ s.cves = n.cves /\ s.score \in 0..100

LEMMA ScoredKeeps ==
    ASSUME NEW n, DOMAIN n = NodeFields, NEW x \in 0..100
    PROVE  OnlyScored(n, Scored(n, x))
  BY DEF Scored, OnlyScored, Kept, NodeFields

LEMMA PackageNodeKeeps ==
    ASSUME NEW n, NEW world, DOMAIN n = NodeFields, n.score \in 0..100
    PROVE  OnlyScored(n, ScorePackageNode(n, world))
  <1> DEFINE split == Len(n.project) >= 2
             eco   == IF split THEN n.project[1] ELSE n.eco
             name  == IF split THEN n.project[2] ELSE n.name
             reg   == MapEcosystem(eco)
             info  == At(world.fetch, <<reg, name, n.version>>, NoInfo)
             pkg   == [name |-> name, version |-> n.version, eco |-> reg, type |-> "", depth |-> 0]
             res   == Score(pkg, info, RepoOf(info, world), ProfileByName("enterprise").weights)
  <1>1. ScorePackageNode(n, world) =
            IF eco = "" THEN n
            ELSE IF reg \notin Registries THEN [n EXCEPT !.score = 0, !.risk = "CRITICAL"]
            ELSE IF info = NoInfo THEN [n EXCEPT !.score = 0, !.risk = "CRITICAL", !.eco = reg]
            ELSE [n EXCEPT !.score = res.own, !.risk = res.ownRisk, !.eco = reg]
    BY DEF ScorePackageNode
  <1>2. info # NoInfo => res.own \in 0..100
    BY ScoreInRange, ProfileWeights
  <1> HIDE DEF eco, reg, info, res
  <1>3. OnlyScored(n, n) /\ OnlyScored(n, [n EXCEPT !.score = 0, !.risk = "CRITICAL"])
    BY DEF OnlyScored, Kept, NodeFields
  <1>4. OnlyScored(n, [n EXCEPT !.score = 0, !.risk = "CRITICAL", !.eco = reg])
    BY DEF OnlyScored, Kept, NodeFields
  <1>5. info # NoInfo => OnlyScored(n, [n EXCEPT !.score = res.own, !.risk = res.ownRisk, !.eco = reg])
    BY <1>2 DEF OnlyScored, Kept, NodeFields
  <1> QED
    BY <1>1, <1>3, <1>4, <1>5

LEMMA GitNodeKeeps ==
    ASSUME NEW n, NEW world, DOMAIN n = NodeFields
    PROVE  OnlyScored(n, ScoreGitNode(n, world))
  <1> DEFINE repo  == IF n.project = <<>> THEN NoRepo ELSE At(world.repos, n.project, NoRepo)
             base  == PinningScore(n.pinning)
             alone == Min({base + 10, 100})
             all   == base + StarPoints(repo.stars) + PeoplePoints(repo.people) - (IF repo.archived THEN 30 ELSE 0)
  <1>1. base \in 0..100
    BY DEF PinningScore
  <1>2. StarPoints(repo.stars) \in Int /\ PeoplePoints(repo.people) \in Int
    BY DEF StarPoints, PeoplePoints
  <1>3. ScoreGitNode(n, world) = IF repo = NoRepo THEN Scored(n, alone) ELSE Scored(n, Clamp(all, 0, 100))
    BY DEF ScoreGitNode
  <1> HIDE DEF repo, base
  <1>4. alone \in 0..100
    BY <1>1 DEF Min
  <1>5. all \in Int
    BY <1>1, <1>2
  <1> HIDE DEF all, alone
  <1>6. Clamp(all, 0, 100) \in 0..100
    BY <1>5 DEF Clamp
  <1> QED
    BY <1>3, <1>4, <1>6, ScoredKeeps

LEMMA ScorePassKeeps ==
    ASSUME NEW nodes, NEW world, NEW id \in DOMAIN nodes, DOMAIN nodes[id] = NodeFields, nodes[id].score \in 0..100
    PROVE  OnlyScored(nodes[id], RunScorePass(nodes, world)[id])
  <1> DEFINE n == nodes[id]
             s == RunScorePass(nodes, world)[id]
  <1>1. \/ s = n
        \/ s = ScorePackageNode(n, world)
        \/ s = ScoreGitNode(n, world)
        \/ s = Scored(n, PinningScore(n.pinning))
    BY DEF RunScorePass
  <1>2. PinningScore(n.pinning) \in 0..100
    BY DEF PinningScore
  <1>3. OnlyScored(n, n)
    BY DEF OnlyScored, Kept
  <1> HIDE DEF s
  <1>4. OnlyScored(n, s)
    BY <1>1, <1>2, <1>3, PackageNodeKeeps, GitNodeKeeps, ScoredKeeps
  <1> QED
    BY <1>4 DEF s

\* What the look for advisories makes of a node: no score rises, and a node is
\* marked only where there was an answer.
Looked(n, s, world) ==
    /\ Kept(n, s)
    /\ s.score \in 0..100 /\ s.score <= n.score
    /\ s.cves = "checked" => s.version # "" /\ At(world.advisories, <<s.name, s.version>>, <<>>) # Fails

LEMMA UncheckedIsLooked ==
    ASSUME NEW n, NEW world, DOMAIN n = NodeFields, n.score \in 0..100, n.cves # "checked"
    PROVE  Looked(n, n, world) /\ Looked(n, [n EXCEPT !.cves = "unchecked"], world)
  <1>0. \A v \in 0..100 : v <= v
    OBVIOUS
  <1>1. Looked(n, n, world)
    BY <1>0 DEF Looked, Kept
  <1>2. Looked(n, [n EXCEPT !.cves = "unchecked"], world)
    BY DEF Looked, Kept, NodeFields
  <1> QED
    BY <1>1, <1>2

LEMMA BelowBound == \A m \in 0..100 : \A y \in 0..m : y \in 0..100 /\ y <= m
  OBVIOUS

LEMMA CheckedIsLooked ==
    ASSUME NEW n, NEW world, DOMAIN n = NodeFields, n.score \in 0..100, NEW x \in 0..n.score,
           n.version # "", At(world.advisories, <<n.name, n.version>>, <<>>) # Fails
    PROVE  Looked(n, [n EXCEPT !.cves = "checked", !.score = x], world)
  <1> DEFINE s == [n EXCEPT !.cves = "checked", !.score = x]
  <1>1. DOMAIN s = NodeFields /\ s.project = n.project /\ s.name = n.name /\ s.version = n.version /\ s.score = x
    BY DEF NodeFields
  <1> HIDE DEF s
  <1>2. x \in 0..100 /\ x <= n.score
    BY BelowBound
  <1>3. Looked(n, s, world)
    BY <1>1, <1>2 DEF Looked, Kept
  <1> QED
    BY <1>3 DEF s

LEMMA CVEPassLowers ==
    ASSUME NEW nodes, NEW noCVE, NEW world, NEW id \in DOMAIN nodes,
           DOMAIN nodes[id] = NodeFields, nodes[id].score \in 0..100, nodes[id].cves # "checked",
           \A k \in DOMAIN world.advisories : world.advisories[k] # Fails => world.advisories[k] \in Seq(STRING)
    PROVE  Looked(nodes[id], CheckedBy(nodes, noCVE, world)[id], world)
  <1> DEFINE n      == nodes[id]
             answer == At(world.advisories, <<n.name, n.version>>, <<>>)
             bare   == [n EXCEPT !.cves = "unchecked"]
             x      == IF answer = <<>> THEN n.score ELSE Penalised(n.score, answer)
  <1>1. answer # Fails /\ answer # <<>> => answer \in Seq(STRING)
    BY DEF At
  <1>2. answer # Fails /\ answer # <<>> => x \in 0..n.score
    BY <1>1, PenaltyLowers
  <1>0. \A v \in 0..100 : v \in 0..v
    OBVIOUS
  <1>3. answer = <<>> => x \in 0..n.score
    BY <1>0
  <1>4. CheckedBy(nodes, noCVE, world)[id] =
            IF noCVE THEN n ELSE IF n.version = "" THEN bare ELSE IF answer = Fails THEN bare
            ELSE [n EXCEPT !.cves = "checked", !.score = IF answer = <<>> THEN @ ELSE Penalised(@, answer)]
    BY DEF CheckedBy, RunCVEPass
  <1>5. [n EXCEPT !.cves = "checked", !.score = IF answer = <<>> THEN @ ELSE Penalised(@, answer)]
            = [n EXCEPT !.cves = "checked", !.score = x]
    BY DEF NodeFields
  <1> HIDE DEF x
  <1>6. answer # Fails /\ n.version # "" => Looked(n, [n EXCEPT !.cves = "checked", !.score = x], world)
    BY <1>2, <1>3, CheckedIsLooked
  <1>7. Looked(n, n, world) /\ Looked(n, bare, world)
    BY UncheckedIsLooked
  <1> QED
    BY <1>4, <1>5, <1>6, <1>7

\* The floor and the bonus for an organisation keep the order of two scores.
LEMMA TrustIsMonotone ==
    ASSUME NEW x \in 0..100, NEW y \in 0..100, y <= x, NEW class
    PROVE  /\ ApplyOrgTrust(y, class, OwnOrgFloor) \in 0..100
           /\ ApplyOrgTrust(y, class, OwnOrgFloor) <= ApplyOrgTrust(x, class, OwnOrgFloor)
           /\ class = "own" => ApplyOrgTrust(y, class, OwnOrgFloor) >= OwnOrgFloor
  BY DEF ApplyOrgTrust, OwnOrgFloor, Clamp

LEMMA OrgPassSets ==
    ASSUME NEW nodes, NEW trusted, NEW id \in DOMAIN nodes, DOMAIN nodes[id] = NodeFields
    PROVE  /\ OrgPass(nodes, trusted)[id].score =
                  ApplyOrgTrust(nodes[id].score, ClassifyOrg(nodes[id].project, trusted), OwnOrgFloor)
           /\ Kept(nodes[id], OrgPass(nodes, trusted)[id])
           /\ OrgPass(nodes, trusted)[id].cves = nodes[id].cves
  BY DEF OrgPass, Kept, NodeFields

\* The scan of one node with the advisories and without them.
LEMMA PassesOnNode ==
    ASSUME NEW nodes, NEW noCVE, NEW trusted, NEW world, NEW id \in DOMAIN nodes,
           DOMAIN nodes[id] = NodeFields, nodes[id].score \in 0..100, nodes[id].cves # "checked",
           \A k \in DOMAIN world.advisories : world.advisories[k] # Fails => world.advisories[k] \in Seq(STRING)
    PROVE  LET n       == CrawlPasses(nodes, noCVE, trusted, world)[id]
               without == CrawlPasses(nodes, TRUE, trusted, world)
           IN  /\ n.score \in 0..100
               /\ n.score <= without[id].score
               /\ ClassifyOrg(n.project, trusted) = "own" => n.score >= OwnOrgFloor
               /\ n.cves = "checked" => n.version # "" /\ At(world.advisories, <<n.name, n.version>>, <<>>) # Fails
  <1> DEFINE scored  == RunScorePass(nodes, world)
             checked == CheckedBy(scored, noCVE, world)
             s       == scored[id]
             c       == checked[id]
             class   == ClassifyOrg(s.project, trusted)
             n       == CrawlPasses(nodes, noCVE, trusted, world)[id]
             m       == CrawlPasses(nodes, TRUE, trusted, world)[id]
  <1>1. id \in DOMAIN scored /\ id \in DOMAIN checked
    BY DEF RunScorePass, CheckedBy, RunCVEPass
  <1>2. DOMAIN s = NodeFields /\ s.score \in 0..100 /\ s.cves # "checked"
    BY ScorePassKeeps DEF OnlyScored, Kept
  <1>3. CrawlPasses(nodes, noCVE, trusted, world) = OrgPass(checked, trusted)
    BY DEF CrawlPasses
  <1>4. CrawlPasses(nodes, TRUE, trusted, world) = OrgPass(scored, trusted)
    BY DEF CrawlPasses, CheckedBy
  <1> HIDE DEF scored
  <1>5. Looked(s, c, world)
    BY <1>1, <1>2, CVEPassLowers
  <1> HIDE DEF checked
  <1>6. c.score \in 0..100 /\ c.score <= s.score /\ c.project = s.project /\ DOMAIN c = NodeFields
    BY <1>5 DEF Looked, Kept
  <1>7. c.cves = "checked" => c.version # "" /\ At(world.advisories, <<c.name, c.version>>, <<>>) # Fails
    BY <1>5 DEF Looked
  <1>8. /\ n.score = ApplyOrgTrust(c.score, class, OwnOrgFloor)
        /\ n.project = c.project /\ n.name = c.name /\ n.version = c.version /\ n.cves = c.cves
    BY <1>1, <1>3, <1>6, OrgPassSets DEF Kept
  <1>9. m.score = ApplyOrgTrust(s.score, class, OwnOrgFloor)
    BY <1>1, <1>2, <1>4, OrgPassSets
  <1>10. ClassifyOrg(n.project, trusted) = class
    BY <1>6, <1>8
  <1> HIDE DEF s, c, n, m, class
  <1>11. /\ ApplyOrgTrust(c.score, class, OwnOrgFloor) \in 0..100
         /\ ApplyOrgTrust(c.score, class, OwnOrgFloor) <= ApplyOrgTrust(s.score, class, OwnOrgFloor)
         /\ class = "own" => ApplyOrgTrust(c.score, class, OwnOrgFloor) >= OwnOrgFloor
    BY <1>2, <1>6, TrustIsMonotone
  <1>12. n.score \in 0..100 /\ n.score <= m.score /\ (class = "own" => n.score >= OwnOrgFloor)
    BY <1>8, <1>9, <1>11
  <1> QED
    BY <1>7, <1>8, <1>10, <1>12 DEF n, m

-----------------------------------------------------------------------------
(* Compromised packages *)

LEMMA LeastNumber ==
    ASSUME NEW S \in SUBSET Nat, S # {}
    PROVE  Min(S) \in S /\ \A x \in S : Min(S) <= x
  <1> DEFINE less == {p \in Nat \X Nat : p[1] < p[2]}
  <1>1. IsWellFoundedOn(less, Nat)
    BY NatLessThanWellFounded DEF OpToRel
  <1> HIDE DEF less
  <1>2. \E m \in S : \A x \in S : ~(<<x, m>> \in less)
    BY <1>1, WFMin
  <1>3. \A x \in S, m \in S : ~(<<x, m>> \in less) => m <= x
    BY DEF less
  <1>4. \E m \in S : \A x \in S : m <= x
    BY <1>2, <1>3
  <1> QED
    BY <1>4 DEF Min

\* The first bad version that a constraint admits.
FirstAdmitted(c, rs) == SelectInSeq(rs, LAMBDA r : SemverSatisfies(c, AsVersion(r)))

LEMMA Admitted ==
    ASSUME NEW c, NEW rs
    PROVE  FirstAdmitted(c, rs) > 0 <=> \E i \in 1..Len(rs) : SemverSatisfies(c, AsVersion(rs[i]))
  <1> DEFINE I == {i \in 1..Len(rs) : SemverSatisfies(c, AsVersion(rs[i]))}
  <1>1. FirstAdmitted(c, rs) = IF I # {} THEN Min(I) ELSE 0
    BY DEF FirstAdmitted, SelectInSeq
  <1>2. I \in SUBSET Nat
    OBVIOUS
  <1>3. I # {} => Min(I) \in 1..Len(rs)
    BY <1>2, LeastNumber
  <1>4. \A k \in 1..Len(rs) : k > 0
    OBVIOUS
  <1>5. I # {} <=> \E i \in 1..Len(rs) : SemverSatisfies(c, AsVersion(rs[i]))
    OBVIOUS
  <1> HIDE DEF I
  <1>6. ~(0 > 0)
    OBVIOUS
  <1> QED
    BY <1>1, <1>3, <1>4, <1>5, <1>6

\* What one manifest is reported for, locked names and others apart.
Locked(m, direct, resolved, bad) ==
    {Finding(m, n, resolved[n], IF n \in DOMAIN direct THEN "direct" ELSE "indirect")
        : n \in {n \in DOMAIN resolved \intersect DOMAIN bad : Satisfied(bad[n], resolved[n])}}
Possible(m, direct, resolved, bad) ==
    {Finding(m, n, AsVersion(bad[n][FirstAdmitted(direct[n], bad[n])]), "possible")
        : n \in {n \in (DOMAIN direct \ DOMAIN resolved) \intersect DOMAIN bad : FirstAdmitted(direct[n], bad[n]) > 0}}

LEMMA FindingsAre ==
    ASSUME NEW m, NEW direct, NEW resolved, NEW bad
    PROVE  ProcessManifest(m, direct, resolved, bad) = Locked(m, direct, resolved, bad) \union Possible(m, direct, resolved, bad)
  BY DEF ProcessManifest, Locked, Possible, FirstAdmitted

LEMMA FindingFields ==
    ASSUME NEW m, NEW n, NEW v, NEW r
    PROVE  Finding(m, n, v, r).manifest = m /\ Finding(m, n, v, r).name = n /\ Finding(m, n, v, r).relation = r
               /\ Finding(m, n, v, r).version = v
  BY DEF Finding

LEMMA FindingsName ==
    ASSUME NEW m, NEW direct, NEW resolved, NEW bad, NEW x \in ProcessManifest(m, direct, resolved, bad)
    PROVE  x.manifest = m
  BY FindingsAre, FindingFields DEF Locked, Possible

LEMMA LockedFindings ==
    ASSUME NEW m, NEW direct, NEW resolved, NEW bad, NEW n \in DOMAIN bad, n \in DOMAIN resolved, NEW x
    PROVE  x \in ProcessManifest(m, direct, resolved, bad) /\ x.name = n
               <=> /\ Satisfied(bad[n], resolved[n])
                   /\ x = Finding(m, n, resolved[n], IF n \in DOMAIN direct THEN "direct" ELSE "indirect")
  <1>1. x \in Locked(m, direct, resolved, bad) /\ x.name = n
            <=> /\ Satisfied(bad[n], resolved[n])
                /\ x = Finding(m, n, resolved[n], IF n \in DOMAIN direct THEN "direct" ELSE "indirect")
    BY FindingFields DEF Locked
  <1>2. ~(x \in Possible(m, direct, resolved, bad) /\ x.name = n)
    BY FindingFields DEF Possible
  <1> QED
    BY <1>1, <1>2, FindingsAre

LEMMA UnlockedFindings ==
    ASSUME NEW m, NEW direct, NEW resolved, NEW bad, NEW n \in DOMAIN bad, n \notin DOMAIN resolved, NEW x
    PROVE  x \in ProcessManifest(m, direct, resolved, bad) /\ x.name = n
               <=> /\ n \in DOMAIN direct /\ FirstAdmitted(direct[n], bad[n]) > 0
                   /\ x = Finding(m, n, AsVersion(bad[n][FirstAdmitted(direct[n], bad[n])]), "possible")
  <1>1. x \in Possible(m, direct, resolved, bad) /\ x.name = n
            <=> /\ n \in DOMAIN direct /\ FirstAdmitted(direct[n], bad[n]) > 0
                /\ x = Finding(m, n, AsVersion(bad[n][FirstAdmitted(direct[n], bad[n])]), "possible")
    BY FindingFields DEF Possible
  <1>2. ~(x \in Locked(m, direct, resolved, bad) /\ x.name = n)
    BY FindingFields DEF Locked
  <1> QED
    BY <1>1, <1>2, FindingsAre

\* A constraint admits what is no version only if it admits everything.
Unbounded(c) == c # <<>> /\ \A i \in DOMAIN c : c[i].op \in {"*", "latest"}
Exact(r) == Len(r) = 1 /\ r[1].op \in {"", "="}

LEMMA AdmitsEntry ==
    ASSUME NEW c, NEW r
    PROVE  SemverSatisfies(c, AsVersion(r)) <=> Unbounded(c) \/ (Exact(r) /\ SemverSatisfies(c, r[1].version))
  <1>1. Unbounded(c) => SemverSatisfies(c, AsVersion(r))
    BY DEF Unbounded, SemverSatisfies, SatisfiesOne
  <1>2. ParseSemver("") = Unparsed
    BY TextAssumption DEF ParseSemver
  <1>3. SemverSatisfies(c, "") => Unbounded(c)
    BY <1>2 DEF Unbounded, SemverSatisfies, SatisfiesOne
  <1>4. AsVersion(r) = IF Exact(r) THEN r[1].version ELSE ""
    BY DEF AsVersion, Exact
  <1> QED
    BY <1>1, <1>3, <1>4

\* The versions a package-lock.json gives a name.
VersionsIn(lock, n) == {e.version : e \in {e \in Installed(lock) : e.version # "" /\ Last(e.path) = n}}

\* Whatever the order in which it is read, each name gets one of its versions.
LEMMA ResolvedVersions ==
    ASSUME NEW dir, LockedByNpm(dir), NEW f \in Resolved(dir)
    PROVE  \A n : /\ n \in DOMAIN f <=> VersionsIn(NpmLockOf(dir), n) # {}
                  /\ n \in DOMAIN f => f[n] \in VersionsIn(NpmLockOf(dir), n)
  <1> DEFINE lock == dir["package-lock.json"]
  <1>1. CASE "package-lock.json" \notin DOMAIN dir
    BY <1>1 DEF LockedByNpm, Resolved, NpmLockOf, VersionsIn, Installed
  <1>2. CASE "package-lock.json" \in DOMAIN dir /\ lock = Malformed
    BY <1>2 DEF Resolved, NpmLockOf, VersionsIn, Installed
  <1>3. CASE "package-lock.json" \in DOMAIN dir /\ lock # Malformed
    <2> DEFINE entries     == {e \in Installed(lock) : e.version # ""}
               names       == {Last(e.path) : e \in entries}
               versions(n) == {e.version : e \in {e \in entries : Last(e.path) = n}}
    <2>1. NpmLockOf(dir) = lock
      BY <1>3 DEF NpmLockOf
    <2>2. f \in ParseLockfileResolved(lock)
      BY <1>3 DEF Resolved
    <2>3. DOMAIN f = names /\ \A n \in names : f[n] \in versions(n)
      BY <2>2 DEF ParseLockfileResolved
    <2>4. \A n : versions(n) = VersionsIn(lock, n)
      BY DEF VersionsIn
    <2>5. \A n : n \in names <=> versions(n) # {}
      OBVIOUS
    <2> QED
      BY <2>1, <2>3, <2>4, <2>5
  <1> QED
    BY <1>1, <1>2, <1>3


\* A package.json's declared packages are all linked to it, each at the version
\* its own entry is locked at.
LEMMA Enumerated ==
    ASSUME NEW S, IsFiniteSet(S)
    PROVE  \A x \in S : \E i \in DOMAIN SetToSeq(S) : SetToSeq(S)[i] = x
  <1> DEFINE n == Cardinality(S)
             f == SetToSeq(S)
  <1>1. n \in Nat /\ ExistsBijection(1..n, S)
    BY FS_CardinalityType
  <1>2. \E g \in [1..n -> S] : IsInjective(g)
    BY <1>1 DEF ExistsBijection, Bijection, Injection, IsInjective
  <1>3. f \in [1..n -> S] /\ IsInjective(f)
    BY <1>2 DEF SetToSeq
  <1>4. IsFiniteSet(1..n) /\ Cardinality(1..n) = n
    BY <1>1, FS_Interval
  <1> HIDE DEF f, n
  <1>5. f \in Injection(1..n, S)
    BY <1>3 DEF Injection, IsInjective
  <1>6. f \in Surjection(1..n, S)
    BY <1>4, <1>5, FS_Injection DEF n
  <1> QED
    BY <1>3, <1>6 DEF Surjection, f

LEMMA EnumeratedOnly ==
    ASSUME NEW S, IsFiniteSet(S)
    PROVE  SetToSeq(S) \in Seq(S)
  <1> DEFINE n == Cardinality(S)
             f == SetToSeq(S)
  <1>1. n \in Nat /\ ExistsBijection(1..n, S)
    BY FS_CardinalityType
  <1>2. \E g \in [1..n -> S] : IsInjective(g)
    BY <1>1 DEF ExistsBijection, Bijection, Injection, IsInjective
  <1>3. f \in [1..n -> S]
    BY <1>2 DEF SetToSeq
  <1> QED
    BY <1>1, <1>3

NpmPackage(name, version, given, type) == Package("npm", name, version, given, type, 1, {})
Given(name, version, given, type) ==
    name \in STRING /\ version \in STRING \union {""} /\ given \in Constraints /\ type \in ConstraintTypes

LEMMA PackagesAre ==
    ASSUME NEW name, NEW version, NEW given, NEW type, Given(name, version, given, type)
    PROVE  NpmPackage(name, version, given, type) \in Packages
  BY DEF Given, NpmPackage, Package, Packages

LEMMA DeclaredAreLinked ==
    ASSUME NEW dir, "package.json" \in DOMAIN dir, dir["package.json"] # Malformed,
           IsFiniteSet(dir["package.json"].dependencies \union dir["package.json"].dev),
           dir["package.json"].dependencies \union dir["package.json"].dev \subseteq [name : STRING, constraint : Constraints],
           \A g \in dir["package-lock.json"] : g.version \in STRING,
           "package-lock.json" \in DOMAIN dir, dir["package-lock.json"] # Malformed,
           NEW n \in DOMAIN ParseDirectDeps(dir["package.json"]),
           NEW e \in Installed(dir["package-lock.json"]), e.path = <<n>>,
           \A g \in Installed(dir["package-lock.json"]) : g.path = e.path => g = e
    PROVE  [project |-> <<"npm", n>>, version |-> e.version, scope |-> "direct"] \in IndexedPackages(dir, "package.json")
  <1> DEFINE json     == dir["package.json"]
             lock     == dir["package-lock.json"]
             top      == Installed(lock)
             merged   == Merged(json.dependencies, json.dev)
             read     == ({"package.json"} \union CompanionsFor("package.json")) \intersect DOMAIN dir
             sub      == [f \in read |-> dir[f]]
             declared == SetToSeq(merged)
             resolved == NPMResolved(sub)
             pkgs     == ParseJavaScript(sub)
  <1>1. {"package.json", "package-lock.json"} \subseteq read
    BY DEF CompanionsFor
  <1>2. sub["package.json"] = json /\ sub["package-lock.json"] = lock /\ DOMAIN sub = read
    BY <1>1
  <1> HIDE DEF read, sub
  <1>3. resolved = [p \in {g.path : g \in top} |-> (CHOOSE g \in top : g.path = p).version]
    BY <1>1, <1>2 DEF NPMResolved
  <1>4. <<n>> \in DOMAIN resolved /\ resolved[<<n>>] = e.version
    <2>1. (CHOOSE g \in top : g.path = <<n>>) = e
      OBVIOUS
    <2>2. <<n>> \in {g.path : g \in top}
      OBVIOUS
    <2> QED
      BY <1>3, <2>1, <2>2
  <1>5. PICK d \in merged : d.name = n
    BY DEF ParseDirectDeps
  <1>11. merged \subseteq [name : STRING, constraint : Constraints] /\ IsFiniteSet(merged)
    BY FS_Subset DEF Merged
  <1>6. PICK i \in DOMAIN declared : declared[i] = d
    BY <1>5, <1>11, Enumerated
  <1>12. /\ Len(declared) \in Nat /\ DOMAIN declared = 1..Len(declared)
         /\ \A k \in DOMAIN declared : declared[k] \in [name : STRING, constraint : Constraints]
    BY <1>11, EnumeratedOnly
  <1>7. pkgs = [k \in DOMAIN declared |->
                   Package("npm", declared[k].name, IF <<declared[k].name>> \in DOMAIN resolved THEN resolved[<<declared[k].name>>] ELSE "",
                           declared[k].constraint, NPMConstraintType(declared[k].constraint), 1, {})]
    <2>1. {sub[f] : f \in DOMAIN sub \intersect {"package.json", "package-lock.json"}} = {json, lock}
      BY <1>1, <1>2
    <2>2. Malformed \notin {sub[f] : f \in DOMAIN sub \intersect {"package.json", "package-lock.json"}}
      BY <2>1
    <2> QED
      BY <1>1, <1>2, <2>2 DEF ParseJavaScript
  <1> HIDE DEF pkgs, declared, resolved
  <1>8. i \in DOMAIN pkgs /\ pkgs[i].name = n /\ pkgs[i].version = e.version /\ pkgs[i].depth = 1
    BY <1>4, <1>5, <1>6, <1>7 DEF Package
  <1>9. pkgs # Fails
    <2>1. \A p \in DOMAIN resolved : resolved[p] \in STRING
      <3>1. \A p \in {g.path : g \in top} : (CHOOSE g \in top : g.path = p) \in lock
        BY DEF Installed
      <3> QED
        BY <1>3, <3>1
    <2>2. \A c : NPMConstraintType(c) \in ConstraintTypes
      <3> SUFFICES ASSUME NEW c
                   PROVE  NPMConstraintType(c) \in ConstraintTypes
        OBVIOUS
      <3>1. CASE Op(c) = "^"
        BY <3>1 DEF NPMConstraintType, ConstraintTypes
      <3>2. CASE Op(c) \in {"~", "~="}
        BY <3>2 DEF NPMConstraintType, ConstraintTypes
      <3>3. CASE Op(c) \in {">=", ">"}
        BY <3>3 DEF NPMConstraintType, ConstraintTypes
      <3>4. CASE Op(c) \notin {"^", "~", "~=", ">=", ">"}
        BY <3>4 DEF NPMConstraintType, ConstraintTypes
      <3> QED
        BY <3>1, <3>2, <3>3, <3>4
    <2>3. \A k \in DOMAIN declared : pkgs[k] \in Packages
      <3> SUFFICES ASSUME NEW k \in DOMAIN declared
                   PROVE  pkgs[k] \in Packages
        OBVIOUS
      <3> DEFINE name    == declared[k].name
                 version == IF <<name>> \in DOMAIN resolved THEN resolved[<<name>>] ELSE ""
                 given   == declared[k].constraint
                 type    == NPMConstraintType(given)
      <3>1. pkgs[k] = NpmPackage(name, version, given, type)
        BY <1>7 DEF NpmPackage
      <3>2. name \in STRING /\ given \in Constraints
        BY <1>12
      <3>3. version \in STRING \union {""}
        BY <2>1
      <3>4. type \in ConstraintTypes
        BY <2>2
      <3> HIDE DEF name, version, given, type
      <3>5. Given(name, version, given, type)
        BY <3>2, <3>3, <3>4 DEF Given
      <3> QED
        BY <3>1, <3>5, PackagesAre
    <2>4. pkgs \in Seq(Packages)
      <3>1. Len(declared) \in Nat /\ DOMAIN declared = 1..Len(declared)
        BY <1>12
      <3>2. DOMAIN pkgs = 1..Len(declared) /\ pkgs = [k \in 1..Len(declared) |-> pkgs[k]]
        BY <1>7, <3>1
      <3>3. \A k \in 1..Len(declared) : pkgs[k] \in Packages
        BY <2>3, <3>1
      <3>4. pkgs \in [1..Len(declared) -> Packages]
        BY <3>2, <3>3
      <3> QED
        BY <3>1, <3>4
    <2> QED
      BY <2>4, FailsAssumption
  <1>10. IndexedPackages(dir, "package.json") = LinksOf("npm", pkgs)
    BY DEF IndexedPackages, KnownManifests, ParseFiles, pkgs, sub, read
  <1> QED
    BY <1>8, <1>9, <1>10 DEF LinksOf

\* findings hold of d what its scan reports with f for its lock file.
ReportOf(findings, d, direct, f, bad) ==
    \A x : x \in findings /\ x.manifest = d <=> x \in ProcessManifest(d, direct, f, bad)

\* Of one manifest, the scan of all reports what its own scan does, for one way
\* to read its lock file.
LEMMA OneOutcome ==
    ASSUME NEW fs, NEW targets, NEW d \in DiscoverManifests(fs), NEW o \in ScanCompromised(fs, targets)
    PROVE  \E f \in Resolved(fs[d]) :
               ReportOf(o.findings, d, ParseDirectDeps(fs[d]["package.json"]), f, TargetMap(targets))
  <1> DEFINE manifests == DiscoverManifests(fs)
             bad       == TargetMap(targets)
             direct    == [c \in manifests |-> ParseDirectDeps(fs[c]["package.json"])]
             outcomes  == [c \in manifests |-> Resolved(fs[c])]
             choices   == {g \in [manifests -> UNION Range(outcomes)] : \A c \in manifests : g[c] \in outcomes[c]}
             all(g)    == UNION {ProcessManifest(c, direct[c], g[c], bad) : c \in manifests}
  <1>1. ScanCompromised(fs, targets) =
            {[findings |-> all(g), logged |-> [c \in manifests |-> LogManifest(c, direct[c], g[c])]] : g \in choices}
    BY DEF ScanCompromised
  <1> HIDE DEF choices, all, direct, bad
  <1>2. PICK g \in choices : o.findings = all(g)
    BY <1>1
  <1> USE DEF choices, all, direct, bad
  <1>3. g[d] \in Resolved(fs[d])
    OBVIOUS
  <1>4. direct[d] = ParseDirectDeps(fs[d]["package.json"])
    OBVIOUS
  <1> HIDE DEF direct, bad
  <1>5. \A x : x \in o.findings <=> \E c \in manifests : x \in ProcessManifest(c, direct[c], g[c], bad)
    BY <1>2
  <1>6. \A x, c : x \in ProcessManifest(c, direct[c], g[c], bad) => x.manifest = c
    BY FindingsName
  <1>7. \A x : x \in o.findings /\ x.manifest = d <=> x \in ProcessManifest(d, direct[d], g[d], bad)
    BY <1>5, <1>6
  <1> QED
    BY <1>3, <1>4, <1>7 DEF bad, ReportOf

\* What findings hold of d and n where the lock file has versions of n.
Reported(findings, d, direct, bad, n, versions) ==
    LET said     == {x \in findings : x.manifest = d /\ x.name = n}
        relation == IF n \in DOMAIN direct THEN "direct" ELSE "indirect"
    IN  /\ versions # {} => said \in SUBSET {Finding(d, n, v, relation) : v \in versions}
        /\ (\A v \in versions : Satisfied(bad[n], v)) /\ versions # {} => said # {}
        /\ (\A v \in versions : ~Satisfied(bad[n], v)) /\ versions # {} => said = {}
        /\ versions = {} => (said # {}
               <=> n \in DOMAIN direct /\ \E i \in 1..Len(bad[n]) : SemverSatisfies(direct[n], AsVersion(bad[n][i])))

\* What a manifest is reported for, whichever of a name's versions is read.
LEMMA ReportedByLock ==
    ASSUME NEW dir, LockedByNpm(dir), NEW f \in Resolved(dir), NEW d, NEW direct, NEW bad, NEW findings,
           ReportOf(findings, d, direct, f, bad), NEW n \in DOMAIN bad
    PROVE  Reported(findings, d, direct, bad, n, VersionsIn(NpmLockOf(dir), n))
  <1> DEFINE versions == VersionsIn(NpmLockOf(dir), n)
             said     == {x \in findings : x.manifest = d /\ x.name = n}
             relation == IF n \in DOMAIN direct THEN "direct" ELSE "indirect"
  <1>1. /\ n \in DOMAIN f <=> versions # {}
        /\ n \in DOMAIN f => f[n] \in versions
    BY ResolvedVersions
  <1>2. \A x : x \in said <=> x \in ProcessManifest(d, direct, f, bad) /\ x.name = n
    BY DEF ReportOf
  <1> HIDE DEF versions, said
  <1>3. CASE n \in DOMAIN f
    <2>1. \A x : x \in said <=> Satisfied(bad[n], f[n]) /\ x = Finding(d, n, f[n], relation)
      BY <1>2, <1>3, LockedFindings
    <2> QED
      BY <1>1, <1>3, <2>1 DEF versions, said, Reported
  <1>4. CASE n \notin DOMAIN f
    <2> DEFINE first == FirstAdmitted(direct[n], bad[n])
    <2>1. \A x : x \in said <=> /\ n \in DOMAIN direct /\ first > 0
                                /\ x = Finding(d, n, AsVersion(bad[n][first]), "possible")
      BY <1>2, <1>4, UnlockedFindings
    <2>2. first > 0 <=> \E i \in 1..Len(bad[n]) : SemverSatisfies(direct[n], AsVersion(bad[n][i]))
      BY Admitted
    <2> HIDE DEF first
    <2>3. said # {} <=> n \in DOMAIN direct /\ first > 0
      BY <2>1
    <2> QED
      BY <1>1, <1>4, <2>2, <2>3 DEF versions, said, Reported
  <1> QED
    BY <1>3, <1>4

\* A declared package that is locked at the top of node_modules is found in the
\* index exactly if its version is bad.
LEMMA FoundInIndex ==
    ASSUME NEW fs, NEW targets, NEW d \in DiscoverManifests(fs),
           fs[d]["package.json"] # Malformed =>
               /\ fs[d]["package.json"].dependencies \union fs[d]["package.json"].dev
                      \subseteq [name : STRING, constraint : Constraints]
               /\ IsFiniteSet(fs[d]["package.json"].dependencies \union fs[d]["package.json"].dev),
           \A e, f \in NpmLockOf(fs[d]) : e.within = f.within /\ e.path = f.path => e = f,
           \A e \in NpmLockOf(fs[d]) : e.version \in STRING,
           NEW n \in DOMAIN TargetMap(targets), n \in DOMAIN ParseDirectDeps(fs[d]["package.json"]),
           NEW e \in Installed(NpmLockOf(fs[d])), e.path = <<n>>
    PROVE  Finding(d, n, e.version, "direct") \in ScanFromIndex(IndexLinks(fs), targets)
               <=> Satisfied(TargetMap(targets)[n], e.version)
  <1> DEFINE dir == fs[d]
             bad == TargetMap(targets)
             l   == [manifest |-> d, project |-> <<"npm", n>>, version |-> e.version, scope |-> "direct"]
  <1>1. "package.json" \in DOMAIN dir /\ d \in DOMAIN fs /\ "node_modules" \notin ToSet(d)
    BY DEF DiscoverManifests, SkippedDirs
  <1>2. dir["package.json"] # Malformed
    BY DEF ParseDirectDeps
  <1>3. "package-lock.json" \in DOMAIN dir /\ dir["package-lock.json"] # Malformed /\ NpmLockOf(dir) = dir["package-lock.json"]
    BY DEF NpmLockOf, Installed
  <1>10. /\ e \in Installed(dir["package-lock.json"])
         /\ \A g \in Installed(dir["package-lock.json"]) : g.path = e.path => g = e
         /\ \A g \in dir["package-lock.json"] : g.version \in STRING
    BY <1>3 DEF Installed
  <1>4. [project |-> <<"npm", n>>, version |-> e.version, scope |-> "direct"] \in IndexedPackages(dir, "package.json")
    BY <1>1, <1>2, <1>3, <1>10, DeclaredAreLinked
  <1>5. LinkedIn(d, dir) = IndexedPackages(dir, "package.json")
    BY <1>1 DEF LinkedIn
  <1>6. l \in IndexLinks(fs)
    BY <1>1, <1>4, <1>5 DEF IndexLinks
  <1>7. l.project[2] = n /\ l.version = e.version /\ l.manifest = d /\ Relation(l.scope) = "direct"
    BY DEF Relation
  <1> HIDE DEF l, bad
  <1>8. Satisfied(bad[n], e.version) => Finding(d, n, e.version, "direct") \in ScanFromIndex(IndexLinks(fs), targets)
    BY <1>6, <1>7 DEF ScanFromIndex, bad
  <1>9. ASSUME Finding(d, n, e.version, "direct") \in ScanFromIndex(IndexLinks(fs), targets)
        PROVE  Satisfied(bad[n], e.version)
    <2>1. PICK k \in IndexLinks(fs) :
              /\ Satisfied(bad[k.project[2]], k.version)
              /\ Finding(d, n, e.version, "direct") = Finding(k.manifest, k.project[2], k.version, Relation(k.scope))
      BY <1>9 DEF ScanFromIndex, bad
    <2>2. k.project[2] = n /\ k.version = e.version
      BY <2>1, FindingFields
    <2> QED
      BY <2>1, <2>2
  <1> QED
    BY <1>8, <1>9 DEF bad

-----------------------------------------------------------------------------
(* Ranges *)

Triples == Nat \X Nat \X Nat
Parsed  == [nums : Triples, pre : Nat]

LEMMA VersionsAre ==
    ASSUME NEW s, ParseVersion(s) # Unparsed
    PROVE  ParseVersion(s) \in Parsed
  <1>1. s \in DOMAIN Text /\ Len(Text[s].nums) >= 2
    BY DEF ParseVersion
  <1>2. Text[s].nums \in Seq(Nat) /\ Text[s].pre \in Nat
    BY <1>1, TextAssumption
  <1>3. Text[s].nums[1] \in Nat /\ Text[s].nums[2] \in Nat
    BY <1>1, <1>2
  <1>4. (IF Len(Text[s].nums) >= 3 THEN Text[s].nums[3] ELSE 0) \in Nat
    BY <1>2
  <1>5. ParseVersion(s) = [nums |-> <<Text[s].nums[1], Text[s].nums[2], IF Len(Text[s].nums) >= 3 THEN Text[s].nums[3] ELSE 0>>,
                           pre |-> Text[s].pre]
    BY <1>1 DEF ParseVersion
  <1> QED
    BY <1>2, <1>3, <1>4, <1>5 DEF Parsed, Triples

Sign(x, y) == IF x < y THEN -1 ELSE 1

LEMMA CompareNumsIs ==
    ASSUME NEW a \in Triples, NEW b \in Triples
    PROVE  CompareNums(a, b) = IF a[1] # b[1] THEN Sign(a[1], b[1])
                               ELSE IF a[2] # b[2] THEN Sign(a[2], b[2])
                               ELSE IF a[3] # b[3] THEN Sign(a[3], b[3]) ELSE 0
  <1> DEFINE I  == {i \in 1..3 : a[i] # b[i]}
             at == IF I # {} THEN Min(I) ELSE 0
  <1>1. SelectInSeq(<<1, 2, 3>>, LAMBDA i : a[i] # b[i]) = at
    <2>1. {i \in 1..Len(<<1, 2, 3>>) : a[<<1, 2, 3>>[i]] # b[<<1, 2, 3>>[i]]} = I
      OBVIOUS
    <2> QED
      BY <2>1 DEF SelectInSeq
  <1>2. CompareNums(a, b) = IF at = 0 THEN 0 ELSE Sign(a[at], b[at])
    BY <1>1 DEF CompareNums, Sign
  <1>3. I # {} => Min(I) \in I /\ \A i \in I : Min(I) <= i
    BY LeastNumber
  <1>4. I = {} => at = 0
    OBVIOUS
  <1>5. I # {} => at \in I /\ \A i \in I : at <= i
    BY <1>3
  <1>6. /\ 1 \in I <=> a[1] # b[1]
        /\ 2 \in I <=> a[2] # b[2]
        /\ 3 \in I <=> a[3] # b[3]
    OBVIOUS
  <1>7. \A i \in I : i \in Int /\ (i = 1 \/ i = 2 \/ i = 3)
    OBVIOUS
  <1> HIDE DEF I, at
  <1>8. CASE 1 \in I
    <2>1. at = 1
      BY <1>5, <1>7, <1>8
    <2> QED
      BY <1>2, <1>6, <1>8, <2>1
  <1>9. CASE 1 \notin I /\ 2 \in I
    <2>1. at = 2
      BY <1>5, <1>7, <1>9
    <2> QED
      BY <1>2, <1>6, <1>9, <2>1
  <1>10. CASE I = {3}
    <2>1. at = 3
      BY <1>5, <1>10
    <2> QED
      BY <1>2, <1>6, <1>10, <2>1
  <1>11. CASE I = {}
    BY <1>2, <1>4, <1>6, <1>11
  <1> QED
    BY <1>7, <1>8, <1>9, <1>10, <1>11

\* The order of versions, in numbers: a release above its pre-releases.
Ordered(a1, a2, a3, ap, b1, b2, b3, bp) ==
    IF a1 # b1 THEN Sign(a1, b1) ELSE IF a2 # b2 THEN Sign(a2, b2) ELSE IF a3 # b3 THEN Sign(a3, b3)
    ELSE IF ap = bp THEN 0 ELSE IF bp # 0 /\ (ap = 0 \/ ap > bp) THEN 1 ELSE -1

LEMMA CompareIs ==
    ASSUME NEW v \in Parsed, NEW w \in Parsed
    PROVE  Compare(v, w) = Ordered(v.nums[1], v.nums[2], v.nums[3], v.pre, w.nums[1], w.nums[2], w.nums[3], w.pre)
  <1>1. v.nums \in Triples /\ w.nums \in Triples
    BY DEF Parsed
  <1> QED
    BY <1>1, CompareNumsIs DEF Compare, Ordered, Sign

LEMMA EqualVersions ==
    ASSUME NEW v \in Parsed, NEW w \in Parsed, Compare(v, w) = 0
    PROVE  v = w
  <1>1. \A x \in Parsed : x.nums[1] \in Nat /\ x.nums[2] \in Nat /\ x.nums[3] \in Nat /\ x.pre \in Nat
    BY DEF Parsed, Triples
  <1>2. v.nums[1] = w.nums[1] /\ v.nums[2] = w.nums[2] /\ v.nums[3] = w.nums[3] /\ v.pre = w.pre
    BY <1>1, CompareIs DEF Ordered, Sign
  <1>3. v.nums = w.nums
    BY <1>2 DEF Parsed, Triples
  <1> QED
    BY <1>2, <1>3 DEF Parsed

\* What is at least l and at most h has h at least at l.
LEMMA BoundsMeet ==
    ASSUME NEW v \in Parsed, NEW h \in Parsed, NEW l \in Parsed, Compare(v, l) >= 0
    PROVE  /\ Compare(v, h) <= 0 => Compare(h, l) >= 0
           /\ Compare(v, h) < 0 => Compare(h, l) > 0
  <1>1. \A x \in Parsed : x.nums[1] \in Nat /\ x.nums[2] \in Nat /\ x.nums[3] \in Nat /\ x.pre \in Nat
    BY DEF Parsed, Triples
  <1>2. Compare(v, l) = Ordered(v.nums[1], v.nums[2], v.nums[3], v.pre, l.nums[1], l.nums[2], l.nums[3], l.pre)
    BY CompareIs
  <1>3. Compare(v, h) = Ordered(v.nums[1], v.nums[2], v.nums[3], v.pre, h.nums[1], h.nums[2], h.nums[3], h.pre)
    BY CompareIs
  <1>4. Compare(h, l) = Ordered(h.nums[1], h.nums[2], h.nums[3], h.pre, l.nums[1], l.nums[2], l.nums[3], l.pre)
    BY CompareIs
  <1> QED
    BY <1>1, <1>2, <1>3, <1>4, SMTT(30) DEF Ordered, Sign

\* A range that parses, by what it is made of.
IsRange(r) == \A i \in DOMAIN r : r[i].op \in RangeOps /\ r[i].v \in Parsed

LEMMA RangesAre ==
    ASSUME NEW specs, ParseRange(specs) # Unparsed
    PROVE  /\ IsRange(ParseRange(specs)) /\ DOMAIN ParseRange(specs) = DOMAIN specs
           /\ \A i \in DOMAIN specs : ParseRange(specs)[i].op = specs[i].op
  <1> DEFINE r == [i \in DOMAIN specs |-> [op |-> specs[i].op, v |-> ParseVersion(specs[i].version)]]
  <1>1. /\ ParseRange(specs) = r
        /\ \A i \in DOMAIN specs : specs[i].op \in RangeOps /\ ParseVersion(specs[i].version) # Unparsed
    BY DEF ParseRange
  <1>2. \A i \in DOMAIN specs : r[i].op \in RangeOps /\ r[i].v \in Parsed /\ r[i].op = specs[i].op
    BY <1>1, VersionsAre
  <1> QED
    BY <1>1, <1>2 DEF IsRange

\* Compatible with v is what lies below the next minor version.
LEMMA CompatibleIsBelow ==
    ASSUME NEW v \in Parsed, NEW w \in Parsed, v.nums[1] = w.nums[1], v.nums[2] = w.nums[2]
    PROVE  NextMinor(w) \in Parsed /\ Compare(v, NextMinor(w)) < 0
  <1>1. \A x \in Parsed : x.nums[1] \in Nat /\ x.nums[2] \in Nat /\ x.nums[3] \in Nat /\ x.pre \in Nat
    BY DEF Parsed, Triples
  <1>2. NextMinor(w) \in Parsed
    BY <1>1 DEF NextMinor, Parsed, Triples
  <1>3. NextMinor(w).nums[1] = w.nums[1] /\ NextMinor(w).nums[2] = w.nums[2] + 1
    BY DEF NextMinor
  <1>4. Compare(v, NextMinor(w)) = Sign(v.nums[2], w.nums[2] + 1)
    BY <1>1, <1>2, <1>3, CompareIs DEF Ordered
  <1> QED
    BY <1>1, <1>2, <1>4 DEF Sign

\* What is in a range is at least what bounds it from below, and at most what
\* bounds it from above; less than that if the bound is none of its versions.
LEMMA InRangeIsBounded ==
    ASSUME NEW r, IsRange(r), NEW v \in Parsed, InRange(r, v)
    PROVE  /\ \A l \in Lows(r) : l \in Parsed /\ Compare(v, l) >= 0
           /\ \A h \in Highs(r) : h \in Parsed /\ Compare(v, h) <= 0
           /\ ~HighInclusive(r) /\ (\A i \in DOMAIN r : r[i].op # "===") => \A h \in Highs(r) : Compare(v, h) < 0
  <1>1. ASSUME NEW i \in DOMAIN r, r[i].op \in Equalities \union {">=", ">"}
        PROVE  r[i].v \in Parsed /\ Compare(v, r[i].v) >= 0
    <2>1. Matches(r[i], v) /\ r[i].v \in Parsed
      BY DEF InRange, IsRange
    <2>2. Compare(v, r[i].v) \in Int
      BY <2>1, CompareIs DEF Ordered, Sign
    <2> QED
      BY <1>1, <2>1, <2>2 DEF Matches, Equalities
  <1>2. ASSUME NEW i \in DOMAIN r, r[i].op \in Equalities \union {"<=", "<"}
        PROVE  LET h == IF r[i].op = "~=" THEN NextMinor(r[i].v) ELSE r[i].v
               IN  h \in Parsed /\ Compare(v, h) <= 0 /\ (r[i].op \notin {"<=", "==", "==="} => Compare(v, h) < 0)
    <2>1. Matches(r[i], v) /\ r[i].v \in Parsed
      BY DEF InRange, IsRange
    <2>2. Compare(v, r[i].v) \in Int
      BY <2>1, CompareIs DEF Ordered, Sign
    <2>3. CASE r[i].op = "~="
      <3>1. SubSeq(v.nums, 1, 2) = SubSeq(r[i].v.nums, 1, 2)
        BY <2>1, <2>3 DEF Matches
      <3>2. v.nums[1] = r[i].v.nums[1] /\ v.nums[2] = r[i].v.nums[2]
        BY <3>1, <2>1 DEF Parsed, Triples
      <3>3. NextMinor(r[i].v) \in Parsed /\ Compare(v, NextMinor(r[i].v)) < 0
        BY <2>1, <3>2, CompatibleIsBelow
      <3>4. Compare(v, NextMinor(r[i].v)) \in Int
        BY <3>3, CompareIs DEF Ordered, Sign
      <3> QED
        BY <2>3, <3>3, <3>4
    <2>4. CASE r[i].op # "~="
      BY <1>2, <2>1, <2>2, <2>4 DEF Matches, Equalities
    <2> QED
      BY <2>3, <2>4
  <1>3. \A l \in Lows(r) : l \in Parsed /\ Compare(v, l) >= 0
    BY <1>1 DEF Lows
  <1>4. \A h \in Highs(r) : h \in Parsed /\ Compare(v, h) <= 0
    BY <1>2 DEF Highs
  <1>5. ASSUME ~HighInclusive(r), \A i \in DOMAIN r : r[i].op # "===", NEW h \in Highs(r)
        PROVE  Compare(v, h) < 0
    <2>1. \A i \in DOMAIN r : r[i].op \notin {"<=", "==", "==="}
      BY <1>5 DEF HighInclusive
    <2> QED
      BY <1>2, <2>1 DEF Highs
  <1> QED
    BY <1>3, <1>4, <1>5

LEMMA SharedIsNotBelow ==
    ASSUME NEW r, IsRange(r), NEW s, IsRange(s), \A i \in DOMAIN r : r[i].op # "===",
           NEW v \in Parsed, InRange(r, v), InRange(s, v)
    PROVE  ~Below(Highs(r), HighInclusive(r), Lows(s))
  <1> SUFFICES ASSUME NEW h \in Highs(r), NEW l \in Lows(s)
               PROVE  ~(Compare(h, l) < 0) /\ (~HighInclusive(r) => Compare(h, l) # 0)
    BY DEF Below
  <1>1. h \in Parsed /\ Compare(v, h) <= 0 /\ (~HighInclusive(r) => Compare(v, h) < 0)
    BY InRangeIsBounded
  <1>2. l \in Parsed /\ Compare(v, l) >= 0
    BY InRangeIsBounded
  <1>3. Compare(h, l) \in Int
    BY <1>1, <1>2, CompareIs DEF Ordered, Sign
  <1> QED
    BY <1>1, <1>2, <1>3, BoundsMeet

LEMMA AdmittedOverlaps ==
    ASSUME NEW specs, NEW other, ParseRange(other) # Unparsed, Plain(specs), Plain(other),
           NEW s, ParseVersion(s) # Unparsed,
           InRange(ParseRange(other), ParseVersion(s)), Admits(specs, ParseVersion(s))
    PROVE  ConstraintOverlaps(specs, ParseRange(other)) \in {TRUE, Unparsed} /\ Unparsed # FALSE
  <1> DEFINE c     == ParseRange(specs)
             range == ParseRange(other)
             v     == ParseVersion(s)
             first == ParseVersion(specs[1].version)
             bare  == AsOneVersion(specs)
  <1>1. Unparsed # FALSE
    BY UnparsedAssumption
  <1>2. v \in Parsed
    BY VersionsAre
  <1>3. IsRange(range) /\ \A i \in DOMAIN range : range[i].op # "==="
    BY RangesAre DEF Plain
  <1>4. CASE specs = <<>>
    BY <1>1, <1>4 DEF ConstraintOverlaps
  <1>5. CASE specs # <<>> /\ c # Unparsed
    <2>1. IsRange(c) /\ \A i \in DOMAIN c : c[i].op # "==="
      BY <1>5, RangesAre DEF Plain
    <2>2. InRange(c, v)
      BY <1>5 DEF Admits
    <2>3. /\ ~Below(Highs(c), HighInclusive(c), Lows(range))
          /\ ~Below(Highs(range), HighInclusive(range), Lows(c))
      BY <1>2, <1>3, <2>1, <2>2, SharedIsNotBelow
    <2> QED
      BY <1>1, <1>5, <2>3 DEF ConstraintOverlaps
  <1>6. CASE specs # <<>> /\ c = Unparsed
    <2>1. first # Unparsed /\ Compare(v, first) = 0
      BY <1>6 DEF Admits
    <2>2. first \in Parsed
      BY <2>1, VersionsAre
    <2>3. v = first
      BY <1>2, <2>1, <2>2, EqualVersions
    <2>4. bare \in {Unparsed, first}
      <3>1. CASE specs[1].op = ""
        <4>1. Len(specs) = 1
          BY <1>6, <3>1 DEF Plain
        <4> QED
          BY <3>1, <4>1 DEF AsOneVersion, Written
      <3>2. CASE specs[1].op # ""
        BY <3>2 DEF AsOneVersion
      <3> QED
        BY <3>1, <3>2
    <2>5. bare # Unparsed => InRange(range, bare)
      BY <2>3, <2>4
    <2> QED
      BY <1>1, <1>6, <2>5 DEF ConstraintOverlaps
  <1> QED
    BY <1>4, <1>5, <1>6

-----------------------------------------------------------------------------
(* Discover *)

LEMMA Priorities ==
    /\ \A s : StatusPriority(s) \in 0..3
    /\ \A s : StatusPriority(s) >= 3 => s = "confirmed"
    /\ StatusPriority("confirmed") = 3 /\ StatusPriority("potentially") = 2
    /\ StatusPriority("unresolvable") = 1 /\ StatusPriority("safe") = 0
  <1>1. ASSUME NEW s
        PROVE  StatusPriority(s) \in 0..3 /\ (StatusPriority(s) >= 3 => s = "confirmed")
    <2>1. CASE s = "confirmed"
      BY <2>1 DEF StatusPriority
    <2>2. CASE s = "potentially"
      BY <2>2 DEF StatusPriority
    <2>3. CASE s = "unresolvable"
      BY <2>3 DEF StatusPriority
    <2>4. CASE s \notin {"confirmed", "potentially", "unresolvable"}
      BY <2>4 DEF StatusPriority
    <2> QED
      BY <2>1, <2>2, <2>3, <2>4
  <1> QED
    BY <1>1 DEF StatusPriority

LEMMA Outranks ==
    ASSUME NEW s, NEW t, StatusPriority(s) <= StatusPriority(t)
    PROVE  /\ s = "confirmed" => t = "confirmed"
           /\ s \in {"potentially", "unresolvable"} => t # "safe"
  <1>1. StatusPriority(s) \in 0..3 /\ StatusPriority(t) \in 0..3
    BY Priorities
  <1>2. s = "confirmed" => StatusPriority(s) = 3
    BY Priorities
  <1>3. s = "potentially" \/ s = "unresolvable" => StatusPriority(s) >= 1
    BY Priorities
  <1>4. t = "safe" => StatusPriority(t) = 0
    BY Priorities
  <1>5. StatusPriority(t) >= 3 => t = "confirmed"
    BY Priorities
  <1> QED
    BY <1>1, <1>2, <1>3, <1>4, <1>5

LEMMA TopStatus ==
    ASSUME NEW S, S # {}
    PROVE  LET top == CHOOSE s \in S : \A t \in S : StatusPriority(t) <= StatusPriority(s)
           IN  \A t \in S : StatusPriority(t) <= StatusPriority(top)
  <1> DEFINE D == {3 - StatusPriority(s) : s \in S}
  <1>1. D \in SUBSET Nat /\ D # {}
    BY Priorities
  <1>2. Min(D) \in D /\ \A x \in D : Min(D) <= x
    BY <1>1, LeastNumber
  <1>3. PICK s \in S : Min(D) = 3 - StatusPriority(s)
    BY <1>2
  <1>4. \A t \in S : 3 - StatusPriority(s) <= 3 - StatusPriority(t)
    BY <1>2, <1>3
  <1>5. \A t \in S : StatusPriority(t) <= StatusPriority(s)
    BY <1>4, Priorities
  <1> QED
    BY <1>5

LEMMA Deduplicated ==
    ASSUME NEW matches, NEW a \in DOMAIN matches
    PROVE  /\ Len(DeduplicateMatches(matches)) = 1
           /\ StatusPriority(matches[a].status) <= StatusPriority(DeduplicateMatches(matches)[1].status)
  <1> DEFINE statuses == {matches[b].status : b \in DOMAIN matches}
             top      == CHOOSE s \in statuses : \A t \in statuses : StatusPriority(t) <= StatusPriority(s)
             depth    == matches[First({b \in DOMAIN matches : matches[b].status = top})].depth
  <1>1. StatusPriority(matches[a].status) <= StatusPriority(top)
    BY TopStatus
  <1>2. DeduplicateMatches(matches) = <<Found(top, depth)>>
    BY DEF DeduplicateMatches
  <1> HIDE DEF top, depth
  <1> QED
    BY <1>1, <1>2 DEF Found

\* Every package of the name in a file that is read counts for the verdict.
LEMMA VerdictStands ==
    ASSUME NEW name, NEW fs, NEW p, NEW range, NEW offline, NEW registry,
           NEW f \in ToSet(MatchPackageInProject(name, fs, p)), EcosystemForFile(f) # "",
           NEW k, k \in (LET pkgs == ParseFiles(EcosystemForFile(f), [x \in {f} |-> fs[p.dir].files[f]])
                         IN  IF pkgs = Fails THEN {} ELSE {q \in ToSet(pkgs) : Lower(q.name) = Lower(name)})
    PROVE  LET out == ClassifyProject(name, fs, p, range, offline, registry) IN
           Len(out) = 1 /\ StatusPriority(Classify(k, range).status) <= StatusPriority(out[1].status)
  <1> DEFINE files   == MatchPackageInProject(name, fs, p)
             eco     == EcosystemForFile(f)
             pkgs    == ParseFiles(eco, [x \in {f} |-> fs[p.dir].files[f]])
             named   == {i \in DOMAIN pkgs : Lower(pkgs[i].name) = Lower(name)}
             found   == [i \in DOMAIN files |->
                            ClassifyFile(name, files[i], fs[p.dir].files[files[i]], range, offline, registry)]
             places  == UNION {{<<i, m>> : m \in DOMAIN found[i]} : i \in DOMAIN files}
             matches == [a \in places |-> found[a[1]][a[2]]]
  <1>1. PICK j \in DOMAIN files : files[j] = f
    BY DEF ToSet
  <1>2. pkgs # Fails /\ \E i \in named : pkgs[i] = k
    BY DEF ToSet
  <1>3. PICK i \in named : pkgs[i] = k
    BY <1>2
  <1>4. found[j] = [m \in named |-> Classify(pkgs[m], range)]
    <2>1. found[j] = ClassifyFile(name, f, fs[p.dir].files[f], range, offline, registry)
      BY <1>1
    <2>2. found[j] = ClassifyParsed(name, eco, pkgs, range, offline, registry)
      BY <2>1 DEF ClassifyFile
    <2> HIDE DEF pkgs, eco, found
    <2> QED
      BY <1>2, <2>2 DEF ClassifyParsed
  <1>5. ClassifyProject(name, fs, p, range, offline, registry) = DeduplicateMatches(matches)
    BY DEF ClassifyProject
  <1> HIDE DEF files, pkgs, named, found
  <1>6. <<j, i>> \in DOMAIN matches /\ matches[<<j, i>>] = Classify(k, range)
    <2>1. i \in DOMAIN found[j]
      BY <1>4
    <2>2. <<j, i>> \in {<<j, m>> : m \in DOMAIN found[j]}
      BY <2>1
    <2>3. <<j, i>> \in places
      BY <2>2
    <2> QED
      BY <1>3, <1>4, <2>3
  <1> HIDE DEF matches
  <1> QED
    BY <1>5, <1>6, Deduplicated

LEMMA LockedIsConfirmed ==
    ASSUME NEW k, NEW range, k.version # "", NEW s, s = k.version,
           ParseVersion(s) # Unparsed, InRange(range, ParseVersion(s))
    PROVE  Classify(k, range).status = "confirmed"
  BY DEF Classify, Found

LEMMA AllowedIsReported ==
    ASSUME NEW k, NEW other, ParseRange(other) # Unparsed, k.version = "", Plain(k.constraint), Plain(other),
           NEW s, ParseVersion(s) # Unparsed,
           InRange(ParseRange(other), ParseVersion(s)), Admits(k.constraint, ParseVersion(s))
    PROVE  Classify(k, ParseRange(other)).status \in {"potentially", "unresolvable"}
  <1> DEFINE allowed == ConstraintOverlaps(k.constraint, ParseRange(other))
  <1>1. allowed \in {TRUE, Unparsed}
    BY AdmittedOverlaps
  <1> HIDE DEF allowed
  <1>2. Allowing(allowed, "unresolvable") \in {"potentially", "unresolvable"}
    BY <1>1 DEF Allowing
  <1> QED
    BY <1>2 DEF Classify, Found, allowed

-----------------------------------------------------------------------------
(* What is answered *)

LockReading ==
    LET eco == DetectEcosystem(DOMAIN request.dir) IN Reading(request.dir, eco, ParseFiles(eco, request.dir))

\* The question stands, and an answer is the one the analysis computes for it.
Answers ==
    /\ kind \in DOMAIN Requests /\ request \in Requests[kind]
    /\ kind = "score" => reply \in {Pending,
           {[weights |-> w, result |-> Score(request.pkg, request.info, request.repo, w)]
               : w \in WithWeights(ProfileByName(request.profile).weights, request.overrides)}}
    /\ kind = "crawl" => reply \in {Pending,
           Crawled(CrawlPasses(request.nodes, request.noCVE, request.trusted, request.world), request.edges)}
    /\ kind = "range" => reply \in {Pending,
           [overlaps |-> ConstraintOverlaps(request.constraint, ParseRange(request.range)),
            satisfied |-> {v \in DOMAIN Text : SemverSatisfies(request.constraint, v)}]}
    /\ kind = "discover" => reply \in {Pending, Run(request.cfg, request.fs, request.registry)}
    /\ kind = "compromised" => reply \in {Pending,
           CompromisedIn(request.fs, IndexLinks(request.fs), ParseTargets(request.entries), request.edges)}
    /\ kind = "blast" => reply \in {Pending,
           [blast |-> HandleBlastRadius(request.asked, ScanOf(request), request.osv),
            simulate |-> HandleSimulate(request.asked, ScanOf(request)),
            gaps |-> HandleGaps(ScanOf(request))]}
    /\ kind = "url" => reply \in {Pending, Pipelined(PackagesOfTree(request.tree, request.only))}
    /\ kind = "dir" => reply \in {Pending, Pipelined(PackagesOfDir(request.dir, request.only))}
    /\ kind = "lock" => reply \in {Pending, LockReading}

LEMMA AnswersStep == Answers /\ [Next]_vars => Answers'
  <1> SUFFICES ASSUME Answers, [Next]_vars
               PROVE  Answers'
    OBVIOUS
  <1>1. CASE ScoreOne
    BY <1>1 DEF ScoreOne, Reply, Answers, Pipelined, LockReading
  <1>2. CASE CrawlScan
    BY <1>2 DEF CrawlScan, Reply, Answers, Pipelined, LockReading
  <1>3. CASE ScanURL \/ ScanDir
    BY <1>3 DEF ScanURL, ScanDir, Reply, Answers, Pipelined, LockReading
  <1>4. CASE ReadLocks \/ CompareRanges \/ DiscoverExposed \/ DiscoverCached
    BY <1>4 DEF ReadLocks, CompareRanges, DiscoverExposed, DiscoverCached, Reply, Answers, Pipelined, LockReading
  <1>5. CASE CheckCompromised \/ ServeGraphQuestions \/ ScanActions
    BY <1>5 DEF CheckCompromised, ServeGraphQuestions, ScanActions, Reply, Answers, Pipelined, LockReading
  <1>6. CASE UNCHANGED vars
    BY <1>6 DEF vars, Answers, Pipelined, LockReading
  <1> QED
    BY <1>1, <1>2, <1>3, <1>4, <1>5, <1>6 DEF Next

\* An answer is the one its analysis computes for the question asked, and the
\* question stays what it was.
LEMMA AnswersHold == Spec => []Answers
  <1>1. Init => Answers
    BY DEF Init, Answers
  <1> QED
    BY <1>1, AnswersStep, PTL DEF Spec

\* Whatever a profile's weights become and whichever factor has no data, a
\* score lies between the lowest and the highest of the factors that have, and
\* within six points of a share of their weighted mean.
\* (redistributeUnavailable, WithWeights, Score)
THEOREM ScoresAreMeans == Spec => []ScoreIsWeightedMean
  <1>1. Answers => ScoreIsWeightedMean
    <2> SUFFICES ASSUME Answers, Answered("score"), NEW r \in reply
                 PROVE  LET scores == FactorScores(request.pkg, request.info, request.repo)
                            known  == DOMAIN scores \ Unavailable(scores)
                            share == Total(Restrict(r.weights, known))
                            sum   == Total([f \in known |-> r.weights[f] * scores[f]])
                            own   == r.result.own
                            given == DOMAIN request.overrides = DOMAIN r.weights
                            positive == \A f \in DOMAIN r.weights : r.weights[f] >= 0
                        IN  /\ ~given => Total(r.weights) = 100
                            /\ Total(request.overrides) <= 100 /\ (\A f \in DOMAIN request.overrides : request.overrides[f] >= 0) => positive
                            /\ Total(r.weights) = 100 /\ positive /\ share > 0 =>
                                   /\ own \in Min({scores[f] : f \in known})..Max({scores[f] : f \in known})
                                   /\ own * share - sum \in -(6 * share)..(6 * share)
      BY DEF ScoreIsWeightedMean
    <2> DEFINE base   == ProfileByName(request.profile).weights
               o      == request.overrides
               w      == r.weights
               own    == r.result.own
               scores == FactorScores(request.pkg, request.info, request.repo)
    <2>1. w \in WithWeights(base, o) /\ r.result = Score(request.pkg, request.info, request.repo, w)
      BY DEF Answers, Answered
    <2>2. request.info # NoInfo /\ DOMAIN o \subseteq FactorSet /\ \A f \in DOMAIN o : o[f] \in Int
      <3>1. ScoreRequest(request)
        BY RequestsAssumption DEF Answers, Answered, Instances
      <3> QED
        BY <3>1, FactorsAre DEF ScoreRequest
    <2>3. base \in [FactorSet -> Nat]
      BY ProfileWeights
    <2> HIDE DEF base, o
    <2>4. /\ w \in [FactorSet -> Int]
          /\ DOMAIN o # FactorSet => Total(w) = 100
          /\ Total(o) <= 100 /\ (\A f \in DOMAIN o : o[f] >= 0) => \A f \in FactorSet : w[f] >= 0
      BY <2>1, <2>2, <2>3, MixedWeights
    <2>5. ASSUME Total(w) = 100, \A f \in FactorSet : w[f] >= 0
          PROVE  IsMean(scores, w, own)
      <3> DEFINE u == Unavailable(scores)
                 v == RedistributeUnavailable(w, u)
      <3>1. w \in [FactorSet -> Nat]
        BY <2>4, <2>5
      <3>2. scores \in [FactorSet -> 0..100]
        BY ScoresBounded
      <3>3. v \in [FactorSet -> Int]
        BY <3>1, RedistributedWhole
      <3>4. own = Clamp(Quot(Total([f \in DOMAIN v |-> v[f] * scores[f]]), 100), 0, 100)
        BY <2>1, <2>2, OwnScore
      <3> HIDE DEF w, own, scores, v
      <3>5. own = Clamp(Quot(Total([f \in FactorSet |-> v[f] * scores[f]]), 100), 0, 100)
        BY <3>3, <3>4
      <3>6. u = {} \/ u = {"download_velocity"}
        BY DEF Unavailable
      <3>7. CASE u = {}
        <4>1. v = w
          BY <3>7 DEF RedistributeUnavailable, v
        <4> QED
          BY <2>5, <3>1, <3>2, <3>5, <3>7, <4>1, AllKnown
      <3>8. CASE u = {"download_velocity"}
        <4>1. v = RedistributeUnavailable(w, u)
          BY DEF v
        <4> QED
          BY <2>5, <3>1, <3>2, <3>5, <3>8, <4>1, DownloadsUnknown
      <3> QED
        BY <3>6, <3>7, <3>8
    <2>6. DOMAIN w = FactorSet
      BY <2>4
    <2> QED
      BY <2>4, <2>5, <2>6 DEF IsMean, o
  <1> QED
    BY <1>1, AnswersHold, PTL

\* The passes over a crawl's graph keep what each promises, on every graph and
\* whatever the registries, the repositories and OSV answer: the floor of one's
\* own organisation stands below the penalties, and no penalty raises a score.
\* (scanner.CrawlDir, CrawlURL)
THEOREM PassesKeepPromises == Spec => []PassesCompose
  <1>1. Answers => PassesCompose
    <2> SUFFICES ASSUME Answers, Answered("crawl"), NEW id \in DOMAIN reply.nodes
                 PROVE  LET n       == reply.nodes[id]
                            without == CrawlPasses(request.nodes, TRUE, request.trusted, request.world)
                        IN  /\ n.score \in 0..100
                            /\ n.score <= without[id].score
                            /\ ClassifyOrg(n.project, request.trusted) = "own" => n.score >= OwnOrgFloor
                            /\ n.cves = "checked" => n.version # "" /\ At(request.world.advisories, <<n.name, n.version>>, <<>>) # Fails
      BY DEF PassesCompose
    <2>1. reply.nodes = CrawlPasses(request.nodes, request.noCVE, request.trusted, request.world)
      BY DEF Answers, Answered, Crawled
    <2>2. id \in DOMAIN request.nodes
      BY <2>1 DEF CrawlPasses, OrgPass, CheckedBy, RunCVEPass, RunScorePass
    <2>3. CrawlRequest(request)
      BY RequestsAssumption DEF Answers, Answered, Instances
    <2> QED
      BY <2>1, <2>2, <2>3, PassesOnNode DEF CrawlRequest
  <1> QED
    BY <1>1, AnswersHold, PTL

\* A manifest is reported for the bad versions that it has, and for no others,
\* on every tree of files and for every list of bad versions; the index says
\* the same of what is declared and locked.
\* (processManifest, ScanCompromisedFromIndex)
THEOREM BadVersionsAreFound == Spec => []CompromisedAreFound
  <1>1. Answers => CompromisedAreFound
    <2> SUFFICES ASSUME Answers, Answered("compromised"),
                        NEW d \in DiscoverManifests(request.fs), LockedByNpm(request.fs[d]), NEW o \in reply.files
                 PROVE  LET bad    == TargetMap(ParseTargets(request.entries))
                            direct == ParseDirectDeps(request.fs[d]["package.json"])
                            lock   == NpmLockOf(request.fs[d])
                            versions(n) == {e.version : e \in {e \in Installed(lock) : e.version # "" /\ Last(e.path) = n}}
                            said(n)     == {f \in o.findings : f.manifest = d /\ f.name = n}
                            relation(n) == IF n \in DOMAIN direct THEN "direct" ELSE "indirect"
                            exact(r)    == Len(r) = 1 /\ r[1].op \in {"", "="}
                            any(c)      == c # <<>> /\ \A i \in DOMAIN c : c[i].op \in {"*", "latest"}
                            admits(c, r) == any(c) \/ (exact(r) /\ SemverSatisfies(c, r[1].version))
                        IN  /\ \A n \in DOMAIN bad :
                                  /\ versions(n) # {} => said(n) \in SUBSET {Finding(d, n, v, relation(n)) : v \in versions(n)}
                                  /\ (\A v \in versions(n) : Satisfied(bad[n], v)) /\ versions(n) # {} => said(n) # {}
                                  /\ (\A v \in versions(n) : ~Satisfied(bad[n], v)) /\ versions(n) # {} => said(n) = {}
                                  /\ versions(n) = {} => (said(n) # {}
                                         <=> n \in DOMAIN direct /\ \E i \in 1..Len(bad[n]) : admits(direct[n], bad[n][i]))
                            /\ \A n \in DOMAIN bad \intersect DOMAIN direct : \A e \in {e \in Installed(lock) : e.path = <<n>>} :
                                  versions(n) = {e.version} =>
                                      (Finding(d, n, e.version, "direct") \in o.findings
                                           <=> Finding(d, n, e.version, "direct") \in reply.index)
      BY DEF CompromisedAreFound
    <2> DEFINE fs      == request.fs
               targets == ParseTargets(request.entries)
               bad     == TargetMap(targets)
               dir     == fs[d]
               direct  == ParseDirectDeps(dir["package.json"])
               lock    == NpmLockOf(dir)
    <2>1. o \in ScanCompromised(fs, targets) /\ reply.index = ScanFromIndex(IndexLinks(fs), targets)
      BY DEF Answers, Answered, CompromisedIn
    <2>2. CompromisedRequest(request)
      BY RequestsAssumption DEF Answers, Answered, Instances
    <2>3. PICK f \in Resolved(dir) : ReportOf(o.findings, d, direct, f, bad)
      BY <2>1, OneOutcome
    <2>4. /\ \A e, g \in lock : e.within = g.within /\ e.path = g.path => e = g
          /\ \A e \in lock : e.version \in STRING
          /\ dir["package.json"] # Malformed =>
               /\ dir["package.json"].dependencies \union dir["package.json"].dev
                      \subseteq [name : STRING, constraint : Constraints]
               /\ IsFiniteSet(dir["package.json"].dependencies \union dir["package.json"].dev)
      BY <2>2 DEF CompromisedRequest
    <2> HIDE DEF targets, bad, direct, lock
    <2>5. ASSUME NEW n \in DOMAIN bad
          PROVE  LET versions == VersionsIn(lock, n)
                     said     == {x \in o.findings : x.manifest = d /\ x.name = n}
                     relation == IF n \in DOMAIN direct THEN "direct" ELSE "indirect"
                 IN  /\ versions # {} => said \in SUBSET {Finding(d, n, v, relation) : v \in versions}
                     /\ (\A v \in versions : Satisfied(bad[n], v)) /\ versions # {} => said # {}
                     /\ (\A v \in versions : ~Satisfied(bad[n], v)) /\ versions # {} => said = {}
                     /\ versions = {} => (said # {}
                          <=> n \in DOMAIN direct /\ \E i \in 1..Len(bad[n]) :
                                  Unbounded(direct[n]) \/ (Exact(bad[n][i]) /\ SemverSatisfies(direct[n], bad[n][i][1].version)))
      <3>1. Reported(o.findings, d, direct, bad, n, VersionsIn(lock, n))
        BY <2>3, <2>5, ReportedByLock DEF lock
      <3>2. \A i : SemverSatisfies(direct[n], AsVersion(bad[n][i]))
                       <=> Unbounded(direct[n]) \/ (Exact(bad[n][i]) /\ SemverSatisfies(direct[n], bad[n][i][1].version))
        BY AdmitsEntry
      <3> QED
        BY <3>1, <3>2 DEF Reported
    <2>6. ASSUME NEW n \in DOMAIN bad \intersect DOMAIN direct, NEW e \in Installed(lock), e.path = <<n>>,
                 VersionsIn(lock, n) = {e.version}
          PROVE  Finding(d, n, e.version, "direct") \in o.findings
                     <=> Finding(d, n, e.version, "direct") \in reply.index
      <3>1. n \in DOMAIN f /\ f[n] = e.version
        BY <2>3, <2>6, ResolvedVersions DEF lock
      <3>2. Finding(d, n, e.version, "direct") \in o.findings
                <=> Finding(d, n, e.version, "direct") \in ProcessManifest(d, direct, f, bad)
        BY <2>3, FindingFields DEF ReportOf
      <3>3. Finding(d, n, e.version, "direct") \in ProcessManifest(d, direct, f, bad) <=> Satisfied(bad[n], e.version)
        BY <3>1, LockedFindings, FindingFields
      <3>4. Finding(d, n, e.version, "direct") \in ScanFromIndex(IndexLinks(fs), targets) <=> Satisfied(bad[n], e.version)
        BY <2>4, <2>6, FoundInIndex DEF bad, direct, lock
      <3> QED
        BY <2>1, <3>2, <3>3, <3>4
    <2> QED
      BY <2>5, <2>6 DEF VersionsIn, Unbounded, Exact, bad, direct, lock, targets
  <1> QED
    BY <1>1, AnswersHold, PTL

\* No version that is in a range and that a constraint admits is overlooked,
\* whatever the order of their specifiers, and whatever pre-releases there are.
\* "===" is left out.  (ConstraintOverlaps, Range.bounds)
THEOREM OverlapsAreFound == Spec => []NoOverlapMissed
  <1>1. Answers => NoOverlapMissed
    <2> SUFFICES ASSUME Answers, Answered("range"),
                        Plain(request.constraint), Plain(request.range),
                        NEW s \in DOMAIN Text, ParseVersion(s) # Unparsed,
                        InRange(ParseRange(request.range), ParseVersion(s)),
                        Admits(request.constraint, ParseVersion(s)),
                        reply.overlaps = FALSE
                 PROVE  FALSE
      BY DEF NoOverlapMissed, InSome
    <2>1. ParseRange(request.range) # Unparsed
      BY RequestsAssumption DEF RangeRequest, Answers, Answered, Instances
    <2>2. ConstraintOverlaps(request.constraint, ParseRange(request.range)) = FALSE
      BY DEF Answers, Answered
    <2> QED
      BY <2>1, <2>2, AdmittedOverlaps
  <1> QED
    BY <1>1, AnswersHold, PTL

\* What discover calls safe is: no file of the project locks a version in the
\* range nor allows one, however many files there are and whatever else they
\* hold; what a file locks in the range is confirmed.
\* (Run, Classify, deduplicateMatches)
THEOREM ExposuresAreFound == Spec => []NoExposureMissed
  <1>1. Answers => NoExposureMissed
    <2> SUFFICES ASSUME Answers, Answered("discover"), NEW p \in DOMAIN reply
                 PROVE  LET range == ParseRange(request.cfg.range)
                            here == {f \in ToSet(MatchPackageInProject(request.cfg.name, request.fs, p)) : EcosystemForFile(f) # ""}
                            among(pkgs) == IF pkgs = Fails THEN {} ELSE {k \in ToSet(pkgs) : Lower(k.name) = Lower(request.cfg.name)}
                            named(f) == among(ParseFiles(EcosystemForFile(f), [x \in {f} |-> request.fs[p.dir].files[f]]))
                            pinned(k) == k.eco # "python" \/ Len(k.constraint) = 1
                            hit(k) == IF k.version # "" THEN pinned(k) /\ InSome(range, LAMBDA v : v = k.version)
                                      ELSE /\ Plain(k.constraint) /\ Plain(request.cfg.range)
                                           /\ InSome(range, LAMBDA v : Admits(k.constraint, ParseVersion(v)))
                            all == UNION {named(f) : f \in here}
                        IN  /\ all # {} => Len(reply[p]) = 1
                            /\ \A k \in all : hit(k) =>
                                   /\ reply[p][1].status # "safe"
                                   /\ k.version # "" => reply[p][1].status = "confirmed"
      BY DEF NoExposureMissed
    <2> DEFINE cfg   == request.cfg
               range == ParseRange(cfg.range)
               out   == ClassifyProject(cfg.name, request.fs, p, range, cfg.offline, request.registry)
               here  == {f \in ToSet(MatchPackageInProject(cfg.name, request.fs, p)) : EcosystemForFile(f) # ""}
               among(pkgs) == IF pkgs = Fails THEN {} ELSE {k \in ToSet(pkgs) : Lower(k.name) = Lower(cfg.name)}
               named(f) == among(ParseFiles(EcosystemForFile(f), [x \in {f} |-> request.fs[p.dir].files[f]]))
               all      == UNION {named(f) : f \in here}
    <2>1. reply = Run(cfg, request.fs, request.registry) /\ reply # Fails
      BY DEF Answers, Answered
    <2>2. range # Unparsed /\ reply[p] = out
      BY <2>1 DEF Run
    <2>3. ASSUME NEW k \in all
          PROVE  Len(out) = 1 /\ StatusPriority(Classify(k, range).status) <= StatusPriority(out[1].status)
      <3>1. PICK f \in here : k \in named(f)
        OBVIOUS
      <3> QED
        BY <3>1, VerdictStands
    <2>4. ASSUME NEW k \in all, k.version # "", InSome(range, LAMBDA v : v = k.version)
          PROVE  out[1].status = "confirmed"
      <3>1. Classify(k, range).status = "confirmed"
        BY <2>4, LockedIsConfirmed DEF InSome
      <3> QED
        BY <2>3, <3>1, Outranks
    <2>5. ASSUME NEW k \in all, k.version = "", Plain(k.constraint), Plain(cfg.range),
                 InSome(range, LAMBDA v : Admits(k.constraint, ParseVersion(v)))
          PROVE  out[1].status # "safe"
      <3>1. Classify(k, range).status \in {"potentially", "unresolvable"}
        BY <2>2, <2>5, AllowedIsReported DEF InSome
      <3> QED
        BY <2>3, <3>1, Outranks
    <2> HIDE DEF out, all
    <2>6. all # {} => Len(out) = 1
      BY <2>3
    <2> QED
      BY <2>2, <2>4, <2>5, <2>6 DEF all
  <1> QED
    BY <1>1, AnswersHold, PTL

\* No project is called safe that is not, neither by one comparison of ranges nor
\* by all that discover makes of a project's files.
THEOREM SafeIsSafe == Spec => []NoFalseSafe
  BY OverlapsAreFound, ExposuresAreFound, PTL DEF NoFalseSafe
=============================================================================
