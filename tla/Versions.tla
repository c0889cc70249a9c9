------------------------------- MODULE Versions -------------------------------
(***************************************************************************)
(* Versions and ranges: internal/discover/version.go, used by discover and *)
(* by the blast radius, and the npm dialect of internal/scanner/semver.go, *)
(* used by the compromised-package scan.                                   *)
(*                                                                         *)
(* A version is a string; Text gives the parts a parser would find in it:  *)
(* its numbers, the rank of its pre-release among pre-releases (0 where it *)
(* has none; whatever follows the numbers is one, a comma and more too),   *)
(* and whether a dash leads to it.  A string Text does not hold does not   *)
(* begin with a number.  A constraint is the sequence of its               *)
(* comma-separated specifiers [op, version], op "" for a bare version.     *)
(*                                                                         *)
(* A definition named X_Y is X with a plausible mistake Y.                 *)
(***************************************************************************)
EXTENDS Integers, Sequences, FiniteSetsExt, SequencesExt, Lists

CONSTANTS
    Text,       \* the parts of the version strings
    Unparsed    \* a parser's outcome where the code returns an error

ASSUME TextAssumption ==
    /\ "" \notin DOMAIN Text
    /\ \A s \in DOMAIN Text : Text[s].nums \in Seq(Nat) /\ Text[s].pre \in Nat /\ Text[s].dash \in BOOLEAN

ASSUME UnparsedAssumption == Unparsed \notin BOOLEAN

\* -1, 0 or 1, numbers first and a release above its pre-releases
CompareNums(a, b) ==
    LET at == SelectInSeq(<<1, 2, 3>>, LAMBDA i : a[i] # b[i]) IN
    IF at = 0 THEN 0 ELSE IF a[at] < b[at] THEN -1 ELSE 1

Compare(v, w) ==
    LET nums == CompareNums(v.nums, w.nums) IN
    IF nums # 0 THEN nums
    ELSE IF v.pre = w.pre THEN 0
    ELSE IF w.pre # 0 /\ (v.pre = 0 \/ v.pre > w.pre) THEN 1 ELSE -1

\* At least two numbers; a third is 0 where missing, more are not looked at.
ParseVersion(s) ==
    IF s \notin DOMAIN Text THEN Unparsed
    ELSE LET t == Text[s] IN
         IF Len(t.nums) < 2 THEN Unparsed
         ELSE [nums |-> <<t.nums[1], t.nums[2], IF Len(t.nums) >= 3 THEN t.nums[3] ELSE 0>>, pre |-> t.pre]

-----------------------------------------------------------------------------
(* discover.Range *)

RangeOps == {"~=", "===", "!==", "==", "!=", ">=", "<=", ">", "<"}

\* A range is a sequence of [op, v], v parsed.
ParseRange(specs) ==
    IF specs = <<>> THEN Unparsed
    ELSE IF \E i \in DOMAIN specs : specs[i].op \notin RangeOps \/ ParseVersion(specs[i].version) = Unparsed THEN Unparsed
    ELSE [i \in DOMAIN specs |-> [op |-> specs[i].op, v |-> ParseVersion(specs[i].version)]]

Matches(c, v) ==
    LET cmp == Compare(v, c.v) IN
    CASE c.op \in {"==", "==="} -> cmp = 0
      [] c.op \in {"!=", "!=="} -> cmp # 0
      [] c.op = ">="            -> cmp >= 0
      [] c.op = "<="            -> cmp <= 0
      [] c.op = ">"             -> cmp > 0
      [] c.op = "<"             -> cmp < 0
      [] OTHER                  -> cmp >= 0 /\ SubSeq(v.nums, 1, 2) = SubSeq(c.v.nums, 1, 2)

InRange(range, v) == \A i \in DOMAIN range : Matches(range[i], v)

\* What bounds a range from below and from above, the greatest and the least of
\* these where there are several: constraints are taken in order, and an equality
\* replaces what stood before it.
Equalities == {"==", "===", "~="}

Since(range) == Max({0} \union {i \in DOMAIN range : range[i].op \in Equalities})

NextMinor(v) == [nums |-> <<v.nums[1], v.nums[2] + 1, 0>>, pre |-> 0]

Lows(range) ==
    {range[i].v : i \in {i \in DOMAIN range : i >= Since(range) /\ range[i].op \in Equalities \union {">=", ">"}}}

Highs(range) ==
    {IF range[i].op = "~=" THEN NextMinor(range[i].v) ELSE range[i].v
        : i \in {i \in DOMAIN range : i >= Since(range) /\ range[i].op \in Equalities \union {"<=", "<"}}}

HighInclusive(range) == \E i \in DOMAIN range : range[i].op \in {"<=", "=="}

\* A range that ends at highs ends before one that begins at lows: the least of
\* the ones does before the greatest of the others.
Below(highs, inclusive, lows) ==
    \E h \in highs, l \in lows : Compare(h, l) < 0 \/ (Compare(h, l) = 0 /\ ~inclusive)

\* Mistake: an upper bound counts as exclusive whatever its operator.
ConstraintOverlaps_Exclusive(constraint, range) ==
    LET c == ParseRange(constraint) IN
    IF constraint = <<>> THEN TRUE
    ELSE IF c = Unparsed THEN Unparsed
    ELSE ~Below(Highs(c), FALSE, Lows(range)) /\ ~Below(Highs(range), FALSE, Lows(c))

\* A whole constraint read as one version: none starts with an operator.
AsOneVersion(constraint) == IF constraint[1].op = "" THEN ParseVersion(Written(constraint)) ELSE Unparsed

\* Whether a manifest's constraint allows a version of the range; the empty
\* one allows any, one that is no range is taken for an equality if it reads as
\* a version.
ConstraintOverlaps(constraint, range) ==
    LET c    == ParseRange(constraint)
        bare == AsOneVersion(constraint)
    IN  IF constraint = <<>> THEN TRUE
        ELSE IF c # Unparsed
        THEN /\ ~Below(Highs(c), HighInclusive(c), Lows(range))
             /\ ~Below(Highs(range), HighInclusive(range), Lows(c))
        ELSE IF bare = Unparsed THEN Unparsed ELSE InRange(range, bare)

-----------------------------------------------------------------------------
(* semverSatisfies *)

\* Exactly three numbers; what a dash leads to is cut off, and a pre-release
\* without one makes the last part no number.
ParseSemver(s) ==
    IF s \notin DOMAIN Text THEN Unparsed
    ELSE IF Len(Text[s].nums) # 3 \/ (Text[s].pre # 0 /\ ~Text[s].dash) THEN Unparsed ELSE Text[s].nums

\* The first version above those a caret or a tilde allows.
CaretBound(n) ==
    IF n[1] > 0 THEN <<n[1] + 1, 0, 0>> ELSE IF n[2] > 0 THEN <<0, n[2] + 1, 0>> ELSE <<0, 0, n[3] + 1>>
TildeBound(n) == <<n[1], n[2] + 1, 0>>

SatisfiesOne(spec, version) ==
    LET v   == ParseSemver(version)
        n   == ParseSemver(spec.version)
        cmp == CompareNums(v, n)
    IN  IF spec.op \in {"*", "latest"} THEN TRUE
        ELSE IF v = Unparsed \/ n = Unparsed THEN FALSE
        ELSE CASE spec.op = "^"  -> cmp >= 0 /\ CompareNums(v, CaretBound(n)) < 0
               [] spec.op = "~"  -> cmp >= 0 /\ CompareNums(v, TildeBound(n)) < 0
               [] spec.op = ">=" -> cmp >= 0
               [] spec.op = ">"  -> cmp > 0
               [] spec.op = "<=" -> cmp <= 0
               [] spec.op = "<"  -> cmp < 0
               [] spec.op \in {"", "="} -> cmp = 0
               [] OTHER          -> FALSE

\* The empty constraint is one specifier without a version, which none matches.
SemverSatisfies(constraint, version) ==
    constraint # <<>> /\ \A i \in DOMAIN constraint : SatisfiesOne(constraint[i], version)
=============================================================================
