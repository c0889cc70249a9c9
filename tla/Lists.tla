-------------------------------- MODULE Lists --------------------------------
(***************************************************************************)
(* What the models do with sequences and graphs, as recursive functions of *)
(* one argument: loops that keep what passes a test, sorts, and the search *)
(* of everything that something leads to.                                  *)
(***************************************************************************)
EXTENDS Integers, Sequences, FiniteSets, SequencesExt

\* What stands at some places of a sequence, in its order.
Picked(s, places) ==
    LET from[i \in 0..Len(s)] ==
            IF i = 0 THEN <<>>
            ELSE IF i \in places THEN Append(from[i - 1], s[i]) ELSE from[i - 1]
    IN  from[Len(s)]

\* What passes a test, in its order.
Where(s, Test(_)) == Picked(s, {i \in DOMAIN s : Test(s[i])})

\* The first of everything that is the same.
Once(s) == Picked(s, {i \in DOMAIN s : \A k \in DOMAIN s : k < i => s[k] # s[i]})

\* The members of a set by their rank in an order, a set of pairs that is total
\* on it.
Ranked(ids, before) ==
    [k \in 1..Cardinality(ids) |-> CHOOSE i \in ids : Cardinality({j \in ids : <<j, i>> \in before}) = k - 1]

\* What one step along the pairs leads to.
Ahead(pairs, ids) == {p[2] : p \in {p \in pairs : p[1] \in ids}}

\* The text of a constraint, a sequence of specifiers [op, version], behind the
\* operator of the first: nothing is cut off at a comma.
Written(specs) ==
    IF Len(specs) = 1 THEN specs[1].version
    ELSE FoldLeft(LAMBDA text, c : text \o "," \o c.op \o c.version, specs[1].version, Tail(specs))

\* A search: what ids lead to along the pairs, a level at a time until there is
\* nothing new.
Grown(pairs, ids) ==
    LET all == ids \union {p[2] : p \in pairs}
        grown[met \in SUBSET all] ==
            IF Ahead(pairs, met) \subseteq met THEN met ELSE grown[met \union Ahead(pairs, met)]
    IN  grown[ids]

\* A depth-first search that goes to nothing twice: the chains it has gone along
\* to all that it meets, in the order it meets them.  kids gives what is looked
\* at next, ahead is what the calls on the stack have left to do.
Chains(kids, start) ==
    LET nodes == DOMAIN kids
        onwards(c) == [i \in DOMAIN kids[Last(c)] |-> Append(c, kids[Last(c)][i])]
        along[a \in [ahead : Seq(Seq(nodes) \ {<<>>}), visited : SUBSET nodes]] ==
            IF a.ahead = <<>> THEN <<>>
            ELSE LET c == Head(a.ahead) IN
                 IF Last(c) \in a.visited THEN along[[ahead |-> Tail(a.ahead), visited |-> a.visited]]
                 ELSE <<c>> \o along[[ahead |-> onwards(c) \o Tail(a.ahead), visited |-> a.visited \union {Last(c)}]]
    IN  along[[ahead |-> <<<<start>>>>, visited |-> {}]]

\* What a search is compared with: what is in every set that holds ids and is
\* closed under the pairs.
Downstream(pairs, ids) ==
    LET all    == ids \union {p[2] : p \in pairs}
        closed == {s \in SUBSET all : ids \subseteq s /\ \A p \in pairs : p[1] \in s => p[2] \in s}
    IN  {n \in all : \A s \in closed : n \in s}
=============================================================================
