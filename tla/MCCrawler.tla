------------------------------ MODULE MCCrawler ------------------------------
(***************************************************************************)
(* Small worlds for the crawl: three or four references of two sources.    *)
(***************************************************************************)
EXTENDS Crawler, TLC

CONSTANTS r1, r2, r3, r4, pkg, act, p1, p2, p3, p4, v1, v2, v3, v4

MCRefs    == {r1, r2, r3}
MCSources == {pkg, act}
MCProjects == {p1, p2, p3}
MCVKs      == {v1, v2, v3}
MCSourceOf  == (r1 :> pkg) @@ (r2 :> act) @@ (r3 :> pkg)
MCProjectOf == (r1 :> p1) @@ (r2 :> p2) @@ (r3 :> p3)

\* Every ref with a version key of its own.
MCOwnVK == (r1 :> v1) @@ (r2 :> v2) @@ (r3 :> v3)

\* The fresh crawl has a fourth reference, for two paths of unequal length
\* that end in it.
MCRefs4      == MCRefs \union {r4}
MCProjects4  == MCProjects \union {p4}
MCVKs4       == MCVKs \union {v4}
MCSourceOf4  == MCSourceOf @@ (r4 :> act)
MCProjectOf4 == MCProjectOf @@ (r4 :> p4)
MCOwnVK4     == MCOwnVK @@ (r4 :> v4)

\* Two refs of different projects resolve to the same version key.
MCSharedVK == (r1 :> v1) @@ (r2 :> v1) @@ (r3 :> v2)

NothingStored == [c \in Projects \X VKs |-> "absent"]

\* Chains, diamonds and cycles of every length up to four.
MCFreshWorlds ==
    {[finds |-> f, contents |-> Refs, rows |-> {}, store |-> NothingStored] :
        f \in {g \in [Trees -> SUBSET Refs] :
                 /\ g[RootTree] \in {{r1}, {r1, r2}}
                 /\ g[r1] \in SUBSET {r2, r3} /\ g[r2] \in {{}, {r1}, {r4}}
                 /\ g[r3] \in {{}, {r4}, {r1, r4}} /\ g[r4] \in {{}, {r3}}}}

\* What the index may have stored: children by project and constraint, with
\* a cycle, a diamond and a child of another project with the same constraint.
Dependencies == {<< <<p1, v1>>, <<p2, v1>> >>, << <<p1, v1>>, <<p3, v2>> >>,
                 << <<p3, v2>>, <<p1, v1>> >>, << <<p3, v2>>, <<p2, v3>> >>,
                 << <<p2, v3>>, <<p3, v2>> >>}

\* The parent of a row is a foreign key: its version is stored, enriched.
StoreOf(rows) ==
    [c \in Projects \X VKs |->
        IF \E row \in rows : row[1] = c THEN "enriched" ELSE "absent"]

MCCacheFinds == {(RootTree :> {r1, r2}) @@ (r1 :> {r3}) @@ (r2 :> {r3, r1}) @@ (r3 :> {}),
                 (RootTree :> {r3, r1}) @@ (r1 :> {r2}) @@ (r2 :> {r1}) @@ (r3 :> {r2})}

MCCacheWorlds ==
    {[finds |-> f, contents |-> Refs \ {x}, rows |-> rows, store |-> StoreOf(rows)] :
        f \in MCCacheFinds, x \in {r2, r3}, rows \in SUBSET Dependencies}

\* One chain: the project needs r1, r1 needs r3, r3 needs r2.  The index has
\* stored what r1 depends on; its children have no rows.
MCPrunedWorlds ==
    {[finds |-> (RootTree :> {r1}) @@ (r1 :> {r3}) @@ (r2 :> {}) @@ (r3 :> {r2}),
      contents |-> Refs,
      rows |-> rows,
      store |-> StoreOf(rows)] :
        rows \in SUBSET {<< <<p1, v1>>, <<p3, v3>> >>}}

\* Two actions of different projects at the same tag, v4 say.
MCOneTag == (r1 :> v1) @@ (r2 :> v2) @@ (r3 :> v2)

MCTagSource == (r1 :> pkg) @@ (r2 :> act) @@ (r3 :> act)

MCTagWorlds ==
    {[finds |-> (RootTree :> Refs) @@ (r1 :> {}) @@ (r2 :> {}) @@ (r3 :> {}),
      contents |-> {}, rows |-> {}, store |-> NothingStored]}
=============================================================================
