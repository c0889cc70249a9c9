----------------------------- MODULE MCExplorer -----------------------------
(* Three graphs for TLC: one in which a workflow uses two refs of one action *)
(* and the one the other; one with a cycle below its root; and two versions  *)
(* of one package, which nothing tells apart that the lists are sorted by.   *)
EXTENDS Explorer

Package == 0
Action == 2
Workflow == 3

Node(type, name, score, risk) == [type |-> type, name |-> name, score |-> score, risk |-> risk]

\* ci uses both refs, and the first uses the second.
Shared ==
    [nodes |-> ("ci" :> Node(Workflow, 1, 90, "LOW")) @@ ("v1" :> Node(Action, 2, 20, "HIGH"))
            @@ ("v2" :> Node(Action, 2, 10, "CRITICAL")),
     edges |-> <<<<"ci", "v2">>, <<"ci", "v1">>, <<"v1", "v2">>>>]

\* app uses a, and a and b use each other.
Looped ==
    [nodes |-> ("app" :> Node(Package, 1, 80, "LOW")) @@ ("a" :> Node(Package, 2, 30, "HIGH"))
            @@ ("b"   :> Node(Package, 3, 60, "LOW")),
     edges |-> <<<<"app", "a">>, <<"a", "b">>, <<"b", "a">>>>]

Twins ==
    [nodes |-> ("lib1" :> Node(Package, 1, 20, "HIGH")) @@ ("lib2" :> Node(Package, 1, 20, "HIGH")),
     edges |-> <<>>]

MCGraphs == {Shared, Looped, Twins}

MCMatches == "li" :> {"a", "lib2", "v2"}
=============================================================================
