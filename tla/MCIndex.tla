------------------------------- MODULE MCIndex -------------------------------
(* Two manifests, two packages, and two contents: one package, or another  *)
(* one whose lockfile says that it depends on the first.                   *)
EXTENDS Index

CONSTANTS A, B, P1, P2

MCPaths     == {A, B}
MCOrder     == <<A, B>>
MCPkgs      == {P1, P2}
MCProjectOf == [p \in MCPkgs |-> p]
MCContents  == {"one", "other"}
MCPkgsOf    == [c \in MCContents |-> IF c = "one" THEN {P1} ELSE {P2}]
MCEdgesOf   == [c \in MCContents |-> IF c = "one" THEN {} ELSE {<<P2, P1>>}]

=============================================================================
