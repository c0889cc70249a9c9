------------------------------- MODULE MCEnrich -------------------------------
(***************************************************************************)
(* Three packages of one repository for a pool of two, one whose           *)
(* project_id does not split, and one whose ecosystem has no client.       *)
(***************************************************************************)
EXTENDS Enrich

CONSTANTS a, b, c, u, k, r, none

MCPkgs      == {a, b, c, u, k}
MCOrder     == <<u, k, a, b, c>>
MCNamed     == {a, b, c, k}
MCKnown     == {a, b, c}
MCVersioned == {a}
MCAdvised   == {a}
MCRepoOf    == [p \in MCPkgs |-> IF p \in MCKnown THEN r ELSE none]
=============================================================================
