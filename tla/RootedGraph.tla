----------------------------- MODULE RootedGraph -----------------------------
(***************************************************************************)
(* What a scan promises of the graph it hands back, whatever it met on the *)
(* way: a graph that starts as one root and only ever grows, by an edge    *)
(* from a node it already holds, one level below a level at which that     *)
(* node was already found.  Nothing is removed, no edge dangles, and every *)
(* node hangs from the root by a chain of edges of descending depth.       *)
(*                                                                         *)
(* Crawler implements this specification (CrawlerProofs proves it).        *)
(***************************************************************************)
EXTENDS Naturals

CONSTANTS Ids,      \* the node identifiers
          RootId    \* the identifier of the scanned project

VARIABLES nodes,    \* graph.Nodes, as the set of the identifiers it holds
          edges     \* graph.Edges, as the set of [from, to, depth] records

graph == <<nodes, edges>>

Edge == [from : Ids, to : Ids, depth : Nat \ {0}]

GraphTypeOK ==
    /\ nodes \subseteq Ids
    /\ edges \subseteq Edge

\* Some chain found node id at depth d: the root is there at depth 0.
FoundAt(id, d) ==
    \/ id = RootId /\ d = 0
    \/ \E e \in edges : e.to = id /\ e.depth = d

GraphInit ==
    /\ nodes = {RootId}
    /\ edges = {}

\* A dependency is attached below a node that is in the graph.
Attach(from, to, d) ==
    /\ FoundAt(from, d)
    /\ nodes' = nodes \union {to}
    /\ edges' = edges \union {[from |-> from, to |-> to, depth |-> d + 1]}

\* The depths reached so far.
Depths == {0} \union {e.depth : e \in edges}

GraphNext == \E from \in nodes, to \in Ids, d \in Depths : Attach(from, to, d)

GraphSpec == GraphInit /\ [][GraphNext]_graph

-----------------------------------------------------------------------------
(* The two facts that readers of the graph rely on: the score propagation, *)
(* the blast radius and the tree views walk edges and look both ends up.   *)

\* No edge dangles: both ends of every edge are nodes of the graph.
Closed == \A e \in edges : e.from \in nodes /\ e.to \in nodes

\* Every node but the root is the end of an edge, and every edge starts at
\* the root or at a node found exactly one level higher, so that going up
\* from any node ends at the root after as many edges as its depth says.
Anchored ==
    /\ \A id \in nodes : id = RootId \/ \E e \in edges : e.to = id
    /\ \A e \in edges : FoundAt(e.from, e.depth - 1)
=============================================================================
