--------------------------- MODULE DependencyGraph ---------------------------
(***************************************************************************)
(* A DependencyGraph object under any sequence of its two mutators, the    *)
(* way a caller that owns one drives it (dependency.hpp:51).  A call that  *)
(* throws changes nothing and so is no step.                               *)
(***************************************************************************)
EXTENDS GraphOps

VARIABLE graph

Init == graph = EmptyGraph

(* add_node: throws when the limit is reached, even for a node it has. *)
NodeAdded(a) ==
  /\ ~Full(graph)
  /\ graph' = AddNodes(graph, {a})

EdgeAdded(from, to) ==
  /\ AcceptsEdge(graph, from, to)
  /\ graph' = AddEdges(graph, from, {to})

Next ==
  \/ \E a \in Artifacts : NodeAdded(a)
  \/ \E from, to \in Artifacts : EdgeAdded(from, to)

Spec == Init /\ [][Next]_graph

-----------------------------------------------------------------------------
(* The graph is a graph over the artifact ids that never outgrows its node *)
(* limit (kMaxNodes, throw_if_full).                                       *)
TypeOK ==
  /\ graph \in Graphs
  /\ Cardinality(graph.nodes) <= MaxNodes

(* No sequence of accepted edges closes a cycle, however long the way      *)
(* round: add_edge's search (dependency.hpp:75) is the only guard, and     *)
(* everything that walks dependents relies on it.                          *)
GraphAcyclic == Acyclic(graph)

(* Both ends of every edge are nodes, so dependents, which walks nodes_,   *)
(* misses no edge; and the reverse lists, whose lengths topological_order  *)
(* starts from, agree with the forward ones.                               *)
GraphWellFormed == EdgesJoinNodes(graph) /\ InMirrorsOut(graph)
=============================================================================
