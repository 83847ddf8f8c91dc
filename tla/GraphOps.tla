------------------------------ MODULE GraphOps -------------------------------
(***************************************************************************)
(* The value a DependencyGraph object holds (dependency.hpp) and its       *)
(* operations, as operators on that value: which nodes exist, the targets  *)
(* of each node's dependency references (out_), and the reverse lists      *)
(* (in_).  A DependencyRef's generation, digest and kind are never read    *)
(* back when an edge is accepted, so an edge is its two endpoints.         *)
(*                                                                         *)
(* creates_cycle and transitive_dependencies are depth-first searches.     *)
(* Here they are what they compute, reachability; module GraphSearch has   *)
(* the search itself.                                                      *)
(***************************************************************************)
EXTENDS Naturals, FiniteSets

CONSTANTS
  Artifacts,   \* the artifact ids, ordered as std::set<ArtifactId> orders them
  MaxNodes     \* kMaxNodes, the node limit of a graph

ASSUME ArtifactsAssumption == Artifacts \subseteq Nat
ASSUME MaxNodesAssumption == MaxNodes \in Nat

Graphs == [nodes : SUBSET Artifacts,
           out   : [Artifacts -> SUBSET Artifacts],
           in    : [Artifacts -> SUBSET Artifacts]]

EmptyGraph == [nodes |-> {},
               out   |-> [a \in Artifacts |-> {}],
               in    |-> [a \in Artifacts |-> {}]]

Closed(g, S) == \A a \in S : g.out[a] \subseteq S

(* What a search along the edges visits from a, a itself included: the     *)
(* least set that holds a and is closed under the edges.                   *)
Reach(g, a) ==
  LET closed == {S \in SUBSET Artifacts : a \in S /\ Closed(g, S)}
  IN  {b \in Artifacts : \A S \in closed : b \in S}

TransitiveDependencies(g, a) == UNION {Reach(g, b) : b \in g.out[a]}

Dependents(g, target) == {n \in g.nodes : target \in TransitiveDependencies(g, n)}

(* A slip: the limit is overrun by one. *)
FullOffByOne(g) == Cardinality(g.nodes) > MaxNodes

Full(g) == Cardinality(g.nodes) >= MaxNodes

AddNodes(g, A) == [g EXCEPT !.nodes = @ \cup A]

CreatesCycle(g, from, to) == from \in Reach(g, to)

(* add_edge's four refusals, each of which throws before anything changes. *)
AcceptsEdge(g, from, to) ==
  /\ from # to
  /\ from \in g.nodes
  /\ to \in g.nodes
  /\ to \notin g.out[from]
  /\ ~CreatesCycle(g, from, to)

(* The edges from one node to each target; add_edge adds one at a time. *)
AddEdges(g, from, targets) ==
  [g EXCEPT !.out[from] = @ \cup targets,
            !.in = [a \in Artifacts |-> IF a \in targets THEN @[a] \cup {from} ELSE @[a]]]

-----------------------------------------------------------------------------
(* What a graph built by these operations looks like. *)

Acyclic(g) == \A a \in Artifacts : a \notin TransitiveDependencies(g, a)

EdgesJoinNodes(g) ==
  \A a \in Artifacts : g.out[a] # {} => a \in g.nodes /\ g.out[a] \subseteq g.nodes

InMirrorsOut(g) == \A a, b \in Artifacts : b \in g.out[a] <=> a \in g.in[b]
=============================================================================
