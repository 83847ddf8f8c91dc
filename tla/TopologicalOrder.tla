-------------------------- MODULE TopologicalOrder --------------------------
(***************************************************************************)
(* topological_order (dependency.hpp:150-172) over every graph a           *)
(* DependencyGraph object can hold: Kahn's loop, which counts the reverse  *)
(* lists down while it walks the forward ones.                             *)
(***************************************************************************)
EXTENDS GraphSearch, Sequences, FiniteSetsExt

(* ready is kept sorted, so its front is its least element. *)
Loop0(g) ==
  LET indeg == [a \in Artifacts |-> Cardinality(g.in[a])]
  IN  [order |-> << >>, indeg |-> indeg, ready |-> {a \in g.nodes : indeg[a] = 0}]

(* A slip: an artifact is ready as soon as one dependent is placed. *)
FreedByOne(g, indeg, cur) == g.out[cur]

Freed(g, indeg, cur) == {a \in g.out[cur] : indeg[a] = 0}

Placed(g, loop) ==
  LET cur   == Min(loop.ready)
      indeg == [a \in Artifacts |-> IF a \in g.out[cur] THEN loop.indeg[a] - 1 ELSE loop.indeg[a]]
  IN  [order |-> Append(loop.order, cur),
       indeg |-> indeg,
       ready |-> (loop.ready \ {cur}) \cup Freed(g, indeg, cur)]

(* What the loop has built when nothing is ready any more; the bound is    *)
(* reached only if an artifact is placed twice.                            *)
Order(g) ==
  LET after[n \in 0..(2 * MaxNodes)] ==
        IF n = 0 THEN Loop0(g)
        ELSE IF after[n - 1].ready = {} THEN after[n - 1] ELSE Placed(g, after[n - 1])
  IN  after[2 * MaxNodes].order

(* On every graph that the object can hold the order lists each artifact   *)
(* once and each before what it depends on; hence topological_order never  *)
(* throws, which takes the reverse lists to mirror the forward ones and    *)
(* the graph to be acyclic.  Every graph is looked at as it is when a call *)
(* has just changed it.                                                    *)
OrderIsTopological ==
  call = "none" =>
  LET order == Order(graph)
  IN  /\ Len(order) = Cardinality(graph.nodes)
      /\ {order[i] : i \in 1..Len(order)} = graph.nodes
      /\ \A i, j \in 1..Len(order) : order[i] \in graph.out[order[j]] => j < i
=============================================================================
