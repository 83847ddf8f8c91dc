-------------------------- MODULE GraphSearch_proofs --------------------------
(***************************************************************************)
(* Proofs about the dependency graph, for every set of ids, every node     *)
(* limit and every order of the edges: first one DependencyGraph object    *)
(* under its mutators, then add_edge with its search taken apart, which    *)
(* implements it.  The invariant of the latter is the usual one of a graph *)
(* search: what has been seen was reachable, and an edge that leaves what  *)
(* has been expanded ends in something seen.  Last, that topological_order *)
(* places every node of such a graph before what it depends on.            *)
(***************************************************************************)
EXTENDS TopologicalOrder, GraphOps_proofs, WellFoundedInduction

-----------------------------------------------------------------------------
(* The graph and its mutators. *)

(* The node set has to be finite for its cardinality to mean anything; it  *)
(* is, because it grows by one node at a time.                             *)
GraphInv == TypeOK /\ IsFiniteSet(graph.nodes) /\ GraphAcyclic /\ GraphWellFormed

LEMMA InitGraphInv == Init => GraphInv
<1> SUFFICES ASSUME Init PROVE GraphInv
  OBVIOUS
<1> USE DEF Init, EmptyGraph
<1>1. TypeOK /\ IsFiniteSet(graph.nodes)
  BY FS_EmptySet, MaxNodesAssumption DEF TypeOK, Graphs
<1>2. GraphAcyclic
  BY DEF GraphAcyclic, Acyclic, TransitiveDependencies
<1>3. GraphWellFormed
  BY DEF GraphWellFormed, EdgesJoinNodes, InMirrorsOut
<1>4. QED
  BY <1>1, <1>2, <1>3 DEF GraphInv

(* add_node: one node more, no edge changed. *)
LEMMA NodeAddedGraphInv ==
  ASSUME GraphInv, NEW a \in Artifacts, NodeAdded(a)
  PROVE  GraphInv'
<1> USE DEF GraphInv
<1>1. /\ graph'.nodes = graph.nodes \cup {a}
      /\ graph'.out = graph.out
      /\ graph'.in = graph.in
      /\ graph' \in Graphs
  BY DEF NodeAdded, AddNodes, TypeOK, Graphs
<1>2. TypeOK' /\ IsFiniteSet(graph.nodes)'
  <2>1. Cardinality(graph.nodes) < MaxNodes
    BY FS_CardinalityType, MaxNodesAssumption DEF NodeAdded, Full
  <2>2. /\ IsFiniteSet(graph.nodes \cup {a})
        /\ Cardinality(graph.nodes \cup {a}) <= MaxNodes
    <3>1. /\ IsFiniteSet(graph.nodes \cup {a})
          /\ Cardinality(graph.nodes \cup {a})
                = IF a \in graph.nodes THEN Cardinality(graph.nodes)
                                       ELSE Cardinality(graph.nodes) + 1
      BY FS_AddElement
    <3>2. Cardinality(graph.nodes) \in Nat
      BY FS_CardinalityType
    <3>3. QED
      BY <2>1, <3>1, <3>2, MaxNodesAssumption
  <2>3. QED
    BY <1>1, <2>2 DEF TypeOK
<1>3. GraphAcyclic'
  BY <1>1 DEF GraphAcyclic, Acyclic, TransitiveDependencies, Reach, Closed
<1>4. GraphWellFormed'
  BY <1>1 DEF GraphWellFormed, EdgesJoinNodes, InMirrorsOut
<1>5. QED
  BY <1>2, <1>3, <1>4

(* add_edge: the four refusals are what keeps the graph well formed. *)
LEMMA EdgeAddedGraphInv ==
  ASSUME GraphInv, NEW from \in Artifacts, NEW to \in Artifacts, EdgeAdded(from, to)
  PROVE  GraphInv'
<1> USE DEF GraphInv
<1>1. /\ graph'.nodes = graph.nodes
      /\ graph'.out = [graph.out EXCEPT ![from] = @ \cup {to}]
      /\ graph'.in = [a \in Artifacts |-> IF a \in {to} THEN graph.in[a] \cup {from}
                                                       ELSE graph.in[a]]
      /\ graph' \in Graphs
  BY DEF EdgeAdded, AddEdges, TypeOK, Graphs
<1>2. TypeOK' /\ IsFiniteSet(graph.nodes)'
  BY <1>1 DEF TypeOK
<1>3. GraphAcyclic'
  BY AddEdgesAcyclic DEF EdgeAdded, AcceptsEdge, GraphAcyclic, TypeOK
<1>4. GraphWellFormed'
  <2>1. EdgesJoinNodes(graph')
    <3>1. from \in graph.nodes /\ to \in graph.nodes
      BY DEF EdgeAdded, AcceptsEdge
    <3>2. \A a \in Artifacts : graph'.out[a] = IF a = from THEN graph.out[a] \cup {to}
                                                         ELSE graph.out[a]
      BY <1>1 DEF TypeOK, Graphs
    <3>3. QED
      BY <1>1, <3>1, <3>2 DEF GraphWellFormed, EdgesJoinNodes
  <2>2. InMirrorsOut(graph')
    BY <1>1 DEF GraphWellFormed, InMirrorsOut, TypeOK, Graphs
  <2>3. QED
    BY <2>1, <2>2 DEF GraphWellFormed
<1>5. QED
  BY <1>2, <1>3, <1>4

LEMMA GraphInvariant == Spec => []GraphInv
<1>1. GraphInv /\ [Next]_graph => GraphInv'
  <2> SUFFICES ASSUME GraphInv, [Next]_graph PROVE GraphInv'
    OBVIOUS
  <2>1. CASE UNCHANGED graph
    BY <2>1 DEF GraphInv, TypeOK, GraphAcyclic, GraphWellFormed
  <2>2. ASSUME NEW a \in Artifacts, NodeAdded(a) PROVE GraphInv'
    BY <2>2, NodeAddedGraphInv
  <2>3. ASSUME NEW from \in Artifacts, NEW to \in Artifacts, EdgeAdded(from, to)
        PROVE  GraphInv'
    BY <2>3, EdgeAddedGraphInv
  <2>4. QED
    BY <2>1, <2>2, <2>3 DEF Next
<1>2. QED
  BY InitGraphInv, <1>1, PTL DEF Spec

(* The node limit is never overrun (throw_if_full). *)
THEOREM GraphTypeCorrect == Spec => []TypeOK
BY GraphInvariant, PTL DEF GraphInv

(* No sequence of add_node and add_edge calls builds a cyclic graph. *)
THEOREM GraphStaysAcyclic == Spec => []GraphAcyclic
BY GraphInvariant, PTL DEF GraphInv

(* Every edge joins two nodes and is filed in both directions. *)
THEOREM GraphStaysWellFormed == Spec => []GraphWellFormed
BY GraphInvariant, PTL DEF GraphInv

-----------------------------------------------------------------------------
(* The search. *)

Seen == visited \cup stack

SearchTypeOK ==
  /\ graph \in Graphs
  /\ call \in Calls
  /\ goal \in Artifacts \cup {None}
  /\ start \in SUBSET Artifacts /\ stack \in SUBSET Artifacts /\ visited \in SUBSET Artifacts

(* What add_edge checked before its search still holds. *)
EdgeChecked ==
  /\ goal \in graph.nodes /\ goal \in Artifacts
  /\ \E to \in Artifacts : start = {to} /\ to # goal /\ to \in graph.nodes /\ to \notin graph.out[goal]

SearchInv ==
  /\ SearchTypeOK
  /\ call # "none" => Seen \subseteq Reached
  /\ goal \notin visited
  /\ call = "refused" => goal \in Reached
  /\ call \in {"add_edge", "transitive_dependencies", "answered"} =>
       start \subseteq Seen /\ \A v \in visited : graph.out[v] \subseteq Seen
  /\ call = "answered" => stack = {}
  /\ call = "add_edge" => EdgeChecked

(* What the start reaches holds it and is closed under the edges. *)
LEMMA ReachedClosed ==
  ASSUME SearchTypeOK
  PROVE  start \subseteq Reached /\ Reached \subseteq Artifacts /\ Closed(graph, Reached)
BY ReachClosed DEF SearchTypeOK, Reached, Closed

(* When the stack is empty what was expanded is closed and holds the       *)
(* start, so it is all there is to reach.                                  *)
LEMMA EmptyStackReached ==
  ASSUME SearchInv, stack = {}, call \in {"add_edge", "transitive_dependencies", "answered"}
  PROVE  visited = Reached
<1>1. Seen = visited /\ visited \in SUBSET Artifacts
  BY DEF Seen, SearchInv, SearchTypeOK
<1>2. Closed(graph, visited) /\ start \subseteq visited
  BY <1>1 DEF SearchInv, Closed
<1>3. Reached \subseteq visited
  BY <1>1, <1>2, ReachInClosed DEF Reached
<1>4. QED
  BY <1>1, <1>3 DEF SearchInv

LEMMA InitSearchInv == SearchInit => SearchInv
<1> SUFFICES ASSUME SearchInit PROVE SearchInv
  OBVIOUS
<1>1. SearchTypeOK
  BY DEF SearchInit, Init, SearchTypeOK, Graphs, EmptyGraph, Calls
<1>2. QED
  BY <1>1 DEF SearchInit, SearchInv

(* A call begins with everything it starts from on the stack. *)
LEMMA BeginsSearchInv ==
  ASSUME SearchInv, graph' \in Graphs,
         NEW c \in {"none", "add_edge", "transitive_dependencies"},
         NEW g \in Artifacts \cup {None}, NEW S \in SUBSET Artifacts,
         Begins(c, g, S), c = "add_edge" => EdgeChecked'
  PROVE  SearchInv'
<1>1. SearchTypeOK'
  BY DEF SearchInv, SearchTypeOK, Begins, Calls
<1>2. Seen' = S /\ start' = S /\ visited' = {} /\ call' = c
  BY DEF Begins, Seen
<1>3. start' \subseteq Reached'
  BY <1>2, ReachClosed DEF Reached
<1>4. QED
  BY <1>1, <1>2, <1>3 DEF SearchInv

LEMMA RefuseSearchInv ==
  ASSUME SearchInv, NEW cur \in Artifacts, Refuse(cur)
  PROVE  SearchInv'
<1>1. SearchTypeOK'
  BY DEF SearchInv, SearchTypeOK, Refuse, Calls
<1>2. Reached' = Reached /\ Seen' = Seen
  BY DEF Refuse, Reached, Seen
<1>3. goal \in Reached
  BY DEF SearchInv, Refuse, Top, Seen
<1>4. QED
  BY <1>1, <1>2, <1>3 DEF SearchInv, Refuse, Top

LEMMA SkipSearchInv ==
  ASSUME SearchInv, NEW cur \in Artifacts, Skip(cur)
  PROVE  SearchInv'
<1>1. SearchTypeOK'
  BY DEF SearchInv, SearchTypeOK, Skip, Rest
<1>2. Reached' = Reached /\ (EdgeChecked' <=> EdgeChecked)
  BY DEF Skip, Reached, EdgeChecked
<1>3. Seen' = Seen
  BY DEF Skip, Rest, Seen
<1>4. QED
  BY <1>1, <1>2, <1>3 DEF SearchInv, Skip, Rest, Top

LEMMA VisitSearchInv ==
  ASSUME SearchInv, NEW cur \in Artifacts, Visit(cur)
  PROVE  SearchInv'
<1>1. SearchTypeOK'
  BY DEF SearchInv, SearchTypeOK, Visit, Rest, Pushed, Graphs
<1>2. Reached' = Reached /\ (EdgeChecked' <=> EdgeChecked)
  BY DEF Visit, Reached, EdgeChecked
<1>3. Seen' = Seen \cup graph.out[cur]
  BY DEF Visit, Top, Rest, Pushed, Seen
<1>4. Seen \subseteq Reached /\ cur \in Seen
  BY DEF SearchInv, Seen, Visit, Top
<1>5. graph.out[cur] \subseteq Reached
  BY <1>4, ReachedClosed DEF SearchInv, Closed
<1>6. UNCHANGED <<graph, call, goal, start>> /\ call \in {"add_edge", "transitive_dependencies"}
  BY DEF Visit, Top
<1>7. visited' = visited \cup {cur} /\ cur # goal
  BY DEF Visit
<1>8. start' \subseteq Seen' /\ \A v \in visited' : graph'.out[v] \subseteq Seen'
  BY <1>3, <1>6, <1>7 DEF SearchInv
<1>9. QED
  BY <1>1, <1>2, <1>3, <1>4, <1>5, <1>6, <1>7, <1>8 DEF SearchInv

(* Nothing that is left is said of an idle graph's last search. *)
LEMMA InsertSearchInv ==
  ASSUME SearchInv, Insert
  PROVE  SearchInv'
<1>1. goal \in Artifacts /\ start \in SUBSET Artifacts
  BY DEF SearchInv, SearchTypeOK, EdgeChecked, Insert
<1>2. graph' \in Graphs
  BY <1>1 DEF SearchInv, SearchTypeOK, Insert, AddEdges, Graphs
<1>3. QED
  BY <1>2 DEF SearchInv, SearchTypeOK, Insert, Calls

LEMMA AnswerSearchInv ==
  ASSUME SearchInv, Answer
  PROVE  SearchInv'
<1>1. SearchTypeOK'
  BY DEF SearchInv, SearchTypeOK, Answer, Calls
<1>2. Reached' = Reached /\ Seen' = Seen
  BY DEF Answer, Reached, Seen
<1>3. QED
  BY <1>1, <1>2 DEF SearchInv, Answer

LEMMA NextSearchInv == SearchInv /\ [SearchNext]_searchVars => SearchInv'
<1> SUFFICES ASSUME SearchInv, [SearchNext]_searchVars PROVE SearchInv'
  OBVIOUS
<1>0. graph \in Graphs
  BY DEF SearchInv, SearchTypeOK
<1>1. CASE UNCHANGED searchVars
  BY <1>1 DEF searchVars, SearchInv, SearchTypeOK, Seen, Reached, EdgeChecked
<1>2. ASSUME NEW a \in Artifacts, AddNode(a) PROVE SearchInv'
  <2>1. graph' \in Graphs
    BY <1>0, <1>2 DEF AddNode, NodeAdded, AddNodes, Graphs
  <2>2. QED
    BY <2>1, <1>2, BeginsSearchInv DEF AddNode
<1>3. ASSUME NEW a \in Artifacts, FindAllDependencies(a) PROVE SearchInv'
  <2>1. graph' \in Graphs /\ graph.out[a] \in SUBSET Artifacts
    BY <1>0, <1>3 DEF FindAllDependencies, Graphs
  <2>2. QED
    BY <2>1, <1>3, BeginsSearchInv DEF FindAllDependencies
<1>4. ASSUME NEW from \in Artifacts, NEW to \in Artifacts, AddEdge(from, to) PROVE SearchInv'
  <2>1. graph' \in Graphs
    BY <1>0, <1>4 DEF AddEdge
  <2>2. EdgeChecked'
    BY <1>4 DEF AddEdge, Begins, EdgeChecked
  <2>3. QED
    BY <2>1, <2>2, <1>4, BeginsSearchInv DEF AddEdge
<1>5. CASE Proceed
  BY <1>5, RefuseSearchInv, SkipSearchInv, VisitSearchInv, InsertSearchInv, AnswerSearchInv
     DEF Proceed
<1>6. QED
  BY <1>1, <1>2, <1>3, <1>4, <1>5 DEF SearchNext

LEMMA SearchInvariant == SearchSpec => []SearchInv
BY InitSearchInv, NextSearchInv, PTL DEF SearchSpec

(* creates_cycle and transitive_dependencies return what GraphOps says     *)
(* they do.                                                                *)
THEOREM SearchComputesReachability == SearchSpec => []SearchExact
<1>1. SearchInv => SearchExact
  <2> SUFFICES ASSUME SearchInv PROVE SearchExact
    OBVIOUS
  <2>1. call = "refused" => goal \in Reached
    BY DEF SearchInv
  <2>2. call = "add_edge" /\ stack = {} => goal \notin Reached
    BY EmptyStackReached DEF SearchInv
  <2>3. call = "answered" => visited = Reached
    BY EmptyStackReached DEF SearchInv
  <2>4. QED
    BY <2>1, <2>2, <2>3 DEF SearchExact
<1>2. QED
  BY <1>1, SearchInvariant, PTL

(* The one step that needs the search: an edge inserted after it is an     *)
(* edge DependencyGraph accepts.                                           *)
LEMMA InsertIsEdgeAdded ==
  ASSUME SearchInv, Insert
  PROVE  \E from, to \in Artifacts : EdgeAdded(from, to)
<1>1. PICK to \in Artifacts : start = {to} /\ to # goal /\ to \in graph.nodes /\ to \notin graph.out[goal]
  BY DEF Insert, SearchInv, EdgeChecked
<1>2. goal \in Artifacts /\ goal \in graph.nodes
  BY DEF Insert, SearchInv, EdgeChecked
<1>3. goal \notin Reached
  BY EmptyStackReached DEF SearchInv, Insert
<1>4. ~CreatesCycle(graph, goal, to)
  BY <1>1, <1>3 DEF Reached, CreatesCycle
<1>5. EdgeAdded(goal, to)
  BY <1>1, <1>2, <1>4 DEF EdgeAdded, AcceptsEdge, Insert
<1>6. QED
  BY <1>1, <1>2, <1>5

(* The graph with its search implements the graph without. *)
THEOREM SearchImplementsGraph == SearchSpec => ImplementsGraph
<1>1. SearchInit => Init
  BY DEF SearchInit
<1>2. SearchInv /\ [SearchNext]_searchVars => [graph' # graph => Next]_graph
  <2> SUFFICES ASSUME SearchInv, SearchNext, graph' # graph PROVE Next
    BY DEF searchVars
  <2>1. ASSUME NEW a \in Artifacts, AddNode(a) PROVE Next
    BY <2>1 DEF AddNode, Next
  <2>2. CASE Insert
    BY <2>2, InsertIsEdgeAdded DEF Next
  <2>3. QED
    BY <2>1, <2>2
       DEF SearchNext, FindAllDependencies, AddEdge, Proceed, Refuse, Skip, Visit, Answer
<1>3. QED
  BY <1>1, <1>2, SearchInvariant, PTL DEF SearchSpec, ImplementsGraph

(* So the graph stays acyclic when the search that keeps it so is the one  *)
(* the code runs.                                                          *)
COROLLARY SearchedGraphAcyclic == SearchSpec => []GraphAcyclic
<1>1. [graph' # graph => Next]_graph => [Next]_graph
  OBVIOUS
<1>2. QED
  BY <1>1, SearchImplementsGraph, GraphStaysAcyclic, PTL DEF ImplementsGraph, Spec

-----------------------------------------------------------------------------
(* The order. *)

LEMMA SearchGraphInvariant == SearchSpec => []GraphInv
<1>1. SearchInit => GraphInv
  BY InitGraphInv DEF SearchInit
<1>2. SearchInv /\ GraphInv /\ [SearchNext]_searchVars => GraphInv'
  <2> SUFFICES ASSUME SearchInv, GraphInv, [SearchNext]_searchVars PROVE GraphInv'
    OBVIOUS
  <2>1. CASE UNCHANGED graph
    BY <2>1 DEF GraphInv, TypeOK, GraphAcyclic, GraphWellFormed
  <2>2. ASSUME NEW a \in Artifacts, AddNode(a) PROVE GraphInv'
    BY <2>2, NodeAddedGraphInv DEF AddNode
  <2>3. CASE Insert
    BY <2>3, InsertIsEdgeAdded, EdgeAddedGraphInv
  <2>4. QED
    BY <2>1, <2>2, <2>3
       DEF SearchNext, searchVars, FindAllDependencies, AddEdge, Proceed, Refuse, Skip, Visit, Answer
<1>3. QED
  BY <1>1, <1>2, SearchInvariant, PTL DEF SearchSpec

(* A set of numbers that is not empty has a least one. *)
LEMMA LeastNumber ==
  ASSUME NEW T \in SUBSET Nat, T # {}
  PROVE  \E m \in T : \A x \in T : m <= x
<1> DEFINE below == {p \in Nat \X Nat : p[1] < p[2]}
<1>1. IsWellFoundedOn(below, Nat)
  BY NatLessThanWellFounded DEF OpToRel
<1> HIDE DEF below
<1>2. PICK m \in T : \A x \in T : ~(<<x, m>> \in below)
  BY <1>1, WFMin
<1>3. ASSUME NEW x \in T PROVE m <= x
  <2>1. m \in Nat /\ x \in Nat /\ ~(x < m)
    BY <1>2, <1>3 DEF below
  <2>2. QED
    BY <2>1
<1>4. QED
  BY <1>3

LEMMA MinIsMember ==
  ASSUME NEW T \in SUBSET Nat, T # {}
  PROVE  Min(T) \in T
BY LeastNumber DEF Min

(* One round of the loop, and the rounds one after the other. *)
Round(g, loop) == IF loop.ready = {} THEN loop ELSE Placed(g, loop)

AreRounds(f, g, k) == f = [n \in 0..k |-> IF n = 0 THEN Loop0(g) ELSE Round(g, f[n - 1])]

LEMMA OrderUnfolded ==
  ASSUME NEW g
  PROVE  Order(g) = (CHOOSE f : AreRounds(f, g, 2 * MaxNodes))[2 * MaxNodes].order
BY Zenon DEF Order, AreRounds, Round

LEMMA RoundsUnfolded ==
  ASSUME NEW g, NEW k \in Nat, NEW f, AreRounds(f, g, k), NEW n \in 0..k
  PROVE  f[n] = IF n = 0 THEN Loop0(g) ELSE Round(g, f[n - 1])
BY DEF AreRounds

LEMMA RoundsExist ==
  ASSUME NEW g, NEW k \in Nat
  PROVE  \E f : AreRounds(f, g, k)
<1> DEFINE F == {n \in Nat : ~ \E f : AreRounds(f, g, n)}
<1>1. SUFFICES ASSUME F # {} PROVE FALSE
  BY <1>1
<1>2. PICK n \in F : \A m \in F : n <= m
  <2>1. F \in SUBSET Nat
    OBVIOUS
  <2> HIDE DEF F
  <2>2. QED
    BY <1>1, <2>1, LeastNumber
<1>3. n \in Nat /\ ~ \E f : AreRounds(f, g, n)
  BY <1>2
<1>4. CASE n = 0
  <2> DEFINE f == [i \in 0..0 |-> Loop0(g)]
  <2>1. f = [i \in 0..0 |-> IF i = 0 THEN Loop0(g) ELSE Round(g, f[i - 1])]
    <3>1. \A i \in 0..0 : i = 0
      OBVIOUS
    <3>2. QED
      BY <3>1
  <2>2. AreRounds(f, g, 0)
    BY <2>1 DEF AreRounds
  <2>3. QED
    BY <1>3, <1>4, <2>2
<1>5. CASE n # 0
  <2>1. PICK m \in Nat : n = m + 1
    <3>1. n - 1 \in Nat /\ n = (n - 1) + 1
      BY <1>3, <1>5
    <3>2. QED
      BY <3>1
  <2>2. m \notin F
    BY <1>2, <2>1
  <2>3. PICK f : AreRounds(f, g, m)
    BY <2>2
  <2> DEFINE h == [i \in 0..(m + 1) |-> IF i = m + 1 THEN Round(g, f[m]) ELSE f[i]]
  <2>4. ASSUME NEW i \in 0..(m + 1)
        PROVE  h[i] = IF i = 0 THEN Loop0(g) ELSE Round(g, h[i - 1])
    <3>1. CASE i = m + 1
      <4>1. i # 0 /\ i - 1 = m /\ m \in 0..(m + 1) /\ m # m + 1
        BY <2>1, <3>1
      <4>2. h[m] = f[m] /\ h[i] = Round(g, f[m])
        BY <3>1, <4>1
      <4>3. QED
        BY <4>1, <4>2
    <3>2. CASE i # m + 1
      <4>1. i \in 0..m
        BY <2>1, <3>2
      <4>2. h[i] = f[i]
        BY <3>2
      <4>3. f[i] = IF i = 0 THEN Loop0(g) ELSE Round(g, f[i - 1])
        BY <2>3, <4>1, RoundsUnfolded
      <4>4. i # 0 => h[i - 1] = f[i - 1]
        <5>1. i # 0 => i - 1 \in 0..(m + 1) /\ i - 1 # m + 1
          BY <2>1, <4>1
        <5>2. QED
          BY <5>1
      <4> HIDE DEF h
      <4>5. QED
        BY <4>2, <4>3, <4>4
    <3>3. QED
      BY <3>1, <3>2
  <2>5. h = [i \in 0..(m + 1) |-> h[i]]
    OBVIOUS
  <2> HIDE DEF h
  <2>6. AreRounds(h, g, m + 1)
    BY <2>4, <2>5 DEF AreRounds
  <2>7. QED
    BY <1>3, <2>1, <2>6
<1>6. QED
  BY <1>4, <1>5

(* What a graph needs for an order to exist. *)
Orderable(g) ==
  /\ g \in Graphs /\ IsFiniteSet(g.nodes)
  /\ Acyclic(g) /\ EdgesJoinNodes(g) /\ InMirrorsOut(g)

PlacedSet(loop) == {loop.order[i] : i \in 1..Len(loop.order)}

(* What is placed has all its dependents placed before it; the counters    *)
(* count the dependents that are not, and who has none of them is ready.   *)
LoopInv(g, loop) ==
  /\ loop.order \in Seq(g.nodes)
  /\ Len(loop.order) = Cardinality(PlacedSet(loop))
  /\ \A i, j \in 1..Len(loop.order) : loop.order[i] \in g.out[loop.order[j]] => j < i
  /\ \A a \in PlacedSet(loop) : g.in[a] \subseteq PlacedSet(loop)
  /\ \A a \in Artifacts : loop.indeg[a] = Cardinality(g.in[a] \ PlacedSet(loop))
  /\ loop.ready = {a \in g.nodes \ PlacedSet(loop) : g.in[a] \subseteq PlacedSet(loop)}

LEMMA DependentsAreNodes ==
  ASSUME NEW g, Orderable(g), NEW a \in Artifacts
  PROVE  /\ g.in[a] \subseteq g.nodes
         /\ IsFiniteSet(g.in[a])
         /\ \A b \in Artifacts : b \in g.in[a] <=> a \in g.out[b]
<1>1. \A b \in Artifacts : b \in g.in[a] <=> a \in g.out[b]
  BY DEF Orderable, InMirrorsOut
<1>2. g.in[a] \subseteq Artifacts
  BY DEF Orderable, Graphs
<1>3. g.in[a] \subseteq g.nodes
  BY <1>1, <1>2 DEF Orderable, EdgesJoinNodes
<1>4. QED
  BY <1>1, <1>3, FS_Subset DEF Orderable

LEMMA NothingLeft ==
  ASSUME NEW g, Orderable(g), NEW a \in Artifacts, NEW P
  PROVE  /\ IsFiniteSet(g.in[a] \ P)
         /\ Cardinality(g.in[a] \ P) \in Nat
         /\ Cardinality(g.in[a] \ P) = 0 <=> g.in[a] \subseteq P
<1>1. IsFiniteSet(g.in[a] \ P)
  BY DependentsAreNodes, FS_Subset
<1>2. QED
  BY <1>1, FS_EmptySet, FS_CardinalityType

LEMMA FirstLoopInv ==
  ASSUME NEW g, Orderable(g)
  PROVE  LoopInv(g, Loop0(g))
<1> DEFINE loop == Loop0(g)
<1>1. /\ loop.order = << >>
      /\ \A a \in Artifacts : loop.indeg[a] = Cardinality(g.in[a])
      /\ loop.ready = {a \in g.nodes : loop.indeg[a] = 0}
      /\ g.nodes \subseteq Artifacts
  BY DEF Loop0, Orderable, Graphs
<1> HIDE DEF loop
<1>2. PlacedSet(loop) = {}
  BY <1>1 DEF PlacedSet
<1>3. \A a \in Artifacts : loop.indeg[a] = Cardinality(g.in[a] \ {})
  BY <1>1
<1>4. loop.ready = {a \in g.nodes \ {} : g.in[a] \subseteq {}}
  <2>1. ASSUME NEW a \in g.nodes PROVE loop.indeg[a] = 0 <=> g.in[a] \subseteq {}
    <3>1. a \in Artifacts
      BY <1>1
    <3>2. Cardinality(g.in[a]) = 0 <=> g.in[a] = {}
      BY <3>1, DependentsAreNodes, FS_EmptySet
    <3>3. QED
      BY <1>1, <3>1, <3>2
  <2>2. QED
    BY <1>1, <2>1
<1>5. LoopInv(g, loop)
  BY <1>1, <1>2, <1>3, <1>4, FS_EmptySet DEF LoopInv
<1>6. QED
  BY <1>5 DEF loop

LEMMA AppendedOrder ==
  ASSUME NEW S, NEW s \in Seq(S), NEW x \in S, NEW t, t = Append(s, x)
  PROVE  /\ Len(s) \in Nat
         /\ t \in Seq(S)
         /\ Len(t) = Len(s) + 1
         /\ \A i \in 1..Len(s) : t[i] = s[i]
         /\ t[Len(s) + 1] = x
OBVIOUS

LEMMA PlacedLoopInv ==
  ASSUME NEW g, Orderable(g), NEW loop, LoopInv(g, loop), loop.ready # {}
  PROVE  /\ LoopInv(g, Placed(g, loop))
         /\ Len(Placed(g, loop).order) = Len(loop.order) + 1
<1> DEFINE cur == Min(loop.ready)
           P == PlacedSet(loop)
           next == Placed(g, loop)
<1>1. /\ cur \in g.nodes /\ cur \in Artifacts /\ cur \notin P /\ g.in[cur] \subseteq P
      /\ cur \in loop.ready
  <2>1. loop.ready \in SUBSET Nat
    BY ArtifactsAssumption DEF LoopInv, Orderable, Graphs
  <2>2. cur \in loop.ready
    BY <2>1, MinIsMember
  <2>3. QED
    BY <2>2 DEF LoopInv, Orderable, Graphs
<1>2. /\ next.order = Append(loop.order, cur)
      /\ \A a \in Artifacts : next.indeg[a] = IF a \in g.out[cur] THEN loop.indeg[a] - 1 ELSE loop.indeg[a]
      /\ next.ready = (loop.ready \ {cur}) \cup {a \in g.out[cur] : next.indeg[a] = 0}
  BY DEF Placed, Freed
<1> HIDE DEF cur, next
<1>3. /\ loop.order \in Seq(g.nodes) /\ Len(loop.order) \in Nat
      /\ next.order \in Seq(g.nodes)
      /\ Len(next.order) = Len(loop.order) + 1
      /\ \A i \in 1..Len(loop.order) : next.order[i] = loop.order[i]
      /\ next.order[Len(loop.order) + 1] = cur
  <2>1. loop.order \in Seq(g.nodes)
    BY DEF LoopInv
  <2> HIDE DEF P
  <2>2. next.order = Append(loop.order, cur) /\ cur \in g.nodes
    BY <1>1, <1>2
  <2>3. PICK S, s, x, t : S = g.nodes /\ s = loop.order /\ x = cur /\ t = next.order
    OBVIOUS
  <2>4. s \in Seq(S) /\ x \in S /\ t = Append(s, x)
    BY <2>1, <2>2, <2>3
  <2>5. /\ Len(s) \in Nat /\ t \in Seq(S)
        /\ Len(t) = Len(s) + 1
        /\ \A i \in 1..Len(s) : t[i] = s[i]
        /\ t[Len(s) + 1] = x
    BY <2>4, AppendedOrder
  <2>6. QED
    BY Zenon, <2>1, <2>3, <2>5
<1>4. PlacedSet(next) = P \cup {cur}
  <2>1. \A i \in 1..Len(next.order) : i \in 1..Len(loop.order) \/ i = Len(loop.order) + 1
    BY <1>3
  <2>2. \A i \in 1..Len(loop.order) : i \in 1..Len(next.order)
    BY <1>3
  <2>3. Len(loop.order) + 1 \in 1..Len(next.order)
    BY <1>3
  <2>4. ASSUME NEW x \in PlacedSet(next) PROVE x \in P \cup {cur}
    BY <1>3, <2>1 DEF PlacedSet
  <2>5. ASSUME NEW x \in P PROVE x \in PlacedSet(next)
    <3>1. PICK i \in 1..Len(loop.order) : x = loop.order[i]
      BY DEF PlacedSet
    <3>2. QED
      BY <1>3, <2>2, <3>1 DEF PlacedSet
  <2>6. cur \in PlacedSet(next)
    BY <1>3, <2>3 DEF PlacedSet
  <2>7. QED
    BY <2>4, <2>5, <2>6
<1>5. /\ P \subseteq g.nodes /\ IsFiniteSet(P) /\ g.nodes \subseteq Artifacts
      /\ Len(loop.order) = Cardinality(P)
      /\ \A a \in P : g.in[a] \subseteq P
      /\ \A a \in Artifacts : loop.indeg[a] = Cardinality(g.in[a] \ P)
      /\ loop.ready = {a \in g.nodes \ P : g.in[a] \subseteq P}
  <2>1. P \subseteq g.nodes
    BY <1>3 DEF PlacedSet
  <2>2. QED
    BY <2>1, FS_Subset DEF LoopInv, Orderable, Graphs
<1>6. Len(next.order) = Cardinality(PlacedSet(next))
  <2> HIDE DEF P
  <2>1. Cardinality(P \cup {cur}) = Cardinality(P) + 1
    BY <1>1, <1>5, FS_AddElement
  <2>2. QED
    BY <1>3, <1>4, <1>5, <2>1
<1>7. ASSUME NEW i \in 1..Len(next.order), NEW j \in 1..Len(next.order),
             next.order[i] \in g.out[next.order[j]]
      PROVE  j < i
  <2>1. CASE i \in 1..Len(loop.order) /\ j \in 1..Len(loop.order)
    BY <1>3, <1>7, <2>1 DEF LoopInv
  <2>2. CASE i = Len(loop.order) + 1 /\ j \in 1..Len(loop.order)
    BY <1>3, <2>2
  <2>3. CASE i \in 1..Len(loop.order) /\ j = Len(loop.order) + 1
    <3>1. next.order[i] \in P /\ next.order[i] \in g.out[cur]
      BY <1>3, <1>7, <2>3 DEF PlacedSet
    <3>2. cur \in g.in[next.order[i]] /\ g.in[next.order[i]] \subseteq P
      BY <1>1, <1>5, <3>1, DependentsAreNodes
    <3>3. QED
      BY <1>1, <3>2
  <2>4. CASE i = Len(loop.order) + 1 /\ j = Len(loop.order) + 1
    <3>1. cur \in g.out[cur]
      BY <1>3, <1>7, <2>4
    <3>2. cur \in Reach(g, cur)
      BY <1>1 DEF Reach
    <3>3. QED
      BY <1>1, <3>1, <3>2 DEF Orderable, Acyclic, TransitiveDependencies
  <2>5. QED
    BY <1>3, <2>1, <2>2, <2>3, <2>4
<1>8. \A a \in PlacedSet(next) : g.in[a] \subseteq PlacedSet(next)
  BY <1>1, <1>4, <1>5
<1>9. ASSUME NEW a \in Artifacts
      PROVE  next.indeg[a] = Cardinality(g.in[a] \ PlacedSet(next))
  <2>1. g.in[a] \ PlacedSet(next) = (g.in[a] \ P) \ {cur}
    BY <1>4
  <2>2. cur \in g.in[a] \ P <=> a \in g.out[cur]
    BY <1>1, DependentsAreNodes
  <2>3. /\ IsFiniteSet(g.in[a] \ P)
        /\ Cardinality((g.in[a] \ P) \ {cur})
             = IF cur \in g.in[a] \ P THEN Cardinality(g.in[a] \ P) - 1 ELSE Cardinality(g.in[a] \ P)
    BY NothingLeft, FS_RemoveElement
  <2>4. QED
    BY <1>2, <1>5, <2>1, <2>2, <2>3
<1>10. next.ready = {a \in g.nodes \ PlacedSet(next) : g.in[a] \subseteq PlacedSet(next)}
  <2>1. \A a \in Artifacts : next.indeg[a] = 0 <=> g.in[a] \subseteq PlacedSet(next)
    BY <1>9, NothingLeft
  <2>2. g.out[cur] \subseteq g.nodes
    BY <1>1 DEF Orderable, EdgesJoinNodes
  <2>3. \A a \in Artifacts : a \in g.out[cur] <=> cur \in g.in[a]
    BY <1>1, DependentsAreNodes
  <2>4. ASSUME NEW a \in g.out[cur] PROVE a \notin PlacedSet(next)
    <3>1. cur \in g.in[a] /\ a \in Artifacts
      BY <1>5, <2>2, <2>3
    <3>2. a \notin P
      BY <1>1, <1>5, <3>1
    <3>3. a # cur
      BY <1>1, <3>1
    <3>4. QED
      BY <1>4, <3>2, <3>3
  <2>5. ASSUME NEW a \in next.ready
        PROVE  a \in g.nodes \ PlacedSet(next) /\ g.in[a] \subseteq PlacedSet(next)
    <3>1. CASE a \in loop.ready \ {cur}
      BY <1>4, <1>5, <3>1
    <3>2. CASE a \in g.out[cur] /\ next.indeg[a] = 0
      BY <1>5, <2>1, <2>2, <2>4, <3>2
    <3>3. QED
      BY <1>2, <3>1, <3>2
  <2>6. ASSUME NEW a \in g.nodes \ PlacedSet(next), g.in[a] \subseteq PlacedSet(next)
        PROVE  a \in next.ready
    <3>1. a \in Artifacts /\ a # cur /\ a \notin P
      BY <1>4, <1>5
    <3>2. CASE cur \in g.in[a]
      BY <1>2, <2>1, <2>3, <2>6, <3>1, <3>2
    <3>3. CASE cur \notin g.in[a]
      BY <1>2, <1>4, <1>5, <2>6, <3>1, <3>3
    <3>4. QED
      BY <3>2, <3>3
  <2>7. QED
    BY <2>5, <2>6
<1>11. LoopInv(g, next)
  BY <1>3, <1>6, <1>7, <1>8, <1>9, <1>10 DEF LoopInv
<1>12. QED
  BY <1>3, <1>11 DEF next

(* Every round finds the loop in order and, until it ends, places one more.*)
LEMMA RoundsLoopInv ==
  ASSUME NEW g, Orderable(g), NEW k \in Nat, NEW f, AreRounds(f, g, k), NEW n \in 0..k
  PROVE  LoopInv(g, f[n]) /\ (f[n].ready = {} \/ Len(f[n].order) = n)
<1> DEFINE Good(m) == LoopInv(g, f[m]) /\ (f[m].ready = {} \/ Len(f[m].order) = m)
           F == {m \in 0..k : ~Good(m)}
<1>1. SUFFICES ASSUME F # {} PROVE FALSE
  BY <1>1
<1>2. PICK m \in F : \A i \in F : m <= i
  <2>1. F \in SUBSET Nat
    OBVIOUS
  <2> HIDE DEF F
  <2>2. QED
    BY <1>1, <2>1, LeastNumber
<1>3. m \in 0..k /\ ~Good(m)
  BY <1>2
<1>4. CASE m = 0
  <2>1. f[0] = Loop0(g)
    BY <1>3, <1>4, RoundsUnfolded
  <2>2. Len(Loop0(g).order) = 0
    BY DEF Loop0
  <2>3. QED
    BY <1>3, <1>4, <2>1, <2>2, FirstLoopInv
<1>5. CASE m # 0
  <2>1. m - 1 \in 0..k /\ m - 1 \in Nat /\ ~(m <= m - 1)
    BY <1>3, <1>5
  <2>2. Good(m - 1)
    BY <1>2, <2>1
  <2>3. f[m] = Round(g, f[m - 1])
    BY <1>3, <1>5, RoundsUnfolded
  <2>4. CASE f[m - 1].ready = {}
    BY <1>3, <2>2, <2>3, <2>4 DEF Round
  <2>5. CASE f[m - 1].ready # {}
    <3>1. f[m] = Placed(g, f[m - 1]) /\ Len(f[m - 1].order) = m - 1
      BY <2>2, <2>3, <2>5 DEF Round
    <3>2. LoopInv(g, f[m]) /\ Len(f[m].order) = (m - 1) + 1
      BY <2>2, <2>5, <3>1, PlacedLoopInv
    <3>3. QED
      BY <1>3, <3>2
  <2>6. QED
    BY <2>4, <2>5
<1>6. QED
  BY <1>4, <1>5

(* In an acyclic graph every set of nodes that is not empty holds one no   *)
(* other depends on.                                                       *)
LEMMA SourceExists ==
  ASSUME NEW g, Orderable(g), NEW S \in SUBSET g.nodes, S # {}
  PROVE  \E a \in S : g.in[a] \cap S = {}
<1>1. SUFFICES ASSUME \A a \in S : g.in[a] \cap S # {} PROVE FALSE
  OBVIOUS
<1> DEFINE Above(a) == {b \in S : a \in Reach(g, b)}
           F == {Above(a) : a \in S}
<1>2. S \subseteq Artifacts /\ g \in Graphs
  BY DEF Orderable, Graphs
<1>3. PICK a \in S : \A b \in S : Above(b) \subseteq Above(a) => Above(b) = Above(a)
  <2>1. F \in SUBSET (SUBSET S) /\ F # {}
    OBVIOUS
  <2>2. IsFiniteSet(S)
    BY FS_Subset DEF Orderable
  <2>3. PICK T \in F : \A U \in F : U \subseteq T => U = T
    <3> HIDE DEF F
    <3>1. F \subseteq FiniteSubsetsOf(S)
      BY <2>1, <2>2, FS_FiniteSubsetsOfFinite
    <3>2. PICK T \in F : \A U \in F : <<U, T>> \notin StrictSubsetOrdering(S)
      BY <2>1, <2>2, <3>1, FS_StrictSubsetOrderingWellFounded, WFMin
    <3>3. QED
      BY <2>1, <3>2 DEF StrictSubsetOrdering
  <2>4. PICK a \in S : T = Above(a)
    BY <2>3
  <2>5. ASSUME NEW b \in S, Above(b) \subseteq Above(a) PROVE Above(b) = Above(a)
    <3>1. Above(b) \in F
      OBVIOUS
    <3> HIDE DEF Above, F
    <3>2. QED
      BY <2>3, <2>4, <2>5, <3>1
  <2>6. QED
    BY <2>5
<1>4. PICK b \in S : b \in g.in[a]
  BY <1>1, <1>3
<1>5. a \in Artifacts /\ b \in Artifacts /\ a \in g.out[b]
  BY <1>2, <1>3, <1>4, DependentsAreNodes
<1>6. ASSUME NEW c \in S, b \in Reach(g, c) PROVE a \in Reach(g, c)
  BY <1>2, <1>5, <1>6, ReachClosed DEF Closed
<1>7. a \in Above(a)
  BY <1>2, <1>3, ReachClosed
<1>8. a \notin Above(b)
  <2>1. b \notin TransitiveDependencies(g, b)
    BY <1>5 DEF Orderable, Acyclic
  <2>2. QED
    BY <1>5, <2>1 DEF TransitiveDependencies
<1>9. Above(b) \subseteq Above(a)
  BY <1>6
<1>10. QED
  BY <1>3, <1>7, <1>8, <1>9

(* When nothing is ready any more everything is placed.                    *)
LEMMA NothingReady ==
  ASSUME NEW g, Orderable(g), NEW loop, LoopInv(g, loop), loop.ready = {}
  PROVE  PlacedSet(loop) = g.nodes
<1>1. PlacedSet(loop) \subseteq g.nodes
  BY DEF LoopInv, PlacedSet
<1>2. SUFFICES ASSUME g.nodes \ PlacedSet(loop) # {} PROVE FALSE
  BY <1>1
<1>3. PICK a \in g.nodes \ PlacedSet(loop) : g.in[a] \cap (g.nodes \ PlacedSet(loop)) = {}
  BY <1>2, SourceExists
<1>4. a \in Artifacts
  BY DEF Orderable, Graphs
<1>5. g.in[a] \subseteq PlacedSet(loop)
  BY <1>3, <1>4, DependentsAreNodes
<1>6. QED
  BY <1>5 DEF LoopInv

(* topological_order lists every artifact once and before what it depends  *)
(* on, for every graph that add_node and add_edge can build, and so never  *)
(* throws (dependency.hpp:150-172).                                        *)
THEOREM OrderStaysTopological == SearchSpec => []OrderIsTopological
<1>1. GraphInv => OrderIsTopological
  <2> SUFFICES ASSUME GraphInv PROVE OrderIsTopological
    OBVIOUS
  <2>1. Orderable(graph) /\ Cardinality(graph.nodes) <= MaxNodes /\ Cardinality(graph.nodes) \in Nat
    BY FS_CardinalityType DEF GraphInv, TypeOK, GraphAcyclic, GraphWellFormed, Orderable
  <2>2. PICK k \in Nat : k = 2 * MaxNodes
    BY MaxNodesAssumption
  <2>3. PICK f : AreRounds(f, graph, k) /\ Order(graph) = f[k].order
    <3>1. \E f : AreRounds(f, graph, k)
      BY RoundsExist
    <3>2. Order(graph) = (CHOOSE f : AreRounds(f, graph, k))[k].order
      BY <2>2, OrderUnfolded
    <3>3. QED
      BY <3>1, <3>2
  <2>4. PICK loop : loop = f[k]
    OBVIOUS
  <2>5. LoopInv(graph, loop) /\ (loop.ready = {} \/ Len(loop.order) = k)
    BY <2>1, <2>3, <2>4, RoundsLoopInv
  <2>6. loop.ready = {}
    <3>1. SUFFICES ASSUME loop.ready # {} PROVE FALSE
      OBVIOUS
    <3>2. PlacedSet(loop) \subseteq graph.nodes /\ Len(loop.order) = Cardinality(PlacedSet(loop))
      BY <2>5 DEF LoopInv, PlacedSet
    <3>3. k <= Cardinality(graph.nodes)
      BY <2>1, <2>5, <3>1, <3>2, FS_Subset DEF Orderable
    <3>4. Cardinality(graph.nodes) = 0
      BY <2>1, <2>2, <3>3, MaxNodesAssumption
    <3>5. graph.nodes = {}
      BY <2>1, <3>4, FS_EmptySet DEF Orderable
    <3>6. QED
      BY <2>5, <3>1, <3>5 DEF LoopInv
  <2>7. PlacedSet(loop) = graph.nodes
    BY <2>1, <2>5, <2>6, NothingReady
  <2>8. Order(graph) = loop.order
    BY <2>3, <2>4
  <2>9. /\ Len(loop.order) = Cardinality(graph.nodes)
        /\ {loop.order[i] : i \in 1..Len(loop.order)} = graph.nodes
        /\ \A i, j \in 1..Len(loop.order) : loop.order[i] \in graph.out[loop.order[j]] => j < i
    BY <2>5, <2>7 DEF LoopInv, PlacedSet
  <2>10. QED
    BY Zenon, <2>8, <2>9 DEF OrderIsTopological
<1>2. QED
  BY <1>1, SearchGraphInvariant, PTL
=============================================================================
