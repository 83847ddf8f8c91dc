--------------------------- MODULE GraphOps_proofs ---------------------------
(***************************************************************************)
(* Facts about the operators of GraphOps that the proofs about a single    *)
(* graph and about the catalog both cite.                                  *)
(***************************************************************************)
EXTENDS GraphOps, FiniteSetTheorems, TLAPS

(* Reachability in terms of closed sets, from either side: every closed    *)
(* set that holds a holds all that a reaches, and the reached set is the   *)
(* smallest of them.                                                       *)
LEMMA ReachInClosed ==
  ASSUME NEW g, NEW a, NEW b,
         NEW S \in SUBSET Artifacts, a \in S, Closed(g, S), b \in Reach(g, a)
  PROVE  b \in S
BY DEF Reach

(* What a does not reach is kept out by some closed set that holds a. *)
LEMMA UnreachedWitness ==
  ASSUME NEW g, NEW a, NEW b \in Artifacts, b \notin Reach(g, a)
  PROVE  \E S \in SUBSET Artifacts : a \in S /\ Closed(g, S) /\ b \notin S
BY DEF Reach

(* A reached set holds its origin and is itself closed. *)
LEMMA ReachClosed ==
  ASSUME NEW g \in Graphs, NEW a \in Artifacts
  PROVE  /\ Reach(g, a) \in SUBSET Artifacts
         /\ a \in Reach(g, a)
         /\ Closed(g, Reach(g, a))
<1>1. Reach(g, a) \in SUBSET Artifacts /\ a \in Reach(g, a)
  BY DEF Reach
<1>2. Closed(g, Reach(g, a))
  <2>1. SUFFICES ASSUME NEW b \in Reach(g, a), NEW c \in g.out[b]
                 PROVE  c \in Reach(g, a)
    BY DEF Closed
  <2>2. b \in Artifacts /\ c \in Artifacts
    BY <1>1 DEF Graphs
  <2>3. ASSUME NEW S \in SUBSET Artifacts, a \in S, Closed(g, S)
        PROVE  c \in S
    BY <2>3, ReachInClosed DEF Closed
  <2>4. QED
    BY <2>2, <2>3 DEF Reach
<1>3. QED
  BY <1>1, <1>2

(* Edges from one node to targets none of which reaches it close no cycle: *)
(* why add_edge's search, run before every insertion, is enough.           *)
THEOREM AddEdgesAcyclic ==
  ASSUME NEW g \in Graphs, Acyclic(g),
         NEW from \in Artifacts, NEW targets \in SUBSET Artifacts,
         \A t \in targets : ~CreatesCycle(g, from, t)
  PROVE  Acyclic(AddEdges(g, from, targets))
<1> DEFINE h == AddEdges(g, from, targets)
           R == UNION {Reach(g, t) : t \in targets}
<1>1. h.out = [g.out EXCEPT ![from] = @ \cup targets]
  BY DEF AddEdges, Graphs
<1>2. R \in SUBSET Artifacts /\ targets \subseteq R /\ Closed(g, R) /\ from \notin R
  BY ReachClosed DEF CreatesCycle, Closed
<1>3. ASSUME NEW S \in SUBSET Artifacts, Closed(g, S), from \in S => targets \subseteq S
      PROVE  Closed(h, S)
  BY <1>1, <1>3 DEF Closed, Graphs
<1>4. SUFFICES ASSUME NEW a \in Artifacts, NEW b \in h.out[a], a \in Reach(h, b)
               PROVE  FALSE
  BY DEF Acyclic, TransitiveDependencies
<1>5. CASE b \in g.out[a]
  <2>1. a \notin Reach(g, b)
    BY <1>5 DEF Acyclic, TransitiveDependencies
  <2>2. PICK T \in SUBSET Artifacts : b \in T /\ Closed(g, T) /\ a \notin T
    BY <2>1, UnreachedWitness
  <2>3. CASE a \in R
    <3>1. b \in T \cap R
      BY <1>2, <1>5, <2>2, <2>3 DEF Closed
    <3>2. Closed(h, T \cap R)
      <4>1. Closed(g, T \cap R)
        BY <1>2, <2>2 DEF Closed
      <4>2. QED
        BY <4>1, <1>2, <1>3
    <3>3. QED
      BY <3>1, <3>2, <2>2, <1>4, ReachInClosed
  <2>4. CASE a \notin R
    <3>1. Closed(h, T \cup R)
      <4>1. Closed(g, T \cup R)
        BY <1>2, <2>2 DEF Closed
      <4>2. QED
        BY <4>1, <1>2, <1>3
    <3>2. QED
      BY <3>1, <2>2, <2>4, <1>2, <1>4, ReachInClosed
  <2>5. QED
    BY <2>3, <2>4
<1>6. CASE b \notin g.out[a]
  <2>1. a = from /\ b \in targets
    BY <1>1, <1>6, <1>4 DEF Graphs
  <2>2. Closed(h, R)
    BY <1>2, <1>3
  <2>3. QED
    BY <2>1, <2>2, <1>2, <1>4, ReachInClosed
<1>7. QED
  BY <1>5, <1>6
=============================================================================
