----------------------------- MODULE GraphSearch -----------------------------
(***************************************************************************)
(* A DependencyGraph object again, with add_edge taken apart: its checks,  *)
(* the depth-first loop of creates_cycle one node at a time, and the       *)
(* insertion (dependency.hpp:64-78, 179-192).  transitive_dependencies     *)
(* (dependency.hpp:87-99) is the same loop, started from an artifact's     *)
(* dependencies and looking for nothing.                                   *)
(*                                                                         *)
(* The stack is the set of the ids on it: the order in which edges were    *)
(* declared decides what is on top, so any of them may be, and an id that  *)
(* is there twice is an id found visited when it comes up again.           *)
(***************************************************************************)
EXTENDS DependencyGraph

CONSTANT None   \* no artifact

ASSUME NoneAssumption == None \notin Artifacts

VARIABLES
  call,      \* the call in progress
  goal,      \* the node creates_cycle looks for, None in transitive_dependencies
  start,     \* what the stack holds at first
  stack,
  visited    \* visited in creates_cycle, seen in transitive_dependencies

searchVars == <<graph, call, goal, start, stack, visited>>

Calls == {"none", "add_edge", "transitive_dependencies", "refused", "answered"}

SearchInit ==
  /\ Init
  /\ call = "none"
  /\ goal = None
  /\ start = {} /\ stack = {} /\ visited = {}

Begins(c, g, S) ==
  /\ call \notin {"add_edge", "transitive_dependencies"}
  /\ call' = c
  /\ goal' = g
  /\ start' = S /\ stack' = S
  /\ visited' = {}

AddNode(a) ==
  /\ NodeAdded(a)
  /\ Begins("none", None, {})

(* add_edge up to its search; the edge is from goal to the start. *)
AddEdge(from, to) ==
  /\ from # to
  /\ from \in graph.nodes /\ to \in graph.nodes
  /\ to \notin graph.out[from]
  /\ Begins("add_edge", from, {to})
  /\ UNCHANGED graph

FindAllDependencies(a) ==
  /\ Begins("transitive_dependencies", None, graph.out[a])
  /\ UNCHANGED graph

Top(cur) == call \in {"add_edge", "transitive_dependencies"} /\ cur \in stack

(* The goal is on top: creates_cycle returns true and add_edge throws. *)
Refuse(cur) ==
  /\ Top(cur) /\ cur = goal
  /\ call' = "refused"
  /\ UNCHANGED <<graph, goal, start, stack, visited>>

(* A slip: the visited node is looked at but not popped. *)
RestIncludingTop(cur) == stack

Rest(cur) == stack \ {cur}

Skip(cur) ==
  /\ Top(cur) /\ cur # goal /\ cur \in visited
  /\ stack' = Rest(cur)
  /\ UNCHANGED <<graph, call, goal, start, visited>>

(* A slip: one dependency of the visited node is followed, the others not. *)
FirstPushed(cur) ==
  {b \in graph.out[cur] : \A c \in graph.out[cur] : b <= c}

Pushed(cur) == graph.out[cur]

Visit(cur) ==
  /\ Top(cur) /\ cur # goal /\ cur \notin visited
  /\ visited' = visited \cup {cur}
  /\ stack' = Rest(cur) \cup Pushed(cur)
  /\ UNCHANGED <<graph, call, goal, start>>

(* The stack is empty: no cycle, and the edge goes in. *)
Insert ==
  /\ call = "add_edge" /\ stack = {}
  /\ call' = "none"
  /\ graph' = AddEdges(graph, goal, start)
  /\ UNCHANGED <<goal, start, stack, visited>>

Answer ==
  /\ call = "transitive_dependencies" /\ stack = {}
  /\ call' = "answered"
  /\ UNCHANGED <<graph, goal, start, stack, visited>>

(* What a call does once it has begun. *)
Proceed ==
  \/ \E cur \in Artifacts : Refuse(cur) \/ Skip(cur) \/ Visit(cur)
  \/ Insert
  \/ Answer

SearchNext ==
  \/ \E a \in Artifacts : AddNode(a) \/ FindAllDependencies(a)
  \/ \E from, to \in Artifacts : AddEdge(from, to)
  \/ Proceed

SearchSpec == SearchInit /\ [][SearchNext]_searchVars

(* A call that has begun runs on; nobody has to make another. *)
FairSearchSpec == SearchSpec /\ WF_searchVars(Proceed)

-----------------------------------------------------------------------------
Reached == UNION {Reach(graph, a) : a \in start}

(* The loop computes reachability whatever order the edges come up in: it  *)
(* is cut short only by a node the goal is reachable from, and an answer   *)
(* holds everything reachable and nothing else.                            *)
SearchExact ==
  /\ call = "refused" => goal \in Reached
  /\ call = "add_edge" /\ stack = {} => goal \notin Reached
  /\ call = "answered" => visited = Reached

(* The graph changes only as DependencyGraph allows: with the search in    *)
(* its place add_edge accepts exactly what reachability lets it accept.    *)
(* This is Spec; the test spares TLC the guards of steps that leave the    *)
(* graph alone.                                                            *)
ImplementsGraph == Init /\ [][graph' # graph => Next]_graph

(* Every call ends: no node is expanded twice. *)
EveryCallEnds ==
  (call \in {"add_edge", "transitive_dependencies"}) ~> (call \in {"none", "refused", "answered"})
=============================================================================
