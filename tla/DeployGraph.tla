---------------------------- MODULE DeployGraph ----------------------------
(***************************************************************************)
(* internal/compiler/graph.go: the dependency graph of a deployment and    *)
(* the topological sort that gives the creation order of its resources.    *)
(*                                                                         *)
(* The sort is the loop of TopologicalSort, one step per iteration.  It    *)
(* ranges over Go maps, whose order is not specified: the nodes queued     *)
(* before the loop, and those queued by one iteration, are in any order.   *)
(*                                                                         *)
(* A dependency list may name a resource more than once (a service that    *)
(* mounts one volume at two paths does), so lists are sequences, not sets. *)
(***************************************************************************)
EXTENDS Integers, FiniteSets, Sequences, Functions

CONSTANTS
  Nodes,        \* the resources a deployment declares
  MaxDeps       \* bound: the length of a dependency list

ASSUME NodesFinite == IsFiniteSet(Nodes)
ASSUME MaxDepsNat == MaxDeps \in Nat

VARIABLES
  edges,        \* edges[n]: the dependency list of n
  inDegree,     \* entries of edges[n] not emitted yet
  queue,        \* nodes whose dependencies have all been emitted
  sorted,       \* the nodes emitted so far, dependencies first
  result        \* "running", then "ok" or "cycle"

vars == <<edges, inDegree, queue, sorted, result>>

\* The orders in which ranging over a Go map may visit the keys S.
MapOrders(S) == Bijection(1..Cardinality(S), S)

\* A resource the deployment names as a dependency and does not declare.
Undeclared == "undeclared"

\* The entries of the list of n that name m.
Entries(e, n, m) == {k \in DOMAIN e[n] : e[n][k] = m}

\* Every dependency that a node names exists.
ValidateGraph(nodes) ==
  \A n \in DOMAIN nodes : \A k \in DOMAIN nodes[n] : nodes[n][k] \in DOMAIN nodes

\* The adjacency lists are the dependency lists of the nodes.
BuildDependencyEdges(nodes) == [n \in DOMAIN nodes |-> nodes[n]]

\* Deletion order is creation order reversed.
ReverseOrder(order) == [i \in 1..Len(order) |-> order[Len(order) + 1 - i]]

\* The in-degrees the sort starts from: every entry of a list counts.
InDegrees == [n \in Nodes |-> Len(edges[n])]

-----------------------------------------------------------------------------
(* Any nodes with any lists that ValidateGraph accepts; then the in-degrees *)
(* and the queue that TopologicalSort starts from.                          *)
Init ==
  /\ \E nodes \in [Nodes -> UNION {[1..k -> Nodes \cup {Undeclared}] : k \in 0..MaxDeps}] :
       ValidateGraph(nodes) /\ edges = BuildDependencyEdges(nodes)
  /\ inDegree = InDegrees
  /\ queue \in MapOrders({n \in Nodes : inDegree[n] = 0})
  /\ sorted = << >>
  /\ result = "running"

\* Mutant: a dependency named twice is counted off once.
ReducedOnce(current) ==
  [n \in Nodes |-> inDegree[n] - IF Entries(edges, n, current) # {} THEN 1 ELSE 0]

\* The in-degrees once current has been emitted.
Reduced(current) ==
  [n \in Nodes |-> inDegree[n] - Cardinality(Entries(edges, n, current))]

\* The nodes whose last outstanding dependency current was.
Ready(current) == {n \in Nodes : inDegree[n] > 0 /\ Reduced(current)[n] = 0}

(* One iteration: emit the head of the queue, and queue each node whose     *)
(* last outstanding dependency it was.                                      *)
Emit ==
  /\ result = "running"
  /\ queue # << >>
  /\ LET current == Head(queue)
     IN  /\ sorted' = Append(sorted, current)
         /\ inDegree' = Reduced(current)
         /\ \E batch \in MapOrders(Ready(current)) : queue' = Tail(queue) \o batch
  /\ UNCHANGED <<edges, result>>

(* The queue is empty: everything was emitted, or there is a cycle.         *)
Finish ==
  /\ result = "running"
  /\ queue = << >>
  /\ result' = IF Len(sorted) = Cardinality(Nodes) THEN "ok" ELSE "cycle"
  /\ UNCHANGED <<edges, inDegree, queue, sorted>>

Next == Emit \/ Finish

Spec == Init /\ [][Next]_vars

-----------------------------------------------------------------------------
TypeOK ==
  /\ edges \in [Nodes -> Seq(Nodes)]
  /\ inDegree \in [Nodes -> Nat]
  /\ queue \in Seq(Nodes)
  /\ sorted \in Seq(Nodes)
  /\ result \in {"running", "ok", "cycle"}

\* Each dependency of an emitted resource was emitted before it.
DependenciesFirst(order) ==
  \A i \in 1..Len(order) : \A k \in DOMAIN edges[order[i]] :
    \E j \in 1..(i - 1) : order[j] = edges[order[i]][k]

\* Each dependency of a resource is deleted after it.
DependenciesLast(order) ==
  \A i \in 1..Len(order) : \A k \in DOMAIN edges[order[i]] :
    \E j \in (i + 1)..Len(order) : order[j] = edges[order[i]][k]

(* An accepted order lists every resource exactly once, dependencies first, *)
(* also when a list names a dependency twice, and the deletion order lists  *)
(* every dependent before what it depends on.                               *)
SortedIsCreationOrder ==
  result = "ok" =>
    /\ Range(sorted) = Nodes
    /\ IsInjective(sorted)
    /\ DependenciesFirst(sorted)
    /\ DependenciesLast(ReverseOrder(sorted))

(* A cycle is reported only when some resources really wait for each other. *)
CycleIsReal ==
  result = "cycle" =>
    \E S \in SUBSET Nodes :
      /\ S # {}
      /\ \A n \in S : \E k \in DOMAIN edges[n] : edges[n][k] \in S

(* TopologicalSort answers right: an order it returns can be created and, in *)
(* reverse, deleted; a cycle it reports is there.                            *)
SortCorrect == SortedIsCreationOrder /\ CycleIsReal
=============================================================================
