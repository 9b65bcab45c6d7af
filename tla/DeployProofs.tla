---------------------------- MODULE DeployProofs ----------------------------
(***************************************************************************)
(* Proofs about what a deployment goes through: the order of its resources *)
(* (DeployGraph) and the processes that provide for it (Supervisor).       *)
(*                                                                         *)
(* TopologicalSort is right for every deployment: any resources, any       *)
(* dependency lists, any order in which Go ranges over its maps.           *)
(*                                                                         *)
(* What the loop maintains: the in-degree of a node is the number of its   *)
(* entries that name a node not emitted yet, and the nodes of in-degree 0  *)
(* are the emitted and the queued ones, each once.                         *)
(***************************************************************************)
EXTENDS DeployGraph, Supervisor, FiniteSetTheorems, SequenceTheorems, TLAPS

\* The entries of the list of n that still count.
Outstanding(n) == {k \in DOMAIN edges[n] : edges[n][k] \notin Range(sorted)}

Counted ==
    \A n \in Nodes : inDegree[n] = Cardinality(Outstanding(n))

Settled ==
    \A n \in Nodes : inDegree[n] = 0 <=> n \in Range(sorted) \cup Range(queue)

Once ==
    /\ IsInjective(sorted) /\ IsInjective(queue)
    /\ Range(sorted) \cap Range(queue) = {}

Answer ==
    result # "running" =>
       /\ queue = << >>
       /\ result = "ok" <=> Len(sorted) = Cardinality(Nodes)

IndInv == TypeOK /\ Counted /\ Settled /\ Once /\ DependenciesFirst(sorted) /\ Answer

-----------------------------------------------------------------------------
(***************************************************************************)
(* Sequences that list each node once.                                     *)
(***************************************************************************)

\* An order in which a map may be visited is a sequence of its keys, each once.
LEMMA MapOrderSeq ==
    ASSUME NEW S \in SUBSET Nodes, NEW o \in MapOrders(S)
    PROVE  o \in Seq(Nodes) /\ Range(o) = S /\ IsInjective(o)
<1>1. Cardinality(S) \in Nat
  BY NodesFinite, FS_Subset, FS_CardinalityType
<1>2. o \in [1 .. Cardinality(S) -> S] /\ IsInjective(o)
      /\ \A t \in S : \E i \in 1 .. Cardinality(S) : o[i] = t
  BY DEF MapOrders, Bijection, Injection, Surjection
<1>3. o \in Seq(Nodes)
  BY <1>1, <1>2
<1>4. Range(o) = S
  BY <1>2 DEF Range
<1>5. QED
  BY <1>2, <1>3, <1>4

\* Emitting a node that was not emitted keeps the order free of repetitions.
LEMMA AppendOnce ==
    ASSUME NEW s \in Seq(Nodes), IsInjective(s), NEW x \in Nodes
    PROVE  /\ Append(s, x) \in Seq(Nodes) /\ Range(Append(s, x)) = Range(s) \cup {x}
           /\ x \notin Range(s) => IsInjective(Append(s, x))
<1> DEFINE t == Append(s, x)
<1>1. /\ t \in Seq(Nodes) /\ DOMAIN t = DOMAIN s \cup {Len(s) + 1} /\ t[Len(s) + 1] = x
      /\ \A i \in DOMAIN s : t[i] = s[i]
  OBVIOUS
<1> HIDE DEF t
<1>2. Range(t) = Range(s) \cup {x}
  BY <1>1 DEF Range
<1>3. x \notin Range(s) => IsInjective(t)
  BY <1>1 DEF IsInjective, Range
<1>4. QED
  BY <1>1, <1>2, <1>3 DEF t

\* Taking the head off a queue.
LEMMA TailOnce ==
    ASSUME NEW s \in Seq(Nodes), s # << >>, IsInjective(s)
    PROVE  /\ Head(s) \in Nodes /\ Tail(s) \in Seq(Nodes) /\ IsInjective(Tail(s))
           /\ Range(Tail(s)) = Range(s) \ {Head(s)} /\ Head(s) \in Range(s)
<1>1. /\ Head(s) \in Nodes /\ Tail(s) \in Seq(Nodes) /\ Head(s) = s[1] /\ 1 \in DOMAIN s
      /\ \A i \in DOMAIN Tail(s) : i \in Nat /\ i # 0 /\ i + 1 \in DOMAIN s /\ Tail(s)[i] = s[i + 1]
      /\ \A i \in DOMAIN s : i \in Nat /\ (i = 1 \/ (i - 1 \in DOMAIN Tail(s) /\ s[i] = Tail(s)[i - 1]))
  OBVIOUS
<1>2. IsInjective(Tail(s))
  <2> SUFFICES ASSUME NEW i \in DOMAIN Tail(s), NEW j \in DOMAIN Tail(s), Tail(s)[i] = Tail(s)[j]
               PROVE  i = j
    BY DEF IsInjective
  <2>1. i + 1 = j + 1
    BY <1>1 DEF IsInjective
  <2>2. QED
    BY <1>1, <2>1
<1>3. ASSUME NEW i \in DOMAIN Tail(s) PROVE Tail(s)[i] # Head(s)
  <2>1. i + 1 # 1
    BY <1>1
  <2>2. QED
    BY <1>1, <2>1 DEF IsInjective
<1>4. Range(Tail(s)) = Range(s) \ {Head(s)} /\ Head(s) \in Range(s)
  <2>1. \A i \in DOMAIN Tail(s) : Tail(s)[i] \in Range(s) \ {Head(s)}
    BY <1>1, <1>3 DEF Range
  <2>2. \A i \in DOMAIN s : s[i] = Head(s) \/ s[i] \in Range(Tail(s))
    BY <1>1, Zenon DEF Range
  <2>3. QED
    BY <1>1, <2>1, <2>2 DEF Range
<1>5. QED
  BY <1>1, <1>2, <1>4

\* Queueing nodes behind others.
LEMMA ConcatOnce ==
    ASSUME NEW s \in Seq(Nodes), NEW t \in Seq(Nodes), IsInjective(s), IsInjective(t),
           Range(s) \cap Range(t) = {}
    PROVE  s \o t \in Seq(Nodes) /\ IsInjective(s \o t) /\ Range(s \o t) = Range(s) \cup Range(t)
<1> DEFINE c == s \o t
<1>1. /\ c \in Seq(Nodes) /\ Len(s) \in Nat /\ Len(t) \in Nat /\ DOMAIN c = 1 .. (Len(s) + Len(t))
      /\ DOMAIN s = 1 .. Len(s) /\ DOMAIN t = 1 .. Len(t)
      /\ \A i \in DOMAIN s : c[i] = s[i]
      /\ \A i \in DOMAIN c : i > Len(s) => i - Len(s) \in DOMAIN t /\ c[i] = t[i - Len(s)]
      /\ \A i \in DOMAIN t : i + Len(s) \in DOMAIN c /\ c[i + Len(s)] = t[i]
  <2>1. /\ c \in Seq(Nodes) /\ Len(s) \in Nat /\ Len(t) \in Nat /\ DOMAIN s = 1 .. Len(s)
        /\ DOMAIN t = 1 .. Len(t) /\ DOMAIN c = 1 .. (Len(s) + Len(t))
    OBVIOUS
  <2>2. \A i \in 1 .. Len(s) : c[i] = s[i]
    OBVIOUS
  <2>3. \A i \in 1 .. (Len(s) + Len(t)) : i > Len(s) => c[i] = t[i - Len(s)]
    OBVIOUS
  <2>4. \A i \in 1 .. (Len(s) + Len(t)) : i > Len(s) => i - Len(s) \in 1 .. Len(t)
    BY <2>1
  <2> HIDE DEF c
  <2>5. \A i \in 1 .. Len(t) : /\ i + Len(s) \in 1 .. (Len(s) + Len(t)) /\ i + Len(s) > Len(s)
                               /\ (i + Len(s)) - Len(s) = i
    BY <2>1
  <2>6. \A i \in 1 .. Len(t) : c[i + Len(s)] = t[i]
    BY <2>3, <2>5
  <2>7. QED
    BY <2>1, <2>2, <2>3, <2>4, <2>5, <2>6
<1> HIDE DEF c
<1>2. Range(c) = Range(s) \cup Range(t)
  <2>1. \A i \in DOMAIN c : i \in DOMAIN s \/ i > Len(s)
    BY <1>1
  <2>2. \A i \in DOMAIN s : i \in DOMAIN c
    BY <1>1
  <2>3. QED
    BY <1>1, <2>1, <2>2 DEF Range
<1>3. ASSUME NEW i \in DOMAIN c, NEW j \in DOMAIN c, c[i] = c[j]
      PROVE  i = j
  <2>1. CASE i \in DOMAIN s /\ j \in DOMAIN s
    BY <1>1, <1>3, <2>1 DEF IsInjective
  <2>2. CASE i > Len(s) /\ j > Len(s)
    <3>1. i - Len(s) = j - Len(s)
      BY <1>1, <1>3, <2>2 DEF IsInjective
    <3>2. QED
      BY <1>1, <3>1
  <2>3. CASE (i \in DOMAIN s /\ j > Len(s)) \/ (j \in DOMAIN s /\ i > Len(s))
    <3>1. \A k \in DOMAIN c : (k \in DOMAIN s => c[k] \in Range(s))
                              /\ (k > Len(s) => c[k] \in Range(t))
      BY <1>1 DEF Range
    <3>2. QED
      BY <1>3, <2>3, <3>1
  <2>4. QED
    BY <1>1, <2>1, <2>2, <2>3
<1>4. QED
  BY <1>1, <1>2, <1>3 DEF IsInjective, c

\* The positions of a sequence are as many as it is long.
LEMMA CountTo == \A n \in Nat : IsFiniteSet(1 .. n) /\ Cardinality(1 .. n) = n
<1> SUFFICES ASSUME NEW n \in Nat PROVE IsFiniteSet(1 .. n) /\ Cardinality(1 .. n) = n
  OBVIOUS
<1>1. IsFiniteSet(1 .. n) /\ Cardinality(1 .. n) = IF 1 > n THEN 0 ELSE n - 1 + 1
  BY FS_Interval
<1>2. QED
  BY <1>1

\* An order without repetitions is as long as the graph has nodes exactly when
\* it has them all.
LEMMA LengthTells ==
    ASSUME NEW s \in Seq(Nodes), IsInjective(s)
    PROVE  Len(s) = Cardinality(Nodes) <=> Range(s) = Nodes
<1>1. s \in Injection(1 .. Len(s), Nodes) /\ Len(s) \in Nat
  <2>1. s \in [1 .. Len(s) -> Nodes] /\ Len(s) \in Nat
    OBVIOUS
  <2>2. QED
    BY <2>1 DEF Injection
<1>2. Cardinality(1 .. Len(s)) = Len(s)
  BY <1>1, CountTo
<1>3. Cardinality(1 .. Len(s)) = Cardinality(Nodes) <=> s \in Surjection(1 .. Len(s), Nodes)
  BY <1>1, NodesFinite, FS_Injection
<1>4. s \in Surjection(1 .. Len(s), Nodes) <=> Range(s) = Nodes
  <2>1. s \in [1 .. Len(s) -> Nodes] /\ DOMAIN s = 1 .. Len(s)
    OBVIOUS
  <2>2. Range(s) \subseteq Nodes
    BY <2>1 DEF Range
  <2>3. QED
    BY <2>1, <2>2 DEF Surjection, Range
<1>5. QED
  BY <1>2, <1>3, <1>4

-----------------------------------------------------------------------------
(***************************************************************************)
(* Counting entries.                                                       *)
(***************************************************************************)

\* Lists are finite, so their outstanding entries are counted.
LEMMA OutstandingFinite ==
    ASSUME TypeOK, NEW n \in Nodes
    PROVE  /\ IsFiniteSet(Outstanding(n)) /\ Cardinality(Outstanding(n)) \in Nat
           /\ Cardinality(Outstanding(n)) = 0 <=> Outstanding(n) = {}
<1>1. edges[n] \in Seq(Nodes) /\ Len(edges[n]) \in Nat /\ DOMAIN edges[n] = 1 .. Len(edges[n])
  BY DEF TypeOK
<1>2. IsFiniteSet(DOMAIN edges[n])
  BY <1>1, FS_Interval
<1>3. IsFiniteSet(Outstanding(n))
  BY <1>2, FS_Subset DEF Outstanding
<1>4. QED
  BY <1>3, FS_CardinalityType, FS_EmptySet

\* Removing part of a finite set takes its size off.
LEMMA CountDifference ==
    ASSUME NEW S, IsFiniteSet(S), NEW T \in SUBSET S
    PROVE  /\ Cardinality(S \ T) = Cardinality(S) - Cardinality(T)
           /\ Cardinality(S \ T) \in Nat /\ Cardinality(T) \in Nat
<1>1. IsFiniteSet(T) /\ IsFiniteSet(S \ T)
  BY FS_Subset
<1>2. Cardinality(S) \in Nat /\ Cardinality(T) \in Nat /\ Cardinality(S \ T) \in Nat
  BY <1>1, FS_CardinalityType
<1>3. (S \ T) \cup T = S /\ (S \ T) \cap T = {}
  OBVIOUS
<1>4. Cardinality(S) = Cardinality(S \ T) + Cardinality(T) - Cardinality({})
  BY <1>1, <1>3, FS_Union
<1>5. QED
  BY <1>2, <1>4, FS_EmptySet

\* Emitting current takes every entry that names it off each in-degree.
LEMMA ReducedCounts ==
    ASSUME TypeOK, Counted, NEW current \in Nodes, current \notin Range(sorted), NEW n \in Nodes
    PROVE  /\ Reduced(current)[n] = Cardinality(Outstanding(n) \ Entries(edges, n, current))
           /\ Reduced(current)[n] \in Nat /\ Reduced(current)[n] <= inDegree[n]
<1>1. Entries(edges, n, current) \subseteq Outstanding(n)
  BY DEF Entries, Outstanding
<1>2. IsFiniteSet(Outstanding(n))
  BY OutstandingFinite
<1>3. /\ Cardinality(Outstanding(n) \ Entries(edges, n, current))
           = Cardinality(Outstanding(n)) - Cardinality(Entries(edges, n, current))
      /\ Cardinality(Outstanding(n) \ Entries(edges, n, current)) \in Nat
      /\ Cardinality(Entries(edges, n, current)) \in Nat
  BY <1>1, <1>2, CountDifference, Zenon
<1>4. Reduced(current)[n] = inDegree[n] - Cardinality(Entries(edges, n, current))
  BY DEF Reduced
<1>5. inDegree[n] = Cardinality(Outstanding(n)) /\ inDegree[n] \in Nat
  BY DEF Counted, TypeOK
<1>6. QED
  BY <1>3, <1>4, <1>5

-----------------------------------------------------------------------------
(***************************************************************************)
(* The loop.                                                               *)
(***************************************************************************)

\* Before the loop nothing is emitted, every entry counts, and the queue is
\* the nodes without dependencies.
LEMMA InitIndInv == Init => IndInv
<1> SUFFICES ASSUME Init PROVE IndInv
  OBVIOUS
<1>1. edges \in [Nodes -> Seq(Nodes)]
  <2>1. PICK nodes \in [Nodes -> UNION {[1..k -> Nodes \cup {Undeclared}] : k \in 0..MaxDeps}] :
          ValidateGraph(nodes) /\ edges = BuildDependencyEdges(nodes)
    BY DEF Init
  <2>2. DOMAIN nodes = Nodes /\ edges = [n \in Nodes |-> nodes[n]]
    BY <2>1 DEF BuildDependencyEdges
  <2>3. ASSUME NEW n \in Nodes PROVE nodes[n] \in Seq(Nodes)
    <3>1. PICK k \in 0 .. MaxDeps : nodes[n] \in [1 .. k -> Nodes \cup {Undeclared}]
      BY <2>1
    <3>2. \A i \in 1 .. k : nodes[n][i] \in Nodes
      BY <2>1, <2>2, <3>1 DEF ValidateGraph
    <3>3. nodes[n] \in [1 .. k -> Nodes] /\ k \in Nat
      BY <3>1, <3>2, MaxDepsNat
    <3>4. QED
      BY <3>3
  <2>4. QED
    BY <2>2, <2>3
<1>2. \A n \in Nodes : Len(edges[n]) \in Nat /\ DOMAIN edges[n] = 1 .. Len(edges[n])
  BY <1>1
<1>3. inDegree = [n \in Nodes |-> Len(edges[n])] /\ inDegree \in [Nodes -> Nat]
  BY <1>2 DEF Init, InDegrees
<1>4. sorted = << >> /\ sorted \in Seq(Nodes) /\ Range(sorted) = {} /\ IsInjective(sorted)
  BY DEF Init, Range, IsInjective
<1>5. /\ queue \in Seq(Nodes) /\ IsInjective(queue)
      /\ Range(queue) = {n \in Nodes : inDegree[n] = 0}
  <2>1. {n \in Nodes : inDegree[n] = 0} \in SUBSET Nodes
    OBVIOUS
  <2>2. QED
    BY <2>1, MapOrderSeq DEF Init
<1>6. TypeOK /\ Answer
  BY <1>1, <1>3, <1>4, <1>5 DEF Init, TypeOK, Answer
<1>7. Counted
  <2>1. ASSUME NEW n \in Nodes PROVE inDegree[n] = Cardinality(Outstanding(n))
    <3>1. Outstanding(n) = 1 .. Len(edges[n])
      BY <1>2, <1>4 DEF Outstanding
    <3>2. Cardinality(1 .. Len(edges[n])) = Len(edges[n])
      BY <1>2, CountTo
    <3>3. QED
      BY <1>3, <3>1, <3>2
  <2>2. QED
    BY <2>1 DEF Counted
<1>8. Settled /\ Once /\ DependenciesFirst(sorted)
  BY <1>4, <1>5 DEF Settled, Once, DependenciesFirst
<1>9. QED
  BY <1>6, <1>7, <1>8 DEF IndInv

\* One iteration: the head of the queue has all its dependencies emitted, so
\* it may be emitted; the nodes whose count reaches 0 are queued, once.
LEMMA EmitIndInv == IndInv /\ Emit => IndInv'
<1> SUFFICES ASSUME IndInv, Emit PROVE IndInv'
  OBVIOUS
<1> DEFINE current == Head(queue)
<1>1. /\ edges \in [Nodes -> Seq(Nodes)] /\ inDegree \in [Nodes -> Nat]
      /\ queue \in Seq(Nodes) /\ sorted \in Seq(Nodes) /\ queue # << >>
      /\ IsInjective(sorted) /\ IsInjective(queue) /\ Range(sorted) \cap Range(queue) = {}
  BY DEF IndInv, TypeOK, Once, Emit
<1>2. /\ current \in Nodes /\ Tail(queue) \in Seq(Nodes) /\ IsInjective(Tail(queue))
      /\ Range(Tail(queue)) = Range(queue) \ {current} /\ current \in Range(queue)
  BY <1>1, TailOnce
<1> HIDE DEF current
<1>3. current \notin Range(sorted) /\ inDegree[current] = 0
  BY <1>1, <1>2 DEF IndInv, Settled
<1>4. PICK batch \in MapOrders(Ready(current)) : queue' = Tail(queue) \o batch
  BY Zenon DEF Emit, current
<1>5. /\ sorted' = Append(sorted, current) /\ inDegree' = Reduced(current)
      /\ UNCHANGED <<edges, result>> /\ result = "running"
  BY DEF Emit, current
<1>6. /\ sorted' \in Seq(Nodes) /\ Range(sorted') = Range(sorted) \cup {current}
      /\ IsInjective(sorted')
  BY <1>1, <1>2, <1>3, <1>5, AppendOnce
<1>7. ASSUME NEW n \in Nodes
      PROVE  /\ inDegree'[n] = Cardinality(Outstanding(n)')
             /\ inDegree'[n] \in Nat /\ inDegree'[n] <= inDegree[n]
  <2>1. Outstanding(n)' = Outstanding(n) \ Entries(edges, n, current)
    BY <1>5, <1>6 DEF Outstanding, Entries
  <2>2. QED
    BY <1>2, <1>3, <1>5, <2>1, ReducedCounts, Zenon DEF IndInv
<1>8. /\ batch \in Seq(Nodes) /\ IsInjective(batch)
      /\ Range(batch) = {n \in Nodes : inDegree[n] > 0 /\ inDegree'[n] = 0}
  <2>1. Ready(current) = {n \in Nodes : inDegree[n] > 0 /\ inDegree'[n] = 0}
    BY <1>5 DEF Ready
  <2>2. QED
    BY <1>4, <2>1, MapOrderSeq
<1>9. \A n \in Range(queue) \cup Range(sorted) : n \in Nodes /\ inDegree[n] = 0
  <2>1. Range(queue) \subseteq Nodes /\ Range(sorted) \subseteq Nodes
    BY <1>1 DEF Range
  <2>2. QED
    BY <2>1 DEF IndInv, Settled
<1>10. /\ queue' \in Seq(Nodes) /\ IsInjective(queue')
       /\ Range(queue') = Range(Tail(queue)) \cup Range(batch)
  <2>1. Range(Tail(queue)) \cap Range(batch) = {}
    BY <1>2, <1>8, <1>9
  <2>2. QED
    BY <1>2, <1>4, <1>8, <2>1, ConcatOnce, Zenon
<1>11. Once'
  <2>1. Range(sorted') \cap Range(queue') = {}
    BY <1>1, <1>2, <1>6, <1>8, <1>9, <1>10
  <2>2. QED
    BY <1>6, <1>10, <2>1 DEF Once
<1>12. Settled'
  <2>1. ASSUME NEW n \in Nodes
        PROVE  inDegree'[n] = 0 <=> n \in Range(sorted') \cup Range(queue')
    <3>1. inDegree[n] = 0 <=> n \in Range(sorted) \cup Range(queue)
      BY DEF IndInv, Settled
    <3>2. inDegree[n] \in Nat /\ inDegree'[n] \in Nat /\ inDegree'[n] <= inDegree[n]
      BY <1>1, <1>7
    <3>3. n \in Range(batch) <=> inDegree[n] # 0 /\ inDegree'[n] = 0
      BY <1>8, <3>2
    <3>4. inDegree[n] = 0 => inDegree'[n] = 0
      BY <3>2
    <3>5. n \in Range(sorted') \cup Range(queue')
             <=> n \in Range(sorted) \cup Range(queue) \cup Range(batch)
      BY <1>2, <1>6, <1>10
    <3>6. QED
      BY <3>1, <3>3, <3>4, <3>5
  <2>2. QED
    BY <2>1 DEF Settled
<1>13. TypeOK' /\ Counted' /\ Answer'
  <2>1. inDegree' \in [Nodes -> Nat]
    BY <1>5, <1>7 DEF Reduced
  <2>2. QED
    BY <1>1, <1>5, <1>6, <1>7, <1>10, <2>1 DEF IndInv, TypeOK, Counted, Answer
<1>14. DependenciesFirst(sorted)'
  <2>1. \A k \in DOMAIN edges[current] : edges[current][k] \in Range(sorted)
    <3>1. Outstanding(current) = {}
      BY <1>2, <1>3, OutstandingFinite DEF IndInv, Counted
    <3>2. QED
      BY <3>1 DEF Outstanding
  <2>2. /\ Len(sorted) \in Nat /\ Len(sorted') = Len(sorted) + 1
        /\ sorted'[Len(sorted) + 1] = current
        /\ \A i \in 1 .. Len(sorted) : sorted'[i] = sorted[i]
    BY <1>1, <1>2, <1>5
  <2>3. ASSUME NEW i \in 1 .. Len(sorted'), NEW k \in DOMAIN edges[sorted'[i]]
        PROVE  \E j \in 1 .. (i - 1) : sorted'[j] = edges[sorted'[i]][k]
    <3>1. CASE i = Len(sorted) + 1
      <4>1. edges[current][k] \in Range(sorted)
        BY <2>1, <2>2, <2>3, <3>1
      <4>2. PICK j \in 1 .. Len(sorted) : sorted[j] = edges[current][k]
        <5>1. DOMAIN sorted = 1 .. Len(sorted)
          BY <1>1
        <5>2. QED
          BY <4>1, <5>1 DEF Range
      <4>3. j \in 1 .. (i - 1)
        BY <2>2, <3>1
      <4>4. QED
        BY <2>2, <3>1, <4>2, <4>3
    <3>2. CASE i \in 1 .. Len(sorted)
      <4>1. PICK j \in 1 .. (i - 1) : sorted[j] = edges[sorted[i]][k]
        BY <2>2, <2>3, <3>2 DEF IndInv, DependenciesFirst
      <4>2. j \in 1 .. Len(sorted)
        BY <2>2, <3>2
      <4>3. QED
        BY <2>2, <3>2, <4>1, <4>2
    <3>3. QED
      BY <2>2, <3>1, <3>2
  <2>4. edges' = edges
    BY <1>5
  <2>5. QED
    BY <2>3, <2>4, Zenon DEF DependenciesFirst
<1>15. QED
  BY <1>11, <1>12, <1>13, <1>14 DEF IndInv

\* Every step keeps what the loop maintains.
LEMMA NextIndInv == IndInv /\ [Next]_vars => IndInv'
<1>1. IndInv /\ Finish => IndInv'
  <2> SUFFICES ASSUME IndInv, Finish PROVE IndInv'
    OBVIOUS
  <2>1. UNCHANGED <<edges, inDegree, queue, sorted>> /\ queue = << >>
    BY DEF Finish
  <2>2. Counted' /\ Settled' /\ Once' /\ DependenciesFirst(sorted)'
    BY <2>1 DEF IndInv, Counted, Outstanding, Settled, Once, DependenciesFirst
  <2>3. TypeOK' /\ Answer'
    BY <2>1 DEF IndInv, Finish, TypeOK, Answer
  <2>4. QED
    BY <2>2, <2>3 DEF IndInv
<1>2. IndInv /\ UNCHANGED vars => IndInv'
  BY DEF IndInv, vars, TypeOK, Counted, Outstanding, Settled, Once, DependenciesFirst, Answer
<1>3. QED
  BY <1>1, <1>2, EmitIndInv DEF Next

-----------------------------------------------------------------------------
(***************************************************************************)
(* The answer.                                                             *)
(***************************************************************************)

\* Reversed, an order with dependencies first has them last.
LEMMA ReverseDependencies ==
    ASSUME sorted \in Seq(Nodes), DependenciesFirst(sorted)
    PROVE  DependenciesLast(ReverseOrder(sorted))
<1> DEFINE n == Len(sorted)
           r == ReverseOrder(sorted)
<1>1. /\ n \in Nat /\ Len(r) = n
      /\ \A i \in 1 .. n : n + 1 - i \in 1 .. n /\ r[i] = sorted[n + 1 - i]
  BY DEF ReverseOrder
<1> HIDE DEF n, r
<1>2. ASSUME NEW i \in 1 .. n, NEW k \in DOMAIN edges[r[i]]
      PROVE  \E j \in (i + 1) .. n : r[j] = edges[r[i]][k]
  <2> DEFINE h == n + 1 - i
  <2>0. h \in 1 .. n /\ r[i] = sorted[h] /\ k \in DOMAIN edges[sorted[h]]
    BY <1>1, <1>2
  <2> HIDE DEF h
  <2>1. PICK m \in 1 .. (h - 1) : sorted[m] = edges[r[i]][k]
    BY <2>0 DEF DependenciesFirst, n
  <2>2. /\ n + 1 - m \in (i + 1) .. n /\ n + 1 - m \in 1 .. n
        /\ n + 1 - (n + 1 - m) = m
    BY <1>1, <2>0 DEF h
  <2>3. r[n + 1 - m] = sorted[m]
    BY <1>1, <2>2
  <2>4. QED
    BY <2>1, <2>2, <2>3
<1>3. QED
  BY <1>1, <1>2 DEF DependenciesLast, r

\* TopologicalSort (graph.go) is right for every valid deployment: an order it
\* returns lists every resource once and after what it depends on, reversed it
\* is a deletion order, and a cycle it reports is there.
THEOREM SortIsCorrect == Spec => []SortCorrect
<1>1. IndInv => SortCorrect
  <2> SUFFICES ASSUME IndInv PROVE SortCorrect
    OBVIOUS
  <2>1. sorted \in Seq(Nodes) /\ IsInjective(sorted)
    BY DEF IndInv, TypeOK, Once
  <2>2. Len(sorted) = Cardinality(Nodes) <=> Range(sorted) = Nodes
    BY <2>1, LengthTells
  <2>3. SortedIsCreationOrder
    BY <2>1, <2>2, ReverseDependencies DEF IndInv, SortedIsCreationOrder, Answer
  <2>4. ASSUME result = "cycle"
        PROVE  \E S \in SUBSET Nodes :
                  S # {} /\ \A n \in S : \E k \in DOMAIN edges[n] : edges[n][k] \in S
    <3> DEFINE S == Nodes \ Range(sorted)
    <3>1. Range(sorted) \subseteq Nodes
      BY <2>1 DEF Range
    <3>2. S # {}
      BY <2>2, <2>4, <3>1 DEF IndInv, Answer
    <3>3. ASSUME NEW n \in S PROVE \E k \in DOMAIN edges[n] : edges[n][k] \in S
      <4>1. Range(queue) = {}
        BY <2>4 DEF IndInv, Answer, Range
      <4>2. inDegree[n] # 0
        BY <4>1 DEF IndInv, Settled
      <4>3. Outstanding(n) # {}
        BY <4>2, OutstandingFinite DEF IndInv, Counted
      <4>4. \A k \in DOMAIN edges[n] : edges[n][k] \in Nodes
        BY DEF IndInv, TypeOK
      <4>5. QED
        BY <4>3, <4>4 DEF Outstanding
    <3>4. QED
      BY <3>2, <3>3, Zenon
  <2>5. QED
    BY <2>3, <2>4, Zenon DEF SortCorrect, CycleIsReal
<1>2. QED
  BY <1>1, InitIndInv, NextIndInv, PTL DEF Spec

-----------------------------------------------------------------------------
(***************************************************************************)
(* ProcessSupervisor.  Nothing orders Start, Stop, Shutdown and the        *)
(* goroutines, so the invariant follows each record on its own: where its  *)
(* goroutine can have a child, why it ended, who marked it stopped, and in *)
(* what state Start replaced it.                                           *)
(***************************************************************************)

\* Where a goroutine has no child.
Childless == {"spawned", "loop", "start", "fork", "backoff", "ended"}

\* A Stop was called on p, or Shutdown.
Stopped(p) == shutdown # "no" \/ \E s \in DOMAIN stops : stops[s].on = p

\* What holds of the record of goroutine p.
RecordInv(p) ==
  /\ procs[p].pc \in Childless => ~ Alive(p)
  /\ procs[p].pc \in {"start", "fork", "started", "wait", "backoff"} =>
       (MaxRestarts > 0 => procs[p].restarts < MaxRestarts)
  /\ MaxRestarts > 0 => procs[p].restarts <= MaxRestarts
  /\ procs[p].pc = "ended" => Cancelled(p) \/ procs[p].restarts = MaxRestarts
  /\ procs[p].state = "failed" => procs[p].pc = "ended"
  /\ procs[p].state \in {"stopping", "stopped"} => Stopped(p)
  /\ shutdown = "done" => procs[p].pc \in {"spawned", "loop", "ended"}

\* What holds of a goroutine whose entry Start replaced.
DisplacedInv(p) ==
  /\ displaced[p] \in States \ {"running"}
  /\ displaced[p] = "failed" => procs[p].pc = "ended"
  /\ displaced[p] \in {"stopping", "stopped"} => Stopped(p)

SupInv ==
  /\ SupTypeOK
  /\ entry = Len(procs)
  /\ shutdown = "stopping" => entry # 0
  /\ \A p \in Goroutines : RecordInv(p)
  /\ \A p \in Goroutines : p # entry => DisplacedInv(p)

\* The inductive invariant gives what the run checks: a child left behind
\* was displaced between two children or stopped, none survives Shutdown, and
\* superviseProcess returned for one of its two reasons.
LEMMA SupInvImplies == SupInv => NoStrayChild
<1> SUFFICES ASSUME SupInv PROVE NoStrayChild
  OBVIOUS
<1>1. SupTypeOK
  BY DEF SupInv
<1>2. StrayWasLeftBehind
  <2> SUFFICES ASSUME NEW p \in Goroutines, Alive(p), ~ Cancelled(p), p # entry
               PROVE  \/ displaced[p] \in {"starting", "crashed", "restarting"}
                      \/ \E s \in DOMAIN stops : stops[s].on = p
    BY DEF StrayWasLeftBehind
  <2>1. DisplacedInv(p) /\ RecordInv(p)
    BY DEF SupInv
  <2>2. shutdown = "no" /\ procs[p].pc # "ended"
    BY <2>1 DEF Cancelled, RecordInv, Alive, Childless
  <2> QED
    BY <2>1, <2>2 DEF DisplacedInv, Stopped, States
<1>3. ShutdownLeavesNothing
  BY DEF SupInv, ShutdownLeavesNothing, RecordInv, Alive, Childless
<1>4. EndedForAReason
  BY DEF SupInv, EndedForAReason, RecordInv, Alive, Childless, Cancelled
<1> QED
  BY <1>1, <1>2, <1>3, <1>4 DEF NoStrayChild

\* Assigning to one field of a record in the table leaves the others alone.
LEMMA SeqUpdate ==
  ASSUME NEW S, NEW s \in Seq(S), NEW i \in 1..Len(s), NEW e \in S, NEW t, t = [s EXCEPT ![i] = e]
  PROVE  t \in Seq(S) /\ Len(t) = Len(s) /\ t[i] = e /\ \A j \in 1..Len(s) : j # i => t[j] = s[j]
  BY ExceptSeq

\* The calls of Stop refer to records made so far, also after a Start.
LEMMA SeqWiden ==
  ASSUME NEW S, NEW T, S \subseteq T, NEW s \in Seq(S)
  PROVE  s \in Seq(T)
  OBVIOUS

\* One record is replaced, as every step of a goroutine and of a Stop does.
LEMMA OneRecord ==
  ASSUME SupInv, NEW p \in Goroutines,
         procs'[p] \in Processes, procs' = [procs EXCEPT ![p] = procs'[p]],
         UNCHANGED <<entry, displaced>>,
         stops' \in Seq([on : Goroutines, pc : {"cancel", "wait", "done"}]),
         \A q \in Goroutines : Stopped(q) => Stopped(q)',
         shutdown' = shutdown \/ (shutdown = "stopping" /\ shutdown' = "waiting"),
         RecordInv(p)',
         procs[p].pc = "ended" => procs'[p].pc = "ended"
  PROVE  SupInv'
<1>1. procs \in Seq(Processes) /\ Goroutines = 1..Len(procs)
  BY DEF SupInv, SupTypeOK, Goroutines
<1>2. procs' \in Seq(Processes) /\ Len(procs') = Len(procs) /\ Goroutines' = Goroutines
  <2> DEFINE r == procs'[p]
  <2>1. r \in Processes /\ procs' = [procs EXCEPT ![p] = r] /\ p \in 1..Len(procs)
    BY <1>1
  <2> HIDE DEF r
  <2>2. procs' \in Seq(Processes) /\ Len(procs') = Len(procs)
    BY <1>1, <2>1, SeqUpdate
  <2> QED
    BY <1>1, <2>2 DEF Goroutines
<1>3. \A q \in Goroutines : q # p => procs'[q] = procs[q]
  BY <1>1
<1>4. ASSUME NEW q \in Goroutines PROVE RecordInv(q)'
  <2>1. CASE q = p
    BY <2>1
  <2>2. CASE q # p
    <3>1. RecordInv(q) /\ procs'[q] = procs[q] /\ (Stopped(q) => Stopped(q)')
      BY <1>3, <2>2 DEF SupInv
    <3> QED
      BY <3>1 DEF RecordInv, Alive, Cancelled
  <2> QED
    BY <2>1, <2>2
<1>5. ASSUME NEW q \in Goroutines, q # entry PROVE DisplacedInv(q)'
  <2>1. DisplacedInv(q)
    BY <1>5 DEF SupInv
  <2>2. procs[q].pc = "ended" => procs'[q].pc = "ended"
    BY <1>3
  <2> QED
    BY <2>1, <2>2 DEF DisplacedInv
<1>6. SupTypeOK'
  <2>1. \A q \in Goroutines : MaxRestarts > 0 => procs'[q].restarts <= MaxRestarts
    BY <1>4 DEF RecordInv
  <2> QED
    BY <1>2, <2>1 DEF SupTypeOK, SupInv
<1> QED
  BY <1>2, <1>4, <1>5, <1>6 DEF SupInv

\* superviseProcess: entering, the head of the loop, cmd.Start, the fork,
\* cmd.Wait, the backoff; and the end of a child, killed or not.
LEMMA SuperviseInv ==
  ASSUME SupInv, NEW p \in Goroutines, Supervise(p) \/ ChildExit(p)
  PROVE  SupInv'
<1>1. procs \in Seq(Processes) /\ p \in 1..Len(procs)
  BY DEF SupInv, SupTypeOK, Goroutines
<1>2. RecordInv(p) /\ procs[p] \in Processes
  BY <1>1 DEF SupInv
<1> DEFINE Good(r) == /\ r \in Processes
                      /\ r.pc \in Childless => r.cmd # "alive"
                      /\ r.pc \in {"start", "fork", "started", "wait", "backoff"} =>
                            (MaxRestarts > 0 => r.restarts < MaxRestarts)
                      /\ MaxRestarts > 0 => r.restarts <= MaxRestarts
                      /\ r.pc = "ended" => r.done \/ shutdown # "no" \/ r.restarts = MaxRestarts
                      /\ r.state = "failed" => r.pc = "ended"
                      /\ r.state \in {"stopping", "stopped"} => Stopped(p)
                      /\ shutdown = "done" => r.pc \in {"spawned", "loop", "ended"}
                      /\ procs[p].pc = "ended" => r.pc = "ended"
           Becomes(r) == procs' = [procs EXCEPT ![p] = r] /\ UNCHANGED <<entry, stops, shutdown, displaced>>
<1>3. ASSUME NEW r \in Processes, Good(r), Becomes(r) PROVE SupInv'
  <2>1. procs'[p] = r
    BY <1>1, <1>3
  <2>2. \A q \in Goroutines : Stopped(q) <=> Stopped(q)'
    BY <1>3 DEF Stopped
  <2>3. RecordInv(p)'
    BY <2>1, <2>2, <1>3 DEF RecordInv, Alive, Cancelled
  <2>4. stops' \in Seq([on : Goroutines, pc : {"cancel", "wait", "done"}])
    BY <1>3 DEF SupInv, SupTypeOK
  <2> QED
    BY <2>1, <2>2, <2>3, <2>4, <1>3, OneRecord, Zenon
<1>4. CASE SuperviseEnter(p)
  <2> DEFINE r == [procs[p] EXCEPT !.cancel = TRUE, !.pc = "loop"]
  <2>1. Good(r) /\ Becomes(r)
    BY <1>2, <1>4, Zenon DEF SuperviseEnter, Step, Processes, RecordInv, Childless, Alive
  <2> QED
    BY <2>1, <1>3, Zenon
<1>5. CASE LoopHead(p)
  <2>1. CASE Cancelled(p)
    <3> DEFINE r == [procs[p] EXCEPT !.pc = "ended"]
    <3>1. Good(r) /\ Becomes(r)
      BY <1>2, <1>5, <2>1, Zenon DEF LoopHead, Step, LoopContext, Cancelled, Processes, RecordInv, Childless, Alive
    <3> QED
      BY <3>1, <1>3, Zenon
  <2>2. CASE ~ Cancelled(p) /\ Exhausted(p)
    <3> DEFINE r == [procs[p] EXCEPT !.pc = "ended", !.state = "failed"]
    <3>1. Becomes(r)
      BY <1>5, <2>2 DEF LoopHead, Step, LoopContext
    <3>2. /\ r \in Processes /\ r.pc = "ended" /\ r.state = "failed"
          /\ r.restarts = procs[p].restarts /\ r.cmd = procs[p].cmd
      BY <1>2, Zenon DEF Processes, States
    <3>3. procs[p].restarts = MaxRestarts /\ MaxRestarts > 0 /\ procs[p].cmd # "alive"
      <4>1. procs[p].pc = "loop" /\ procs[p].restarts \in Nat
        BY <1>2, <1>5 DEF LoopHead, Step, Processes
      <4> QED
        BY <1>2, <2>2, <4>1, RestartsAssumption DEF Exhausted, RecordInv, Childless, Alive
    <3> HIDE DEF r
    <3>4. Good(r)
      BY <3>2, <3>3, RestartsAssumption
    <3> QED
      BY <3>1, <3>2, <3>4, <1>3, Zenon
  <2>3. CASE ~ Cancelled(p) /\ ~ Exhausted(p)
    <3> DEFINE r == [procs[p] EXCEPT !.pc = "start", !.state = "starting", !.cmd = None]
    <3>1. Becomes(r)
      BY <1>5, <2>3 DEF LoopHead, Step, LoopContext
    <3>2. /\ r \in Processes /\ r.pc = "start" /\ r.state = "starting"
          /\ r.restarts = procs[p].restarts /\ r.cmd = None
      BY <1>2, Zenon DEF Processes, States, None
    <3>3. procs[p].pc = "loop" /\ (MaxRestarts > 0 => procs[p].restarts < MaxRestarts) /\ shutdown = "no"
      <4>1. procs[p].pc = "loop" /\ procs[p].restarts \in Nat
        BY <1>2, <1>5 DEF LoopHead, Step, Processes
      <4> QED
        BY <2>3, <4>1, RestartsAssumption DEF Exhausted, Cancelled
    <3> HIDE DEF r
    <3>4. Good(r)
      BY <3>2, <3>3, RestartsAssumption DEF None, Processes
    <3> QED
      BY <3>1, <3>2, <3>4, <1>3, Zenon
  <2> QED
    BY <2>1, <2>2, <2>3
<1>6. CASE CmdStart(p)
  <2>1. CASE ~ LoopContext(p) /\ Step(p, "start", [procs[p] EXCEPT !.pc = "fork"])
    <3> DEFINE r == [procs[p] EXCEPT !.pc = "fork"]
    <3>1. Good(r) /\ Becomes(r)
      BY <1>2, <2>1 DEF Step, LoopContext, Cancelled, Processes, RecordInv, Childless, Alive
    <3> QED
      BY <3>1, <1>3, Zenon
  <2>2. CASE Step(p, "start", [procs[p] EXCEPT !.pc = "backoff", !.state = "crashed"])
    <3> DEFINE r == [procs[p] EXCEPT !.pc = "backoff", !.state = "crashed"]
    <3>1. Good(r) /\ Becomes(r)
      BY <1>2, <2>2, Zenon DEF Step, Processes, RecordInv, Childless, Alive, States
    <3> QED
      BY <3>1, <1>3, Zenon
  <2> QED
    BY <1>6, <2>1, <2>2 DEF CmdStart
<1>7. CASE CmdFork(p)
  <2> DEFINE r == [procs[p] EXCEPT !.pc = "started", !.cmd = "alive"]
  <2>1. Good(r) /\ Becomes(r)
    BY <1>2, <1>7, Zenon DEF CmdFork, Step, Processes, RecordInv, Childless
  <2> QED
    BY <2>1, <1>3, Zenon
<1>8. CASE MarkRunning(p)
  <2> DEFINE r == [procs[p] EXCEPT !.pc = "wait", !.state = "running"]
  <2>1. Good(r) /\ Becomes(r)
    BY <1>2, <1>8, Zenon DEF MarkRunning, Step, Processes, RecordInv, Childless, States
  <2> QED
    BY <2>1, <1>3, Zenon
<1>9. CASE CmdWait(p)
  <2>1. CASE Cancelled(p)
    <3> DEFINE r == [procs[p] EXCEPT !.pc = "ended"]
    <3>1. Good(r) /\ Becomes(r)
      BY <1>2, <1>9, <2>1, Zenon DEF CmdWait, Step, LoopContext, Cancelled, Processes, RecordInv, Childless, Alive
    <3> QED
      BY <3>1, <1>3, Zenon
  <2>2. CASE ~ Cancelled(p)
    <3> DEFINE r == [procs[p] EXCEPT !.pc = "backoff", !.state = "restarting"]
    <3>1. Good(r) /\ Becomes(r)
      BY <1>2, <1>9, <2>2, Zenon DEF CmdWait, Step, LoopContext, Cancelled, Processes, RecordInv, Childless, Alive, States
    <3> QED
      BY <3>1, <1>3, Zenon
  <2> QED
    BY <2>1, <2>2
<1>10. CASE Backoff(p)
  <2>0. PICK n \in Nat : n = procs[p].restarts + 1
    BY <1>2 DEF Processes
  <2> DEFINE r == [procs[p] EXCEPT !.pc = "loop", !.restarts = n]
  <2>1. Becomes(r)
    BY <1>2, <1>10, <2>0 DEF Backoff, Step, Processes
  <2>2. /\ r \in Processes /\ r.pc = "loop" /\ r.state = procs[p].state
        /\ r.restarts = n /\ r.cmd = procs[p].cmd
    BY <1>2, Zenon DEF Processes
  <2>3. /\ procs[p].pc = "backoff" /\ procs[p].restarts \in Nat
    BY <1>2, <1>10 DEF Backoff, Step, Processes
  <2>4. /\ MaxRestarts > 0 => procs[p].restarts < MaxRestarts
        /\ procs[p].state # "failed" /\ procs[p].cmd # "alive"
        /\ procs[p].state \in {"stopping", "stopped"} => Stopped(p)
    BY <1>2, <2>3 DEF RecordInv, Childless, Alive
  <2> HIDE DEF r
  <2>5. Good(r)
    BY <2>0, <2>2, <2>3, <2>4, RestartsAssumption
  <2> QED
    BY <2>1, <2>2, <2>5, <1>3, Zenon
<1>11. CASE ContextKill(p) \/ ChildExit(p)
  <2> DEFINE r == [procs[p] EXCEPT !.cmd = "dead"]
  <2>1. Becomes(r)
    BY <1>1, <1>11 DEF ContextKill, ChildExit, Processes
  <2>2. Good(r)
    BY <1>1, <1>2 DEF Processes, RecordInv, Childless, Cancelled
  <2> QED
    BY <2>1, <2>2, <1>3, Zenon
<1> HIDE DEF Good, Becomes
<1> QED
  BY <1>4, <1>5, <1>6, <1>7, <1>8, <1>9, <1>10, <1>11, Zenon DEF Supervise

\* The second half of Stop: the cancellation, and the kill after two seconds.
LEMMA StopInv ==
  ASSUME SupInv, NEW s \in DOMAIN stops, StopStep(s)
  PROVE  SupInv'
<1> DEFINE Calls == [on : Goroutines, pc : {"cancel", "wait", "done"}]
<1>1. stops \in Seq(Calls) /\ stops[s] \in Calls
  <2>1. stops \in Seq(Calls)
    BY DEF SupInv, SupTypeOK
  <2> HIDE DEF Calls
  <2> QED
    BY <2>1
<1>2. PICK p \in Goroutines : p = stops[s].on
  BY <1>1
<1>3. procs \in Seq(Processes) /\ p \in 1..Len(procs)
  BY DEF SupInv, SupTypeOK, Goroutines
<1>4. RecordInv(p) /\ Stopped(p) /\ procs[p] \in Processes
  BY <1>2, <1>3 DEF SupInv, Stopped
<1>5. /\ stops' \in Seq(Calls) /\ DOMAIN stops' = DOMAIN stops
      /\ \A t \in DOMAIN stops : stops'[t].on = stops[t].on
      /\ UNCHANGED <<entry, shutdown, displaced>>
  <2>1. PICK x \in {"wait", "done"} : stops' = [stops EXCEPT ![s].pc = x]
    BY DEF StopStep, StopCancel, StopFinish
  <2> DEFINE c == [stops[s] EXCEPT !.pc = x]
  <2>2. c \in Calls /\ c.on = stops[s].on /\ stops' = [stops EXCEPT ![s] = c]
    BY <1>1, <2>1
  <2>3. s \in 1..Len(stops) /\ UNCHANGED <<entry, shutdown, displaced>>
    BY <1>1 DEF StopStep, StopCancel, StopFinish
  <2> HIDE DEF c, Calls
  <2>4. /\ stops' \in Seq(Calls) /\ Len(stops') = Len(stops) /\ stops'[s] = c
        /\ \A j \in 1..Len(stops) : j # s => stops'[j] = stops[j]
    BY <1>1, <2>2, <2>3, SeqUpdate
  <2> QED
    BY <1>1, <2>2, <2>3, <2>4
<1>6. \A q : Stopped(q)' <=> Stopped(q)
  BY <1>5 DEF Stopped
<1>7. /\ procs'[p] \in Processes /\ procs' = [procs EXCEPT ![p] = procs'[p]]
      /\ procs'[p].pc = procs[p].pc /\ procs'[p].restarts = procs[p].restarts
      /\ procs'[p].state = procs[p].state \/ procs'[p].state = "stopped"
      /\ procs[p].done => procs'[p].done
      /\ procs'[p].cmd = "alive" => procs[p].cmd = "alive"
  <2>1. CASE StopCancel(s)
    <3> DEFINE r == [procs[p] EXCEPT !.done = @ \/ procs[p].cancel]
    <3>1. procs' = [procs EXCEPT ![p] = r]
      BY <1>2, <2>1 DEF StopCancel, CancelProc
    <3>3. /\ r \in Processes /\ r.pc = procs[p].pc /\ r.restarts = procs[p].restarts
          /\ r.state = procs[p].state /\ r.cmd = procs[p].cmd /\ (procs[p].done => r.done)
      BY <1>4 DEF Processes
    <3> HIDE DEF r
    <3>4. procs'[p] = r
      BY <1>3, <3>1
    <3> QED
      BY <3>1, <3>3, <3>4, Zenon
  <2>2. CASE StopFinish(s)
    <3> DEFINE r == [procs[p] EXCEPT !.state = "stopped", !.cmd = IF @ = "alive" THEN "dead" ELSE @]
    <3>1. procs' = [procs EXCEPT ![p] = r]
      BY <1>2, <1>3, <2>2, Zenon DEF StopFinish
    <3>3. /\ r \in Processes /\ r.pc = procs[p].pc /\ r.restarts = procs[p].restarts
          /\ r.state = "stopped" /\ r.cmd # "alive" /\ r.done = procs[p].done
      BY <1>4, Zenon DEF Processes, States, None
    <3> HIDE DEF r
    <3>4. procs'[p] = r
      BY <1>3, <3>1
    <3> QED
      BY <3>1, <3>3, <3>4, Zenon
  <2> QED
    BY <2>1, <2>2 DEF StopStep
<1>8. RecordInv(p)'
  BY <1>4, <1>5, <1>6, <1>7 DEF RecordInv, Alive, Cancelled
<1> QED
  BY <1>5, <1>6, <1>7, <1>8, OneRecord, Zenon

\* Stop marks the entry; ShutdownStop does all of Stop at once.
LEMMA MarkInv ==
  ASSUME SupInv, StopBegin \/ ShutdownStop
  PROVE  SupInv'
<1> DEFINE Calls == [on : Goroutines, pc : {"cancel", "wait", "done"}]
<1>1. procs \in Seq(Processes) /\ entry \in 1..Len(procs) /\ entry \in Goroutines
  BY DEF SupInv, SupTypeOK, Goroutines, StopBegin, ShutdownStop
<1>2. PICK p \in Goroutines : p = entry
  BY <1>1
<1>3. RecordInv(p) /\ procs[p] \in Processes
  BY <1>1, <1>2 DEF SupInv
<1>4. stops \in Seq(Calls)
  BY DEF SupInv, SupTypeOK
<1>5. CASE StopBegin
  <2> DEFINE r == [procs[p] EXCEPT !.state = "stopping"]
  <2>1. procs' = [procs EXCEPT ![p] = r]
    BY <1>2, <1>5 DEF StopBegin
  <2>2. /\ r \in Processes /\ r.pc = procs[p].pc /\ r.restarts = procs[p].restarts
        /\ r.state = "stopping" /\ r.cmd = procs[p].cmd /\ r.done = procs[p].done
    BY <1>3 DEF Processes, States
  <2> HIDE DEF r
  <2>3. procs'[p] = r
    BY <1>1, <1>2, <2>1
  <2>4. stops' = Append(stops, [on |-> p, pc |-> "cancel"]) /\ UNCHANGED <<entry, shutdown, displaced>>
    BY <1>2, <1>5 DEF StopBegin
  <2>5. stops' \in Seq(Calls)
    BY <1>4, <2>4
  <2>6. /\ DOMAIN stops \subseteq DOMAIN stops' /\ \A t \in DOMAIN stops : stops'[t] = stops[t]
        /\ Len(stops) + 1 \in DOMAIN stops' /\ stops'[Len(stops) + 1].on = p
    <3> HIDE DEF Calls
    <3> QED
      BY <1>4, <2>4
  <2>7. Stopped(p)' /\ \A q \in Goroutines : Stopped(q) => Stopped(q)'
    BY <2>4, <2>6 DEF Stopped
  <2>8. RecordInv(p)'
    BY <1>3, <2>2, <2>3, <2>4, <2>7 DEF RecordInv, Alive, Cancelled
  <2> QED
    BY <2>1, <2>2, <2>3, <2>4, <2>5, <2>7, <2>8, OneRecord, Zenon
<1>6. CASE ShutdownStop
  <2> DEFINE r == [procs[p] EXCEPT !.state = "stopped", !.done = @ \/ procs[p].cancel,
                                   !.cmd = IF @ = "alive" THEN "dead" ELSE @]
  <2>1. procs' = [procs EXCEPT ![p] = r]
    BY <1>1, <1>2, <1>6, Zenon DEF ShutdownStop
  <2>2. /\ r \in Processes /\ r.pc = procs[p].pc /\ r.restarts = procs[p].restarts
        /\ r.state = "stopped" /\ r.cmd # "alive" /\ (procs[p].done => r.done)
    BY <1>3, Zenon DEF Processes, States, None
  <2> HIDE DEF r
  <2>3. procs'[p] = r
    BY <1>1, <1>2, <2>1
  <2>4. shutdown = "stopping" /\ shutdown' = "waiting" /\ UNCHANGED <<entry, stops, displaced>>
    BY <1>6 DEF ShutdownStop
  <2>5. \A q \in Goroutines : Stopped(q)'
    BY <2>4 DEF Stopped
  <2>6. RecordInv(p)'
    BY <1>3, <2>2, <2>3, <2>4, <2>5 DEF RecordInv, Alive, Cancelled
  <2> QED
    BY <1>4, <2>1, <2>2, <2>3, <2>4, <2>5, <2>6, OneRecord, Zenon
<1> QED
  BY <1>5, <1>6

\* Start adds a record that has no child yet, and notes the state of the one
\* it replaces, which is not "running".
LEMMA StartInv ==
  ASSUME SupInv, Start
  PROVE  SupInv'
<1> DEFINE n == Len(procs) + 1
<1>1. procs \in Seq(Processes) /\ Goroutines = 1..Len(procs) /\ entry = Len(procs)
  BY DEF SupInv, SupTypeOK, Goroutines
<1>2. NewProc \in Processes
  BY DEF NewProc, Processes, States, None
<1>3. procs' = Append(procs, NewProc) /\ entry' = n /\ UNCHANGED <<stops, shutdown>>
  BY DEF Start
<1>4. /\ procs' \in Seq(Processes) /\ Len(procs') = n /\ Goroutines' = 1..n
      /\ procs'[n] = NewProc /\ \A q \in Goroutines : procs'[q] = procs[q]
  BY <1>1, <1>2, <1>3 DEF Goroutines
<1>5. stops' \in Seq([on : Goroutines', pc : {"cancel", "wait", "done"}])
  <2>1. stops \in Seq([on : Goroutines, pc : {"cancel", "wait", "done"}])
    BY DEF SupInv, SupTypeOK
  <2>2. Goroutines \subseteq Goroutines'
    BY <1>1, <1>4
  <2>3. [on : Goroutines, pc : {"cancel", "wait", "done"}]
          \subseteq [on : Goroutines', pc : {"cancel", "wait", "done"}]
    BY <2>2
  <2> QED
    BY <1>3, <2>1, <2>3, SeqWiden, Zenon
<1>6. \A q : Stopped(q)' <=> Stopped(q)
  BY <1>3 DEF Stopped
<1>7. /\ displaced' \in Seq(States \cup {None}) /\ Len(displaced') = n
      /\ \A q \in Goroutines : displaced'[q] = IF q = entry THEN procs[q].state ELSE displaced[q]
  <2>1. displaced \in Seq(States \cup {None}) /\ Len(displaced) = Len(procs)
    BY DEF SupInv, SupTypeOK
  <2>2. None \in States \cup {None}
    OBVIOUS
  <2>3. CASE entry = 0
    BY <1>1, <2>1, <2>2, <2>3 DEF Start
  <2>4. CASE entry # 0
    <3> DEFINE d == [displaced EXCEPT ![entry] = procs[entry].state]
    <3>1. entry \in 1..Len(procs) /\ procs[entry].state \in States \cup {None}
      <4>1. entry \in 1..Len(procs)
        BY <1>1, <2>4
      <4>2. procs[entry] \in Processes
        BY <1>1, <4>1
      <4> QED
        BY <4>1, <4>2 DEF Processes
    <3>2. /\ d \in Seq(States \cup {None}) /\ Len(d) = Len(displaced)
          /\ d[entry] = procs[entry].state
          /\ \A j \in 1..Len(displaced) : j # entry => d[j] = displaced[j]
      BY <2>1, <3>1, SeqUpdate
    <3>3. displaced' = Append(d, None)
      BY <2>4 DEF Start
    <3> HIDE DEF d
    <3> QED
      BY <1>1, <2>1, <2>2, <3>2, <3>3
  <2> QED
    BY <2>3, <2>4
<1>8. ASSUME NEW q \in Goroutines' PROVE RecordInv(q)'
  <2>1. CASE q = n
    BY <1>4, <2>1, RestartsAssumption DEF NewProc, RecordInv, Alive, None
  <2>2. CASE q \in Goroutines
    BY <1>3, <1>4, <1>6, <2>2 DEF SupInv, RecordInv, Alive, Cancelled
  <2> QED
    BY <1>1, <1>4, <2>1, <2>2
<1>9. ASSUME NEW q \in Goroutines', q # entry' PROVE DisplacedInv(q)'
  <2>1. q \in Goroutines /\ procs'[q] = procs[q]
    BY <1>1, <1>3, <1>4, <1>9
  <2>2. CASE q = entry
    <3>1. displaced'[q] = procs[q].state /\ procs[q].state # "running" /\ procs[q] \in Processes
      BY <1>1, <1>7, <2>1, <2>2 DEF Start, MayStart
    <3>2. RecordInv(q)
      BY <2>1 DEF SupInv
    <3> QED
      BY <1>6, <2>1, <3>1, <3>2 DEF DisplacedInv, RecordInv, Processes
  <2>3. CASE q # entry
    <3>1. DisplacedInv(q) /\ displaced'[q] = displaced[q]
      BY <1>7, <2>1, <2>3 DEF SupInv
    <3> QED
      BY <1>6, <2>1, <3>1 DEF DisplacedInv
  <2> QED
    BY <2>2, <2>3
<1>10. SupTypeOK'
  <2>1. \A q \in Goroutines' : MaxRestarts > 0 => procs'[q].restarts <= MaxRestarts
    BY <1>8 DEF RecordInv
  <2>2. entry' \in 0..Len(procs') /\ shutdown' \in {"no", "stopping", "waiting", "done"}
    BY <1>1, <1>3, <1>4 DEF SupInv, SupTypeOK
  <2> QED
    BY <1>4, <1>5, <1>7, <2>1, <2>2 DEF SupTypeOK
<1> QED
  <2>1. entry' = Len(procs') /\ entry' # 0
    BY <1>1, <1>3, <1>4
  <2> QED
    BY <1>8, <1>9, <1>10, <2>1 DEF SupInv

\* Shutdown cancels every goroutine, and returns when all of them have ended.
LEMMA ShutdownInv ==
  ASSUME SupInv, Shutdown \/ ShutdownWait
  PROVE  SupInv'
<1>1. /\ UNCHANGED <<procs, entry, stops, displaced>>
      /\ shutdown' \in {"stopping", "waiting", "done"} /\ (shutdown' = "stopping" => entry # 0)
  BY DEF Shutdown, ShutdownWait
<1>2. shutdown' = "done" => \A p \in Goroutines : procs[p].pc = "ended"
  BY DEF Shutdown, ShutdownWait
<1>3. Goroutines' = Goroutines /\ \A q : Stopped(q)'
  BY <1>1 DEF Goroutines, Stopped
<1>4. ASSUME NEW q \in Goroutines PROVE RecordInv(q)'
  <2>1. RecordInv(q)
    BY DEF SupInv
  <2> QED
    BY <1>1, <1>2, <1>3, <2>1 DEF RecordInv, Alive, Cancelled
<1>5. ASSUME NEW q \in Goroutines, q # entry PROVE DisplacedInv(q)'
  BY <1>1, <1>3, <1>5 DEF SupInv, DisplacedInv
<1>6. SupTypeOK'
  BY <1>1, <1>3 DEF SupInv, SupTypeOK
<1> QED
  BY <1>1, <1>3, <1>4, <1>5, <1>6 DEF SupInv

\* Every step of Start, Stop, Shutdown, of a goroutine or of a child keeps the
\* invariant.
LEMMA SupInvStep == SupInv /\ [SupNext]_svars => SupInv'
<1> SUFFICES ASSUME SupInv, [SupNext]_svars PROVE SupInv'
  OBVIOUS
<1>1. CASE SupNext
  BY <1>1, StartInv, MarkInv, ShutdownInv, StopInv, SuperviseInv DEF SupNext
<1>2. CASE UNCHANGED svars
  <2>1. Goroutines' = Goroutines /\ UNCHANGED <<procs, entry, stops, shutdown, displaced>>
    BY <1>2 DEF svars, Goroutines
  <2>2. \A q : (Stopped(q)' <=> Stopped(q)) /\ (Alive(q)' <=> Alive(q)) /\ (Cancelled(q)' <=> Cancelled(q))
    BY <2>1 DEF Stopped, Alive, Cancelled
  <2>3. \A q \in Goroutines : (RecordInv(q) => RecordInv(q)') /\ (DisplacedInv(q) => DisplacedInv(q)')
    BY <2>1, <2>2 DEF RecordInv, DisplacedInv
  <2>4. SupTypeOK'
    BY <2>1 DEF SupInv, SupTypeOK
  <2> QED
    BY <2>1, <2>3, <2>4 DEF SupInv
<1> QED
  BY <1>1, <1>2

\* NewProcessSupervisor: no record, no call.
LEMMA SupInvInit == SupInit => SupInv
<1> SUFFICES ASSUME SupInit PROVE SupInv
  OBVIOUS
<1>1. Goroutines = {}
  BY DEF SupInit, Goroutines
<1>2. SupTypeOK
  BY <1>1 DEF SupInit, SupTypeOK
<1> QED
  BY <1>1, <1>2 DEF SupInit, SupInv

\* Whatever Start, Stop and Shutdown callers do and whenever children exit, for
\* every restart limit (0, no limit, included): a child nobody is about to
\* kill and that is not the table's entry was left behind by a Start on an
\* entry between two children or by a Stop; Shutdown leaves none; and
\* superviseProcess returns only when cancelled or at the limit.
THEOREM SupervisorSafe == SupSpec => []NoStrayChild
<1>1. SupInit => SupInv
  BY SupInvInit
<1>2. SupInv /\ [SupNext]_svars => SupInv'
  BY SupInvStep
<1>3. SupInv => NoStrayChild
  BY SupInvImplies
<1> QED
  BY <1>1, <1>2, <1>3, PTL DEF SupSpec
=============================================================================
