------------------------------ MODULE DagProofs ------------------------------
(***************************************************************************)
(* Proofs about Dag, for every list of operations: the sort keeps its      *)
(* invariant, never puts an operation before one it depends on, calls a    *)
(* list cyclic only if it is, and does what TopoOrder promises; and where  *)
(* it puts roots and dropped constraints.                                  *)
(***************************************************************************)
EXTENDS Dag, SequenceLemmas

----------------------------------------------------------------------------
(* Types.                                                                  *)

\* The nodes of a list are the numbers from 1 to its length.
LEMMA NodeIsInterval ==
  ASSUME ops \in Seq(Operation)
  PROVE  /\ Len(ops) \in Nat
         /\ Node = 1..Len(ops)
         /\ None \notin Node
         /\ \A n \in Node : ops[n].dependsOn \in Seq(ObjectKey)
BY OperationAssumption DEF Node, None

\* A key resolves to a node or to nothing.
LEMMA FindNodeType ==
  ASSUME ops \in Seq(Operation), NEW key
  PROVE  findNodeByObjectKey(key) \in Node \cup {None}
<1>1. CASE Matches(key) = {}
  BY <1>1 DEF findNodeByObjectKey
<1>2. CASE Matches(key) # {}
  <2> DEFINE S == Preferred(Matches(key))
  <2>1. S # {} /\ S \subseteq Node /\ S \subseteq Nat
    BY <1>2, NodeIsInterval DEF Preferred, Matches
  <2>2. \E n \in S : \A m \in S : n <= m
    <3> HIDE DEF S
    <3> QED BY <2>1, LeastElement
  <2>3. First(S) \in S
    BY <2>2 DEF First
  <2> QED
    BY <1>2, <2>1, <2>3 DEF findNodeByObjectKey
<1> QED
  BY <1>1, <1>2

\* Enqueue leaves what is in the queue where it is and adds at most n at its end.
LEMMA EnqueueExtends ==
  ASSUME NEW S, NEW q \in Seq(S), NEW n \in S, NEW degree
  PROVE  /\ Enqueue(q, n, degree) \in Seq(S)
         /\ Len(Enqueue(q, n, degree)) \in Nat
         /\ Len(Enqueue(q, n, degree)) >= Len(q)
         /\ \A p \in 1..Len(q) : Enqueue(q, n, degree)[p] = q[p]
<1>1. CASE degree = 0
  <2>1. Enqueue(q, n, degree) = Append(q, n)
    BY <1>1 DEF Enqueue
  <2>2. /\ Append(q, n) \in Seq(S) /\ Len(Append(q, n)) = Len(q) + 1
        /\ \A p \in 1..Len(q) : Append(q, n)[p] = q[p]
    BY AppendProperties
  <2>3. Len(q) \in Nat
    BY LenProperties
  <2>4. Len(Append(q, n)) \in Nat /\ Len(Append(q, n)) >= Len(q)
    BY <2>2, <2>3
  <2> QED
    BY <2>1, <2>2, <2>4, Zenon
<1>2. CASE degree # 0
  BY <1>2 DEF Enqueue
<1> QED
  BY <1>1, <1>2

\* What Enqueue adds is n, and only when the counter is zero.
LEMMA EnqueueRange ==
  ASSUME NEW S, NEW q \in Seq(S), NEW n \in S, NEW degree
  PROVE  /\ degree = 0 => Range(Enqueue(q, n, degree)) = Range(q) \cup {n}
         /\ degree # 0 => Range(Enqueue(q, n, degree)) = Range(q)
<1>1. Range(Append(q, n)) = Range(q) \cup {n}
  BY AppendProperties DEF Range
<1> QED
  BY <1>1, Zenon DEF Enqueue

\* Initially everything has its type.
LEMMA TypeInit == Init => TypeOK
BY InputsAssumption, NodeIsInterval DEF Init, TypeOK, Phase, Returned, Node

\* Every step keeps the types.
LEMMA TypeStep == TypeOK /\ [Next]_vars => TypeOK'
<1> SUFFICES ASSUME TypeOK, [Next]_vars PROVE TypeOK'
  OBVIOUS
<1> USE NodeIsInterval DEF TypeOK, Phase, Returned
<1>1. CASE LinkKey
  <2> DEFINE to == findNodeByObjectKey(ops[i].dependsOn[j])
  <2>1. i \in Node /\ ops' = ops /\ Node' = Node
    BY <1>1 DEF LinkKey, Node
  <2>2. to \in Node \cup {None}
    BY FindNodeType
  <2> HIDE DEF to
  <2>3. CASE NewEdge(i, to) /\ AddDependency(i, to)
    <3>1. to \in Node
      BY <2>2, <2>3 DEF NewEdge
    <3>2. dependencies' \in [Node -> Seq(Node)] /\ dependents' \in [Node -> Seq(Node)]
      BY <2>1, <2>3, <3>1 DEF AddDependency
    <3> QED
      BY <1>1, <2>1, <3>2 DEF LinkKey, kahn
  <2>4. CASE UNCHANGED graph
    BY <1>1, <2>1, <2>4, SMTT(20) DEF LinkKey, kahn, graph
  <2> QED
    BY <1>1, <2>3, <2>4 DEF LinkKey, to
<1>2. CASE LinkNextNode
  BY <1>2 DEF LinkNextNode, graph, kahn, Node
<1>3. CASE GraphBuilt
  BY <1>3 DEF GraphBuilt, graph, kahn, Node
<1>4. CASE CountNode
  <2>1. i \in Node /\ Node' = Node /\ ops' = ops
    BY <1>4 DEF CountNode, Node
  <2>2. inDegree' \in [Node -> Int]
    BY <1>4, <2>1 DEF CountNode
  <2>3. queue' \in Seq(Node) /\ Len(queue') \in Nat /\ Len(queue') >= Len(queue)
    BY <1>4, <2>1, EnqueueExtends DEF CountNode
  <2> QED
    BY <1>4, <2>1, <2>2, <2>3 DEF CountNode, graph
<1>5. CASE Counted
  BY <1>5 DEF Counted, graph, kahn, Node
<1>6. CASE Pop
  BY <1>6 DEF Pop, graph, Node
<1>7. CASE Release
  <2>1. i \in Node /\ Node' = Node /\ ops' = ops
    BY <1>7 DEF Release, Node
  <2>4. dependents[i][j] \in Node
    <3>1. dependents[i] \in Seq(Node) /\ j \in 1..Len(dependents[i])
      BY <1>7, <2>1 DEF Release
    <3> QED
      BY <3>1, SMTT(20)
  <2>2. inDegree' \in [Node -> Int]
    BY <1>7, <2>4 DEF Release
  <2>3. queue' \in Seq(Node) /\ Len(queue') \in Nat /\ Len(queue') >= Len(queue)
    BY <1>7, <2>4, EnqueueExtends DEF Release
  <2>5. j' = j + 1 /\ UNCHANGED <<phase, i, dependencies, dependents, head, result>>
    BY <1>7 DEF Release, graph
  <2> QED
    BY <2>1, <2>2, <2>3, <2>5
<1>8. CASE Released
  BY <1>8 DEF Released, graph, kahn, Node
<1>9. CASE Return
  BY <1>9 DEF Return, graph, kahn, Node
<1>10. CASE Cancel
  BY <1>10 DEF Cancel, graph, kahn, Node
<1>11. CASE UNCHANGED vars
  BY <1>11 DEF vars, graph, kahn, Node
<1> QED
  BY <1>1, <1>2, <1>3, <1>4, <1>5, <1>6, <1>7, <1>8, <1>9, <1>10, <1>11
  DEF Next, Work, Done

\* Every variable of the sort keeps its type, whatever list it is given.
THEOREM TypeCorrect == Spec => []TypeOK
BY TypeInit, TypeStep, PTL DEF Spec

----------------------------------------------------------------------------
(* The graph.                                                              *)

\* An element that is new to a list can be appended without repeating.
LEMMA AppendNew ==
  ASSUME NEW S, NEW s \in Seq(S), NEW e \in S
  PROVE  /\ Range(Append(s, e)) = Range(s) \cup {e}
         /\ IsInjective(s) /\ e \notin Range(s) => IsInjective(Append(s, e))
<1>1. /\ Append(s, e) \in Seq(S) /\ Len(Append(s, e)) = Len(s) + 1 /\ Len(s) \in Nat
      /\ \A p \in 1..Len(s) : Append(s, e)[p] = s[p]
      /\ Append(s, e)[Len(s) + 1] = e
  BY AppendProperties, LenProperties
<1>2. DOMAIN s = 1..Len(s) /\ DOMAIN Append(s, e) = 1..(Len(s) + 1)
  BY <1>1, LenProperties
<1> QED
  BY <1>1, <1>2 DEF Range, IsInjective

\* Keys keep resolving to the same node while the list is the same.
LEMMA FindStable ==
  ASSUME ops' = ops
  PROVE  /\ Node' = Node
         /\ \A key : findNodeByObjectKey(key)' = findNodeByObjectKey(key)
         /\ Needs' = Needs
<1>1. ASSUME NEW key
      PROVE  findNodeByObjectKey(key)' = findNodeByObjectKey(key)
  <2> DEFINE S == Preferred(Matches(key))
  <2>1. Matches(key)' = Matches(key) /\ S' = S
    BY DEF Matches, Preferred, Node
  <2>2. First(S)' = First(S)
    <3> HIDE DEF S
    <3> QED BY <2>1, Zenon DEF First
  <2> QED
    BY <2>1, <2>2, Zenon DEF findNodeByObjectKey, None
<1>2. \A key : findNodeByObjectKey(key)' = findNodeByObjectKey(key)
  BY <1>1
<1> QED
  BY <1>2 DEF Node, Needs

\* Once the pass is over, what it found is all there is to find.
LEMMA LinkedAll ==
  ASSUME phase # "link", NEW n \in Node
  PROVE  Linked(n) = Needs[n]
BY DEF Linked, Needs, LookedUp, Range

\* No step after the linking pass touches the graph.
LEMMA GraphKept ==
  ASSUME EdgesMirror, phase # "link", phase' # "link", UNCHANGED <<ops, graph>>
  PROVE  EdgesMirror'
<1>1. Node' = Node /\ Needs' = Needs
  BY FindStable
<1>2. \A n \in Node : Linked(n) = Needs[n]
  BY LinkedAll
<1>3. \A n \in Node : Linked(n)' = Needs'[n]
  <2> TAKE n \in Node
  <2>1. n \in Node'
    BY <1>1
  <2> QED
    BY <2>1, Zenon DEF Linked, Needs, LookedUp, Range
<1> QED
  BY <1>1, <1>2, <1>3 DEF EdgesMirror, graph, IsInjective, Range

\* A step of the linking pass looks up one more key.
LEMMA LinkKeyMirror == TypeOK /\ EdgesMirror /\ LinkKey => EdgesMirror'
<1> SUFFICES ASSUME TypeOK, EdgesMirror, LinkKey PROVE EdgesMirror'
  OBVIOUS
<1> DEFINE to == findNodeByObjectKey(ops[i].dependsOn[j])
<1>1. /\ i \in Node /\ ops' = ops /\ phase = "link" /\ phase' = "link"
      /\ i' = i /\ j' = j + 1 /\ j \in Nat
  BY NodeIsInterval DEF LinkKey, TypeOK
<1>2. /\ Node' = Node /\ to \in Node \cup {None} /\ None \notin Node
      /\ \A key : findNodeByObjectKey(key)' = findNodeByObjectKey(key)
  BY <1>1, FindStable, FindNodeType, NodeIsInterval DEF TypeOK
<1>3. j \in DOMAIN ops[i].dependsOn
  BY <1>1, NodeIsInterval DEF LinkKey, TypeOK
<1>4. \A n \in Node : Linked(n)' = IF n = i THEN Linked(n) \cup ({to} \ {None, n}) ELSE Linked(n)
  <2> SUFFICES ASSUME NEW n \in Node
               PROVE  Linked(n)' = IF n = i THEN Linked(n) \cup ({to} \ {None, n}) ELSE Linked(n)
    OBVIOUS
  <2>0. n \in Int /\ i \in Int /\ j \in Int /\ DOMAIN ops[n].dependsOn \subseteq Int
    <3>1. n \in 1..Len(ops) /\ i \in 1..Len(ops) /\ Len(ops) \in Nat
            /\ ops[n].dependsOn \in Seq(ObjectKey)
      BY <1>1, NodeIsInterval DEF TypeOK
    <3>2. DOMAIN ops[n].dependsOn = 1..Len(ops[n].dependsOn)
      BY <3>1, LenProperties
    <3> QED
      BY <1>1, <3>1, <3>2
  <2>1. \A p \in DOMAIN ops[n].dependsOn : LookedUp(n, p)' <=> LookedUp(n, p) \/ (n = i /\ p = j)
    BY <1>1, <2>0 DEF LookedUp
  <2>2. Linked(n)' = {findNodeByObjectKey(ops[n].dependsOn[k]) :
                        k \in {p \in DOMAIN ops[n].dependsOn : LookedUp(n, p) \/ (n = i /\ p = j)}}
                       \ {None, n}
    BY <1>1, <1>2, <2>1 DEF Linked, None
  <2> QED
    BY <1>3, <2>2 DEF Linked
<1> HIDE DEF to
<1>5. CASE NewEdge(i, to) /\ AddDependency(i, to)
  <2>1. to \in Node /\ to # i /\ to # None /\ to \notin Range(dependencies[i])
    BY <1>2, <1>5 DEF NewEdge
  <2>2. i \notin Range(dependents[to])
    BY <1>1, <2>1 DEF EdgesMirror
  <2>3. /\ \A n \in Node : dependencies'[n] =
               IF n = i THEN Append(dependencies[n], to) ELSE dependencies[n]
        /\ \A n \in Node : dependents'[n] =
               IF n = to THEN Append(dependents[n], i) ELSE dependents[n]
    BY <1>1, <1>5, <2>1 DEF AddDependency, TypeOK
  <2>4. \A n \in Node : dependencies[n] \in Seq(Node) /\ dependents[n] \in Seq(Node)
    BY DEF TypeOK
  <2>5. /\ Range(Append(dependencies[i], to)) = Range(dependencies[i]) \cup {to}
        /\ IsInjective(Append(dependencies[i], to))
    BY <1>1, <2>1, <2>4, AppendNew DEF EdgesMirror
  <2>6. /\ Range(Append(dependents[to], i)) = Range(dependents[to]) \cup {i}
        /\ IsInjective(Append(dependents[to], i))
    BY <1>1, <2>1, <2>2, <2>4, AppendNew DEF EdgesMirror
  <2>7. \A n \in Node :
          /\ IsInjective(dependencies'[n])
          /\ Range(dependencies'[n]) =
               IF n = i THEN Range(dependencies[n]) \cup {to} ELSE Range(dependencies[n])
    BY <2>3, <2>5 DEF EdgesMirror
  <2>8. \A n \in Node :
          /\ IsInjective(dependents'[n])
          /\ Range(dependents'[n]) =
               IF n = to THEN Range(dependents[n]) \cup {i} ELSE Range(dependents[n])
    BY <2>3, <2>6 DEF EdgesMirror
  <2>9. \A n \in Node : Range(dependencies'[n]) = Linked(n)'
    <3>1. \A n \in Node : Range(dependencies[n]) = Linked(n)
      BY DEF EdgesMirror
    <3>2. {to} \ {None, i} = {to}
      BY <2>1
    <3> QED
      BY <1>1, <1>4, <2>7, <3>1, <3>2
  <2>10. \A n, m \in Node : m \in Range(dependencies'[n]) <=> n \in Range(dependents'[m])
    <3> TAKE n, m \in Node
    <3>1. m \in Range(dependencies[n]) <=> n \in Range(dependents[m])
      BY DEF EdgesMirror
    <3>2. CASE n = i
      BY <2>7, <2>8, <3>1, <3>2
    <3>3. CASE n # i
      BY <2>7, <2>8, <3>1, <3>3
    <3> QED
      BY <3>2, <3>3
  <2> QED
    BY <1>2, <2>7, <2>8, <2>9, <2>10 DEF EdgesMirror
<1>6. CASE ~NewEdge(i, to) /\ UNCHANGED graph
  <2>1. \A n \in Node : Linked(n)' = Linked(n)
    BY <1>1, <1>2, <1>4, <1>6 DEF NewEdge, EdgesMirror
  <2> QED
    BY <1>2, <1>6, <2>1 DEF EdgesMirror, graph
<1> QED
  BY <1>5, <1>6 DEF LinkKey, to

\* Going on to the next node, or out of the pass, looks up nothing.
LEMMA LinkPassMirror ==
  TypeOK /\ EdgesMirror /\ (LinkNextNode \/ GraphBuilt) => EdgesMirror'
<1> SUFFICES ASSUME TypeOK, EdgesMirror, LinkNextNode \/ GraphBuilt PROVE EdgesMirror'
  OBVIOUS
<1>1. ops' = ops /\ UNCHANGED graph
  BY DEF LinkNextNode, GraphBuilt
<1>2. /\ Node' = Node
      /\ \A key : findNodeByObjectKey(key)' = findNodeByObjectKey(key)
  BY <1>1, FindStable
<1>3. \A n \in Node : \A p \in DOMAIN ops[n].dependsOn : LookedUp(n, p)' <=> LookedUp(n, p)
  <2> SUFFICES ASSUME NEW n \in Node, NEW p \in DOMAIN ops[n].dependsOn
               PROVE  LookedUp(n, p)' <=> LookedUp(n, p)
    OBVIOUS
  <2>1. /\ n \in Nat /\ p \in Nat /\ p >= 1 /\ p <= Len(ops[n].dependsOn) /\ n <= Len(ops)
        /\ i \in Nat /\ j \in Nat /\ Len(ops) \in Nat
    BY NodeIsInterval, SMTT(20) DEF TypeOK
  <2>2. CASE LinkNextNode
    <3>1. CASE n = i
      BY <2>1, <2>2, <3>1, NodeIsInterval DEF LinkNextNode, LookedUp, TypeOK
    <3>2. CASE n # i
      BY <2>1, <2>2, <3>2 DEF LinkNextNode, LookedUp
    <3> QED
      BY <3>1, <3>2
  <2>3. CASE GraphBuilt
    BY <2>1, <2>3 DEF GraphBuilt, LookedUp
  <2> QED
    BY <2>2, <2>3
<1>4. \A n \in Node : Linked(n)' = Linked(n)
  BY <1>1, <1>2, <1>3 DEF Linked, None
<1> QED
  BY <1>1, <1>2, <1>4 DEF EdgesMirror, graph

\* The graph stays the one the operations ask for.
LEMMA MirrorStep == TypeOK /\ EdgesMirror /\ [Next]_vars => EdgesMirror'
<1> SUFFICES ASSUME TypeOK, EdgesMirror, [Next]_vars PROVE EdgesMirror'
  OBVIOUS
<1>1. CASE LinkKey
  BY <1>1, LinkKeyMirror
<1>2. CASE LinkNextNode \/ GraphBuilt
  BY <1>2, LinkPassMirror
<1>3. CASE CountNode \/ Counted \/ Pop \/ Release \/ Released \/ Return \/ Cancel
  BY <1>3, GraphKept DEF CountNode, Counted, Pop, Release, Released, Return, Cancel
<1>4. CASE UNCHANGED vars
  <2>1. ops' = ops /\ phase' = phase /\ i' = i /\ j' = j /\ UNCHANGED graph
    BY <1>4 DEF vars
  <2>2. Node' = Node /\ \A key : findNodeByObjectKey(key)' = findNodeByObjectKey(key)
    BY <2>1, FindStable
  <2>3. \A n \in Node : Linked(n)' = Linked(n)
    BY <2>1, <2>2 DEF Linked, LookedUp, None
  <2> QED
    BY <2>1, <2>2, <2>3 DEF EdgesMirror, graph
<1> QED
  BY <1>1, <1>2, <1>3, <1>4 DEF Next, Work, Done

----------------------------------------------------------------------------
(* The queue and the counters.                                             *)

\* Before Kahn's loop starts nothing was told to anybody.
LEMMA NothingTold ==
  ASSUME TypeOK, QueueIsOrder, phase \in {"link", "count"}
  PROVE  /\ result = <<>>
         /\ \A n : Outstanding(n) = DOMAIN dependencies[n]
<1>1. result = <<>>
  BY DEF TypeOK, QueueIsOrder
<1> QED
  BY <1>1 DEF Outstanding, Told, Range

\* The result holds exactly the nodes taken from the queue.
LEMMA ResultIsTaken ==
  ASSUME TypeOK, QueueIsOrder
  PROVE  /\ DOMAIN result = 1..head /\ DOMAIN queue = 1..Len(queue)
         /\ head \in Nat /\ Len(queue) \in Nat /\ head <= Len(queue)
         /\ Range(result) = {queue[p] : p \in 1..head}
<1>1. /\ DOMAIN result = 1..head /\ DOMAIN queue = 1..Len(queue)
      /\ head \in Nat /\ Len(queue) \in Nat /\ head <= Len(queue)
  BY DEF TypeOK, QueueIsOrder
<1> QED
  BY <1>1 DEF QueueIsOrder, Range

\* A list of outstanding places is finite.
LEMMA OutstandingFinite ==
  ASSUME TypeOK, NEW n \in Node
  PROVE  /\ IsFiniteSet(Outstanding(n))
         /\ Cardinality(Outstanding(n)) \in Nat
         /\ Cardinality(Outstanding(n)) = 0 <=> Outstanding(n) = {}
<1>1. Len(dependencies[n]) \in Nat /\ DOMAIN dependencies[n] = 1..Len(dependencies[n])
  BY DEF TypeOK
<1>2. IsFiniteSet(1..Len(dependencies[n]))
  BY <1>1, FS_Interval
<1>3. IsFiniteSet(Outstanding(n))
  BY <1>1, <1>2, FS_Subset DEF Outstanding
<1> QED
  BY <1>3, FS_EmptySet, FS_CardinalityType

\* A node that is next to be taken is not in the result, so nobody was told of it.
LEMMA PopTellsNobody ==
  ASSUME TypeOK, QueueIsOrder, Pop, NEW n
  PROVE  Outstanding(n)' = Outstanding(n)
<1>1. /\ phase = "pop" /\ phase' = "release" /\ head < Len(queue)
      /\ i' = queue[head + 1] /\ j' = 1 /\ result' = Append(result, queue[head + 1])
      /\ dependents' = dependents /\ dependencies' = dependencies
  BY DEF Pop, graph
<1>2. queue[head + 1] \notin Range(result)
  BY <1>1, ResultIsTaken DEF QueueIsOrder, IsInjective
<1>3. Range(result') = Range(result) \cup {queue[head + 1]}
  <2>1. queue[head + 1] \in Node /\ result \in Seq(Node)
    BY <1>1, ResultIsTaken DEF TypeOK
  <2> QED
    BY <1>1, <2>1, AppendNew
<1>4. \A m : Told(m, n)' <=> Told(m, n)
  BY <1>1, <1>2, <1>3 DEF Told
<1> QED
  BY <1>1, <1>4 DEF Outstanding

\* When the list of dependents is through, everybody concerned was told.
LEMMA ReleasedTellsNobody ==
  ASSUME TypeOK, EdgesMirror, Released, NEW n \in Node
  PROVE  Outstanding(n)' = Outstanding(n)
<1>1. /\ phase = "release" /\ phase' = "pop" /\ j > Len(dependents[i])
      /\ UNCHANGED <<i, j, dependencies, dependents, result>>
  BY DEF Released, graph, kahn
<1>2. ASSUME NEW m \in Range(dependencies[n]) PROVE Told(m, n)' <=> Told(m, n)
  <2>1. m \in Node
    BY DEF TypeOK, Range
  <2>2. n \in Range(dependents[m])
    BY <1>2, <2>1 DEF EdgesMirror
  <2>3. PICK p \in DOMAIN dependents[m] : dependents[m][p] = n
    BY <2>2 DEF Range
  <2>4. m = i => p \in 1..(j - 1)
    BY <1>1, <2>1, <2>3 DEF TypeOK
  <2> QED
    BY <1>1, <2>3, <2>4 DEF Told
<1> QED
  BY <1>1, <1>2 DEF Outstanding, Range

\* A step of the release loop tells one dependent, which waits for one place less.
LEMMA ReleaseTellsOne ==
  ASSUME TypeOK, EdgesMirror, QueueIsOrder, Release
  PROVE  \E dep \in Node :
           /\ dep = dependents[i][j]
           /\ \A n \in Node : n # dep => Outstanding(n)' = Outstanding(n)
           /\ \E p \in Outstanding(dep) : Outstanding(dep)' = Outstanding(dep) \ {p}
<1>1. /\ phase = "release" /\ phase' = "release" /\ j' = j + 1 /\ i \in Node /\ j \in Nat \ {0}
      /\ UNCHANGED <<i, dependencies, dependents, result>>
  BY DEF Release, graph, TypeOK
<1>2. dependents[i] \in Seq(Node) /\ j \in DOMAIN dependents[i]
  BY <1>1 DEF Release, TypeOK
<1>3. PICK dep \in Node : dep = dependents[i][j]
  BY <1>2
<1>4. i \in Range(result) /\ dep \in Range(dependents[i])
  BY <1>1, <1>2, <1>3, ResultIsTaken DEF QueueIsOrder, Range
<1>5. ~Told(i, dep)
  <2>1. \A p \in 1..(j - 1) : p \in DOMAIN dependents[i] /\ p # j
    BY <1>1, <1>2
  <2>2. IsInjective(dependents[i])
    BY <1>1 DEF EdgesMirror
  <2>3. \A p \in 1..(j - 1) : dependents[i][p] # dep
    BY <1>2, <1>3, <2>1, <2>2 DEF IsInjective
  <2> QED
    BY <1>1, <2>3 DEF Told
<1>6. \A m, n : Told(m, n)' <=> Told(m, n) \/ (m = i /\ n = dep)
  <2>1. 1..(j' - 1) = 1..(j - 1) \cup {j}
    BY <1>1
  <2> QED
    BY <1>1, <1>3, <1>4, <2>1 DEF Told
<1>7. i \in Range(dependencies[dep]) /\ IsInjective(dependencies[dep])
  BY <1>1, <1>4 DEF EdgesMirror
<1>8. PICK p \in DOMAIN dependencies[dep] : dependencies[dep][p] = i
  BY <1>7 DEF Range
<1>9. \A n \in Node : n # dep => Outstanding(n)' = Outstanding(n)
  BY <1>1, <1>6 DEF Outstanding
<1>10. p \in Outstanding(dep)
  BY <1>5, <1>8 DEF Outstanding
<1>11. \A q \in DOMAIN dependencies[dep] : dependencies[dep][q] = i <=> q = p
  BY <1>7, <1>8 DEF IsInjective
<1>12. Outstanding(dep)' = Outstanding(dep) \ {p}
  BY <1>1, <1>6, <1>11 DEF Outstanding
<1> QED
  BY <1>3, <1>9, <1>10, <1>12

\* The counter of a dependent that is being told is at least one, and it is not queued yet.
LEMMA ReleasedNotQueued ==
  ASSUME TypeOK, EdgesMirror, QueueIsOrder, CountersExact, Release
  PROVE  dependents[i][j] \notin Range(queue)
<1>1. dependents[i][j] \in Node /\ Outstanding(dependents[i][j]) # {}
  BY ReleaseTellsOne
<1>2. HasDegree(dependents[i][j])
  BY DEF Release, HasDegree, Phase
<1> QED
  BY <1>1, <1>2, OutstandingFinite DEF CountersExact

\* The result stays the part of the queue that was taken, without repetition.
LEMMA QueueStep ==
  TypeOK /\ EdgesMirror /\ QueueIsOrder /\ CountersExact /\ [Next]_vars => QueueIsOrder'
<1> SUFFICES ASSUME TypeOK, EdgesMirror, QueueIsOrder, CountersExact, [Next]_vars
             PROVE  QueueIsOrder'
  OBVIOUS
<1>1. CASE LinkKey \/ LinkNextNode \/ GraphBuilt \/ Counted \/ Return \/ Cancel \/ Released
  <2>1. UNCHANGED kahn
    BY <1>1 DEF LinkKey, LinkNextNode, GraphBuilt, Counted, Return, Cancel, Released
  <2> QED
    BY <1>1, <2>1 DEF QueueIsOrder, IsInjective, kahn, LinkKey, LinkNextNode, GraphBuilt, Counted,
      Return, Cancel, Released
<1>2. CASE CountNode
  <2>1. i \in Node /\ i \notin Range(queue)
    <3>1. i \in Node /\ ~HasDegree(i)
      <4>1. i \in Nat \ {0} /\ i <= Len(ops) /\ phase = "count" /\ ops \in Seq(Operation)
        BY <1>2 DEF CountNode, TypeOK
      <4>2. i \in Node
        BY <4>1, NodeIsInterval
      <4> QED
        BY <4>1, <4>2 DEF HasDegree
    <3> QED
      BY <3>1 DEF CountersExact
  <2>2. queue \in Seq(Node) /\ queue' = Enqueue(queue, i, inDegree'[i])
    BY <1>2 DEF CountNode, TypeOK
  <2>3. IsInjective(queue')
    BY <2>1, <2>2, AppendNew DEF Enqueue, QueueIsOrder
  <2>4. head = 0 /\ phase = "count" /\ UNCHANGED <<phase, head, result>>
    BY <1>2 DEF CountNode, QueueIsOrder
  <2> QED
    BY <2>3, <2>4 DEF QueueIsOrder
<1>3. CASE Pop
  <2>1. /\ phase = "pop" /\ phase' = "release" /\ head < Len(queue) /\ head' = head + 1
        /\ i' = queue[head + 1] /\ result' = Append(result, queue[head + 1]) /\ queue' = queue
    BY <1>3 DEF Pop
  <2>2. queue[head + 1] \in Node /\ result \in Seq(Node)
    BY <2>1, ResultIsTaken DEF TypeOK
  <2>3. /\ Len(result') = head + 1
        /\ \A p \in 1..(head + 1) : result'[p] = queue[p]
    BY <2>1, <2>2, ResultIsTaken, AppendProperties DEF QueueIsOrder
  <2> QED
    BY <2>1, <2>3, ResultIsTaken DEF QueueIsOrder, IsInjective
<1>4. CASE Release
  <2>1. queue \in Seq(Node) /\ dependents[i][j] \in Node
    BY <1>4, ReleaseTellsOne DEF TypeOK
  <2>2. queue' = Enqueue(queue, dependents[i][j], inDegree'[dependents[i][j]])
    BY <1>4 DEF Release
  <2>3. IsInjective(queue')
    BY <1>4, <2>1, <2>2, ReleasedNotQueued, AppendNew DEF Enqueue, QueueIsOrder
  <2>4. /\ phase = "release" /\ UNCHANGED <<phase, i, head, result>>
        /\ \A p \in 1..Len(queue) : queue'[p] = queue[p]
    BY <1>4, <2>1, <2>2, EnqueueExtends DEF Release
  <2> QED
    BY <2>3, <2>4, ResultIsTaken DEF QueueIsOrder
<1>5. CASE UNCHANGED vars
  BY <1>5 DEF vars, kahn, QueueIsOrder, IsInjective
<1> QED
  BY <1>1, <1>2, <1>3, <1>4, <1>5 DEF Next, Work, Done

\* The first queue holds the counted nodes that depend on nothing.
LEMMA CountNodeExact ==
  TypeOK /\ QueueIsOrder /\ CountersExact /\ CountNode => CountersExact'
<1> SUFFICES ASSUME TypeOK, QueueIsOrder, CountersExact, CountNode PROVE CountersExact'
  OBVIOUS
<1>1. /\ phase = "count" /\ phase' = "count" /\ i' = i + 1 /\ i \in Node /\ i \in Nat
      /\ Node' = Node /\ UNCHANGED <<dependencies, result>>
  <2>1. /\ phase = "count" /\ phase' = "count" /\ i' = i + 1 /\ i <= Len(ops)
        /\ UNCHANGED <<ops, dependencies, result>>
    BY DEF CountNode, graph
  <2>2. i \in Nat \ {0} /\ Node = 1..Len(ops)
    BY NodeIsInterval DEF TypeOK
  <2> QED
    BY <2>1, <2>2 DEF Node
<1>2. \A n \in Node : Outstanding(n) = DOMAIN dependencies[n] /\ Outstanding(n)' = DOMAIN dependencies[n]
  BY <1>1, NothingTold DEF Outstanding, Told, Range
<1>3. \A n \in Node : Cardinality(Outstanding(n)) = Len(dependencies[n])
  <2> TAKE n \in Node
  <2>1. Len(dependencies[n]) \in Nat /\ DOMAIN dependencies[n] = 1..Len(dependencies[n])
    BY DEF TypeOK
  <2>2. Cardinality(1..Len(dependencies[n])) = Len(dependencies[n])
    BY <2>1, FS_Interval
  <2> QED
    BY <1>2, <2>1, <2>2
<1>4. \A n \in Node : HasDegree(n)' <=> HasDegree(n) \/ n = i
  BY <1>1, NodeIsInterval DEF HasDegree, TypeOK
<1>5. ~HasDegree(i)
  BY <1>1 DEF HasDegree
<1>6. \A n \in Node : inDegree'[n] = IF n = i THEN Len(dependencies[i]) ELSE inDegree[n]
  BY <1>1 DEF CountNode, TypeOK
<1>7. Range(queue') = IF inDegree'[i] = 0 THEN Range(queue) \cup {i} ELSE Range(queue)
  <2>1. queue \in Seq(Node) /\ queue' = Enqueue(queue, i, inDegree'[i])
    BY DEF TypeOK, CountNode
  <2>2. PICK d : d = inDegree'[i]
    OBVIOUS
  <2>3. queue' = Enqueue(queue, i, d)
    BY <2>1, <2>2
  <2>4. /\ d = 0 => Range(queue') = Range(queue) \cup {i}
        /\ d # 0 => Range(queue') = Range(queue)
    BY <1>1, <2>1, <2>3, EnqueueRange
  <2> QED
    BY <2>2, <2>4
<1>8. ASSUME NEW n \in Node
      PROVE  IF HasDegree(n)'
             THEN /\ inDegree'[n] = Cardinality(Outstanding(n)')
                  /\ n \in Range(queue') <=> inDegree'[n] = 0
             ELSE n \notin Range(queue')
  <2>1. CASE n = i
    BY <1>1, <1>2, <1>3, <1>4, <1>5, <1>6, <1>7, <2>1 DEF CountersExact
  <2>2. CASE n # i
    BY <1>2, <1>4, <1>6, <1>7, <2>2 DEF CountersExact
  <2> QED
    BY <2>1, <2>2
<1> QED
  BY <1>1, <1>8 DEF CountersExact

\* Releasing one dependent takes one from its counter and queues it at zero.
LEMMA ReleaseExact ==
  TypeOK /\ EdgesMirror /\ QueueIsOrder /\ CountersExact /\ Release => CountersExact'
<1> SUFFICES ASSUME TypeOK, EdgesMirror, QueueIsOrder, CountersExact, Release PROVE CountersExact'
  OBVIOUS
<1>1. PICK dep \in Node :
        /\ dep = dependents[i][j]
        /\ \A n \in Node : n # dep => Outstanding(n)' = Outstanding(n)
        /\ \E p \in Outstanding(dep) : Outstanding(dep)' = Outstanding(dep) \ {p}
  BY ReleaseTellsOne
<1>2. /\ \A n \in Node : HasDegree(n) /\ HasDegree(n)'
      /\ Node' = Node
  BY DEF Release, HasDegree, Phase, Node
<1>3. Cardinality(Outstanding(dep)') = Cardinality(Outstanding(dep)) - 1
  BY <1>1, OutstandingFinite, FS_RemoveElement, ZenonT(30)
<1>4. \A n \in Node : inDegree'[n] = IF n = dep THEN inDegree[dep] - 1 ELSE inDegree[n]
  BY <1>1 DEF Release, TypeOK
<1>5. Range(queue') = IF inDegree'[dep] = 0 THEN Range(queue) \cup {dep} ELSE Range(queue)
  <2>1. queue \in Seq(Node) /\ queue' = Enqueue(queue, dep, inDegree'[dep])
    BY <1>1 DEF TypeOK, Release
  <2>2. PICK d : d = inDegree'[dep]
    OBVIOUS
  <2>3. queue' = Enqueue(queue, dep, d)
    BY <2>1, <2>2
  <2>4. /\ d = 0 => Range(queue') = Range(queue) \cup {dep}
        /\ d # 0 => Range(queue') = Range(queue)
    BY <2>1, <2>3, EnqueueRange
  <2> QED
    BY <2>2, <2>4
<1>6. dep \notin Range(queue)
  BY <1>1, ReleasedNotQueued
<1>7. ASSUME NEW n \in Node
      PROVE  /\ inDegree'[n] = Cardinality(Outstanding(n)')
             /\ n \in Range(queue') <=> inDegree'[n] = 0
  <2>1. inDegree[n] = Cardinality(Outstanding(n)) /\ (n \in Range(queue) <=> inDegree[n] = 0)
    BY <1>2 DEF CountersExact
  <2>2. CASE n = dep
    BY <1>3, <1>4, <1>5, <1>6, <2>1, <2>2
  <2>3. CASE n # dep
    BY <1>1, <1>4, <1>5, <2>1, <2>3
  <2> QED
    BY <2>2, <2>3
<1> QED
  BY <1>2, <1>7 DEF CountersExact

\* Steps that leave counters and queue alone, and tell nobody anything.
LEMMA CountersKept ==
  ASSUME TypeOK, CountersExact, UNCHANGED <<ops, inDegree, queue>>,
         \A n \in Node : HasDegree(n)' <=> HasDegree(n),
         \A n \in Node : HasDegree(n) => Outstanding(n)' = Outstanding(n)
  PROVE  CountersExact'
<1>1. Node' = Node
  BY DEF Node
<1>2. ASSUME NEW n \in Node
      PROVE  IF HasDegree(n)'
             THEN /\ inDegree'[n] = Cardinality(Outstanding(n)')
                  /\ n \in Range(queue') <=> inDegree'[n] = 0
             ELSE n \notin Range(queue')
  <2>1. CASE HasDegree(n)
    <3>1. Outstanding(n)' = Outstanding(n)
      BY <2>1
    <3>2. inDegree[n] = Cardinality(Outstanding(n)) /\ (n \in Range(queue) <=> inDegree[n] = 0)
      BY <2>1 DEF CountersExact
    <3> QED
      BY <2>1, <3>1, <3>2
  <2>2. CASE ~HasDegree(n)
    BY <2>2 DEF CountersExact
  <2> QED
    BY <2>1, <2>2
<1> QED
  BY <1>1, <1>2 DEF CountersExact

\* A counter stays the number of dependencies a node still waits for.
LEMMA CountersStep ==
  TypeOK /\ EdgesMirror /\ QueueIsOrder /\ CountersExact /\ [Next]_vars => CountersExact'
<1> SUFFICES ASSUME TypeOK, EdgesMirror, QueueIsOrder, CountersExact, [Next]_vars
             PROVE  CountersExact'
  OBVIOUS
<1>1. CASE LinkKey \/ LinkNextNode \/ GraphBuilt
  <2>1. UNCHANGED <<ops, inDegree, queue>>
    BY <1>1 DEF LinkKey, LinkNextNode, GraphBuilt, kahn
  <2>2. \A n \in Node : ~HasDegree(n) /\ ~HasDegree(n)'
    <3>1. \A n \in Node : n \in Nat /\ n >= 1
      BY NodeIsInterval DEF TypeOK
    <3> QED
      BY <1>1, <3>1 DEF LinkKey, LinkNextNode, GraphBuilt, HasDegree, Phase
  <2> QED
    BY <2>1, <2>2, CountersKept
<1>2. CASE CountNode
  BY <1>2, CountNodeExact
<1>3. CASE Counted
  <2>1. /\ UNCHANGED <<ops, inDegree, queue, dependencies, result>>
        /\ phase = "count" /\ phase' = "pop" /\ i > Len(ops)
    BY <1>3 DEF Counted, kahn, graph
  <2>2. \A n \in Node : HasDegree(n) /\ HasDegree(n)'
    BY <2>1, NodeIsInterval DEF HasDegree, TypeOK, Phase
  <2>3. \A n \in Node : Outstanding(n)' = Outstanding(n)
    BY <2>1, NothingTold DEF Outstanding, Told, Range
  <2> QED
    BY <2>1, <2>2, <2>3, CountersKept
<1>4. CASE Pop
  <2>1. UNCHANGED <<ops, inDegree, queue>>
    BY <1>4 DEF Pop
  <2>2. \A n \in Node : HasDegree(n) /\ HasDegree(n)'
    BY <1>4 DEF Pop, HasDegree, Phase
  <2> QED
    BY <1>4, <2>1, <2>2, PopTellsNobody, CountersKept
<1>5. CASE Release
  BY <1>5, ReleaseExact
<1>6. CASE Released
  <2>1. UNCHANGED <<ops, inDegree, queue>>
    BY <1>6 DEF Released, kahn
  <2>2. \A n \in Node : HasDegree(n) /\ HasDegree(n)'
    BY <1>6 DEF Released, HasDegree, Phase
  <2> QED
    BY <1>6, <2>1, <2>2, ReleasedTellsNobody, CountersKept
<1>7. CASE Return \/ Cancel
  <2>1. /\ UNCHANGED <<ops, i, j, dependencies, dependents, inDegree, queue, result>>
        /\ phase = "pop" /\ phase' \in Returned
    BY <1>7 DEF Return, Cancel, kahn, graph, Returned
  <2>2. \A n \in Node : HasDegree(n) /\ HasDegree(n)'
    BY <2>1 DEF HasDegree, Phase, Returned
  <2>3. \A n \in Node : Outstanding(n)' = Outstanding(n)
    BY <2>1 DEF Outstanding, Told, Returned
  <2> QED
    BY <2>1, <2>2, <2>3, CountersKept
<1>8. CASE UNCHANGED vars
  <2>1. UNCHANGED <<ops, phase, i, j, dependencies, dependents, inDegree, queue, result>>
    BY <1>8 DEF vars, graph, kahn
  <2>2. \A n : (HasDegree(n)' <=> HasDegree(n)) /\ Outstanding(n)' = Outstanding(n)
    BY <2>1 DEF HasDegree, Outstanding, Told
  <2> QED
    BY <2>1, <2>2, CountersKept
<1> QED
  BY <1>1, <1>2, <1>3, <1>4, <1>5, <1>6, <1>7, <1>8 DEF Next, Work, Done

\* Initially there are no edges and the queue is empty.
LEMMA InvInit == Init => Inv
<1> SUFFICES ASSUME Init PROVE Inv
  OBVIOUS
<1>1. TypeOK
  BY TypeInit
<1>2. /\ phase = "link" /\ i = 1 /\ j = 1 /\ queue = <<>> /\ result = <<>> /\ head = 0
      /\ \A n \in Node : dependencies[n] = <<>> /\ dependents[n] = <<>>
  BY DEF Init
<1>3. \A n \in Node : Linked(n) = {}
  <2>1. \A n \in Node : n \in Nat /\ n >= 1 /\ \A p \in DOMAIN ops[n].dependsOn : p \in Nat /\ p >= 1
    BY <1>1, NodeIsInterval, SMTT(20) DEF TypeOK
  <2> QED
    BY <1>2, <2>1 DEF Linked, LookedUp
<1>4. EdgesMirror
  BY <1>2, <1>3 DEF EdgesMirror, IsInjective, Range
<1>5. QueueIsOrder
  BY <1>2 DEF QueueIsOrder, IsInjective
<1>6. CountersExact
  BY <1>2 DEF CountersExact, HasDegree, Phase, Range
<1> QED
  BY <1>1, <1>4, <1>5, <1>6 DEF Inv

LEMMA InvStep == Inv /\ [Next]_vars => Inv'
BY TypeStep, MirrorStep, QueueStep, CountersStep DEF Inv

\* The invariant holds at every step of the sort, for every list of operations.
THEOREM Invariance == Spec => []Inv
BY InvInit, InvStep, PTL DEF Spec

----------------------------------------------------------------------------
(* The order and the verdict.                                              *)

\* What a node depends on is a set of nodes.
LEMMA NeedsType ==
  ASSUME TypeOK, NEW n \in Node
  PROVE  Needs[n] \subseteq Node
BY FindNodeType DEF Needs, TypeOK

\* Whoever is free to be queued has all it needs in the result.
LEMMA QueuedIsFree ==
  ASSUME Inv, phase \in {"pop", "sorted", "cycle", "cancelled"}, NEW n \in Node
  PROVE  n \in Range(queue) <=> Needs[n] \subseteq Range(result)
<1>1. HasDegree(n)
  BY DEF HasDegree, Phase, Returned
<1>2. n \in Range(queue) <=> Outstanding(n) = {}
  BY <1>1, OutstandingFinite DEF Inv, CountersExact
<1>3. Range(dependencies[n]) = Needs[n]
  BY LinkedAll DEF Inv, EdgesMirror
<1>4. \A m : Told(m, n) <=> m \in Range(result)
  BY DEF Told
<1> QED
  BY <1>2, <1>3, <1>4 DEF Outstanding, Range

\* The node at the head of the queue waits still.
LEMMA HeadWaits ==
  ASSUME Inv, phase = "pop", head < Len(queue)
  PROVE  queue[head + 1] \in (Node \cap Range(queue)) \ Range(result)
<1>1. head + 1 \in DOMAIN queue /\ queue[head + 1] \in Node
  BY ResultIsTaken DEF Inv, TypeOK
<1>2. queue[head + 1] \in Range(queue)
  BY <1>1 DEF Range
<1>3. queue[head + 1] \notin Range(result)
  BY <1>1, ResultIsTaken DEF Inv, QueueIsOrder, IsInjective
<1> QED
  BY <1>1, <1>2, <1>3

\* The node that is taken has all it needs in the result.
LEMMA PopIsFree ==
  ASSUME Inv, Pop
  PROVE  /\ queue[head + 1] \in Node \ Range(result)
         /\ Needs[queue[head + 1]] \subseteq Range(result)
<1>1. phase = "pop" /\ head < Len(queue)
  BY DEF Pop
<1> QED
  BY <1>1, HeadWaits, QueuedIsFree

\* The list itself and what each operation needs never change.
LEMMA OpsKept ==
  ASSUME [Next]_vars
  PROVE  ops' = ops /\ Node' = Node /\ Needs' = Needs
<1>1. ops' = ops
  BY DEF Next, Work, Done, vars, LinkKey, LinkNextNode, GraphBuilt, CountNode, Counted,
    Pop, Release, Released, Return, Cancel
<1> QED
  BY <1>1, FindStable

\* Only taking a node changes the result.
LEMMA ResultKept ==
  ASSUME [Next]_vars, ~Pop
  PROVE  result' = result
BY DEF Next, Work, Done, vars, kahn, LinkKey, LinkNextNode, GraphBuilt, CountNode, Counted,
  Release, Released, Return, Cancel

\* A step never puts an operation before one it depends on.
LEMMA OrderStep == Inv /\ OrderRespectsNeeds /\ [Next]_vars => OrderRespectsNeeds'
<1> SUFFICES ASSUME Inv, OrderRespectsNeeds, [Next]_vars PROVE OrderRespectsNeeds'
  OBVIOUS
<1>1. /\ Node' = Node /\ Needs' = Needs
      /\ result \in Seq(Node)
  BY OpsKept DEF Inv, TypeOK
<1>2. CASE Pop
  <2>1. PICK c \in Node : c = queue[head + 1] /\ Needs[c] \subseteq Range(result)
    BY <1>2, PopIsFree
  <2>2. result' = Append(result, c)
    BY <1>2, <2>1 DEF Pop
  <2>3. /\ DOMAIN result = 1..Len(result) /\ DOMAIN result' = 1..(Len(result) + 1)
        /\ Len(result) \in Nat
        /\ \A p \in 1..Len(result) : result'[p] = result[p] /\ result[p] \in Node
        /\ result'[Len(result) + 1] = c
    BY <1>1, <2>1, <2>2, AppendProperties, LenProperties
  <2>4. ASSUME NEW p \in DOMAIN result'
        PROVE  Needs'[result'[p]] \subseteq {result'[q] : q \in 1..(p - 1)}
    <3>1. CASE p = Len(result) + 1
      <4>1. {result'[q] : q \in 1..(p - 1)} = Range(result)
        BY <2>3, <3>1 DEF Range
      <4>2. Needs'[result'[p]] = Needs[c]
        BY <1>1, <2>1, <2>3, <3>1
      <4> QED
        BY <2>1, <4>1, <4>2
    <3>2. CASE p \in 1..Len(result)
      <4>1. {result'[q] : q \in 1..(p - 1)} = {result[q] : q \in 1..(p - 1)}
        BY <2>3, <3>2
      <4>2. Needs'[result'[p]] = Needs[result[p]]
        BY <1>1, <2>3, <3>2
      <4> QED
        BY <2>3, <3>2, <4>1, <4>2 DEF OrderRespectsNeeds
    <3> QED
      BY <2>3, <3>1, <3>2
  <2> QED
    BY <2>4 DEF OrderRespectsNeeds
<1>3. CASE ~Pop
  <2>1. result' = result
    BY <1>3, ResultKept
  <2> QED
    BY <1>1, <2>1 DEF OrderRespectsNeeds
<1> QED
  BY <1>2, <1>3

\* No operation is ever put before one it depends on, for every list of operations.
THEOREM OrderCorrect == Spec => []OrderRespectsNeeds
<1>1. Init => OrderRespectsNeeds
  BY DEF Init, OrderRespectsNeeds
<1> QED
  BY <1>1, OrderStep, Invariance, PTL DEF Spec

\* An operation that waits when the sort gives up waits for another one like it.
LEMMA CycleIsReal == Inv /\ phase = "cycle" => Deadlocked(Node \ Range(result))
<1> SUFFICES ASSUME Inv, phase = "cycle" PROVE Deadlocked(Node \ Range(result))
  OBVIOUS
<1>1. Len(queue) = head /\ Range(queue) = Range(result) /\ result \in Seq(Node)
  BY ResultIsTaken DEF Inv, QueueIsOrder, TypeOK, Range
<1>2. \A n \in Node \ Range(result) : Needs[n] \cap (Node \ Range(result)) # {}
  BY <1>1, QueuedIsFree, NeedsType DEF Inv
<1>3. Node \ Range(result) # {}
  <2> SUFFICES ASSUME Node \subseteq Range(result) PROVE FALSE
    OBVIOUS
  <2>1. /\ Len(result) \in Nat /\ Len(ops) \in Nat /\ Node = 1..Len(ops)
        /\ DOMAIN result = 1..Len(result)
    BY NodeIsInterval, ResultIsTaken DEF Inv, TypeOK
  <2>2. result \in [1..Len(result) -> Node]
    BY <1>1, <2>1
  <2>3. \A p, q \in 1..Len(result) : result[p] = result[q] => p = q
    BY <2>1, ResultIsTaken DEF Inv, QueueIsOrder, IsInjective
  <2>4. \A n \in Node : \E p \in 1..Len(result) : result[p] = n
    BY <2>1 DEF Range
  <2>5. result \in Bijection(1..Len(result), Node)
    BY <2>2, <2>3, <2>4 DEF Bijection, Injection, Surjection, IsInjective
  <2>6. /\ IsFiniteSet(1..Len(result)) /\ Cardinality(1..Len(result)) = Len(result)
        /\ Cardinality(Node) = Len(ops)
    <3>1. ASSUME NEW l \in Nat PROVE IsFiniteSet(1..l) /\ Cardinality(1..l) = l
      BY FS_Interval
    <3> QED
      BY <2>1, <3>1
  <2>7. Cardinality(Node) = Cardinality(1..Len(result))
    BY <2>5, <2>6, FS_Bijection DEF ExistsBijection
  <2> QED
    BY <2>6, <2>7 DEF Inv, QueueIsOrder
<1> QED
  BY <1>2, <1>3 DEF Deadlocked

\* A list that is called sorted is there completely.
LEMMA SortedIsComplete == Inv /\ phase = "sorted" => Range(result) = Node
<1> SUFFICES ASSUME Inv, phase = "sorted" PROVE Range(result) = Node
  OBVIOUS
<1>1. /\ Len(result) = Len(ops) /\ Len(ops) \in Nat /\ Node = 1..Len(ops)
      /\ result \in [1..Len(ops) -> Node]
  BY NodeIsInterval, ResultIsTaken, SMTT(20) DEF Inv, TypeOK, QueueIsOrder
<1>2. \A p, q \in 1..Len(ops) : result[p] = result[q] => p = q
  BY <1>1, ResultIsTaken DEF Inv, QueueIsOrder, IsInjective
<1>3. result \in Injection(Node, Node)
  BY <1>1, <1>2 DEF Injection, IsInjective
<1>4. IsFiniteSet(Node)
  BY <1>1, FS_Interval
<1>5. result \in Surjection(Node, Node)
  BY <1>3, <1>4, FS_Injection
<1> QED
  BY <1>1, <1>5 DEF Surjection, Range

\* In an order that respects the needs, no set of operations waits for itself.
LEMMA OrderedHasNoCycle ==
  ASSUME Inv, OrderRespectsNeeds, Range(result) = Node, NEW S \in SUBSET Node, Deadlocked(S)
  PROVE  FALSE
<1> DEFINE P == {p \in DOMAIN result : result[p] \in S}
<1>1. DOMAIN result = 1..head /\ head \in Nat
  BY ResultIsTaken DEF Inv
<1>2. P # {} /\ P \subseteq Nat
  BY <1>1 DEF Deadlocked, Range
<1>3. PICK p \in P : \A q \in P : p <= q
  <2> HIDE DEF P
  <2> QED BY <1>2, LeastElement
<1>4. PICK m \in S : m \in Needs[result[p]]
  BY <1>3 DEF Deadlocked
<1>5. PICK q \in 1..(p - 1) : result[q] = m
  BY <1>3, <1>4 DEF OrderRespectsNeeds
<1>6. q \in P /\ q < p
  BY <1>1, <1>3, <1>4, <1>5
<1> QED
  BY <1>1, <1>3, <1>6

\* "cycle detected" is returned for the lists that have one, and only for them.
THEOREM VerdictCorrect == Spec => []VerdictExact
<1>1. Inv /\ OrderRespectsNeeds => VerdictExact
  BY CycleIsReal, SortedIsComplete, OrderedHasNoCycle DEF VerdictExact
<1> QED
  BY <1>1, Invariance, OrderCorrect, PTL

----------------------------------------------------------------------------
(* The sort does what TopoOrder promises.                                  *)

\* The sort starts where TopoOrder may start.
LEMMA RefinesInit == Init => Order!Init
<1> SUFFICES ASSUME Init PROVE Order!Init
  OBVIOUS
<1>1. TypeOK /\ phase = "link" /\ result = <<>>
  BY TypeInit DEF Init
<1>2. IsFiniteSet(Node)
  BY <1>1, NodeIsInterval, FS_Interval DEF TypeOK
<1>4. Order!IsFiniteSet(Node)
  BY <1>2, Zenon DEF Order!IsFiniteSet, IsFiniteSet
<1>3. Needs \in [Node -> SUBSET Node]
  <2>1. \A n \in Node : Needs[n] \subseteq Node
    BY <1>1, NeedsType
  <2>2. Needs = [n \in Node |-> Needs[n]]
    BY DEF Needs
  <2> QED
    BY <2>1, <2>2
<1> QED
  BY <1>1, <1>3, <1>4 DEF Order!Init, Returned

\* Every step of the sort is a step of TopoOrder or none at all.
LEMMA RefinesStep == Inv /\ [Next]_vars => [Order!Next]_Order!vars
<1> SUFFICES ASSUME Inv, [Next]_vars PROVE [Order!Next]_Order!vars
  OBVIOUS
<1> DEFINE out == IF phase \in Returned THEN phase ELSE "sorting"
<1>1. Node' = Node /\ Needs' = Needs
  BY OpsKept
<1>2. CASE Pop
  <2>1. PICK c \in Node \ Range(result) : c = queue[head + 1] /\ Needs[c] \subseteq Range(result)
    BY <1>2, PopIsFree
  <2>2. result' = Append(result, c) /\ out = "sorting" /\ out' = "sorting"
    BY <1>2, <2>1 DEF Pop, Returned
  <2>3. Order!Put(c)
    BY <1>1, <2>1, <2>2 DEF Order!Put, Order!Ready, Order!Waiting, Order!Range, Range
  <2> QED
    BY <2>1, <2>3 DEF Order!Next
<1>3. CASE Cancel
  <2>1. phase = "pop" /\ head < Len(queue) /\ phase' = "cancelled" /\ result' = result
    BY <1>3 DEF Cancel, kahn
  <2>2. queue[head + 1] \in Node \ Range(result)
    BY <2>1, HeadWaits
  <2>3. Order!Cancel
    BY <1>1, <2>1, <2>2 DEF Order!Cancel, Order!Waiting, Order!Range, Range, Returned
  <2> QED
    BY <2>3 DEF Order!Next
<1>4. CASE Return
  <2>1. phase = "pop" /\ result' = result /\ phase' \in {"sorted", "cycle"}
    BY <1>4 DEF Return, kahn
  <2>2. Inv'
    BY TypeStep, MirrorStep, QueueStep, CountersStep DEF Inv
  <2>3. CASE phase' = "sorted"
    <3>1. Range(result) = Node
      <4>1. (Inv /\ phase = "sorted" => Range(result) = Node)'
        BY SortedIsComplete, PTL
      <4> QED
        BY <1>1, <2>1, <2>2, <2>3, <4>1 DEF Range
    <3>2. Order!Finish
      BY <1>1, <2>1, <2>3, <3>1 DEF Order!Finish, Order!Waiting, Order!Range, Range, Returned
    <3> QED
      BY <3>2 DEF Order!Next
  <2>4. CASE phase' = "cycle"
    <3>1. (Inv /\ phase = "cycle" => Deadlocked(Node \ Range(result)))'
      BY CycleIsReal, PTL
    <3>2. Order!ReportCycle
      BY <1>1, <2>1, <2>2, <2>4, <3>1 DEF Order!ReportCycle, Order!Waiting, Order!Ready,
        Order!Range, Range, Returned, Deadlocked
    <3> QED
      BY <3>2 DEF Order!Next
  <2> QED
    BY <2>1, <2>3, <2>4
<1>5. CASE ~Pop /\ ~Cancel /\ ~Return
  <2>1. result' = result
    BY <1>5, ResultKept
  <2>2. out' = out
    BY <1>5 DEF Next, Work, Done, vars, LinkKey, LinkNextNode, GraphBuilt, CountNode, Counted,
      Release, Released, Returned
  <2> QED
    BY <1>1, <2>1, <2>2 DEF Order!vars
<1> QED
  BY <1>2, <1>3, <1>4, <1>5

\* The sort implements TopoOrder on the graph the operations ask for.
THEOREM Refinement == Spec => RefinesTopoOrder
BY RefinesInit, RefinesStep, Invariance, PTL DEF Spec, RefinesTopoOrder, Order!Spec

----------------------------------------------------------------------------
(* The order among operations that no dependency orders.                   *)

\* A node that has to come after no other.
IsRoot(n) == Needs[n] = {}

\* RootsFirst holds of the whole queue already, taken or not.
QueueRootsFirst ==
  \A p, q \in DOMAIN queue :
    (IsRoot(queue[p]) /\ (~IsRoot(queue[q]) \/ queue[p] < queue[q])) => p < q

\* When the nodes have been linked a root has no dependencies.
LEMMA RootHasNone ==
  ASSUME Inv, phase # "link", NEW n \in Node
  PROVE  IsRoot(n) <=> DOMAIN dependencies[n] = {}
<1>1. Range(dependencies[n]) = Needs[n]
  BY LinkedAll DEF Inv, EdgesMirror
<1> QED
  BY <1>1 DEF IsRoot, Range

\* While the nodes are counted the queue has roots in it, all of them counted.
LEMMA CountedAreRoots ==
  ASSUME Inv, phase = "count", NEW p \in DOMAIN queue
  PROVE  queue[p] < i /\ IsRoot(queue[p])
<1>1. queue[p] \in Node /\ queue[p] \in Range(queue)
  BY DEF Inv, TypeOK, Range
<1>2. HasDegree(queue[p]) /\ Outstanding(queue[p]) = {}
  BY <1>1, OutstandingFinite DEF Inv, CountersExact
<1>3. queue[p] < i
  BY <1>2 DEF HasDegree, Phase
<1>4. Outstanding(queue[p]) = DOMAIN dependencies[queue[p]]
  BY <1>1, NothingTold DEF Inv
<1> QED
  BY <1>1, <1>2, <1>3, <1>4, RootHasNone

\* Afterwards every root is in the queue.
LEMMA RootsAreQueued ==
  ASSUME Inv, phase = "release", NEW n \in Node, IsRoot(n)
  PROVE  n \in Range(queue)
<1>1. HasDegree(n)
  BY DEF HasDegree, Phase
<1>2. Outstanding(n) = {}
  BY RootHasNone DEF Outstanding
<1> QED
  BY <1>1, <1>2, OutstandingFinite DEF Inv, CountersExact

\* A node that is put behind the queue may stand there.
LEMMA AppendKeepsRootsFirst ==
  ASSUME Inv, QueueRootsFirst, UNCHANGED ops, NEW n \in Node, NEW degree,
         queue' = Enqueue(queue, n, degree),
         degree = 0 => \/ ~IsRoot(n)
                       \/ \A p \in DOMAIN queue : IsRoot(queue[p]) /\ queue[p] < n
  PROVE  QueueRootsFirst'
<1>1. Needs' = Needs
  BY FindStable
<1>2. queue \in Seq(Node) /\ Node \subseteq Nat
  BY NodeIsInterval DEF Inv, TypeOK
<1>3. CASE degree # 0
  <2>1. queue' = queue
    BY <1>3 DEF Enqueue
  <2> QED
    BY <1>1, <2>1 DEF QueueRootsFirst, IsRoot
<1>4. CASE degree = 0
  <2>1. queue' = Append(queue, n)
    BY <1>4 DEF Enqueue
  <2>2. /\ Len(queue) \in Nat /\ DOMAIN queue = 1..Len(queue)
        /\ DOMAIN queue' = 1..(Len(queue) + 1)
        /\ \A p \in 1..Len(queue) : queue'[p] = queue[p] /\ queue[p] \in Node
        /\ queue'[Len(queue) + 1] = n
    BY <1>2, <2>1, AppendProperties, LenProperties
  <2>3. ASSUME NEW p \in DOMAIN queue', NEW q \in DOMAIN queue',
               IsRoot(queue'[p]), ~IsRoot(queue'[q]) \/ queue'[p] < queue'[q]
        PROVE  p < q
    <3>1. CASE q = Len(queue) + 1
      <4>1. queue'[q] \in Nat
        BY <1>2, <2>2, <3>1
      <4>2. ~(queue'[q] < queue'[q])
        BY <4>1
      <4>3. p # q
        BY <2>3, <4>2
      <4> QED
        BY <2>2, <3>1, <4>3
    <3>2. CASE q \in 1..Len(queue) /\ p = Len(queue) + 1
      <4>1. IsRoot(n) /\ (~IsRoot(queue[q]) \/ n < queue[q])
        BY <2>2, <2>3, <3>2
      <4>2. IsRoot(queue[q]) /\ queue[q] < n
        BY <1>4, <2>2, <3>2, <4>1
      <4>3. n \in Nat /\ queue[q] \in Nat
        BY <1>2, <2>2, <3>2
      <4> QED
        BY <4>1, <4>2, <4>3
    <3>3. CASE q \in 1..Len(queue) /\ p \in 1..Len(queue)
      BY <2>2, <2>3, <3>3 DEF QueueRootsFirst
    <3> QED
      BY <2>2, <3>1, <3>2, <3>3
  <2> QED
    BY <1>1, <2>3 DEF QueueRootsFirst, IsRoot
<1> QED
  BY <1>3, <1>4

LEMMA RootsInit == Init => QueueRootsFirst
BY DEF Init, QueueRootsFirst

LEMMA RootsStep == Inv /\ QueueRootsFirst /\ [Next]_vars => QueueRootsFirst'
<1> SUFFICES ASSUME Inv, QueueRootsFirst, [Next]_vars PROVE QueueRootsFirst'
  OBVIOUS
<1>1. ops' = ops /\ Needs' = Needs
  BY OpsKept
<1>2. CASE CountNode
  <2>1. i \in Nat \ {0} /\ i <= Len(ops) /\ ops \in Seq(Operation)
    BY <1>2 DEF CountNode, Inv, TypeOK
  <2>2. i \in Node
    BY <2>1, NodeIsInterval
  <2>3. phase = "count" /\ queue' = Enqueue(queue, i, inDegree'[i])
    BY <1>2 DEF CountNode
  <2> QED
    BY <1>1, <2>2, <2>3, CountedAreRoots, AppendKeepsRootsFirst
<1>3. CASE Release
  <2> DEFINE dep == dependents[i][j]
  <2>1. dep \in Node /\ phase = "release" /\ queue' = Enqueue(queue, dep, inDegree'[dep])
    BY <1>3, ReleaseTellsOne DEF Release, Inv
  <2>2. ~IsRoot(dep)
    BY <1>3, <2>1, RootsAreQueued, ReleasedNotQueued DEF Inv
  <2> HIDE DEF dep
  <2> QED
    BY <1>1, <2>1, <2>2, AppendKeepsRootsFirst
<1>4. CASE ~CountNode /\ ~Release
  <2>1. queue' = queue
    BY <1>4 DEF Next, Work, Done, vars, kahn, LinkKey, LinkNextNode, GraphBuilt, Counted, Pop,
      Released, Return, Cancel
  <2> QED
    BY <1>1, <2>1 DEF QueueRootsFirst, IsRoot
<1> QED
  BY <1>2, <1>3, <1>4

\* What holds of the queue holds of the part that has been taken.
LEMMA ResultRootsFirst == Inv /\ QueueRootsFirst => RootsFirst
<1> SUFFICES ASSUME Inv, QueueRootsFirst PROVE RootsFirst
  OBVIOUS
<1>1. \A p \in DOMAIN result : p \in DOMAIN queue /\ result[p] = queue[p]
  BY ResultIsTaken DEF Inv, QueueIsOrder
<1> QED
  BY <1>1 DEF RootsFirst, QueueRootsFirst, IsRoot

\* Operations that depend on nothing come first and in the order of the differ, for
\* every list of operations (dag.go:114-119).
THEOREM RootsLead == Spec => []RootsFirst
BY RootsInit, RootsStep, ResultRootsFirst, Invariance, PTL DEF Spec

----------------------------------------------------------------------------
(* DROP before ADD.                                                        *)

\* The differ drops a constraint at most once.
DropsOnce ==
  \A m, n \in Node :
    (ops[m].kind = "drop_constraint" /\ ops[n].kind = "drop_constraint" /\ ops[m].key = ops[n].key)
    => m = n

\* The key of a constraint that is dropped is found at its drop.
LEMMA DropIsFound ==
  ASSUME TypeOK, DropsOnce, NEW n \in Node, ops[n].kind = "drop_constraint"
  PROVE  findNodeByObjectKey(ops[n].key) = n
<1> DEFINE drops == {m \in Matches(ops[n].key) : ops[m].kind = "drop_constraint"}
<1>1. n \in Matches(ops[n].key) /\ drops = {n}
  BY DEF Matches, DropsOnce
<1>2. Preferred(Matches(ops[n].key)) = {n}
  BY <1>1 DEF Preferred
<1>3. First({n}) = n
  BY NodeIsInterval DEF First, TypeOK
<1> QED
  BY <1>1, <1>2, <1>3 DEF findNodeByObjectKey

LEMMA DropComesFirst == TypeOK /\ DropsOnce /\ OrderRespectsNeeds => DropFirst
<1> SUFFICES ASSUME TypeOK, DropsOnce, OrderRespectsNeeds,
                    NEW q \in DOMAIN result, NEW n \in Node,
                    ops[n].kind = "drop_constraint", n # result[q],
                    ops[n].key \in Range(ops[result[q]].dependsOn)
             PROVE  \E p \in 1..(q - 1) : result[p] = n
  BY DEF DropFirst
<1>1. result[q] \in Node /\ n # None
  BY NodeIsInterval, SMTT(20) DEF TypeOK
<1>2. n \in Needs[result[q]]
  BY <1>1, DropIsFound DEF Needs
<1> QED
  BY <1>2 DEF OrderRespectsNeeds

\* Inside a stage a DropConstraint comes before all that depends on its key, for every
\* list in which no constraint is dropped twice (dag.go:86-89).
THEOREM DropsLead == Spec /\ DropsOnce => []DropFirst
<1>1. DropsOnce /\ [Next]_vars => DropsOnce'
  BY OpsKept DEF DropsOnce
<1>2. Inv /\ DropsOnce /\ OrderRespectsNeeds => DropFirst
  BY DropComesFirst DEF Inv
<1> QED
  BY <1>1, <1>2, Invariance, OrderCorrect, PTL DEF Spec
=============================================================================
