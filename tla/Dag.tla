-------------------------------- MODULE Dag --------------------------------
(***************************************************************************)
(* internal/plan/dag.go: TopoSort of the operations of one stage.          *)
(*                                                                         *)
(* BuildDAG makes a node of every operation and then, operation by         *)
(* operation and key by key, an edge to the node that DependsOn names, if  *)
(* this stage has one.  GetExecutionOrder is Kahn's algorithm with a FIFO  *)
(* queue.  A node is the position of its operation in the input, so that   *)
(* d.nodes is ops itself and "the first match" is the least node.          *)
(***************************************************************************)
EXTENDS Integers, Sequences, FiniteSets, Functions

CONSTANTS
  Operation,   \* the operations, as records with at least the three fields below
  ObjectKey,   \* the keys of database objects
  Inputs       \* the lists of operations TopoSort may be called with

\* What the Operation interface gives the sort: a kind, the key of the object
\* the operation is about and the keys of the objects it depends on.
ASSUME OperationAssumption ==
  \A op \in Operation :
    /\ op.key \in ObjectKey
    /\ op.dependsOn \in Seq(ObjectKey)

ASSUME InputsAssumption == \A list \in Inputs : list \in Seq(Operation)

VARIABLES
  ops,           \* the argument of TopoSort; d.nodes
  phase,         \* where the call is, see Phase
  i,             \* the node at hand
  j,             \* the next position in the list that is walked for i
  dependencies,  \* Node.Dependencies, the edges a node waits for
  dependents,    \* Node.Dependents, the same edges from the other end
  inDegree,      \* Kahn's counters
  queue,         \* Kahn's queue; entries are never removed
  head,          \* how many entries of queue were taken
  result         \* the nodes put in order so far

graph == <<dependencies, dependents>>
kahn == <<inDegree, queue, head, result>>
vars == <<ops, phase, i, j, graph, kahn>>

Node == DOMAIN ops

\* link: second pass of BuildDAG; count: in-degrees and first queue;
\* pop: top of Kahn's loop; release: its inner loop over Dependents.
Returned == {"sorted", "cycle", "cancelled"}
Phase == {"link", "count", "pop", "release"} \cup Returned

----------------------------------------------------------------------------
(* byObject and findNodeByObjectKey.                                       *)

None == 0

Matches(key) == {n \in Node : ops[n].key = key}

First(S) == CHOOSE n \in S : \A m \in S : n <= m

PreferredMutant(S) == S                    \* the kind is not looked at

\* A key shared by several nodes resolves to the DropConstraint among them.
Preferred(S) ==
  LET drops == {n \in S : ops[n].kind = "drop_constraint"}
  IN  IF drops # {} THEN drops ELSE S

findNodeByObjectKey(key) ==
  IF Matches(key) = {} THEN None ELSE First(Preferred(Matches(key)))

----------------------------------------------------------------------------
Init ==
  /\ ops \in Inputs
  /\ phase = "link" /\ i = 1 /\ j = 1
  /\ dependencies = [n \in Node |-> <<>>]
  /\ dependents = [n \in Node |-> <<>>]
  /\ inDegree = [n \in Node |-> 0]
  /\ queue = <<>> /\ head = 0 /\ result = <<>>

NewEdgeMutantNil(from, to) == to # from /\ to \notin Range(dependencies[from])
NewEdgeMutantSelf(from, to) == to # None /\ to \notin Range(dependencies[from])
NewEdgeMutantTwice(from, to) == to # None /\ to # from

\* AddDependency ignores nil, a node itself and an edge that is there already.
NewEdge(from, to) == to # None /\ to # from /\ to \notin Range(dependencies[from])

AddDependency(from, to) ==
  /\ dependencies' = [dependencies EXCEPT ![from] = Append(@, to)]
  /\ dependents' = [dependents EXCEPT ![to] = Append(@, from)]

\* A key without a new edge is skipped and the loop does not move on.
LinkKeyMutant ==
  /\ phase = "link" /\ i <= Len(ops) /\ j <= Len(ops[i].dependsOn)
  /\ LET to == findNodeByObjectKey(ops[i].dependsOn[j])
     IN  IF NewEdge(i, to) THEN AddDependency(i, to) /\ j' = j + 1
                           ELSE UNCHANGED <<graph, j>>
  /\ UNCHANGED <<ops, phase, i, kahn>>

\* addDependencies: one key of the node's DependsOn.
LinkKey ==
  /\ phase = "link" /\ i <= Len(ops) /\ j <= Len(ops[i].dependsOn)
  /\ LET to == findNodeByObjectKey(ops[i].dependsOn[j])
     IN  IF NewEdge(i, to) THEN AddDependency(i, to)
                           ELSE UNCHANGED graph
  /\ j' = j + 1
  /\ UNCHANGED <<ops, phase, i, kahn>>

LinkNextNode ==
  /\ phase = "link" /\ i <= Len(ops) /\ j > Len(ops[i].dependsOn)
  /\ i' = i + 1 /\ j' = 1
  /\ UNCHANGED <<ops, phase, graph, kahn>>

GraphBuilt ==
  /\ phase = "link" /\ i > Len(ops)
  /\ phase' = "count" /\ i' = 1 /\ j' = 1
  /\ UNCHANGED <<ops, graph, kahn>>

----------------------------------------------------------------------------
(* GetExecutionOrder.                                                      *)

EnqueueMutantEarly(q, n, degree) == IF degree <= 1 THEN Append(q, n) ELSE q
EnqueueMutantStack(q, n, degree) ==
  IF degree = 0 THEN SubSeq(q, 1, head) \o <<n>> \o SubSeq(q, head + 1, Len(q)) ELSE q

\* A counter at zero puts its node in the queue, when the queue is seeded and
\* when the last dependency is released.
Enqueue(q, n, degree) == IF degree = 0 THEN Append(q, n) ELSE q

CountNode ==
  /\ phase = "count" /\ i <= Len(ops)
  /\ inDegree' = [inDegree EXCEPT ![i] = Len(dependencies[i])]
  /\ queue' = Enqueue(queue, i, inDegree'[i])
  /\ i' = i + 1
  /\ UNCHANGED <<ops, phase, j, graph, head, result>>

Counted ==
  /\ phase = "count" /\ i > Len(ops)
  /\ phase' = "pop"
  /\ UNCHANGED <<ops, i, j, graph, kahn>>

\* The context is looked at before every node is taken.
Cancel ==
  /\ phase = "pop" /\ head < Len(queue)
  /\ phase' = "cancelled"
  /\ UNCHANGED <<ops, i, j, graph, kahn>>

Pop ==
  /\ phase = "pop" /\ head < Len(queue)
  /\ phase' = "release"
  /\ head' = head + 1
  /\ i' = queue[head + 1] /\ j' = 1
  /\ result' = Append(result, queue[head + 1])
  /\ UNCHANGED <<ops, graph, inDegree, queue>>

\* One dependent of the node just taken has a dependency less.
Release ==
  /\ phase = "release" /\ j <= Len(dependents[i])
  /\ LET dep == dependents[i][j]
     IN  /\ inDegree' = [inDegree EXCEPT ![dep] = @ - 1]
         /\ queue' = Enqueue(queue, dep, inDegree'[dep])
  /\ j' = j + 1
  /\ UNCHANGED <<ops, phase, i, graph, head, result>>

Released ==
  /\ phase = "release" /\ j > Len(dependents[i])
  /\ phase' = "pop"
  /\ UNCHANGED <<ops, i, j, graph, kahn>>

\* The lengths are not compared.
ReturnMutant ==
  /\ phase = "pop" /\ head = Len(queue)
  /\ phase' = "sorted"
  /\ UNCHANGED <<ops, i, j, graph, kahn>>

\* The queue has run dry: all nodes are in the result, or some never got free.
Return ==
  /\ phase = "pop" /\ head = Len(queue)
  /\ phase' = IF Len(result) = Len(ops) THEN "sorted" ELSE "cycle"
  /\ UNCHANGED <<ops, i, j, graph, kahn>>

\* The call has returned; nothing happens any more.
Done == phase \in Returned /\ UNCHANGED vars

Work == LinkKey \/ LinkNextNode \/ GraphBuilt \/ CountNode \/ Counted
          \/ Pop \/ Release \/ Released \/ Return

Next == Work \/ Cancel \/ Done

\* TopoSort is a call: it runs on until it returns.
Spec == Init /\ [][Next]_vars /\ WF_vars(Work)

----------------------------------------------------------------------------
(* What must be true.                                                      *)

TypeOK ==
  /\ ops \in Seq(Operation)
  /\ phase \in Phase
  /\ i \in Nat \ {0} /\ j \in Nat \ {0} /\ i <= Len(ops) + 1
  /\ phase = "release" => i \in Node
  /\ dependencies \in [Node -> Seq(Node)] /\ dependents \in [Node -> Seq(Node)]
  /\ inDegree \in [Node -> Int]
  /\ queue \in Seq(Node) /\ result \in Seq(Node)
  /\ head \in 0..Len(queue)

\* The nodes that n has to come after, read off the operations alone.
Needs ==
  [n \in Node |-> {findNodeByObjectKey(key) : key \in Range(ops[n].dependsOn)} \ {None, n}]

\* The k-th key that n depends on was looked up.
LookedUp(n, k) == phase # "link" \/ n < i \/ (n = i /\ k < j)

\* What the linking pass has found so far of Needs[n].
Linked(n) ==
  {findNodeByObjectKey(ops[n].dependsOn[k]) :
     k \in {p \in DOMAIN ops[n].dependsOn : LookedUp(n, p)}} \ {None, n}

\* The graph is the one the operations ask for, both ends of every edge agree
\* and no edge is there twice: a second copy would be counted and released twice.
EdgesMirror ==
  \A n \in Node :
    /\ IsInjective(dependencies[n]) /\ IsInjective(dependents[n])
    /\ Range(dependencies[n]) = Linked(n)
    /\ \A m \in Node : m \in Range(dependencies[n]) <=> n \in Range(dependents[m])

\* m's place in the order has been made known to its dependent n.
Told(m, n) ==
  /\ m \in Range(result)
  /\ phase = "release" /\ m = i => \E p \in 1..(j - 1) : dependents[m][p] = n

\* The places in n's dependency list that n still waits for.
Outstanding(n) == {p \in DOMAIN dependencies[n] : ~Told(dependencies[n][p], n)}

\* n has been given its in-degree.
HasDegree(n) == phase \in Phase \ {"link", "count"} \/ (phase = "count" /\ n < i)

\* A node's counter is the number of its dependencies that were not released to
\* it, and the nodes in the queue are exactly those whose counter is zero.
CountersExact ==
  \A n \in Node :
    IF HasDegree(n)
    THEN /\ inDegree[n] = Cardinality(Outstanding(n))
         /\ n \in Range(queue) <=> inDegree[n] = 0
    ELSE n \notin Range(queue)

\* The result is the part of the queue that was taken, and no node is queued twice.
QueueIsOrder ==
  /\ IsInjective(queue)
  /\ Len(result) = head
  /\ \A p \in 1..head : result[p] = queue[p]
  /\ phase \in {"link", "count"} => head = 0
  /\ phase = "release" => head > 0 /\ i = queue[head]
  /\ phase \in {"sorted", "cycle"} => head = Len(queue)
  /\ phase = "sorted" => Len(result) = Len(ops)
  /\ phase = "cycle" => Len(result) # Len(ops)

\* What the sort keeps true at every step; the proofs rest on it.
Inv == TypeOK /\ EdgesMirror /\ QueueIsOrder /\ CountersExact

\* No operation is put in order before one it depends on, however the
\* list was ordered (dag.go:133-138: only a counter that reaches zero frees a node).
OrderRespectsNeeds ==
  \A p \in DOMAIN result : Needs[result[p]] \subseteq {result[q] : q \in 1..(p - 1)}

\* Nodes that wait for one another, in a circle or behind one.
Deadlocked(S) == S # {} /\ \A n \in S : Needs[n] \cap S # {}

\* "cycle detected" is said of the lists that have a cycle and of no other, and a
\* list that is called sorted is there completely (dag.go:141-146).
VerdictExact ==
  /\ phase = "cycle" => Deadlocked(Node \ Range(result))
  /\ phase = "sorted" =>
       Range(result) = Node /\ ~ \E S \in SUBSET Node : Deadlocked(S)

\* Operations that depend on nothing in this stage come first and in the order
\* the differ listed them: all that puts CREATE SCHEMA, which no operation names
\* in its DependsOn, before the objects of the schema (dag.go:114-119).
RootsFirst ==
  \A p, q \in DOMAIN result :
    (Needs[result[p]] = {} /\ (Needs[result[q]] # {} \/ result[p] < result[q])) => p < q

\* A DropConstraint comes before the other operations of its stage that depend on
\* its key, the AddConstraint of the same name among them (dag.go:86-89).
DropFirst ==
  \A q \in DOMAIN result : \A n \in Node :
    (ops[n].kind = "drop_constraint" /\ n # result[q]
       /\ ops[n].key \in Range(ops[result[q]].dependsOn))
    => \E p \in 1..(q - 1) : result[p] = n

\* The sort does what TopoOrder promises, of the graph the operations ask for.
Order ==
  INSTANCE TopoOrder WITH
    nodes <- Node,
    needs <- Needs,
    order <- result,
    outcome <- IF phase \in Returned THEN phase ELSE "sorting"

RefinesTopoOrder == Order!Spec

\* The call returns (dag.go:124-146).
Terminates == <>(phase \in Returned)
=============================================================================
