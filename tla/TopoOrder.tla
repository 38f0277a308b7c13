------------------------------ MODULE TopoOrder ------------------------------
(***************************************************************************)
(* What internal/plan promises of one stage of a plan, whatever algorithm  *)
(* computes it: operations are put in order one at a time, an operation    *)
(* only after everything it needs, and the work ends with a complete       *)
(* order, with a report of a cycle, or because the caller's context was    *)
(* cancelled.  Module Dag is the program's way of doing it.                *)
(***************************************************************************)
EXTENDS FiniteSets, Sequences, Functions

VARIABLES
  nodes,    \* the operations to be ordered
  needs,    \* needs[n]: the operations that n must come after
  order,    \* the operations ordered so far
  outcome   \* "sorting", then "sorted", "cycle" or "cancelled"

vars == <<nodes, needs, order, outcome>>

Waiting == nodes \ Range(order)

\* n may be put next: it waits, and all it needs has been put before it.
Ready(n) == n \in Waiting /\ needs[n] \subseteq Range(order)

Init ==
  /\ IsFiniteSet(nodes)
  /\ needs \in [nodes -> SUBSET nodes]
  /\ order = <<>>
  /\ outcome = "sorting"

Put(n) ==
  /\ outcome = "sorting"
  /\ Ready(n)
  /\ order' = Append(order, n)
  /\ UNCHANGED <<nodes, needs, outcome>>

\* Every operation has its place.
Finish ==
  /\ outcome = "sorting"
  /\ Waiting = {}
  /\ outcome' = "sorted"
  /\ UNCHANGED <<nodes, needs, order>>

\* Operations are left and each needs another one that is left.
ReportCycle ==
  /\ outcome = "sorting"
  /\ Waiting # {}
  /\ \A n \in Waiting : ~Ready(n)
  /\ outcome' = "cycle"
  /\ UNCHANGED <<nodes, needs, order>>

\* The caller gave up, which matters only while there is work left.
Cancel ==
  /\ outcome = "sorting"
  /\ Waiting # {}
  /\ outcome' = "cancelled"
  /\ UNCHANGED <<nodes, needs, order>>

Next == (\E n \in nodes : Put(n)) \/ Finish \/ ReportCycle \/ Cancel

Spec == Init /\ [][Next]_vars
=============================================================================
