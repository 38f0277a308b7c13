------------------------------- MODULE MCPush -------------------------------
(* Push on short plans, under every combination of the flags that lets a    *)
(* push get as far as its first statement, and some that do not.            *)
EXTENDS Push

CONSTANT MaxOps   \* bound on the length of a plan

Statement(destructive, undo) ==
  [sql |-> "plain", destructive |-> destructive, undo |-> undo, within |-> 0]

CreateTable == Statement(FALSE, "destructive")
SetNotNull == Statement(FALSE, "plain")
AddValue == Statement(FALSE, "none")
DropTable == Statement(TRUE, "plain")
AlterType == Statement(TRUE, "destructive")
CreateIndex == CreateTable
CreateSchema == CreateTable
CreateConcurrently == [CreateIndex EXCEPT !.sql = "concurrent"]

Within(position, operation) == [operation EXCEPT !.within = position]

\* Destructive ones are there without --unsafe-drop too, as in ExecutePlan's tests.
\* A constraint without a definition renders to nothing.
MCOperation ==
  {CreateTable, SetNotNull, AddValue, DropTable, AlterType, CreateConcurrently,
   [CreateTable EXCEPT !.sql = "none"]}

MCPlans ==
  UNION {[1..n -> MCOperation] : n \in 0..MaxOps}
    \cup {<<CreateTable, Within(1, CreateIndex)>>,
          <<CreateSchema, Within(1, CreateTable), Within(2, CreateIndex)>>}

\* The filter leaves something out only where it filters.
MCRequests ==
  {req \in [execute : BOOLEAN, dryRun : BOOLEAN, unsafeDrop : BOOLEAN, noVerify : BOOLEAN,
            ops : MCPlans, leftOut : {{}, {"plain"}, {"destructive"}}] :
     /\ req.leftOut # {} => ~req.unsafeDrop
     /\ req.dryRun => req.noVerify}
=============================================================================
