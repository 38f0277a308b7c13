--------------------------- MODULE ExecutionPlan ---------------------------
(***************************************************************************)
(* ComputeDiff of internal/app/pipeline.go: filter the namespaces, compare *)
(* the schemas, filter the destructive operations, divide the rest over    *)
(* the three stages and sort each stage (module Dag), under a context that *)
(* may expire between any two steps.                                       *)
(*                                                                         *)
(* The context is looked at by the differ, which keeps quiet about it, by  *)
(* Planner.Plan and by TopoSort, which return its error.                   *)
(***************************************************************************)
EXTENDS SchemaDiff

CONSTANT Requests   \* the arguments ComputeDiff may be called with

VARIABLES
  request,      \* source and target schema, --schema and --unsafe-drop
  expired,      \* the context has expired
  pc,           \* where ComputeDiff is, or what it has returned
  steps,        \* of the differ: those still to be made
  operations,   \* the differ's result; later what the filter keeps of it
  next,         \* the next operation to assign, or the next stage to sort
  stages,       \* the operations of each stage
  plan          \* allOps: the stages sorted so far

VARIABLES ops, phase, i, j, dependencies, dependents, inDegree, queue, head, result

Keys == [schema : STRING, path : Seq(STRING), kind : ObjectKinds]

Operation == [kind : Kinds, key : Keys, dependsOn : Seq(Keys), destructive : BOOLEAN]

Sort == INSTANCE Dag WITH ObjectKey <- Keys, Inputs <- {}

sort == <<ops, phase, i, j, dependencies, dependents, inDegree, queue, head, result>>
vars == <<request, expired, pc, steps, operations, next, stages, plan, sort>>

Returned == {"planned", "cancelled", "cycle"}

----------------------------------------------------------------------------
\* FilterNamespaces: --schema, if given, names the namespaces to look at.
FilterNamespaces(schema, schemas) ==
  IF schemas = {} THEN schema ELSE RestrictDomain(schema, LAMBDA s : s \in schemas)

StepsOf(req) ==
  diffSchemas(FilterNamespaces(req.source, req.schemas), FilterNamespaces(req.target, req.schemas))

----------------------------------------------------------------------------
(* What the differ lists.                                                  *)

\* What a step adds, in one order or another.
Added(step) == UNION {Range(some) : some \in step.adds}

Listed(req) == UNION {Added(step) : step \in Range(StepsOf(req))}

\* What the target schema has at the key of a table or of something in a table.
TargetTable(req, key) == req.target[key.schema].tables[key.path[1]]

\* The new tables of the target schema, with the tables they refer to.
NewReferences(req) ==
  LET from == FilterNamespaces(req.source, req.schemas)
      to == FilterNamespaces(req.target, req.schemas)
      IsNew(s, t) == s \in DOMAIN from => t \notin DOMAIN from[s].tables
      places == {st \in (DOMAIN to) \X Range(Names) :
                   st[2] \in DOMAIN to[st[1]].tables /\ IsNew(st[1], st[2])}
      Own(st) == TableKey(st[1], st[2])
  IN  {<<Own(st), References(to[st[1]].tables[st[2]]) \ {Own(st)}>> : st \in places}

----------------------------------------------------------------------------
(* What ComputeDiff may be called with.                                    *)

\* The keys of a map.
IsNamed(map) == DOMAIN map \subseteq Range(Names)

\* A foreign key says which table it refers to.
IsTable(table) ==
  /\ IsNamed(table.columns) /\ IsNamed(table.indexes) /\ IsNamed(table.constraints)
  /\ \A c \in DOMAIN table.constraints :
       LET constraint == table.constraints[c]
       IN  constraint.type = "foreign_key" =>
             constraint.ref.schema \in STRING /\ constraint.ref.table \in STRING

\* A type has each of its labels once; a view is materialized or is not.
IsNamespace(ns) ==
  /\ IsNamed(ns.tables) /\ IsNamed(ns.types) /\ IsNamed(ns.views)
  /\ IsNamed(ns.sequences) /\ IsNamed(ns.extensions)
  /\ \A t \in DOMAIN ns.tables : IsTable(ns.tables[t])
  /\ \A n \in DOMAIN ns.types : ns.types[n] \in Seq(STRING) /\ IsInjective(ns.types[n])
  /\ \A v \in DOMAIN ns.views : ns.views[v].materialized \in BOOLEAN

IsSchema(schema) == IsNamed(schema) /\ \A s \in DOMAIN schema : IsNamespace(schema[s])

\* No two tables of a namespace have indexes of one name.
IndexNamesDiffer(schema) ==
  \A s \in DOMAIN schema : \A t, u \in DOMAIN schema[s].tables :
    DOMAIN schema[s].tables[t].indexes \cap DOMAIN schema[s].tables[u].indexes # {} => t = u

\* DROP INDEX does not name the table, so the indexes of source must be told apart.
IsRequest(req) ==
  /\ req.unsafeDrop \in BOOLEAN
  /\ IsSchema(req.source) /\ IsSchema(req.target) /\ IndexNamesDiffer(req.source)

ASSUME RequestsAssumption == \A req \in Requests : IsRequest(req)

----------------------------------------------------------------------------
\* Nothing has been done yet.
Idle ==
  /\ expired = FALSE
  /\ operations = <<>> /\ next = 1 /\ plan = <<>>
  /\ stages = [stage \in Range(StageOrder) |-> <<>>]
  /\ ops = <<>> /\ phase = "idle" /\ i = 1 /\ j = 1
  /\ dependencies = <<>> /\ dependents = <<>> /\ inDegree = <<>>
  /\ queue = <<>> /\ head = 0 /\ result = <<>>

Init == request \in Requests /\ pc = "diff" /\ steps = StepsOf(request) /\ Idle

\* What the filter lets through.
IsAllowed(op, req) == req.unsafeDrop \/ ~op.destructive

\* The time is up or the user has interrupted the program.
Expire ==
  /\ ~expired /\ pc \notin Returned
  /\ expired' = TRUE
  /\ UNCHANGED <<request, pc, steps, operations, next, stages, plan, sort>>

----------------------------------------------------------------------------
(* Differ.Diff.                                                            *)

DiffStep ==
  /\ pc = "diff" /\ steps # <<>>
  /\ steps[1].checked => ~expired
  /\ \E some \in steps[1].adds : operations' = operations \o some
  /\ steps' = Tail(steps)
  /\ UNCHANGED <<request, expired, pc, next, stages, plan, sort>>

\* checkCancelled: the function at hand returns, its caller goes on.
DiffCancelled ==
  /\ pc = "diff" /\ steps # <<>>
  /\ steps[1].checked /\ expired
  /\ steps' = Abandon(steps)
  /\ UNCHANGED <<request, expired, pc, operations, next, stages, plan, sort>>

\* The whole filter works on a list that no one else sees.
FilterDestructiveOps ==
  /\ pc = "diff" /\ steps = <<>>
  /\ operations' = Select(operations,
                          {k \in DOMAIN operations : IsAllowed(operations[k], request)})
  /\ pc' = "assign"
  /\ UNCHANGED <<request, expired, steps, next, stages, plan, sort>>

----------------------------------------------------------------------------
(* Planner.Plan.                                                           *)

Assign ==
  /\ pc = "assign" /\ next <= Len(operations)
  /\ ~expired
  /\ stages' = [stages EXCEPT ![assignStage(operations[next])] = Append(@, operations[next])]
  /\ next' = next + 1
  /\ UNCHANGED <<request, expired, pc, steps, operations, plan, sort>>

PlanCancelled ==
  /\ pc = "assign" /\ next <= Len(operations)
  /\ expired
  /\ pc' = "cancelled"
  /\ UNCHANGED <<request, expired, steps, operations, next, stages, plan, sort>>

AssignedMutant ==                         \* the index is used on
  /\ pc = "assign" /\ next > Len(operations)
  /\ pc' = "stage"
  /\ UNCHANGED <<request, expired, steps, operations, next, stages, plan, sort>>

Assigned ==
  /\ pc = "assign" /\ next > Len(operations)
  /\ pc' = "stage" /\ next' = 1
  /\ UNCHANGED <<request, expired, steps, operations, stages, plan, sort>>

----------------------------------------------------------------------------
(* The stages of BuildExecutionPlan, each sorted by Dag.                   *)

StageOps == stages[StageOrder[next]]

SkipStageMutant ==                        \* a stage of one needs no sorting
  /\ pc = "stage" /\ next <= Len(StageOrder) /\ Len(StageOps) <= 1
  /\ next' = next + 1
  /\ UNCHANGED <<request, expired, pc, steps, operations, stages, plan, sort>>

SkipStage ==
  /\ pc = "stage" /\ next <= Len(StageOrder) /\ StageOps = <<>>
  /\ next' = next + 1
  /\ UNCHANGED <<request, expired, pc, steps, operations, stages, plan, sort>>

CallTopoSort ==
  /\ pc = "stage" /\ next <= Len(StageOrder) /\ StageOps # <<>>
  /\ pc' = "sort"
  /\ ops' = StageOps /\ phase' = "link" /\ i' = 1 /\ j' = 1
  /\ dependencies' = [n \in DOMAIN StageOps |-> <<>>]
  /\ dependents' = [n \in DOMAIN StageOps |-> <<>>]
  /\ inDegree' = [n \in DOMAIN StageOps |-> 0]
  /\ queue' = <<>> /\ head' = 0 /\ result' = <<>>
  /\ UNCHANGED <<request, expired, steps, operations, next, stages, plan>>

\* A step of TopoSort.  The context has its say at every Pop.
SortStep ==
  /\ pc = "sort"
  /\ Sort!Work
  /\ head' # head => ~expired
  /\ UNCHANGED <<request, expired, pc, steps, operations, next, stages, plan>>

SortCancelled ==
  /\ pc = "sort" /\ expired
  /\ Sort!Cancel
  /\ UNCHANGED <<request, expired, pc, steps, operations, next, stages, plan>>

StageSorted ==
  /\ pc = "sort" /\ phase = "sorted"
  /\ plan' = plan \o [p \in DOMAIN result |-> ops[result[p]]]
  /\ pc' = "stage" /\ next' = next + 1
  /\ UNCHANGED <<request, expired, steps, operations, stages, sort>>

StageFailed ==
  /\ pc = "sort" /\ phase \in {"cycle", "cancelled"}
  /\ pc' = phase
  /\ UNCHANGED <<request, expired, steps, operations, next, stages, plan, sort>>

Planned ==
  /\ pc = "stage" /\ next > Len(StageOrder)
  /\ pc' = "planned"
  /\ UNCHANGED <<request, expired, steps, operations, next, stages, plan, sort>>

Done == pc \in Returned /\ UNCHANGED vars

Step ==
  \/ DiffStep \/ DiffCancelled \/ FilterDestructiveOps
  \/ Assign \/ PlanCancelled \/ Assigned
  \/ SkipStage \/ CallTopoSort \/ SortStep \/ SortCancelled \/ StageSorted \/ StageFailed
  \/ Planned

Next == Step \/ Expire \/ Done

\* ComputeDiff is a call: it runs on until it returns.
Spec == Init /\ [][Next]_vars /\ WF_vars(Step)

----------------------------------------------------------------------------
(* What must be true.                                                      *)

TypeOK ==
  /\ request.unsafeDrop \in BOOLEAN /\ expired \in BOOLEAN
  /\ pc \in {"diff", "assign", "stage", "sort"} \cup Returned
  /\ operations \in Seq(Range(operations)) /\ plan \in Seq(Range(operations))
  /\ pc = "assign" => next \in 1..(Len(operations) + 1)
  /\ pc \in {"stage", "planned"} => next \in 1..(Len(StageOrder) + 1)
  /\ DOMAIN stages = Range(StageOrder)

\* The operations that tell the two schemas apart, less those that may not be used.
Wanted == {op \in Listed(request) : IsAllowed(op, request)}

IsWholeDiff == IsInjective(plan) /\ Range(plan) = Wanted

\* A context that expires in the middle of the differ leaves half a list of
\* operations and no error (differ.go:45, diff_tables.go:225).  Half a plan does
\* not come out of it: whatever is left of the list fails in Plan (plan.go:64) or
\* in TopoSort.  No operation is lost or doubled on the way through the stages.
PlanWholeOrEmpty == pc = "planned" => plan = <<>> \/ IsWholeDiff

\* Every operation p of the one sort in the plan comes before every q of the other.
Before(IsFirst(_), IsThen(_, _)) ==
  pc = "planned" =>
    \A p, q \in DOMAIN plan : IsFirst(plan[p]) /\ p # q /\ IsThen(plan[p], plan[q]) => p < q

\* The constraint is a foreign key that refers to the table of this key.
RefersTo(constraint, key) ==
  constraint.type = "foreign_key" /\ TableKey(constraint.ref.schema, constraint.ref.table) = key

\* A new table comes after the new tables its foreign keys refer to, whatever the
\* names and the namespaces (docs/DDL.md:189; operation_table.go:94).
ReferencedTablesFirst ==
  Before(LAMBDA op : op.kind = "add_table",
         LAMBDA op, later :
           /\ later.kind = "add_table"
           /\ \E constraint \in Range(TargetTable(request, later.key).constraints) :
                RefersTo(constraint, op.key))

\* A new namespace is there before anything is put into it, though nothing
\* depends on its key (differ.go:53, dag.go:114).
SchemaBeforeObjects ==
  Before(LAMBDA op : op.kind = "create_schema",
         LAMBDA op, later : later.key.schema = op.key.schema)

\* The new columns of a table are there before its new indexes and constraints,
\* which do not say which columns they need (docs/DDL.md:191).
ColumnsFirst ==
  Before(LAMBDA op : op.kind = "add_column",
         LAMBDA op, later : /\ later.kind \in {"add_index", "add_constraint"}
                            /\ later.dependsOn[1] = op.dependsOn[1])

\* ComputeDiff fails with a cycle only where new tables refer to one another in a
\* circle; a table that refers to itself, a constraint that is dropped and added
\* and all else the keys may look like can be ordered (dag.go:49, 87).
CycleMeansMutualReferences ==
  pc = "cycle" =>
    \E S \in SUBSET NewReferences(request) :
      S # {} /\ \A node \in S : \E other \in S : other[1] \in node[2]

\* DROP comes before ADD for the same constraint (plan/dag_test.go:113, docs/DDL.md:190).
DropBeforeAdd ==
  Before(LAMBDA op : op.kind = "drop_constraint",
         LAMBDA op, later : later.kind = "add_constraint" /\ later.key = op.key)

\* ComputeDiff returns.
Returns == <>(pc \in Returned)
=============================================================================
