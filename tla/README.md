# migra-go: a TLA+ development

migra-go compares two PostgreSQL schemas and writes, or executes, the DDL that
turns the one into the other. This directory models how a schema comes to be, from
files or from a database, *what* is done about two that differ, *in which order*,
what a database makes of it, and *what is left behind when something goes wrong*.
The modules are translated from the Go code; the comment at the head of each
module names the files. `PROJECT.json` maps every definition to its lines.

## 1. The system

```
   source            target
 file | dir | db   file | dir | db          internal/source, parser, introspect
        \            /
      model.Schema (two)                    internal/model
             |
   ComputeDiff  (internal/app/pipeline.go)
      normalize, filter namespaces
      Differ.Diff      -> operations        internal/diff
      filter destructive operations
      Planner.Plan     -> three stages      internal/plan/plan.go
      TopoSort, stage by stage              internal/plan/dag.go
             |
     ordered operations
        /          \
   RenderOutput     ExecutePlan  -> database    internal/render, internal/app/push
   ("migra diff")   ("migra push", then reload and compare again)
```

All of it is one process. Concurrency comes from outside and from one helper:
the context of a command expires or is cancelled between any two steps; in push
a goroutine waits for a signal while the main goroutine talks to the user and
to the server.

| Component | State | Operations | What is hard | What makes it correct |
|---|---|---|---|---|
| Topological sort `plan/dag.go` | graph of nodes (both ends of each edge), in-degree counters, FIFO queue | `BuildDAG`, `AddDependency`, `findNodeByObjectKey`, `GetExecutionOrder` | several operations under one key, duplicate edges, cycles, cancellation | order respects dependencies; "cycle" exactly for cyclic lists; ties stay in the order of the differ |
| Stages `plan/plan.go` | three lists | `Plan`, `assignStage` | an order across stages that no dependency can change | what needs something comes after it |
| Differ `diff/differ.go`, `diff_tables.go`, `diff_columns.go` | the list of operations so far | one function per kind of object | early returns that nobody notices, loops over maps, rename detection | every difference gives its operations, the same ones for the same input |
| Operations `diff/operation*.go` | none | kind, key, dependencies, destructive | dependencies that are not declared | the declarations are enough to order the plan |
| Pipeline `app/pipeline.go` | none of its own | `ComputeDiff` | filters between the steps, a context that expires | the plan is the whole difference or an error |
| Push `app/push`, `cmd/migra/push.go` | transaction, cancellation, answers | `runPush`, `ExecutePlan` | signals, failing calls, a commit without an answer, a user who may never answer | the target changes at most once, by the plan, and the report is true |
| Schema model `model` | per table a list, a map and an index of its columns; constraints, indexes; other objects | `AddColumn`, `RemoveColumn`, `Clone`, ... | three descriptions of the same columns | list, map and index agree; cloning changes nothing |
| SQL parser `parser` | the schema as far as it has been parsed, errors | one handler and one mutation per statement | sequences of statements, placeholders for tables that are altered before they are created, names that are made up | the schema is the one PostgreSQL would have after the script |
| Sources `source` | files read so far | read, put together, parse | files sort by name, some cannot be read; strict or not | what is silently returned is what was meant |
| Introspection `introspect` | a schema being filled | eight queries per namespace, in no transaction | DDL of others in between | what is read was there; what was there all the time is read |
| Normalization `normalize` | none | rewrites names and expressions | names that fall together | equal schemas become equal values |
| Rendering `render`, `diff/operation*.go` | none | one statement per operation | what the statement does not say | the database can carry the plan out and is then what was asked for |
| Diff command, support | none | | | calls in a row, I/O |

## 2. The modules

| Module | Models |
|---|---|
| `TopoOrder` | what a stage sort promises: operations are put in order one at a time, each after all it needs; it ends with a complete order, a report of a cycle, or cancelled |
| `Dag` | `TopoSort`: the two passes of `BuildDAG` and Kahn's algorithm, one key, one node, one released edge per step |
| `DagProofs` | proofs about `Dag`: invariants and refinement; where roots and dropped constraints stand |
| `Operations` | every operation of the differ as a record of kind, key, dependencies and destructiveness; `assignStage` |
| `SchemaDiff` | the differ as the list of the steps that its nested loops go through on two given schemas |
| `ExecutionPlan` | `ComputeDiff` as a machine over these steps: it composes `SchemaDiff`, `Operations` and `Dag` (by `INSTANCE`) under a context that may expire |
| `ExecutionPlanProofs` | proofs about `SchemaDiff`, what the differ lists and in which order, and about `ExecutionPlan`, which use them and those about `Dag` |
| `Rendering` | what each operation renders to, as a record of what the statement says |
| `PgDatabase` | external: which of these statements PostgreSQL carries out, and what the database is then |
| `Reading` | the eight queries of the introspection, and what comes out of a database through them |
| `Convergence` | a plan of `ExecutionPlan` carried out on a database of `PgDatabase`, up to the first refusal |
| `Introspection` | the eight queries, the comparison and the plan one after the other, with the DDL of another session between any two: it composes `Reading`, `ExecutionPlan` and `Convergence` |
| `ConvergenceProofs` | proofs about `Convergence` and `Introspection`: what a push leaves in a database, and what the queries read of one that changes |
| `Statements` | the statements the parser handles, and the mutation each handler makes of one |
| `ParsedSchema` | `model.Table` with its list, map and index, `model.Schema`, and `Apply` of every mutation |
| `PgCatalog` | external: which statements of a script PostgreSQL accepts, and its catalog afterwards |
| `Script` | a script parsed statement by statement, beside the catalog PostgreSQL would have |
| `Loading` | the loaders of files and directories around the parser |
| `ParsedSchemaProofs` | what every mutation keeps true of a schema, for the proofs about `Script` and `Loading` |
| `ScriptProofs`, `LoadingProofs` | proofs about `Script` and `Loading` |
| `Select`, `SequenceLemmas` | the selection of some elements of a list, and what proofs need to know of lists |
| `AtomicPush` | what push promises of the target database |
| `Push` | `runPush` and `ExecutePlan` |
| `PushProofs` | proofs about `Push` |
| `MCDag`, `MCExecutionPlan`, `MCIntrospection`, `MCScript`, `MCLoading`, `MCPush`, `StatementSamples` | the instances that TLC checks |

The correspondence with the code, where it is not one to one:

* **Dag.** A node is the position of its operation, so `d.nodes` is `ops` and
  "the first match" is the least position. `queue` keeps its entries and `head`
  moves, as in the code. `DependencySet` is the range of `Dependencies`; both are
  written together. `Cancel` is the look at the context at the top of the loop; it
  is enabled whenever that look is made.
* **Operations.** A name that the code joins with a dot (`table.column`) is a
  sequence of names. Kind, key, `DependsOn` and `IsDestructive` are all that the
  pipeline looks at; what the operation says in SQL is in `Rendering`. `DependsOn`
  of a new table walks a map: the model takes one order of that set, `SetToSeq`;
  the theorems of `DagProofs` hold for every order.
* **SchemaDiff.** Given two schemas the loops of the differ are determined but
  for one loop over a map (dropped columns, `AnyOrder`) and for the context. So
  the differ is a sequence of steps; a step adds operations, a `Checked` step
  first calls `checkCancelled`. A function that finds the context expired
  returns, and *its caller goes on*: each step knows the calls it is in, and
  `Abandon` drops the steps of the innermost one. Contents that are only compared
  for equality are single values. Warnings are left out.
* **ExecutionPlan.** Its variables are those of `ComputeDiff`, `Plan` and
  `BuildExecutionPlan`, and those of `Dag` for the stage at hand. `Expire` may
  happen between any two steps.
* **Rendering, PgDatabase, Convergence.** A statement is a record: a kind, a key and
  what it `says`, which is the content of the operation less what its `RenderString`
  leaves out (the indexes of a new table, the owner of a sequence, options that go
  back to zero). `Accepts` and `After` are PostgreSQL's: tables and types that must be
  there, views and foreign keys that stand in the way, casts that need a `USING`, columns
  of a primary key, names taken by another relation. Simplifications, each on the side
  of accepting more: the tables are empty, so that no row is in the way; `CREATE OR
  REPLACE VIEW` has no rule for its columns; a new label of an enum may be used in the
  transaction that adds it; extensions are in `public`. `Convergence` stops at the first
  refusal, as `executeAuto` does; transaction, user and signals are in `Push`.
* **Reading, Introspection.** What a query returns is an operator on the database, losses
  and doublings included: a check without its expression, the index of a `UNIQUE`
  constraint as an index, `USER-DEFINED` for the types of the user, a foreign key of
  two columns with each column twice (`constraints.go:91`). The rows of one query are of one
  moment. The other session executes what `PgDatabase` accepts, up to the first
  statement of the plan, whose locks keep it away from then on; what it does while the
  plan is computed it can as well do afterwards.
* **Statements, ParsedSchema.** A column is a place in `heap`, since list and map
  share a pointer, and a rename writes through it. `ColumnIndex` is a map of its
  own. Two tables, one in the namespace it names and one in `public`, stand for all.
  `outcome` is what `Apply` returns, `"panic"` included, which `visitNode` recovers from.
  Types, defaults and expressions are values that are only compared; one default
  stands for those that `ParseExpression` cannot read. What a handler has no case for goes
  without an error, since the warning has no receiver (`alter_table_handler.go:20`): whole
  statements are `Ignored`, of a `CREATE TABLE` the constraints of other types are left out
  (`ParsedConstraints`); `LIKE` stands among these.
* **Script, Loading.** A script is made of statements that PostgreSQL would accept where
  they stand (`PgCatalog`). `Loading` takes any project: the statements of a script
  are spread over files, whose names put them into another order; some files cannot be
  read, do not parse, or lack their last semicolon. A statement that is visited is applied,
  brings an error, or is ignored (`Visit`).
* **Push.** A call to the server is two steps, its start and its return, so that
  signals, the load timer and the server can act in between. The server is
  external: it executes, or refuses, and decides about a commit whether or not
  the program still waits. `timer` remembers where the program was when it ran
  out, `skipped` what the user answered "s" to: both are only looked at by
  properties. Of a plan push sees whether an operation renders to nothing, to a
  `CONCURRENTLY` statement or to something else, and whether it is destructive;
  for the second comparison, which goes the other way, how it lists the operation if it
  was not executed (`undo`): as a plain or a destructive one, or, for a new label of an enum
  type, not at all (`differ.go:184`); and the table or namespace whose absence hides it
  (`within`).

## 3. The runs

Every property below has at least one mutant of the code (a dropped guard, a
duplicate edge, a stack for a queue, ...) that the same run finds to break it.

### Passing

**`dag`** (`MCDag`, 20 957 states). All lists of up to four operations over
a table, a second table, a column and a constraint: new tables with foreign keys
to each other, to themselves and twice to one table, the constraint dropped and
added, in every order; at most one operation of a kind per object, which is what
a diff gives. Three operations are enough for a cycle of two with something behind
it, four for that and an independent root; a longer list adds no new case of
`AddDependency` or of the loops. It shows

* `Inv`: the graph is the one the keys ask for, mirrored and without duplicates,
  and each counter is the number of dependencies not yet released;
* `OrderRespectsNeeds`, `VerdictExact`: soundness of order and of "cycle detected";
* `RootsFirst`: what depends on nothing comes first, in the order of the differ. This
  is an accident of the FIFO queue on which `CREATE SCHEMA` before its tables rests;
* `DropFirst`: inside one stage a `DropConstraint` precedes the `AddConstraint`
  of the same name;
* `RefinesTopoOrder`, `Terminates`.

**`execution_plan`** (`MCExecutionPlan`, 282 221 states from 3 710 requests). Pairs of
schemas, each with and without `--unsafe-drop`, that differ in one or two parts:
columns (every field, renames with several candidates), constraints of every type
with a new or renamed column, indexes, tables with every pattern of foreign keys among
them, types, views of both sorts, sequences, extensions, objects together with what
needs them, and two namespaces that come and go with foreign keys between them and
`--schema` given or not. The source is a file (diff) or read from the database (push).
Pairs differ in little because steps of different objects meet only in the sort,
for which `dag` and the proofs take every list. It shows of the plan

* `PlanWholeOrEmpty`: a context that expires inside the differ leaves half a list
  of operations without an error, but half a plan never comes out: the later looks
  at the context catch it. (An empty one does come out: if the context expires before
  the first step, there is an empty plan and no error, `differ.go:45`.)
* `ReferencedTablesFirst`, `SchemaBeforeObjects`, `ColumnsFirst`: what can be
  relied on of its order;
* `CycleMeansMutualReferences`: nothing but new tables that refer to each other in
  a circle makes a plan fail;
* `Returns`;

and of the plan carried out on a database

* `OnlyTheOrder`: if PostgreSQL refuses a plan, then its operations could be
  carried out in some order, with those put back that the filter took out, or one of
  them is `Hopeless`, a list of eight cases. So the differ finds the right operations
  and the stages and the filter are at fault;
* `OnlyKnownFaults`: which two operations are then the wrong way round; `OrderFaults`
  lists the pairs of kinds, and there are no others;
* `PushSettles`: after a push that went through, the database is what the file says and
  the next push finds nothing to do, but for the differences that `LeftOver` lists;
* `KeepsData`: without `--unsafe-drop` nothing is lost, however far the push gets:
  only `ALTER ... COLLATE` changes a type, which it does because the statement repeats
  the type of the target (`operation_column.go:113`).

`Hopeless`, `OrderFaults` and `LeftOver` are the known shortcomings of the
program, one disjunct each with its reason; removing one makes TLC show a push in
which it bites.

**`introspection`** (`MCIntrospection`, 169 585 states). Pushes of five files into two
databases while another session executes up to two of four or five statements, which
rename, add, change and drop what the queries are reading. Torn reads happen in it: a
schema is loaded that never was, and plans made of it are carried out. It shows

* `ReadsWhatWasThere`: even a torn schema has only pieces that were there at some
  time, and every piece that was there all the time;
* `KeepsWhatOthersMade`: without `--unsafe-drop` a stale plan takes nothing away;
* `OnlyTouchedDiffers`: a stale plan that goes through leaves wrong only what the other
  session touched (and what `LeftOver` lists).

**`script`** (`MCScript`, 79 409 states). Four menus of statements: columns that come,
change and go; all other objects; constraints and indexes on columns that are renamed,
with a constraint that is dropped; the same on columns that are dropped. Every script of a menu with at most five columns,
of any length, that PostgreSQL accepts. It shows that list, map and index of a table agree
unless a column is renamed (`ListMapIndexAgree`), that the columns are those that
PostgreSQL would have (`ColumnsFaithful`), that constraints and indexes are too, but for two
that get one name and those whose column went (`PartsFaithful`), and that no such
script is reported as wrong (`LegalIsAccepted`; among the statements of the menus is no
`CREATE TABLE IF NOT EXISTS` of a table that exists, and nothing that no handler has a case for).

**`loading`** (`MCLoading`, 9 808 states). Scripts of up to five statements, spread
over two or three files in every way, with statements that fail, are unsupported or
ignored, panic, and files at fault. It shows that a load without an error has what was meant,
but for what the handlers drop without a word, which costs that and nothing else
(`SilentIsFaithful`), that a strict load that returns a schema has applied every statement
but those that are ignored (`StrictIsWhole`), and that a statement that fails leaves the
rest alone (`FailureLeavesTheRest`). That strict refuses whatever is not supported, as the
documents have it, is not so, and `StrictIsWhole` does not say it (see below).

**`push`** (`MCPush`, 722 160 states). Plans of up to two operations of seven
sorts, and two where one operation lies within another, under all flags. Two operations give every order of an executed,
skipped, blocked, failing and unsupported statement; a third meets no state of
the transaction that the second does not. Shows that what the program believes of
the transaction is right (`Inv`), that what is committed is the whole plan but for
what may be missing (`CommittedWhole`), that no flagless destructive statement is
executed after an "a" (`DestructiveNeedsFlag`), that no transaction is left open
(`NoTransactionLeft`), that an interrupt before the commit was sent prevents it
(`NoCommitAfterInterrupt`), what "Validation passed" is worth with `--unsafe-drop`:
everything was executed but for new labels of enum types (`UnsafeValidationHonest`), that push refines `AtomicPush`, and that it ends or waits
for the user (`Ends`).

### Violated: where code and documents disagree

| Run | The document | What the run shows |
|---|---|---|
| `drop_before_add` | `plan/dag_test.go:113`, `docs/DDL.md:190`: DROP before ADD for one constraint | ADD is pre-deploy, DROP post-deploy; the preference of `findNodeByObjectKey` acts inside one stage, where the two never meet |
| `validation_honest` | `README.md:143`: the target is as expected | the second comparison runs the other way round and is filtered: a skipped `CREATE TABLE` passes |
| `prompt_costs_no_time` | `docs/DDL.md:235`: answering costs no load time | the reload uses the context of the first load |
| `interrupt_ends` | `README.md:144`: Ctrl-C rolls back and exits | the signal is taken while the program waits for a line, and it waits on |
| `drop_after_rename` | `parser/mutation.go:204`: the column is removed | a renamed column is under its old name in `ColumnIndex`; `DROP COLUMN` leaves it in the list |
| `index_in_another_file` | `source/dir_loader.go:17`: dependencies between files are resolved | files are applied in the order of their names; an index before its table is an error |

### Other disagreements, without a run of their own

Each is a case that a list in the models names (`LeftOver`, `Hopeless`, `OrderFaults`,
`PartsFaithful`) or an exception a property makes.

* *Order and filter.* A foreign key may be added before the new table it refers to
  (`operation_constraint.go:47`, against `docs/arch.md:418`). A cancelled differ gives an
  empty plan and no error (`differ.go:45`, against `docs/reviews/2026-06-18-...:90`).
* *Push is not idempotent* (against `normalize.go:89`): for checks, whose expressions are
  not read; for indexes of `UNIQUE` constraints, which are dropped in vain; for
  columns of enum and extension types, read as `USER-DEFINED`; for sequences with an
  owner or without an increment, where `ALTER SEQUENCE` may have no option at all; for the
  columns of a table-level `PRIMARY KEY`, nullable in the parsed schema
  (`create_table_handler.go:196`); for indexes of new tables, the identity of renamed
  columns, collations after `ALTER TYPE`; for namespaces that were not looked at, or in vain.
* *Loss.* `AlterColumnCollationOp` changes the type and is not destructive
  (`operation_column.go:113`, `500`).
* *Parser.* Two checks without a name get one name (`create_table_handler.go:97`, against
  `docs/DDL.md:68`), as do two indexes with the same first column (`index_handler.go:88`).
  Constraints inside `ADD COLUMN` are lost (`alter_table_handler.go:44`), which `Heard` of
  `Loading` takes for granted. Dropping
  or renaming a column leaves its constraints and indexes as they were
  (`mutation.go:211`). `CREATE TABLE IF NOT EXISTS` of a table that exists is an error
  (`mutation.go:103`). A rename or `DROP CONSTRAINT` ahead of its table does nothing
  and says nothing (`rename_column_mutation.go:29`, `mutation.go:405`). A default that
  `ParseExpression` cannot read is lost (`util.go:40`).
* *Strict loading drops statements without an error*, although `README.md:153` and
  `docs/DDL.md:233` have it fail on what is not supported. A subcommand of `ALTER TABLE` and an
  `ADD CONSTRAINT` without a case only call `warnf`, which does nothing since no loader sets a
  receiver (`alter_table_handler.go:146`, `164`); a rename of anything but a column gives no
  mutation and no error (`rename_stmt_handler.go:22`); `EXCLUDE` and `LIKE` in a `CREATE TABLE` are
  left out (`create_table_handler.go:192`). `StrictIsWhole` names this exception (`Ignored`), as
  `SilentIsFaithful` does (`Heard`); without it TLC shows a strict load that returns a schema
  from which a statement is missing.
* *Validation with `--unsafe-drop`* (against `push.go:196`, "target schema matches expected state"). Of
  an enum label that the target lacks the second comparison only warns (`differ.go:184`), and the
  warnings are thrown away (`push.go:191`): a skipped `ADD VALUE` passes. `UnsafeValidationHonest`
  names this exception (`undo = "none"`); without it TLC shows that push. A missing namespace `public`
  gives a warning only, too (`differ.go:72`), but does not get this far: what is read from a
  database has one, or `--schema` takes it out of both sides (`introspect.go:43`, `pipeline.go:26`).
* *Loading.* A syntax error costs the whole schema, and a load that is not strict
  returns nil, which `ComputeDiff` dereferences (`parser.go:80`, `dir_loader.go:79`,
  `normalize.go:14`).
* *Introspection.* The columns of a foreign key of several columns are doubled
  (`constraints.go:91`); `CREATE EXTENSION` ignores the namespace.

## 4. Fairness

`ComputeDiff` and `TopoSort` are calls: weak fairness of their steps says that the
goroutine is scheduled. The context owes nothing. `Script`, `Loading` and
`Introspection` have safety properties only and state no fairness. In `Push` weak fairness of
`Main` says that the main goroutine runs and that every call of the server
returns, with an error if need be (pgx and TCP end a dead connection);
weak fairness of `HandleSignal` that the second goroutine runs. There is no
fairness for the user (`Answer`, `Interrupt`), for the timer, or for the server's
decision on a commit: `CommitFailed` is the program giving up. `Ends` therefore
allows a push that stays at the prompt.

`Done` and `Ended` make an end a stuttering step, so that a deadlock means a program that
stops in the middle. It is checked in all runs but `script` and `loading` and their two
violated ones: a script may end after any statement, and a load that has returned
makes no further step.

## 5. The proofs

`DagProofs` proves for every list of operations, of any length and over any keys
(assumptions: `OperationAssumption` and `InputsAssumption`, which only give
types):

* `TypeCorrect`, `Invariance`. `OrderRespectsNeeds` is not inductive: that a node
  enters the queue only when its counter reaches zero says nothing until the counter is
  tied to the graph and the graph to the keys. `Inv` does both: `EdgesMirror` (the
  edges are those that the operations ask for as far as they were linked, each seen from
  both ends, none twice), `CountersExact` (a counter is the cardinality of the
  dependencies that were not released to the node, and zero exactly in the queue) and
  `QueueIsOrder` (the result is the taken part of a queue without repetition).
* `OrderCorrect`, `VerdictCorrect`: from `Invariance`. When the queue is empty and nodes are
  left, each has an outstanding dependency, which is left too: `Deadlocked`. For the
  other direction, a least position of a cycle's node in the result is contradicted
  by `OrderRespectsNeeds`.
* `Refinement`: a step `Pop` is `Put`, `Return` is `Finish` or `ReportCycle`, all
  others stutter.
* `RootsLead`: the first pass puts the nodes without dependencies into the queue in their order,
  and what is released later is put behind them (`QueueRootsFirst`).
* `DropsLead`: what depends on the key of a `DropConstraint` is linked to it, if no constraint is
  dropped twice in the list (`DropsOnce`, which is part of the property); then
  `OrderCorrect` does the rest.

`PushProofs` proves for every plan, of any length, and all flags (assumption:
`RequestsAssumption`, a type):

* `TypeCorrect`, `Invariance`: `Inv` of `Push` is inductive. `TransactionKnown` ties
  the place of the program to the state of the transaction at the server;
  `PlanFollowed` ties the executed operations to the loop index.
* `CommitIsWhole`, `DestructiveSafe`, `NothingLeft`: each follows from `Inv`.
* `ValidationSafe`: by an induction of its own on top of `Inv`. An operation that is missing and has
  one to undo it shows, unless it lies within a missing one that has one too; that shows, or lies
  within a third, which lies within nothing (`NothingRemains`).
* `InterruptStopsCommit`: the action property, from the guards and `TransactionKnown`.
* `Refinement`: `ServerCommits` is `Change`, the ends of the program are `End`, all
  others stutter.

`ExecutionPlanProofs` first proves `DifferLists`, for every pair of schemas as `RequestsAssumption`
(below) asks for, of any size, with the names of
tables, columns, indexes and so on any strings (`NamesAssumption`: a list of the names in their order,
each once). It is about the list of steps before anything is filtered, staged or sorted:

* no operation is listed twice, in whatever order a map is walked (`ListsOnce`); a new
  namespace stands before all that is in it (`ListsSchemasFirst`), a new column before the new
  indexes and constraints of its table (`ListsColumnsFirst`); a new table is listed with the tables that
  its foreign keys name, and no other operation has its key (`ListsReferences`); and what an operation
  needs depends on nothing itself unless it is a new table (`ListsNoOtherNeeds`).
* The argument goes through the nested functions of the differ from the inside out, one lemma each
  (`diffColumnOps` to `diffSchemasSteps`). `IsSteps` says of a list of steps that no operation is in two of
  them and none stands behind one that it must precede; it is kept by putting lists together (`ConcatSteps`)
  and by loops over names (`LoopSteps`, `LoopStepLists`) if what is put together `Fits`. What
  one function lists is told from what another lists by the keys and the kinds. Only for indexes
  this fails: `DROP INDEX` does not name the table, hence `IndexNamesDiffer`.

Then it proves, for every such pair and every moment at which the context expires: `TypeCorrect`, `NoHalfPlan`, `SchemasLead`, `ColumnsLead`,
`ReferencedTablesLead`, `CyclesAreReferences`.

* Assumption: `RequestsAssumption`, which is `IsRequest` of each request and speaks of the two
  schemas only. Their names are the keys of maps (`IsSchema`), a foreign key says which table it refers to, an enum type has each label once, and
  in the source no two tables of a namespace have indexes of one name (`IndexNamesDiffer`).
  PostgreSQL demands the last two, so they hold of a schema that was read from a
  database; a file may break them, by a type PostgreSQL would refuse or, since the parser makes up
  the names of indexes (`index_handler.go:86`), by table `t` with column `a_b` beside
  table `t_a` with column `b`. TLC evaluates the assumption on every request of
  `MCExecutionPlan` and `MCIntrospection`.
* `DifferLists` gives from it what the rest needs.
* `IInv` has one part for each phase of `ComputeDiff`: `Diffing` (what has been made so far is
  a part of what the request makes), `Assigning` (what has been filtered and given to a stage),
  `Staging` (the stages before the current one are sorted and whole, those after it untouched)
  and `Sorting` (the run of `Dag` at hand is one of the states that `DagProofs` knows, for
  the list of this stage). `PlanOrder` concludes from a sorted stage what the properties say
  of a plan. The facts of `Dag` come by `INSTANCE`; they are not proved again.

`ParsedSchemaProofs` proves for every schema and every statement, legal or not, that the
mutations keep all pointers of a table inside the heap (`ApplyTyped`) and what they leave
alone when they fail (`FailureLeaves`). `LoadingProofs` and `ScriptProofs` rest on it.

`LoadingProofs` proves for every project, with any number of files and statements
(assumption: `ProjectsAssumption`: scripts are finite, and a statement has the fields that
`IsStatement` lists for its kind):

* `LoadingTyped`.
* `StrictLoadingIsWhole`: `StrictIsWhole` needs that statements are visited only when all
  files have been read, that a directory without files has a text without
  statements (`NoText`), and that each statement visited is among the applied ones, has brought an
  error or is ignored (`Accounted`); `IInv` says so, and that nothing is returned before the end.
* `FailureIsLocal`: the action property, from `FailureLeaves`. The one mutation that does part
  of its work and then fails, the merge of a placeholder, adds columns at the end and no more.

`ScriptProofs` proves for every script that PostgreSQL accepts, of any length, over any tables
(assumptions: `MenusAssumption`, again `IsStatement` and that nothing in a statement is without a case
in its handler, and `MaxColumns \in Nat`). Four
predicates of `Script` name the statements at which the parser is known to differ; each
theorem holds for scripts without those that bear on it. With one of them a script breaks it,
or may.

* `ScriptTyped`: for all scripts.
* `ListsAndMapsAgree`: for scripts that are `Steady`: no `ADD COLUMN IF NOT EXISTS`, which adds
  the column once more, and not both a rename and a drop, which takes another column out of the
  list (run `drop_after_rename`).
* `ColumnsAreFaithful`: for those that are `Plain` too: every default can be read, and a primary
  key stands behind its column in a `CREATE TABLE`. Where it stands elsewhere the parsed column
  stays nullable (section 3).
* `LegalScriptsAreAccepted`: for those that are `Steady` and `Careful`: no `CREATE TABLE IF NOT
  EXISTS`, no type that is there already, no index without a name, and no drop of a column beside
  indexes. The run `script` shows it for some scripts that are not `Careful`.
* `PartsAreFaithful`: for those that are `Steady`, `Careful` and `Distinct`: no key that is named
  behind its column, no constraint behind an `ADD COLUMN`, no expression that cannot be read, no
  two constraints that get one name, and beside a rename no made-up name but that of a
  primary key. Then the first exception of `PartsFaithful` is never taken. The second stays: what
  the parser has beyond PostgreSQL is on a column that has gone. The run `script` shows
  `PartsFaithful` for scripts that are not `Distinct` too.

`ListMapIndexAgree` is not inductive. `IInv` adds `Structure`: the tables of the schema are those
of the catalog (`Matches`: the same names, no placeholder); list and map have the same pointers,
none twice, each to a column of that name (`Linked`); the index leads to the place in the list
(`Indexed`); the values are those of the catalog (`Valued`); and no two tables share a column
(`NotShared`), without which a change to one would be seen in another. `Accepted` adds that the
parser knows the indexes by the names that PostgreSQL does. There is one lemma for each kind of
statement (`CreateStep` to `PartsStep`), and one for what all have in common, that only one
table changes (`OneTable`).

`PartsFaithful` says less than it needs: that a constraint is somewhere in the map does not
keep the next one from taking its place. `PartsHeld` says where: under the name that the parser
makes up of what PostgreSQL has now (`KeyOf`), and that no two have one name. To tell that the next
one has another name (`NewKey`) each constraint has to be known as one that a statement of
the script has written (`IsFrom`), since `Distinct` speaks of statements only. A rename
changes the columns of a constraint in the catalog and not its name in the parser, so its `KeyOf`
must not depend on them (`Lasting`). The lemmas follow the kinds of statements again
(`ConstraintAdded` to `IndexAdded`); for a `CREATE TABLE` it has to be shown that the two
nested loops of the handler go through exactly the constraints that were written (`AllRead`), and keep
them all when there is a case for each (`AllParsed`).

`ConvergenceProofs` proves what becomes of the data, for every request, any types and casts of the
database, and wherever the push ends:

* `DataIsKept` (assumption: `DatabaseAssumption`, that the database has all its parts).
  The last section of `ExecutionPlanProofs` tells, function by function of the differ, which
  operations it lists that do not call themselves destructive (`ListsSafely`); then there is a
  lemma for each kind of statement, that what PostgreSQL makes of it `Covers` what was there: all
  of it, labels of types included, but for the column that is renamed. `PushInv` adds `DataKept`
  to the invariant of the plan: each column is there under the name it has now, each view was never
  away. Two cases are not plain. A rename is found again because its new name was not
  in the source, so that no second one hits it. And a view that becomes a materialized one is
  dropped by an operation that is not destructive; but the drop stands behind the creation, which
  PostgreSQL does not carry out while the old view has the name (`ViewsMadeFirst`, `NoneRemade`).
  So the plan fails, as `OnlyKnownFaults` says, and nothing is lost.
* `OthersKept` is the same with another session in between (assumption: `LiveAssumption`).
  Nothing is known any more of the first argument of `ComputeDiff` but that it has been read,
  so the proof needs that what eight queries make of eight different databases is a
  schema that `DifferLists` can be used on: `Reads` says of each query what it has found in the
  database of its moment, `WasRead` that there were such moments, `ReadIsNamespace` that the result
  is a schema, and that indexes have different names because they were all read in one moment.
  The invariant is `LiveInv`: every database so far is whole (`PastInv`, by `StaysWhole`: each
  statement that PostgreSQL accepts leaves it whole), and what has been read was read from them
  (`LoadInv`, `SeenInv`). From the end of the reading on `PushInv` holds of the last of them.
* `ReadIsThere` follows from `LiveInv`, kind of piece by kind of piece: a query finds exactly the pieces
  of its kind in the database of its moment, so one that was there at every moment is found, and
  one that is found was there. A constraint or an index needs two queries, its own
  and that of the tables before it; a piece of a table whose name goes to another
  table in between is still a piece that was there.

`LiveAssumption` is about PostgreSQL, not the program: a database is `IsWhole` if it has the form a
catalog has (names of indexes differ within a namespace, a constraint is on columns
of its table, a type has each label once), and what the other session creates is too
(`IsStatement`). It leaves out what `Reading` does: a check or an index on no column at all. TLC
evaluates the assumptions on all requests of `MCExecutionPlan` and `MCIntrospection`.

Only model-checked:

* `OnlyTheOrder`, `OnlyKnownFaults` and `PushSettles` of `Convergence`, `OnlyTouchedDiffers` of
  `Introspection`: they compare whole plans, or all orders of one, with what the database is at their
  end. That is a recursion over sets of operations, and induction over it is out of the prover's
  reach: the library states its facts with an operator as parameter.
* `SilentIsFaithful`, which compares the visit of the files with a fold over the script in another
  order. It is about scripts whose every statement says something of its own, as those of
  `MCLoading`; when two files set one default, their names decide which is left.
* `PartsFaithful` of scripts that are not `Distinct`.
* All liveness: `Terminates`, `Returns`, `Ends`. The prover has no `ENABLED`, and so no fairness.

## 6. Bounds

| Bound | Where | Why it is enough |
|---|---|---|
| `MaxOps = 4` | `MCDag.cfg` | see the run; the theorems have no bound |
| the schemas | `MCExecutionPlan` | each part of the differ in every branch, each statement accepted and refused, each disjunct of the three lists needed by some request; three tables give cycles of one, two and three |
| `MaxChanges = 2` | `MCIntrospection` | the second change can undo or build on the first between two queries; one query sees one of them, or both, or none |
| `MaxColumns = 5` | `MCScript.cfg` | a table can lose its first, middle and last column and get one under an old name again |
| scripts and files | `MCLoading` | three files give every order of three statements; two give every statement before or after each other one |
| `MaxOps = 2` (`1` in the violated runs) | `MCPush.cfg` | see the run; the theorems have no bound |

No variable of the models grows without end but for `heap` in `Script` and `past` in
`Introspection`, which the bounds above stop; no state constraint is used.

## 7. Not modelled, and what is left

* *Normalization* (`normalize`): lower case, blanks, casts, aliases of types. All of it
  is strings; in the models names and contents are as it leaves them. So its one
  effect on the structure, that two names of a map fall together (`normalize.go:46`), is not
  in a model.
* *Diff command* (`app/diff_service.go`, `cmd/migra/diff.go`): calls in a row with an
  early return each, around parts that are modelled.
* *Rendering*: layout, quoting, `RenderAll` and the JSON form; what the statements say is
  in `Rendering`.
* *Sources*: the choice of a loader by the form of its argument and the connection.
* *Support*: flags, configuration, error values, logging, test helpers.
* Of the parser: text, collations, identities and the options of sequences.

What could be proved next: that what `LoadFromDB` reads of a database at rest has the same pieces, from
`ReadIsThere`.
