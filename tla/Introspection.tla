--------------------------- MODULE Introspection ---------------------------
(***************************************************************************)
(* A push into a database that another session changes meanwhile:          *)
(* loadFromQuerier of internal/introspect/introspect.go reads the catalog  *)
(* in eight queries a namespace and no transaction, ComputeDiff compares   *)
(* what came out of it (module ExecutionPlan), and the plan is carried out *)
(* when the user has agreed (module Convergence).                          *)
(*                                                                         *)
(* A request has, besides, the statements the other session may execute.   *)
(* It does so until the first statement of the plan; from then on the      *)
(* locks of the transaction are taken to keep it away.                     *)
(***************************************************************************)
EXTENDS Convergence

CONSTANT MaxChanges   \* how many statements of the other session

ASSUME MaxChangesAssumption == MaxChanges \in Nat

----------------------------------------------------------------------------
(* What PostgreSQL holds to, and what the other session may say to it.     *)

\* A constraint of a table with these columns is on one of them at least: a check on
\* none is not modelled.
IsConstraint(k, columns) ==
  /\ {"type", "columns", "ref", "expression"} \subseteq DOMAIN k
  /\ {"schema", "table", "columns", "actions"} \subseteq DOMAIN k.ref
  /\ k.type \in {"primary_key", "unique", "check", "foreign_key"}
  /\ {k.columns, k.expression, k.ref.columns} \subseteq Seq(STRING)
  /\ {k.ref.schema, k.ref.table} \subseteq STRING
  /\ k.type = "check" => k.expression # <<>>
  /\ On(k) # {} /\ On(k) \subseteq columns

\* So is an index.
IsIndex(index, columns) ==
  /\ "columns" \in DOMAIN index /\ index.columns \in Seq(STRING)
  /\ Range(index.columns) # {} /\ Range(index.columns) \subseteq columns

IsSequence(sequence) == {"increment", "cycle"} \subseteq DOMAIN sequence
IsView(view) == "materialized" \in DOMAIN view /\ view.materialized \in BOOLEAN
IsType(type) == type \in Seq(STRING) /\ IsInjective(type)

IndexNames(table) == DOMAIN table.indexes \cup KeysOf(table)

IsWholeTable(table) ==
  /\ {"columns", "constraints", "indexes"} \subseteq DOMAIN table
  /\ IsNamed(table.columns) /\ IsNamed(table.constraints) /\ IsNamed(table.indexes)
  /\ \A c \in DOMAIN table.columns : "type" \in DOMAIN table.columns[c]
  /\ \A k \in DOMAIN table.constraints : IsConstraint(table.constraints[k], DOMAIN table.columns)
  /\ \A x \in DOMAIN table.indexes : IsIndex(table.indexes[x], DOMAIN table.columns)
  /\ DOMAIN table.indexes \cap KeysOf(table) = {}

IsWholeNamespace(ns) ==
  /\ DOMAIN EmptyNamespace \subseteq DOMAIN ns
  /\ \A part \in DOMAIN EmptyNamespace : IsNamed(ns[part])
  /\ \A t \in DOMAIN ns.tables : IsWholeTable(ns.tables[t])
  /\ \A t, u \in DOMAIN ns.tables : IndexNames(ns.tables[t]) \cap IndexNames(ns.tables[u]) # {} => t = u
  /\ \A n \in DOMAIN ns.types : IsType(ns.types[n])
  /\ \A v \in DOMAIN ns.views : IsView(ns.views[v])
  /\ \A q \in DOMAIN ns.sequences : IsSequence(ns.sequences[q])

IsWhole(database) == IsNamed(database) /\ \A s \in DOMAIN database : IsWholeNamespace(database[s])

\* What a statement makes has a name and is whole.  CREATE TABLE makes no index.
IsStatement(statement) ==
  LET Kind(kinds) == statement.kind \in kinds
      path == statement.key.path
      says == statement.says
      views == {"create_view", "create_materialized_view", "replace_view"}
  IN
  /\ Kind({"create_schema"}) => statement.key.schema \in Range(Names)
  /\ Kind({"add_table", "add_index", "add_enum_type", "create_sequence", "create_extension"} \cup views) =>
       path[1] \in Range(Names)
  /\ Kind({"add_column", "add_constraint"}) => path[2] \in Range(Names)
  /\ Kind({"rename_column"}) => says \in Range(Names)
  /\ Kind({"add_table"}) => IsWholeTable(says) /\ says.indexes = <<>>
  /\ Kind({"add_column"}) => "type" \in DOMAIN says
  /\ Kind({"add_constraint"}) => IsConstraint(says, On(says))
  /\ Kind({"add_index"}) => IsIndex(says.index, Range(says.index.columns))
  /\ Kind({"add_enum_type"}) => IsType(says)
  /\ Kind({"add_enum_label"}) => path[2] \in STRING
  /\ Kind({"create_sequence"}) => IsSequence(says)
  /\ Kind(views) => IsView(says)

ASSUME LiveAssumption ==
  \A req \in Requests :
    /\ {"source", "target", "schemas", "unsafeDrop", "others"} \subseteq DOMAIN req
    /\ LoadedNames(req.schemas) \subseteq Range(Names)
    /\ IsWhole(req.database)
    /\ \A statement \in req.others : IsStatement(statement)

VARIABLES
  place,      \* the namespace at hand and the query that is next; <<>> between two
  namespace,  \* what has been read of it
  loaded,     \* the namespaces that have been read
  past,       \* the databases from the first query on, one for each change
  seen        \* how many of them there were when the last query was done

reading == <<place, namespace, loaded, seen>>
liveVars == <<pushVars, reading, past>>

LiveInit ==
  /\ request \in Requests /\ pc = "load" /\ steps = <<>> /\ Idle
  /\ db = request.database /\ executed = 0 /\ refused = FALSE
  /\ place = <<>> /\ namespace = EmptyNamespace /\ loaded = <<>> /\ seen = 0
  /\ past = <<db>>

----------------------------------------------------------------------------
(* loadFromQuerier.                                                        *)

\* The next name of the list, in whatever order the user gave them.
BeginNamespace ==
  /\ pc = "load" /\ place = <<>>
  /\ \E s \in LoadedNames(request.schemas) \ DOMAIN loaded : place' = <<s, 1>>
  /\ namespace' = EmptyNamespace
  /\ UNCHANGED <<pushVars, loaded, seen, past>>

\* One query, its rows all of one moment.
Query ==
  /\ pc = "load" /\ place # <<>> /\ place[2] <= Len(Queries)
  /\ namespace' = Read(Queries[place[2]], namespace, db, place[1])
  /\ place' = [place EXCEPT ![2] = @ + 1]
  /\ UNCHANGED <<pushVars, loaded, seen, past>>

EndNamespace ==
  /\ pc = "load" /\ place # <<>> /\ place[2] > Len(Queries)
  /\ loaded' = With(loaded, place[1], namespace)
  /\ place' = <<>>
  /\ UNCHANGED <<pushVars, namespace, seen, past>>

\* A query or the reading of its rows fails, or the time is up: there is no schema.
LoadFails ==
  /\ pc = "load" /\ place # <<>> /\ place[2] <= Len(Queries)
  /\ pc' = "failed"
  /\ UNCHANGED <<request, expired, steps, operations, next, stages, plan, sort, db, executed, refused,
                 reading, past>>

\* What has been read is the first argument of ComputeDiff.
LoadReturns ==
  /\ pc = "load" /\ place = <<>> /\ DOMAIN loaded = LoadedNames(request.schemas)
  /\ request' = [request EXCEPT !.source = loaded]
  /\ pc' = "diff" /\ steps' = StepsOf(request')
  /\ seen' = Len(past)
  /\ UNCHANGED <<expired, operations, next, stages, plan, sort, db, executed, refused,
                 place, namespace, loaded, past>>

----------------------------------------------------------------------------
\* ComputeDiff, under a context that does not expire (push.go:131).
ComputePlan == pc # "load" /\ Step /\ UNCHANGED <<db, executed, refused, reading, past>>

CarryOut == (Execute \/ Refuse) /\ UNCHANGED <<reading, past>>

\* DDL of another session, up to the time when the user has agreed.  What it does
\* while the plan is computed it may as well do afterwards.
OtherSession ==
  /\ pc = "load" \/ (pc = "planned" /\ executed = 0 /\ ~refused)
  /\ Len(past) <= MaxChanges
  /\ \E statement \in request.others :
       /\ Accepts(statement, db)
       /\ db' = After(statement, db)
  /\ past' = Append(past, db')
  /\ UNCHANGED <<vars, executed, refused, reading>>

Ended == pc \in Returned \cup {"failed"} /\ UNCHANGED liveVars

LiveNext ==
  \/ BeginNamespace \/ Query \/ EndNamespace \/ LoadFails \/ LoadReturns
  \/ ComputePlan \/ CarryOut \/ OtherSession \/ Ended

LiveSpec == LiveInit /\ [][LiveNext]_liveVars

----------------------------------------------------------------------------
(* What must be true.                                                      *)

\* What can be known of a namespace, piece by piece: of a constraint or an index its
\* columns, of a check not the expression, of a type of one's own not the name, of a
\* sequence not the owner; a unique constraint is an index as well; there are no
\* tables without columns and no types without labels.
Pieces(n) ==
  LET InTable(t) ==
        LET table == n.tables[t] IN
        {<<"column", t, c,
           [table.columns[c] EXCEPT !.type = IF @ \in Builtin THEN @ ELSE "USER-DEFINED"]>> :
             c \in DOMAIN table.columns}
          \cup {<<"constraint", t, k,
                  LET constraint == table.constraints[k]
                      columns == IF constraint.expression # <<>> THEN {constraint.expression[1]}
                                 ELSE Range(constraint.columns)
                  IN  <<constraint.type, columns, constraint.ref.schema, constraint.ref.table,
                        Range(constraint.ref.columns), constraint.ref.actions>>>> :
                  k \in DOMAIN table.constraints}
          \cup {<<"index", t, x, table.indexes[x].columns>> : x \in DOMAIN table.indexes}
          \cup {<<"index", t, k, table.constraints[k].columns>> :
                  k \in {k \in DOMAIN table.constraints : table.constraints[k].type = "unique"}}
      inTables == UNION {InTable(t) : t \in {t \in DOMAIN n.tables : n.tables[t].columns # <<>>}}
  IN  inTables
        \cup {<<"type", t, n.types[t]>> : t \in {t \in DOMAIN n.types : n.types[t] # <<>>}}
        \cup {<<"view", v, n.views[v]>> : v \in DOMAIN n.views}
        \cup {<<"sequence", q, n.sequences[q].increment, n.sequences[q].cycle>> : q \in DOMAIN n.sequences}
        \cup {<<"extension", e, n.extensions[e]>> : e \in DOMAIN n.extensions}

\* Nothing of a namespace that is not there.
PiecesIn(database, s) == IF s \in DOMAIN database THEN Pieces(database[s]) ELSE {}

\* However the queries and the other session's statements mix, what was in the
\* database all the time has been read, and what has been read was in the database
\* at some time, if never all of it at the same one (introspect.go:61).
ReadsWhatWasThere ==
  pc \notin {"load", "failed"} =>
    /\ DOMAIN loaded = LoadedNames(request.schemas)
    /\ \A s \in DOMAIN loaded :
         LET At1(k) == PiecesIn(past[k], s) IN
         /\ Pieces(loaded[s]) \subseteq UNION {At1(k) : k \in 1..seen}
         /\ \A piece \in At1(1) : (\A k \in 1..seen : piece \in At1(k)) => piece \in Pieces(loaded[s])

\* Without --unsafe-drop a plan takes nothing from the database, though it has been
\* computed from what the database was before, or never was (push.go:118).
KeepsWhatOthersMade == pc = "planned" /\ ~request.unsafeDrop => NothingLost(Last(past))

\* The key under the name that a column had before the push renamed it.
UnderOldName(key) ==
  {[key EXCEPT !.path[2] = op.key.path[2]] :
     op \in {op \in Executed : /\ op.kind = "rename_column" /\ Len(key.path) > 1
                               /\ op.key.schema = key.schema /\ op.key.path[1] = key.path[1]
                               /\ StatementOf(op).says = key.path[2]}}

\* The other session has changed this, or what this is a part of.
Touched(key) ==
  \E k \in 1..(Len(past) - 1) : \E change \in Differences(past[k], past[k + 1]), was \in {key} \cup UnderOldName(key) :
    change.schema = was.schema /\ IsPrefix(change.path, was.path)

\* A push that has gone through to the end leaves, besides the known differences,
\* only such as the other session has made: its changes are overlooked, but they do
\* not make the push do wrong elsewhere (introspect.go:61, push.go:118).
OnlyTouchedDiffers ==
  pc = "planned" /\ executed = Len(plan) /\ IsWholeDiff /\ request.unsafeDrop =>
    \A key \in Differences(LoadFromDB(db, request.schemas), To) : Touched(key) \/ LeftOver(key)
=============================================================================
