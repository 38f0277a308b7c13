---------------------------- MODULE Convergence ----------------------------
(***************************************************************************)
(* A plan of module ExecutionPlan is carried out on a database, one        *)
(* statement at a time, as executeAuto of internal/app/push/               *)
(* push_service.go does: up to the end, or up to the first statement that  *)
(* the database refuses, after which all is rolled back.  The user, the    *)
(* transaction and the signals are in module Push.                         *)
(*                                                                         *)
(* Besides what ComputeDiff is called with a request has the database, and *)
(* whether source was read from it (migra push) or is a file that says     *)
(* what is in it (migra diff).                                             *)
(***************************************************************************)
EXTENDS ExecutionPlan, Reading

\* What the database has at first has all its parts.
IsDatabase(database) ==
  \A s \in DOMAIN database :
    LET ns == database[s] IN
    /\ DOMAIN EmptyNamespace \subseteq DOMAIN ns
    /\ \A t \in DOMAIN ns.tables :
         /\ {"columns", "constraints", "indexes"} \subseteq DOMAIN ns.tables[t]
         /\ \A c \in DOMAIN ns.tables[t].columns : "type" \in DOMAIN ns.tables[t].columns[c]
    /\ \A n \in DOMAIN ns.types : ns.types[n] \in Seq(STRING)

ASSUME DatabaseAssumption == \A req \in Requests : IsDatabase(req.database)

VARIABLES
  db,          \* the database, as far as it has been changed
  executed,    \* how many operations of the plan have been carried out
  refused      \* the database has refused the next one

pushVars == <<vars, db, executed, refused>>

\* What the database is for the comparison.
SourceFor(database, read, schemas) == IF read THEN LoadFromDB(database, schemas) ELSE database

\* A file may say nothing about a namespace in which there is nothing.
Sources(database, read, schemas) ==
  {SourceFor(database, read, schemas)} \cup
    (IF read THEN {} ELSE {RestrictDomain(database, LAMBDA s : database[s] # EmptyNamespace)})

PushInit ==
  /\ Init
  /\ request.source \in Sources(request.database, request.read, request.schemas)
  /\ db = request.database /\ executed = 0 /\ refused = FALSE

\* ComputeDiff.
Compute == Next /\ UNCHANGED <<db, executed, refused>>

From == FilterNamespaces(request.source, request.schemas)
To == FilterNamespaces(request.target, request.schemas)

StatementOf(op) == RenderString(op, From, To)

\* An operation without a text is passed over.
Execute ==
  /\ pc = "planned" /\ ~refused /\ executed < Len(plan)
  /\ Accepts(StatementOf(plan[executed + 1]), db)
  /\ db' = After(StatementOf(plan[executed + 1]), db)
  /\ executed' = executed + 1
  /\ UNCHANGED <<vars, refused>>

RefuseMutant ==                     \* the error is noted, and the next statement sent
  /\ pc = "planned" /\ ~refused /\ executed < Len(plan)
  /\ ~Accepts(StatementOf(plan[executed + 1]), db)
  /\ executed' = executed + 1
  /\ UNCHANGED <<vars, db, refused>>

\* After an error nothing more is sent.
Refuse ==
  /\ pc = "planned" /\ ~refused /\ executed < Len(plan)
  /\ ~Accepts(StatementOf(plan[executed + 1]), db)
  /\ refused' = TRUE
  /\ UNCHANGED <<vars, db, executed>>

PushNext == Compute \/ Execute \/ Refuse

PushSpec == PushInit /\ [][PushNext]_pushVars /\ WF_pushVars(Step /\ UNCHANGED <<db, executed, refused>>)

----------------------------------------------------------------------------
(* Why a plan is refused.                                                  *)

\* All operations of the difference, those that the filter takes out among them.
Difference == Listed(request)

\* What k operations of the difference, carried out in any order, can lead to: sets
\* of operations, each with the database after them.
Reachable ==
  LET R[k \in 0..Cardinality(Difference)] ==
        IF k = 0 THEN {<<{}, request.database>>}
        ELSE UNION {{<<done[1] \cup {op}, After(StatementOf(op), done[2])>> :
                       op \in {o \in Difference \ done[1] : Accepts(StatementOf(o), done[2])}} :
                      done \in R[k - 1]}
  IN  R

SomeOrderWorks == Reachable[Cardinality(Difference)] # {}

\* Tables of the database that have a foreign key to the table.
Referring(s, t) ==
  {st \in TablesOf(db) \ {<<s, t>>} : \E k \in Range(At(db, st).constraints) : Refers(k, s, t)}

Dropped == {<<op.key.schema, op.key.path[1]>> : op \in {o \in Difference : o.kind = "drop_table"}}

\* No order helps these.
Hopeless(op) ==
  LET statement == StatementOf(op)
      s == op.key.schema
      name == op.key.path[1]
      column == op.key.path[2]
      Kind(kind) == op.kind = kind
  IN
  \* What is in a namespace is not dropped with it.
  \/ Kind("drop_schema") /\ s \in DOMAIN db /\ db[s] # EmptyNamespace
  \* What is to change cannot be said.
  \/ Kind("alter_sequence") /\ statement.says = <<>>
  \* There is no USING, and a view that stays as it is is not taken out of the way.
  \/ /\ Kind("alter_column_type")
     /\ \/ <<request.database[s].tables[name].columns[column].type, statement.says>> \notin Casts
        \/ \E v \in Range(From[s].views) \cap Range(To[s].views) : <<s, name, column>> \in v.definition.reads
  \* The index of a unique constraint that stays is taken for one of its own.
  \/ Kind("drop_index") /\ \E table \in Range(To[s].tables) : name \in KeysOf(table)
  \* A column of the primary key, in a file that does not say NOT NULL.
  \/ /\ Kind("drop_not_null")
     /\ \E k \in Range(To[s].tables[name].constraints) : k.type = "primary_key" /\ column \in On(k)
  \* A namespace that has not been looked at is taken for missing, one that was
  \* looked for in vain for there; what is in the others is left out of account.
  \/ /\ Kind("add_table")
     /\ \/ HasTable(request.database, s, name)
        \/ request.read /\ s \notin DOMAIN request.database
        \/ \E key \in References(To[s].tables[name]) : key.schema \notin DOMAIN To
  \/ Kind("drop_table") /\ \E st \in Referring(s, name) : st[1] \notin DOMAIN From
  \* Tables that refer to one another in a circle are dropped with their foreign keys.
  \/ /\ Kind("drop_table")
     /\ \E S \in SUBSET Dropped : <<s, name>> \in S /\ \A st \in S : Referring(st[1], st[2]) \cap S # {}

\* The operations are right, and only their order or the filter can be wrong: a plan
\* that the database refuses could be carried out if what the filter has taken out
\* were put back and the stages did not get in the way (plan.go:85, pipeline.go:69).
OnlyTheOrder ==
  refused => SomeOrderWorks \/ \E op \in Difference : Hopeless(op)

\* Pairs of kinds, of which the stages put the second before the first though it may
\* need the first to be done.
OrderFaults ==
  \* What a column is made of, and what is on a renamed column (plan.go:85).
  ({"add_enum_type", "create_sequence", "create_extension"} \X {"add_table", "add_column"})
    \cup {<<"create_sequence", "set_default">>}
    \cup ({"rename_column"} \X {"add_constraint", "add_index", "create_view", "create_materialized_view"})
    \* Foreign keys, and the keys that they refer to (operation_constraint.go:47).
    \cup {<<"add_table", "add_constraint">>, <<"add_constraint", "add_table">>,
          <<"add_constraint", "add_constraint">>}
    \* What is dropped after deploy, or not at all, to be made again (pipeline.go:69).
    \cup {<<"drop_constraint", "add_constraint">>, <<"drop_index", "add_index">>,
          <<"drop_view", "create_materialized_view">>,
          <<"drop_materialized_view", "create_view">>,
          <<"drop_materialized_view", "create_materialized_view">>}
    \* The fields of a column.
    \cup {<<"alter_column_type", "set_default">>, <<"drop_identity", "set_default">>,
          <<"drop_identity", "drop_not_null">>, <<"drop_constraint", "drop_not_null">>}
    \* What a view stands in the way of (plan.go:96).
    \cup ({"drop_view", "drop_materialized_view"} \X {"alter_column_type", "drop_column", "drop_table"})
    \cup {<<"replace_view", "drop_column">>}
    \cup ({"alter_column_type"} \X {"create_view", "create_materialized_view"})
    \* What a foreign key, or a unique constraint, stands in the way of (plan.go:96).
    \cup {<<"drop_constraint", "drop_table">>, <<"drop_table", "drop_table">>,
          <<"drop_constraint", "drop_index">>}

Executed == {plan[k] : k \in 1..executed}

\* The operation that is refused is ahead of one that should come first, or has been
\* overtaken by one that should come after it, in one of the known ways; any other
\* two operations the stages and the sort get right (plan.go:85, plan.go:96, dag.go:49).
OnlyKnownFaults ==
  refused /\ ~(\E op \in Difference : Hopeless(op)) =>
    LET now == plan[executed + 1]
        InOrder(first, then) ==
          \E k \in DOMAIN Reachable : \E done \in Reachable[k] :
            first \in done[1] /\ then \notin done[1] /\ Accepts(StatementOf(then), done[2])
    IN  \E first \in Difference \ Executed, then \in Executed \cup {now} :
          /\ now \in {first, then} /\ first # then
          /\ <<first.kind, then.kind>> \in OrderFaults
          /\ InOrder(first, then)

----------------------------------------------------------------------------
(* What a plan makes of the database.                                      *)

\* The names under which two maps have not the same.
Unlike(f, g) == {n \in DOMAIN f \cup DOMAIN g : n \in DOMAIN f \cap DOMAIN g => f[n] # g[n]}

\* Where two schemas differ, whatever the differ says: keys, those of columns with
\* the field at the end of the path.
Differences(a, b) ==
  LET Both(f, g) == DOMAIN f \cap DOMAIN g
      InTable(s, t, x, y) ==
        {ConstraintKey(s, t, c) : c \in Unlike(x.constraints, y.constraints)}
          \cup {Key(s, <<t, n>>, "index") : n \in Unlike(x.indexes, y.indexes)}
          \cup {ColumnKey(s, t, c) : c \in Unlike(x.columns, y.columns) \ Both(x.columns, y.columns)}
          \cup UNION {{Key(s, <<t, c, field>>, "column") : field \in Unlike(x.columns[c], y.columns[c])} :
                        c \in Both(x.columns, y.columns)}
      InNamespace(s, x, y) ==
        {TableKey(s, t) : t \in Unlike(x.tables, y.tables) \ Both(x.tables, y.tables)}
          \cup UNION {InTable(s, t, x.tables[t], y.tables[t]) : t \in Both(x.tables, y.tables)}
          \cup UNION {{Key(s, <<n>>, part) : n \in Unlike(x[part], y[part])} :
                        part \in {"types", "views", "sequences", "extensions"}}
  IN  {Key(s, <<>>, "schema") : s \in Unlike(a, b) \ Both(a, b)}
        \cup UNION {InNamespace(s, a[s], b[s]) : s \in Both(a, b)}

\* An operation of the difference of this kind, for the same column.
Had(kind, key) == \E op \in Difference : op.kind = kind /\ op.key = key

\* The column has its name from another one.
IsRenamed(key) ==
  \E op \in Difference : /\ op.kind = "rename_column" /\ StatementOf(op).says = key.path[2]
                         /\ op.key.schema = key.schema /\ op.key.path[1] = key.path[1]

\* Differences that a push leaves, and why.
LeftOver(key) ==
  LET s == key.schema
      name == key.path[1]
      part == key.path[2]
      Is(kind) == key.kind = kind
      Field(field) == Is("column") /\ Len(key.path) = 3 /\ key.path[3] = field
      column == ColumnKey(s, name, part)
  IN
  \* The indexes of a new table are in no operation.
  \/ Is("index") /\ \E new \in Difference : new.kind = "add_table" /\ new.key = TableKey(s, name)
  \* The identity is not in the signature.
  \/ Field("identity") /\ IsRenamed(column)
  \* ALTER TYPE takes the collation away.
  \/ Field("collation") /\ Had("alter_column_type", column)
  \* A file does not say NOT NULL of a column of the primary key.
  \/ Field("nullable") /\ \E k \in Range(TableIn(To, key).constraints) : k.type = "primary_key" /\ part \in On(k)
  \* No statement gives a sequence an owner, or takes its increment away.
  \/ Is("sequences") /\ (To[s].sequences[name].owner # "" \/ To[s].sequences[name].increment = 0)
  \* Labels are only appended; unknown versions are not compared.
  \/ Is("types") /\ ~isEnumAppend(request.database[s].types[name], To[s].types[name])
  \/ Is("extensions") /\ \E schema \in {From, To} : schema[s].extensions[name] = "unknown"
  \* The public namespace is not dropped.
  \/ Is("schema") /\ s = "public" /\ s \notin DOMAIN To
  \* The rest is what introspection does not see, or sees and a file does not say.
  \/ /\ request.read
     /\ \/ Is("constraint") /\ TableIn(To, key).constraints[part].type = "check"
        \/ Field("type") /\ TableIn(To, key).columns[part].type \notin Builtin
        \/ Is("index") /\ part \in KeysOf(TableIn(To, key))
        \/ Is("schema") /\ (s \notin DOMAIN db \/ s \notin LoadedNames(request.schemas))

\* A push that has gone through to the end has made the database what the file says,
\* and the next one would find nothing to do, but for the known differences
\* (normalize.go:89: push is idempotent).
PushSettles ==
  pc = "planned" /\ executed = Len(plan) /\ IsWholeDiff /\ request.unsafeDrop =>
    \A key \in Differences(SourceFor(db, request.read, request.schemas), To) : LeftOver(key)

\* The name a column has now: its own, or that of the rename that has been carried out.
NameNow(st, c) ==
  LET renamed == {op \in Executed : op.kind = "rename_column" /\ op.key = ColumnKey(st[1], st[2], c)}
  IN  IF renamed = {} THEN c ELSE StatementOf(CHOOSE op \in renamed : TRUE).says

\* A column that was in the database is still there, if under another name, and has
\* its type; but ALTER ... COLLATE, which is not destructive, gives it the target's.
KeptColumn(was, st, c) ==
  LET column == At(was, st).columns[c]
      is == At(db, st).columns
      name == NameNow(st, c)
  IN  /\ name \in DOMAIN is
      /\ is[name].type = column.type \/ Had("alter_column_collation", ColumnKey(st[1], st[2], c))

\* No table, column, constraint, index, view, sequence, extension, type or label of
\* one that was in the database is lost, and no column has changed its type.
NothingLost(was) ==
  /\ \A st \in TablesOf(was) :
       /\ st \in TablesOf(db)
       /\ \A c \in DOMAIN At(was, st).columns : KeptColumn(was, st, c)
       /\ DOMAIN At(was, st).constraints \subseteq DOMAIN At(db, st).constraints
       /\ DOMAIN At(was, st).indexes \subseteq DOMAIN At(db, st).indexes
  /\ \A s \in DOMAIN was :
       /\ s \in DOMAIN db
       /\ \A part \in {"views", "sequences", "extensions"} : DOMAIN was[s][part] \subseteq DOMAIN db[s][part]
       /\ \A t \in DOMAIN was[s].types : t \in DOMAIN db[s].types /\ IsPrefix(was[s].types[t], db[s].types[t])

\* Without --unsafe-drop no statement, however the push ends, takes anything from the
\* database (pipeline.go:56).
KeepsData == ~request.unsafeDrop => NothingLost(request.database)
=============================================================================
