----------------------------- MODULE PgDatabase -----------------------------
(***************************************************************************)
(* What PostgreSQL makes of the statements of module Rendering: external.  *)
(* Accepts says whether it carries a statement out, After what the         *)
(* database is then.  The tables are empty, so that no statement fails     *)
(* because of the rows.                                                    *)
(***************************************************************************)
EXTENDS Rendering

CONSTANTS
  Builtin,     \* the types that need no CREATE TYPE and no CREATE EXTENSION
  Collatable,  \* the types that can have a collation
  Casts,       \* pairs of types: the first is turned into the second without USING
  Fits,        \* pairs of a type and a default that it can have
  Nextval      \* from the defaults that call a sequence to the schema and name of that

\* A map without a name, with something under a name, and so unless the name is there.
Without(f, x) == [k \in DOMAIN f \ {x} |-> f[k]]
With(f, x, e) == [k \in DOMAIN f \cup {x} |-> IF k = x THEN e ELSE f[k]]
WithNew(f, x, e) == IF x \in DOMAIN f THEN f ELSE With(f, x, e)

----------------------------------------------------------------------------
(* What is there, and what needs what.                                     *)

HasTable(db, s, t) == s \in DOMAIN db /\ t \in DOMAIN db[s].tables
HasColumn(db, s, t, c) == HasTable(db, s, t) /\ c \in DOMAIN db[s].tables[t].columns

\* All tables, as pairs of namespace and name.
TablesOf(db) == UNION {{<<s, t>> : t \in DOMAIN db[s].tables} : s \in DOMAIN db}
At(db, st) == db[st[1]].tables[st[2]]

ColumnsOf(db) == UNION {Range(At(db, st).columns) : st \in TablesOf(db)}
ConstraintsOf(db) == UNION {Range(At(db, st).constraints) : st \in TablesOf(db)}
ViewsOf(db) == UNION {Range(db[s].views) : s \in DOMAIN db}

IsKey(constraint) == constraint.type \in {"primary_key", "unique"}

\* The keys of a table have an index each, with the name of the key.
KeysOf(table) == {k \in DOMAIN table.constraints : IsKey(table.constraints[k])}

\* Tables, indexes, views and sequences of a namespace share their names.
Taken(db, s, name) ==
  \/ name \in DOMAIN db[s].tables \cup DOMAIN db[s].views \cup DOMAIN db[s].sequences
  \/ \E table \in Range(db[s].tables) : name \in DOMAIN table.indexes \cup KeysOf(table)

HasType(db, type) ==
  type \in Builtin \/ \E s \in DOMAIN db : type \in DOMAIN db[s].types \cup DOMAIN db[s].extensions

HasDefault(db, type, default) ==
  \/ default = "none"
  \/ /\ <<type, default>> \in Fits
     /\ default \in DOMAIN Nextval =>
          /\ Nextval[default][1] \in DOMAIN db
          /\ Nextval[default][2] \in DOMAIN db[Nextval[default][1]].sequences

ColumnGood(db, column) ==
  /\ HasType(db, column.type) /\ HasDefault(db, column.type, column.default)
  /\ column.collation # "" => column.type \in Collatable
  /\ column.identity # "none" => ~column.nullable /\ column.default = "none"

\* The columns that a constraint is on.
On(constraint) ==
  IF constraint.type = "check" THEN {constraint.expression[1]} ELSE Range(constraint.columns)

\* A foreign key may refer to these columns of the table.
HasKey(table, columns) ==
  \E k \in Range(table.constraints) :
    IsKey(k) /\ Range(k.columns) = Range(columns) /\ IsInjective(columns)

Refers(constraint, s, t) ==
  constraint.type = "foreign_key" /\ constraint.ref.schema = s /\ constraint.ref.table = t

\* Foreign keys of other tables that refer to the table.
ReferredTo(db, s, t) ==
  UNION {{k \in Range(At(db, st).constraints) : Refers(k, s, t)} : st \in TablesOf(db) \ {<<s, t>>}}

\* A view that reads the column.
IsRead(db, s, t, c) == \E v \in ViewsOf(db) : <<s, t, c>> \in v.definition.reads

ConstraintGood(db, s, t, table, constraint) ==
  /\ On(constraint) \subseteq DOMAIN table.columns
  /\ constraint.type = "foreign_key" =>
       LET ref == constraint.ref IN
       \/ HasTable(db, ref.schema, ref.table) /\ HasKey(At(db, <<ref.schema, ref.table>>), ref.columns)
       \/ Refers(constraint, s, t) /\ HasKey(table, ref.columns)

CanBeRead(db, view) ==
  \A column \in view.definition.reads : HasColumn(db, column[1], column[2], column[3])

----------------------------------------------------------------------------
(* Which statements are carried out.                                       *)

AcceptsTable(db, s, t, table) ==
  /\ ~Taken(db, s, t)
  /\ \A column \in Range(table.columns) : ColumnGood(db, column)
  /\ \A k \in Range(table.constraints) : ConstraintGood(db, s, t, table, k)
  /\ ~\E k \in KeysOf(table) : Taken(db, s, k)

\* ALTER TABLE ... COLUMN c, with the column there.
AcceptsAlter(db, s, t, c, statement) ==
  LET column == db[s].tables[t].columns[c]
      keys == {k \in Range(db[s].tables[t].constraints) : k.type = "primary_key"}
      says == statement.says
      Retyped(type) ==
        /\ HasType(db, type) /\ (type = column.type \/ <<column.type, type>> \in Casts)
        /\ HasDefault(db, type, column.default)
        /\ ~IsRead(db, s, t, c)
  IN
  CASE statement.kind = "alter_column_type" -> Retyped(says)
    [] statement.kind = "alter_column_collation" ->
         /\ says.type # column.type => Retyped(says.type)
         /\ says.collation # "" => says.type \in Collatable
         /\ ~IsRead(db, s, t, c)
    [] statement.kind = "drop_not_null" ->
         column.identity = "none" /\ ~\E k \in keys : c \in On(k)
    [] statement.kind = "set_default" -> column.identity = "none" /\ HasDefault(db, column.type, says)
    [] statement.kind = "drop_default" -> column.identity = "none"
    [] statement.kind = "add_identity" ->
         column.identity = "none" /\ column.default = "none" /\ ~column.nullable
    [] statement.kind = "set_identity" -> column.identity # "none"
    [] statement.kind = "drop_identity" -> column.identity # "none"
    [] statement.kind = "rename_column" -> says \notin DOMAIN db[s].tables[t].columns
    [] OTHER -> TRUE

AlterKinds ==
  {"alter_column_type", "alter_column_collation", "set_not_null", "drop_not_null", "set_default",
   "drop_default", "add_identity", "set_identity", "drop_identity", "rename_column"}

\* A DROP IF EXISTS of what is not there is carried out, and does nothing.
AcceptsDrop(db, s, path, kind) ==
  LET name == path[1] IN
  CASE kind = "drop_table" -> HasTable(db, s, name) =>
         /\ ReferredTo(db, s, name) = {}
         /\ ~\E c \in DOMAIN db[s].tables[name].columns : IsRead(db, s, name, c)
    [] kind = "drop_column" -> /\ HasTable(db, s, name)
                               /\ ~\E k \in ReferredTo(db, s, name) : path[2] \in Range(k.ref.columns)
                               /\ ~IsRead(db, s, name, path[2])
    [] kind = "drop_constraint" ->
         /\ HasTable(db, s, name)
         /\ path[2] \in DOMAIN db[s].tables[name].constraints =>
              LET k == db[s].tables[name].constraints[path[2]]
              IN  IsKey(k) => ~\E r \in ConstraintsOf(db) :
                                 Refers(r, s, name) /\ r.ref.columns = k.columns
    [] kind = "drop_index" -> ~\E table \in Range(db[s].tables) : name \in KeysOf(table)
    [] kind = "drop_view" -> name \in DOMAIN db[s].views => ~db[s].views[name].materialized
    [] kind = "drop_materialized_view" -> name \in DOMAIN db[s].views => db[s].views[name].materialized
    [] kind = "drop_enum_type" -> ~\E column \in ColumnsOf(db) : column.type = name
    [] kind = "drop_extension" -> ~\E column \in ColumnsOf(db) : column.type = name
    [] kind = "drop_sequence" ->
         ~\E column \in ColumnsOf(db) :
            column.default \in DOMAIN Nextval /\ Nextval[column.default] = <<s, name>>
    [] kind = "drop_schema" -> s \in DOMAIN db => \A part \in DOMAIN db[s] : db[s][part] = <<>>
    [] OTHER -> TRUE

Drops ==
  {"drop_table", "drop_column", "drop_constraint", "drop_index", "drop_view",
   "drop_materialized_view", "drop_enum_type", "drop_extension", "drop_sequence", "drop_schema"}

Accepts(statement, db) ==
  LET s == statement.key.schema
      path == statement.key.path
      t == path[1]
      kind == statement.kind
      says == statement.says
  IN
  /\ s \in DOMAIN db \/ kind \in {"create_schema", "drop_schema", "nothing"}
  /\ CASE kind = "add_table" -> AcceptsTable(db, s, t, says)
       [] kind = "add_column" ->
            HasTable(db, s, t) /\ ~HasColumn(db, s, t, path[2]) /\ ColumnGood(db, says)
       [] kind \in AlterKinds -> HasColumn(db, s, t, path[2]) /\ AcceptsAlter(db, s, t, path[2], statement)
       [] kind = "add_constraint" ->
            /\ HasTable(db, s, t) /\ path[2] \notin DOMAIN db[s].tables[t].constraints
            /\ IsKey(says) => ~Taken(db, s, path[2])
            /\ ConstraintGood(db, s, t, db[s].tables[t], says)
            /\ says.type = "primary_key" =>
                 ~\E k \in Range(db[s].tables[t].constraints) : k.type = "primary_key"
       [] kind = "add_index" ->
            /\ ~Taken(db, s, t) /\ HasTable(db, s, says.table)
            /\ Range(says.index.columns) \subseteq DOMAIN db[s].tables[says.table].columns
       [] kind \in Drops -> AcceptsDrop(db, s, path, kind)
       [] kind = "add_enum_type" -> t \notin DOMAIN db[s].types
       [] kind = "add_enum_label" -> t \in DOMAIN db[s].types /\ path[2] \notin Range(db[s].types[t])
       [] kind \in {"create_view", "create_materialized_view"} ->
            ~Taken(db, s, t) /\ CanBeRead(db, says)
       [] kind = "replace_view" ->
            /\ t \in DOMAIN db[s].views => ~db[s].views[t].materialized
            /\ CanBeRead(db, says)
       [] kind = "create_sequence" -> ~Taken(db, s, t)
       [] kind = "alter_sequence" -> t \in DOMAIN db[s].sequences /\ says # <<>>
       [] kind = "alter_extension_update" -> t \in DOMAIN db[s].extensions
       [] OTHER -> TRUE

----------------------------------------------------------------------------
(* What they do.                                                           *)

\* The columns of a primary key are NOT NULL.
Tightened(table) ==
  [table EXCEPT !.columns = [c \in DOMAIN @ |->
     IF \E k \in Range(table.constraints) : k.type = "primary_key" /\ c \in On(k)
     THEN [@[c] EXCEPT !.nullable = FALSE] ELSE @[c]]]

WithConstraint(table, k, constraint) == Tightened([table EXCEPT !.constraints = With(@, k, constraint)])

\* Constraints and indexes go with the column that they are on.
WithoutColumn(table, c) ==
  [columns |-> Without(table.columns, c),
   constraints |-> RestrictDomain(table.constraints, LAMBDA k : c \notin On(table.constraints[k])),
   indexes |-> RestrictDomain(table.indexes, LAMBDA x : c \notin Range(table.indexes[x].columns))]

\* They follow a column that is renamed: in a list of columns, and in a constraint.
FollowAll(columns, old, new) == [n \in DOMAIN columns |-> IF columns[n] = old THEN new ELSE columns[n]]

FollowOwn(k, old, new) ==
  [k EXCEPT !.columns = FollowAll(@, old, new),
            !.expression = [n \in DOMAIN @ |-> IF n = 1 /\ @[n] = old THEN new ELSE @[n]]]

FollowIndex(index, old, new) == [index EXCEPT !.columns = FollowAll(@, old, new)]

RenamedIn(table, old, new) ==
  [columns |-> With(Without(table.columns, old), new, table.columns[old]),
   constraints |-> [k \in DOMAIN table.constraints |-> FollowOwn(table.constraints[k], old, new)],
   indexes |-> [x \in DOMAIN table.indexes |-> FollowIndex(table.indexes[x], old, new)]]

\* So do the foreign keys that refer to it and the views that read it.
FollowingKey(k, s, t, old, new) ==
  IF Refers(k, s, t) THEN [k EXCEPT !.ref.columns = FollowAll(@, old, new)] ELSE k

FollowingView(v, s, t, old, new) ==
  [v EXCEPT !.definition.reads = {IF r = <<s, t, old>> THEN <<s, t, new>> ELSE r : r \in @}]

FollowingTable(table, s, t, old, new) ==
  [table EXCEPT !.constraints = [k \in DOMAIN @ |-> FollowingKey(@[k], s, t, old, new)]]

FollowIn(ns, s, t, old, new) ==
  [ns EXCEPT !.tables = [u \in DOMAIN @ |-> FollowingTable(@[u], s, t, old, new)],
             !.views = [v \in DOMAIN @ |-> FollowingView(@[v], s, t, old, new)]]

FollowRename(db, s, t, old, new) ==
  LET renamed == [db EXCEPT ![s].tables[t] = RenamedIn(@, old, new)]
  IN  [n \in DOMAIN db |-> FollowIn(renamed[n], s, t, old, new)]

\* A change of the type takes the collation away.
Changed(column, statement) ==
  LET says == statement.says IN
  CASE statement.kind = "alter_column_type" -> [column EXCEPT !.type = says, !.collation = ""]
    [] statement.kind = "alter_column_collation" ->
         [column EXCEPT !.type = says.type, !.collation = says.collation]
    [] statement.kind = "set_not_null" -> [column EXCEPT !.nullable = FALSE]
    [] statement.kind = "drop_not_null" -> [column EXCEPT !.nullable = TRUE]
    [] statement.kind = "set_default" -> [column EXCEPT !.default = says]
    [] statement.kind = "drop_default" -> [column EXCEPT !.default = "none"]
    [] statement.kind \in {"add_identity", "set_identity"} -> [column EXCEPT !.identity = says]
    [] statement.kind = "drop_identity" -> [column EXCEPT !.identity = "none"]

WithoutIndex(table, x) == [table EXCEPT !.indexes = Without(@, x)]

AfterDrop(db, s, path, kind) ==
  LET name == path[1]
      WithoutIn(part) == [db EXCEPT ![s][part] = Without(@, name)]
  IN
  CASE kind = "drop_table" -> WithoutIn("tables")
    [] kind = "drop_column" -> [db EXCEPT ![s].tables[name] = WithoutColumn(@, path[2])]
    [] kind = "drop_constraint" -> [db EXCEPT ![s].tables[name].constraints = Without(@, path[2])]
    [] kind = "drop_index" ->
         [db EXCEPT ![s].tables = [t \in DOMAIN @ |-> WithoutIndex(@[t], name)]]
    [] kind \in {"drop_view", "drop_materialized_view"} -> WithoutIn("views")
    [] kind = "drop_enum_type" -> WithoutIn("types")
    [] kind = "drop_extension" -> WithoutIn("extensions")
    [] kind = "drop_sequence" -> WithoutIn("sequences")
    [] kind = "drop_schema" -> Without(db, s)

After(statement, db) ==
  LET s == statement.key.schema
      path == statement.key.path
      t == path[1]
      kind == statement.kind
      says == statement.says
      Put(part, contents) == [db EXCEPT ![s][part] = With(@, t, contents)]
  IN
  CASE kind = "create_schema" -> WithNew(db, s, EmptyNamespace)
    [] kind = "add_table" -> Put("tables", Tightened(says))
    [] kind = "add_column" -> [db EXCEPT ![s].tables[t].columns = With(@, path[2], says)]
    [] kind = "rename_column" -> FollowRename(db, s, t, path[2], says)
    [] kind \in AlterKinds \ {"rename_column"} ->
         [db EXCEPT ![s].tables[t].columns[path[2]] = Changed(@, statement)]
    [] kind = "add_constraint" ->
         [db EXCEPT ![s].tables[t] = WithConstraint(@, path[2], says)]
    [] kind = "add_index" ->
         [db EXCEPT ![s].tables[says.table].indexes = With(@, t, says.index)]
    [] kind \in Drops -> AfterDrop(db, s, path, kind)
    [] kind = "add_enum_type" -> Put("types", says)
    [] kind = "add_enum_label" -> [db EXCEPT ![s].types[t] = Append(@, path[2])]
    [] kind \in {"create_view", "create_materialized_view", "replace_view"} -> Put("views", says)
    \* The increment is one if it is not given.
    [] kind = "create_sequence" ->
         Put("sequences", [says EXCEPT !.increment = IF @ = 0 THEN 1 ELSE @])
    [] kind = "alter_sequence" ->
         [db EXCEPT ![s].sequences[t] =
            [option \in DOMAIN @ |-> IF option \in DOMAIN says THEN says[option] ELSE @[option]]]
    [] kind = "create_extension" ->
         [db EXCEPT ![s].extensions = WithNew(@, t, says)]
    [] kind = "alter_extension_update" -> Put("extensions", says)
    [] OTHER -> db
=============================================================================
