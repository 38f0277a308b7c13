------------------------------ MODULE PgCatalog ------------------------------
(***************************************************************************)
(* What PostgreSQL makes of the statements of module Statements: external, *)
(* the reference that the parsed schema is compared with.  A catalog has   *)
(* the namespaces, the tables with their columns, constraints and indexes, *)
(* and the other objects.  Legal says whether PostgreSQL carries the       *)
(* statement out, Effect what the catalog is then.                         *)
(***************************************************************************)
EXTENDS Statements

EmptyCatalog == [namespaces |-> {"public"}, tables |-> <<>>, objects |-> <<>>]

\* IF NOT EXISTS and something of that name is there: nothing is done.
Skipped(s, catalog) ==
  \/ s.kind = "create_table" /\ s.ifNotExists /\ s.table \in DOMAIN catalog.tables
  \/ /\ s.kind = "add_column" /\ s.ifNotExists /\ s.table \in DOMAIN catalog.tables
     /\ s.column.name \in DOMAIN catalog.tables[s.table].columns
  \/ /\ s.kind = "create_index" /\ s.ifNotExists /\ s.table \in DOMAIN catalog.tables
     /\ \E x \in catalog.tables[s.table].indexes : x.name = s.index.name
  \/ s.kind = "create_object" /\ s.ifNotExists /\ s.object \in DOMAIN catalog.objects

----------------------------------------------------------------------------
(* Which statements are carried out.                                       *)

Named(things, name) == \E x \in things : x.name = name

ColumnsThere(columns, table) == \A k \in DOMAIN columns : columns[k] \in DOMAIN table.columns

\* What is there without a name is not made once more: PostgreSQL would find a second
\* name for it, scripts do not ask for that.
ConstraintLegal(constraint, table) ==
  /\ constraint \notin table.constraints
  /\ ColumnsThere(constraint.columns, table)
  /\ constraint.name # <<>> => ~Named(table.constraints, constraint.name)
  /\ IsPrimaryKey(constraint) => ~\E c \in table.constraints : IsPrimaryKey(c)

AlterLegal(s, table) ==
  CASE s.kind = "add_column" -> s.column.name \notin DOMAIN table.columns
    [] s.kind = "rename_column" ->
         s.name \in DOMAIN table.columns /\ s.to \notin DOMAIN table.columns
    [] s.kind = "add_constraint" -> ConstraintLegal(s.constraint, table)
    [] s.kind = "drop_constraint" -> Named(table.constraints, s.constraintName)
    [] s.kind = "create_index" ->
         /\ s.index \notin table.indexes
         /\ ColumnsThere(s.index.columns, table)
         /\ s.index.name # <<>> => ~Named(table.indexes, s.index.name)
    [] s.kind = "drop_not_null" ->
         /\ s.name \in DOMAIN table.columns
         /\ ~\E c \in table.constraints : IsPrimaryKey(c) /\ s.name \in Range(c.columns)
    [] OTHER -> s.name \in DOMAIN table.columns

Legal(s, catalog) ==
  \/ Skipped(s, catalog)
  \/ s.kind = "create_schema" /\ s.namespace \notin catalog.namespaces
  \/ /\ s.kind = "create_object" /\ s.object[2] \in catalog.namespaces
     /\ s.object \in DOMAIN catalog.objects => s.orReplace
  \/ /\ s.kind = "create_table" /\ s.table[1] \in catalog.namespaces
     /\ s.table \notin DOMAIN catalog.tables
     /\ \A k, l \in DOMAIN s.columns : s.columns[k].name = s.columns[l].name => k = l
  \/ /\ s.kind \notin {"create_schema", "create_object", "create_table"}
     /\ s.table \in DOMAIN catalog.tables
     /\ AlterLegal(s, catalog.tables[s.table])

----------------------------------------------------------------------------
(* What they do.                                                           *)

\* All constraints of a CREATE TABLE.
WrittenConstraints(s) ==
  (UNION {{[c EXCEPT !.columns = <<s.columns[k].name>>] : c \in Range(s.columns[k].inline)} :
            k \in DOMAIN s.columns})
    \cup Range(s.constraints)

\* A column of a primary key is NOT NULL.
Column(column, constraints) ==
  [type |-> column.type, default |-> column.default,
   nullable |-> /\ ~column.notNull
                /\ ~\E c \in constraints : IsPrimaryKey(c) /\ column.name \in Range(c.columns)]

CreatedTable(s) ==
  [columns |-> [n \in {s.columns[k].name : k \in DOMAIN s.columns} |->
                  Column(s.columns[CHOOSE k \in DOMAIN s.columns : s.columns[k].name = n],
                         WrittenConstraints(s))],
   constraints |-> WrittenConstraints(s), indexes |-> {}]

AddedColumn(s, table) ==
  LET inline == {[c EXCEPT !.columns = <<s.column.name>>] : c \in Range(s.column.inline)}
  IN  [table EXCEPT
         !.columns = [n \in DOMAIN @ \cup {s.column.name} |->
                        IF n = s.column.name THEN Column(s.column, inline) ELSE @[n]],
         !.constraints = @ \cup inline]

\* Constraints and indexes go with a column that they are about.
DroppedColumn(s, table) ==
  [columns |-> [n \in DOMAIN table.columns \ {s.name} |-> table.columns[n]],
   constraints |-> {c \in table.constraints : s.name \notin Range(c.columns)},
   indexes |-> {x \in table.indexes : s.name \notin Range(x.columns)}]

\* They follow a column that gets another name.
RenamedColumn(s, table) ==
  LET Renamed(n) == IF n = s.name THEN s.to ELSE n
      Follow(x) == [x EXCEPT !.columns = [k \in DOMAIN @ |-> Renamed(@[k])]]
  IN  [columns |-> [n \in {Renamed(o) : o \in DOMAIN table.columns} |->
                      IF n = s.to THEN table.columns[s.name] ELSE table.columns[n]],
       constraints |-> {Follow(c) : c \in table.constraints},
       indexes |-> {Follow(x) : x \in table.indexes}]

ConstrainedTable(s, table) ==
  [table EXCEPT
     !.constraints = @ \cup {s.constraint},
     !.columns = [n \in DOMAIN @ |->
                    IF IsPrimaryKey(s.constraint) /\ n \in Range(s.constraint.columns)
                    THEN [@[n] EXCEPT !.nullable = FALSE] ELSE @[n]]]

Altered(s, table) ==
  CASE s.kind = "add_column" -> AddedColumn(s, table)
    [] s.kind = "drop_column" -> DroppedColumn(s, table)
    [] s.kind = "rename_column" -> RenamedColumn(s, table)
    [] s.kind = "alter_type" -> [table EXCEPT !.columns[s.name].type = s.to]
    [] s.kind = "set_not_null" -> [table EXCEPT !.columns[s.name].nullable = FALSE]
    [] s.kind = "drop_not_null" -> [table EXCEPT !.columns[s.name].nullable = TRUE]
    [] s.kind = "set_default" -> [table EXCEPT !.columns[s.name].default = s.to]
    [] s.kind = "drop_default" -> [table EXCEPT !.columns[s.name].default = "none"]
    [] s.kind = "add_constraint" -> ConstrainedTable(s, table)
    [] s.kind = "drop_constraint" ->
         [table EXCEPT !.constraints = {c \in @ : c.name # s.constraintName}]
    [] s.kind = "create_index" -> [table EXCEPT !.indexes = @ \cup {s.index}]

Effect(s, catalog) ==
  CASE Skipped(s, catalog) -> catalog
    [] ~Skipped(s, catalog) /\ s.kind = "create_schema" ->
         [catalog EXCEPT !.namespaces = @ \cup {s.namespace}]
    [] ~Skipped(s, catalog) /\ s.kind = "create_object" ->
         [catalog EXCEPT !.objects = [o \in DOMAIN @ \cup {s.object} |->
                                        IF o = s.object THEN s.content ELSE @[o]]]
    [] ~Skipped(s, catalog) /\ s.kind = "create_table" ->
         [catalog EXCEPT !.tables = [t \in DOMAIN @ \cup {s.table} |->
                                       IF t = s.table THEN CreatedTable(s) ELSE @[t]]]
    [] OTHER -> [catalog EXCEPT !.tables[s.table] = Altered(s, @)]
=============================================================================
