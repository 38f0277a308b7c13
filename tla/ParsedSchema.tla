---------------------------- MODULE ParsedSchema ----------------------------
(***************************************************************************)
(* internal/model (schema.go, table.go, clone.go) and the mutations of     *)
(* internal/parser: the schema a parse fills, and what each mutation does  *)
(* to it.                                                                  *)
(*                                                                         *)
(* A table has its columns in a list, in a map by name and in a map from   *)
(* names to places in the list.  List and map hold pointers: heap has the  *)
(* columns, in the order in which they were made, and the pointers are     *)
(* places in it.  Places in a list count from 1.                           *)
(***************************************************************************)
EXTENDS Statements, Naturals

VARIABLES
  heap,         \* all columns ever made
  namespaces,   \* Schema.Schemas: the names that were asked for
  tables,       \* the tables, by their namespace and name
  objects,      \* types, views, sequences, extensions
  outcome       \* what the last mutation returned

parsed == <<heap, namespaces, tables, objects, outcome>>

Put(f, key, value) == [k \in DOMAIN f \cup {key} |-> IF k = key THEN value ELSE f[k]]
Without(f, key) == [k \in DOMAIN f \ {key} |-> f[k]]

----------------------------------------------------------------------------
(* model.Table.                                                            *)

NoKey == [name |-> <<>>, columns |-> <<>>]

NewTable(placeholder) ==
  [columns |-> <<>>, byName |-> <<>>, index |-> <<>>, primaryKey |-> NoKey,
   constraints |-> <<>>, indexes |-> <<>>, placeholder |-> placeholder]

NamesOf(columns) == {columns[k].name : k \in DOMAIN columns}

\* The last of the columns with that name.
LastNamed(columns, name) ==
  CHOOSE k \in DOMAIN columns :
    columns[k].name = name /\ \A l \in DOMAIN columns : columns[l].name = name => l <= k

AddColumnsMutant(table, columns) ==          \* the map points one too far
  [table EXCEPT
     !.columns = @ \o [k \in DOMAIN columns |-> Len(heap) + k],
     !.byName = [n \in DOMAIN @ \cup NamesOf(columns) |->
                   IF n \in NamesOf(columns) THEN Len(heap) + LastNamed(columns, n) + 1 ELSE @[n]],
     !.index = [n \in DOMAIN @ \cup NamesOf(columns) |->
                  IF n \in NamesOf(columns) THEN Len(table.columns) + LastNamed(columns, n)
                                            ELSE @[n]]]

\* AddColumn for each of the columns, which are made now.
AddColumns(table, columns) ==
  [table EXCEPT
     !.columns = @ \o [k \in DOMAIN columns |-> Len(heap) + k],
     !.byName = [n \in DOMAIN @ \cup NamesOf(columns) |->
                   IF n \in NamesOf(columns) THEN Len(heap) + LastNamed(columns, n) ELSE @[n]],
     !.index = [n \in DOMAIN @ \cup NamesOf(columns) |->
                  IF n \in NamesOf(columns) THEN Len(table.columns) + LastNamed(columns, n)
                                            ELSE @[n]]]

\* The map is asked for the place, which may be an old one.
RemovePanics(table, name) ==
  /\ name \in DOMAIN table.index
  /\ table.index[name] > Len(table.columns)

RemoveColumnMutant(table, name) ==           \* the place of the moved column is forgotten
  LET place == table.index[name]
      last == Len(table.columns)
  IN  [table EXCEPT
         !.byName = Without(@, name),
         !.index = Without(@, name),
         !.columns = [k \in 1..(last - 1) |-> IF k = place THEN @[last] ELSE @[k]]]

\* The last column takes the place of the removed one.
RemoveColumn(table, name) ==
  LET place == table.index[name]
      last == Len(table.columns)
      rest == Without(table.index, name)
  IN  IF name \notin DOMAIN table.index THEN table
      ELSE IF RemovePanics(table, name)
      THEN [table EXCEPT !.byName = Without(@, name), !.index = rest]
      ELSE [table EXCEPT
              !.byName = Without(@, name),
              !.index = IF place = last THEN rest
                        ELSE Put(rest, heap[table.columns[last]].name, place),
              !.columns = [k \in 1..(last - 1) |-> IF k = place THEN @[last] ELSE @[k]]]

----------------------------------------------------------------------------
(* What mutations have in common.                                          *)

\* GetOrCreateNamespace.
InNamespace(m) == namespaces' = namespaces \cup {m.table[1]}

Fails(error) == outcome' = error /\ UNCHANGED <<heap, namespaces, tables, objects>>

\* resolveColumn finds no namespace, no table or no column.
Unresolved(m) == m.table \in DOMAIN tables => m.name \notin DOMAIN tables[m.table].byName

\* The column that a resolved mutation is about.
Resolved(m) == heap[tables[m.table].byName[m.name]]

\* It is changed into this one.
ChangeColumn(m, column) ==
  \/ Unresolved(m) /\ Fails("not found")
  \/ /\ ~Unresolved(m)
     /\ heap' = [heap EXCEPT ![tables[m.table].byName[m.name]] = column]
     /\ outcome' = "ok"
     /\ UNCHANGED <<namespaces, tables, objects>>

\* The constraints of a CREATE TABLE, each under its name.
WithConstraints(old, constraints) ==
  [n \in DOMAIN old \cup NamesOf(constraints) |->
     IF n \in NamesOf(constraints) THEN constraints[LastNamed(constraints, n)] ELSE old[n]]

\* The last primary key of a CREATE TABLE, or the one the table had.
PrimaryKeyOf(m, old) ==
  LET keys == SelectSeq(m.constraints, IsPrimaryKey)
  IN  IF keys = <<>> THEN old ELSE [name |-> Last(keys).name, columns |-> Last(keys).columns]

applyTableMetadata(table, m) ==
  [table EXCEPT !.primaryKey = PrimaryKeyOf(m, @),
                !.constraints = WithConstraints(@, m.constraints),
                !.placeholder = FALSE]

----------------------------------------------------------------------------
(* CREATE TABLE.                                                           *)

CreateNewTable(m) ==
  /\ m.table \notin DOMAIN tables
  /\ heap' = heap \o m.columns
  /\ tables' = Put(tables, m.table,
                   applyTableMetadata(AddColumns(NewTable(FALSE), m.columns), m))
  /\ InNamespace(m) /\ outcome' = "ok" /\ UNCHANGED objects

TableExists(m) ==
  /\ m.table \in DOMAIN tables /\ ~tables[m.table].placeholder
  /\ Fails("already exists")

\* The places of the new table's columns that are there with another type, made by an
\* ALTER or by a column of that name before it.
Mismatches(m) ==
  LET had == tables[m.table].byName
      Differs(k) ==
        IF m.columns[k].name \in DOMAIN had
        THEN heap[had[m.columns[k].name]].type # m.columns[k].type
        ELSE \E l \in 1..(k - 1) : /\ m.columns[l].name = m.columns[k].name
                                   /\ m.columns[l].type # m.columns[k].type
  IN  {k \in DOMAIN m.columns : Differs(k)}

\* Those of the columns that the placeholder does not have, each name once.
Missing(m, columns) ==
  Select(columns,
    {k \in DOMAIN columns : /\ columns[k].name \notin DOMAIN tables[m.table].byName
                            /\ \A l \in 1..(k - 1) : columns[l].name # columns[k].name})

MergeFailsMutant(m) ==                       \* the table is a whole one before its columns are
  /\ m.table \in DOMAIN tables /\ tables[m.table].placeholder /\ Mismatches(m) # {}
  /\ tables' = [tables EXCEPT ![m.table].placeholder = FALSE]
  /\ outcome' = "type mismatch" /\ UNCHANGED <<heap, namespaces, objects>>

\* The first mismatch ends the loop; what it has added so far stays.
MergeFails(m) ==
  /\ m.table \in DOMAIN tables /\ tables[m.table].placeholder
  /\ \E first \in Mismatches(m) :
       /\ \A k \in Mismatches(m) : first <= k
       /\ LET new == Missing(m, SubSeq(m.columns, 1, first - 1))
          IN  /\ heap' = heap \o new
              /\ tables' = [tables EXCEPT ![m.table] = AddColumns(@, new)]
  /\ outcome' = "type mismatch" /\ UNCHANGED <<namespaces, objects>>

MergePlaceholderMutant(m) ==                 \* the constraints are left out
  /\ m.table \in DOMAIN tables /\ tables[m.table].placeholder
  /\ Mismatches(m) = {}
  /\ LET new == Missing(m, m.columns)
     IN  /\ heap' = heap \o new
         /\ tables' = [tables EXCEPT ![m.table] =
                         [AddColumns(@, new) EXCEPT !.placeholder = FALSE]]
  /\ outcome' = "ok" /\ UNCHANGED <<namespaces, objects>>

MergePlaceholder(m) ==
  /\ m.table \in DOMAIN tables /\ tables[m.table].placeholder
  /\ Mismatches(m) = {}
  /\ LET new == Missing(m, m.columns)
     IN  /\ heap' = heap \o new
         /\ tables' = [tables EXCEPT ![m.table] = applyTableMetadata(AddColumns(@, new), m)]
  /\ outcome' = "ok" /\ UNCHANGED <<namespaces, objects>>

CreateTable(m) ==
  CreateNewTable(m) \/ TableExists(m) \/ MergeFails(m) \/ MergePlaceholder(m)

----------------------------------------------------------------------------
(* ALTER TABLE.                                                            *)

\* The table, or a placeholder for one that is not there yet.
TableOrPlaceholder(t) == IF t \in DOMAIN tables THEN tables[t] ELSE NewTable(TRUE)

\* Whether the column is there already is not looked at.
AddColumn(m) ==
  /\ heap' = Append(heap, m.column)
  /\ tables' = Put(tables, m.table, AddColumns(TableOrPlaceholder(m.table), <<m.column>>))
  /\ InNamespace(m) /\ outcome' = "ok" /\ UNCHANGED objects

DropColumn(m) ==
  \/ Unresolved(m) /\ Fails("not found")
  \/ /\ ~Unresolved(m)
     /\ tables' = [tables EXCEPT ![m.table] = RemoveColumn(@, m.name)]
     /\ outcome' = IF RemovePanics(tables[m.table], m.name) THEN "panic" ELSE "ok"
     /\ UNCHANGED <<heap, namespaces, objects>>

AlterColumnType(m) == ChangeColumn(m, [Resolved(m) EXCEPT !.type = m.to])
SetNotNullMutant(m) == ChangeColumn(m, [Resolved(m) EXCEPT !.nullable = TRUE])
SetNotNull(m) == ChangeColumn(m, [Resolved(m) EXCEPT !.nullable = FALSE])
DropNotNull(m) == ChangeColumn(m, [Resolved(m) EXCEPT !.nullable = TRUE])
SetDefault(m) == ChangeColumn(m, [Resolved(m) EXCEPT !.default = m.to])
DropDefault(m) == ChangeColumn(m, [Resolved(m) EXCEPT !.default = "none"])

\* A table that is not there, or not yet, has nothing to rename.
RenameNothing(m) ==
  /\ TableOrPlaceholder(m.table).placeholder
  /\ tables' = Put(tables, m.table, TableOrPlaceholder(m.table))
  /\ InNamespace(m) /\ outcome' = "ok" /\ UNCHANGED <<heap, objects>>

RenameFails(m) ==
  /\ ~TableOrPlaceholder(m.table).placeholder
  /\ LET byName == tables[m.table].byName
     IN  \/ m.name \notin DOMAIN byName /\ Fails("not found")
         \/ m.name \in DOMAIN byName /\ m.to \in DOMAIN byName /\ Fails("already exists")

\* The map of places keeps the old name.
RenameDone(m) ==
  /\ ~TableOrPlaceholder(m.table).placeholder
  /\ LET byName == tables[m.table].byName
     IN  /\ m.name \in DOMAIN byName /\ m.to \notin DOMAIN byName
         /\ heap' = [heap EXCEPT ![byName[m.name]].name = m.to]
         /\ tables' = [tables EXCEPT ![m.table].byName =
                         Put(Without(@, m.name), m.to, byName[m.name])]
  /\ outcome' = "ok" /\ UNCHANGED <<namespaces, objects>>

RenameColumn(m) == RenameNothing(m) \/ RenameFails(m) \/ RenameDone(m)

\* A constraint of the same name is replaced.
AddConstraint(m) ==
  \/ m.table \notin DOMAIN tables /\ Fails("not found")
  \/ /\ m.table \in DOMAIN tables
     /\ tables' = [tables EXCEPT ![m.table].constraints =
                     Put(@, m.constraint.name, m.constraint)]
     /\ outcome' = "ok" /\ UNCHANGED <<heap, namespaces, objects>>

DropConstraintMutant(m) ==                   \* nothing is dropped
  /\ outcome' = "ok" /\ UNCHANGED <<heap, namespaces, tables, objects>>

DropConstraint(m) ==
  \/ m.table \notin DOMAIN tables /\ Fails("not found")
  \/ /\ m.table \in DOMAIN tables
     /\ tables' = [tables EXCEPT ![m.table].constraints = Without(@, m.constraintName)]
     /\ outcome' = "ok" /\ UNCHANGED <<heap, namespaces, objects>>

----------------------------------------------------------------------------
(* Indexes and all else.                                                   *)

CreateIndexMutant(m) ==                      \* IF NOT EXISTS is not looked at
  /\ InNamespace(m) /\ UNCHANGED <<heap, objects>>
  /\ IF m.table \in DOMAIN tables /\ m.index.name \notin DOMAIN tables[m.table].indexes
     THEN /\ tables' = [tables EXCEPT ![m.table].indexes = Put(@, m.index.name, m.index)]
          /\ outcome' = "ok"
     ELSE outcome' = "already exists" /\ UNCHANGED tables

CreateIndex(m) ==
  /\ InNamespace(m) /\ UNCHANGED <<heap, objects>>
  /\ \/ /\ m.table \notin DOMAIN tables
        /\ outcome' = "not found" /\ UNCHANGED tables
     \/ /\ m.table \in DOMAIN tables /\ m.index.name \in DOMAIN tables[m.table].indexes
        /\ outcome' = IF m.ifNotExists THEN "ok" ELSE "already exists"
        /\ UNCHANGED tables
     \/ /\ m.table \in DOMAIN tables /\ m.index.name \notin DOMAIN tables[m.table].indexes
        /\ tables' = [tables EXCEPT ![m.table].indexes = Put(@, m.index.name, m.index)]
        /\ outcome' = "ok"

CreateSchema(m) ==
  /\ namespaces' = namespaces \cup {m.namespace}
  /\ outcome' = "ok" /\ UNCHANGED <<heap, tables, objects>>

\* Only an enum type that is there already is an error.
CreateObject(m) ==
  /\ namespaces' = namespaces \cup {m.object[2]} /\ UNCHANGED <<heap, tables>>
  /\ \/ /\ m.object[1] = "type" /\ m.object \in DOMAIN objects
        /\ outcome' = "already exists" /\ UNCHANGED objects
     \/ /\ m.object[1] # "type" \/ m.object \notin DOMAIN objects
        /\ objects' = Put(objects, m.object, m.content)
        /\ outcome' = "ok"

----------------------------------------------------------------------------
\* MutationApplier.Apply: an error is noted, and the next mutation is applied.
Apply(m) ==
  \/ m.kind = "create_table" /\ CreateTable(m)
  \/ m.kind = "add_column" /\ AddColumn(m)
  \/ m.kind = "drop_column" /\ DropColumn(m)
  \/ m.kind = "alter_type" /\ AlterColumnType(m)
  \/ m.kind = "set_not_null" /\ SetNotNull(m)
  \/ m.kind = "drop_not_null" /\ DropNotNull(m)
  \/ m.kind = "set_default" /\ SetDefault(m)
  \/ m.kind = "drop_default" /\ DropDefault(m)
  \/ m.kind = "rename_column" /\ RenameColumn(m)
  \/ m.kind = "add_constraint" /\ AddConstraint(m)
  \/ m.kind = "drop_constraint" /\ DropConstraint(m)
  \/ m.kind = "create_index" /\ CreateIndex(m)
  \/ m.kind = "create_schema" /\ CreateSchema(m)
  \/ m.kind = "create_object" /\ CreateObject(m)

InitSchema ==
  heap = <<>> /\ namespaces = {} /\ tables = <<>> /\ objects = <<>> /\ outcome = "ok"

\* Clone, which ComputeDiff starts with: map and places are made anew of the list.
ClonedColumns(t) ==
  LET columns == [k \in DOMAIN tables[t].columns |-> heap[tables[t].columns[k]]]
  IN  [n \in NamesOf(columns) |-> columns[LastNamed(columns, n)]]

----------------------------------------------------------------------------
(* What is known of a schema whatever the statements were.                 *)

\* No default, one that could not be written out again, or an expression.
Defaults == {"none", ""} \cup STRING

Columns == [name : STRING, type : STRING, nullable : BOOLEAN, default : Defaults]

Outcomes == {"ok", "not found", "already exists", "type mismatch", "panic"}

\* A table whose pointers are places in a heap of n columns.
TableTyped(table, n) ==
  /\ DOMAIN table = {"columns", "byName", "index", "primaryKey", "constraints", "indexes",
                     "placeholder"}
  /\ table.columns \in Seq(1..n)
  /\ Range(table.byName) \subseteq 1..n
  /\ Range(table.index) \subseteq Nat \ {0}
  /\ table.placeholder \in BOOLEAN

SchemaTyped ==
  /\ heap \in Seq(Columns)
  /\ \A t \in DOMAIN tables : TableTyped(tables[t], Len(heap))

\* All that was there before stays as it was: at most a placeholder gets more columns.
LeavesTheRest ==
  /\ SubSeq(heap', 1, Len(heap)) = heap
  /\ objects' = objects /\ DOMAIN tables' = DOMAIN tables
  /\ \A t \in DOMAIN tables :
       tables'[t] # tables[t] =>
         /\ tables[t].placeholder /\ tables'[t].placeholder
         /\ IsPrefix(tables[t].columns, tables'[t].columns)
=============================================================================
