----------------------------- MODULE Rendering -----------------------------
(***************************************************************************)
(* RenderString of internal/diff/operation*.go: the statement that an      *)
(* operation becomes, as a record of what its text says.                   *)
(*                                                                         *)
(* A statement has the kind and the key of its operation and, in says,     *)
(* what it takes from the target schema.  Statements that say nothing but  *)
(* a name have says = "".  An operation that renders to no text at all is  *)
(* a statement of kind "nothing".                                          *)
(*                                                                         *)
(* Contents are what SchemaDiff compares: a constraint or an index has its *)
(* columns; an expression is empty or names its column first; a definition *)
(* of a view has the columns it reads; a sequence has an                   *)
(* increment (zero: not given), cycle and the column that owns it; a       *)
(* version of an extension may be unknown.                                 *)
(***************************************************************************)
EXTENDS SchemaDiff

Statement(op, says) == [kind |-> op.kind, key |-> op.key, says |-> says]
Nothing(op) == [kind |-> "nothing", key |-> op.key, says |-> ""]

TableIn(schema, key) == schema[key.schema].tables[key.path[1]]

\* renderConstraintDefinition is empty for a check without an expression, which is
\* how introspection reads a check.
HasDefinition(constraint) == constraint.type = "check" => constraint.expression # <<>>

\* CREATE TABLE: columns and constraints, that of PrimaryKey among them, no indexes.
RenderTable(op, target) ==
  LET table == TableIn(target, op.key)
  IN  Statement(op, [columns |-> table.columns,
                     constraints |-> RestrictDomain(table.constraints,
                                                    LAMBDA c : HasDefinition(table.constraints[c])),
                     indexes |-> <<>>])

\* The field of the target's column that an ALTER COLUMN is about.
AlteredField ==
  [alter_column_type |-> "type", set_default |-> "default",
   set_identity |-> "identity", add_identity |-> "identity"]

\* A change of the collation is a SET DATA TYPE with the type of the target.
RenderColumn(op, target) ==
  LET column == TableIn(target, op.key).columns[op.key.path[2]] IN
  CASE op.kind = "add_column" -> Statement(op, column)
    [] op.kind = "alter_column_collation" ->
         Statement(op, [type |-> column.type, collation |-> column.collation])
    [] OTHER -> Statement(op, column[AlteredField[op.kind]])

RenderRename(op, source, target) ==
  Statement(op, RenameTarget(op.key.path[2], TableIn(source, op.key).columns, TableIn(target, op.key).columns))

RenderConstraint(op, target) ==
  LET constraint == TableIn(target, op.key).constraints[op.key.path[2]]
  IN  IF HasDefinition(constraint) THEN Statement(op, constraint) ELSE Nothing(op)

\* The operation has the table of the index in what it depends on.
RenderIndex(op, target) ==
  LET t == op.dependsOn[1].path[1]
  IN  Statement(op, [table |-> t, index |-> target[op.key.schema].tables[t].indexes[op.key.path[1]]])

\* CREATE SEQUENCE: no OWNED BY.
RenderSequence(op, target) ==
  Statement(op, [target[op.key.schema].sequences[op.key.path[1]] EXCEPT !.owner = ""])

\* ALTER SEQUENCE says what differs and is given; no OWNED BY here either.
RenderOptions(op, source, target) ==
  LET from == source[op.key.schema].sequences[op.key.path[1]]
      to == target[op.key.schema].sequences[op.key.path[1]]
      said == {option \in {"increment", "cycle"} :
                 from[option] # to[option] /\ ~(option = "increment" /\ to[option] = 0)}
  IN  Statement(op, [option \in said |-> to[option]])

\* A type, a view or an extension as the target has it.
RenderContents(op, target, part) == Statement(op, target[op.key.schema][part][op.key.path[1]])

RenderString(op, source, target) ==
  CASE op.kind = "add_table" -> RenderTable(op, target)
    [] op.kind \in {"add_column", "alter_column_collation"} \cup DOMAIN AlteredField -> RenderColumn(op, target)
    [] op.kind = "rename_column" -> RenderRename(op, source, target)
    [] op.kind = "add_constraint" -> RenderConstraint(op, target)
    [] op.kind = "add_index" -> RenderIndex(op, target)
    [] op.kind = "add_enum_type" -> RenderContents(op, target, "types")
    [] op.kind \in {"create_view", "create_materialized_view", "replace_view"} ->
         RenderContents(op, target, "views")
    [] op.kind = "create_sequence" -> RenderSequence(op, target)
    [] op.kind = "alter_sequence" -> RenderOptions(op, source, target)
    [] op.kind \in {"create_extension", "alter_extension_update"} -> RenderContents(op, target, "extensions")
    [] OTHER -> Statement(op, "")
=============================================================================
