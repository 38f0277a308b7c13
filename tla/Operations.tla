----------------------------- MODULE Operations -----------------------------
(***************************************************************************)
(* internal/diff/operation*.go: the operations a diff is made of.  Of an   *)
(* operation the rest of the program sees its kind, the key of the object  *)
(* it is about, the keys it depends on and whether it is destructive; the  *)
(* SQL it renders to is left out.  Also the stage of a plan that           *)
(* internal/plan/plan.go puts each kind in.                                *)
(***************************************************************************)
EXTENDS Sequences, SequencesExt

\* model.ObjectKind.
ObjectKinds ==
  {"table", "column", "index", "constraint", "type", "view", "function", "schema", "sequence", "extension"}

\* model.ObjectKey.  A name that the code joins with a dot is a sequence here.
Key(schema, path, kind) == [schema |-> schema, path |-> path, kind |-> kind]

TableKey(s, t) == Key(s, <<t>>, "table")
ColumnKey(s, t, c) == Key(s, <<t, c>>, "column")

Op(kind, key, dependsOn, destructive) ==
  [kind |-> kind, key |-> key, dependsOn |-> dependsOn, destructive |-> destructive]

----------------------------------------------------------------------------
(* Schemas and tables.                                                     *)

CreateSchemaOp(s) == Op("create_schema", Key(s, <<>>, "schema"), <<>>, FALSE)
DropSchemaOp(s) == Op("drop_schema", Key(s, <<>>, "schema"), <<>>, TRUE)

ReferencesMutant(table) == {}               \* DependsOn is inherited

\* A new table depends on the tables its foreign keys refer to, its own
\* name among them; DependsOn walks a map, so in no particular order.
References(table) ==
  {TableKey(table.constraints[c].ref.schema, table.constraints[c].ref.table) :
     c \in {d \in DOMAIN table.constraints : table.constraints[d].type = "foreign_key"}}

AddTableOp(s, t, table) ==
  Op("add_table", TableKey(s, t), SetToSeq(References(table)), FALSE)
DropTableOp(s, t) == Op("drop_table", TableKey(s, t), <<>>, TRUE)

----------------------------------------------------------------------------
(* Columns: every operation depends on the column's own table.             *)

ColumnOp(kind, s, t, c, destructive) ==
  Op(kind, ColumnKey(s, t, c), <<TableKey(s, t)>>, destructive)

AddColumnOp(s, t, c) == ColumnOp("add_column", s, t, c, FALSE)
AlterColumnTypeOpMutant(s, t, c) == ColumnOp("alter_column_type", s, t, c, FALSE)
AlterColumnTypeOp(s, t, c) == ColumnOp("alter_column_type", s, t, c, TRUE)
SetNotNullOp(s, t, c) == ColumnOp("set_not_null", s, t, c, FALSE)
DropNotNullOp(s, t, c) == ColumnOp("drop_not_null", s, t, c, FALSE)
DropColumnOp(s, t, c) == ColumnOp("drop_column", s, t, c, TRUE)
SetDefaultOp(s, t, c) == ColumnOp("set_default", s, t, c, FALSE)
DropDefaultOp(s, t, c) == ColumnOp("drop_default", s, t, c, FALSE)
SetIdentityOp(s, t, c) == ColumnOp("set_identity", s, t, c, FALSE)
DropIdentityOp(s, t, c) == ColumnOp("drop_identity", s, t, c, TRUE)
AddIdentityOp(s, t, c) == ColumnOp("add_identity", s, t, c, FALSE)
AlterColumnCollationOp(s, t, c) == ColumnOp("alter_column_collation", s, t, c, FALSE)
\* The key is the old name's.
RenameColumnOp(s, t, old) == ColumnOp("rename_column", s, t, old, FALSE)

----------------------------------------------------------------------------
(* Constraints and indexes.                                                *)

ConstraintKey(s, t, c) == Key(s, <<t, c>>, "constraint")

\* Depends on its own key, which a DropConstraint of that name also has, and
\* not on the table that a foreign key refers to.
AddConstraintOp(s, t, c) ==
  Op("add_constraint", ConstraintKey(s, t, c), <<TableKey(s, t), ConstraintKey(s, t, c)>>, FALSE)
DropConstraintOp(s, t, c) == Op("drop_constraint", ConstraintKey(s, t, c), <<>>, TRUE)

CreateIndexOp(s, t, x) == Op("add_index", Key(s, <<x>>, "index"), <<TableKey(s, t)>>, FALSE)
DropIndexOp(s, x) == Op("drop_index", Key(s, <<x>>, "index"), <<>>, TRUE)

----------------------------------------------------------------------------
(* Enum types, views, sequences and extensions.                            *)

TypeKey(s, t) == Key(s, <<t>>, "type")

AddEnumTypeOp(s, t) == Op("add_enum_type", TypeKey(s, t), <<>>, FALSE)
DropEnumTypeOp(s, t) == Op("drop_enum_type", TypeKey(s, t), <<>>, TRUE)
AddEnumLabelOp(s, t, label) ==
  Op("add_enum_label", Key(s, <<t, label>>, "type"), <<TypeKey(s, t)>>, FALSE)

ViewOp(kind, s, v, destructive) == Op(kind, Key(s, <<v>>, "view"), <<>>, destructive)

CreateViewOp(s, v) == ViewOp("create_view", s, v, FALSE)
\* A view dropped to be created again does not count as destructive.
DropViewOp(s, v, isRecreate) == ViewOp("drop_view", s, v, ~isRecreate)
ReplaceViewOp(s, v) == ViewOp("replace_view", s, v, FALSE)
CreateMaterializedViewOp(s, v) == ViewOp("create_materialized_view", s, v, FALSE)
DropMaterializedViewOp(s, v) == ViewOp("drop_materialized_view", s, v, TRUE)

SequenceOp(kind, s, q, destructive) == Op(kind, Key(s, <<q>>, "sequence"), <<>>, destructive)

CreateSequenceOp(s, q) == SequenceOp("create_sequence", s, q, FALSE)
DropSequenceOp(s, q) == SequenceOp("drop_sequence", s, q, TRUE)
AlterSequenceOp(s, q) == SequenceOp("alter_sequence", s, q, FALSE)

ExtensionOp(kind, s, e, destructive) == Op(kind, Key(s, <<e>>, "extension"), <<>>, destructive)

CreateExtensionOp(s, e) == ExtensionOp("create_extension", s, e, FALSE)
DropExtensionOp(s, e) == ExtensionOp("drop_extension", s, e, TRUE)
AlterExtensionUpdateOp(s, e) == ExtensionOp("alter_extension_update", s, e, FALSE)

----------------------------------------------------------------------------
(* internal/plan/plan.go: the stages, in the order a plan runs them.       *)

StageOrder == <<"pre-deploy", "deploy", "post-deploy">>

PreDeployKinds ==
  {"add_table", "add_column", "set_default", "add_enum_type", "add_enum_label", "add_index",
   "add_constraint", "create_view", "create_materialized_view", "create_schema",
   "create_sequence", "create_extension", "alter_extension_update"}

PostDeployKinds ==
  {"drop_table", "drop_column", "drop_index", "drop_constraint", "drop_enum_type", "drop_view",
   "drop_materialized_view", "drop_schema", "drop_sequence", "drop_extension", "replace_view"}

\* The third list, and all kinds there are.
DeployKinds ==
  {"alter_column_type", "set_not_null", "drop_not_null", "drop_default", "alter_column_collation",
   "add_identity", "set_identity", "drop_identity", "rename_column", "alter_sequence"}
Kinds == PreDeployKinds \cup DeployKinds \cup PostDeployKinds

assignStageMutant(op) ==                  \* create_schema is forgotten in the list
  CASE op.kind \in PreDeployKinds \ {"create_schema"} -> "pre-deploy"
    [] op.kind \in PostDeployKinds -> "post-deploy"
    [] OTHER -> "deploy"

assignStageMutant2(op) ==                 \* columns are added with all other ALTER COLUMN
  CASE op.kind \in PreDeployKinds \ {"add_column"} -> "pre-deploy"
    [] op.kind \in PostDeployKinds -> "post-deploy"
    [] OTHER -> "deploy"

\* Kinds of no list would be deployed in the middle too.
assignStage(op) ==
  CASE op.kind \in PreDeployKinds -> "pre-deploy"
    [] op.kind \in PostDeployKinds -> "post-deploy"
    [] OTHER -> "deploy"
=============================================================================
