----------------------------- MODULE Statements -----------------------------
(***************************************************************************)
(* internal/parser, the handlers: the mutation that each statement of a    *)
(* SQL file is turned into, before anything is applied.                    *)
(*                                                                         *)
(* A statement is a record of what its text says.  An ALTER TABLE of       *)
(* several commands is as many statements: the handler makes one mutation  *)
(* of each without a look at the schema.  A table is a pair of its         *)
(* namespace and its name.  The name of a constraint or an index is a      *)
(* sequence, empty where the statement gives none.                         *)
(*                                                                         *)
(*   create_table   table, ifNotExists, columns, constraints               *)
(*   add_column     table, ifNotExists, column                             *)
(*   drop_column, drop_not_null, set_not_null, drop_default                *)
(*                  table, name                                            *)
(*   alter_type, set_default, rename_column                                *)
(*                  table, name, to                                        *)
(*   add_constraint table, constraint                                      *)
(*   drop_constraint  table, constraintName                                *)
(*   create_index   table, ifNotExists, index                              *)
(*   create_schema  namespace                                              *)
(*   create_object  object, ifNotExists, orReplace, content                *)
(*   ignored        (a command of ALTER TABLE that the handler has no case *)
(*                  for, a rename of anything but a column)                *)
(*                                                                         *)
(* where a column is declared with its name, type, default, whether it is  *)
(* NOT NULL and the constraints written behind it (inline), a constraint   *)
(* has name, type, columns and rest (its references or expression), an     *)
(* index name, columns and rest.  Among the constraints of a table stand   *)
(* those of other types, like EXCLUDE, and what else its definition may    *)
(* have, like LIKE.                                                        *)
(***************************************************************************)
EXTENDS Sequences, SequencesExt, Select

CONSTANT Unreadable   \* expressions that ParseExpression and FormatExpression give up on

----------------------------------------------------------------------------
(* Names that the parser makes up.                                         *)

\* Of a check it is the table alone, of the others the table and the columns.
defaultConstraintName(table, constraint) ==
  IF constraint.name # <<>> THEN constraint.name
  ELSE CASE constraint.type = "primary_key" -> <<table, "pkey">>
         [] constraint.type = "unique" -> <<table>> \o constraint.columns \o <<"key">>
         [] constraint.type = "check" -> <<table, "check">>
         [] constraint.type = "foreign_key" -> <<table>> \o constraint.columns \o <<"fkey">>
         [] OTHER -> <<table, "constraint">>

\* Only the first column of an index gives its name.
generateDefaultIndexName(table, index) ==
  IF index.name # <<>> THEN index.name ELSE <<table, index.columns[1], "idx">>

\* What stays of an expression that is written out again.
FormatExpression(expression) == IF expression \in Unreadable THEN "" ELSE expression

parseTableConstraint(table, constraint) ==
  [constraint EXCEPT !.name = defaultConstraintName(table, constraint),
                     !.rest = FormatExpression(@)]

\* A constraint behind a column.  A primary or foreign key loses the name it was given.
parseInlineConstraint(table, column, constraint) ==
  LET named == constraint.type \notin {"primary_key", "foreign_key"}
  IN  parseTableConstraint(table,
        [constraint EXCEPT !.name = IF named THEN @ ELSE <<>>, !.columns = <<column.name>>])

----------------------------------------------------------------------------
(* Columns.                                                                *)

IsPrimaryKey(constraint) == constraint.type = "primary_key"

\* ParseColumnDef: a default that cannot be read is no default.
ParseColumnDef(column) ==
  [name |-> column.name, type |-> column.type, nullable |-> ~column.notNull,
   default |-> IF column.default \in Unreadable THEN "none" ELSE column.default]

\* In a CREATE TABLE a PRIMARY KEY behind the column makes it NOT NULL, one that
\* stands by itself does not.
ParseTableColumn(column) ==
  [ParseColumnDef(column) EXCEPT
     !.nullable = @ /\ ~\E k \in DOMAIN column.inline : IsPrimaryKey(column.inline[k])]

\* The types that a CREATE TABLE and an ADD CONSTRAINT have a case for.
IsSupported(constraint) == constraint.type \in {"primary_key", "foreign_key", "unique", "check"}

\* All constraints of a CREATE TABLE: those behind each column, then the others.
ReadConstraints(s) ==
  FlattenSeq([c \in DOMAIN s.columns |->
                [k \in DOMAIN s.columns[c].inline |->
                   parseInlineConstraint(s.table[2], s.columns[c], s.columns[c].inline[k])]])
    \o [k \in DOMAIN s.constraints |-> parseTableConstraint(s.table[2], s.constraints[k])]

\* Those of another type are left out without a word.
ParsedConstraints(s) ==
  LET read == ReadConstraints(s)
  IN  Select(read, {k \in DOMAIN read : IsSupported(read[k])})

----------------------------------------------------------------------------
(* The handlers.                                                           *)

\* IF NOT EXISTS is not read.
HandleCreateTable(s) ==
  [kind |-> "create_table", table |-> s.table,
   columns |-> [c \in DOMAIN s.columns |-> ParseTableColumn(s.columns[c])],
   constraints |-> ParsedConstraints(s)]

\* Neither is it here, nor are the constraints behind the column.
HandleAddColumn(s) ==
  [kind |-> "add_column", table |-> s.table, column |-> ParseColumnDef(s.column)]

HandleSetDefault(s) ==
  [s EXCEPT !.to = FormatExpression(@)]

HandleAddConstraint(s) ==
  [s EXCEPT !.constraint = parseTableConstraint(s.table[2], @)]

HandleCreateIndex(s) ==
  [s EXCEPT !.index.name = generateDefaultIndexName(s.table[2], s.index)]

\* A statement that there is a handler for and that it makes no mutation of: its warning
\* goes nowhere (warnFn is nil in every load) and it returns no error.
Ignored(s) ==
  \/ s.kind = "ignored"
  \/ s.kind = "add_constraint" /\ ~IsSupported(s.constraint)

\* Dispatch and Handle, of a statement that is not ignored.  The other statements are
\* the mutations they ask for.
Handle(s) ==
  CASE s.kind = "create_table" -> HandleCreateTable(s)
    [] s.kind = "add_column" -> HandleAddColumn(s)
    [] s.kind = "set_default" -> HandleSetDefault(s)
    [] s.kind = "add_constraint" -> HandleAddConstraint(s)
    [] s.kind = "create_index" -> HandleCreateIndex(s)
    [] OTHER -> s

----------------------------------------------------------------------------
(* What a statement consists of.                                           *)

FieldsOf(kind) ==
  CASE kind = "create_table" -> {"table", "ifNotExists", "columns", "constraints"}
    [] kind = "add_column" -> {"table", "ifNotExists", "column"}
    [] kind \in {"drop_column", "drop_not_null", "set_not_null", "drop_default"} -> {"table", "name"}
    [] kind \in {"alter_type", "set_default", "rename_column"} -> {"table", "name", "to"}
    [] kind = "add_constraint" -> {"table", "constraint"}
    [] kind = "drop_constraint" -> {"table", "constraintName"}
    [] kind = "create_index" -> {"table", "ifNotExists", "index"}
    [] kind = "create_schema" -> {"namespace"}
    [] kind = "create_object" -> {"object", "ifNotExists", "orReplace", "content"}
    [] OTHER -> {}

\* A sequence, of whatever it has.
IsList(list) == list \in Seq(Range(list))

IsConstraint(constraint) ==
  DOMAIN constraint = {"name", "type", "columns", "rest"} /\ IsList(constraint.columns)

IsIndex(index) == DOMAIN index = {"name", "columns", "rest"} /\ IsList(index.columns)

IsColumn(column) ==
  /\ column.name \in STRING /\ column.type \in STRING /\ column.default \in STRING
  /\ column.notNull \in BOOLEAN
  /\ IsList(column.inline) /\ \A c \in Range(column.inline) : IsConstraint(c)

\* The statement is, or has in it, what no handler has a case for, so that it goes without
\* an error.
HasUnsupported(s) ==
  \/ Ignored(s)
  \/ s.kind = "create_table" /\ \E c \in Range(ReadConstraints(s)) : ~IsSupported(c)

IsStatement(s) ==
  /\ DOMAIN s = FieldsOf(s.kind) \cup {"kind"}
  /\ s.kind = "create_table" =>
       /\ IsList(s.columns) /\ \A c \in Range(s.columns) : IsColumn(c)
       /\ IsList(s.constraints) /\ \A c \in Range(s.constraints) : IsConstraint(c)
  /\ s.kind = "add_column" => IsColumn(s.column)
  /\ s.kind \in {"alter_type", "set_default", "rename_column"} => s.to \in STRING
  /\ s.kind = "add_constraint" => IsConstraint(s.constraint)
  /\ s.kind = "drop_constraint" => s.constraintName # <<>>
  /\ s.kind = "create_index" => IsIndex(s.index)
=============================================================================
