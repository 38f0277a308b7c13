------------------------------- MODULE Script -------------------------------
(***************************************************************************)
(* ParseSQL of internal/parser/parser.go on a script that PostgreSQL can   *)
(* execute from its first line to its last: every statement is legal where *)
(* it stands.  The parsed schema is compared with the catalog PostgreSQL   *)
(* would have.  The script is written as it is read, and has nothing in it *)
(* that the handlers drop.                                                 *)
(***************************************************************************)
EXTENDS ParsedSchema, PgCatalog, FiniteSetsExt

CONSTANTS
  Menus,            \* sets of statements: a script is made of those of one of them
  MaxColumns        \* bound: how many columns a script may make, dropped ones included

ASSUME MaxColumnsAssumption == MaxColumns \in Nat
ASSUME MenusAssumption == \A m \in Menus : \A s \in m : IsStatement(s) /\ ~HasUnsupported(s)

VARIABLES
  menu,         \* the statements that this script is made of
  catalog,      \* what PostgreSQL has after the statements so far
  gone          \* the names that columns have had and lost, with their tables

vars == <<heap, namespaces, tables, objects, outcome, menu, catalog, gone>>

Init == InitSchema /\ menu \in Menus /\ catalog = EmptyCatalog /\ gone = {}

\* visitNode: the statement is handled and its mutation applied.
Statement(s) ==
  /\ Legal(s, catalog)
  /\ Apply(Handle(s))
  /\ Len(heap') <= MaxColumns
  /\ catalog' = Effect(s, catalog)
  /\ gone' = IF s.kind \in {"drop_column", "rename_column"} THEN gone \cup {<<s.table, s.name>>}
                                                            ELSE gone
  /\ UNCHANGED menu

Next == \E s \in menu : Statement(s)

Spec == Init /\ [][Next]_vars

----------------------------------------------------------------------------
(* What is known to be parsed as something else than was written.          *)

HasKind(kind) == \E s \in menu : s.kind = kind

\* IF NOT EXISTS is not read in an ADD COLUMN, and a column that has been renamed is
\* dropped under its old place in the list.
Steady ==
  /\ \A s \in menu : s.kind = "add_column" => ~s.ifNotExists
  /\ ~(HasKind("rename_column") /\ HasKind("drop_column"))

\* A default is lost if it cannot be read, and a column stays nullable if its primary key
\* stands by itself, or behind an ADD COLUMN.
Plain ==
  \A s \in menu :
    /\ s.kind = "create_table" =>
         /\ \A c \in Range(s.columns) : c.default \notin Unreadable
         /\ \A c \in Range(s.constraints) : ~IsPrimaryKey(c)
    /\ s.kind = "add_column" =>
         /\ s.column.default \notin Unreadable
         /\ \A c \in Range(s.column.inline) : ~IsPrimaryKey(c)
    /\ s.kind = "set_default" => s.to \notin Unreadable
    /\ s.kind = "add_constraint" => ~IsPrimaryKey(s.constraint)

\* A table or a type that is there already is an error.  An index without a name gets one
\* that another may have, and an index stays when its columns go.
Careful ==
  /\ \A s \in menu :
       /\ s.kind = "create_table" => ~s.ifNotExists
       /\ s.kind = "create_object" /\ s.object[1] = "type" => ~s.ifNotExists /\ ~s.orReplace
       /\ s.kind = "create_index" => s.index.name # <<>>
  /\ ~(HasKind("create_index") /\ HasKind("drop_column"))

\* Two constraints for which the parser makes up one name.
ShareName(t, c, d) ==
  c # d /\ defaultConstraintName(t[2], c) = defaultConstraintName(t[2], d)

Written(s) ==
  CASE s.kind = "create_table" -> WrittenConstraints(s)
    [] s.kind = "add_constraint" -> {s.constraint}
    [] OTHER -> {}

\* A constraint behind a column loses its name if it is a key, and is lost itself behind
\* an ADD COLUMN; an expression is lost if it cannot be read.  A name that the parser
\* makes up may be that of another constraint, and stays when a column gets another.
Distinct ==
  \A s \in menu :
    /\ s.kind = "create_table" =>
         \A k \in DOMAIN s.columns : \A c \in Range(s.columns[k].inline) :
           c.type \in {"primary_key", "foreign_key"} => c.name = <<>>
    /\ s.kind = "add_column" => s.column.inline = <<>>
    /\ \A c \in Written(s) :
         /\ c.rest \notin Unreadable
         /\ HasKind("rename_column") => c.name # <<>> \/ IsPrimaryKey(c)
         /\ \A r \in menu : \A d \in Written(r) :
              r.table = s.table /\ ShareName(s.table, c, d) => s # r /\ c.name # <<>> /\ d.name # <<>>

----------------------------------------------------------------------------
(* What must be true.                                                      *)

TypeOK == SchemaTyped /\ Len(heap) <= MaxColumns /\ outcome \in Outcomes

\* A column of a list has one entry under its name in the map, and its place in the
\* index: with a wrong place RemoveColumn takes another column out (table.go:81).  Only
\* a rename leaves the index behind (rename_column_mutation.go:48).
ListMapIndexAgree ==
  \A t \in DOMAIN tables :
    LET table == tables[t]
        Name(p) == heap[table.columns[p]].name
    IN  /\ DOMAIN table.byName = {Name(p) : p \in DOMAIN table.columns}
        /\ \A p \in DOMAIN table.columns : table.byName[Name(p)] = table.columns[p]
        /\ ~HasKind("rename_column") =>
             /\ DOMAIN table.index = DOMAIN table.byName
             /\ \A p \in DOMAIN table.columns : table.index[Name(p)] = p

\* The columns that the comparison will see, once the schema has been cloned.
ComparedColumns(t) ==
  [n \in DOMAIN ClonedColumns(t) |->
     [type |-> ClonedColumns(t)[n].type, nullable |-> ClonedColumns(t)[n].nullable,
      default |-> ClonedColumns(t)[n].default]]

\* Every table has the columns that PostgreSQL would give it, with their types,
\* defaults and nullability, each once (mutation.go:98-346, table.go:72-95).
ColumnsFaithful ==
  /\ DOMAIN tables = DOMAIN catalog.tables
  /\ \A t \in DOMAIN tables :
       /\ ComparedColumns(t) = catalog.tables[t].columns
       /\ Len(tables[t].columns) = Cardinality(DOMAIN catalog.tables[t].columns)

\* A constraint or index whose columns the parser knows by a name they have lost:
\* neither a rename nor a drop of a column looks at what is on it.
LeftBehind(t, p) == \E n \in Range(p.columns) : <<t, n>> \in gone

\* The parsed constraint is the one PostgreSQL has, but for a name it made up.
SameConstraint(t, p, c) ==
  /\ p.type = c.type /\ p.rest = c.rest
  /\ p.columns = c.columns \/ LeftBehind(t, p)
  /\ c.name # <<>> => p.name = c.name

SameIndex(t, y, x) ==
  /\ y.rest = x.rest
  /\ y.columns = x.columns \/ LeftBehind(t, y)
  /\ x.name # <<>> => y.name = x.name

\* The parser has each constraint and each index of the script and no other: it loses
\* one of two that it gives the same name, and no more, and keeps one that PostgreSQL
\* has dropped only if that was on a column that has gone (mutation.go:85, 205, 363;
\* create_table_handler.go:97; index_mutation.go:30).
PartsFaithful ==
  \A t \in DOMAIN catalog.tables \cap DOMAIN tables :
    LET constraints == catalog.tables[t].constraints
        indexes == catalog.tables[t].indexes
    IN  /\ \A c \in constraints :
             \/ \E p \in Range(tables[t].constraints) : SameConstraint(t, p, c)
             \/ \E d \in constraints : ShareName(t, c, d)
        /\ \A p \in Range(tables[t].constraints) :
             LeftBehind(t, p) \/ \E c \in constraints : SameConstraint(t, p, c)
        /\ \A x \in indexes : \E y \in Range(tables[t].indexes) : SameIndex(t, y, x)
        /\ \A y \in Range(tables[t].indexes) :
             LeftBehind(t, y) \/ \E x \in indexes : SameIndex(t, y, x)

\* A script that PostgreSQL accepts, of statements like those of MCScript's menus (among
\* others no CREATE TABLE IF NOT EXISTS of a table that is there, see Careful), is parsed
\* without an error: nothing of it panics, is not found, is there already or does not
\* match, and no placeholder stays behind (mutation.go:98-408, index_mutation.go:20).
LegalIsAccepted ==
  /\ outcome = "ok"
  /\ \A t \in DOMAIN tables : ~tables[t].placeholder
  /\ DOMAIN objects = DOMAIN catalog.objects
=============================================================================
