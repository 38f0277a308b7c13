------------------------------ MODULE Loading ------------------------------
(***************************************************************************)
(* internal/source/dir_loader.go and sql_file_loader.go with ParseSQL and  *)
(* visitNode of internal/parser/parser.go: the .sql files of a directory   *)
(* are read in the order of their names, put together, and parsed as one   *)
(* text.  A .sql file that is a source of its own is a directory of one.   *)
(*                                                                         *)
(* A project is a script that has been spread over files.  Its script is   *)
(* in the order in which its statements were meant; a statement is in the  *)
(* file fileOf says, and within a file that order is kept.  Some of its    *)
(* files cannot be read, have a syntax error, or lack the semicolon behind *)
(* their last statement.                                                   *)
(***************************************************************************)
EXTENDS ParsedSchema, PgCatalog, FiniteSetsExt

CONSTANT Projects   \* script, fileOf, files (how many), unreadable, broken, unterminated

ASSUME ProjectsAssumption ==
  \A p \in Projects :
    /\ p.script \in Seq(Range(p.script)) /\ \A s \in Range(p.script) : IsStatement(s)
    /\ p.files \in Nat
    /\ p.fileOf \in [DOMAIN p.script -> 1..p.files]
    /\ p.unreadable \cup p.broken \cup p.unterminated \subseteq 1..p.files

VARIABLES
  project,      \* what is on the disk
  strict,       \* LoadOptions.Strict
  pc,           \* "reading", "parsing", "visiting" or "done"
  files,        \* how many files have been read
  visited,      \* how many statements have been visited
  applied,      \* those whose mutation was applied, as places in the text
  errors,       \* those that brought an error
  result        \* of Load: "schema", "nil schema" or "error", "none" before it returns

loading == <<project, strict, pc, files, visited, applied, errors, result>>
vars == <<heap, namespaces, tables, objects, outcome, project, strict, pc, files, visited,
          applied, errors, result>>

----------------------------------------------------------------------------
\* The statements of the text that the files of a project are put together to.
TextOf(p) ==
  FlattenSeq([f \in 1..p.files |->
    Select([k \in DOMAIN p.script |-> [file |-> p.fileOf[k], statement |-> p.script[k]]],
           {k \in DOMAIN p.script : p.fileOf[k] = f})])

Text == TextOf(project)

\* Between two files there is a line end, but no semicolon.
SyntaxError ==
  \/ project.broken # {}
  \/ \E k \in 1..(Len(Text) - 1) :
       Text[k].file \in project.unterminated /\ Text[k + 1].file # Text[k].file

Init ==
  /\ InitSchema
  /\ project \in Projects /\ strict \in BOOLEAN
  /\ pc = "reading" /\ files = 0 /\ visited = 0 /\ applied = {} /\ errors = {}
  /\ result = "none"

Return(r) == pc' = "done" /\ result' = r

\* No file at all: an empty schema, with a warning.
NoFiles ==
  /\ pc = "reading" /\ project.files = 0
  /\ Return("schema")
  /\ UNCHANGED <<parsed, project, strict, files, visited, applied, errors>>

ReadFile ==
  /\ pc = "reading" /\ files < project.files
  /\ \/ files + 1 \in project.unreadable /\ Return("error") /\ UNCHANGED files
     \/ /\ files + 1 \notin project.unreadable
        /\ files' = files + 1
        /\ pc' = IF files + 1 = project.files THEN "parsing" ELSE pc
        /\ UNCHANGED result
  /\ UNCHANGED <<parsed, project, strict, visited, applied, errors>>

\* A text that is no SQL has no statements and no schema.
ParseText ==
  /\ pc = "parsing"
  /\ \/ SyntaxError /\ Return(IF strict THEN "error" ELSE "nil schema")
     \/ ~SyntaxError /\ pc' = "visiting" /\ UNCHANGED result
  /\ UNCHANGED <<parsed, project, strict, files, visited, applied, errors>>

\* What becomes of a statement: no handler; one that makes no mutation of it; or its
\* mutation is applied.
Visit(s) ==
  \/ s.kind = "unsupported" /\ Fails("unsupported")
  \/ Ignored(s) /\ outcome' = "ok" /\ UNCHANGED <<heap, namespaces, tables, objects>>
  \/ s.kind # "unsupported" /\ ~Ignored(s) /\ Apply(Handle(s))

VisitNodeMutant ==                 \* the error is noted of the statement behind
  /\ pc = "visiting" /\ visited < Len(Text)
  /\ Visit(Text[visited + 1].statement)
  /\ visited' = visited + 1
  /\ applied' = IF outcome' = "ok" THEN applied \cup {visited + 1} ELSE applied
  /\ errors' = IF outcome' = "ok" THEN errors ELSE errors \cup {visited + 2}
  /\ UNCHANGED <<project, strict, pc, files, result>>

\* visitNode: an error or a panic is noted and the next statement is visited.
VisitNode ==
  /\ pc = "visiting" /\ visited < Len(Text)
  /\ LET s == Text[visited + 1].statement
     IN  /\ Visit(s)
         /\ applied' = IF outcome' = "ok" /\ ~Ignored(s) THEN applied \cup {visited + 1}
                                                         ELSE applied
  /\ visited' = visited + 1
  /\ errors' = IF outcome' = "ok" THEN errors ELSE errors \cup {visited + 1}
  /\ UNCHANGED <<project, strict, pc, files, result>>

FinishMutant ==                   \* errors are warnings, strict or not
  /\ pc = "visiting" /\ visited = Len(Text)
  /\ Return("schema")
  /\ UNCHANGED <<parsed, project, strict, files, visited, applied, errors>>

\* With errors there is no schema if strict, and one with warnings if not.
Finish ==
  /\ pc = "visiting" /\ visited = Len(Text)
  /\ Return(IF errors # {} /\ strict THEN "error" ELSE "schema")
  /\ UNCHANGED <<parsed, project, strict, files, visited, applied, errors>>

Next == NoFiles \/ ReadFile \/ ParseText \/ VisitNode \/ Finish

Spec == Init /\ [][Next]_vars

----------------------------------------------------------------------------
(* What must be true.                                                      *)

TypeOK ==
  /\ SchemaTyped /\ outcome \in Outcomes \cup {"unsupported"}
  /\ strict \in BOOLEAN
  /\ pc \in {"reading", "parsing", "visiting", "done"}
  /\ files \in 0..project.files /\ visited \in 0..Len(Text)
  /\ applied \subseteq 1..visited /\ errors \subseteq 1..visited
  /\ result \in {"none", "schema", "nil schema", "error"}

\* What the handlers take of a statement that they do not ignore: of a CREATE TABLE
\* not the constraints of other types, of an ADD COLUMN none.
Heard(s) ==
  CASE s.kind = "create_table" -> [s EXCEPT !.constraints = SelectSeq(@, IsSupported)]
    [] s.kind = "add_column" -> [s EXCEPT !.column.inline = <<>>]
    [] OTHER -> s

\* What PostgreSQL makes of that in the first n statements of the script as it was meant.
CatalogAfter(n) ==
  FoldLeft(LAMBDA catalog, s : IF Ignored(s) THEN catalog ELSE Effect(Heard(s), catalog),
           EmptyCatalog, SubSeq(project.script, 1, n))

Meant == CatalogAfter(Len(project.script))

\* PostgreSQL would carry out what is heard of the script as it was meant, and there is
\* nothing in it that does nothing, and says nothing, when it comes too early.
Sound ==
  \A k \in DOMAIN project.script :
    LET s == project.script[k]
    IN  Ignored(s) \/ (/\ Legal(Heard(s), CatalogAfter(k - 1))
                      /\ s.kind \notin {"rename_column", "drop_constraint"})

Column4(c) == [type |-> c.type, nullable |-> c.nullable, default |-> c.default]

Faithful ==
  /\ DOMAIN tables = DOMAIN Meant.tables
  /\ \A t \in DOMAIN tables :
       LET columns == ClonedColumns(t)
       IN  /\ ~tables[t].placeholder
           /\ [n \in DOMAIN columns |-> Column4(columns[n])] = Meant.tables[t].columns
           /\ Cardinality(Range(tables[t].constraints)) =
                Cardinality(Meant.tables[t].constraints)
           /\ Cardinality(Range(tables[t].indexes)) = Cardinality(Meant.tables[t].indexes)
  /\ DOMAIN objects = DOMAIN Meant.objects

\* However the files are named, a load that reports no error has the schema that was
\* meant, but for what the handlers drop without a word, which costs that and nothing
\* else: a statement that comes before the one it needs is made good for or reported
\* (dir_loader.go:62, mutation.go:98-163).  Not so a rename or a DROP CONSTRAINT
\* (rename_column_mutation.go:29, mutation.go:405).  This is of scripts like those of
\* MCLoading, whose every statement says something of its own: of two that set one
\* default, in two files, the last one counts.
SilentIsFaithful == result = "schema" /\ errors = {} /\ Sound => Faithful

\* Strict: a schema is returned only if the mutation of every statement of every file has
\* been applied, but of those the handlers ignore (dir_loader.go:89, sql_file_loader.go:40).
\* That exception is one the documents do not know: README.md:153 and docs/DDL.md:233 have
\* strict loading fail on what is not supported (alter_table_handler.go:146-150, 164-170;
\* rename_stmt_handler.go:22-24).
StrictIsWhole ==
  strict /\ result = "schema" =>
    /\ files = project.files
    /\ \A k \in DOMAIN Text : k \in applied \/ Ignored(Text[k].statement)

\* A statement that fails leaves all that was there before as it was: at most a
\* placeholder has got some of the columns of the table (mutation.go:107-120).  A
\* DROP COLUMN that panics is the exception: the maps have lost the column by then.
FailureLeavesTheRest ==
  [][pc = "visiting" /\ outcome' \notin {"ok", "panic"} /\ visited' # visited =>
       LeavesTheRest]_vars

----------------------------------------------------------------------------
(* What the documents say.                                                 *)

\* dir_loader.go:19: dependencies between files "are resolved correctly", so a script
\* that is right loads without error however it is spread over files.
CrossFileResolved == result = "schema" => errors = {}
=============================================================================
