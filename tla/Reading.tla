------------------------------ MODULE Reading ------------------------------
(***************************************************************************)
(* internal/introspect: what each of the eight queries of loadNamespace    *)
(* makes of a database, and the schema that all of them together make of   *)
(* one that does not change in between.  Module Introspection has the      *)
(* database change.                                                        *)
(***************************************************************************)
EXTENDS PgDatabase

\* The part of a namespace that a query reads: nothing if there is no such namespace.
PartOf(db, s, part) == IF s \in DOMAIN db THEN db[s][part] ELSE <<>>

\* information_schema knows no other name for a type of one's own.
ReadColumn(column) == [column EXCEPT !.type = IF @ \in Builtin THEN @ ELSE "USER-DEFINED"]

\* A join with the columns: a table without a column is not seen.
loadTables(db, s) ==
  LET tables == PartOf(db, s, "tables")
  IN  [t \in {t \in DOMAIN tables : tables[t].columns # <<>>} |->
         [columns |-> [c \in DOMAIN tables[t].columns |-> ReadColumn(tables[t].columns[c])],
          constraints |-> <<>>, indexes |-> <<>>]]

\* What is in either map, in the first if in both.
Merged(f, g) == [k \in DOMAIN f \cup DOMAIN g |-> IF k \in DOMAIN f THEN f[k] ELSE g[k]]

\* What has been found in the tables that are there goes to those that have been read.
Attach(tables, part, found) ==
  [t \in DOMAIN tables |->
     IF t \in DOMAIN found THEN [tables[t] EXCEPT ![part] = Merged(found[t], @)] ELSE tables[t]]

\* The constraints of every table that is there, of these types.
ConstraintsIn(db, s, types) ==
  LET tables == PartOf(db, s, "tables")
  IN  [t \in DOMAIN tables |->
         RestrictDomain(tables[t].constraints, LAMBDA k : tables[t].constraints[k].type \in types)]

\* The columns of a check come from conkey, its expression stays in the definition.
ReadConstraint(constraint) ==
  IF constraint.type = "check"
  THEN [constraint EXCEPT !.columns = SetToSeq(On(constraint)), !.expression = <<>>]
  ELSE constraint

loadConstraints(tables, db, s) ==
  LET all == ConstraintsIn(db, s, {"primary_key", "unique", "check"})
  IN  Attach(tables, "constraints",
             [t \in DOMAIN all |-> [k \in DOMAIN all[t] |-> ReadConstraint(all[t][k])]])

\* Two lists of n columns are joined without a condition: each column comes n times.
Crossed(columns) == FlattenSeq([k \in DOMAIN columns |-> [n \in DOMAIN columns |-> columns[k]]])

ReadForeignKey(constraint) ==
  [constraint EXCEPT !.columns = Crossed(@), !.ref.columns = Crossed(@)]

loadForeignKeysMutant(tables, db, s) ==         \* in place of the other constraints
  LET all == ConstraintsIn(db, s, {"foreign_key"})
  IN  [t \in DOMAIN tables |->
         [tables[t] EXCEPT
            !.constraints = IF t \in DOMAIN all THEN [k \in DOMAIN all[t] |-> ReadForeignKey(all[t][k])]
                                                ELSE <<>>]]

loadForeignKeys(tables, db, s) ==
  LET all == ConstraintsIn(db, s, {"foreign_key"})
  IN  Attach(tables, "constraints",
             [t \in DOMAIN all |-> [k \in DOMAIN all[t] |-> ReadForeignKey(all[t][k])]])

\* Only the index of the primary key is left out: that of a unique constraint is not.
loadIndexes(tables, db, s) ==
  LET there == PartOf(db, s, "tables")
      unique == ConstraintsIn(db, s, {"unique"})
  IN  Attach(tables, "indexes",
             [t \in DOMAIN there |->
                Merged(there[t].indexes,
                       [k \in DOMAIN unique[t] |-> [columns |-> unique[t][k].columns, method |-> "btree"]])])

\* A join with the labels: a type without a label is not seen.
loadEnumTypes(db, s) == LET types == PartOf(db, s, "types")
                        IN  RestrictDomain(types, LAMBDA t : types[t] # <<>>)

loadViews(db, s) == PartOf(db, s, "views")

\* pg_sequences does not know the owner.
loadSequences(db, s) ==
  LET sequences == PartOf(db, s, "sequences")
  IN  [q \in DOMAIN sequences |-> [sequences[q] EXCEPT !.owner = ""]]

loadExtensions(db, s) == PartOf(db, s, "extensions")

\* The queries of loadNamespace in their order, and what each adds to the namespace.
Queries == <<"tables", "constraints", "foreign keys", "indexes", "types", "views", "sequences", "extensions">>

Read(query, namespace, db, s) ==
  LET tables == namespace.tables IN
  CASE query = "tables" -> [namespace EXCEPT !.tables = loadTables(db, s)]
    [] query = "constraints" -> [namespace EXCEPT !.tables = loadConstraints(tables, db, s)]
    [] query = "foreign keys" -> [namespace EXCEPT !.tables = loadForeignKeys(tables, db, s)]
    [] query = "indexes" -> [namespace EXCEPT !.tables = loadIndexes(tables, db, s)]
    [] query = "types" -> [namespace EXCEPT !.types = loadEnumTypes(db, s)]
    [] query = "views" -> [namespace EXCEPT !.views = loadViews(db, s)]
    [] query = "sequences" -> [namespace EXCEPT !.sequences = loadSequences(db, s)]
    [] query = "extensions" -> [namespace EXCEPT !.extensions = loadExtensions(db, s)]

\* All of them on a database that does not change.
loadNamespace(db, s) ==
  FoldLeft(LAMBDA namespace, query : Read(query, namespace, db, s), EmptyNamespace, Queries)

\* Without --schema only the public namespace is looked at; one that is not there
\* is read as one with nothing in it.
LoadedNames(schemas) == IF schemas = {} THEN {"public"} ELSE schemas

LoadFromDB(db, schemas) == [s \in LoadedNames(schemas) |-> loadNamespace(db, s)]
=============================================================================
