------------------------- MODULE ConvergenceProofs -------------------------
(***************************************************************************)
(* Proofs about Convergence and Introspection: what a plan that has not    *)
(* been allowed to take anything away leaves in the database, for every    *)
(* request, every types and casts of the database and wherever the push    *)
(* ends, and what the queries read of a database that another session      *)
(* changes meanwhile.                                                      *)
(*                                                                         *)
(* First what each of the statements leaves; then the push into a database *)
(* of its own; then that a database stays whole and what the queries make  *)
(* of whole databases; then the push with another session.                 *)
(***************************************************************************)
EXTENDS ExecutionPlanProofs, Introspection

----------------------------------------------------------------------------
(* What one database has of another.                                       *)

Parts == DOMAIN EmptyNamespace
Fields == {"columns", "constraints", "indexes"}

SameType(x, y) == "type" \in DOMAIN x => "type" \in DOMAIN y /\ y.type = x.type

\* y has all that x has, but for the columns in lost, of which each is <<s, t, c>>.
CoversTable(x, y, s, t, lost) ==
  Fields \subseteq DOMAIN x =>
    /\ Fields \subseteq DOMAIN y
    /\ DOMAIN x.constraints \subseteq DOMAIN y.constraints
    /\ DOMAIN x.indexes \subseteq DOMAIN y.indexes
    /\ \A c \in DOMAIN x.columns :
         \/ <<s, t, c>> \in lost
         \/ c \in DOMAIN y.columns /\ SameType(x.columns[c], y.columns[c])

CoversTables(x, y, s, lost) ==
  \A t \in DOMAIN x : t \in DOMAIN y /\ CoversTable(x[t], y[t], s, t, lost)

\* Labels may have been added to a type.
CoversTypes(x, y) ==
  \A n \in DOMAIN x :
    /\ n \in DOMAIN y
    /\ x[n] \in Seq(STRING) => y[n] \in Seq(STRING) /\ IsPrefix(x[n], y[n])

\* So too with the views in gone, of which each is <<s, v>>.
CoversNamespace(x, y, s, gone, lost) ==
  Parts \subseteq DOMAIN x =>
    /\ Parts \subseteq DOMAIN y
    /\ \A v \in DOMAIN x.views : <<s, v>> \in gone \/ v \in DOMAIN y.views
    /\ DOMAIN x.sequences \subseteq DOMAIN y.sequences
    /\ DOMAIN x.extensions \subseteq DOMAIN y.extensions
    /\ CoversTypes(x.types, y.types)
    /\ CoversTables(x.tables, y.tables, s, lost)

Covers(a, b, gone, lost) ==
  \A s \in DOMAIN a : s \in DOMAIN b /\ CoversNamespace(a[s], b[s], s, gone, lost)

LEMMA WithFacts ==
  \A f, x, e :
    /\ \A k : k \in DOMAIN With(f, x, e) <=> k \in DOMAIN f \/ k = x
    /\ With(f, x, e)[x] = e
    /\ \A k \in DOMAIN f : k # x => With(f, x, e)[k] = f[k]
BY DEF With

LEMMA WithNewFacts ==
  \A f, x, e :
    /\ \A k : k \in DOMAIN WithNew(f, x, e) <=> k \in DOMAIN f \/ k = x
    /\ \A k \in DOMAIN f : WithNew(f, x, e)[k] = f[k]
BY DEF With, WithNew

LEMMA PrefixSame ==
  ASSUME NEW x \in Seq(STRING)
  PROVE  IsPrefix(x, x)
BY DEF IsPrefix

LEMMA TypesSame == \A x : CoversTypes(x, x)
BY PrefixSame DEF CoversTypes

LEMMA TableSame == \A x, s, t, lost : CoversTable(x, x, s, t, lost)
BY DEF CoversTable, SameType

LEMMA TablesSame == \A x, s, lost : CoversTables(x, x, s, lost)
BY TableSame DEF CoversTables

LEMMA NamespaceSame == \A x, s, gone, lost : CoversNamespace(x, x, s, gone, lost)
BY TypesSame, TablesSame DEF CoversNamespace

LEMMA DatabaseSame == \A a, gone, lost : Covers(a, a, gone, lost)
BY NamespaceSame DEF Covers

\* A namespace is changed.
LEMMA NamespaceChanged ==
  ASSUME NEW a, NEW s, NEW ns, NEW gone, NEW lost, CoversNamespace(a[s], ns, s, gone, lost)
  PROVE  Covers(a, [a EXCEPT ![s] = ns], gone, lost)
BY NamespaceSame DEF Covers

\* A part of it.
LEMMA PartsAre == Parts = {"tables", "types", "views", "sequences", "extensions"}
BY DEF Parts, EmptyNamespace

LEMMA PartChanged ==
  ASSUME NEW a, NEW s, NEW part \in Parts, NEW y, NEW gone, NEW lost,
         part = "tables" => CoversTables(a[s].tables, y, s, lost),
         part = "types" => CoversTypes(a[s].types, y),
         part = "views" => \A v \in DOMAIN a[s].views : <<s, v>> \in gone \/ v \in DOMAIN y,
         part \in {"sequences", "extensions"} => DOMAIN a[s][part] \subseteq DOMAIN y
  PROVE  Covers(a, [a EXCEPT ![s][part] = y], gone, lost)
<1> DEFINE ns == [a[s] EXCEPT ![part] = y]
<1>1. CoversNamespace(a[s], ns, s, gone, lost)
  <2> SUFFICES ASSUME Parts \subseteq DOMAIN a[s]
               PROVE  CoversNamespace(a[s], ns, s, gone, lost)
    BY DEF CoversNamespace
  <2>1. DOMAIN ns = DOMAIN a[s] /\ ns[part] = y /\ \A p \in Parts : p # part => ns[p] = a[s][p]
    OBVIOUS
  <2> HIDE DEF ns
  <2>2. CoversTypes(a[s].types, ns.types)
    BY <2>1, TypesSame, PartsAre
  <2>3. CoversTables(a[s].tables, ns.tables, s, lost)
    BY <2>1, TablesSame, PartsAre
  <2>4. \A v \in DOMAIN a[s].views : <<s, v>> \in gone \/ v \in DOMAIN ns.views
    BY <2>1, PartsAre
  <2>5. DOMAIN a[s].sequences \subseteq DOMAIN ns.sequences /\ DOMAIN a[s].extensions \subseteq DOMAIN ns.extensions
    BY <2>1, PartsAre
  <2> QED
    BY <2>1, <2>2, <2>3, <2>4, <2>5 DEF CoversNamespace
<1> HIDE DEF ns
<1>2. Covers(a, [a EXCEPT ![s] = ns], gone, lost)
  BY <1>1, NamespaceChanged
<1> QED
  BY <1>2 DEF ns

LEMMA TableChanged ==
  ASSUME NEW a, NEW s, NEW t, NEW table, NEW lost, CoversTable(a[s].tables[t], table, s, t, lost)
  PROVE  Covers(a, [a EXCEPT ![s].tables[t] = table], {}, lost)
<1> DEFINE tables == [a[s].tables EXCEPT ![t] = table]
<1>1. CoversTables(a[s].tables, tables, s, lost)
  BY TableSame DEF CoversTables
<1> HIDE DEF tables
<1>2. "tables" \in Parts
  BY PartsAre
<1>3. Covers(a, [a EXCEPT ![s]["tables"] = tables], {}, lost)
  BY <1>1, <1>2, PartChanged
<1> QED
  BY <1>3 DEF tables

\* Something is put into a part of it: a new table, a new type, anything else.
LEMMA PutKeeps ==
  ASSUME NEW a, NEW s, NEW part \in Parts, NEW n, NEW contents,
         part \in {"tables", "types"} => n \notin DOMAIN a[s][part]
  PROVE  /\ Covers(a, [a EXCEPT ![s][part] = With(@, n, contents)], {}, {})
         /\ Covers(a, [a EXCEPT ![s][part] = WithNew(@, n, contents)], {}, {})
<1> DEFINE x == a[s][part]
<1> SUFFICES ASSUME NEW y, y \in {With(x, n, contents), WithNew(x, n, contents)}
             PROVE  Covers(a, [a EXCEPT ![s][part] = y], {}, {})
  OBVIOUS
<1>1. /\ DOMAIN x \subseteq DOMAIN y
      /\ part \in {"tables", "types"} => \A m \in DOMAIN x : y[m] = x[m]
  <2>1. part \in {"tables", "types"} => n \notin DOMAIN x
    OBVIOUS
  <2> HIDE DEF x
  <2>2. CASE y = With(x, n, contents)
    BY <2>1, <2>2, WithFacts
  <2>3. CASE y = WithNew(x, n, contents)
    BY <2>3, WithNewFacts
  <2> QED
    BY <2>2, <2>3
<1>2. CASE part = "tables"
  <2>1. CoversTables(a[s].tables, y, s, {})
    BY <1>1, <1>2, TableSame DEF CoversTables
  <2> QED
    BY <1>2, <2>1, PartChanged
<1>3. CASE part = "types"
  <2>1. CoversTypes(a[s].types, y)
    BY <1>1, <1>3, PrefixSame DEF CoversTypes
  <2> QED
    BY <1>3, <2>1, PartChanged
<1>4. CASE part \notin {"tables", "types"}
  BY <1>1, <1>4, PartChanged
<1> QED
  BY <1>2, <1>3, <1>4

----------------------------------------------------------------------------
(* What a statement leaves of the database, kind by kind.                  *)

\* What the parts of a statement are called in After.
S(statement) == statement.key.schema
P(statement) == statement.key.path

\* Statements that change nothing but a column, and not its type.
Tuning == {"set_not_null", "drop_not_null", "set_default", "drop_default", "add_identity", "set_identity",
           "drop_identity"}

LEMMA TightenedCovers ==
  ASSUME NEW x, NEW y, NEW s, NEW t, CoversTable(x, y, s, t, {})
  PROVE  CoversTable(x, Tightened(y), s, t, {})
<1> SUFFICES ASSUME Fields \subseteq DOMAIN x
             PROVE  CoversTable(x, Tightened(y), s, t, {})
  BY DEF CoversTable
<1>1. Fields \subseteq DOMAIN y
  BY DEF CoversTable
<1> DEFINE columns == [c \in DOMAIN y.columns |->
                         IF \E k \in Range(y.constraints) : k.type = "primary_key" /\ c \in On(k)
                         THEN [y.columns[c] EXCEPT !.nullable = FALSE] ELSE y.columns[c]]
<1>2. Tightened(y) = [y EXCEPT !.columns = columns]
  BY DEF Tightened
<1>3. DOMAIN columns = DOMAIN y.columns /\ \A c \in DOMAIN columns : SameType(y.columns[c], columns[c])
  BY DEF SameType
<1> HIDE DEF columns
<1>4. /\ DOMAIN Tightened(y) = DOMAIN y /\ Tightened(y).columns = columns
      /\ Tightened(y).constraints = y.constraints /\ Tightened(y).indexes = y.indexes
  BY <1>1, <1>2 DEF Fields
<1> QED
  BY <1>1, <1>3, <1>4 DEF CoversTable, SameType

LEMMA CreateSchemaKeeps ==
  ASSUME NEW st, NEW a, st.kind = "create_schema"
  PROVE  Covers(a, After(st, a), {}, {})
<1>1. After(st, a) = WithNew(a, S(st), EmptyNamespace)
  BY DEF After, AlterKinds, Drops, S
<1> QED
  BY <1>1, WithNewFacts, NamespaceSame DEF Covers

LEMMA AddTableKeeps ==
  ASSUME NEW st, NEW a, st.kind = "add_table", Accepts(st, a)
  PROVE  Covers(a, After(st, a), {}, {})
<1>1. After(st, a) = [a EXCEPT ![S(st)]["tables"] = With(@, P(st)[1], Tightened(st.says))]
  BY DEF After, AlterKinds, Drops, S, P
<1>2. AcceptsTable(a, S(st), P(st)[1], st.says)
  BY DEF Accepts, AlterKinds, Drops, S, P
<1>3. P(st)[1] \notin DOMAIN a[S(st)].tables
  BY <1>2 DEF AcceptsTable, Taken
<1> DEFINE s == S(st)
           n == P(st)[1]
           table == Tightened(st.says)
<1>4. n \notin DOMAIN a[s]["tables"] /\ "tables" \in Parts
  BY <1>3, PartsAre
<1>5. After(st, a) = [a EXCEPT ![s]["tables"] = With(@, n, table)]
  BY <1>1
<1> HIDE DEF s, n, table
<1>6. Covers(a, [a EXCEPT ![s]["tables"] = With(@, n, table)], {}, {})
  BY <1>4, PutKeeps
<1> QED
  BY <1>5, <1>6

LEMMA AddColumnKeeps ==
  ASSUME NEW st, NEW a, st.kind = "add_column", Accepts(st, a)
  PROVE  Covers(a, After(st, a), {}, {})
<1> DEFINE s == S(st)
           t == P(st)[1]
           x == a[s].tables[t]
           columns == With(x.columns, P(st)[2], st.says)
           y == [x EXCEPT !.columns = columns]
<1>1. After(st, a) = [a EXCEPT ![s].tables[t] = y]
  BY DEF After, AlterKinds, Drops, S, P
<1>2. HasTable(a, s, t) /\ ~HasColumn(a, s, t, P(st)[2])
  BY DEF Accepts, AlterKinds, Drops, S, P
<1>3. P(st)[2] \notin DOMAIN x.columns
  BY <1>2 DEF HasColumn
<1>4. CoversTable(x, y, s, t, {})
  <2>1. \A c \in DOMAIN x.columns : c \in DOMAIN columns /\ columns[c] = x.columns[c]
    BY <1>3, WithFacts
  <2> HIDE DEF columns, x
  <2> QED
    BY <2>1 DEF CoversTable, SameType, Fields
<1> HIDE DEF s, t, y
<1>5. Covers(a, [a EXCEPT ![s].tables[t] = y], {}, {})
  BY <1>4, TableChanged
<1> QED
  BY <1>1, <1>5

\* A column is changed, not its type, or in any way if it is the one in lost.
LEMMA ColumnChanged ==
  ASSUME NEW a, NEW s, NEW t, NEW c, NEW z, NEW lost,
         SameType(a[s].tables[t].columns[c], z) \/ <<s, t, c>> \in lost
  PROVE  Covers(a, [a EXCEPT ![s].tables[t].columns[c] = z], {}, lost)
<1> DEFINE x == a[s].tables[t]
           columns == [x.columns EXCEPT ![c] = z]
           y == [x EXCEPT !.columns = columns]
<1>1. DOMAIN columns = DOMAIN x.columns /\ \A d \in DOMAIN columns : d # c => columns[d] = x.columns[d]
  OBVIOUS
<1>2. c \in DOMAIN columns => columns[c] = z
  OBVIOUS
<1>3. CoversTable(x, y, s, t, lost)
  <2> SUFFICES ASSUME Fields \subseteq DOMAIN x
               PROVE  CoversTable(x, y, s, t, lost)
    BY DEF CoversTable
  <2> HIDE DEF columns
  <2>1. /\ DOMAIN y = DOMAIN x /\ y.columns = columns
        /\ y.constraints = x.constraints /\ y.indexes = x.indexes
    BY DEF Fields
  <2>2. \A d \in DOMAIN x.columns :
          \/ <<s, t, d>> \in lost
          \/ d \in DOMAIN columns /\ SameType(x.columns[d], columns[d])
    <3> TAKE d \in DOMAIN x.columns
    <3>1. CASE d = c
      BY <1>1, <1>2, <3>1
    <3>2. CASE d # c
      BY <1>1, <3>2 DEF SameType
    <3> QED
      BY <3>1, <3>2
  <2> HIDE DEF x, y
  <2> QED
    BY <2>1, <2>2 DEF CoversTable
<1> HIDE DEF y
<1>4. Covers(a, [a EXCEPT ![s].tables[t] = y], {}, lost)
  BY <1>3, TableChanged
<1> QED
  BY <1>4 DEF y, columns

LEMMA TuningKeeps ==
  ASSUME NEW st, NEW a, st.kind \in Tuning
  PROVE  Covers(a, After(st, a), {}, {})
<1> DEFINE s == S(st)
           t == P(st)[1]
           c == P(st)[2]
           column == a[s].tables[t].columns[c]
           z == Changed(column, st)
<1>1. After(st, a) = [a EXCEPT ![s].tables[t].columns[c] = z]
  BY DEF After, AlterKinds, Drops, Tuning, S, P
<1>2. SameType(column, z)
  <2> HIDE DEF column
  <2>1. \A x, y : SameType(x, [x EXCEPT !.nullable = y]) /\ SameType(x, [x EXCEPT !.default = y])
                     /\ SameType(x, [x EXCEPT !.identity = y])
    BY DEF SameType
  <2>2. \/ z = [column EXCEPT !.nullable = FALSE] \/ z = [column EXCEPT !.nullable = TRUE]
        \/ z = [column EXCEPT !.default = st.says] \/ z = [column EXCEPT !.default = "none"]
        \/ z = [column EXCEPT !.identity = st.says] \/ z = [column EXCEPT !.identity = "none"]
    BY DEF Changed, Tuning
  <2> QED
    BY <2>2 DEF SameType
<1> HIDE DEF s, t, c, z
<1>3. Covers(a, [a EXCEPT ![s].tables[t].columns[c] = z], {}, {})
  BY <1>2, ColumnChanged
<1> QED
  BY <1>1, <1>3

LEMMA AddConstraintKeeps ==
  ASSUME NEW st, NEW a, st.kind = "add_constraint"
  PROVE  Covers(a, After(st, a), {}, {})
<1> DEFINE s == S(st)
           t == P(st)[1]
           x == a[s].tables[t]
           constraints == With(x.constraints, P(st)[2], st.says)
           y == [x EXCEPT !.constraints = constraints]
           z == WithConstraint(x, P(st)[2], st.says)
<1>1. After(st, a) = [a EXCEPT ![s].tables[t] = z]
  BY DEF After, AlterKinds, Drops, S, P
<1>2. DOMAIN x.constraints \subseteq DOMAIN constraints
  BY WithFacts
<1>3. CoversTable(x, y, s, t, {})
  <2> HIDE DEF constraints, x
  <2> QED
    BY <1>2 DEF CoversTable, SameType, Fields
<1>4. CoversTable(x, z, s, t, {})
  <2>1. z = Tightened(y)
    BY Zenon DEF WithConstraint
  <2> HIDE DEF x, y, z
  <2> QED
    BY <1>3, <2>1, TightenedCovers
<1> HIDE DEF s, t, z
<1>5. Covers(a, [a EXCEPT ![s].tables[t] = z], {}, {})
  BY <1>4, TableChanged
<1> QED
  BY <1>1, <1>5

LEMMA AddIndexKeeps ==
  ASSUME NEW st, NEW a, st.kind = "add_index"
  PROVE  Covers(a, After(st, a), {}, {})
<1> DEFINE s == S(st)
           t == st.says.table
           x == a[s].tables[t]
           indexes == With(x.indexes, P(st)[1], st.says.index)
           y == [x EXCEPT !.indexes = indexes]
<1>1. After(st, a) = [a EXCEPT ![s].tables[t] = y]
  BY DEF After, AlterKinds, Drops, S, P
<1>2. DOMAIN x.indexes \subseteq DOMAIN indexes
  BY WithFacts
<1>3. CoversTable(x, y, s, t, {})
  <2> HIDE DEF indexes, x
  <2> QED
    BY <1>2 DEF CoversTable, SameType, Fields
<1> HIDE DEF s, t, y
<1>5. Covers(a, [a EXCEPT ![s].tables[t] = y], {}, {})
  BY <1>3, TableChanged
<1> QED
  BY <1>1, <1>5

\* The part of a namespace that a statement puts something into.
PutsInto(kind) ==
  CASE kind = "add_enum_type" -> "types"
    [] kind \in {"create_view", "create_materialized_view", "replace_view"} -> "views"
    [] kind = "create_sequence" -> "sequences"
    [] kind \in {"create_extension", "alter_extension_update"} -> "extensions"

Putting ==
  {"add_enum_type", "create_view", "create_materialized_view", "replace_view", "create_sequence",
   "create_extension", "alter_extension_update"}

LEMMA PuttingKeeps ==
  ASSUME NEW st, NEW a, st.kind \in Putting, Accepts(st, a)
  PROVE  Covers(a, After(st, a), {}, {})
<1> DEFINE s == S(st)
           n == P(st)[1]
           part == PutsInto(st.kind)
<1>1. PICK contents : \/ After(st, a) = [a EXCEPT ![s][part] = With(@, n, contents)]
                      \/ After(st, a) = [a EXCEPT ![s][part] = WithNew(@, n, contents)]
  <2>1. CASE st.kind = "create_sequence"
    <3> DEFINE contents == [st.says EXCEPT !.increment = IF @ = 0 THEN 1 ELSE @]
    <3>1. After(st, a) = [a EXCEPT ![s][part] = With(@, n, contents)]
      BY <2>1 DEF After, AlterKinds, Drops, PutsInto, S, P
    <3> QED
      BY <3>1
  <2>2. CASE st.kind = "create_extension"
    <3>1. After(st, a) = [a EXCEPT ![s][part] = WithNew(@, n, st.says)]
      BY <2>2 DEF After, AlterKinds, Drops, PutsInto, S, P
    <3> QED
      BY <3>1
  <2>3. CASE st.kind \in Putting \ {"create_sequence", "create_extension"}
    <3>1. After(st, a) = [a EXCEPT ![s][part] = With(@, n, st.says)]
      BY <2>3 DEF After, AlterKinds, Drops, PutsInto, Putting, S, P
    <3> QED
      BY <3>1
  <2> QED
    BY <2>1, <2>2, <2>3
<1>2. part \in Parts /\ part # "tables"
  BY PartsAre DEF PutsInto, Putting
<1>3. part = "types" => n \notin DOMAIN a[s][part]
  BY DEF Accepts, AlterKinds, Drops, PutsInto, Putting, S, P
<1> HIDE DEF s, n, part
<1>4. /\ Covers(a, [a EXCEPT ![s][part] = With(@, n, contents)], {}, {})
      /\ Covers(a, [a EXCEPT ![s][part] = WithNew(@, n, contents)], {}, {})
  BY <1>2, <1>3, PutKeeps
<1> QED
  BY <1>1, <1>4

\* A label is added behind the others.
LEMMA AddEnumLabelKeeps ==
  ASSUME NEW st, NEW a, st.kind = "add_enum_label", st.key.path[2] \in STRING
  PROVE  Covers(a, After(st, a), {}, {})
<1> DEFINE s == S(st)
           n == P(st)[1]
           label == P(st)[2]
           y == [a[s]["types"] EXCEPT ![n] = Append(a[s]["types"][n], label)]
<1>1. After(st, a) = [a EXCEPT ![s]["types"] = y]
  BY DEF After, AlterKinds, Drops, S, P
<1>2. CoversTypes(a[s]["types"], y)
  <2> DEFINE x == a[s]["types"]
  <2>1. DOMAIN y = DOMAIN x /\ \A m \in DOMAIN x : m # n => y[m] = x[m]
    OBVIOUS
  <2>2. n \in DOMAIN x => y[n] = Append(x[n], label)
    OBVIOUS
  <2>3. label \in STRING
    BY DEF P
  <2>4. \A labels \in Seq(STRING) :
          Append(labels, label) \in Seq(STRING) /\ IsPrefix(labels, Append(labels, label))
    BY <2>3 DEF IsPrefix
  <2> HIDE DEF x, y, n, label
  <2> SUFFICES ASSUME NEW m \in DOMAIN x, x[m] \in Seq(STRING)
               PROVE  y[m] \in Seq(STRING) /\ IsPrefix(x[m], y[m])
    BY <2>1 DEF CoversTypes, x
  <2>5. CASE m = n
    BY <2>2, <2>4, <2>5
  <2>6. CASE m # n
    BY <2>1, <2>6, PrefixSame
  <2> QED
    BY <2>5, <2>6
<1>3. "types" \in Parts
  BY PartsAre
<1> HIDE DEF s, n, y
<1>4. Covers(a, [a EXCEPT ![s]["types"] = y], {}, {})
  BY <1>2, <1>3, PartChanged
<1> QED
  BY <1>1, <1>4

LEMMA AlterSequenceKeeps ==
  ASSUME NEW st, NEW a, st.kind = "alter_sequence"
  PROVE  Covers(a, After(st, a), {}, {})
<1> DEFINE s == S(st)
           n == P(st)[1]
           old == a[s]["sequences"][n]
           new == [option \in DOMAIN old |-> IF option \in DOMAIN st.says THEN st.says[option] ELSE old[option]]
           y == [a[s]["sequences"] EXCEPT ![n] = new]
<1>1. After(st, a) = [a EXCEPT ![s]["sequences"] = y]
  BY DEF After, AlterKinds, Drops, S, P
<1>2. DOMAIN y = DOMAIN a[s]["sequences"]
  OBVIOUS
<1>3. "sequences" \in Parts
  BY PartsAre
<1> HIDE DEF s, y
<1>4. Covers(a, [a EXCEPT ![s]["sequences"] = y], {}, {})
  BY <1>2, <1>3, PartChanged
<1> QED
  BY <1>1, <1>4

LEMMA DropViewKeepsTheRest ==
  ASSUME NEW st, NEW a, st.kind = "drop_view"
  PROVE  Covers(a, After(st, a), {<<st.key.schema, st.key.path[1]>>}, {})
<1> DEFINE s == S(st)
           n == P(st)[1]
           y == Without(a[s]["views"], n)
<1>1. After(st, a) = [a EXCEPT ![s]["views"] = y]
  BY DEF After, AfterDrop, AlterKinds, Drops, S, P
<1>2. \A v \in DOMAIN a[s]["views"] : <<s, v>> \in {<<s, n>>} \/ v \in DOMAIN y
  BY DEF Without
<1>3. "views" \in Parts
  BY PartsAre
<1>4. <<s, n>> = <<st.key.schema, st.key.path[1]>>
  BY DEF S, P
<1> HIDE DEF s, n, y
<1>5. Covers(a, [a EXCEPT ![s]["views"] = y], {<<s, n>>}, {})
  BY <1>2, <1>3, PartChanged
<1> QED
  BY <1>1, <1>4, <1>5

\* The column that a change of the collation is about may get another type, but stays.
LEMMA CollationKeepsTheRest ==
  ASSUME NEW st, NEW a, st.kind = "alter_column_collation", Accepts(st, a),
         NEW s, NEW t, NEW c, st.key = ColumnKey(s, t, c)
  PROVE  /\ Covers(a, After(st, a), {}, {<<s, t, c>>})
         /\ LET new == After(st, a)[s].tables[t].columns IN
            Parts \subseteq DOMAIN a[s] /\ Fields \subseteq DOMAIN a[s].tables[t] =>
              /\ c \in DOMAIN new
              /\ "type" \in DOMAIN a[s].tables[t].columns[c] => "type" \in DOMAIN new[c]
<1> DEFINE x == a[s].tables[t].columns[c]
           z == Changed(x, st)
<1>0. st.key.schema = s /\ st.key.path[1] = t /\ st.key.path[2] = c
  BY DEF ColumnKey, Key
<1>1. After(st, a) = [a EXCEPT ![s].tables[t].columns[c] = z]
  BY <1>0 DEF After, AlterKinds, Drops
<1>2. HasColumn(a, s, t, c)
  BY <1>0 DEF Accepts, AlterKinds, Drops
<1>3. DOMAIN z = DOMAIN x
  BY DEF Changed
<1> HIDE DEF z
<1>4. Covers(a, [a EXCEPT ![s].tables[t].columns[c] = z], {}, {<<s, t, c>>})
  BY ColumnChanged
<1>5. ASSUME Parts \subseteq DOMAIN a[s], Fields \subseteq DOMAIN a[s].tables[t]
      PROVE  LET new == After(st, a)[s].tables[t].columns IN
             c \in DOMAIN new /\ new[c] = z
  <2>1. "tables" \in DOMAIN a[s] /\ "columns" \in DOMAIN a[s].tables[t]
    BY <1>5, PartsAre DEF Fields
  <2> QED
    BY <1>1, <1>2, <2>1 DEF HasColumn, HasTable
<1> QED
  BY <1>1, <1>3, <1>4, <1>5

LEMMA TablesTransitive ==
  ASSUME NEW x, NEW y, NEW z, NEW s, NEW l1, NEW l2,
         CoversTables(x, y, s, l1), CoversTables(y, z, s, l2)
  PROVE  CoversTables(x, z, s, l1 \cup l2)
<1> SUFFICES ASSUME NEW t \in DOMAIN x
             PROVE  t \in DOMAIN z /\ CoversTable(x[t], z[t], s, t, l1 \cup l2)
  BY DEF CoversTables
<1>1. /\ t \in DOMAIN y /\ CoversTable(x[t], y[t], s, t, l1)
      /\ t \in DOMAIN z /\ CoversTable(y[t], z[t], s, t, l2)
  BY DEF CoversTables
<1> QED
  BY <1>1 DEF CoversTable, SameType

LEMMA TypesTransitive ==
  ASSUME NEW x, NEW y, NEW z, CoversTypes(x, y), CoversTypes(y, z)
  PROVE  CoversTypes(x, z)
<1>1. \A u, v, w \in Seq(STRING) : IsPrefix(u, v) /\ IsPrefix(v, w) => IsPrefix(u, w)
  <2> SUFFICES ASSUME NEW u \in Seq(STRING), NEW v \in Seq(STRING), NEW w \in Seq(STRING),
                      IsPrefix(u, v), IsPrefix(v, w)
               PROVE  IsPrefix(u, w)
    OBVIOUS
  <2>1. /\ Len(u) <= Len(v) /\ SubSeq(u, 1, Len(u)) = SubSeq(v, 1, Len(u))
        /\ Len(v) <= Len(w) /\ SubSeq(v, 1, Len(v)) = SubSeq(w, 1, Len(v))
    BY DEF IsPrefix
  <2>2. \A k \in 1..Len(v) : v[k] = w[k]
    <3>1. \A k \in 1..Len(v) : SubSeq(v, 1, Len(v))[k] = v[k] /\ SubSeq(w, 1, Len(v))[k] = w[k]
      BY <2>1
    <3> QED
      BY <2>1, <3>1
  <2>3. SubSeq(v, 1, Len(u)) = SubSeq(w, 1, Len(u))
    BY <2>1, <2>2
  <2> QED
    BY <2>1, <2>3 DEF IsPrefix
<1> SUFFICES ASSUME NEW n \in DOMAIN x
             PROVE  /\ n \in DOMAIN z
                    /\ x[n] \in Seq(STRING) => z[n] \in Seq(STRING) /\ IsPrefix(x[n], z[n])
  BY DEF CoversTypes
<1>2. /\ n \in DOMAIN y /\ n \in DOMAIN z
      /\ x[n] \in Seq(STRING) => y[n] \in Seq(STRING) /\ IsPrefix(x[n], y[n])
      /\ y[n] \in Seq(STRING) => z[n] \in Seq(STRING) /\ IsPrefix(y[n], z[n])
  BY DEF CoversTypes
<1>3. ASSUME x[n] \in Seq(STRING)
      PROVE  z[n] \in Seq(STRING) /\ IsPrefix(x[n], z[n])
  <2> DEFINE u == x[n]
             v == y[n]
             w == z[n]
  <2>1. /\ u \in Seq(STRING) /\ v \in Seq(STRING) /\ w \in Seq(STRING)
        /\ IsPrefix(u, v) /\ IsPrefix(v, w)
    BY <1>2, <1>3
  <2> HIDE DEF u, v, w
  <2>2. IsPrefix(u, w)
    BY <1>1, <2>1
  <2> QED
    BY <2>1, <2>2 DEF u, w
<1> QED
  BY <1>2, <1>3

LEMMA CoversTransitive ==
  ASSUME NEW a, NEW b, NEW d, NEW g1, NEW g2, NEW l1, NEW l2, Covers(a, b, g1, l1), Covers(b, d, g2, l2)
  PROVE  Covers(a, d, g1 \cup g2, l1 \cup l2)
<1> SUFFICES ASSUME NEW s \in DOMAIN a
             PROVE  s \in DOMAIN d /\ CoversNamespace(a[s], d[s], s, g1 \cup g2, l1 \cup l2)
  BY DEF Covers
<1>1. /\ s \in DOMAIN b /\ CoversNamespace(a[s], b[s], s, g1, l1)
      /\ s \in DOMAIN d /\ CoversNamespace(b[s], d[s], s, g2, l2)
  BY DEF Covers
<1> DEFINE x == a[s]
           y == b[s]
           z == d[s]
<1> HIDE DEF x, y, z
<1>2. CoversNamespace(x, y, s, g1, l1) /\ CoversNamespace(y, z, s, g2, l2)
  BY <1>1 DEF x, y, z
<1>3. CoversNamespace(x, z, s, g1 \cup g2, l1 \cup l2)
  <2> SUFFICES ASSUME Parts \subseteq DOMAIN x
               PROVE  CoversNamespace(x, z, s, g1 \cup g2, l1 \cup l2)
    BY DEF CoversNamespace
  <2>1. CoversTypes(x.types, z.types)
    BY <1>2, TypesTransitive DEF CoversNamespace
  <2>2. CoversTables(x.tables, z.tables, s, l1 \cup l2)
    BY <1>2, TablesTransitive DEF CoversNamespace
  <2> QED
    BY <1>2, <2>1, <2>2 DEF CoversNamespace
<1> QED
  BY <1>1, <1>3 DEF x, z

----------------------------------------------------------------------------
\* The column that is renamed keeps its contents under the new name.
LEMMA RenamedInCovers ==
  ASSUME NEW x, NEW old, NEW new, NEW s, NEW t, new \notin DOMAIN x.columns, old \in DOMAIN x.columns
  PROVE  /\ CoversTable(x, RenamedIn(x, old, new), s, t, {<<s, t, old>>})
         /\ new \in DOMAIN RenamedIn(x, old, new).columns
         /\ RenamedIn(x, old, new).columns[new] = x.columns[old]
         /\ Fields \subseteq DOMAIN RenamedIn(x, old, new)
<1> DEFINE y == RenamedIn(x, old, new)
           rest == Without(x.columns, old)
           columns == With(rest, new, x.columns[old])
<1>1. DOMAIN rest = DOMAIN x.columns \ {old} /\ \A c \in DOMAIN rest : rest[c] = x.columns[c]
  BY DEF Without
<1>2. /\ DOMAIN y = Fields /\ y.columns = columns
      /\ DOMAIN y.constraints = DOMAIN x.constraints /\ DOMAIN y.indexes = DOMAIN x.indexes
  BY DEF RenamedIn, Fields
<1> HIDE DEF y, rest
<1>3. /\ \A c : c \in DOMAIN columns <=> c \in DOMAIN rest \/ c = new
      /\ columns[new] = x.columns[old] /\ \A c \in DOMAIN rest : c # new => columns[c] = rest[c]
  BY WithFacts
<1> HIDE DEF columns
<1>4. CoversTable(x, y, s, t, {<<s, t, old>>})
  BY <1>1, <1>2, <1>3 DEF CoversTable, SameType
<1> QED
  BY <1>2, <1>3, <1>4 DEF y

\* What follows a rename stays what it is.
LEMMA FollowingCovers ==
  ASSUME NEW table, NEW s, NEW t, NEW old, NEW new, NEW n, NEW u
  PROVE  /\ CoversTable(table, FollowingTable(table, s, t, old, new), n, u, {})
         /\ Fields \subseteq DOMAIN table => FollowingTable(table, s, t, old, new).columns = table.columns
<1> DEFINE more == [k \in DOMAIN table.constraints |-> FollowingKey(table.constraints[k], s, t, old, new)]
<1>1. FollowingTable(table, s, t, old, new) = [table EXCEPT !.constraints = more]
  BY DEF FollowingTable
<1>2. DOMAIN more = DOMAIN table.constraints
  OBVIOUS
<1> HIDE DEF more
<1> QED
  BY <1>1, <1>2 DEF CoversTable, Fields, SameType

LEMMA RenameKeeps ==
  ASSUME NEW st, NEW a, st.kind = "rename_column", Accepts(st, a),
         NEW s, NEW t, NEW c, st.key = ColumnKey(s, t, c)
  PROVE  /\ st.says \notin DOMAIN a[s].tables[t].columns
         /\ Covers(a, After(st, a), {}, {<<s, t, c>>})
         /\ LET new == After(st, a)[s].tables[t].columns IN
            Parts \subseteq DOMAIN a[s] /\ Fields \subseteq DOMAIN a[s].tables[t] =>
              st.says \in DOMAIN new /\ new[st.says] = a[s].tables[t].columns[c]
<1>0. st.key.schema = s /\ st.key.path[1] = t /\ st.key.path[2] = c
  BY DEF ColumnKey, Key
<1> DEFINE new == st.says
           x == a[s].tables[t]
           y == RenamedIn(x, c, new)
           r == [a EXCEPT ![s].tables[t] = y]
           b == After(st, a)
<1>1. b = FollowRename(a, s, t, c, new)
  BY <1>0 DEF After, AlterKinds, Drops
<1>2. HasColumn(a, s, t, c) /\ new \notin DOMAIN x.columns
  BY <1>0 DEF Accepts, AcceptsAlter, AlterKinds, Drops
<1>3. /\ CoversTable(x, y, s, t, {<<s, t, c>>})
      /\ new \in DOMAIN y.columns /\ y.columns[new] = x.columns[c]
  <2>1. c \in DOMAIN x.columns /\ new \notin DOMAIN x.columns
    BY <1>2 DEF HasColumn
  <2> HIDE DEF x, new
  <2> QED
    BY <2>1, RenamedInCovers
<1> HIDE DEF y, b
<1>4. Covers(a, r, {}, {<<s, t, c>>})
  BY <1>3, TableChanged
<1>5. Covers(r, b, {}, {})
  <2>1. b = [n \in DOMAIN a |-> FollowIn(r[n], s, t, c, new)]
    BY <1>1 DEF FollowRename, y
  <2> HIDE DEF r, new
  <2>2. \A n \in DOMAIN a : b[n] = FollowIn(r[n], s, t, c, new)
    BY <2>1
  <2>3. ASSUME NEW n \in DOMAIN a
        PROVE  CoversNamespace(r[n], b[n], n, {}, {})
    <3> DEFINE ns == r[n]
               after == FollowIn(ns, s, t, c, new)
    <3> HIDE DEF ns
    <3> SUFFICES ASSUME Parts \subseteq DOMAIN ns PROVE CoversNamespace(ns, after, n, {}, {})
      BY <2>2 DEF ns, CoversNamespace
    <3>1. DOMAIN after = DOMAIN ns
      BY DEF FollowIn
    <3>2. \A part \in Parts : part \notin {"tables", "views"} => after[part] = ns[part]
      BY DEF FollowIn
    <3>3. DOMAIN after.views = DOMAIN ns.views
      BY PartsAre DEF FollowIn
    <3>4. CoversTables(ns.tables, after.tables, n, {})
      <4> SUFFICES ASSUME NEW u \in DOMAIN ns.tables
                   PROVE  /\ u \in DOMAIN after.tables
                          /\ CoversTable(ns.tables[u], after.tables[u], n, u, {})
        BY DEF CoversTables
      <4>1. u \in DOMAIN after.tables /\ after.tables[u] = FollowingTable(ns.tables[u], s, t, c, new)
        BY PartsAre DEF FollowIn
      <4> QED
        BY <4>1, FollowingCovers
    <3> QED
      BY <3>1, <3>2, <3>3, <3>4, TypesSame, PartsAre DEF CoversNamespace
  <2>4. DOMAIN r = DOMAIN a
    BY DEF r
  <2> QED
    BY <2>1, <2>3, <2>4 DEF Covers
<1>6. Covers(a, b, {}, {<<s, t, c>>})
  <2>1. {} \cup {} = {} /\ {<<s, t, c>>} \cup {} = {<<s, t, c>>}
    OBVIOUS
  <2> QED
    BY <1>4, <1>5, <2>1, CoversTransitive
<1>7. ASSUME Parts \subseteq DOMAIN a[s], Fields \subseteq DOMAIN a[s].tables[t]
      PROVE  new \in DOMAIN b[s].tables[t].columns /\ b[s].tables[t].columns[new] = x.columns[c]
  <2>1. s \in DOMAIN a /\ t \in DOMAIN a[s].tables /\ "tables" \in DOMAIN a[s]
    BY <1>2, <1>7, PartsAre DEF HasColumn, HasTable
  <2>2. r[s].tables[t] = y /\ t \in DOMAIN r[s].tables /\ "tables" \in DOMAIN r[s]
    BY <2>1
  <2>3. b[s] = FollowIn(r[s], s, t, c, new)
    BY <1>1, <2>1 DEF FollowRename, y
  <2>4. Fields \subseteq DOMAIN y
    BY <1>2, RenamedInCovers DEF HasColumn, y
  <2>5. b[s].tables[t].columns = y.columns
    <3> HIDE DEF r, new
    <3>1. b[s].tables[t] = FollowingTable(r[s].tables[t], s, t, c, new)
      BY <2>2, <2>3 DEF FollowIn
    <3> QED
      BY <2>2, <2>4, <3>1, FollowingCovers
  <2> QED
    BY <1>3, <2>5
<1> QED
  BY <1>2, <1>6, <1>7 DEF b

----------------------------------------------------------------------------
(* What the operations of a plan without --unsafe-drop can do.             *)

\* The column that source has under the key of an operation.
InSource(s, t, c) == c \in DOMAIN From[s].tables[t].columns

NewName(s, t, c) == RenameTarget(c, From[s].tables[t].columns, To[s].tables[t].columns)

LEMMA RenameSays ==
  ASSUME NEW op, op.kind = "rename_column", NEW s, NEW t, NEW c, op.key = ColumnKey(s, t, c)
  PROVE  StatementOf(op) = Statement(op, NewName(s, t, c))
<1>1. op.key.schema = s /\ op.key.path[1] = t /\ op.key.path[2] = c
  BY DEF ColumnKey, Key
<1>2. StatementOf(op) = RenderRename(op, From, To)
  BY DEF StatementOf, RenderString, AlteredField
<1> QED
  BY <1>1, <1>2 DEF RenderRename, TableIn, NewName

\* A statement is of the kind of its operation, or says nothing; it is about the same object.
LEMMA StatementKind ==
  ASSUME NEW op
  PROVE  StatementOf(op).kind \in {op.kind, "nothing"} /\ StatementOf(op).key = op.key
<1>1. \A says : Statement(op, says).kind = op.kind /\ Statement(op, says).key = op.key
  BY DEF Statement
<1>2. Nothing(op).kind = "nothing" /\ Nothing(op).key = op.key
  BY DEF Nothing
<1> DEFINE Fine(st) == (\E says : st = Statement(op, says)) \/ st = Nothing(op)
<1>3. Fine(StatementOf(op))
  <2>1. Fine(RenderTable(op, To)) /\ Fine(RenderRename(op, From, To)) /\ Fine(RenderIndex(op, To))
    BY Zenon DEF RenderTable, RenderRename, RenderIndex
  <2>2. Fine(RenderColumn(op, To))
    BY Zenon DEF RenderColumn
  <2>3. Fine(RenderConstraint(op, To))
    BY Zenon DEF RenderConstraint
  <2>4. Fine(RenderSequence(op, To)) /\ Fine(RenderOptions(op, From, To)) /\ Fine(Statement(op, ""))
    BY Zenon DEF RenderSequence, RenderOptions
  <2>5. \A part : Fine(RenderContents(op, To, part))
    BY Zenon DEF RenderContents
  <2> HIDE DEF Fine
  <2> QED
    BY <2>1, <2>2, <2>3, <2>4, <2>5 DEF StatementOf, RenderString
<1> QED
  BY <1>1, <1>2, <1>3

LEMMA SafelyPlanned ==
  ASSUME IsRequest(request), ~request.unsafeDrop, NEW op \in Wanted
  PROVE  \/ op \in PlainOps /\ op.kind \notin LosingKinds
         \/ \E s, t, c : /\ op = RenameColumnOp(s, t, c) /\ InSource(s, t, c)
                         /\ ~InSource(s, t, NewName(s, t, c))
         \/ \E s, t, c : op = AlterColumnCollationOp(s, t, c) /\ InSource(s, t, c)
         \/ \E s, v : op = DropViewOp(s, v, TRUE) /\ CreateMaterializedViewOp(s, v) \in Wanted
<1>1. op \in Listed(request) /\ ~op.destructive
  BY DEF Wanted, IsAllowed
<1>2. IsSchema(From) /\ IsSchema(To)
  BY FilterNamespacesFacts DEF IsRequest, From, To
<1>3. \/ op \in ListedOps(From, To)
      \/ \E s, v \in NameSet : op = DropViewOp(s, v, TRUE) /\ CreateMaterializedViewOp(s, v) \in Listed(request)
  BY <1>1, ListsSafely DEF From, To
<1>4. CASE op \in PlainOps
  BY <1>1, <1>4 DEF PlainOps
<1>5. CASE op \in ListedOps(From, To) \ PlainOps
  <2> DEFINE Mine(s, t) == ColumnOps(s, t, From[s].tables[t].columns, To[s].tables[t].columns)
             Common(s) == DOMAIN From[s].tables \cap DOMAIN To[s].tables
  <2>6. op \in UNION {UNION {Mine(s, t) : t \in Common(s)} : s \in DOMAIN From \cap DOMAIN To}
    BY <1>5 DEF ListedOps
  <2> HIDE DEF Mine, Common
  <2>7. PICK s \in DOMAIN From \cap DOMAIN To : op \in UNION {Mine(s, t) : t \in Common(s)}
    BY <2>6
  <2>8. PICK t \in Common(s) : op \in Mine(s, t)
    BY <2>7
  <2>1. /\ s \in DOMAIN From \cap DOMAIN To /\ t \in DOMAIN From[s].tables \cap DOMAIN To[s].tables
        /\ op \in ColumnOps(s, t, From[s].tables[t].columns, To[s].tables[t].columns)
    BY <2>7, <2>8 DEF Mine, Common
  <2> DEFINE source == From[s].tables[t].columns
             target == To[s].tables[t].columns
  <2>2. DOMAIN target \subseteq NameSet
    BY <1>2, <2>1 DEF IsSchema, IsNamespace, IsTable, IsNamed, NameSet
  <2>3. \/ \E c \in Renames(source, target) : op = RenameColumnOp(s, t, c)
        \/ \E c \in DOMAIN source \cap DOMAIN target : op = AlterColumnCollationOp(s, t, c)
    BY <1>5, <2>1 DEF ColumnOps
  <2>4. ASSUME NEW c \in Renames(source, target)
        PROVE  InSource(s, t, c) /\ ~InSource(s, t, NewName(s, t, c))
    BY <2>2, RenamedToNew DEF InSource, NewName
  <2>5. \A c \in DOMAIN source : InSource(s, t, c)
    BY DEF InSource
  <2> HIDE DEF source, target
  <2> QED
    BY <2>3, <2>4, <2>5
<1>6. ASSUME NEW s \in NameSet, NEW v \in NameSet,
             op = DropViewOp(s, v, TRUE), CreateMaterializedViewOp(s, v) \in Listed(request)
      PROVE  CreateMaterializedViewOp(s, v) \in Wanted
  BY <1>6 DEF Wanted, IsAllowed, CreateMaterializedViewOp, ViewOp, Op
<1> QED
  BY <1>3, <1>4, <1>5, <1>6

\* A statement of a plain operation takes nothing away.
LEMMA PlainKeeps ==
  ASSUME NEW op \in PlainOps, op.kind \notin LosingKinds, NEW a, Accepts(StatementOf(op), a)
  PROVE  Covers(a, After(StatementOf(op), a), {}, {})
<1> DEFINE st == StatementOf(op)
<1>1. st.kind \in {op.kind, "nothing"} /\ st.key = op.key
  BY StatementKind
<1>2. op.kind = "add_enum_label" => st.key.path[2] \in STRING
  BY <1>1 DEF PlainOps, Text
<1>3. op.kind \in Kinds /\ op.kind \notin {"rename_column", "alter_column_collation"}
  BY DEF PlainOps, Operation
<1> HIDE DEF st
<1>4. st.kind \in {"create_schema", "add_table", "add_column", "add_constraint", "add_index", "add_enum_label",
                  "alter_sequence", "nothing"} \cup Tuning \cup Putting
  BY <1>1, <1>3 DEF Kinds, PreDeployKinds, DeployKinds, PostDeployKinds, LosingKinds, Tuning, Putting
<1>5. CASE st.kind = "nothing"
  <2>1. After(st, a) = a
    BY <1>5 DEF After, AlterKinds, Drops
  <2> QED
    BY <2>1, DatabaseSame DEF st
<1>6. CASE st.kind \in {"create_schema", "add_table", "add_column", "add_constraint", "add_index"} \cup Tuning \cup Putting
  BY <1>6, CreateSchemaKeeps, AddTableKeeps, AddColumnKeeps, AddConstraintKeeps, AddIndexKeeps,
    TuningKeeps, PuttingKeeps DEF st
<1>7. CASE st.kind \in {"add_enum_label", "alter_sequence"}
  BY <1>1, <1>2, <1>7, AddEnumLabelKeeps, AlterSequenceKeeps DEF st
<1> QED
  BY <1>4, <1>5, <1>6, <1>7

----------------------------------------------------------------------------
(* What a push leaves of a database that it was called with, or once found. *)

\* The column has been renamed.
Renamed(s, t, c) == \E op \in Executed : op.kind = "rename_column" /\ op.key = ColumnKey(s, t, c)

LEMMA NameNowIs ==
  ASSUME NEW s, NEW t, NEW c
  PROVE  NameNow(<<s, t>>, c) = IF Renamed(s, t, c) THEN NewName(s, t, c) ELSE c
<1> DEFINE renamed == {op \in Executed : op.kind = "rename_column" /\ op.key = ColumnKey(s, t, c)}
<1>1. NameNow(<<s, t>>, c) = IF renamed = {} THEN c ELSE StatementOf(CHOOSE op \in renamed : TRUE).says
  BY DEF NameNow
<1>2. renamed = {} <=> ~Renamed(s, t, c)
  BY DEF Renamed
<1>3. ASSUME renamed # {}
      PROVE  StatementOf(CHOOSE op \in renamed : TRUE).says = NewName(s, t, c)
  <2> DEFINE op == CHOOSE x \in renamed : TRUE
  <2>1. op \in renamed
    BY <1>3
  <2> HIDE DEF op
  <2>2. StatementOf(op) = Statement(op, NewName(s, t, c))
    BY <2>1, RenameSays
  <2>3. StatementOf(op).says = NewName(s, t, c)
    BY <2>2 DEF Statement
  <2> QED
    BY <2>3 DEF op
<1> QED
  BY <1>1, <1>2, <1>3

\* The column is there, and has its type or that of the target.
HasColumnNow(was, s, t, c) ==
  LET is == db[s].tables[t].columns
      name == NameNow(<<s, t>>, c)
  IN  /\ name \in DOMAIN is
      /\ SameType(was[s].tables[t].columns[c], is[name]) \/ Had("alter_column_collation", ColumnKey(s, t, c))

\* A view that was there has not been made anew.
NoneRemade(was) ==
  \A op \in Executed :
    op.kind = "create_materialized_view" /\ op.key.schema \in DOMAIN was =>
      op.key.path[1] \notin DOMAIN was[op.key.schema].views

DataKept(was) ==
  /\ \E lost : Covers(was, db, {}, lost)
  /\ \A s, t, c : HasColumn(was, s, t, c) => HasColumnNow(was, s, t, c)
  /\ NoneRemade(was)

LEMMA KeepsNothingLost ==
  ASSUME NEW was, IsDatabase(was), DataKept(was)
  PROVE  NothingLost(was)
<1>1. PICK lost : Covers(was, db, {}, lost)
  BY DEF DataKept
<1>2. ASSUME NEW s \in DOMAIN was
      PROVE  /\ s \in DOMAIN db
             /\ Parts \subseteq DOMAIN was[s]
             /\ CoversNamespace(was[s], db[s], s, {}, lost)
  BY <1>1 DEF Covers, IsDatabase, Parts
<1>3. ASSUME NEW s \in DOMAIN was, NEW part \in {"views", "sequences", "extensions"}
      PROVE  DOMAIN was[s][part] \subseteq DOMAIN db[s][part]
  BY <1>2, <1>3 DEF CoversNamespace
<1>4. ASSUME NEW s \in DOMAIN was, NEW t \in DOMAIN was[s].types
      PROVE  t \in DOMAIN db[s].types /\ IsPrefix(was[s].types[t], db[s].types[t])
  BY <1>2 DEF CoversNamespace, CoversTypes, IsDatabase
<1>5. ASSUME NEW s \in DOMAIN was, NEW t \in DOMAIN was[s].tables
      PROVE  /\ s \in DOMAIN db /\ t \in DOMAIN db[s].tables
             /\ \A c \in DOMAIN was[s].tables[t].columns : KeptColumn(was, <<s, t>>, c)
             /\ DOMAIN was[s].tables[t].constraints \subseteq DOMAIN db[s].tables[t].constraints
             /\ DOMAIN was[s].tables[t].indexes \subseteq DOMAIN db[s].tables[t].indexes
  <2>1. Fields \subseteq DOMAIN was[s].tables[t]
    BY DEF IsDatabase, Fields
  <2>2. t \in DOMAIN db[s].tables /\ CoversTable(was[s].tables[t], db[s].tables[t], s, t, lost)
    BY <1>2 DEF CoversNamespace, CoversTables
  <2>3. ASSUME NEW c \in DOMAIN was[s].tables[t].columns
        PROVE  KeptColumn(was, <<s, t>>, c)
    <3>1. HasColumnNow(was, s, t, c)
      BY DEF DataKept, HasColumn, HasTable
    <3>2. "type" \in DOMAIN was[s].tables[t].columns[c]
      BY DEF IsDatabase
    <3> QED
      BY <3>1, <3>2 DEF KeptColumn, HasColumnNow, SameType, At
  <2> QED
    BY <1>2, <2>1, <2>2, <2>3 DEF CoversTable
<1>6. ASSUME NEW st \in TablesOf(was)
      PROVE  /\ st \in TablesOf(db)
             /\ \A c \in DOMAIN At(was, st).columns : KeptColumn(was, st, c)
             /\ DOMAIN At(was, st).constraints \subseteq DOMAIN At(db, st).constraints
             /\ DOMAIN At(was, st).indexes \subseteq DOMAIN At(db, st).indexes
  <2>1. PICK s \in DOMAIN was : \E t \in DOMAIN was[s].tables : st = <<s, t>>
    BY DEF TablesOf
  <2>2. PICK t \in DOMAIN was[s].tables : st = <<s, t>>
    BY <2>1
  <2>3. <<s, t>> \in TablesOf(db)
    <3> DEFINE Mine(n) == {<<n, u>> : u \in DOMAIN db[n].tables}
    <3>1. s \in DOMAIN db /\ <<s, t>> \in Mine(s)
      BY <1>5
    <3>2. TablesOf(db) = UNION {Mine(n) : n \in DOMAIN db}
      BY DEF TablesOf
    <3> HIDE DEF Mine
    <3> QED
      BY <3>1, <3>2
  <2> QED
    BY <1>5, <2>2, <2>3 DEF At
<1> QED
  BY <1>2, <1>3, <1>4, <1>6 DEF NothingLost

----------------------------------------------------------------------------
(* What a step of the execution leaves.                                    *)

LEMMA ExecuteFacts ==
  ASSUME IInv, executed \in 0..Len(plan), Execute, NEW op, op = plan[executed + 1]
  PROVE  /\ op \in Wanted /\ IsRequest(request) /\ executed' \in 0..Len(plan)
         /\ Accepts(StatementOf(op), db) /\ db' = After(StatementOf(op), db)
         /\ Executed' = Executed \cup {op} /\ Executed \subseteq Wanted
         /\ request' = request /\ plan' = plan
<1>1. /\ pc = "planned" /\ executed < Len(plan) /\ executed' = executed + 1
      /\ Accepts(StatementOf(op), db) /\ db' = After(StatementOf(op), db)
      /\ request' = request /\ plan' = plan
  BY DEF Execute, vars
<1>2. IsRequest(request) /\ plan \in Seq(Operation)
  BY DEF IInv, Types
<1>3. /\ Len(plan) \in Nat /\ DOMAIN plan = 1..Len(plan)
      /\ executed + 1 \in DOMAIN plan /\ executed' \in 0..Len(plan)
  BY <1>1, <1>2
<1>4. plan # <<>>
  BY <1>1, <1>3
<1>5. Range(plan) = Wanted
  BY <1>1, <1>4, PlannedIsWhole DEF IsPlanOf
<1>6. \A k \in DOMAIN plan : plan[k] \in Wanted
  BY <1>5 DEF Range
<1>7. Executed \subseteq Wanted
  BY <1>3, <1>6 DEF Executed
<1>8. Executed' = Executed \cup {op}
  <2>1. \A k : k \in 1..executed' <=> k \in 1..executed \/ k = executed + 1
    BY <1>1, <1>3
  <2> QED
    BY <1>1, <2>1 DEF Executed
<1> QED
  BY <1>1, <1>2, <1>3, <1>6, <1>7, <1>8

\* Views are made before the deployment and dropped after it.
LEMMA ViewsMadeFirst ==
  ASSUME IInv, executed \in 0..Len(plan), Execute, plan[executed + 1].kind = "drop_view",
         NEW create \in Wanted, create.kind = "create_materialized_view"
  PROVE  create \in Executed
<1> DEFINE op == plan[executed + 1]
<1>1. pc = "planned" /\ executed < Len(plan)
  BY DEF Execute
<1>2. /\ plan \in Seq(Operation) /\ Len(plan) \in Nat /\ DOMAIN plan = 1..Len(plan)
      /\ executed + 1 \in DOMAIN plan
  BY <1>1 DEF IInv, Types
<1>3. Range(plan) = Wanted
  BY <1>1, <1>2, PlannedIsWhole DEF IsPlanOf
<1>4. PICK p \in DOMAIN plan : plan[p] = create
  BY <1>3 DEF Range
<1>5. IsEarlier(create, op)
  <2>4. create.kind \in PreDeployKinds /\ create.kind \notin PostDeployKinds
    BY DEF PreDeployKinds, PostDeployKinds
  <2>5. op.kind \notin PreDeployKinds /\ op.kind \in PostDeployKinds
    BY DEF PreDeployKinds, PostDeployKinds
  <2>1. assignStage(create) = "pre-deploy"
    BY <2>4 DEF assignStage
  <2>2. assignStage(op) = "post-deploy"
    BY <2>5 DEF assignStage
  <2>3. StageOrder[1] = "pre-deploy" /\ StageOrder[3] = "post-deploy" /\ {1, 3} \subseteq DOMAIN StageOrder
    BY DEF StageOrder
  <2> QED
    BY <2>1, <2>2, <2>3 DEF IsEarlier
<1>6. p # executed + 1
  BY <1>4
<1>7. p < executed + 1
  BY <1>1, <1>2, <1>4, <1>5, <1>6, PlannedInOrder
<1> QED
  BY <1>2, <1>4, <1>7 DEF Executed

\* All that depends on the request stays, because the request does.
LEMMA PlanningKept ==
  ASSUME request' = request
  PROVE  /\ \A op : StatementOf(op)' = StatementOf(op)
         /\ \A kind, key : Had(kind, key)' = Had(kind, key)
         /\ \A s, t, c : NewName(s, t, c)' = NewName(s, t, c) /\ InSource(s, t, c)' = InSource(s, t, c)
<1>1. From' = From /\ To' = To /\ Difference' = Difference
  BY DEF From, To, Difference
<1> QED
  BY <1>1 DEF StatementOf, Had, NewName, InSource

LEMMA ColumnStays ==
  ASSUME NEW a, NEW b, NEW gone, NEW lost, Covers(a, b, gone, lost),
         NEW s, NEW t, NEW c, HasColumn(a, s, t, c), <<s, t, c>> \notin lost,
         Parts \subseteq DOMAIN a[s], Fields \subseteq DOMAIN a[s].tables[t]
  PROVE  /\ c \in DOMAIN b[s].tables[t].columns
         /\ SameType(a[s].tables[t].columns[c], b[s].tables[t].columns[c])
<1>1. s \in DOMAIN a /\ t \in DOMAIN a[s].tables /\ c \in DOMAIN a[s].tables[t].columns
  BY DEF HasColumn, HasTable
<1>2. CoversNamespace(a[s], b[s], s, gone, lost)
  BY <1>1 DEF Covers
<1>3. CoversTable(a[s].tables[t], b[s].tables[t], s, t, lost)
  BY <1>1, <1>2 DEF CoversNamespace, CoversTables
<1> QED
  BY <1>1, <1>3 DEF CoversTable

LEMMA PartsStay ==
  ASSUME NEW a, IsDatabase(a), NEW b, NEW gone, NEW lost, Covers(a, b, gone, lost),
         NEW s, NEW t, HasTable(a, s, t)
  PROVE  HasTable(b, s, t) /\ Parts \subseteq DOMAIN b[s] /\ Fields \subseteq DOMAIN b[s].tables[t]
<1>1. s \in DOMAIN a /\ t \in DOMAIN a[s].tables
  BY DEF HasTable
<1>2. Parts \subseteq DOMAIN a[s] /\ Fields \subseteq DOMAIN a[s].tables[t]
  BY <1>1 DEF IsDatabase, Parts, Fields
<1>3. s \in DOMAIN b /\ CoversNamespace(a[s], b[s], s, gone, lost)
  BY <1>1 DEF Covers
<1>4. t \in DOMAIN b[s].tables /\ CoversTable(a[s].tables[t], b[s].tables[t], s, t, lost)
  BY <1>1, <1>2, <1>3 DEF CoversNamespace, CoversTables
<1> QED
  BY <1>2, <1>3, <1>4 DEF CoversNamespace, CoversTable, HasTable

LEMMA GoneWasNever ==
  ASSUME NEW a, NEW b, NEW gone, NEW lost, Covers(a, b, gone, lost),
         \A s \in DOMAIN a : \A v \in DOMAIN a[s].views : <<s, v>> \notin gone
  PROVE  Covers(a, b, {}, lost)
BY DEF Covers, CoversNamespace

LEMMA NamesNow == \A s, t, c : NameNow(<<s, t>>, c) = IF Renamed(s, t, c) THEN NewName(s, t, c) ELSE c
BY NameNowIs

LEMMA NamesThen == (\A s, t, c : NameNow(<<s, t>>, c) = IF Renamed(s, t, c) THEN NewName(s, t, c) ELSE c)'
BY NamesNow, PTL

\* The name of a column changes when it is renamed.
LEMMA NameAfter ==
  ASSUME NEW op, Executed' = Executed \cup {op}, request' = request, NEW s, NEW t, NEW c
  PROVE  NameNow(<<s, t>>, c)' = IF op.kind = "rename_column" /\ op.key = ColumnKey(s, t, c)
                                 THEN NewName(s, t, c) ELSE NameNow(<<s, t>>, c)
<1>2. NameNow(<<s, t>>, c)' = IF Renamed(s, t, c)' THEN NewName(s, t, c)' ELSE c
  BY NamesThen
<1>3. NameNow(<<s, t>>, c) = IF Renamed(s, t, c) THEN NewName(s, t, c) ELSE c
  BY NameNowIs
<1>4. Renamed(s, t, c)' <=> Renamed(s, t, c) \/ (op.kind = "rename_column" /\ op.key = ColumnKey(s, t, c))
  BY DEF Renamed
<1>5. NewName(s, t, c)' = NewName(s, t, c)
  BY PlanningKept
<1> QED
  BY <1>2, <1>3, <1>4, <1>5

\* A column that has the name it has in source has always had it.
LEMMA SourceNames ==
  ASSUME IsRequest(request), ~request.unsafeDrop, Executed \subseteq Wanted,
         NEW s, NEW t, NEW c, NEW name, name = NameNow(<<s, t>>, c), InSource(s, t, name)
  PROVE  name = c /\ ~Renamed(s, t, c)
<1> SUFFICES ASSUME Renamed(s, t, c) PROVE FALSE
  BY NameNowIs
<1>1. name = NewName(s, t, c)
  BY NameNowIs
<1>2. PICK op \in Executed : op.kind = "rename_column" /\ op.key = ColumnKey(s, t, c)
  BY DEF Renamed
<1>3. \A x, y, z : AlterColumnCollationOp(x, y, z).kind = "alter_column_collation"
  BY DEF AlterColumnCollationOp, ColumnOp, Op
<1>4. \A x, v : DropViewOp(x, v, TRUE).kind = "drop_view"
  BY DEF DropViewOp, ViewOp, Op
<1>5. op \notin PlainOps
  BY <1>2 DEF PlainOps
<1>8. \E x, y, z : op = RenameColumnOp(x, y, z) /\ ~InSource(x, y, NewName(x, y, z))
  <2>1. op \in Wanted
    OBVIOUS
  <2>2. \/ op \in PlainOps /\ op.kind \notin LosingKinds
        \/ \E x, y, z : /\ op = RenameColumnOp(x, y, z) /\ InSource(x, y, z)
                        /\ ~InSource(x, y, NewName(x, y, z))
        \/ \E x, y, z : op = AlterColumnCollationOp(x, y, z) /\ InSource(x, y, z)
        \/ \E x, v : op = DropViewOp(x, v, TRUE) /\ CreateMaterializedViewOp(x, v) \in Wanted
    BY <2>1, SafelyPlanned
  <2> QED
    BY <1>2, <1>3, <1>4, <1>5, <2>2
<1>6. PICK x, y, z : op = RenameColumnOp(x, y, z) /\ ~InSource(x, y, NewName(x, y, z))
  BY <1>8
<1>7. x = s /\ y = t /\ z = c
  BY <1>2, <1>6 DEF RenameColumnOp, ColumnOp, Op, ColumnKey, Key
<1> QED
  BY <1>1, <1>6, <1>7

\* So what is known of a column before the step is known of it after.
LEMMA ColumnKept ==
  ASSUME NEW was, IsDatabase(was), NEW first, Covers(was, db, {}, first),
         NEW gone, NEW lost, Covers(db, db', gone, lost),
         request' = request, NEW op, Executed' = Executed \cup {op},
         NEW s, NEW t, NEW c, HasColumn(was, s, t, c), HasColumnNow(was, s, t, c),
         op.kind = "rename_column" => op.key # ColumnKey(s, t, c),
         <<s, t, NameNow(<<s, t>>, c)>> \notin lost
  PROVE  HasColumnNow(was, s, t, c)'
<1> DEFINE name == NameNow(<<s, t>>, c)
           old == was[s].tables[t].columns[c]
           is == db[s].tables[t].columns
           Collated == Had("alter_column_collation", ColumnKey(s, t, c))
<1>1. name \in DOMAIN is /\ (SameType(old, is[name]) \/ Collated)
  BY DEF HasColumnNow
<1>2. name' = name
  BY NameAfter
<1>3. Collated' = Collated
  BY PlanningKept
<1>4. HasTable(was, s, t)
  BY DEF HasColumn
<1>5. HasTable(db, s, t) /\ Parts \subseteq DOMAIN db[s] /\ Fields \subseteq DOMAIN db[s].tables[t]
  BY <1>4, PartsStay
<1>6. HasColumn(db, s, t, name)
  BY <1>1, <1>5 DEF HasColumn
<1>7. name \in DOMAIN is' /\ SameType(is[name], is'[name])
  <2> HIDE DEF name
  <2>1. <<s, t, name>> \notin lost
    BY DEF name
  <2> QED
    BY <1>5, <1>6, <2>1, ColumnStays
<1>8. SameType(old, is[name]) => SameType(old, is'[name])
  BY <1>7 DEF SameType
<1> QED
  BY <1>1, <1>2, <1>3, <1>7, <1>8 DEF HasColumnNow

\* The views that have been made anew were not there.
LEMMA NewViewIsNew ==
  ASSUME NEW was, IsDatabase(was), NEW lost, Covers(was, db, {}, lost),
         NEW op, op.kind = "create_materialized_view", Accepts(StatementOf(op), db), op.key.schema \in DOMAIN was
  PROVE  op.key.path[1] \notin DOMAIN was[op.key.schema].views
<1> DEFINE s == op.key.schema
           v == op.key.path[1]
           st == StatementOf(op)
<1>1. st.kind = "create_materialized_view" /\ st.key = op.key
  <2>1. st = RenderContents(op, To, "views")
    BY DEF StatementOf, RenderString, AlteredField
  <2> QED
    BY <2>1 DEF RenderContents, Statement
<1> HIDE DEF st
<1>2. ~Taken(db, s, v)
  <2>1. Accepts(st, db)
    BY DEF st
  <2> QED
    BY <1>1, <2>1 DEF Accepts, AlterKinds, Drops
<1>3. Parts \subseteq DOMAIN was[s] /\ CoversNamespace(was[s], db[s], s, {}, lost)
  BY DEF Covers, IsDatabase, Parts
<1> QED
  BY <1>2, <1>3 DEF Taken, CoversNamespace

LEMMA StepKept ==
  ASSUME NEW was, IsDatabase(was), DataKept(was), NEW op, Executed' = Executed \cup {op},
         Accepts(StatementOf(op), db), NEW gone, NEW lost, Covers(db, db', gone, lost),
         \A s \in DOMAIN was : \A v \in DOMAIN was[s].views : <<s, v>> \notin gone,
         \A s, t, c : HasColumn(was, s, t, c) => HasColumnNow(was, s, t, c)'
  PROVE  DataKept(was)'
<1>1. PICK first : Covers(was, db, {}, first)
  BY DEF DataKept
<1>2. Covers(was, db', {}, first \cup lost)
  <2>1. Covers(was, db', {} \cup gone, first \cup lost)
    BY <1>1, CoversTransitive
  <2>2. {} \cup gone = gone
    OBVIOUS
  <2>3. Covers(was, db', gone, first \cup lost)
    BY <2>1, <2>2
  <2> QED
    BY <2>3, GoneWasNever
<1>3. NoneRemade(was)'
  <2>1. NoneRemade(was)
    BY DEF DataKept
  <2>2. op.kind = "create_materialized_view" /\ op.key.schema \in DOMAIN was =>
          op.key.path[1] \notin DOMAIN was[op.key.schema].views
    BY <1>1, NewViewIsNew
  <2> QED
    BY <2>1, <2>2 DEF NoneRemade
<1> QED
  BY <1>2, <1>3 DEF DataKept

LEMMA RenameKept ==
  ASSUME NEW was, IsDatabase(was), DataKept(was), NEW op, Executed' = Executed \cup {op},
         IsRequest(request), ~request.unsafeDrop, Executed \subseteq Wanted, request' = request,
         Accepts(StatementOf(op), db), db' = After(StatementOf(op), db),
         NEW s, NEW t, NEW c, op = RenameColumnOp(s, t, c), InSource(s, t, c)
  PROVE  DataKept(was)'
<1> DEFINE st == StatementOf(op)
<1>1. op.kind = "rename_column" /\ op.key = ColumnKey(s, t, c)
  BY DEF RenameColumnOp, ColumnOp, Op
<1>2. st.kind = "rename_column" /\ st.key = ColumnKey(s, t, c) /\ st.says = NewName(s, t, c)
  <2>1. st = Statement(op, NewName(s, t, c))
    BY <1>1, RenameSays
  <2> QED
    BY <1>1, <2>1 DEF Statement
<1>3. Accepts(st, db) /\ db' = After(st, db)
  OBVIOUS
<1> HIDE DEF st
<1>4. /\ NewName(s, t, c) \notin DOMAIN db[s].tables[t].columns
      /\ Covers(db, db', {}, {<<s, t, c>>})
      /\ Parts \subseteq DOMAIN db[s] /\ Fields \subseteq DOMAIN db[s].tables[t] =>
           /\ NewName(s, t, c) \in DOMAIN db'[s].tables[t].columns
           /\ db'[s].tables[t].columns[NewName(s, t, c)] = db[s].tables[t].columns[c]
  BY <1>2, <1>3, RenameKeeps
<1>5. PICK first : Covers(was, db, {}, first)
  BY DEF DataKept
<1>6. ASSUME NEW x, NEW y, NEW z, HasColumn(was, x, y, z)
      PROVE  HasColumnNow(was, x, y, z)'
  <2> DEFINE name == NameNow(<<x, y>>, z)
  <2>1. HasColumnNow(was, x, y, z)
    BY <1>6 DEF DataKept
  <2>2. CASE <<x, y, z>> = <<s, t, c>>
    <3>0. x = s /\ y = t /\ z = c
      BY <2>2
    <3>1. name' = NewName(s, t, c)
      BY <1>1, <3>0, NameAfter
    <3>2. name = c
      BY <1>4, <2>1, <3>0, NameNowIs DEF HasColumnNow
    <3>3. HasTable(was, s, t)
      BY <1>6, <3>0 DEF HasColumn
    <3>4. Parts \subseteq DOMAIN db[s] /\ Fields \subseteq DOMAIN db[s].tables[t]
      BY <1>5, <3>3, PartsStay
    <3>5. Had("alter_column_collation", ColumnKey(x, y, z))' = Had("alter_column_collation", ColumnKey(x, y, z))
      BY PlanningKept
    <3> QED
      BY <1>4, <2>1, <3>0, <3>1, <3>2, <3>4, <3>5 DEF HasColumnNow
  <2>3. CASE <<x, y, z>> # <<s, t, c>>
    <3>1. op.key # ColumnKey(x, y, z)
      BY <1>1, <2>3 DEF ColumnKey, Key
    <3>2. <<x, y, name>> \notin {<<s, t, c>>}
      <4> SUFFICES ASSUME x = s, y = t, name = c PROVE FALSE
        OBVIOUS
      <4>1. InSource(x, y, name)
        OBVIOUS
      <4>2. name = z
        BY <4>1, SourceNames
      <4> QED
        BY <2>3, <4>2
    <3> QED
      BY <1>4, <1>5, <1>6, <2>1, <3>1, <3>2, ColumnKept
  <2> QED
    BY <2>2, <2>3
<1> QED
  BY <1>4, <1>6, StepKept

LEMMA CollationKept ==
  ASSUME NEW was, IsDatabase(was), DataKept(was), NEW op, op \in Wanted, Executed' = Executed \cup {op},
         IsRequest(request), ~request.unsafeDrop, Executed \subseteq Wanted, request' = request,
         Accepts(StatementOf(op), db), db' = After(StatementOf(op), db),
         NEW s, NEW t, NEW c, op = AlterColumnCollationOp(s, t, c), InSource(s, t, c)
  PROVE  DataKept(was)'
<1> DEFINE st == StatementOf(op)
<1>1. op.kind = "alter_column_collation" /\ op.key = ColumnKey(s, t, c)
  BY DEF AlterColumnCollationOp, ColumnOp, Op
<1>2. st.kind = "alter_column_collation" /\ st.key = ColumnKey(s, t, c)
  <2>1. st = RenderColumn(op, To)
    BY <1>1 DEF StatementOf, RenderString, AlteredField
  <2> QED
    BY <1>1, <2>1 DEF RenderColumn, Statement
<1>3. Accepts(st, db) /\ db' = After(st, db)
  OBVIOUS
<1> HIDE DEF st
<1>4. /\ Covers(db, db', {}, {<<s, t, c>>})
      /\ Parts \subseteq DOMAIN db[s] /\ Fields \subseteq DOMAIN db[s].tables[t] =>
           c \in DOMAIN db'[s].tables[t].columns
  BY <1>2, <1>3, CollationKeepsTheRest
<1>5. PICK first : Covers(was, db, {}, first)
  BY DEF DataKept
<1>6. ASSUME NEW x, NEW y, NEW z, HasColumn(was, x, y, z)
      PROVE  HasColumnNow(was, x, y, z)'
  <2> DEFINE name == NameNow(<<x, y>>, z)
  <2>1. HasColumnNow(was, x, y, z)
    BY <1>6 DEF DataKept
  <2>2. op.kind # "rename_column"
    BY <1>1
  <2>3. CASE <<x, y, name>> = <<s, t, c>>
    <3>0. x = s /\ y = t /\ name = c
      BY <2>3
    <3>1. name = z
      BY <3>0, SourceNames
    <3>2. name' = name
      BY <2>2, NameAfter
    <3>3. HasTable(was, s, t)
      BY <1>6, <3>0 DEF HasColumn
    <3>4. c \in DOMAIN db'[s].tables[t].columns
      BY <1>4, <1>5, <3>3, PartsStay
    <3>5. Had("alter_column_collation", ColumnKey(x, y, z))
      BY <1>1, <3>0, <3>1 DEF Had, Difference, Wanted
    <3>6. Had("alter_column_collation", ColumnKey(x, y, z))'
      BY <3>5, PlanningKept
    <3> QED
      BY <3>0, <3>2, <3>4, <3>6 DEF HasColumnNow
  <2>4. CASE <<x, y, name>> # <<s, t, c>>
    <3>1. <<x, y, name>> \notin {<<s, t, c>>}
      BY <2>4
    <3> QED
      BY <1>4, <1>5, <1>6, <2>1, <2>2, <3>1, ColumnKept
  <2> QED
    BY <2>3, <2>4
<1> QED
  BY <1>4, <1>6, StepKept

\* Statements that take nothing from a table.
LEMMA OtherKept ==
  ASSUME NEW was, IsDatabase(was), DataKept(was), NEW op, Executed' = Executed \cup {op},
         request' = request, op.kind # "rename_column",
         Accepts(StatementOf(op), db), NEW gone, Covers(db, db', gone, {}),
         \A s \in DOMAIN was : \A v \in DOMAIN was[s].views : <<s, v>> \notin gone
  PROVE  DataKept(was)'
<1>1. PICK first : Covers(was, db, {}, first)
  BY DEF DataKept
<1>2. ASSUME NEW s, NEW t, NEW c, HasColumn(was, s, t, c)
      PROVE  HasColumnNow(was, s, t, c)'
  <2>1. HasColumnNow(was, s, t, c)
    BY <1>2 DEF DataKept
  <2>2. <<s, t, NameNow(<<s, t>>, c)>> \notin {}
    OBVIOUS
  <2> QED
    BY <1>1, <1>2, <2>1, <2>2, ColumnKept
<1> QED
  BY <1>2, StepKept

\* Nothing that was there is lost by a statement that the database carries out.
LEMMA ExecuteKeeps ==
  ASSUME NEW was, IsDatabase(was), DataKept(was),
         IInv, executed \in 0..Len(plan), ~request.unsafeDrop, Execute
  PROVE  DataKept(was)'
<1> SUFFICES ASSUME NEW op, op = plan[executed + 1] PROVE DataKept(was)'
  OBVIOUS
<1>1. /\ op \in Wanted /\ IsRequest(request)
      /\ Accepts(StatementOf(op), db) /\ db' = After(StatementOf(op), db)
      /\ Executed' = Executed \cup {op} /\ Executed \subseteq Wanted
      /\ request' = request
  BY ExecuteFacts
<1>2. CASE op \in PlainOps /\ op.kind \notin LosingKinds
  <2>1. Covers(db, db', {}, {})
    BY <1>1, <1>2, PlainKeeps
  <2>2. op.kind # "rename_column"
    BY <1>2 DEF PlainOps
  <2> QED
    BY <1>1, <2>1, <2>2, OtherKept
<1>3. ASSUME NEW s, NEW t, NEW c, op = RenameColumnOp(s, t, c), InSource(s, t, c)
      PROVE  DataKept(was)'
  BY <1>1, <1>3, RenameKept
<1>4. ASSUME NEW s, NEW t, NEW c, op = AlterColumnCollationOp(s, t, c), InSource(s, t, c)
      PROVE  DataKept(was)'
  BY <1>1, <1>4, CollationKept
<1>5. ASSUME NEW s, NEW v, op = DropViewOp(s, v, TRUE), CreateMaterializedViewOp(s, v) \in Wanted
      PROVE  DataKept(was)'
  <2> DEFINE create == CreateMaterializedViewOp(s, v)
             st == StatementOf(op)
  <2>1. /\ op.kind = "drop_view" /\ op.key.schema = s /\ op.key.path[1] = v
        /\ create.kind = "create_materialized_view" /\ create.key.schema = s /\ create.key.path[1] = v
    BY <1>5 DEF DropViewOp, CreateMaterializedViewOp, ViewOp, Op, Key
  <2>2. create \in Executed
    BY <1>5, <2>1, ViewsMadeFirst
  <2>3. s \in DOMAIN was => v \notin DOMAIN was[s].views
    <3>1. NoneRemade(was)
      BY DEF DataKept
    <3> HIDE DEF create
    <3> QED
      BY <2>1, <2>2, <3>1 DEF NoneRemade
  <2>4. Covers(db, db', {<<s, v>>}, {})
    <3>1. st = Statement(op, "")
      BY <2>1 DEF StatementOf, RenderString, AlteredField
    <3>3. db' = After(st, db)
      BY <1>1
    <3> HIDE DEF st, create
    <3>2. st.kind = "drop_view" /\ st.key.schema = s /\ st.key.path[1] = v
      BY <2>1, <3>1 DEF Statement
    <3> QED
      BY <3>2, <3>3, DropViewKeepsTheRest
  <2> QED
    BY <1>1, <2>1, <2>3, <2>4, OtherKept
<1>6. \/ op \in PlainOps /\ op.kind \notin LosingKinds
      \/ \E s, t, c : op = RenameColumnOp(s, t, c) /\ InSource(s, t, c)
      \/ \E s, t, c : op = AlterColumnCollationOp(s, t, c) /\ InSource(s, t, c)
      \/ \E s, v : op = DropViewOp(s, v, TRUE) /\ CreateMaterializedViewOp(s, v) \in Wanted
  BY <1>1, SafelyPlanned
<1> QED
  BY <1>2, <1>3, <1>4, <1>5, <1>6

----------------------------------------------------------------------------
(* A push, whatever the database does with the statements.                 *)

PushInv ==
  /\ IInv /\ request \in Requests
  /\ executed \in 0..Len(plan)
  /\ pc # "planned" => executed = 0
  /\ executed = 0 => db = request.database
  /\ ~request.unsafeDrop => \A was : was = request.database => DataKept(was)

\* As long as nothing has been executed, all is there.
LEMMA NothingDone ==
  ASSUME executed = 0, NEW was, was = db
  PROVE  DataKept(was)
<1>1. Executed = {}
  BY DEF Executed
<1>2. ASSUME NEW s, NEW t, NEW c PROVE NameNow(<<s, t>>, c) = c
  <2>1. ~Renamed(s, t, c)
    BY <1>1 DEF Renamed
  <2> QED
    BY <2>1, NameNowIs
<1>3. Covers(was, db, {}, {})
  BY DatabaseSame
<1>4. \A s, t, c : HasColumn(was, s, t, c) => HasColumnNow(was, s, t, c)
  BY <1>2 DEF HasColumn, HasColumnNow, SameType
<1>5. NoneRemade(was)
  BY <1>1 DEF NoneRemade
<1> QED
  BY <1>3, <1>4, <1>5 DEF DataKept

LEMMA NothingDoneThen == (\A was : executed = 0 /\ was = db => DataKept(was))'
<1>1. \A was : executed = 0 /\ was = db => DataKept(was)
  BY NothingDone
<1> QED
  BY <1>1, PTL

LEMMA PushInvInit == PushInit => PushInv
<1> SUFFICES ASSUME PushInit PROVE PushInv
  OBVIOUS
<1>1. IInv
  BY IInvInit DEF PushInit
<1>2. /\ request \in Requests /\ pc = "diff" /\ executed = 0 /\ db = request.database /\ plan = <<>>
  BY DEF PushInit, Init, Idle
<1>3. executed \in 0..Len(plan)
  BY <1>2
<1> QED
  BY <1>1, <1>2, <1>3, NothingDone DEF PushInv

\* The plan is finished before anything of it is executed, and is not changed then.
LEMMA ComputeKeeps == PushInv /\ Compute => PushInv'
<1> SUFFICES ASSUME PushInv, Compute PROVE PushInv'
  OBVIOUS
<1>1. IInv'
  BY IInvStep DEF PushInv, Compute
<1>2. UNCHANGED <<db, executed>> /\ Next
  BY DEF Compute
<1>3. request' = request
  BY <1>2 DEF Next, Step, DiffStep, DiffCancelled, FilterDestructiveOps, Assign, PlanCancelled, Assigned, SkipStage,
    CallTopoSort, SortStep, SortCancelled, StageSorted, StageFailed, Planned, Expire, Done, vars
<1>4. CASE pc = "planned"
  <2>1. UNCHANGED vars
    BY <1>2, <1>4 DEF Next, Step, DiffStep, DiffCancelled, FilterDestructiveOps, Assign, PlanCancelled, Assigned,
      SkipStage, CallTopoSort, SortStep, SortCancelled, StageSorted, StageFailed, Planned, Expire, Done, Returned
  <2>2. plan' = plan /\ pc' = pc
    BY <2>1 DEF vars
  <2>3. \A was : DataKept(was)' = DataKept(was)
    BY <1>2, <1>3, <2>2 DEF DataKept, HasColumnNow, NoneRemade, Executed, NameNow, StatementOf, From, To, Had, Difference
  <2> QED
    BY <1>1, <1>2, <1>3, <2>2, <2>3 DEF PushInv
<1>5. CASE pc # "planned"
  <2>1. executed' = 0 /\ db' = request'.database
    BY <1>2, <1>3, <1>5 DEF PushInv
  <2>2. Len(plan') \in Nat
    BY <1>1 DEF IInv, Types
  <2> QED
    BY <1>1, <1>3, <2>1, <2>2, NothingDoneThen DEF PushInv
<1> QED
  BY <1>4, <1>5

LEMMA PushInvStep == PushInv /\ [PushNext]_pushVars => PushInv'
<1> SUFFICES ASSUME PushInv, [PushNext]_pushVars PROVE PushInv'
  OBVIOUS
<1>1. CASE Compute
  BY <1>1, ComputeKeeps
<1>2. CASE Execute
  <2>1. UNCHANGED vars /\ pc = "planned"
    BY <1>2 DEF Execute
  <2>2. request' = request /\ plan' = plan /\ pc' = pc
    BY <2>1 DEF vars
  <2>3. IInv'
    BY <2>1, IInvStep DEF PushInv
  <2>4. executed' \in 0..Len(plan) /\ executed' # 0
    BY <1>2 DEF Execute, PushInv
  <2>5. ~request.unsafeDrop => \A was : was = request.database => DataKept(was)'
    <3> SUFFICES ASSUME ~request.unsafeDrop, NEW was, was = request.database PROVE DataKept(was)'
      OBVIOUS
    <3>1. IsDatabase(was)
      BY DatabaseAssumption DEF PushInv
    <3> QED
      BY <1>2, <3>1, ExecuteKeeps DEF PushInv
  <2> QED
    BY <2>1, <2>2, <2>3, <2>4, <2>5 DEF PushInv
<1>3. CASE Refuse \/ UNCHANGED pushVars
  <2>1. UNCHANGED <<vars, db, executed>>
    BY <1>3 DEF Refuse, pushVars
  <2>2. request' = request /\ plan' = plan /\ pc' = pc /\ db' = db /\ executed' = executed
    BY <2>1 DEF vars
  <2>3. IInv'
    BY <2>1, IInvStep DEF PushInv
  <2>4. \A was : DataKept(was)' = DataKept(was)
    BY <2>2 DEF DataKept, HasColumnNow, NoneRemade, Executed, NameNow, StatementOf, From, To, Had, Difference
  <2> QED
    BY <2>2, <2>3, <2>4 DEF PushInv
<1> QED
  BY <1>1, <1>2, <1>3 DEF PushNext

\* Without --unsafe-drop no statement, however the push ends, takes anything from the
\* database (pipeline.go:56): no table, column, constraint, index, view, sequence,
\* extension, type or label is lost, and only ALTER ... COLLATE changes a type.
THEOREM DataIsKept == PushSpec => []KeepsData
<1>1. PushInv => KeepsData
  <2> SUFFICES ASSUME PushInv, ~request.unsafeDrop PROVE NothingLost(request.database)
    BY DEF KeepsData
  <2>1. IsDatabase(request.database) /\ DataKept(request.database)
    BY DatabaseAssumption DEF PushInv
  <2> QED
    BY <2>1, KeepsNothingLost
<1> QED
  BY <1>1, PushInvInit, PushInvStep, PTL DEF PushSpec

----------------------------------------------------------------------------
(* A database stays whole: tables.                                         *)

\* Of fewer columns, or of more, the same can be said.
LEMMA OnMoreColumns ==
  ASSUME NEW C, NEW D, C \subseteq D
  PROVE  /\ \A k : IsConstraint(k, C) => IsConstraint(k, D)
         /\ \A x : IsIndex(x, C) => IsIndex(x, D)
BY DEF IsConstraint, IsIndex

LEMMA TableParts ==
  ASSUME NEW x, IsWholeTable(x), NEW y, Fields \subseteq DOMAIN y,
         IsNamed(y.columns), IsNamed(y.constraints), IsNamed(y.indexes),
         \A c \in DOMAIN y.columns : "type" \in DOMAIN y.columns[c],
         \A k \in DOMAIN y.constraints :
           /\ IsConstraint(y.constraints[k], DOMAIN y.columns)
           /\ k \in DOMAIN x.constraints /\ y.constraints[k].type = x.constraints[k].type,
         \A n \in DOMAIN y.indexes : IsIndex(y.indexes[n], DOMAIN y.columns) /\ n \in DOMAIN x.indexes
  PROVE  IsWholeTable(y) /\ IndexNames(y) \subseteq IndexNames(x)
<1>1. KeysOf(y) \subseteq KeysOf(x)
  BY DEF KeysOf, IsKey
<1>2. DOMAIN y.indexes \subseteq DOMAIN x.indexes
  OBVIOUS
<1>3. DOMAIN x.indexes \cap KeysOf(x) = {}
  BY DEF IsWholeTable
<1> QED
  BY <1>1, <1>2, <1>3 DEF IsWholeTable, Fields, IndexNames

\* Its columns are others, or more.
LEMMA TableColumns ==
  ASSUME NEW x, IsWholeTable(x), NEW columns, IsNamed(columns), DOMAIN x.columns \subseteq DOMAIN columns,
         \A c \in DOMAIN columns : "type" \in DOMAIN columns[c],
         NEW y, y = [x EXCEPT !.columns = columns]
  PROVE  IsWholeTable(y) /\ IndexNames(y) \subseteq IndexNames(x)
<1>1. Fields \subseteq DOMAIN x
  BY DEF IsWholeTable, Fields
<1>2. /\ Fields \subseteq DOMAIN y
      /\ y.columns = columns /\ y.constraints = x.constraints /\ y.indexes = x.indexes
  BY <1>1 DEF Fields
<1>3. /\ IsNamed(x.constraints) /\ IsNamed(x.indexes)
      /\ \A k \in DOMAIN x.constraints : IsConstraint(x.constraints[k], DOMAIN columns)
      /\ \A n \in DOMAIN x.indexes : IsIndex(x.indexes[n], DOMAIN columns)
  BY OnMoreColumns DEF IsWholeTable
<1> QED
  BY <1>2, <1>3, TableParts

LEMMA TableTightened ==
  ASSUME NEW x, IsWholeTable(x)
  PROVE  IsWholeTable(Tightened(x)) /\ IndexNames(Tightened(x)) \subseteq IndexNames(x)
<1> DEFINE columns == [c \in DOMAIN x.columns |->
                         IF \E k \in Range(x.constraints) : k.type = "primary_key" /\ c \in On(k)
                         THEN [x.columns[c] EXCEPT !.nullable = FALSE] ELSE x.columns[c]]
<1>1. Tightened(x) = [x EXCEPT !.columns = columns]
  BY DEF Tightened
<1>2. DOMAIN columns = DOMAIN x.columns /\ \A c \in DOMAIN columns : DOMAIN columns[c] = DOMAIN x.columns[c]
  OBVIOUS
<1> HIDE DEF columns
<1>3. IsNamed(columns) /\ \A c \in DOMAIN columns : "type" \in DOMAIN columns[c]
  BY <1>2 DEF IsWholeTable, IsNamed
<1> QED
  BY <1>1, <1>2, <1>3, TableColumns

\* A key, or a constraint that is no key, is added.
LEMMA TableConstraint ==
  ASSUME NEW x, IsWholeTable(x), NEW n \in NameSet, NEW k, IsConstraint(k, DOMAIN x.columns),
         IsKey(k) => n \notin IndexNames(x), n \notin DOMAIN x.constraints
  PROVE  LET y == WithConstraint(x, n, k) IN
         /\ IsWholeTable(y)
         /\ IndexNames(y) \subseteq IndexNames(x) \cup (IF IsKey(k) THEN {n} ELSE {})
<1> DEFINE more == With(x.constraints, n, k)
           y == [x EXCEPT !.constraints = more]
<1>1. WithConstraint(x, n, k) = Tightened(y)
  BY DEF WithConstraint
<1>2. /\ \A m : m \in DOMAIN more <=> m \in DOMAIN x.constraints \/ m = n
      /\ more[n] = k /\ \A m \in DOMAIN x.constraints : more[m] = x.constraints[m]
  BY WithFacts
<1> HIDE DEF more
<1>3. Fields \subseteq DOMAIN x
  BY DEF IsWholeTable, Fields
<1>4. /\ Fields \subseteq DOMAIN y
      /\ y.columns = x.columns /\ y.constraints = more /\ y.indexes = x.indexes
  BY <1>3 DEF Fields
<1> HIDE DEF y
<1>5. \A m : m \in KeysOf(y) <=> m \in KeysOf(x) \/ (m = n /\ IsKey(k))
  BY <1>2, <1>4 DEF KeysOf
<1>6. /\ IsNamed(more) /\ IsNamed(x.columns) /\ IsNamed(x.indexes)
      /\ \A m \in DOMAIN more : IsConstraint(more[m], DOMAIN x.columns)
  BY <1>2 DEF IsWholeTable, IsNamed, NameSet
<1>7. IsWholeTable(y)
  <2>1. DOMAIN y.indexes \cap KeysOf(y) = {}
    BY <1>4, <1>5 DEF IsWholeTable, IndexNames
  <2> QED
    BY <1>4, <1>6, <2>1 DEF IsWholeTable, Fields
<1>8. IndexNames(y) \subseteq IndexNames(x) \cup (IF IsKey(k) THEN {n} ELSE {})
  BY <1>4, <1>5 DEF IndexNames
<1>9. IsWholeTable(Tightened(y)) /\ IndexNames(Tightened(y)) \subseteq IndexNames(y)
  BY <1>7, TableTightened
<1> QED
  BY <1>1, <1>8, <1>9

LEMMA TableIndex ==
  ASSUME NEW x, IsWholeTable(x), NEW n \in NameSet, NEW index, IsIndex(index, DOMAIN x.columns),
         n \notin IndexNames(x), NEW y, y = [x EXCEPT !.indexes = With(@, n, index)]
  PROVE  IsWholeTable(y) /\ IndexNames(y) \subseteq IndexNames(x) \cup {n}
<1> DEFINE more == With(x.indexes, n, index)
<1>1. y = [x EXCEPT !.indexes = more]
  OBVIOUS
<1>2. /\ \A m : m \in DOMAIN more <=> m \in DOMAIN x.indexes \/ m = n
      /\ more[n] = index /\ \A m \in DOMAIN x.indexes : m # n => more[m] = x.indexes[m]
  BY WithFacts
<1> HIDE DEF more
<1>3. Fields \subseteq DOMAIN x
  BY DEF IsWholeTable, Fields
<1>4. /\ Fields \subseteq DOMAIN y
      /\ y.columns = x.columns /\ y.constraints = x.constraints /\ y.indexes = more
  BY <1>1, <1>3 DEF Fields
<1>5. KeysOf(y) = KeysOf(x)
  BY <1>4 DEF KeysOf
<1>6. /\ IsNamed(more) /\ \A m \in DOMAIN more : IsIndex(more[m], DOMAIN x.columns)
      /\ DOMAIN more \cap KeysOf(x) = {}
  BY <1>2 DEF IsWholeTable, IsNamed, NameSet, IndexNames
<1> QED
  BY <1>2, <1>4, <1>5, <1>6 DEF IsWholeTable, Fields, IndexNames

\* What is left when constraints, or indexes, are taken away.
LEMMA TableFewer ==
  ASSUME NEW x, IsWholeTable(x), NEW n, NEW y,
         y \in {[x EXCEPT !.constraints = Without(@, n)], [x EXCEPT !.indexes = Without(@, n)]}
  PROVE  IsWholeTable(y) /\ IndexNames(y) \subseteq IndexNames(x)
<1>1. Fields \subseteq DOMAIN x
  BY DEF IsWholeTable, Fields
<1>2. /\ Fields \subseteq DOMAIN y /\ y.columns = x.columns
      /\ y.constraints \in {x.constraints, Without(x.constraints, n)}
      /\ y.indexes \in {x.indexes, Without(x.indexes, n)}
  BY <1>1 DEF Fields
<1>3. /\ DOMAIN y.constraints \subseteq DOMAIN x.constraints /\ DOMAIN y.indexes \subseteq DOMAIN x.indexes
      /\ \A k \in DOMAIN y.constraints : y.constraints[k] = x.constraints[k]
      /\ \A k \in DOMAIN y.indexes : y.indexes[k] = x.indexes[k]
  BY <1>2 DEF Without
<1> QED
  BY <1>2, <1>3, TableParts DEF IsWholeTable, IsNamed

LEMMA TableWithoutColumn ==
  ASSUME NEW x, IsWholeTable(x), NEW c
  PROVE  IsWholeTable(WithoutColumn(x, c)) /\ IndexNames(WithoutColumn(x, c)) \subseteq IndexNames(x)
<1> DEFINE y == WithoutColumn(x, c)
<1>1. /\ Fields \subseteq DOMAIN y /\ y.columns = Without(x.columns, c)
      /\ y.constraints = RestrictDomain(x.constraints, LAMBDA k : c \notin On(x.constraints[k]))
      /\ y.indexes = RestrictDomain(x.indexes, LAMBDA n : c \notin Range(x.indexes[n].columns))
  BY DEF WithoutColumn, Fields
<1> HIDE DEF y
<1>2. /\ DOMAIN y.columns = DOMAIN x.columns \ {c}
      /\ \A d \in DOMAIN y.columns : y.columns[d] = x.columns[d]
  BY <1>1 DEF Without
<1>3. \A k \in DOMAIN y.constraints : /\ k \in DOMAIN x.constraints /\ y.constraints[k] = x.constraints[k]
                                      /\ c \notin On(x.constraints[k])
  BY <1>1 DEF RestrictDomain, Restrict
<1>4. \A n \in DOMAIN y.indexes : /\ n \in DOMAIN x.indexes /\ y.indexes[n] = x.indexes[n]
                                  /\ c \notin Range(x.indexes[n].columns)
  BY <1>1 DEF RestrictDomain, Restrict
<1>5. \A k \in DOMAIN y.constraints : IsConstraint(y.constraints[k], DOMAIN y.columns)
  BY <1>2, <1>3 DEF IsWholeTable, IsConstraint
<1>6. \A n \in DOMAIN y.indexes : IsIndex(y.indexes[n], DOMAIN y.columns)
  BY <1>2, <1>4 DEF IsWholeTable, IsIndex
<1>7. /\ IsNamed(y.columns) /\ IsNamed(y.constraints) /\ IsNamed(y.indexes)
      /\ \A d \in DOMAIN y.columns : "type" \in DOMAIN y.columns[d]
  BY <1>2, <1>3, <1>4 DEF IsWholeTable, IsNamed
<1> QED
  BY <1>1, <1>3, <1>4, <1>5, <1>6, <1>7, TableParts DEF y

\* Where a column is renamed: in a list of columns, and in a constraint.
LEMMA FollowAllFacts ==
  ASSUME NEW V, NEW list \in Seq(V), NEW old, NEW new \in V
  PROVE  /\ FollowAll(list, old, new) \in Seq(V)
         /\ \A C : Range(list) \subseteq C => Range(FollowAll(list, old, new)) \subseteq (C \ {old}) \cup {new}
         /\ Range(list) # {} => Range(FollowAll(list, old, new)) # {}
<1>1. /\ Len(list) \in Nat /\ DOMAIN list = 1..Len(list)
      /\ \A n \in 1..Len(list) : list[n] \in V
  OBVIOUS
<1> DEFINE more == FollowAll(list, old, new)
<1>2. DOMAIN more = DOMAIN list /\ \A n \in DOMAIN list : more[n] = IF list[n] = old THEN new ELSE list[n]
  BY DEF FollowAll
<1>3. more = [n \in 1..Len(list) |-> more[n]]
  BY <1>1 DEF FollowAll
<1> HIDE DEF more
<1>4. more \in Seq(V)
  BY <1>1, <1>2, <1>3
<1>5. \A C : Range(list) \subseteq C => Range(more) \subseteq (C \ {old}) \cup {new}
  BY <1>2 DEF Range
<1>6. Range(list) # {} => Range(more) # {}
  BY <1>2 DEF Range
<1> QED
  BY <1>4, <1>5, <1>6 DEF more

LEMMA FollowOwnFacts ==
  ASSUME NEW C, NEW k, IsConstraint(k, C), NEW old, NEW new \in STRING
  PROVE  LET l == FollowOwn(k, old, new) IN IsConstraint(l, (C \ {old}) \cup {new}) /\ l.type = k.type
<1> DEFINE l == FollowOwn(k, old, new)
           columns == FollowAll(k.columns, old, new)
           was == k.expression
           expression == [n \in DOMAIN was |-> IF n = 1 /\ was[n] = old THEN new ELSE was[n]]
<1>1. /\ k.columns \in Seq(STRING) /\ was \in Seq(STRING)
      /\ {"type", "columns", "ref", "expression"} \subseteq DOMAIN k
  BY DEF IsConstraint
<1>2. l = [k EXCEPT !.columns = columns, !.expression = expression]
  BY DEF FollowOwn
<1>3. /\ expression \in Seq(STRING) /\ (was # <<>> => expression # <<>>)
      /\ was # <<>> => expression[1] = IF was[1] = old THEN new ELSE was[1]
  <2> HIDE DEF was
  <2>1. /\ Len(was) \in Nat /\ DOMAIN was = 1..Len(was)
        /\ \A n \in 1..Len(was) : was[n] \in STRING
    BY <1>1
  <2>2. /\ DOMAIN expression = 1..Len(was) /\ expression = [n \in 1..Len(was) |-> expression[n]]
        /\ \A n \in 1..Len(was) : expression[n] = IF n = 1 /\ was[n] = old THEN new ELSE was[n]
    BY <2>1
  <2> HIDE DEF expression
  <2>3. \A n \in 1..Len(was) : expression[n] \in STRING
    BY <2>1, <2>2
  <2>4. expression \in Seq(STRING)
    BY <2>1, <2>2, <2>3
  <2>5. was # <<>> => 1 \in 1..Len(was)
    BY <1>1
  <2>6. was # <<>> => expression # <<>>
    BY <2>2, <2>5
  <2> QED
    BY <2>2, <2>4, <2>5, <2>6
<1>4. /\ columns \in Seq(STRING)
      /\ \A D : Range(k.columns) \subseteq D => Range(columns) \subseteq (D \ {old}) \cup {new}
      /\ Range(k.columns) # {} => Range(columns) # {}
  BY <1>1, FollowAllFacts
<1> HIDE DEF columns, expression, l
<1>5. /\ DOMAIN l = DOMAIN k /\ l.type = k.type /\ l.ref = k.ref
      /\ l.columns = columns /\ l.expression = expression
  BY <1>1, <1>2
<1>6. On(l) # {} /\ On(l) \subseteq (C \ {old}) \cup {new}
  <2>1. On(k) # {} /\ On(k) \subseteq C /\ (k.type = "check" => k.expression # <<>>)
    BY DEF IsConstraint
  <2>2. CASE k.type = "check"
    <3>1. On(l) = {IF was[1] = old THEN new ELSE was[1]} /\ On(k) = {was[1]}
      BY <1>3, <1>5, <2>1, <2>2 DEF On
    <3> QED
      BY <2>1, <3>1
  <2>3. CASE k.type # "check"
    <3>1. On(l) = Range(columns) /\ On(k) = Range(k.columns)
      BY <1>5, <2>3 DEF On
    <3> QED
      BY <1>4, <2>1, <3>1
  <2> QED
    BY <2>2, <2>3
<1>7. IsConstraint(l, (C \ {old}) \cup {new}) /\ l.type = k.type
  BY <1>3, <1>4, <1>5, <1>6 DEF IsConstraint
<1> QED
  BY <1>7 DEF l

LEMMA FollowIndexFacts ==
  ASSUME NEW C, NEW x, IsIndex(x, C), NEW old, NEW new \in STRING
  PROVE  IsIndex(FollowIndex(x, old, new), (C \ {old}) \cup {new})
<1> DEFINE more == FollowAll(x.columns, old, new)
           y == FollowIndex(x, old, new)
<1>1. /\ more \in Seq(STRING) /\ Range(more) # {}
      /\ Range(more) \subseteq (C \ {old}) \cup {new}
  <2>1. x.columns \in Seq(STRING) /\ Range(x.columns) # {} /\ Range(x.columns) \subseteq C
    BY DEF IsIndex
  <2>2. /\ more \in Seq(STRING) /\ (Range(x.columns) # {} => Range(more) # {})
        /\ \A D : Range(x.columns) \subseteq D => Range(more) \subseteq (D \ {old}) \cup {new}
    BY <2>1, FollowAllFacts
  <2> QED
    BY <2>1, <2>2
<1>2. y = [x EXCEPT !.columns = more]
  BY DEF FollowIndex
<1> HIDE DEF more, y
<1>3. "columns" \in DOMAIN y /\ y.columns = more
  BY <1>2 DEF IsIndex
<1>4. IsIndex(y, (C \ {old}) \cup {new})
  BY <1>1, <1>3 DEF IsIndex
<1> QED
  BY <1>4 DEF y

LEMMA TableRenamed ==
  ASSUME NEW x, IsWholeTable(x), NEW old \in DOMAIN x.columns, NEW new \in NameSet
  PROVE  IsWholeTable(RenamedIn(x, old, new)) /\ IndexNames(RenamedIn(x, old, new)) \subseteq IndexNames(x)
<1> DEFINE y == RenamedIn(x, old, new)
           C == (DOMAIN x.columns \ {old}) \cup {new}
           rest == Without(x.columns, old)
           columns == With(rest, new, x.columns[old])
<1>1. /\ DOMAIN y = Fields /\ y.columns = columns
      /\ y.constraints = [k \in DOMAIN x.constraints |-> FollowOwn(x.constraints[k], old, new)]
      /\ y.indexes = [n \in DOMAIN x.indexes |-> FollowIndex(x.indexes[n], old, new)]
  BY DEF RenamedIn, Fields
<1>2. new \in STRING
  BY NameFacts DEF Text
<1>3. DOMAIN columns = C /\ \A c \in DOMAIN columns : "type" \in DOMAIN columns[c]
  <2>1. DOMAIN rest = DOMAIN x.columns \ {old} /\ \A c \in DOMAIN rest : rest[c] = x.columns[c]
    BY DEF Without
  <2> HIDE DEF rest
  <2>2. /\ \A c : c \in DOMAIN columns <=> c \in DOMAIN rest \/ c = new
        /\ columns[new] = x.columns[old] /\ \A c \in DOMAIN rest : c # new => columns[c] = rest[c]
    BY WithFacts
  <2> HIDE DEF columns
  <2> QED
    BY <2>1, <2>2 DEF IsWholeTable
<1>4. \A k \in DOMAIN x.constraints :
        LET l == FollowOwn(x.constraints[k], old, new) IN IsConstraint(l, C) /\ l.type = x.constraints[k].type
  <2> TAKE k \in DOMAIN x.constraints
  <2> DEFINE was == x.constraints[k]
             D == DOMAIN x.columns
             l == FollowOwn(was, old, new)
  <2>1. IsConstraint(was, D)
    BY DEF IsWholeTable
  <2> HIDE DEF was, D
  <2>2. IsConstraint(l, (D \ {old}) \cup {new}) /\ l.type = was.type
    BY <1>2, <2>1, FollowOwnFacts
  <2> HIDE DEF l
  <2> QED
    BY <2>2 DEF was, D, l
<1>5. \A n \in DOMAIN x.indexes : IsIndex(FollowIndex(x.indexes[n], old, new), C)
  <2> TAKE n \in DOMAIN x.indexes
  <2> DEFINE index == x.indexes[n]
             D == DOMAIN x.columns
  <2>1. IsIndex(index, D)
    BY DEF IsWholeTable
  <2> HIDE DEF index, D
  <2>2. IsIndex(FollowIndex(index, old, new), (D \ {old}) \cup {new})
    BY <1>2, <2>1, FollowIndexFacts
  <2> QED
    BY <2>2 DEF index, D
<1> HIDE DEF columns, y
<1>6. IsNamed(y.columns) /\ IsNamed(y.constraints) /\ IsNamed(y.indexes)
  BY <1>1, <1>3 DEF IsWholeTable, IsNamed, NameSet
<1>7. /\ DOMAIN y.columns = C /\ \A c \in DOMAIN y.columns : "type" \in DOMAIN y.columns[c]
  BY <1>1, <1>3
<1>8. \A k \in DOMAIN y.constraints : /\ IsConstraint(y.constraints[k], C) /\ k \in DOMAIN x.constraints
                                      /\ y.constraints[k].type = x.constraints[k].type
  BY <1>1, <1>4
<1>9. \A n \in DOMAIN y.indexes : IsIndex(y.indexes[n], C) /\ n \in DOMAIN x.indexes
  BY <1>1, <1>5
<1> HIDE DEF C
<1> QED
  BY <1>1, <1>6, <1>7, <1>8, <1>9, TableParts DEF y

LEMMA TableFollows ==
  ASSUME NEW x, IsWholeTable(x), NEW s, NEW t, NEW old, NEW new \in STRING
  PROVE  /\ IsWholeTable(FollowingTable(x, s, t, old, new))
         /\ IndexNames(FollowingTable(x, s, t, old, new)) \subseteq IndexNames(x)
<1> DEFINE more == [k \in DOMAIN x.constraints |-> FollowingKey(x.constraints[k], s, t, old, new)]
           y == FollowingTable(x, s, t, old, new)
           C == DOMAIN x.columns
<1>1. y = [x EXCEPT !.constraints = more]
  BY DEF FollowingTable
<1>2. ASSUME NEW k, IsConstraint(k, C)
      PROVE  LET l == FollowingKey(k, s, t, old, new) IN IsConstraint(l, C) /\ l.type = k.type
  <2> DEFINE columns == FollowAll(k.ref.columns, old, new)
             l == FollowingKey(k, s, t, old, new)
  <2>1. CASE ~Refers(k, s, t)
    BY <1>2, <2>1 DEF FollowingKey
  <2>2. CASE Refers(k, s, t)
    <3>1. l = [k EXCEPT !.ref.columns = columns]
      BY <2>2 DEF FollowingKey
    <3>2. columns \in Seq(STRING)
      BY <1>2, FollowAllFacts DEF IsConstraint
    <3> HIDE DEF columns, l
    <3>3. /\ {"type", "columns", "ref", "expression"} \subseteq DOMAIN k
          /\ {"schema", "table", "columns", "actions"} \subseteq DOMAIN k.ref
      BY <1>2 DEF IsConstraint
    <3>4. /\ DOMAIN l = DOMAIN k /\ l.type = k.type /\ l.columns = k.columns /\ l.expression = k.expression
          /\ DOMAIN l.ref = DOMAIN k.ref /\ l.ref.schema = k.ref.schema /\ l.ref.table = k.ref.table
          /\ l.ref.columns = columns
      BY <3>1, <3>3
    <3>5. On(l) = On(k)
      BY <3>4 DEF On
    <3>6. IsConstraint(l, C) /\ l.type = k.type
      BY <1>2, <3>2, <3>4, <3>5 DEF IsConstraint
    <3> QED
      BY <3>6 DEF l
  <2> QED
    BY <2>1, <2>2
<1>3. /\ DOMAIN more = DOMAIN x.constraints
      /\ \A k \in DOMAIN more : IsConstraint(more[k], C) /\ more[k].type = x.constraints[k].type
  BY <1>2 DEF IsWholeTable
<1> HIDE DEF more, y
<1>4. Fields \subseteq DOMAIN x
  BY DEF IsWholeTable, Fields
<1>5. /\ Fields \subseteq DOMAIN y
      /\ y.columns = x.columns /\ y.constraints = more /\ y.indexes = x.indexes
  BY <1>1, <1>4 DEF Fields
<1>6. /\ IsNamed(y.columns) /\ IsNamed(y.constraints) /\ IsNamed(y.indexes)
      /\ \A c \in DOMAIN y.columns : "type" \in DOMAIN y.columns[c]
      /\ \A n \in DOMAIN y.indexes : IsIndex(y.indexes[n], DOMAIN y.columns) /\ n \in DOMAIN x.indexes
  BY <1>3, <1>5 DEF IsWholeTable, IsNamed
<1> QED
  BY <1>3, <1>5, <1>6, TableParts DEF y

----------------------------------------------------------------------------
(* A database stays whole: namespaces.                                     *)

\* Of each index name there is one table in a namespace that has it.
Apart(tables) ==
  \A t, u \in DOMAIN tables : IndexNames(tables[t]) \cap IndexNames(tables[u]) # {} => t = u

\* Other tables than before: those that were there have no index names that they had
\* not, but for the table t, and what that has is none of theirs.
LEMMA TablesApart ==
  ASSUME NEW x, Apart(x), NEW y, NEW t, NEW N,
         \A u \in DOMAIN x : IndexNames(x[u]) \cap N = {},
         \A u \in DOMAIN y : u # t => u \in DOMAIN x /\ IndexNames(y[u]) \subseteq IndexNames(x[u]),
         t \in DOMAIN y => IndexNames(y[t]) \subseteq (IF t \in DOMAIN x THEN IndexNames(x[t]) ELSE {}) \cup N
  PROVE  Apart(y)
<1> SUFFICES ASSUME NEW u \in DOMAIN y, NEW v \in DOMAIN y, NEW n,
                    n \in IndexNames(y[u]), n \in IndexNames(y[v]), u # v
             PROVE  FALSE
  BY DEF Apart
<1>1. CASE u # t /\ v # t
  BY <1>1 DEF Apart
<1>2. ASSUME NEW w \in DOMAIN y, w # t, n \in IndexNames(y[w]), t \in DOMAIN y, n \in IndexNames(y[t])
      PROVE  FALSE
  BY <1>2 DEF Apart
<1> QED
  BY <1>1, <1>2

LEMMA TablesWhole ==
  ASSUME NEW x, IsWholeNamespace(x), NEW tables, IsNamed(tables),
         \A t \in DOMAIN tables : IsWholeTable(tables[t]), Apart(tables),
         NEW y, y = [x EXCEPT !.tables = tables]
  PROVE  IsWholeNamespace(y)
<1>1. /\ Parts \subseteq DOMAIN y /\ y.tables = tables
      /\ \A part \in Parts : part # "tables" => y[part] = x[part]
  BY PartsAre DEF IsWholeNamespace, Parts
<1>2. /\ \A part \in Parts : IsNamed(y[part])
      /\ y.types = x.types /\ y.views = x.views /\ y.sequences = x.sequences
  BY <1>1, PartsAre DEF IsWholeNamespace, Parts
<1> QED
  BY <1>1, <1>2 DEF IsWholeNamespace, Parts, Apart

\* The parts other than the tables, and what is in them.
Others == {"types", "views", "sequences", "extensions"}
IsOf(part, contents) ==
  /\ part = "types" => IsType(contents)
  /\ part = "views" => IsView(contents)
  /\ part = "sequences" => IsSequence(contents)

LEMMA PartWhole ==
  ASSUME NEW x, IsWholeNamespace(x), NEW part \in Others, NEW contents, IsNamed(contents),
         \A n \in DOMAIN contents : IsOf(part, contents[n]), NEW y, y = [x EXCEPT ![part] = contents]
  PROVE  IsWholeNamespace(y)
<1>1. /\ Parts \subseteq DOMAIN y /\ y[part] = contents /\ y.tables = x.tables
      /\ \A other \in Parts : other # part => y[other] = x[other]
  BY PartsAre DEF IsWholeNamespace, Parts, Others
<1>2. \A other \in Parts : IsNamed(y[other])
  BY <1>1 DEF IsWholeNamespace, Parts
<1>3. \A other \in Others : \A n \in DOMAIN x[other] : IsOf(other, x[other][n])
  BY DEF IsWholeNamespace, Others, IsOf
<1>4. \A other \in Others : \A n \in DOMAIN y[other] : IsOf(other, y[other][n])
  BY <1>1, <1>3, PartsAre DEF Others
<1>5. /\ \A n \in DOMAIN y.types : IsType(y.types[n])
      /\ \A v \in DOMAIN y.views : IsView(y.views[v])
      /\ \A q \in DOMAIN y.sequences : IsSequence(y.sequences[q])
  BY <1>4 DEF Others, IsOf
<1> QED
  BY <1>1, <1>2, <1>5 DEF IsWholeNamespace, Parts

----------------------------------------------------------------------------
(* Databases.                                                              *)

LEMMA NamespaceWhole ==
  ASSUME NEW a, IsWhole(a), NEW s \in DOMAIN a, NEW ns, IsWholeNamespace(ns)
  PROVE  IsWhole([a EXCEPT ![s] = ns])
BY DEF IsWhole, IsNamed

LEMMA PartsWhole ==
  ASSUME NEW a, IsWhole(a), NEW s \in DOMAIN a, NEW part \in Others, NEW contents, IsNamed(contents),
         \A n \in DOMAIN contents : IsOf(part, contents[n])
  PROVE  IsWhole([a EXCEPT ![s][part] = contents])
<1> DEFINE ns == [a[s] EXCEPT ![part] = contents]
<1>1. IsWholeNamespace(a[s])
  BY DEF IsWhole
<1>2. IsWholeNamespace(ns)
  BY <1>1, PartWhole
<1> HIDE DEF ns
<1>3. IsWhole([a EXCEPT ![s] = ns])
  BY <1>2, NamespaceWhole
<1> QED
  BY <1>3 DEF ns

LEMMA AllTablesWhole ==
  ASSUME NEW a, IsWhole(a), NEW s \in DOMAIN a, NEW tables, IsNamed(tables),
         \A t \in DOMAIN tables : IsWholeTable(tables[t]), Apart(tables)
  PROVE  IsWhole([a EXCEPT ![s].tables = tables])
<1> DEFINE ns == [a[s] EXCEPT !.tables = tables]
<1>1. IsWholeNamespace(a[s])
  BY DEF IsWhole
<1>2. IsWholeNamespace(ns)
  BY <1>1, TablesWhole
<1> HIDE DEF ns
<1>3. IsWhole([a EXCEPT ![s] = ns])
  BY <1>2, NamespaceWhole
<1> QED
  BY <1>3 DEF ns

\* A table is another, with index names of N that no table of the namespace had.
LEMMA TableWhole ==
  ASSUME NEW a, IsWhole(a), NEW s, NEW t, HasTable(a, s, t), NEW N,
         \A u \in DOMAIN a[s].tables : IndexNames(a[s].tables[u]) \cap N = {},
         NEW y, IsWholeTable(y), IndexNames(y) \subseteq IndexNames(a[s].tables[t]) \cup N
  PROVE  IsWhole([a EXCEPT ![s].tables[t] = y])
<1> DEFINE x == a[s].tables
           tables == [x EXCEPT ![t] = y]
<1>1. s \in DOMAIN a /\ t \in DOMAIN x
  BY DEF HasTable
<1>2. IsNamed(x) /\ Apart(x) /\ \A u \in DOMAIN x : IsWholeTable(x[u])
  BY <1>1, PartsAre DEF IsWhole, IsWholeNamespace, Apart, Parts
<1>3. DOMAIN tables = DOMAIN x /\ tables[t] = y /\ \A u \in DOMAIN x : u # t => tables[u] = x[u]
  BY <1>1
<1> HIDE DEF x, tables
<1>4. \A u \in DOMAIN x : IndexNames(x[u]) \cap N = {}
  BY DEF x
<1>5. Apart(tables)
  <2>1. \A u \in DOMAIN tables : u # t => u \in DOMAIN x /\ IndexNames(tables[u]) \subseteq IndexNames(x[u])
    BY <1>3
  <2>2. IndexNames(tables[t]) \subseteq (IF t \in DOMAIN x THEN IndexNames(x[t]) ELSE {}) \cup N
    BY <1>1, <1>3 DEF x
  <2> QED
    BY <1>2, <1>4, <2>1, <2>2, TablesApart
<1>6. IsNamed(tables) /\ \A u \in DOMAIN tables : IsWholeTable(tables[u])
  BY <1>2, <1>3 DEF IsNamed
<1>7. IsWhole([a EXCEPT ![s].tables = tables])
  BY <1>1, <1>5, <1>6, AllTablesWhole
<1> QED
  BY <1>7 DEF tables, x

\* No index names are new.
LEMMA TableWholeStill ==
  ASSUME NEW a, IsWhole(a), NEW s, NEW t, HasTable(a, s, t),
         NEW y, IsWholeTable(y), IndexNames(y) \subseteq IndexNames(a[s].tables[t])
  PROVE  IsWhole([a EXCEPT ![s].tables[t] = y])
<1>1. /\ \A u \in DOMAIN a[s].tables : IndexNames(a[s].tables[u]) \cap {} = {}
      /\ IndexNames(y) \subseteq IndexNames(a[s].tables[t]) \cup {}
  OBVIOUS
<1> QED
  BY <1>1, TableWhole

----------------------------------------------------------------------------
(* Every statement that PostgreSQL accepts leaves it whole.                *)

\* A table that is there is whole, and a name that is not taken is no index's.
LEMMA ThereWhole ==
  ASSUME NEW a, IsWhole(a), NEW s, NEW t, HasTable(a, s, t)
  PROVE  /\ s \in DOMAIN a /\ t \in DOMAIN a[s].tables
         /\ IsWholeTable(a[s].tables[t])
BY DEF IsWhole, IsWholeNamespace, HasTable

LEMMA NotTaken ==
  ASSUME NEW a, NEW s, NEW n, ~Taken(a, s, n)
  PROVE  /\ n \notin DOMAIN a[s].tables
         /\ \A u \in DOMAIN a[s].tables : n \notin IndexNames(a[s].tables[u])
BY DEF Taken, IndexNames, Range

LEMMA CreateSchemaWhole ==
  ASSUME NEW a, IsWhole(a), NEW st, IsStatement(st), st.kind = "create_schema"
  PROVE  IsWhole(After(st, a))
<1> DEFINE b == WithNew(a, S(st), EmptyNamespace)
<1>1. After(st, a) = b
  BY DEF After, AlterKinds, Drops, S
<1>2. S(st) \in NameSet
  BY DEF IsStatement, S, NameSet
<1>3. IsWholeNamespace(EmptyNamespace)
  BY DEF IsWholeNamespace, EmptyNamespace, IsNamed
<1>4. /\ \A k : k \in DOMAIN b <=> k \in DOMAIN a \/ k = S(st)
      /\ \A k \in DOMAIN b : b[k] = a[k] \/ (k = S(st) /\ b[k] = EmptyNamespace)
  BY DEF WithNew, With
<1> HIDE DEF b
<1>5. \A k \in DOMAIN b : IsWholeNamespace(b[k])
  BY <1>3, <1>4 DEF IsWhole, WithNew, With, b
<1> QED
  BY <1>1, <1>2, <1>4, <1>5 DEF IsWhole, IsNamed, NameSet

LEMMA AddTableWhole ==
  ASSUME NEW a, IsWhole(a), NEW st, IsStatement(st), Accepts(st, a), st.kind = "add_table"
  PROVE  IsWhole(After(st, a))
<1> DEFINE s == S(st)
           t == P(st)[1]
           y == Tightened(st.says)
           x == a[s].tables
           tables == With(x, t, y)
<1>1. After(st, a) = [a EXCEPT ![s].tables = tables]
  BY DEF After, AlterKinds, Drops, S, P
<1>2. AcceptsTable(a, s, t, st.says) /\ s \in DOMAIN a
  BY DEF Accepts, AlterKinds, Drops, S, P
<1>3. IsWholeTable(st.says) /\ st.says.indexes = <<>> /\ t \in NameSet
  BY DEF IsStatement, P, NameSet
<1>4. IsWholeTable(y) /\ IndexNames(y) \subseteq KeysOf(st.says)
  BY <1>3, TableTightened DEF IndexNames
<1>5. /\ t \notin DOMAIN x
      /\ \A u \in DOMAIN x : IndexNames(x[u]) \cap KeysOf(st.says) = {}
  BY <1>2, NotTaken DEF AcceptsTable
<1>6. IsNamed(x) /\ Apart(x) /\ \A u \in DOMAIN x : IsWholeTable(x[u])
  BY <1>2, PartsAre DEF IsWhole, IsWholeNamespace, Apart, Parts
<1>7. /\ \A u : u \in DOMAIN tables <=> u \in DOMAIN x \/ u = t
      /\ tables[t] = y /\ \A u \in DOMAIN x : u # t => tables[u] = x[u]
  BY WithFacts
<1> HIDE DEF tables, x, y
<1>8. Apart(tables)
  <2> DEFINE N == KeysOf(st.says)
  <2>1. \A u \in DOMAIN tables : u # t => u \in DOMAIN x /\ IndexNames(tables[u]) \subseteq IndexNames(x[u])
    BY <1>7
  <2>2. IndexNames(tables[t]) \subseteq (IF t \in DOMAIN x THEN IndexNames(x[t]) ELSE {}) \cup N
    BY <1>4, <1>7
  <2> HIDE DEF N
  <2>3. \A u \in DOMAIN x : IndexNames(x[u]) \cap N = {}
    BY <1>5 DEF N
  <2> QED
    BY <1>6, <2>1, <2>2, <2>3, TablesApart
<1>9. IsNamed(tables) /\ \A u \in DOMAIN tables : IsWholeTable(tables[u])
  BY <1>3, <1>4, <1>6, <1>7 DEF IsNamed, NameSet
<1> HIDE DEF s
<1>10. IsWhole([a EXCEPT ![s].tables = tables])
  BY <1>2, <1>8, <1>9, AllTablesWhole
<1> QED
  BY <1>1, <1>10

LEMMA AddColumnWhole ==
  ASSUME NEW a, IsWhole(a), NEW st, IsStatement(st), Accepts(st, a), st.kind = "add_column"
  PROVE  IsWhole(After(st, a))
<1> DEFINE s == S(st)
           t == P(st)[1]
           x == a[s].tables[t]
           columns == With(x.columns, P(st)[2], st.says)
           y == [x EXCEPT !.columns = columns]
<1>1. After(st, a) = [a EXCEPT ![s].tables[t] = y]
  BY DEF After, AlterKinds, Drops, S, P
<1>2. HasTable(a, s, t)
  BY DEF Accepts, AlterKinds, Drops, S, P
<1>3. P(st)[2] \in NameSet /\ "type" \in DOMAIN st.says
  BY DEF IsStatement, P, NameSet
<1>4. IsWholeTable(x)
  BY <1>2, ThereWhole
<1>5. /\ \A c : c \in DOMAIN columns <=> c \in DOMAIN x.columns \/ c = P(st)[2]
      /\ columns[P(st)[2]] = st.says
      /\ \A c \in DOMAIN x.columns : c # P(st)[2] => columns[c] = x.columns[c]
  BY WithFacts
<1> HIDE DEF columns, x
<1>6. /\ IsNamed(columns) /\ DOMAIN x.columns \subseteq DOMAIN columns
      /\ \A c \in DOMAIN columns : "type" \in DOMAIN columns[c]
  BY <1>3, <1>4, <1>5 DEF IsWholeTable, IsNamed, NameSet
<1>7. IsWholeTable(y) /\ IndexNames(y) \subseteq IndexNames(x)
  BY <1>4, <1>6, TableColumns
<1> HIDE DEF y, s, t
<1>8. IsWhole([a EXCEPT ![s].tables[t] = y])
  BY <1>2, <1>7, TableWholeStill DEF x
<1> QED
  BY <1>1, <1>8

\* A change of a column keeps the fields it has.
LEMMA ChangedFields ==
  ASSUME NEW column, NEW st, st.kind \in AlterKinds \ {"rename_column"}
  PROVE  DOMAIN Changed(column, st) = DOMAIN column
<1>1. CASE st.kind \in {"alter_column_type", "alter_column_collation"}
  BY <1>1 DEF Changed
<1>2. CASE st.kind \in Tuning
  BY <1>2 DEF Changed, Tuning
<1> QED
  BY <1>1, <1>2 DEF AlterKinds, Tuning

LEMMA AlterColumnWhole ==
  ASSUME NEW a, IsWhole(a), NEW st, Accepts(st, a), st.kind \in AlterKinds \ {"rename_column"}
  PROVE  IsWhole(After(st, a))
<1> DEFINE s == S(st)
           t == P(st)[1]
           c == P(st)[2]
           x == a[s].tables[t]
           z == Changed(x.columns[c], st)
           columns == [x.columns EXCEPT ![c] = z]
           y == [x EXCEPT !.columns = columns]
<1>1. After(st, a) = [a EXCEPT ![s].tables[t] = y]
  BY DEF After, AlterKinds, Drops, S, P
<1>2. HasTable(a, s, t)
  BY DEF Accepts, AlterKinds, Drops, S, P, HasColumn
<1>3. IsWholeTable(x)
  BY <1>2, ThereWhole
<1>4. DOMAIN z = DOMAIN x.columns[c]
  BY ChangedFields
<1> HIDE DEF x, z
<1>5. DOMAIN columns = DOMAIN x.columns /\ \A d \in DOMAIN columns : DOMAIN columns[d] = DOMAIN x.columns[d]
  BY <1>4
<1> HIDE DEF columns
<1>6. /\ IsNamed(columns) /\ DOMAIN x.columns \subseteq DOMAIN columns
      /\ \A d \in DOMAIN columns : "type" \in DOMAIN columns[d]
  BY <1>3, <1>5 DEF IsWholeTable, IsNamed
<1>7. IsWholeTable(y) /\ IndexNames(y) \subseteq IndexNames(x)
  BY <1>3, <1>6, TableColumns
<1> HIDE DEF y, s, t
<1>8. IsWhole([a EXCEPT ![s].tables[t] = y])
  BY <1>2, <1>7, TableWholeStill DEF x
<1> QED
  BY <1>1, <1>8

LEMMA AddConstraintWhole ==
  ASSUME NEW a, IsWhole(a), NEW st, IsStatement(st), Accepts(st, a), st.kind = "add_constraint"
  PROVE  IsWhole(After(st, a))
<1> DEFINE s == S(st)
           t == P(st)[1]
           n == P(st)[2]
           k == st.says
           x == a[s].tables[t]
           y == WithConstraint(x, n, k)
           N == IF IsKey(k) THEN {n} ELSE {}
<1>1. After(st, a) = [a EXCEPT ![s].tables[t] = y]
  BY DEF After, AlterKinds, Drops, S, P
<1>2. /\ HasTable(a, s, t) /\ n \notin DOMAIN x.constraints
      /\ IsKey(k) => ~Taken(a, s, n)
      /\ ConstraintGood(a, s, t, x, k)
  BY DEF Accepts, AlterKinds, Drops, S, P
<1>3. n \in NameSet /\ IsConstraint(k, On(k))
  BY DEF IsStatement, P, NameSet
<1>4. IsWholeTable(x) /\ t \in DOMAIN a[s].tables
  BY <1>2, ThereWhole
<1>5. IsConstraint(k, DOMAIN x.columns)
  BY <1>2, <1>3, OnMoreColumns DEF ConstraintGood
<1>6. \A u \in DOMAIN a[s].tables : IndexNames(a[s].tables[u]) \cap N = {}
  BY <1>2, NotTaken
<1>7. IsKey(k) => n \notin IndexNames(x)
  BY <1>4, <1>6
<1> HIDE DEF x, n
<1>8. IsWholeTable(y) /\ IndexNames(y) \subseteq IndexNames(x) \cup N
  BY <1>2, <1>3, <1>4, <1>5, <1>7, TableConstraint
<1> HIDE DEF y, s, t, N
<1>9. IsWhole([a EXCEPT ![s].tables[t] = y])
  BY <1>2, <1>6, <1>8, TableWhole DEF x
<1> QED
  BY <1>1, <1>9

LEMMA AddIndexWhole ==
  ASSUME NEW a, IsWhole(a), NEW st, IsStatement(st), Accepts(st, a), st.kind = "add_index"
  PROVE  IsWhole(After(st, a))
<1> DEFINE s == S(st)
           t == st.says.table
           n == P(st)[1]
           x == a[s].tables[t]
           index == st.says.index
           y == [x EXCEPT !.indexes = With(@, n, index)]
           N == {n}
<1>1. After(st, a) = [a EXCEPT ![s].tables[t] = y]
  BY DEF After, AlterKinds, Drops, S, P
<1>2. /\ HasTable(a, s, t) /\ ~Taken(a, s, n)
      /\ Range(index.columns) \subseteq DOMAIN x.columns
  BY DEF Accepts, AlterKinds, Drops, S, P
<1>3. n \in NameSet /\ IsIndex(index, Range(index.columns))
  BY DEF IsStatement, P, NameSet
<1>4. IsWholeTable(x) /\ t \in DOMAIN a[s].tables
  BY <1>2, ThereWhole
<1>5. IsIndex(index, DOMAIN x.columns)
  BY <1>2, <1>3, OnMoreColumns
<1>6. \A u \in DOMAIN a[s].tables : IndexNames(a[s].tables[u]) \cap N = {}
  BY <1>2, NotTaken
<1>7. n \notin IndexNames(x)
  BY <1>4, <1>6
<1> HIDE DEF x, n, index
<1>8. IsWholeTable(y) /\ IndexNames(y) \subseteq IndexNames(x) \cup N
  BY <1>3, <1>4, <1>5, <1>7, TableIndex
<1> HIDE DEF y, s, t, N
<1>9. IsWhole([a EXCEPT ![s].tables[t] = y])
  BY <1>2, <1>6, <1>8, TableWhole DEF x
<1> QED
  BY <1>1, <1>9

\* A rename, in the table and in all that refers to it.
LEMMA FollowInWhole ==
  ASSUME NEW x, IsWholeNamespace(x), NEW s, NEW t, NEW old, NEW new \in STRING
  PROVE  IsWholeNamespace(FollowIn(x, s, t, old, new))
<1> DEFINE tables == [u \in DOMAIN x.tables |-> FollowingTable(x.tables[u], s, t, old, new)]
           views == [v \in DOMAIN x.views |-> FollowingView(x.views[v], s, t, old, new)]
           y == [x EXCEPT !.tables = tables]
<1>1. FollowIn(x, s, t, old, new) = [y EXCEPT !.views = views]
  BY PartsAre DEF FollowIn, IsWholeNamespace, Parts
<1>2. /\ \A u \in DOMAIN tables : IsWholeTable(tables[u]) /\ IndexNames(tables[u]) \subseteq IndexNames(x.tables[u])
      /\ DOMAIN tables = DOMAIN x.tables
  BY TableFollows DEF IsWholeNamespace
<1>3. /\ DOMAIN views = DOMAIN x.views
      /\ \A v \in DOMAIN views : DOMAIN views[v] = DOMAIN x.views[v]
                                 /\ views[v].materialized = x.views[v].materialized
  BY DEF FollowingView
<1> HIDE DEF tables, views
<1>4. IsNamed(x.tables) /\ IsNamed(x.views) /\ Apart(x.tables)
  BY PartsAre DEF IsWholeNamespace, Parts, Apart
<1>5. Apart(tables)
  BY <1>2, <1>4 DEF Apart
<1>6. IsWholeNamespace(y)
  BY <1>2, <1>4, <1>5, TablesWhole DEF IsNamed
<1> HIDE DEF y
<1>7. IsNamed(views) /\ \A v \in DOMAIN views : IsOf("views", views[v])
  BY <1>3, <1>4 DEF IsNamed, IsOf, IsView, IsWholeNamespace
<1>8. IsWholeNamespace([y EXCEPT !["views"] = views])
  BY <1>6, <1>7, PartWhole DEF Others
<1> QED
  BY <1>1, <1>8

LEMMA RenameWhole ==
  ASSUME NEW a, IsWhole(a), NEW st, IsStatement(st), Accepts(st, a), st.kind = "rename_column"
  PROVE  IsWhole(After(st, a))
<1> DEFINE s == S(st)
           t == P(st)[1]
           old == P(st)[2]
           new == st.says
           x == a[s].tables[t]
           y == RenamedIn(x, old, new)
           b == [a EXCEPT ![s].tables[t] = y]
<1>1. After(st, a) = FollowRename(a, s, t, old, new)
  BY DEF After, AlterKinds, Drops, S, P
<1>2. HasTable(a, s, t) /\ old \in DOMAIN x.columns
  BY DEF Accepts, AlterKinds, Drops, S, P, HasColumn
<1>3. new \in NameSet /\ new \in STRING
  BY NameFacts DEF IsStatement, NameSet, Text
<1>4. IsWholeTable(x)
  BY <1>2, ThereWhole
<1>5. FollowRename(a, s, t, old, new) = [n \in DOMAIN a |-> FollowIn(b[n], s, t, old, new)]
  BY DEF FollowRename
<1> HIDE DEF x, old, new
<1>6. IsWholeTable(y) /\ IndexNames(y) \subseteq IndexNames(x)
  BY <1>2, <1>3, <1>4, TableRenamed
<1> HIDE DEF y, s, t
<1>7. IsWhole(b)
  BY <1>2, <1>6, TableWholeStill DEF x
<1>8. DOMAIN b = DOMAIN a
  OBVIOUS
<1> HIDE DEF b
<1>9. \A n \in DOMAIN a : IsWholeNamespace(FollowIn(b[n], s, t, old, new))
  BY <1>3, <1>7, <1>8, FollowInWhole DEF IsWhole
<1> QED
  BY <1>1, <1>5, <1>7, <1>8, <1>9 DEF IsWhole, IsNamed

\* Something of a part other than the tables is taken away, put there, or changed.
LEMMA WithoutWhole ==
  ASSUME NEW a, IsWhole(a), NEW s \in DOMAIN a, NEW part \in Parts, NEW n
  PROVE  IsWhole([a EXCEPT ![s][part] = Without(@, n)])
<1> DEFINE x == a[s][part]
           contents == Without(x, n)
<1>1. /\ DOMAIN contents \subseteq DOMAIN x
      /\ \A m \in DOMAIN contents : contents[m] = x[m]
  BY DEF Without
<1>2. IsWholeNamespace(a[s]) /\ IsNamed(x)
  BY DEF IsWhole, IsWholeNamespace, Parts
<1> HIDE DEF contents
<1>3. IsNamed(contents)
  BY <1>1, <1>2 DEF IsNamed
<1>4. CASE part = "tables"
  <2>1. Apart(contents) /\ \A t \in DOMAIN contents : IsWholeTable(contents[t])
    BY <1>1, <1>2, <1>4 DEF IsWholeNamespace, Apart
  <2>2. IsWhole([a EXCEPT ![s].tables = contents])
    BY <1>3, <2>1, AllTablesWhole
  <2> QED
    BY <1>4, <2>2 DEF contents
<1>5. CASE part \in Others
  <2>1. \A m \in DOMAIN contents : IsOf(part, contents[m])
    BY <1>1, <1>2, <1>5 DEF IsWholeNamespace, IsOf
  <2>2. IsWhole([a EXCEPT ![s][part] = contents])
    BY <1>3, <1>5, <2>1, PartsWhole
  <2> QED
    BY <2>2 DEF contents
<1> QED
  BY <1>4, <1>5, PartsAre DEF Others

LEMMA WithWhole ==
  ASSUME NEW a, IsWhole(a), NEW s \in DOMAIN a, NEW part \in Others, NEW n \in NameSet, NEW e, IsOf(part, e)
  PROVE  /\ IsWhole([a EXCEPT ![s][part] = With(@, n, e)])
         /\ IsWhole([a EXCEPT ![s][part] = WithNew(@, n, e)])
<1> DEFINE x == a[s][part]
<1>1. part \in Parts
  BY PartsAre DEF Others
<1>2. IsNamed(x) /\ \A m \in DOMAIN x : IsOf(part, x[m])
  BY <1>1 DEF IsWhole, IsWholeNamespace, IsOf, Parts
<1>3. ASSUME NEW contents, contents \in {With(x, n, e), WithNew(x, n, e)}
      PROVE  IsWhole([a EXCEPT ![s][part] = contents])
  <2> HIDE DEF x
  <2>1. \A m \in DOMAIN contents : /\ m \in DOMAIN x \/ m = n
                                   /\ (m \in DOMAIN x /\ contents[m] = x[m]) \/ contents[m] = e
    BY <1>3 DEF With, WithNew
  <2>2. IsNamed(contents) /\ \A m \in DOMAIN contents : IsOf(part, contents[m])
    BY <1>2, <2>1 DEF IsNamed, NameSet
  <2> QED
    BY <2>2, PartsWhole
<1> DEFINE one == With(x, n, e)
           two == WithNew(x, n, e)
<1>4. one \in {With(x, n, e), WithNew(x, n, e)} /\ two \in {With(x, n, e), WithNew(x, n, e)}
  OBVIOUS
<1> HIDE DEF one, two
<1>5. IsWhole([a EXCEPT ![s][part] = one]) /\ IsWhole([a EXCEPT ![s][part] = two])
  BY <1>3, <1>4
<1> QED
  BY <1>5 DEF one, two

LEMMA ChangedPartWhole ==
  ASSUME NEW a, IsWhole(a), NEW s \in DOMAIN a, NEW part \in Others, NEW n \in DOMAIN a[s][part],
         NEW e, IsOf(part, e)
  PROVE  IsWhole([a EXCEPT ![s][part][n] = e])
<1> DEFINE x == a[s][part]
           contents == [x EXCEPT ![n] = e]
<1>1. part \in Parts
  BY PartsAre DEF Others
<1>2. IsNamed(x) /\ \A m \in DOMAIN x : IsOf(part, x[m])
  BY <1>1 DEF IsWhole, IsWholeNamespace, IsOf, Parts
<1>3. DOMAIN contents = DOMAIN x /\ \A m \in DOMAIN contents : contents[m] \in {x[m], e}
  OBVIOUS
<1> HIDE DEF contents, x
<1>4. IsNamed(contents) /\ \A m \in DOMAIN contents : IsOf(part, contents[m])
  BY <1>2, <1>3 DEF IsNamed
<1>5. IsWhole([a EXCEPT ![s][part] = contents])
  BY <1>4, PartsWhole
<1> QED
  BY <1>5 DEF contents, x

----------------------------------------------------------------------------
Making ==
  {"add_enum_type", "create_view", "create_materialized_view", "replace_view", "create_sequence",
   "create_extension"}

\* What statements put into the other parts.
LEMMA MakingWhole ==
  ASSUME NEW a, IsWhole(a), NEW st, IsStatement(st), Accepts(st, a), st.kind \in Making
  PROVE  IsWhole(After(st, a))
<1> DEFINE s == S(st)
           n == P(st)[1]
<1>1. s \in DOMAIN a
  BY DEF Accepts, AlterKinds, Drops, S, Making
<1>2. n \in NameSet
  BY DEF IsStatement, P, NameSet, Making
<1>3. CASE st.kind = "add_enum_type"
  <2>1. After(st, a) = [a EXCEPT ![s]["types"] = With(@, n, st.says)]
    BY <1>3 DEF After, AlterKinds, Drops, S, P
  <2>2. IsOf("types", st.says) /\ "types" \in Others
    BY <1>3 DEF IsStatement, IsOf, Others
  <2> HIDE DEF s, n
  <2>3. IsWhole([a EXCEPT ![s]["types"] = With(@, n, st.says)])
    BY <1>1, <1>2, <2>2, WithWhole
  <2> QED
    BY <2>1, <2>3
<1>4. CASE st.kind \in {"create_view", "create_materialized_view", "replace_view"}
  <2>1. After(st, a) = [a EXCEPT ![s]["views"] = With(@, n, st.says)]
    BY <1>4 DEF After, AlterKinds, Drops, S, P
  <2>2. IsOf("views", st.says) /\ "views" \in Others
    BY <1>4 DEF IsStatement, IsOf, Others
  <2> HIDE DEF s, n
  <2>3. IsWhole([a EXCEPT ![s]["views"] = With(@, n, st.says)])
    BY <1>1, <1>2, <2>2, WithWhole
  <2> QED
    BY <2>1, <2>3
<1>5. CASE st.kind = "create_sequence"
  <2> DEFINE e == [st.says EXCEPT !.increment = IF @ = 0 THEN 1 ELSE @]
  <2>1. After(st, a) = [a EXCEPT ![s]["sequences"] = With(@, n, e)]
    BY <1>5 DEF After, AlterKinds, Drops, S, P
  <2>2. IsOf("sequences", e) /\ "sequences" \in Others
    BY <1>5 DEF IsStatement, IsOf, Others, IsSequence
  <2> HIDE DEF s, n, e
  <2>3. IsWhole([a EXCEPT ![s]["sequences"] = With(@, n, e)])
    BY <1>1, <1>2, <2>2, WithWhole
  <2> QED
    BY <2>1, <2>3
<1>6. CASE st.kind = "create_extension"
  <2>1. After(st, a) = [a EXCEPT ![s]["extensions"] = WithNew(@, n, st.says)]
    BY <1>6 DEF After, AlterKinds, Drops, S, P
  <2>2. IsOf("extensions", st.says) /\ "extensions" \in Others
    BY <1>6 DEF IsOf, Others
  <2> HIDE DEF s, n
  <2>3. IsWhole([a EXCEPT ![s]["extensions"] = WithNew(@, n, st.says)])
    BY <1>1, <1>2, <2>2, WithWhole
  <2> QED
    BY <2>1, <2>3
<1> QED
  BY <1>3, <1>4, <1>5, <1>6 DEF Making

\* What they change there.
LEMMA PartChangedWhole ==
  ASSUME NEW a, IsWhole(a), NEW st, IsStatement(st), Accepts(st, a),
         st.kind \in {"add_enum_label", "alter_sequence", "alter_extension_update"}
  PROVE  IsWhole(After(st, a))
<1> DEFINE s == S(st)
           n == P(st)[1]
<1>1. s \in DOMAIN a
  BY DEF Accepts, AlterKinds, Drops, S
<1>2. IsWholeNamespace(a[s])
  BY <1>1 DEF IsWhole
<1>3. CASE st.kind = "add_enum_label"
  <2> DEFINE x == a[s].types[n]
             e == Append(x, P(st)[2])
  <2>1. After(st, a) = [a EXCEPT ![s]["types"][n] = e]
    BY <1>3 DEF After, AlterKinds, Drops, S, P
  <2>2. n \in DOMAIN a[s]["types"] /\ P(st)[2] \notin Range(x)
    BY <1>3 DEF Accepts, AlterKinds, Drops, S, P
  <2>3. IsType(x) /\ P(st)[2] \in STRING
    BY <1>2, <1>3, <2>2 DEF IsWholeNamespace, IsStatement, P
  <2>4. IsOf("types", e) /\ "types" \in Others
    <3> HIDE DEF x
    <3>1. e \in Seq(STRING)
      BY <2>3 DEF IsType
    <3>2. IsInjective(e)
      BY <2>2, <2>3 DEF IsType, IsInjective, Range
    <3> QED
      BY <3>1, <3>2 DEF IsType, IsOf, Others
  <2> HIDE DEF s, n, e
  <2>5. IsWhole([a EXCEPT ![s]["types"][n] = e])
    BY <1>1, <2>2, <2>4, ChangedPartWhole
  <2> QED
    BY <2>1, <2>5
<1>4. CASE st.kind = "alter_sequence"
  <2> DEFINE x == a[s].sequences[n]
             e == [option \in DOMAIN x |-> IF option \in DOMAIN st.says THEN st.says[option] ELSE x[option]]
  <2>1. After(st, a) = [a EXCEPT ![s]["sequences"][n] = e]
    BY <1>4 DEF After, AlterKinds, Drops, S, P
  <2>2. n \in DOMAIN a[s]["sequences"]
    BY <1>4 DEF Accepts, AlterKinds, Drops, S, P
  <2>3. IsOf("sequences", e) /\ "sequences" \in Others
    BY <1>2, <2>2 DEF IsWholeNamespace, IsSequence, IsOf, Others
  <2> HIDE DEF s, n, e
  <2>4. IsWhole([a EXCEPT ![s]["sequences"][n] = e])
    BY <1>1, <2>2, <2>3, ChangedPartWhole
  <2> QED
    BY <2>1, <2>4
<1>5. CASE st.kind = "alter_extension_update"
  <2>1. After(st, a) = [a EXCEPT ![s]["extensions"] = With(@, n, st.says)]
    BY <1>5 DEF After, AlterKinds, Drops, S, P
  <2>2. n \in DOMAIN a[s]["extensions"]
    BY <1>5 DEF Accepts, AlterKinds, Drops, S, P
  <2>3. n \in NameSet
    BY <1>2, <2>2, PartsAre DEF IsWholeNamespace, IsNamed, Parts, NameSet
  <2>4. IsOf("extensions", st.says) /\ "extensions" \in Others
    BY <1>5 DEF IsOf, Others
  <2> HIDE DEF s, n
  <2>5. IsWhole([a EXCEPT ![s]["extensions"] = With(@, n, st.says)])
    BY <1>1, <2>3, <2>4, WithWhole
  <2> QED
    BY <2>1, <2>5
<1> QED
  BY <1>3, <1>4, <1>5

\* What statements take away.
LEMMA DropWhole ==
  ASSUME NEW a, IsWhole(a), NEW st, Accepts(st, a), st.kind \in Drops
  PROVE  IsWhole(After(st, a))
<1> DEFINE s == S(st)
           n == P(st)[1]
           c == P(st)[2]
           x == a[s].tables[n]
<1>1. After(st, a) = AfterDrop(a, s, P(st), st.kind)
  BY DEF After, AlterKinds, Drops, S, P
<1>2. st.kind # "drop_schema" => s \in DOMAIN a
  BY DEF Accepts, Drops, S
<1>3. st.kind \in {"drop_column", "drop_constraint"} => HasTable(a, s, n)
  BY DEF Accepts, AlterKinds, Drops, AcceptsDrop, S, P
<1>4. CASE st.kind \in {"drop_table", "drop_view", "drop_materialized_view", "drop_enum_type",
                        "drop_extension", "drop_sequence"}
  <2>1. PICK part \in Parts : AfterDrop(a, s, P(st), st.kind) = [a EXCEPT ![s][part] = Without(@, n)]
    <3>1. CASE st.kind = "drop_table"
      BY <3>1, PartsAre DEF AfterDrop
    <3>2. CASE st.kind \in {"drop_view", "drop_materialized_view"}
      BY <3>2, PartsAre DEF AfterDrop
    <3>3. CASE st.kind = "drop_enum_type"
      BY <3>3, PartsAre DEF AfterDrop
    <3>4. CASE st.kind = "drop_extension"
      BY <3>4, PartsAre DEF AfterDrop
    <3>5. CASE st.kind = "drop_sequence"
      BY <3>5, PartsAre DEF AfterDrop
    <3> QED
      BY <1>4, <3>1, <3>2, <3>3, <3>4, <3>5
  <2>2. s \in DOMAIN a
    BY <1>2, <1>4
  <2> HIDE DEF s, n
  <2>3. IsWhole([a EXCEPT ![s][part] = Without(@, n)])
    BY <2>2, WithoutWhole
  <2> QED
    BY <1>1, <2>1, <2>3
<1>5. CASE st.kind = "drop_column"
  <2> DEFINE y == WithoutColumn(x, c)
  <2>1. AfterDrop(a, s, P(st), st.kind) = [a EXCEPT ![s].tables[n] = y]
    BY <1>5 DEF AfterDrop
  <2>2. IsWholeTable(x)
    BY <1>3, <1>5, ThereWhole
  <2> HIDE DEF x
  <2>3. IsWholeTable(y) /\ IndexNames(y) \subseteq IndexNames(x)
    BY <2>2, TableWithoutColumn
  <2> HIDE DEF y, s, n
  <2>4. IsWhole([a EXCEPT ![s].tables[n] = y])
    BY <1>3, <1>5, <2>3, TableWholeStill DEF x
  <2> QED
    BY <1>1, <2>1, <2>4
<1>6. CASE st.kind = "drop_constraint"
  <2> DEFINE y == [x EXCEPT !.constraints = Without(@, c)]
  <2>1. AfterDrop(a, s, P(st), st.kind) = [a EXCEPT ![s].tables[n] = y]
    BY <1>6 DEF AfterDrop
  <2>2. IsWholeTable(x)
    BY <1>3, <1>6, ThereWhole
  <2> HIDE DEF x, c
  <2>3. IsWholeTable(y) /\ IndexNames(y) \subseteq IndexNames(x)
    BY <2>2, TableFewer
  <2> HIDE DEF y, s, n
  <2>4. IsWhole([a EXCEPT ![s].tables[n] = y])
    BY <1>3, <1>6, <2>3, TableWholeStill DEF x
  <2> QED
    BY <1>1, <2>1, <2>4
<1>7. CASE st.kind = "drop_index"
  <2> DEFINE was == a[s].tables
             tables == [t \in DOMAIN was |-> WithoutIndex(was[t], n)]
  <2>1. AfterDrop(a, s, P(st), st.kind) = [a EXCEPT ![s].tables = tables]
    BY <1>7 DEF AfterDrop
  <2>2. s \in DOMAIN a
    BY <1>2, <1>7
  <2>3. IsNamed(was) /\ Apart(was) /\ \A t \in DOMAIN was : IsWholeTable(was[t])
    BY <2>2, PartsAre DEF IsWhole, IsWholeNamespace, Apart, Parts
  <2> HIDE DEF was
  <2>4. DOMAIN tables = DOMAIN was /\ \A t \in DOMAIN was : tables[t] = [was[t] EXCEPT !.indexes = Without(@, n)]
    BY DEF WithoutIndex
  <2> HIDE DEF tables, s, n
  <2>5. \A t \in DOMAIN tables : IsWholeTable(tables[t]) /\ IndexNames(tables[t]) \subseteq IndexNames(was[t])
    <3> TAKE t \in DOMAIN tables
    <3> DEFINE table == was[t]
               less == [table EXCEPT !.indexes = Without(@, n)]
    <3>1. tables[t] = less /\ IsWholeTable(table)
      BY <2>3, <2>4
    <3> HIDE DEF table
    <3>2. IsWholeTable(less) /\ IndexNames(less) \subseteq IndexNames(table)
      BY <3>1, TableFewer
    <3> QED
      BY <3>1, <3>2 DEF table
  <2>6. IsNamed(tables) /\ Apart(tables)
    BY <2>3, <2>4, <2>5 DEF IsNamed, Apart
  <2>7. IsWhole([a EXCEPT ![s].tables = tables])
    BY <2>2, <2>5, <2>6, AllTablesWhole
  <2> QED
    BY <1>1, <2>1, <2>7
<1>8. CASE st.kind = "drop_schema"
  <2>1. AfterDrop(a, s, P(st), st.kind) = Without(a, s)
    BY <1>8 DEF AfterDrop
  <2>2. IsWhole(Without(a, s))
    BY DEF IsWhole, IsNamed, Without
  <2> QED
    BY <1>1, <2>1, <2>2
<1> QED
  BY <1>4, <1>5, <1>6, <1>7, <1>8 DEF Drops

LEMMA StaysWhole ==
  ASSUME NEW a, IsWhole(a), NEW st, IsStatement(st), Accepts(st, a)
  PROVE  IsWhole(After(st, a))
<1> DEFINE makes == {"create_schema", "add_table", "add_column", "rename_column", "add_constraint", "add_index"}
           changes == {"add_enum_label", "alter_sequence", "alter_extension_update"}
<1>1. CASE st.kind \in makes
  BY <1>1, CreateSchemaWhole, AddTableWhole, AddColumnWhole, RenameWhole, AddConstraintWhole, AddIndexWhole
<1>2. CASE st.kind \in AlterKinds \ {"rename_column"}
  BY <1>2, AlterColumnWhole
<1>3. CASE st.kind \in Drops
  BY <1>3, DropWhole
<1>4. CASE st.kind \in Making
  BY <1>4, MakingWhole
<1>5. CASE st.kind \in changes
  BY <1>5, PartChangedWhole
<1>6. CASE st.kind \notin makes \cup AlterKinds \cup Drops \cup Making \cup changes
  <2>1. After(st, a) = a
    BY <1>6 DEF After, AlterKinds, Making
  <2> QED
    BY <2>1
<1> QED
  BY <1>1, <1>2, <1>3, <1>4, <1>5, <1>6

----------------------------------------------------------------------------
(* What the queries make of whole databases.                               *)

\* What a namespace has, if it is there.
LEMMA PartOfWhole ==
  ASSUME NEW a, IsWhole(a), NEW s
  PROVE  /\ \A part \in Parts : IsNamed(PartOf(a, s, part))
         /\ Apart(PartOf(a, s, "tables"))
         /\ \A t \in DOMAIN PartOf(a, s, "tables") : IsWholeTable(PartOf(a, s, "tables")[t])
         /\ \A part \in Others : \A n \in DOMAIN PartOf(a, s, part) : IsOf(part, PartOf(a, s, part)[n])
<1>1. CASE s \in DOMAIN a
  <2>1. IsWholeNamespace(a[s])
    BY <1>1 DEF IsWhole
  <2>2. \A part : PartOf(a, s, part) = a[s][part]
    BY <1>1 DEF PartOf
  <2> QED
    BY <2>1, <2>2, PartsAre DEF IsWholeNamespace, Parts, Apart, IsOf, Others
<1>2. CASE s \notin DOMAIN a
  <2>1. \A part : PartOf(a, s, part) = <<>>
    BY <1>2 DEF PartOf
  <2> QED
    BY <2>1 DEF IsNamed, Apart
<1> QED
  BY <1>1, <1>2

\* What the queries for the contents of the tables find.
FoundKeys(a, s) ==
  LET all == ConstraintsIn(a, s, {"primary_key", "unique", "check"})
  IN  [t \in DOMAIN all |-> [k \in DOMAIN all[t] |-> ReadConstraint(all[t][k])]]

FoundForeignKeys(a, s) ==
  LET all == ConstraintsIn(a, s, {"foreign_key"})
  IN  [t \in DOMAIN all |-> [k \in DOMAIN all[t] |-> ReadForeignKey(all[t][k])]]

FoundIndexes(a, s) ==
  LET there == PartOf(a, s, "tables")
      unique == ConstraintsIn(a, s, {"unique"})
  IN  [t \in DOMAIN there |->
         Merged(there[t].indexes,
                [k \in DOMAIN unique[t] |-> [columns |-> unique[t][k].columns, method |-> "btree"]])]

LEMMA LoadingIs ==
  ASSUME NEW tables, NEW a, NEW s
  PROVE  /\ loadConstraints(tables, a, s) = Attach(tables, "constraints", FoundKeys(a, s))
         /\ loadForeignKeys(tables, a, s) = Attach(tables, "constraints", FoundForeignKeys(a, s))
         /\ loadIndexes(tables, a, s) = Attach(tables, "indexes", FoundIndexes(a, s))
BY DEF loadConstraints, loadForeignKeys, loadIndexes, FoundKeys, FoundForeignKeys, FoundIndexes

\* A query has found something of this name for the table.
Has(found, t, n) == t \in DOMAIN found /\ n \in DOMAIN found[t]

LEMMA ConstraintsInFacts ==
  ASSUME NEW a, NEW s, NEW types
  PROVE  LET tables == PartOf(a, s, "tables")
             all == ConstraintsIn(a, s, types)
         IN  /\ DOMAIN all = DOMAIN tables
             /\ \A t \in DOMAIN tables : \A n :
                  n \in DOMAIN all[t] <=> n \in DOMAIN tables[t].constraints /\ tables[t].constraints[n].type \in types
             /\ \A t \in DOMAIN tables : \A n \in DOMAIN all[t] : all[t][n] = tables[t].constraints[n]
BY DEF ConstraintsIn, RestrictDomain, Restrict

LEMMA FoundFacts ==
  ASSUME NEW a, NEW s, NEW t, NEW n
  PROVE  LET tables == PartOf(a, s, "tables")
             k == tables[t].constraints[n]
             IsThere(types) == t \in DOMAIN tables /\ n \in DOMAIN tables[t].constraints /\ k.type \in types
         IN  /\ Has(FoundKeys(a, s), t, n) <=> IsThere({"primary_key", "unique", "check"})
             /\ Has(FoundKeys(a, s), t, n) => FoundKeys(a, s)[t][n] = ReadConstraint(k)
             /\ Has(FoundForeignKeys(a, s), t, n) <=> IsThere({"foreign_key"})
             /\ Has(FoundForeignKeys(a, s), t, n) => FoundForeignKeys(a, s)[t][n] = ReadForeignKey(k)
BY ConstraintsInFacts DEF Has, FoundKeys, FoundForeignKeys

UniqueIn(table, n) == n \in DOMAIN table.constraints /\ table.constraints[n].type = "unique"

LEMMA FoundIndexesFacts ==
  ASSUME NEW a, NEW s, NEW t, NEW n
  PROVE  LET table == PartOf(a, s, "tables")[t]
             found == FoundIndexes(a, s)
         IN  /\ Has(found, t, n) <=>
                  t \in DOMAIN PartOf(a, s, "tables") /\ (n \in DOMAIN table.indexes \/ UniqueIn(table, n))
             /\ Has(found, t, n) /\ n \in DOMAIN table.indexes => found[t][n] = table.indexes[n]
             /\ Has(found, t, n) /\ n \notin DOMAIN table.indexes =>
                  found[t][n] = [columns |-> table.constraints[n].columns, method |-> "btree"]
<1> DEFINE tables == PartOf(a, s, "tables")
           unique == ConstraintsIn(a, s, {"unique"})
           more == [k \in DOMAIN unique[t] |-> [columns |-> unique[t][k].columns, method |-> "btree"]]
           found == FoundIndexes(a, s)
           k == tables[t].constraints[n]
           IsUnique == UniqueIn(tables[t], n)
<1>1. DOMAIN found = DOMAIN tables /\ (t \in DOMAIN tables => found[t] = Merged(tables[t].indexes, more))
  BY DEF FoundIndexes
<1>2. t \in DOMAIN tables => /\ n \in DOMAIN unique[t] <=> IsUnique
                             /\ n \in DOMAIN unique[t] => unique[t][n] = k
  BY ConstraintsInFacts DEF UniqueIn
<1>3. /\ DOMAIN more = DOMAIN unique[t]
      /\ n \in DOMAIN unique[t] => more[n] = [columns |-> unique[t][n].columns, method |-> "btree"]
  OBVIOUS
<1> HIDE DEF found, more, tables, unique
<1>5. /\ Has(found, t, n) <=> t \in DOMAIN tables /\ (n \in DOMAIN tables[t].indexes \/ IsUnique)
      /\ Has(found, t, n) /\ n \in DOMAIN tables[t].indexes => found[t][n] = tables[t].indexes[n]
      /\ Has(found, t, n) /\ n \notin DOMAIN tables[t].indexes =>
           found[t][n] = [columns |-> k.columns, method |-> "btree"]
  <2> DEFINE f == tables[t].indexes
  <2>1. CASE t \notin DOMAIN tables
    BY <1>1, <2>1 DEF Has
  <2>2. CASE t \in DOMAIN tables
    <3> HIDE DEF k
    <3>1. found[t] = Merged(f, more) /\ (Has(found, t, n) <=> n \in DOMAIN found[t])
      BY <1>1, <2>2 DEF Has
    <3>2. n \in DOMAIN more <=> IsUnique
      BY <1>2, <1>3, <2>2 DEF k
    <3>3. n \in DOMAIN more => more[n] = [columns |-> k.columns, method |-> "btree"]
      BY <1>2, <1>3, <2>2
    <3> HIDE DEF IsUnique, f
    <3>4. /\ DOMAIN found[t] = DOMAIN f \cup DOMAIN more
          /\ n \in DOMAIN f \cup DOMAIN more => found[t][n] = IF n \in DOMAIN f THEN f[n] ELSE more[n]
      BY <3>1 DEF Merged
    <3>5. /\ Has(found, t, n) <=> n \in DOMAIN f \/ IsUnique
          /\ Has(found, t, n) => found[t][n] = IF n \in DOMAIN f THEN f[n] ELSE [columns |-> k.columns, method |-> "btree"]
      BY <3>1, <3>2, <3>3, <3>4
    <3> QED
      BY <2>2, <3>5 DEF f, k, IsUnique
  <2> QED
    BY <2>1, <2>2
<1> QED
  BY <1>5 DEF found, tables

\* It is put where it belongs, and nothing else is touched.
LEMMA AttachFacts ==
  ASSUME NEW tables, NEW part \in Fields, NEW found, NEW t \in DOMAIN tables, Fields \subseteq DOMAIN tables[t]
  PROVE  LET all == Attach(tables, part, found) IN
         /\ DOMAIN all = DOMAIN tables /\ Fields \subseteq DOMAIN all[t]
         /\ \A other \in Fields : other # part => all[t][other] = tables[t][other]
         /\ \A n : n \in DOMAIN all[t][part] <=> Has(found, t, n) \/ n \in DOMAIN tables[t][part]
         /\ \A n : Has(found, t, n) => all[t][part][n] = found[t][n]
         /\ \A n : ~Has(found, t, n) /\ n \in DOMAIN tables[t][part] => all[t][part][n] = tables[t][part][n]
<1> DEFINE all == Attach(tables, part, found)
           more == Merged(found[t], tables[t][part])
<1>1. /\ DOMAIN all = DOMAIN tables
      /\ all[t] = IF t \in DOMAIN found THEN [tables[t] EXCEPT ![part] = more] ELSE tables[t]
  BY DEF Attach
<1>2. /\ \A n : n \in DOMAIN more <=> n \in DOMAIN found[t] \/ n \in DOMAIN tables[t][part]
      /\ \A n \in DOMAIN found[t] : more[n] = found[t][n]
      /\ \A n : n \notin DOMAIN found[t] /\ n \in DOMAIN tables[t][part] => more[n] = tables[t][part][n]
  BY DEF Merged
<1> HIDE DEF more, all
<1>3. /\ Fields \subseteq DOMAIN all[t] /\ \A other \in Fields : other # part => all[t][other] = tables[t][other]
      /\ all[t][part] = IF t \in DOMAIN found THEN more ELSE tables[t][part]
  BY <1>1
<1>4. /\ \A n : n \in DOMAIN all[t][part] <=> Has(found, t, n) \/ n \in DOMAIN tables[t][part]
      /\ \A n : Has(found, t, n) => all[t][part][n] = found[t][n]
      /\ \A n : ~Has(found, t, n) /\ n \in DOMAIN tables[t][part] => all[t][part][n] = tables[t][part][n]
  BY <1>2, <1>3 DEF Has
<1> QED
  BY <1>1, <1>3, <1>4 DEF all

\* The tables after the first query, and after the second, the third and the fourth,
\* each on a database of its own.
TablesOne(p, s) == loadTables(p[1], s)
TablesTwo(p, s) == loadConstraints(TablesOne(p, s), p[2], s)
TablesThree(p, s) == loadForeignKeys(TablesTwo(p, s), p[3], s)
TablesFour(p, s) == loadIndexes(TablesThree(p, s), p[4], s)

LEMMA TablesReadFacts ==
  ASSUME NEW p, NEW s
  PROVE  LET was == PartOf(p[1], s, "tables")
             read == TablesFour(p, s)
             keys == FoundKeys(p[2], s)
             foreign == FoundForeignKeys(p[3], s)
             indexes == FoundIndexes(p[4], s)
         IN  /\ \A t : t \in DOMAIN read <=> t \in DOMAIN was /\ was[t].columns # <<>>
             /\ \A t \in DOMAIN read :
                  /\ DOMAIN read[t].columns = DOMAIN was[t].columns
                  /\ \A c \in DOMAIN was[t].columns : read[t].columns[c] = ReadColumn(was[t].columns[c])
                  /\ \A n : n \in DOMAIN read[t].constraints <=> Has(keys, t, n) \/ Has(foreign, t, n)
                  /\ \A n : Has(foreign, t, n) => read[t].constraints[n] = foreign[t][n]
                  /\ \A n : Has(keys, t, n) /\ ~Has(foreign, t, n) => read[t].constraints[n] = keys[t][n]
                  /\ \A n : n \in DOMAIN read[t].indexes <=> Has(indexes, t, n)
                  /\ \A n : Has(indexes, t, n) => read[t].indexes[n] = indexes[t][n]
<1> DEFINE was == PartOf(p[1], s, "tables")
           one == TablesOne(p, s)
           two == TablesTwo(p, s)
           three == TablesThree(p, s)
           read == TablesFour(p, s)
           keys == FoundKeys(p[2], s)
           foreign == FoundForeignKeys(p[3], s)
           indexes == FoundIndexes(p[4], s)
<1>1. /\ two = Attach(one, "constraints", keys) /\ three = Attach(two, "constraints", foreign)
      /\ read = Attach(three, "indexes", indexes)
  BY LoadingIs DEF TablesTwo, TablesThree, TablesFour
<1>2. /\ \A t : t \in DOMAIN one <=> t \in DOMAIN was /\ was[t].columns # <<>>
      /\ \A t \in DOMAIN one :
           /\ Fields \subseteq DOMAIN one[t] /\ one[t].constraints = <<>> /\ one[t].indexes = <<>>
           /\ DOMAIN one[t].columns = DOMAIN was[t].columns
           /\ \A c \in DOMAIN was[t].columns : one[t].columns[c] = ReadColumn(was[t].columns[c])
  BY DEF TablesOne, loadTables, Fields
<1>3. DOMAIN two = DOMAIN one /\ DOMAIN three = DOMAIN two /\ DOMAIN read = DOMAIN three
  BY <1>1 DEF Attach
<1> HIDE DEF one, two, three, read, keys, foreign, indexes, was
<1>4. ASSUME NEW t \in DOMAIN read
      PROVE  /\ read[t].columns = one[t].columns
             /\ \A n : n \in DOMAIN read[t].constraints <=> Has(keys, t, n) \/ Has(foreign, t, n)
             /\ \A n : Has(foreign, t, n) => read[t].constraints[n] = foreign[t][n]
             /\ \A n : Has(keys, t, n) /\ ~Has(foreign, t, n) => read[t].constraints[n] = keys[t][n]
             /\ \A n : n \in DOMAIN read[t].indexes <=> Has(indexes, t, n)
             /\ \A n : Has(indexes, t, n) => read[t].indexes[n] = indexes[t][n]
  <2>0. {"constraints", "indexes", "columns"} \subseteq Fields
    BY DEF Fields
  <2>1. /\ Fields \subseteq DOMAIN two[t] /\ two[t].columns = one[t].columns /\ two[t].indexes = <<>>
        /\ \A n : n \in DOMAIN two[t].constraints <=> Has(keys, t, n)
        /\ \A n : Has(keys, t, n) => two[t].constraints[n] = keys[t][n]
    BY <1>1, <1>2, <1>3, <1>4, <2>0, AttachFacts
  <2>2. /\ Fields \subseteq DOMAIN three[t] /\ three[t].columns = one[t].columns /\ three[t].indexes = <<>>
        /\ \A n : n \in DOMAIN three[t].constraints <=> Has(keys, t, n) \/ Has(foreign, t, n)
        /\ \A n : Has(foreign, t, n) => three[t].constraints[n] = foreign[t][n]
        /\ \A n : Has(keys, t, n) /\ ~Has(foreign, t, n) => three[t].constraints[n] = keys[t][n]
    BY <1>1, <1>3, <1>4, <2>0, <2>1, AttachFacts
  <2>3. /\ read[t].columns = one[t].columns /\ read[t].constraints = three[t].constraints
        /\ \A n : n \in DOMAIN read[t].indexes <=> Has(indexes, t, n)
        /\ \A n : Has(indexes, t, n) => read[t].indexes[n] = indexes[t][n]
    BY <1>1, <1>3, <1>4, <2>0, <2>2, AttachFacts
  <2> QED
    BY <2>2, <2>3
<1>5. /\ \A t : t \in DOMAIN read <=> t \in DOMAIN was /\ was[t].columns # <<>>
      /\ \A t \in DOMAIN read :
           /\ DOMAIN read[t].columns = DOMAIN was[t].columns
           /\ \A c \in DOMAIN was[t].columns : read[t].columns[c] = ReadColumn(was[t].columns[c])
  BY <1>2, <1>3, <1>4
<1> QED
  BY <1>4, <1>5 DEF read, keys, foreign, indexes, was

----------------------------------------------------------------------------
(* What has been read of a namespace.                                      *)

\* After the first n - 1 queries, the k-th of them on the database p[k].
Reads(ns, s, n, p) ==
  /\ DOMAIN ns = Parts
  /\ ns.tables = CASE n = 1 -> <<>>
                   [] n = 2 -> TablesOne(p, s)
                   [] n = 3 -> TablesTwo(p, s)
                   [] n = 4 -> TablesThree(p, s)
                   [] OTHER -> TablesFour(p, s)
  /\ ns.types = IF n > 5 THEN loadEnumTypes(p[5], s) ELSE <<>>
  /\ ns.views = IF n > 6 THEN loadViews(p[6], s) ELSE <<>>
  /\ ns.sequences = IF n > 7 THEN loadSequences(p[7], s) ELSE <<>>
  /\ ns.extensions = IF n > 8 THEN loadExtensions(p[8], s) ELSE <<>>

\* On databases of M.
WasRead(ns, s, n, M) == \E p \in [1..8 -> M] : Reads(ns, s, n, p)

LEMMA WasReadOfMore ==
  ASSUME NEW ns, NEW s, NEW n, NEW M, WasRead(ns, s, n, M), NEW N, M \subseteq N
  PROVE  WasRead(ns, s, n, N)
<1>1. PICK p \in [1..8 -> M] : Reads(ns, s, n, p)
  BY DEF WasRead
<1>2. p \in [1..8 -> N]
  OBVIOUS
<1> QED
  BY <1>1, <1>2 DEF WasRead

LEMMA NothingRead ==
  ASSUME NEW s, NEW M, M # {}
  PROVE  WasRead(EmptyNamespace, s, 1, M)
<1>1. PICK d \in M : TRUE
  OBVIOUS
<1>2. [k \in 1..8 |-> d] \in [1..8 -> M]
  OBVIOUS
<1>3. \A p : Reads(EmptyNamespace, s, 1, p)
  BY DEF Reads, Parts, EmptyNamespace
<1> QED
  BY <1>2, <1>3 DEF WasRead

LEMMA QueriesAre ==
  /\ Queries[1] = "tables" /\ Queries[2] = "constraints" /\ Queries[3] = "foreign keys"
  /\ Queries[4] = "indexes" /\ Queries[5] = "types" /\ Queries[6] = "views"
  /\ Queries[7] = "sequences" /\ Queries[8] = "extensions" /\ Len(Queries) = 8
BY DEF Queries

\* One query more.
LEMMA QueryReads ==
  ASSUME NEW ns, NEW s, NEW n \in 1..8, NEW M, WasRead(ns, s, n, M), NEW d \in M
  PROVE  WasRead(Read(Queries[n], ns, d, s), s, n + 1, M)
<1>1. PICK p \in [1..8 -> M] : Reads(ns, s, n, p)
  BY DEF WasRead
<1> DEFINE q == [p EXCEPT ![n] = d]
           r == Read(Queries[n], ns, d, s)
<1>2. q \in [1..8 -> M] /\ q[n] = d /\ \A k \in 1..8 : k # n => q[k] = p[k]
  OBVIOUS
<1> HIDE DEF q
<1>3. \A k \in 1..8 : k < n => q[k] = p[k]
  BY <1>2
<1>4. /\ n > 1 => TablesOne(q, s) = TablesOne(p, s)
      /\ n > 2 => TablesTwo(q, s) = TablesTwo(p, s)
      /\ n > 3 => TablesThree(q, s) = TablesThree(p, s)
      /\ n > 4 => TablesFour(q, s) = TablesFour(p, s)
  <2>1. /\ n > 1 => q[1] = p[1]
        /\ n > 2 => q[2] = p[2]
        /\ n > 3 => q[3] = p[3]
        /\ n > 4 => q[4] = p[4]
    BY <1>3
  <2> QED
    BY <2>1 DEF TablesOne, TablesTwo, TablesThree, TablesFour
<1>5. /\ n > 5 => q[5] = p[5]
      /\ n > 6 => q[6] = p[6]
      /\ n > 7 => q[7] = p[7]
  BY <1>3
<1>6. DOMAIN ns = {"tables", "types", "views", "sequences", "extensions"}
  BY <1>1, PartsAre DEF Reads
<1>7. Reads(r, s, n + 1, q)
  <2>1. CASE n = 1
    <3>1. r = [ns EXCEPT !.tables = TablesOne(q, s)]
      BY <1>2, <2>1, QueriesAre DEF Read, TablesOne
    <3> HIDE DEF r
    <3> QED
      BY <1>1, <1>6, <2>1, <3>1 DEF Reads
  <2>2. CASE n = 2
    <3>0. ns.tables = TablesOne(q, s)
      BY <1>1, <1>4, <2>2 DEF Reads
    <3>1. r = [ns EXCEPT !.tables = TablesTwo(q, s)]
      BY <1>2, <2>2, <3>0, QueriesAre DEF Read, TablesTwo
    <3> HIDE DEF r
    <3> QED
      BY <1>1, <1>6, <2>2, <3>1 DEF Reads
  <2>3. CASE n = 3
    <3>0. ns.tables = TablesTwo(q, s)
      BY <1>1, <1>4, <2>3 DEF Reads
    <3>1. r = [ns EXCEPT !.tables = TablesThree(q, s)]
      BY <1>2, <2>3, <3>0, QueriesAre DEF Read, TablesThree
    <3> HIDE DEF r
    <3> QED
      BY <1>1, <1>6, <2>3, <3>1 DEF Reads
  <2>4. CASE n = 4
    <3>0. ns.tables = TablesThree(q, s)
      BY <1>1, <1>4, <2>4 DEF Reads
    <3>1. r = [ns EXCEPT !.tables = TablesFour(q, s)]
      BY <1>2, <2>4, <3>0, QueriesAre DEF Read, TablesFour
    <3> HIDE DEF r
    <3> QED
      BY <1>1, <1>6, <2>4, <3>1 DEF Reads
  <2>5. CASE n = 5
    <3>1. r = [ns EXCEPT !.types = loadEnumTypes(q[5], s)]
      BY <1>2, <2>5, QueriesAre DEF Read
    <3> HIDE DEF r
    <3> QED
      BY <1>1, <1>4, <1>6, <2>5, <3>1 DEF Reads
  <2>6. CASE n = 6
    <3>1. r = [ns EXCEPT !.views = loadViews(q[6], s)]
      BY <1>2, <2>6, QueriesAre DEF Read
    <3> HIDE DEF r
    <3> QED
      BY <1>1, <1>4, <1>5, <1>6, <2>6, <3>1 DEF Reads
  <2>7. CASE n = 7
    <3>1. r = [ns EXCEPT !.sequences = loadSequences(q[7], s)]
      BY <1>2, <2>7, QueriesAre DEF Read
    <3> HIDE DEF r
    <3> QED
      BY <1>1, <1>4, <1>5, <1>6, <2>7, <3>1 DEF Reads
  <2>8. CASE n = 8
    <3>1. r = [ns EXCEPT !.extensions = loadExtensions(q[8], s)]
      BY <1>2, <2>8, QueriesAre DEF Read
    <3> HIDE DEF r
    <3> QED
      BY <1>1, <1>4, <1>5, <1>6, <2>8, <3>1 DEF Reads
  <2> QED
    BY <2>1, <2>2, <2>3, <2>4, <2>5, <2>6, <2>7, <2>8
<1> QED
  BY <1>2, <1>7 DEF WasRead

\* All that has been read, of databases that are whole, is what ComputeDiff may be
\* called with: a key that is read from one database and the table it is on from
\* another are both of them named and shaped as they should be.
LEMMA ReadIsNamespace ==
  ASSUME NEW ns, NEW s, NEW M, WasRead(ns, s, 9, M), \A d \in M : IsWhole(d)
  PROVE  /\ IsNamespace(ns)
         /\ \A t, u \in DOMAIN ns.tables : DOMAIN ns.tables[t].indexes \cap DOMAIN ns.tables[u].indexes # {} => t = u
<1>1. PICK p \in [1..8 -> M] : Reads(ns, s, 9, p)
  BY DEF WasRead
<1>2. /\ IsWhole(p[1]) /\ IsWhole(p[2]) /\ IsWhole(p[3]) /\ IsWhole(p[4])
      /\ IsWhole(p[5]) /\ IsWhole(p[6]) /\ IsWhole(p[7]) /\ IsWhole(p[8])
  OBVIOUS
<1>3. /\ ns.tables = TablesFour(p, s) /\ ns.types = loadEnumTypes(p[5], s) /\ ns.views = loadViews(p[6], s)
      /\ ns.sequences = loadSequences(p[7], s) /\ ns.extensions = loadExtensions(p[8], s)
  BY <1>1 DEF Reads
<1>4. IsNamed(ns.types) /\ \A n \in DOMAIN ns.types : IsType(ns.types[n])
  <2> DEFINE types == PartOf(p[5], s, "types")
  <2>1. IsNamed(types) /\ \A n \in DOMAIN types : IsType(types[n])
    BY <1>2, PartOfWhole, PartsAre DEF Others, IsOf
  <2>2. /\ DOMAIN ns.types \subseteq DOMAIN types
        /\ \A n \in DOMAIN ns.types : ns.types[n] = types[n]
    BY <1>3 DEF loadEnumTypes, RestrictDomain, Restrict
  <2> QED
    BY <2>1, <2>2 DEF IsNamed
<1>5. IsNamed(ns.views) /\ \A v \in DOMAIN ns.views : IsView(ns.views[v])
  BY <1>2, <1>3, PartOfWhole, PartsAre DEF loadViews, Others, IsOf
<1>6. IsNamed(ns.sequences) /\ IsNamed(ns.extensions)
  <2>1. IsNamed(PartOf(p[7], s, "sequences")) /\ IsNamed(PartOf(p[8], s, "extensions"))
    BY <1>2, PartOfWhole, PartsAre
  <2>2. DOMAIN ns.sequences = DOMAIN PartOf(p[7], s, "sequences")
    BY <1>3 DEF loadSequences
  <2> QED
    BY <1>3, <2>1, <2>2 DEF IsNamed, loadExtensions
<1> DEFINE one == PartOf(p[1], s, "tables")
           two == PartOf(p[2], s, "tables")
           three == PartOf(p[3], s, "tables")
           four == PartOf(p[4], s, "tables")
           read == ns.tables
<1>7. /\ IsNamed(one) /\ \A t \in DOMAIN one : IsWholeTable(one[t])
      /\ \A t \in DOMAIN two : IsWholeTable(two[t])
      /\ \A t \in DOMAIN three : IsWholeTable(three[t])
      /\ Apart(four) /\ \A t \in DOMAIN four : IsWholeTable(four[t])
  BY <1>2, PartOfWhole, PartsAre
<1>8. /\ DOMAIN read \subseteq DOMAIN one
      /\ \A t \in DOMAIN read : DOMAIN read[t].columns = DOMAIN one[t].columns
  BY <1>3, TablesReadFacts
<1>9. ASSUME NEW t \in DOMAIN read
      PROVE  DOMAIN read[t].indexes \subseteq IndexNames(four[t])
             /\ (DOMAIN read[t].indexes # {} => t \in DOMAIN four)
  <2>1. \A n \in DOMAIN read[t].indexes : Has(FoundIndexes(p[4], s), t, n)
    BY <1>3, TablesReadFacts
  <2>2. \A n : Has(FoundIndexes(p[4], s), t, n) => t \in DOMAIN four /\ n \in IndexNames(four[t])
    <3> TAKE n
    <3>1. Has(FoundIndexes(p[4], s), t, n) =>
            t \in DOMAIN four /\ (n \in DOMAIN four[t].indexes \/ UniqueIn(four[t], n))
      BY FoundIndexesFacts
    <3> QED
      BY <3>1 DEF IndexNames, KeysOf, IsKey, UniqueIn
  <2> QED
    BY <2>1, <2>2
<1>10. ASSUME NEW t \in DOMAIN read, NEW n \in DOMAIN read[t].constraints
       PROVE  /\ n \in NameSet
              /\ read[t].constraints[n].type = "foreign_key" =>
                   /\ read[t].constraints[n].ref.schema \in STRING
                   /\ read[t].constraints[n].ref.table \in STRING
  <2> DEFINE k == read[t].constraints[n]
  <2>1. CASE Has(FoundForeignKeys(p[3], s), t, n)
    <3> DEFINE was == three[t].constraints[n]
    <3>1. t \in DOMAIN three /\ n \in DOMAIN three[t].constraints /\ k = ReadForeignKey(was)
      BY <1>3, <2>1, TablesReadFacts, FoundFacts
    <3>2. IsConstraint(was, DOMAIN three[t].columns) /\ n \in NameSet
      BY <1>7, <3>1 DEF IsWholeTable, IsNamed, NameSet
    <3> HIDE DEF k, was
    <3>3. k.ref.schema = was.ref.schema /\ k.ref.table = was.ref.table
      BY <3>1, <3>2 DEF ReadForeignKey, IsConstraint
    <3> QED
      BY <3>2, <3>3 DEF IsConstraint, k
  <2>2. CASE ~Has(FoundForeignKeys(p[3], s), t, n)
    <3> DEFINE was == two[t].constraints[n]
    <3>1. /\ t \in DOMAIN two /\ n \in DOMAIN two[t].constraints /\ k = ReadConstraint(was)
          /\ was.type \in {"primary_key", "unique", "check"}
      BY <1>3, <2>2, TablesReadFacts, FoundFacts
    <3>2. IsConstraint(was, DOMAIN two[t].columns) /\ n \in NameSet
      BY <1>7, <3>1 DEF IsWholeTable, IsNamed, NameSet
    <3> HIDE DEF k, was
    <3>3. k.type = was.type
      BY <3>1, <3>2 DEF ReadConstraint, IsConstraint
    <3> QED
      BY <3>1, <3>2, <3>3 DEF k
  <2> QED
    BY <2>1, <2>2
<1>11. \A t \in DOMAIN read : IsTable(read[t])
  <2> TAKE t \in DOMAIN read
  <2>1. IsNamed(read[t].columns)
    BY <1>7, <1>8 DEF IsWholeTable, IsNamed
  <2>2. IsNamed(read[t].indexes)
    <3>1. t \in DOMAIN four => IndexNames(four[t]) \subseteq NameSet
      BY <1>7 DEF IndexNames, KeysOf, IsWholeTable, IsNamed, NameSet
    <3> QED
      BY <1>9, <3>1 DEF IsNamed, NameSet
  <2>3. IsNamed(read[t].constraints)
    BY <1>10 DEF IsNamed, NameSet
  <2> QED
    BY <1>10, <2>1, <2>2, <2>3 DEF IsTable
<1>12. ASSUME NEW t \in DOMAIN read, NEW u \in DOMAIN read, DOMAIN read[t].indexes \cap DOMAIN read[u].indexes # {}
       PROVE  t = u
  BY <1>7, <1>9, <1>12 DEF Apart
<1>13. IsNamed(read)
  BY <1>7, <1>8 DEF IsNamed
<1> QED
  BY <1>4, <1>5, <1>6, <1>11, <1>12, <1>13 DEF IsNamespace, IsType, IsView

----------------------------------------------------------------------------
(* The push, with another session that changes the database.               *)

\* What a request has, whatever has been read for it.
IsLive(req) ==
  /\ {"source", "target", "schemas", "unsafeDrop", "others"} \subseteq DOMAIN req
  /\ req.unsafeDrop \in BOOLEAN /\ IsSchema(req.target)
  /\ LoadedNames(req.schemas) \subseteq NameSet
  /\ \A st \in req.others : IsStatement(st)

\* The first n of the databases.
Moments(n) == {past[k] : k \in 1..n}

\* As long as nothing has been executed, the last of them is at hand.
PastInv ==
  /\ past \in Seq(Range(past)) /\ past # <<>>
  /\ \A k \in 1..Len(past) : IsWhole(past[k])
  /\ executed = 0 => db = past[Len(past)]

\* Every namespace is read from the databases there have been so far.
LoadInv ==
  pc = "load" =>
    /\ Idle /\ executed = 0
    /\ \A s \in DOMAIN loaded :
         s \in LoadedNames(request.schemas) /\ WasRead(loaded[s], s, 9, Moments(Len(past)))
    /\ place # <<>> =>
         \E s \in LoadedNames(request.schemas), n \in 1..9 :
           place = <<s, n>> /\ WasRead(namespace, s, n, Moments(Len(past)))

\* The plan comes from what has been read, and takes nothing from what is there.
SeenInv ==
  pc \notin {"load", "failed"} =>
    /\ IInv /\ executed \in 0..Len(plan)
    /\ pc # "planned" => executed = 0
    /\ seen \in 1..Len(past) /\ DOMAIN loaded = LoadedNames(request.schemas)
    /\ \A s \in DOMAIN loaded : WasRead(loaded[s], s, 9, Moments(seen))
    /\ executed # 0 /\ ~request.unsafeDrop => \A was : was = past[Len(past)] => DataKept(was)

LiveInv == IsLive(request) /\ PastInv /\ LoadInv /\ SeenInv

LEMMA WholeIsDatabase ==
  ASSUME NEW a, IsWhole(a)
  PROVE  IsDatabase(a)
BY DEF IsWhole, IsWholeNamespace, IsWholeTable, IsDatabase, IsType

LEMMA PastFacts ==
  ASSUME PastInv
  PROVE  /\ Len(past) \in Nat /\ Len(past) >= 1 /\ DOMAIN past = 1..Len(past)
         /\ IsWhole(past[Len(past)]) /\ past[Len(past)] \in Moments(Len(past))
         /\ \A n \in 1..Len(past) : \A d \in Moments(n) : IsWhole(d)
<1>1. past \in Seq(Range(past)) /\ past # <<>>
  BY DEF PastInv
<1>2. Len(past) \in Nat /\ Len(past) >= 1 /\ DOMAIN past = 1..Len(past)
  BY <1>1
<1> QED
  BY <1>2 DEF PastInv, Moments

LEMMA LiveInvInit == LiveInit => LiveInv
<1> SUFFICES ASSUME LiveInit PROVE LiveInv
  OBVIOUS
<1>1. /\ request \in Requests /\ pc = "load" /\ Idle /\ executed = 0 /\ db = request.database
      /\ place = <<>> /\ loaded = <<>> /\ past = <<db>>
  BY DEF LiveInit
<1>2. IsLive(request) /\ IsWhole(db)
  BY <1>1, LiveAssumption, RequestsAssumption DEF IsLive, IsRequest, NameSet
<1>3. PastInv
  <2>1. Len(past) = 1 /\ past[1] = db /\ Range(past) = {db} /\ past \in Seq({db})
    BY <1>1 DEF Range
  <2> QED
    BY <1>1, <1>2, <2>1 DEF PastInv
<1> QED
  BY <1>1, <1>2, <1>3 DEF LiveInv, LoadInv, SeenInv

----------------------------------------------------------------------------
(* Reading.                                                                *)

LEMMA StillLoading ==
  ASSUME LiveInv, pc = "load", UNCHANGED <<pushVars, past>>
  PROVE  /\ IsLive(request)' /\ PastInv' /\ SeenInv'
         /\ Idle' /\ executed' = 0 /\ pc' = "load" /\ request' = request
         /\ \A n : Moments(n)' = Moments(n) /\ Len(past)' = Len(past)
<1>1. /\ request' = request /\ pc' = pc /\ db' = db /\ executed' = executed /\ past' = past
      /\ UNCHANGED <<expired, operations, next, plan, stages, sort>>
  BY DEF pushVars, vars
<1>2. Idle'
  BY <1>1 DEF LiveInv, LoadInv, Idle, sort
<1> QED
  BY <1>1, <1>2 DEF LiveInv, PastInv, LoadInv, SeenInv, Moments

LEMMA BeginKeeps == LiveInv /\ BeginNamespace => LiveInv'
<1> SUFFICES ASSUME LiveInv, BeginNamespace PROVE LiveInv'
  OBVIOUS
<1>1. /\ pc = "load" /\ UNCHANGED <<pushVars, past>> /\ loaded' = loaded /\ namespace' = EmptyNamespace
  BY DEF BeginNamespace
<1>2. PICK s \in LoadedNames(request.schemas) : place' = <<s, 1>>
  BY DEF BeginNamespace
<1>3. /\ IsLive(request)' /\ PastInv' /\ SeenInv'
      /\ Idle' /\ executed' = 0 /\ pc' = "load" /\ request' = request
      /\ \A n : Moments(n)' = Moments(n) /\ Len(past)' = Len(past)
  BY <1>1, StillLoading
<1>4. WasRead(EmptyNamespace, s, 1, Moments(Len(past)))
  BY PastFacts, NothingRead DEF LiveInv
<1>5. LoadInv'
  <2>1. s \in LoadedNames(request'.schemas) /\ 1 \in 1..9 /\ WasRead(namespace', s, 1, Moments(Len(past))')
    BY <1>1, <1>2, <1>3, <1>4
  <2>2. \A n \in DOMAIN loaded' :
          n \in LoadedNames(request'.schemas) /\ WasRead(loaded'[n], n, 9, Moments(Len(past))')
    BY <1>1, <1>3 DEF LiveInv, LoadInv
  <2> QED
    BY <1>2, <1>3, <2>1, <2>2 DEF LoadInv
<1> QED
  BY <1>3, <1>5 DEF LiveInv

LEMMA QueryKeeps == LiveInv /\ Query => LiveInv'
<1> SUFFICES ASSUME LiveInv, Query PROVE LiveInv'
  OBVIOUS
<1>1. /\ pc = "load" /\ place # <<>> /\ place[2] <= Len(Queries)
      /\ namespace' = Read(Queries[place[2]], namespace, db, place[1])
      /\ place' = [place EXCEPT ![2] = @ + 1]
      /\ UNCHANGED <<pushVars, past>> /\ loaded' = loaded
  BY DEF Query
<1>2. PICK s \in LoadedNames(request.schemas), n \in 1..9 :
        place = <<s, n>> /\ WasRead(namespace, s, n, Moments(Len(past)))
  BY <1>1 DEF LiveInv, LoadInv
<1>3. /\ IsLive(request)' /\ PastInv' /\ SeenInv'
      /\ Idle' /\ executed' = 0 /\ pc' = "load" /\ request' = request
      /\ \A k : Moments(k)' = Moments(k) /\ Len(past)' = Len(past)
  BY <1>1, StillLoading
<1>4. n \in 1..8 /\ n + 1 \in 1..9 /\ place' = <<s, n + 1>>
  <2>1. place[2] = n /\ Len(Queries) = 8
    BY <1>2, QueriesAre
  <2>2. n \in 1..8 /\ n + 1 \in 1..9
    BY <1>1, <2>1
  <2>3. [<<s, n>> EXCEPT ![2] = n + 1] = <<s, n + 1>>
    OBVIOUS
  <2> QED
    BY <1>1, <1>2, <2>1, <2>2, <2>3
<1>5. db \in Moments(Len(past))
  BY <1>1, PastFacts DEF LiveInv, PastInv, LoadInv
<1>6. namespace' = Read(Queries[n], namespace, db, s)
  BY <1>1, <1>2
<1>7. WasRead(namespace', s, n + 1, Moments(Len(past)))
  BY <1>2, <1>4, <1>5, <1>6, QueryReads
<1>8. LoadInv'
  <2>1. s \in LoadedNames(request'.schemas) /\ WasRead(namespace', s, n + 1, Moments(Len(past))')
    BY <1>3, <1>7
  <2>2. \A m \in DOMAIN loaded' :
          m \in LoadedNames(request'.schemas) /\ WasRead(loaded'[m], m, 9, Moments(Len(past))')
    BY <1>1, <1>3 DEF LiveInv, LoadInv
  <2> QED
    BY <1>3, <1>4, <2>1, <2>2 DEF LoadInv
<1> QED
  BY <1>3, <1>8 DEF LiveInv

LEMMA EndNamespaceKeeps == LiveInv /\ EndNamespace => LiveInv'
<1> SUFFICES ASSUME LiveInv, EndNamespace PROVE LiveInv'
  OBVIOUS
<1>1. /\ pc = "load" /\ place # <<>> /\ place[2] > Len(Queries)
      /\ loaded' = With(loaded, place[1], namespace) /\ place' = <<>>
      /\ UNCHANGED <<pushVars, past>>
  BY DEF EndNamespace
<1>2. PICK s \in LoadedNames(request.schemas), n \in 1..9 :
        place = <<s, n>> /\ WasRead(namespace, s, n, Moments(Len(past)))
  BY <1>1 DEF LiveInv, LoadInv
<1>3. /\ IsLive(request)' /\ PastInv' /\ SeenInv'
      /\ Idle' /\ executed' = 0 /\ pc' = "load" /\ request' = request
      /\ \A k : Moments(k)' = Moments(k) /\ Len(past)' = Len(past)
  BY <1>1, StillLoading
<1>4. n = 9 /\ loaded' = With(loaded, s, namespace)
  <2>1. place[2] = n /\ place[1] = s /\ Len(Queries) = 8
    BY <1>2, QueriesAre
  <2> QED
    BY <1>1, <2>1
<1>5. \A m \in DOMAIN loaded' : (m = s /\ loaded'[m] = namespace) \/ (m \in DOMAIN loaded /\ loaded'[m] = loaded[m])
  BY <1>4, WithFacts
<1>6. \A m \in DOMAIN loaded' :
        m \in LoadedNames(request'.schemas) /\ WasRead(loaded'[m], m, 9, Moments(Len(past))')
  BY <1>1, <1>2, <1>3, <1>4, <1>5 DEF LiveInv, LoadInv
<1> QED
  BY <1>1, <1>3, <1>6 DEF LiveInv, LoadInv

LEMMA StartsThen == (IsRequest(request) /\ pc = "diff" /\ steps = StepsOf(request) /\ Idle => IInv)'
<1>1. IsRequest(request) /\ pc = "diff" /\ steps = StepsOf(request) /\ Idle => IInv
  BY IInvStarts
<1> QED
  BY <1>1, PTL

LEMMA LoadReturnsKeeps == LiveInv /\ LoadReturns => LiveInv'
<1> SUFFICES ASSUME LiveInv, LoadReturns PROVE LiveInv'
  OBVIOUS
<1>1. /\ pc = "load" /\ DOMAIN loaded = LoadedNames(request.schemas)
      /\ request' = [request EXCEPT !.source = loaded]
      /\ pc' = "diff" /\ steps' = StepsOf(request') /\ seen' = Len(past)
      /\ UNCHANGED <<expired, operations, next, stages, plan, sort, db, executed>>
      /\ loaded' = loaded /\ past' = past
  BY DEF LoadReturns
<1>2. /\ IsLive(request) /\ PastInv /\ Idle /\ executed = 0
      /\ \A s \in DOMAIN loaded : WasRead(loaded[s], s, 9, Moments(Len(past)))
  BY <1>1 DEF LiveInv, LoadInv
<1>3. /\ request'.source = loaded /\ request'.target = request.target /\ request'.schemas = request.schemas
      /\ request'.unsafeDrop = request.unsafeDrop /\ request'.others = request.others
      /\ DOMAIN request' = DOMAIN request
  BY <1>1, <1>2 DEF IsLive
<1>4. IsLive(request')
  BY <1>2, <1>3 DEF IsLive
<1>5. Len(past) \in Nat /\ Len(past) >= 1 /\ \A d \in Moments(Len(past)) : IsWhole(d)
  BY <1>2, PastFacts
<1>6. \A s \in DOMAIN loaded :
        /\ IsNamespace(loaded[s])
        /\ \A t, u \in DOMAIN loaded[s].tables :
             DOMAIN loaded[s].tables[t].indexes \cap DOMAIN loaded[s].tables[u].indexes # {} => t = u
  <2> TAKE s \in DOMAIN loaded
  <2> DEFINE ns == loaded[s]
             M == Moments(Len(past))
  <2>1. WasRead(ns, s, 9, M) /\ \A d \in M : IsWhole(d)
    BY <1>2, <1>5
  <2> HIDE DEF ns, M
  <2>2. /\ IsNamespace(ns)
        /\ \A t, u \in DOMAIN ns.tables : DOMAIN ns.tables[t].indexes \cap DOMAIN ns.tables[u].indexes # {} => t = u
    BY <2>1, ReadIsNamespace
  <2> QED
    BY <2>2 DEF ns
<1>7. IsRequest(request')
  <2>1. IsNamed(loaded)
    BY <1>1, <1>2 DEF IsLive, IsNamed, NameSet
  <2> QED
    BY <1>2, <1>3, <1>6, <2>1 DEF IsRequest, IsLive, IsSchema, IndexNamesDiffer
<1>8. Idle'
  BY <1>1, <1>2 DEF Idle, sort
<1>9. IInv'
  BY <1>1, <1>7, <1>8, StartsThen
<1>10. executed' = 0 /\ executed' \in 0..Len(plan')
  BY <1>1, <1>2 DEF Idle
<1>11. PastInv' /\ Moments(seen)' = Moments(Len(past))
  BY <1>1, <1>2 DEF PastInv, Moments
<1> QED
  BY <1>1, <1>2, <1>3, <1>4, <1>5, <1>9, <1>10, <1>11 DEF LiveInv, LoadInv, SeenInv

LEMMA LoadFailsKeeps == LiveInv /\ LoadFails => LiveInv'
<1> SUFFICES ASSUME LiveInv, LoadFails PROVE LiveInv'
  OBVIOUS
<1>1. pc' = "failed" /\ request' = request /\ UNCHANGED <<db, executed, past>>
  BY DEF LoadFails
<1> QED
  BY <1>1 DEF LiveInv, PastInv, LoadInv, SeenInv

----------------------------------------------------------------------------
(* Planning and carrying out.                                              *)

LEMMA ComputePlanKeeps == LiveInv /\ ComputePlan => LiveInv'
<1> SUFFICES ASSUME LiveInv, ComputePlan PROVE LiveInv'
  OBVIOUS
<1>1. /\ pc # "load" /\ Step /\ UNCHANGED <<db, executed, past>>
      /\ loaded' = loaded /\ seen' = seen
  BY DEF ComputePlan, reading
<1>2. pc \notin {"failed", "planned"}
  BY <1>1 DEF Step, DiffStep, DiffCancelled, FilterDestructiveOps, Assign, PlanCancelled, Assigned, SkipStage,
    CallTopoSort, SortStep, SortCancelled, StageSorted, StageFailed, Planned
<1>3. /\ IsLive(request) /\ PastInv /\ IInv /\ executed = 0
      /\ seen \in 1..Len(past) /\ DOMAIN loaded = LoadedNames(request.schemas)
      /\ \A s \in DOMAIN loaded : WasRead(loaded[s], s, 9, Moments(seen))
  BY <1>1, <1>2 DEF LiveInv, SeenInv
<1>4. request' = request
  BY <1>1 DEF Step, DiffStep, DiffCancelled, FilterDestructiveOps, Assign, PlanCancelled, Assigned, SkipStage,
    CallTopoSort, SortStep, SortCancelled, StageSorted, StageFailed, Planned
<1>5. IInv'
  BY <1>1, <1>3, IInvStep DEF Next
<1>6. pc' # "load" /\ executed' = 0 /\ executed' \in 0..Len(plan')
  <2>1. pc' # "load" /\ plan' \in Seq(Operation)
    BY <1>5 DEF IInv, Types, Returned
  <2>2. Len(plan') \in Nat
    BY <2>1
  <2> QED
    BY <1>1, <1>3, <2>1, <2>2
<1>7. PastInv' /\ Moments(seen)' = Moments(seen) /\ Len(past)' = Len(past)
  BY <1>1, <1>3 DEF PastInv, Moments
<1> QED
  BY <1>1, <1>3, <1>4, <1>5, <1>6, <1>7 DEF LiveInv, LoadInv, SeenInv

\* ComputeDiff does nothing more; the rest is as it was.
LEMMA StillPlanned ==
  ASSUME LiveInv, pc \notin {"load", "failed"}, UNCHANGED vars
  PROVE  /\ IInv' /\ IsLive(request)' /\ request' = request /\ pc' = pc /\ plan' = plan
         /\ executed' = executed /\ db' = db => \A was : DataKept(was)' = DataKept(was)
<1>1. request' = request /\ pc' = pc /\ plan' = plan
  BY DEF vars
<1>2. IInv'
  BY IInvStep DEF LiveInv, SeenInv
<1>3. executed' = executed /\ db' = db => \A was : DataKept(was)' = DataKept(was)
  BY <1>1 DEF DataKept, HasColumnNow, NoneRemade, Executed, NameNow, StatementOf, From, To, Had, Difference
<1> QED
  BY <1>1, <1>2, <1>3 DEF LiveInv

\* What the last of the databases had is there before the next statement.
LEMMA KeptBefore ==
  ASSUME LiveInv, pc \notin {"load", "failed"}, ~request.unsafeDrop
  PROVE  DataKept(past[Len(past)])
<1>1. CASE executed = 0
  <2>1. db = past[Len(past)]
    BY <1>1 DEF LiveInv, PastInv
  <2> QED
    BY <1>1, <2>1, NothingDone
<1>2. CASE executed # 0
  BY <1>2 DEF LiveInv, SeenInv
<1> QED
  BY <1>1, <1>2

LEMMA CarryOutKeeps == LiveInv /\ CarryOut => LiveInv'
<1> SUFFICES ASSUME LiveInv, CarryOut PROVE LiveInv'
  OBVIOUS
<1>1. /\ pc = "planned" /\ UNCHANGED vars /\ past' = past /\ loaded' = loaded /\ seen' = seen
      /\ Execute \/ Refuse
  BY DEF CarryOut, Execute, Refuse, reading
<1>2. /\ IInv' /\ IsLive(request)' /\ request' = request /\ pc' = pc /\ plan' = plan
      /\ executed' = executed /\ db' = db => \A was : DataKept(was)' = DataKept(was)
  BY <1>1, StillPlanned
<1>3. Moments(seen)' = Moments(seen) /\ Len(past)' = Len(past) /\ past[Len(past)]' = past[Len(past)]
  BY <1>1 DEF Moments
<1>4. /\ executed' \in 0..Len(plan) /\ (executed' = 0 => db' = past[Len(past)])
      /\ ~request.unsafeDrop => \A was : was = past[Len(past)] => DataKept(was)'
  <2>1. executed \in 0..Len(plan) /\ IInv /\ (executed = 0 => db = past[Len(past)])
    BY <1>1 DEF LiveInv, SeenInv, PastInv
  <2>2. CASE Execute
    <3>1. executed' \in 0..Len(plan) /\ executed' # 0
      BY <2>1, <2>2 DEF Execute
    <3>2. ASSUME ~request.unsafeDrop, NEW was, was = past[Len(past)] PROVE DataKept(was)'
      <4>1. IsDatabase(was)
        BY <3>2, PastFacts, WholeIsDatabase DEF LiveInv
      <4>2. DataKept(was)
        BY <1>1, <3>2, KeptBefore
      <4> QED
        BY <2>1, <2>2, <3>2, <4>1, <4>2, ExecuteKeeps
    <3> QED
      BY <3>1, <3>2
  <2>3. CASE Refuse
    <3>1. executed' = executed /\ db' = db
      BY <2>3 DEF Refuse
    <3>2. ~request.unsafeDrop => DataKept(past[Len(past)])
      BY <1>1, KeptBefore
    <3> QED
      BY <1>2, <2>1, <3>1, <3>2
  <2> QED
    BY <1>1, <2>2, <2>3
<1>5. PastInv'
  BY <1>1, <1>3, <1>4 DEF LiveInv, PastInv
<1> QED
  BY <1>1, <1>2, <1>3, <1>4, <1>5 DEF LiveInv, LoadInv, SeenInv

LEMMA OtherSessionKeeps == LiveInv /\ OtherSession => LiveInv'
<1> SUFFICES ASSUME LiveInv, OtherSession PROVE LiveInv'
  OBVIOUS
<1>1. /\ pc = "load" \/ (pc = "planned" /\ executed = 0)
      /\ past' = Append(past, db')
      /\ UNCHANGED <<vars, executed, reading>>
  BY DEF OtherSession
<1>2. PICK st \in request.others : Accepts(st, db) /\ db' = After(st, db)
  BY DEF OtherSession
<1>3. /\ executed = 0 /\ db = past[Len(past)] /\ IsWhole(db) /\ IsStatement(st)
      /\ Len(past) \in Nat /\ past \in Seq(Range(past))
  BY <1>1, PastFacts DEF LiveInv, PastInv, LoadInv, IsLive
<1>4. IsWhole(db')
  BY <1>2, <1>3, StaysWhole
<1>5. /\ Len(past') = Len(past) + 1 /\ past'[Len(past')] = db' /\ past' # <<>>
      /\ \A k \in 1..Len(past) : past'[k] = past[k]
      /\ past' \in Seq(Range(past'))
  <2>1. /\ Len(past') = Len(past) + 1 /\ past'[Len(past')] = db' /\ past' # <<>>
        /\ \A k \in 1..Len(past) : past'[k] = past[k]
    BY <1>1, <1>3
  <2>2. past' \in Seq(Range(past) \cup {db'})
    BY <1>1, <1>3
  <2>3. past' \in Seq(Range(past'))
    BY <2>2 DEF Range
  <2> QED
    BY <2>1, <2>3
<1>6. PastInv'
  <2>1. \A k \in 1..Len(past') : IsWhole(past'[k])
    BY <1>3, <1>4, <1>5 DEF LiveInv, PastInv
  <2> QED
    BY <1>5, <2>1 DEF PastInv
<1>7. /\ \A n \in 1..Len(past) : Moments(n)' = Moments(n)
      /\ Moments(Len(past)) \subseteq Moments(Len(past))'
  BY <1>3, <1>5 DEF Moments
<1>8. request' = request /\ pc' = pc /\ plan' = plan /\ executed' = executed /\ reading' = reading
  BY <1>1 DEF vars
<1>9. CASE pc = "load"
  <2>1. Idle'
    BY <1>1, <1>9 DEF LiveInv, LoadInv, Idle, vars, sort
  <2>2. place' = place /\ namespace' = namespace /\ loaded' = loaded
    BY <1>8 DEF reading
  <2>3. \A ns, s, n : WasRead(ns, s, n, Moments(Len(past))) => WasRead(ns, s, n, Moments(Len(past))')
    BY <1>7, WasReadOfMore
  <2> QED
    BY <1>3, <1>6, <1>8, <1>9, <2>1, <2>2, <2>3 DEF LiveInv, LoadInv, SeenInv
<1>10. CASE pc = "planned"
  <2>1. IInv'
    BY <1>1, <1>10, StillPlanned
  <2>2. loaded' = loaded /\ seen' = seen
    BY <1>8 DEF reading
  <2>3. /\ executed \in 0..Len(plan) /\ seen \in 1..Len(past) /\ DOMAIN loaded = LoadedNames(request.schemas)
        /\ \A s \in DOMAIN loaded : WasRead(loaded[s], s, 9, Moments(seen))
    BY <1>10 DEF LiveInv, SeenInv
  <2>4. seen \in 1..Len(past') /\ Moments(seen)' = Moments(seen)
    BY <1>3, <1>5, <1>7, <2>2, <2>3
  <2> QED
    BY <1>3, <1>6, <1>8, <1>10, <2>1, <2>2, <2>3, <2>4 DEF LiveInv, LoadInv, SeenInv
<1> QED
  BY <1>1, <1>9, <1>10

LEMMA LiveInvUnchanged == LiveInv /\ UNCHANGED liveVars => LiveInv'
<1> SUFFICES ASSUME LiveInv, UNCHANGED liveVars PROVE LiveInv'
  OBVIOUS
<1>1. /\ UNCHANGED vars /\ request' = request /\ pc' = pc /\ plan' = plan /\ db' = db /\ executed' = executed
      /\ past' = past /\ place' = place /\ namespace' = namespace /\ loaded' = loaded /\ seen' = seen
  BY DEF liveVars, pushVars, vars, reading
<1>2. \A n : Moments(n)' = Moments(n)
  BY <1>1 DEF Moments
<1>3. PastInv' /\ IsLive(request)'
  BY <1>1 DEF LiveInv, PastInv
<1>4. CASE pc = "load"
  <2>1. Idle'
    BY <1>1, <1>4 DEF LiveInv, LoadInv, Idle, vars, sort
  <2> QED
    BY <1>1, <1>2, <1>3, <1>4, <2>1 DEF LiveInv, LoadInv, SeenInv
<1>5. CASE pc = "failed"
  BY <1>1, <1>3, <1>5 DEF LiveInv, LoadInv, SeenInv
<1>6. CASE pc \notin {"load", "failed"}
  <2>1. IInv' /\ \A was : DataKept(was)' = DataKept(was)
    BY <1>1, <1>6, StillPlanned
  <2> QED
    BY <1>1, <1>2, <1>3, <1>6, <2>1 DEF LiveInv, LoadInv, SeenInv
<1> QED
  BY <1>4, <1>5, <1>6

LEMMA LiveInvStep == LiveInv /\ [LiveNext]_liveVars => LiveInv'
BY BeginKeeps, QueryKeeps, EndNamespaceKeeps, LoadFailsKeeps, LoadReturnsKeeps, ComputePlanKeeps, CarryOutKeeps,
  OtherSessionKeeps, LiveInvUnchanged DEF LiveNext, Ended

LEMMA LiveInvAlways == LiveSpec => []LiveInv
BY LiveInvInit, LiveInvStep, PTL DEF LiveSpec

\* Without --unsafe-drop a plan takes nothing from the database, though it has been
\* computed from what the database was before, or never was (push.go:118): whatever
\* the other session does, and whenever, while the catalog is read or the user is asked.
THEOREM OthersKept == LiveSpec => []KeepsWhatOthersMade
<1>1. LiveInv => KeepsWhatOthersMade
  <2> SUFFICES ASSUME LiveInv, pc = "planned", ~request.unsafeDrop PROVE NothingLost(Last(past))
    BY DEF KeepsWhatOthersMade
  <2>1. DataKept(past[Len(past)])
    BY KeptBefore
  <2>2. IsDatabase(past[Len(past)])
    BY PastFacts, WholeIsDatabase DEF LiveInv
  <2>3. Last(past) = past[Len(past)]
    BY DEF Last
  <2> QED
    BY <2>1, <2>2, <2>3, KeepsNothingLost
<1> QED
  BY <1>1, LiveInvAlways, PTL

----------------------------------------------------------------------------
(* What can be known of a namespace, and what is known of it.              *)

\* The last part of the piece of a constraint.
Says(constraint) ==
  <<constraint.type,
    IF constraint.expression # <<>> THEN {constraint.expression[1]} ELSE Range(constraint.columns),
    constraint.ref.schema, constraint.ref.table, Range(constraint.ref.columns), constraint.ref.actions>>

\* The pieces of some tables.
IsSeen(tables, t) == t \in DOMAIN tables /\ tables[t].columns # <<>>
IsColumnPiece(tables, piece) ==
  \E t, c : /\ IsSeen(tables, t) /\ c \in DOMAIN tables[t].columns
            /\ piece = <<"column", t, c, ReadColumn(tables[t].columns[c])>>
IsConstraintPiece(tables, piece) ==
  \E t, k : /\ IsSeen(tables, t) /\ k \in DOMAIN tables[t].constraints
            /\ piece = <<"constraint", t, k, Says(tables[t].constraints[k])>>
IsIndexPiece(tables, piece) ==
  \E t, x : /\ IsSeen(tables, t) /\ x \in DOMAIN tables[t].indexes
            /\ piece = <<"index", t, x, tables[t].indexes[x].columns>>
IsUniquePiece(tables, piece) ==
  \E t, k : /\ IsSeen(tables, t) /\ UniqueIn(tables[t], k)
            /\ piece = <<"index", t, k, tables[t].constraints[k].columns>>
IsTablePiece(tables, piece) ==
  \/ IsColumnPiece(tables, piece) \/ IsConstraintPiece(tables, piece)
  \/ IsIndexPiece(tables, piece) \/ IsUniquePiece(tables, piece)

IsTypePiece(types, piece) == \E n \in DOMAIN types : types[n] # <<>> /\ piece = <<"type", n, types[n]>>
IsViewPiece(views, piece) == \E v \in DOMAIN views : piece = <<"view", v, views[v]>>
IsSequencePiece(sequences, piece) ==
  \E q \in DOMAIN sequences : piece = <<"sequence", q, sequences[q].increment, sequences[q].cycle>>
IsExtensionPiece(extensions, piece) == \E e \in DOMAIN extensions : piece = <<"extension", e, extensions[e]>>

\* The set of them, in the order of the definition.
ColumnPieces(n, t) == {<<"column", t, c, ReadColumn(n.tables[t].columns[c])>> : c \in DOMAIN n.tables[t].columns}
ConstraintPieces(n, t) ==
  {<<"constraint", t, k, Says(n.tables[t].constraints[k])>> : k \in DOMAIN n.tables[t].constraints}
IndexPieces(n, t) == {<<"index", t, x, n.tables[t].indexes[x].columns>> : x \in DOMAIN n.tables[t].indexes}
UniquePieces(n, t) ==
  {<<"index", t, k, n.tables[t].constraints[k].columns>> :
     k \in {k \in DOMAIN n.tables[t].constraints : n.tables[t].constraints[k].type = "unique"}}
TablePieces(n, t) == ColumnPieces(n, t) \cup ConstraintPieces(n, t) \cup IndexPieces(n, t) \cup UniquePieces(n, t)
Seen(n) == {t \in DOMAIN n.tables : n.tables[t].columns # <<>>}
TypePieces(n) == {<<"type", t, n.types[t]>> : t \in {t \in DOMAIN n.types : n.types[t] # <<>>}}
ViewPieces(n) == {<<"view", v, n.views[v]>> : v \in DOMAIN n.views}
SequencePieces(n) ==
  {<<"sequence", q, n.sequences[q].increment, n.sequences[q].cycle>> : q \in DOMAIN n.sequences}
ExtensionPieces(n) == {<<"extension", e, n.extensions[e]>> : e \in DOMAIN n.extensions}

LEMMA PiecesAre ==
  ASSUME NEW n
  PROVE  Pieces(n) = (UNION {TablePieces(n, t) : t \in Seen(n)})
                       \cup TypePieces(n) \cup ViewPieces(n) \cup SequencePieces(n) \cup ExtensionPieces(n)
BY Zenon DEF Pieces, ReadColumn, Says, ColumnPieces, ConstraintPieces, IndexPieces, UniquePieces, TablePieces,
  Seen, TypePieces, ViewPieces, SequencePieces, ExtensionPieces

\* A piece of a namespace is of one of these kinds.
LEMMA PieceOf ==
  ASSUME NEW n, NEW piece
  PROVE  piece \in Pieces(n) <=>
           \/ IsTablePiece(n.tables, piece) \/ IsTypePiece(n.types, piece) \/ IsViewPiece(n.views, piece)
           \/ IsSequencePiece(n.sequences, piece) \/ IsExtensionPiece(n.extensions, piece)
<1>1. /\ piece \in TypePieces(n) <=> IsTypePiece(n.types, piece)
      /\ piece \in ViewPieces(n) <=> IsViewPiece(n.views, piece)
      /\ piece \in SequencePieces(n) <=> IsSequencePiece(n.sequences, piece)
      /\ piece \in ExtensionPieces(n) <=> IsExtensionPiece(n.extensions, piece)
  BY Zenon DEF IsTypePiece, IsViewPiece, IsSequencePiece, IsExtensionPiece,
    TypePieces, ViewPieces, SequencePieces, ExtensionPieces
<1>2. (\E t \in Seen(n) : piece \in ColumnPieces(n, t)) <=> IsColumnPiece(n.tables, piece)
  BY Zenon DEF IsColumnPiece, IsSeen, ColumnPieces, Seen
<1>3. (\E t \in Seen(n) : piece \in ConstraintPieces(n, t)) <=> IsConstraintPiece(n.tables, piece)
  BY Zenon DEF IsConstraintPiece, IsSeen, ConstraintPieces, Seen
<1>4. (\E t \in Seen(n) : piece \in IndexPieces(n, t)) <=> IsIndexPiece(n.tables, piece)
  BY Zenon DEF IsIndexPiece, IsSeen, IndexPieces, Seen
<1>5. (\E t \in Seen(n) : piece \in UniquePieces(n, t)) <=> IsUniquePiece(n.tables, piece)
  BY Zenon DEF IsUniquePiece, IsSeen, UniqueIn, UniquePieces, Seen
<1>6. (\E t \in Seen(n) : piece \in TablePieces(n, t)) <=> IsTablePiece(n.tables, piece)
  BY <1>2, <1>3, <1>4, <1>5 DEF IsTablePiece, TablePieces
<1>7. piece \in UNION {TablePieces(n, t) : t \in Seen(n)} <=> \E t \in Seen(n) : piece \in TablePieces(n, t)
  BY Zenon
<1> QED
  BY <1>1, <1>6, <1>7, PiecesAre

\* So is a piece of a namespace of a database, there or not.
LEMMA PieceIn ==
  ASSUME NEW a, NEW s, NEW piece
  PROVE  piece \in PiecesIn(a, s) <=>
           \/ IsTablePiece(PartOf(a, s, "tables"), piece) \/ IsTypePiece(PartOf(a, s, "types"), piece)
           \/ IsViewPiece(PartOf(a, s, "views"), piece) \/ IsSequencePiece(PartOf(a, s, "sequences"), piece)
           \/ IsExtensionPiece(PartOf(a, s, "extensions"), piece)
<1>1. CASE s \in DOMAIN a
  <2>1. \A part : PartOf(a, s, part) = a[s][part]
    BY <1>1 DEF PartOf
  <2>2. /\ a[s].tables = a[s]["tables"] /\ a[s].types = a[s]["types"] /\ a[s].views = a[s]["views"]
        /\ a[s].sequences = a[s]["sequences"] /\ a[s].extensions = a[s]["extensions"]
    OBVIOUS
  <2>3. PiecesIn(a, s) = Pieces(a[s])
    BY <1>1 DEF PiecesIn
  <2> QED
    BY <2>1, <2>3, PieceOf
<1>2. CASE s \notin DOMAIN a
  <2>1. \A part : PartOf(a, s, part) = <<>>
    BY <1>2 DEF PartOf
  <2>2. PiecesIn(a, s) = {}
    BY <1>2 DEF PiecesIn
  <2>3. /\ ~IsTypePiece(<<>>, piece) /\ ~IsViewPiece(<<>>, piece) /\ ~IsSequencePiece(<<>>, piece)
        /\ ~IsExtensionPiece(<<>>, piece)
    BY DEF IsTypePiece, IsViewPiece, IsSequencePiece, IsExtensionPiece
  <2>4. ~IsTablePiece(<<>>, piece)
    BY DEF IsTablePiece, IsColumnPiece, IsConstraintPiece, IsIndexPiece, IsUniquePiece, IsSeen
  <2> QED
    BY <2>1, <2>2, <2>3, <2>4
<1> QED
  BY <1>1, <1>2

\* Reading loses nothing of these.
LEMMA ColumnReadTwice ==
  ASSUME NEW column
  PROVE  ReadColumn(ReadColumn(column)) = ReadColumn(column)
BY DEF ReadColumn

LEMMA CrossedColumns ==
  ASSUME NEW list \in Seq(STRING)
  PROVE  Range(Crossed(list)) = Range(list)
<1> DEFINE times(k) == [n \in DOMAIN list |-> list[k]]
           all == [k \in DOMAIN list |-> times(k)]
<1>1. Len(list) \in Nat /\ DOMAIN list = 1..Len(list) /\ \A k \in DOMAIN list : list[k] \in STRING
  OBVIOUS
<1>2. \A k \in DOMAIN list : times(k) \in Seq(STRING) /\ Range(times(k)) = {list[k]}
  <2> TAKE k \in DOMAIN list
  <2>1. times(k) \in [1..Len(list) -> STRING]
    BY <1>1
  <2>2. Range(times(k)) = {list[k]}
    BY DEF Range
  <2> QED
    BY <1>1, <2>1, <2>2
<1> HIDE DEF times
<1>3. all \in Seq(Seq(STRING)) /\ DOMAIN all = DOMAIN list /\ \A k \in DOMAIN list : all[k] = times(k)
  BY <1>1, <1>2
<1>4. Crossed(list) = FlattenSeq(all)
  BY DEF Crossed, times
<1> HIDE DEF all
<1>5. Range(FlattenSeq(all)) = UNION {Range(all[m]) : m \in DOMAIN all}
  BY <1>3, FlattenList
<1>6. UNION {Range(all[m]) : m \in DOMAIN all} = UNION {{list[m]} : m \in DOMAIN list}
  BY <1>2, <1>3
<1>7. UNION {{list[m]} : m \in DOMAIN list} = Range(list)
  BY DEF Range
<1> QED
  BY <1>4, <1>5, <1>6, <1>7

LEMMA ConstraintRead ==
  ASSUME NEW k, NEW columns, IsConstraint(k, columns)
  PROVE  Says(ReadConstraint(k)) = Says(k) /\ ReadConstraint(k).type = k.type
<1> DEFINE read == ReadConstraint(k)
<1>1. /\ {"type", "columns", "ref", "expression"} \subseteq DOMAIN k
      /\ k.type = "check" => k.expression # <<>>
  BY DEF IsConstraint
<1>2. CASE k.type = "check"
  <2> DEFINE c == k.expression[1]
             list == SetToSeq(On(k))
  <2>1. On(k) = {c}
    BY <1>2 DEF On
  <2>2. Range(list) = {c}
    BY <2>1, FS_Singleton, OneListOfSet
  <2> HIDE DEF list
  <2>3. read = [k EXCEPT !.columns = list, !.expression = <<>>]
    BY <1>2 DEF ReadConstraint, list
  <2> HIDE DEF read
  <2>4. /\ read.columns = list /\ read.expression = <<>> /\ read.type = k.type /\ read.ref = k.ref
    BY <1>1, <2>3
  <2> QED
    BY <1>1, <1>2, <2>2, <2>4 DEF Says, read
<1>3. CASE k.type # "check"
  BY <1>3 DEF ReadConstraint
<1> QED
  BY <1>2, <1>3

LEMMA ForeignKeyRead ==
  ASSUME NEW k, NEW columns, IsConstraint(k, columns)
  PROVE  Says(ReadForeignKey(k)) = Says(k) /\ ReadForeignKey(k).type = k.type
<1> DEFINE read == ReadForeignKey(k)
<1>1. /\ {"type", "columns", "ref", "expression"} \subseteq DOMAIN k
      /\ {"schema", "table", "columns", "actions"} \subseteq DOMAIN k.ref
      /\ k.columns \in Seq(STRING) /\ k.ref.columns \in Seq(STRING)
  BY DEF IsConstraint
<1>2. /\ read.type = k.type /\ read.expression = k.expression /\ read.columns = Crossed(k.columns)
      /\ read.ref.schema = k.ref.schema /\ read.ref.table = k.ref.table /\ read.ref.actions = k.ref.actions
      /\ read.ref.columns = Crossed(k.ref.columns)
  BY <1>1 DEF ReadForeignKey
<1> HIDE DEF read
<1>3. Range(read.columns) = Range(k.columns) /\ Range(read.ref.columns) = Range(k.ref.columns)
  BY <1>1, <1>2, CrossedColumns
<1> QED
  BY <1>2, <1>3 DEF Says, read

\* A table with a constraint or an index has a column.
LEMMA HasColumns ==
  ASSUME NEW table, IsWholeTable(table), DOMAIN table.constraints # {} \/ DOMAIN table.indexes # {}
  PROVE  DOMAIN table.columns # {} /\ table.columns # <<>>
<1>1. CASE \E k \in DOMAIN table.constraints : TRUE
  <2>1. PICK k \in DOMAIN table.constraints : IsConstraint(table.constraints[k], DOMAIN table.columns)
    BY <1>1 DEF IsWholeTable
  <2>2. DOMAIN table.columns # {}
    BY <2>1 DEF IsConstraint
  <2> QED
    BY <2>2
<1>2. CASE \E x \in DOMAIN table.indexes : TRUE
  <2>1. PICK x \in DOMAIN table.indexes : IsIndex(table.indexes[x], DOMAIN table.columns)
    BY <1>2 DEF IsWholeTable
  <2>2. DOMAIN table.columns # {}
    BY <2>1 DEF IsIndex
  <2> QED
    BY <2>2
<1> QED
  BY <1>1, <1>2

\* Where a constraint that has been read was: a foreign key in the third database,
\* another one in the second.
IsFrom(tables, t, k, constraint) ==
  /\ IsSeen(tables, t) /\ k \in DOMAIN tables[t].constraints
  /\ Says(constraint) = Says(tables[t].constraints[k]) /\ constraint.type = tables[t].constraints[k].type

LEMMA KeysFound ==
  ASSUME NEW a, IsWhole(a), NEW s, NEW t, NEW k, Has(FoundKeys(a, s), t, k)
  PROVE  /\ IsFrom(PartOf(a, s, "tables"), t, k, FoundKeys(a, s)[t][k])
         /\ FoundKeys(a, s)[t][k].type \in {"primary_key", "unique", "check"}
         /\ FoundKeys(a, s)[t][k].type = "unique" =>
              FoundKeys(a, s)[t][k].columns = PartOf(a, s, "tables")[t].constraints[k].columns
<1> DEFINE tables == PartOf(a, s, "tables")
           was == tables[t].constraints[k]
           found == FoundKeys(a, s)[t][k]
<1>1. /\ t \in DOMAIN tables /\ k \in DOMAIN tables[t].constraints
      /\ was.type \in {"primary_key", "unique", "check"} /\ found = ReadConstraint(was)
  BY FoundFacts
<1>2. IsWholeTable(tables[t])
  BY <1>1, PartOfWhole
<1>3. IsConstraint(was, DOMAIN tables[t].columns) /\ IsSeen(tables, t)
  BY <1>1, <1>2, HasColumns DEF IsWholeTable, IsSeen
<1> HIDE DEF was, found, tables
<1>4. Says(found) = Says(was) /\ found.type = was.type
  BY <1>1, <1>3, ConstraintRead
<1>5. found.type = "unique" => found = was
  BY <1>1, <1>4 DEF ReadConstraint
<1> QED
  BY <1>1, <1>3, <1>4, <1>5 DEF was, found, tables, IsFrom

LEMMA ForeignKeysFound ==
  ASSUME NEW a, IsWhole(a), NEW s, NEW t, NEW k, Has(FoundForeignKeys(a, s), t, k)
  PROVE  /\ IsFrom(PartOf(a, s, "tables"), t, k, FoundForeignKeys(a, s)[t][k])
         /\ FoundForeignKeys(a, s)[t][k].type = "foreign_key"
<1> DEFINE tables == PartOf(a, s, "tables")
           was == tables[t].constraints[k]
           found == FoundForeignKeys(a, s)[t][k]
<1>1. /\ t \in DOMAIN tables /\ k \in DOMAIN tables[t].constraints
      /\ was.type = "foreign_key" /\ found = ReadForeignKey(was)
  BY FoundFacts
<1>2. IsWholeTable(tables[t])
  BY <1>1, PartOfWhole
<1>3. IsConstraint(was, DOMAIN tables[t].columns) /\ IsSeen(tables, t)
  BY <1>1, <1>2, HasColumns DEF IsWholeTable, IsSeen
<1> HIDE DEF was, found, tables
<1>4. Says(found) = Says(was) /\ found.type = was.type
  BY <1>1, <1>3, ForeignKeyRead
<1> QED
  BY <1>1, <1>3, <1>4 DEF was, found, tables, IsFrom

\* An index that has been read is one of the fourth database, or of a constraint there.
LEMMA IndexesFound ==
  ASSUME NEW a, IsWhole(a), NEW s, NEW t, NEW x, Has(FoundIndexes(a, s), t, x)
  PROVE  LET tables == PartOf(a, s, "tables")
             found == FoundIndexes(a, s)[t][x]
         IN  /\ IsSeen(tables, t)
             /\ \/ x \in DOMAIN tables[t].indexes /\ found.columns = tables[t].indexes[x].columns
                \/ UniqueIn(tables[t], x) /\ found.columns = tables[t].constraints[x].columns
<1> DEFINE tables == PartOf(a, s, "tables")
           found == FoundIndexes(a, s)[t][x]
<1>1. /\ t \in DOMAIN tables /\ (x \in DOMAIN tables[t].indexes \/ UniqueIn(tables[t], x))
      /\ x \in DOMAIN tables[t].indexes => found = tables[t].indexes[x]
      /\ x \notin DOMAIN tables[t].indexes => found = [columns |-> tables[t].constraints[x].columns, method |-> "btree"]
  BY FoundIndexesFacts
<1>2. IsWholeTable(tables[t])
  BY <1>1, PartOfWhole
<1>3. IsSeen(tables, t)
  BY <1>1, <1>2, HasColumns DEF IsSeen, UniqueIn
<1> HIDE DEF found, tables
<1>4. x \notin DOMAIN tables[t].indexes => found.columns = tables[t].constraints[x].columns
  BY <1>1
<1> QED
  BY <1>1, <1>3, <1>4 DEF found, tables

\* Each query finds its pieces in the database it is made on.
LEMMA TablePiecesAreThere ==
  ASSUME NEW s, NEW p, \A k \in 1..4 : IsWhole(p[k]), NEW piece, IsTablePiece(TablesFour(p, s), piece)
  PROVE  \E k \in 1..4 : IsTablePiece(PartOf(p[k], s, "tables"), piece)
<1> DEFINE one == PartOf(p[1], s, "tables")
           two == PartOf(p[2], s, "tables")
           three == PartOf(p[3], s, "tables")
           four == PartOf(p[4], s, "tables")
           read == TablesFour(p, s)
           keys == FoundKeys(p[2], s)
           foreign == FoundForeignKeys(p[3], s)
           indexes == FoundIndexes(p[4], s)
<1> SUFFICES \/ IsTablePiece(one, piece) \/ IsTablePiece(two, piece)
             \/ IsTablePiece(three, piece) \/ IsTablePiece(four, piece)
  OBVIOUS
<1>1. /\ \A t : t \in DOMAIN read <=> IsSeen(one, t)
      /\ \A t \in DOMAIN read :
           /\ DOMAIN read[t].columns = DOMAIN one[t].columns
           /\ \A c \in DOMAIN one[t].columns : read[t].columns[c] = ReadColumn(one[t].columns[c])
           /\ \A n : n \in DOMAIN read[t].constraints <=> Has(keys, t, n) \/ Has(foreign, t, n)
           /\ \A n : Has(foreign, t, n) => read[t].constraints[n] = foreign[t][n]
           /\ \A n : Has(keys, t, n) /\ ~Has(foreign, t, n) => read[t].constraints[n] = keys[t][n]
           /\ \A n : n \in DOMAIN read[t].indexes <=> Has(indexes, t, n)
           /\ \A n : Has(indexes, t, n) => read[t].indexes[n] = indexes[t][n]
  BY TablesReadFacts DEF IsSeen
<1>2. IsWhole(p[2]) /\ IsWhole(p[3]) /\ IsWhole(p[4])
  OBVIOUS
<1>3. /\ \A t, k : Has(keys, t, k) =>
           /\ IsFrom(two, t, k, keys[t][k])
           /\ keys[t][k].type = "unique" => keys[t][k].columns = two[t].constraints[k].columns
      /\ \A t, k : Has(foreign, t, k) => IsFrom(three, t, k, foreign[t][k]) /\ foreign[t][k].type = "foreign_key"
  BY <1>2, KeysFound, ForeignKeysFound
<1>4. \A t, x : Has(indexes, t, x) =>
        /\ IsSeen(four, t)
        /\ \/ x \in DOMAIN four[t].indexes /\ indexes[t][x].columns = four[t].indexes[x].columns
           \/ UniqueIn(four[t], x) /\ indexes[t][x].columns = four[t].constraints[x].columns
  BY <1>2, IndexesFound
<1> HIDE DEF one, two, three, four, read, keys, foreign, indexes
<1>5. CASE IsColumnPiece(read, piece)
  <2>1. PICK t, c : /\ IsSeen(read, t) /\ c \in DOMAIN read[t].columns
                    /\ piece = <<"column", t, c, ReadColumn(read[t].columns[c])>>
    BY <1>5 DEF IsColumnPiece
  <2>2. t \in DOMAIN read
    BY <2>1 DEF IsSeen
  <2>3. /\ IsSeen(one, t) /\ c \in DOMAIN one[t].columns
        /\ ReadColumn(read[t].columns[c]) = ReadColumn(one[t].columns[c])
    BY <1>1, <2>1, <2>2, ColumnReadTwice
  <2> QED
    BY <2>1, <2>3 DEF IsTablePiece, IsColumnPiece
<1>6. CASE IsConstraintPiece(read, piece)
  <2>1. PICK t, k : /\ IsSeen(read, t) /\ k \in DOMAIN read[t].constraints
                    /\ piece = <<"constraint", t, k, Says(read[t].constraints[k])>>
    BY <1>6 DEF IsConstraintPiece
  <2>2. t \in DOMAIN read
    BY <2>1 DEF IsSeen
  <2>3. IsFrom(two, t, k, read[t].constraints[k]) \/ IsFrom(three, t, k, read[t].constraints[k])
    BY <1>1, <1>3, <2>1, <2>2
  <2>4. IsConstraintPiece(two, piece) \/ IsConstraintPiece(three, piece)
    BY <2>1, <2>3 DEF IsFrom, IsConstraintPiece
  <2> QED
    BY <2>4 DEF IsTablePiece
<1>7. CASE IsIndexPiece(read, piece)
  <2>1. PICK t, x : /\ IsSeen(read, t) /\ x \in DOMAIN read[t].indexes
                    /\ piece = <<"index", t, x, read[t].indexes[x].columns>>
    BY <1>7 DEF IsIndexPiece
  <2>2. t \in DOMAIN read
    BY <2>1 DEF IsSeen
  <2>3. Has(indexes, t, x) /\ read[t].indexes[x] = indexes[t][x]
    BY <1>1, <2>1, <2>2
  <2>4. IsIndexPiece(four, piece) \/ IsUniquePiece(four, piece)
    BY <1>4, <2>1, <2>3 DEF IsIndexPiece, IsUniquePiece
  <2> QED
    BY <2>4 DEF IsTablePiece
<1>8. CASE IsUniquePiece(read, piece)
  <2>1. PICK t, k : /\ IsSeen(read, t) /\ k \in DOMAIN read[t].constraints /\ read[t].constraints[k].type = "unique"
                    /\ piece = <<"index", t, k, read[t].constraints[k].columns>>
    BY <1>8 DEF IsUniquePiece, UniqueIn
  <2>2. t \in DOMAIN read
    BY <2>1 DEF IsSeen
  <2>3. Has(keys, t, k) /\ read[t].constraints[k] = keys[t][k]
    BY <1>1, <1>3, <2>1, <2>2
  <2>4. /\ IsSeen(two, t) /\ UniqueIn(two[t], k)
        /\ piece = <<"index", t, k, two[t].constraints[k].columns>>
    BY <1>3, <2>1, <2>3 DEF IsFrom, UniqueIn
  <2>5. IsUniquePiece(two, piece)
    BY <2>4 DEF IsUniquePiece
  <2> QED
    BY <2>5 DEF IsTablePiece
<1> QED
  BY <1>5, <1>6, <1>7, <1>8 DEF IsTablePiece, read

\* What is there whenever a query is made is found.
LEMMA TablePiecesAreFound ==
  ASSUME NEW s, NEW p, \A k \in 1..4 : IsWhole(p[k]), NEW piece,
         \A k \in 1..4 : IsTablePiece(PartOf(p[k], s, "tables"), piece)
  PROVE  IsTablePiece(TablesFour(p, s), piece)
<1> DEFINE one == PartOf(p[1], s, "tables")
           two == PartOf(p[2], s, "tables")
           three == PartOf(p[3], s, "tables")
           four == PartOf(p[4], s, "tables")
           read == TablesFour(p, s)
           keys == FoundKeys(p[2], s)
           foreign == FoundForeignKeys(p[3], s)
           indexes == FoundIndexes(p[4], s)
<1>0. /\ IsTablePiece(one, piece) /\ IsTablePiece(two, piece)
      /\ IsTablePiece(three, piece) /\ IsTablePiece(four, piece)
  OBVIOUS
<1>1. /\ \A t : t \in DOMAIN read <=> IsSeen(one, t)
      /\ \A t \in DOMAIN read :
           /\ DOMAIN read[t].columns = DOMAIN one[t].columns
           /\ \A c \in DOMAIN one[t].columns : read[t].columns[c] = ReadColumn(one[t].columns[c])
           /\ \A n : n \in DOMAIN read[t].constraints <=> Has(keys, t, n) \/ Has(foreign, t, n)
           /\ \A n : Has(foreign, t, n) => read[t].constraints[n] = foreign[t][n]
           /\ \A n : Has(keys, t, n) /\ ~Has(foreign, t, n) => read[t].constraints[n] = keys[t][n]
           /\ \A n : n \in DOMAIN read[t].indexes <=> Has(indexes, t, n)
           /\ \A n : Has(indexes, t, n) => read[t].indexes[n] = indexes[t][n]
  BY TablesReadFacts DEF IsSeen
<1>2. IsWhole(p[1]) /\ IsWhole(p[2]) /\ IsWhole(p[3]) /\ IsWhole(p[4])
  OBVIOUS
<1>3. /\ \A t, k : Has(keys, t, k) <=>
           t \in DOMAIN two /\ k \in DOMAIN two[t].constraints
             /\ two[t].constraints[k].type \in {"primary_key", "unique", "check"}
      /\ \A t, k : Has(keys, t, k) => IsFrom(two, t, k, keys[t][k])
      /\ \A t, k : Has(foreign, t, k) <=>
           t \in DOMAIN three /\ k \in DOMAIN three[t].constraints
             /\ three[t].constraints[k].type \in {"foreign_key"}
      /\ \A t, k : Has(foreign, t, k) => IsFrom(three, t, k, foreign[t][k])
  BY <1>2, FoundFacts, KeysFound, ForeignKeysFound
<1>4. /\ \A t, x : Has(indexes, t, x) <=>
           t \in DOMAIN four /\ (x \in DOMAIN four[t].indexes \/ UniqueIn(four[t], x))
      /\ \A t, x : Has(indexes, t, x) /\ x \in DOMAIN four[t].indexes => indexes[t][x] = four[t].indexes[x]
      /\ \A t, x : Has(indexes, t, x) /\ x \notin DOMAIN four[t].indexes =>
           indexes[t][x] = [columns |-> four[t].constraints[x].columns, method |-> "btree"]
  <2> DEFINE found == FoundIndexes(p[4], s)
  <2> SUFFICES ASSUME NEW t, NEW x
               PROVE  /\ Has(found, t, x) <=>
                           t \in DOMAIN four /\ (x \in DOMAIN four[t].indexes \/ UniqueIn(four[t], x))
                      /\ Has(found, t, x) /\ x \in DOMAIN four[t].indexes => found[t][x] = four[t].indexes[x]
                      /\ Has(found, t, x) /\ x \notin DOMAIN four[t].indexes =>
                           found[t][x] = [columns |-> four[t].constraints[x].columns, method |-> "btree"]
    OBVIOUS
  <2> QED
    BY FoundIndexesFacts
<1>5. /\ \A t \in DOMAIN one : IsWholeTable(one[t])
      /\ \A t \in DOMAIN two : IsWholeTable(two[t])
      /\ \A t \in DOMAIN four : IsWholeTable(four[t])
  BY <1>2, PartOfWhole
<1> HIDE DEF one, two, three, four, read, keys, foreign, indexes
<1>6. CASE IsColumnPiece(one, piece)
  <2>1. PICK t, c : /\ IsSeen(one, t) /\ c \in DOMAIN one[t].columns
                    /\ piece = <<"column", t, c, ReadColumn(one[t].columns[c])>>
    BY <1>6 DEF IsColumnPiece
  <2>2. t \in DOMAIN read /\ c \in DOMAIN read[t].columns
    BY <1>1, <2>1
  <2>3. IsSeen(read, t) /\ ReadColumn(read[t].columns[c]) = ReadColumn(one[t].columns[c])
    BY <1>1, <2>1, <2>2, ColumnReadTwice DEF IsSeen
  <2> QED
    BY <2>1, <2>2, <2>3 DEF IsTablePiece, IsColumnPiece, read
<1>7. CASE IsConstraintPiece(one, piece)
  <2>1. PICK t, k : /\ IsSeen(one, t) /\ k \in DOMAIN one[t].constraints
                    /\ piece = <<"constraint", t, k, Says(one[t].constraints[k])>>
    BY <1>7 DEF IsConstraintPiece
  <2>2. /\ IsSeen(two, t) /\ k \in DOMAIN two[t].constraints
        /\ piece = <<"constraint", t, k, Says(two[t].constraints[k])>>
    BY <1>0, <2>1 DEF IsTablePiece, IsColumnPiece, IsConstraintPiece, IsIndexPiece, IsUniquePiece
  <2>3. /\ IsSeen(three, t) /\ k \in DOMAIN three[t].constraints
        /\ piece = <<"constraint", t, k, Says(three[t].constraints[k])>>
    BY <1>0, <2>1 DEF IsTablePiece, IsColumnPiece, IsConstraintPiece, IsIndexPiece, IsUniquePiece
  <2>4. two[t].constraints[k].type = three[t].constraints[k].type
    <3>1. Says(two[t].constraints[k]) = Says(three[t].constraints[k])
      BY <2>2, <2>3
    <3> QED
      BY <3>1 DEF Says
  <2>5. two[t].constraints[k].type \in {"primary_key", "unique", "check", "foreign_key"}
    BY <1>5, <2>2 DEF IsWholeTable, IsConstraint, IsSeen
  <2>6. /\ t \in DOMAIN read /\ DOMAIN read[t].columns # {}
    <3>1. IsWholeTable(one[t]) /\ t \in DOMAIN one
      BY <1>5, <2>1 DEF IsSeen
    <3>2. DOMAIN one[t].columns # {}
      BY <2>1, <3>1, HasColumns
    <3> QED
      BY <1>1, <2>1, <3>2
  <2>7. k \in DOMAIN read[t].constraints /\ Says(read[t].constraints[k]) = Says(two[t].constraints[k])
    <3>1. CASE Has(foreign, t, k)
      BY <1>1, <1>3, <2>1, <2>2, <2>3, <2>6, <3>1 DEF IsFrom
    <3>2. CASE ~Has(foreign, t, k)
      <4>1. Has(keys, t, k)
        BY <1>3, <2>2, <2>3, <2>4, <2>5, <3>2 DEF IsSeen
      <4> QED
        BY <1>1, <1>3, <2>6, <3>2, <4>1 DEF IsFrom
    <3> QED
      BY <3>1, <3>2
  <2>8. IsSeen(read, t)
    BY <2>6 DEF IsSeen
  <2> QED
    BY <2>2, <2>7, <2>8 DEF IsTablePiece, IsConstraintPiece, read
<1>8. CASE IsIndexPiece(one, piece) \/ IsUniquePiece(one, piece)
  <2>1. PICK t, x, columns :
          /\ IsSeen(one, t) /\ (DOMAIN one[t].indexes # {} \/ DOMAIN one[t].constraints # {})
          /\ piece = <<"index", t, x, columns>>
    <3>1. CASE IsIndexPiece(one, piece)
      BY <3>1 DEF IsIndexPiece
    <3>2. CASE IsUniquePiece(one, piece)
      BY <3>2 DEF IsUniquePiece, UniqueIn
    <3> QED
      BY <1>8, <3>1, <3>2
  <2>2. /\ IsSeen(four, t)
        /\ \/ x \in DOMAIN four[t].indexes /\ columns = four[t].indexes[x].columns
           \/ UniqueIn(four[t], x) /\ columns = four[t].constraints[x].columns
    BY <1>0, <2>1 DEF IsTablePiece, IsColumnPiece, IsConstraintPiece, IsIndexPiece, IsUniquePiece
  <2>3. t \in DOMAIN read /\ IsSeen(read, t)
    <3>1. IsWholeTable(one[t]) /\ t \in DOMAIN one
      BY <1>5, <2>1 DEF IsSeen
    <3>2. DOMAIN one[t].columns # {}
      BY <2>1, <3>1, HasColumns
    <3>3. t \in DOMAIN read /\ DOMAIN read[t].columns # {}
      BY <1>1, <2>1, <3>2
    <3> QED
      BY <3>3 DEF IsSeen
  <2>4. UniqueIn(four[t], x) => x \notin DOMAIN four[t].indexes
    <3>1. DOMAIN four[t].indexes \cap KeysOf(four[t]) = {}
      BY <1>5, <2>2 DEF IsSeen, IsWholeTable
    <3> QED
      BY <3>1 DEF UniqueIn, KeysOf, IsKey
  <2>5. Has(indexes, t, x) /\ indexes[t][x].columns = columns
    <3>1. Has(indexes, t, x)
      BY <1>4, <2>2 DEF IsSeen
    <3>2. CASE x \in DOMAIN four[t].indexes
      BY <1>4, <2>2, <2>4, <3>1, <3>2
    <3>3. CASE x \notin DOMAIN four[t].indexes
      <4>1. indexes[t][x] = [columns |-> four[t].constraints[x].columns, method |-> "btree"]
        BY <1>4, <3>1, <3>3
      <4>2. columns = four[t].constraints[x].columns
        BY <2>2, <3>3
      <4> QED
        BY <3>1, <4>1, <4>2
    <3> QED
      BY <3>2, <3>3
  <2>6. x \in DOMAIN read[t].indexes /\ read[t].indexes[x].columns = columns
    BY <1>1, <2>3, <2>5
  <2> QED
    BY <2>1, <2>3, <2>6 DEF IsTablePiece, IsIndexPiece, read
<1> QED
  BY <1>0, <1>6, <1>7, <1>8 DEF IsTablePiece, read

\* A query of the other things finds what there is, and nothing else.
LEMMA OtherPiecesRead ==
  ASSUME NEW s, NEW a, NEW piece
  PROVE  /\ IsTypePiece(loadEnumTypes(a, s), piece) <=> IsTypePiece(PartOf(a, s, "types"), piece)
         /\ IsViewPiece(loadViews(a, s), piece) <=> IsViewPiece(PartOf(a, s, "views"), piece)
         /\ (\A q \in DOMAIN PartOf(a, s, "sequences") : IsSequence(PartOf(a, s, "sequences")[q])) =>
              (IsSequencePiece(loadSequences(a, s), piece) <=> IsSequencePiece(PartOf(a, s, "sequences"), piece))
         /\ IsExtensionPiece(loadExtensions(a, s), piece) <=> IsExtensionPiece(PartOf(a, s, "extensions"), piece)
<1>1. IsTypePiece(loadEnumTypes(a, s), piece) <=> IsTypePiece(PartOf(a, s, "types"), piece)
  <2> DEFINE types == PartOf(a, s, "types")
             read == loadEnumTypes(a, s)
  <2>1. /\ \A n : n \in DOMAIN read <=> n \in DOMAIN types /\ types[n] # <<>>
        /\ \A n \in DOMAIN read : read[n] = types[n]
    BY DEF loadEnumTypes, RestrictDomain, Restrict
  <2> HIDE DEF types, read
  <2>2. IsTypePiece(read, piece) <=> IsTypePiece(types, piece)
    BY <2>1 DEF IsTypePiece
  <2> QED
    BY <2>2 DEF types, read
<1>2. ASSUME \A q \in DOMAIN PartOf(a, s, "sequences") : IsSequence(PartOf(a, s, "sequences")[q])
      PROVE  IsSequencePiece(loadSequences(a, s), piece) <=> IsSequencePiece(PartOf(a, s, "sequences"), piece)
  <2> DEFINE sequences == PartOf(a, s, "sequences")
             read == loadSequences(a, s)
  <2>1. /\ DOMAIN read = DOMAIN sequences
        /\ \A q \in DOMAIN sequences : read[q] = [sequences[q] EXCEPT !.owner = ""]
    BY DEF loadSequences
  <2> HIDE DEF sequences, read
  <2>2. \A q \in DOMAIN sequences : read[q].increment = sequences[q].increment /\ read[q].cycle = sequences[q].cycle
    BY <1>2, <2>1 DEF IsSequence, sequences
  <2>3. IsSequencePiece(read, piece) <=> IsSequencePiece(sequences, piece)
    BY <2>1, <2>2 DEF IsSequencePiece
  <2> QED
    BY <2>3 DEF sequences, read
<1> QED
  BY <1>1, <1>2 DEF loadViews, loadExtensions

\* What has been read of a namespace was there when one of the queries was made, and
\* what was there at all of them has been read.
LEMMA PiecesRead ==
  ASSUME NEW ns, NEW s, NEW p, Reads(ns, s, 9, p), \A k \in 1..8 : IsWhole(p[k]), NEW piece
  PROVE  /\ piece \in Pieces(ns) => \E k \in 1..8 : piece \in PiecesIn(p[k], s)
         /\ (\A k \in 1..8 : piece \in PiecesIn(p[k], s)) => piece \in Pieces(ns)
<1> DEFINE part(k, name) == PartOf(p[k], s, name)
           tables == ns.tables
<1>1. /\ ns.tables = TablesFour(p, s) /\ ns.types = loadEnumTypes(p[5], s) /\ ns.views = loadViews(p[6], s)
      /\ ns.sequences = loadSequences(p[7], s) /\ ns.extensions = loadExtensions(p[8], s)
  BY DEF Reads
<1>2. \A q \in DOMAIN PartOf(p[7], s, "sequences") : IsSequence(PartOf(p[7], s, "sequences")[q])
  <2>1. IsWhole(p[7])
    OBVIOUS
  <2> QED
    BY <2>1, PartOfWhole DEF Others, IsOf
<1>3. /\ IsTypePiece(ns.types, piece) <=> IsTypePiece(part(5, "types"), piece)
      /\ IsViewPiece(ns.views, piece) <=> IsViewPiece(part(6, "views"), piece)
      /\ IsSequencePiece(ns.sequences, piece) <=> IsSequencePiece(part(7, "sequences"), piece)
      /\ IsExtensionPiece(ns.extensions, piece) <=> IsExtensionPiece(part(8, "extensions"), piece)
  BY <1>1, <1>2, OtherPiecesRead
<1>4. \A k \in 1..4 : IsWhole(p[k])
  OBVIOUS
<1>5. /\ IsTablePiece(tables, piece) => \E k \in 1..4 : IsTablePiece(part(k, "tables"), piece)
      /\ (\A k \in 1..4 : IsTablePiece(part(k, "tables"), piece)) => IsTablePiece(tables, piece)
  BY <1>1, <1>4, TablePiecesAreThere, TablePiecesAreFound
<1>6. \A k \in 1..8 : piece \in PiecesIn(p[k], s) <=>
        \/ IsTablePiece(part(k, "tables"), piece) \/ IsTypePiece(part(k, "types"), piece)
        \/ IsViewPiece(part(k, "views"), piece) \/ IsSequencePiece(part(k, "sequences"), piece)
        \/ IsExtensionPiece(part(k, "extensions"), piece)
  BY PieceIn
<1>7. piece \in Pieces(ns) <=>
        \/ IsTablePiece(tables, piece) \/ IsTypePiece(ns.types, piece) \/ IsViewPiece(ns.views, piece)
        \/ IsSequencePiece(ns.sequences, piece) \/ IsExtensionPiece(ns.extensions, piece)
  BY PieceOf
<1> HIDE DEF part, tables
<1>8. ASSUME piece \in Pieces(ns)
      PROVE  \E k \in 1..8 : piece \in PiecesIn(p[k], s)
  BY <1>3, <1>5, <1>6, <1>7, <1>8
<1>9. ASSUME \A k \in 1..8 : piece \in PiecesIn(p[k], s)
      PROVE  piece \in Pieces(ns)
  <2>1. \A k, l \in 1..8 :
          /\ IsTypePiece(part(k, "types"), piece) =>
               IsTypePiece(part(l, "types"), piece)
          /\ IsViewPiece(part(k, "views"), piece) => IsViewPiece(part(l, "views"), piece)
          /\ IsSequencePiece(part(k, "sequences"), piece) => IsSequencePiece(part(l, "sequences"), piece)
          /\ IsExtensionPiece(part(k, "extensions"), piece) => IsExtensionPiece(part(l, "extensions"), piece)
          /\ IsTablePiece(part(k, "tables"), piece) => IsTablePiece(part(l, "tables"), piece)
    <3> DEFINE Of(kind) == piece[1] = kind
    <3>1. \A k \in 1..8 :
            /\ IsTypePiece(part(k, "types"), piece) => Of("type")
            /\ IsViewPiece(part(k, "views"), piece) => Of("view")
            /\ IsSequencePiece(part(k, "sequences"), piece) => Of("sequence")
            /\ IsExtensionPiece(part(k, "extensions"), piece) => Of("extension")
      BY DEF IsTypePiece, IsViewPiece, IsSequencePiece, IsExtensionPiece
    <3>2. \A k \in 1..8 :
            IsTablePiece(part(k, "tables"), piece) => Of("column") \/ Of("constraint") \/ Of("index")
      BY DEF IsTablePiece, IsColumnPiece, IsConstraintPiece, IsIndexPiece, IsUniquePiece
    <3> HIDE DEF Of
    <3>3. \A x, y \in {"type", "view", "sequence", "extension", "column", "constraint", "index"} :
            Of(x) /\ Of(y) => x = y
      BY DEF Of
    <3> QED
      BY <1>6, <1>9, <3>1, <3>2, <3>3
  <2> QED
    BY <1>3, <1>5, <1>6, <1>7, <1>9, <2>1
<1> QED
  BY <1>8, <1>9

\* Of a namespace that has been read from the first databases.
LEMMA ReadOfMoments ==
  ASSUME PastInv, seen \in 1..Len(past), NEW ns, NEW s, WasRead(ns, s, 9, Moments(seen))
  PROVE  /\ Pieces(ns) \subseteq UNION {PiecesIn(past[k], s) : k \in 1..seen}
         /\ \A piece \in PiecesIn(past[1], s) :
              (\A k \in 1..seen : piece \in PiecesIn(past[k], s)) => piece \in Pieces(ns)
<1>1. PICK p \in [1..8 -> Moments(seen)] : Reads(ns, s, 9, p)
  BY DEF WasRead
<1>2. \A k \in 1..8 : IsWhole(p[k]) /\ \E m \in 1..seen : p[k] = past[m]
  BY PastFacts DEF Moments
<1>3. ASSUME NEW piece \in Pieces(ns)
      PROVE  piece \in UNION {PiecesIn(past[k], s) : k \in 1..seen}
  <2>1. PICK k \in 1..8 : piece \in PiecesIn(p[k], s)
    BY <1>1, <1>2, PiecesRead
  <2>2. PICK m \in 1..seen : p[k] = past[m]
    BY <1>2
  <2> QED
    BY <2>1, <2>2
<1>4. ASSUME NEW piece, \A k \in 1..seen : piece \in PiecesIn(past[k], s)
      PROVE  piece \in Pieces(ns)
  <2>1. \A k \in 1..8 : piece \in PiecesIn(p[k], s)
    BY <1>2, <1>4
  <2> QED
    BY <1>1, <1>2, <2>1, PiecesRead
<1> QED
  BY <1>3, <1>4

\* However the eight queries of each namespace and the statements of the other
\* session mix (introspect.go:61), the first argument of ComputeDiff has everything that
\* was in the database all the time, and nothing that was never in it.
THEOREM ReadIsThere == LiveSpec => []ReadsWhatWasThere
<1>1. LiveInv => ReadsWhatWasThere
  <2> SUFFICES ASSUME LiveInv, pc \notin {"load", "failed"}
               PROVE  /\ DOMAIN loaded = LoadedNames(request.schemas)
                      /\ \A s \in DOMAIN loaded :
                           /\ Pieces(loaded[s]) \subseteq UNION {PiecesIn(past[k], s) : k \in 1..seen}
                           /\ \A piece \in PiecesIn(past[1], s) :
                                (\A k \in 1..seen : piece \in PiecesIn(past[k], s)) => piece \in Pieces(loaded[s])
    BY DEF ReadsWhatWasThere
  <2>1. /\ PastInv /\ seen \in 1..Len(past) /\ DOMAIN loaded = LoadedNames(request.schemas)
        /\ \A s \in DOMAIN loaded : WasRead(loaded[s], s, 9, Moments(seen))
    BY DEF LiveInv, SeenInv
  <2> QED
    BY <2>1, ReadOfMoments
<1> QED
  BY <1>1, LiveInvAlways, PTL
=============================================================================
