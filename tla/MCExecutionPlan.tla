-------------------------- MODULE MCExecutionPlan --------------------------
(* ExecutionPlan and Convergence on pairs of small schemas that differ in  *)
(* one part, or in two parts of which one needs the other.                 *)
EXTENDS Convergence

MCNames ==
  <<"amount", "citext", "counter", "email", "fk", "id", "idx", "items", "items_pkey", "login", "mail",
    "orders", "orders_pkey", "public", "recent", "shop", "state", "users", "users_pkey">>

----------------------------------------------------------------------------
(* PostgreSQL's types and defaults.                                        *)

MCBuiltin == {"int", "bigint", "text", "varchar"}
MCCollatable == {"text", "varchar"}
MCCasts ==
  {<<"int", "bigint">>, <<"bigint", "int">>, <<"int", "text">>, <<"bigint", "text">>, <<"text", "varchar">>,
   <<"varchar", "text">>, <<"text", "citext">>, <<"citext", "text">>, <<"state", "text">>}
MCFits ==
  {"int", "bigint", "text", "varchar"} \X {"0", "nextval(counter)"}
    \cup {"text", "varchar", "citext"} \X {"'new'"} \cup {<<"state", "'new'">>}
MCNextval == "nextval(counter)" :> <<"public", "counter">>

----------------------------------------------------------------------------
(* Columns, constraints, tables and namespaces to choose from.             *)

Column(type, nullable, default, collation, identity) ==
  [type |-> type, nullable |-> nullable, default |-> default, collation |-> collation,
   identity |-> identity]

Plain == Column("int", FALSE, "none", "", "none")
Of(type) == Column(type, TRUE, "none", "", "none")
Having(type, default) == Column(type, TRUE, default, "", "none")
Text == Of("text")

None == <<>>   \* no tables, no constraints, ...

NoRef == [schema |-> "", table |-> "", columns |-> <<>>, actions |-> ""]
Check(expression) == [type |-> "check", columns |-> <<>>, ref |-> NoRef, expression |-> expression]
KeyOn(type, column) == [type |-> type, columns |-> <<column>>, ref |-> NoRef, expression |-> <<>>]
FkTo(s, t, c, actions) ==
  [type |-> "foreign_key", columns |-> <<"id">>, expression |-> <<>>,
   ref |-> [schema |-> s, table |-> t, columns |-> <<c>>, actions |-> actions]]
Fk(s, t, actions) == FkTo(s, t, "id", actions)
On1(column, method) == [columns |-> <<column>>, method |-> method]

PrimaryKey(t) ==
  (CASE t = "items" -> "items_pkey" [] t = "orders" -> "orders_pkey" [] t = "users" -> "users_pkey")
    :> KeyOn("primary_key", "id")

Table(columns, constraints, indexes) ==
  [columns |-> columns, constraints |-> constraints, indexes |-> indexes]
Namespace(tables, types, views, sequences, extensions) ==
  [tables |-> tables, types |-> types, views |-> views, sequences |-> sequences,
   extensions |-> extensions]
OnlyTables(tables) == Namespace(tables, None, None, None, None)
Users(columns, constraints, indexes) == "users" :> Table(columns, constraints, indexes)

\* A map of one entry, or of none.
Maybe(name, contents) == {None} \cup {name :> c : c \in contents}

----------------------------------------------------------------------------
(* Requests.                                                               *)

Asked(database, read, source, target, schemas) ==
  {[database |-> database, read |-> read, source |-> source, target |-> target,
    schemas |-> schemas, unsafeDrop |-> u] : u \in BOOLEAN}

\* migra diff of two files, and the script given to such a database.
Request(source, target, schemas) == Asked(source, FALSE, source, target, schemas)

\* migra push of a file into a database.
Push(database, file) ==
  LET is == "public" :> database
  IN  Asked(is, TRUE, SourceFor(is, TRUE, {}), "public" :> file, {})

\* Of two versions of the public namespace: diff; push.
Diffs(S) == UNION {Request("public" :> a, "public" :> b, {}) : a, b \in S}
Pushes(S) == UNION {Push(a, b) : a, b \in S}

\* Columns that change in every field, and two or three alike that come and go.
ColumnSets ==
  {"id" :> Plain} \cup
  {"id" :> Plain @@ "state" :> c :
     c \in {Text, Column("text", FALSE, "'new'", "C", "none"), Column("varchar", FALSE, "'new'", "C", "none"),
            Having("int", "0"), Column("bigint", TRUE, "0", "", "none"),
            Column("int", FALSE, "none", "", "always"), Column("int", FALSE, "none", "", "default")}}
  \cup {"id" :> Plain @@ "login" :> Column("int", FALSE, "none", "", kind) : kind \in {"none", "always"}}
  \cup {"email" :> Text @@ "login" :> Text, "mail" :> Text, "id" :> Plain @@ "mail" :> Text,
        "email" :> Text @@ "id" :> Text}
ColumnRequests == Diffs({OnlyTables(Users(c, None, None)) : c \in ColumnSets})

\* One constraint of any sort or one index, on a column that may be new or renamed.
Constraints ==
  {Check(<<"id", "> 0">>), Check(<<"id", "> 1">>), KeyOn("unique", "id"), KeyOn("unique", "mail"),
   Fk("public", "users", ""), Fk("public", "users", "cascade")}
WithMail == {"id" :> Plain, "id" :> Plain @@ "mail" :> Text, "email" :> Text @@ "id" :> Plain}
\* Those that PostgreSQL can have.
Legal(table) ==
  /\ \A k \in Range(table.constraints) : On(k) \subseteq DOMAIN table.columns
  /\ \A x \in Range(table.indexes) : Range(x.columns) \subseteq DOMAIN table.columns
PartVersions(constraints, indexes) ==
  {OnlyTables("users" :> t) :
     t \in {t \in {Table(c, PrimaryKey("users") @@ k, x) : c \in WithMail, k \in constraints, x \in indexes} :
              Legal(t)}}
PartRequests ==
  Pushes(PartVersions(Maybe("fk", Constraints), {None}))
    \cup Diffs({OnlyTables(None)} \cup PartVersions({None}, Maybe("idx", {On1("id", "btree"), On1("mail", "btree"), On1("mail", "hash")})))

\* Three tables, each with a foreign key to any of them or none, of which the
\* database has some already, without the foreign keys.
Linked(names, refs) ==
  OnlyTables([t \in names |->
     Table("id" :> Plain,
           PrimaryKey(t) @@ (IF refs[t] = "none" THEN None ELSE "fk" :> Fk("public", refs[t], "")), None)])
LinkNames == {"items", "orders", "users"}
LinkRequests ==
  UNION {Request("public" :> Linked(had, [t \in LinkNames |-> "none"]),
                 "public" :> Linked(LinkNames, refs), {}) :
           had \in SUBSET LinkNames, refs \in [LinkNames -> LinkNames \cup {"none"}]}

\* Two tables that come, go and refer to one another, with and without their keys.
PairNames == {"orders", "users"}
Keyless == OnlyTables("users" :> Table("id" :> Plain, None, None))
PairVersions ==
  {Keyless} \cup
  {n \in {Linked(names, refs) : names \in SUBSET PairNames, refs \in [PairNames -> PairNames \cup {"none"}]} :
     \A t \in DOMAIN n.tables : References(n.tables[t]) \subseteq {TableKey("public", u) : u \in DOMAIN n.tables}}
PairRequests == Diffs(PairVersions)

View(materialized, text, reads) ==
  [materialized |-> materialized, definition |-> [text |-> text, reads |-> reads]]

\* All other objects of a namespace.
OtherRequests ==
  Diffs({Namespace(None, t, None, None, None) :
           t \in Maybe("state", {<<"new">>, <<"new", "paid">>, <<"new", "paid", "sent">>, <<"paid">>})})
  \cup Diffs({Namespace(None, None, v, None, None) :
           v \in Maybe("recent", {View(m, text, {}) : m \in BOOLEAN, text \in {"a", "b"}})})
  \cup UNION {Push(Namespace(None, None, None, a, None), Namespace(None, None, None, b, None)) :
           a \in Maybe("counter", [increment : {1, 2}, cycle : BOOLEAN, owner : {""}]),
           b \in Maybe("counter", [increment : {0, 1, 2}, cycle : BOOLEAN, owner : {"", "users.id"}])}
  \cup Diffs({Namespace(None, None, None, None, e) :
           e \in Maybe("citext", {"unknown", "1.0", "1.1"})})

\* A type, a sequence, an extension that a column needs: it comes and goes with or
\* without the column.
NeedVersions(Rest(_), columns) ==
  {Rest(t) : t \in {None} \cup {Users("id" :> Plain @@ c, None, None) : c \in columns}}
TypeVersions ==
  NeedVersions(LAMBDA t : OnlyTables(t), Maybe("state", {Of("text")}))
    \cup NeedVersions(LAMBDA t : Namespace(t, "state" :> <<"new">>, None, None, None),
                      Maybe("state", {Of("text"), Of("state"), Having("state", "'new'")}))
SequenceVersions ==
  LET counter == "counter" :> [increment |-> 1, cycle |-> FALSE, owner |-> ""]
  IN  NeedVersions(LAMBDA t : OnlyTables(t), Maybe("amount", {Of("int")}))
        \cup NeedVersions(LAMBDA t : Namespace(t, None, None, counter, None),
                          Maybe("amount", {Having("int", "nextval(counter)")}))
ExtensionVersions ==
  NeedVersions(LAMBDA t : OnlyTables(t), Maybe("mail", {Text}))
    \cup NeedVersions(LAMBDA t : Namespace(t, None, None, None, "citext" :> "1.0"),
                      Maybe("mail", {Of("citext")}))

\* A view of a column that comes, goes, is renamed or changes its type.
ViewVersions ==
  LET Reading1(m, c) == "recent" :> View(m, c, {<<"public", "users", c>>})
  IN  {OnlyTables(None)} \cup
      {Namespace(Users("id" :> Plain @@ c, None, None), None, v, None, None) :
         c \in {"mail" :> Text, "mail" :> Of("varchar"), "email" :> Text}, v \in {None}}
      \cup {Namespace(Users("id" :> Plain @@ c :> Text, None, None), None, Reading1(m, c), None, None) :
         c \in {"mail", "email"}, m \in BOOLEAN}
      \cup {Namespace(Users("id" :> Plain @@ "mail" :> Of("varchar"), None, None), None,
                      Reading1(FALSE, "mail"), None, None)}
NeedRequests ==
  Pushes(TypeVersions) \cup Diffs(SequenceVersions) \cup Diffs(ExtensionVersions) \cup Diffs(ViewVersions)

\* A primary key, and a column whose file does not say NOT NULL.
KeyRequests ==
  UNION {Push(OnlyTables(a), OnlyTables(b)) :
           a \in {None, Users("id" :> Of("int"), None, None), Users("id" :> Plain, PrimaryKey("users"), None)},
           b \in {Users("id" :> c, k, None) : c \in {Plain, Of("int")}, k \in {None, PrimaryKey("users")}}}

\* Namespaces that come and go, with foreign keys from one into the other.
WithUsers(k) == "users" :> Table("id" :> Plain, PrimaryKey("users") @@ k, None)
WithOrders(k) == "orders" :> Table("id" :> Plain, PrimaryKey("orders") @@ k, None)
PublicTables == {WithUsers(k) : k \in Maybe("fk", {Fk("shop", "orders", "")})}
ShopTables == {WithOrders(k) : k \in Maybe("fk", {Fk("public", "users", "")})}
Schemas ==
  {"public" :> OnlyTables(t) : t \in {None, WithUsers(None)}}
  \cup {"public" :> OnlyTables(t) @@ "shop" :> OnlyTables(o) : t \in PublicTables, o \in ShopTables}
SchemaRequests ==
  UNION {UNION {Asked(a, read, source, b, only) : source \in Sources(a, read, only)} :
           a, b \in Schemas, only \in {{}, {"shop"}}, read \in BOOLEAN}

MCRequests ==
  ColumnRequests \cup PartRequests \cup LinkRequests \cup PairRequests \cup OtherRequests
    \cup NeedRequests \cup KeyRequests \cup SchemaRequests
=============================================================================
