-------------------------- MODULE MCIntrospection --------------------------
(* Pushes of a few files into two databases, of which the other session    *)
(* changes any part.                                                       *)
EXTENDS Introspection, MCExecutionPlan

MCMaxChanges == 2

Live(database, file, schemas, others) ==
  {[database |-> database, read |-> TRUE, source |-> <<>>, target |-> file, schemas |-> schemas,
    unsafeDrop |-> u, others |-> others] : u \in BOOLEAN}

----------------------------------------------------------------------------
(* One namespace with something of every sort.                             *)

Columns(mail) == "id" :> Plain @@ mail
Counter == "counter" :> [increment |-> 1, cycle |-> FALSE, owner |-> ""]
Recent(text) == "recent" :> View(FALSE, text, {<<"public", "users", "id">>})
UsersTable(mail) == "users" :> Table(Columns(mail), PrimaryKey("users"), "idx" :> On1("id", "btree"))
OrdersTable(k) == "orders" :> Table("id" :> Plain, PrimaryKey("orders") @@ k, None)
ItsFk == "fk" :> Fk("public", "users", "")

Shop == Namespace(UsersTable("mail" :> Text) @@ OrdersTable(ItsFk), "state" :> <<"new">>, Recent("a"), Counter,
                  "citext" :> "1.0")

\* What the file says of it: the same; more of it; less of it; something else.
Files ==
  {Shop,
   Namespace(UsersTable("mail" :> Text @@ "amount" :> Of("int")) @@ OrdersTable(ItsFk) @@ Linked({"items"}, "items" :> "users").tables,
             "state" :> <<"new", "paid">>, Recent("b"), Counter, "citext" :> "1.1"),
   Namespace(UsersTable("login" :> Text), None, None, None, None),
   Namespace(UsersTable("mail" :> Of("varchar")) @@ OrdersTable(None), "state" :> <<"new">>, None,
             "counter" :> [increment |-> 2, cycle |-> FALSE, owner |-> ""], "citext" :> "1.0")}

U == "public"
OfColumns ==
  {Statement(RenameColumnOp(U, "users", "mail"), "login"),
   Statement(DropColumnOp(U, "users", "mail"), ""),
   Statement(AddColumnOp(U, "users", "amount"), Of("int")),
   Statement(AlterColumnTypeOp(U, "users", "mail"), "varchar"),
   Statement(SetNotNullOp(U, "users", "mail"), "")}
OfTables ==
  {Statement(DropTableOp(U, "orders"), ""),
   Statement(AddTableOp(U, "items", Linked({"items"}, "items" :> "users").tables["items"]),
             Linked({"items"}, "items" :> "users").tables["items"]),
   Statement(DropConstraintOp(U, "orders", "fk"), ""),
   Statement(DropIndexOp(U, "idx"), "")}
OfOthers ==
  {Statement(AddEnumLabelOp(U, "state", "paid"), ""),
   Statement(DropAnyViewOp(U, "recent", View(FALSE, "a", {}), FALSE), ""),
   Statement(ReplaceViewOp(U, "recent"), View(FALSE, "b", {})),
   Statement(DropSequenceOp(U, "counter"), "")}

Mixed ==
  {Statement(RenameColumnOp(U, "users", "mail"), "login"),
   Statement(AddConstraintOp(U, "users", "amount"), KeyOn("unique", "mail")),
   Statement(CreateIndexOp(U, "users", "email"), [table |-> "users", index |-> On1("mail", "btree")]),
   Statement(DropTableOp(U, "orders"), "")}

----------------------------------------------------------------------------
(* Two namespaces and a foreign key of two columns from one into the other.*)

Pair == <<"id", "mail">>
TwoUsers ==
  "users" :> Table(Columns("mail" :> Text),
                   "login" :> [type |-> "unique", columns |-> Pair, ref |-> NoRef, expression |-> <<>>]
                     @@ "amount" :> Check(<<"id", "> 0">>), None)
TwoOrders ==
  "orders" :> Table(Columns("mail" :> Text),
                    "fk" :> [type |-> "foreign_key", columns |-> Pair, expression |-> <<>>,
                             ref |-> [schema |-> "public", table |-> "users", columns |-> Pair, actions |-> ""]],
                    None)
TwoNamespaces == "public" :> OnlyTables(TwoUsers) @@ "shop" :> OnlyTables(TwoOrders)

OfBoth ==
  {Statement(DropConstraintOp("shop", "orders", "fk"), ""),
   Statement(DropTableOp("shop", "orders"), ""),
   Statement(RenameColumnOp(U, "users", "mail"), "login"),
   Statement(DropTableOp(U, "users"), ""),
   Statement(DropSchemaOp("shop"), "")}

MCLiveRequests ==
  UNION {Live("public" :> Shop, "public" :> file, {}, others) :
           file \in Files, others \in {OfColumns, OfTables, OfOthers, Mixed}}
    \cup UNION {Live(TwoNamespaces, TwoNamespaces, schemas, OfBoth) : schemas \in {{"public", "shop"}, {"shop"}}}
=============================================================================
