-------------------------- MODULE StatementSamples --------------------------
(* Statements for the model checker to make scripts of.                    *)
EXTENDS Statements

MCUnreadable == {"true"}   \* the default true is no constant that ParseExpression knows

T == <<"public", "users">>
U == <<"shop", "orders">>

Col(name, type, notNull, default, inline) ==
  [name |-> name, type |-> type, notNull |-> notNull, default |-> default, inline |-> inline]
Con(name, type, columns, rest) ==
  [name |-> name, type |-> type, columns |-> columns, rest |-> rest]
Key == <<Con(<<>>, "primary_key", <<>>, "")>>

CreateTableS(t, ifNotExists, columns, constraints) ==
  [kind |-> "create_table", table |-> t, ifNotExists |-> ifNotExists, columns |-> columns,
   constraints |-> constraints]
AddColumnS(t, ifNotExists, column) ==
  [kind |-> "add_column", table |-> t, ifNotExists |-> ifNotExists, column |-> column]
ColumnS(kind, t, name) == [kind |-> kind, table |-> t, name |-> name]
ToS(kind, t, name, to) == [kind |-> kind, table |-> t, name |-> name, to |-> to]
AddConstraintS(t, c) == [kind |-> "add_constraint", table |-> t, constraint |-> c]
DropConstraintS(t, name) == [kind |-> "drop_constraint", table |-> t, constraintName |-> name]
IndexS(t, ifNotExists, name, columns) ==
  [kind |-> "create_index", table |-> t, ifNotExists |-> ifNotExists,
   index |-> [name |-> name, columns |-> columns, rest |-> "btree"]]
ObjectS(type, name, ifNotExists, orReplace, content) ==
  [kind |-> "create_object", object |-> <<type, "public", name>>, ifNotExists |-> ifNotExists,
   orReplace |-> orReplace, content |-> content]
Ignore == [kind |-> "ignored"]

----------------------------------------------------------------------------
(* Tables, columns and what is said of them.                               *)

Id == Col("id", "int", FALSE, "none", Key)
Users == CreateTableS(T, FALSE, <<Id>>, <<>>)
Orders == CreateTableS(U, FALSE, <<Id>>, <<>>)
Mail == Col("mail", "text", FALSE, "none", <<>>)
Amount == Col("amount", "int", TRUE, "0", <<>>)
=============================================================================
