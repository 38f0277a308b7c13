------------------------------- MODULE MCDag -------------------------------
(* Dag on short lists over one constraint, its table, a second table and a  *)
(* column: foreign keys that name a table twice or each other's table, a    *)
(* constraint that is dropped and added, in every order.                    *)
EXTENDS Dag

CONSTANT MaxOps   \* bound on the length of a list

MCObjectKey == {"orders", "users", "orders.id", "orders.fk"}

Op(kind, key, dependsOn) == [kind |-> kind, key |-> key, dependsOn |-> dependsOn]

\* A table with two foreign keys to the same table names it twice.
AddOrders == {Op("add_table", "orders", d) : d \in {<<>>, <<"users", "users">>}}
AddUsers == {Op("add_table", "users", d) : d \in {<<>>, <<"orders">>, <<"users">>}}
AddColumn == Op("add_column", "orders.id", <<"orders">>)
AddFk == Op("add_constraint", "orders.fk", <<"orders", "orders.fk">>)
DropFk == Op("drop_constraint", "orders.fk", <<>>)

MCOperation == AddOrders \cup AddUsers \cup {AddColumn, AddFk, DropFk}

\* One operation of a kind for an object, as a diff has it.
OneEach(list) ==
  \A p, q \in DOMAIN list :
    list[p].kind = list[q].kind /\ list[p].key = list[q].key => p = q

MCInputs == UNION {{list \in [1..n -> MCOperation] : OneEach(list)} : n \in 0..MaxOps}
=============================================================================
