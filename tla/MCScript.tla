------------------------------ MODULE MCScript ------------------------------
(* Scripts of a few statements on one or two tables, made of one menu of   *)
(* statements each.                                                        *)
EXTENDS Script, StatementSamples, TLC

OnMail == Con(<<"u">>, "unique", <<"mail">>, "")

PlainColumns ==
  {Users, CreateTableS(T, FALSE, <<Id, Mail>>, <<OnMail>>),
   AddColumnS(T, FALSE, Mail), AddColumnS(T, FALSE, Amount)}
  \cup {ToS("alter_type", T, "amount", "bigint"), ToS("set_default", T, "mail", "''")}
  \cup {ColumnS(kind, T, n) : kind \in {"set_not_null", "drop_not_null"}, n \in {"mail"}}
  \cup {ColumnS("drop_default", T, "amount")}

Drops == {ColumnS("drop_column", T, n) : n \in {"mail", "amount"}}

Shop ==
  {Orders, [kind |-> "create_schema", namespace |-> "shop"], AddColumnS(U, FALSE, Mail)}

\* Constraints and indexes, two of the constraints with the same made-up name.
Belongings ==
  {AddConstraintS(T, Con(<<"c">>, "check", <<>>, "id > 0")),
   AddConstraintS(T, Con(<<>>, "foreign_key", <<"id">>, "shop.orders")),
   DropConstraintS(T, <<"c">>),
   IndexS(T, FALSE, <<>>, <<"id">>), IndexS(T, FALSE, <<"i">>, <<"id">>),
   IndexS(T, TRUE, <<"i">>, <<"id">>)}

TwoChecks ==
  CreateTableS(T, FALSE, <<Id>>,
    <<Con(<<>>, "check", <<>>, "id > 0"), Con(<<>>, "check", <<>>, "id < 9")>>)

Others ==
  {ObjectS("type", "state", FALSE, FALSE, "a"), ObjectS("view", "v", FALSE, TRUE, "a"),
   ObjectS("view", "v", FALSE, TRUE, "b"), ObjectS("extension", "e", TRUE, FALSE, "1")}

\* Columns that come, change and go, in one table, with a few more in another.
ColumnMenu == PlainColumns \cup Drops \cup Shop

\* All that a schema consists of, where nothing is dropped but a constraint.
PartMenu == {Users, TwoChecks, AddColumnS(T, FALSE, Mail)} \cup Shop \cup Belongings \cup Others

\* Constraints and indexes on columns that are renamed.
RenameMenu ==
  (PlainColumns \ {Users})
    \cup {ToS("rename_column", T, a, b) : a, b \in {"mail", "login"}}
    \cup {IndexS(T, FALSE, <<"i">>, <<"mail">>), IndexS(T, FALSE, <<"j">>, <<"login">>)}
    \cup {DropConstraintS(T, <<"u">>)}

\* Constraints and indexes on columns that are dropped.
DropMenu ==
  {CreateTableS(T, FALSE, <<Id, Mail>>, <<OnMail>>), AddColumnS(T, FALSE, Amount),
   IndexS(T, FALSE, <<"i">>, <<"mail">>), AddConstraintS(T, Con(<<"c">>, "unique", <<"amount">>, ""))}
    \cup Drops

MCMenus == {ColumnMenu, PartMenu, RenameMenu, DropMenu}

----------------------------------------------------------------------------
\* A column that is dropped under its new name.
MCRenameDrop ==
  {{CreateTableS(T, FALSE, <<Id, Mail, Amount>>, <<>>), ToS("rename_column", T, "mail", "login"),
    ColumnS("drop_column", T, "login")}}
=============================================================================
