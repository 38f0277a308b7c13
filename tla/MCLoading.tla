----------------------------- MODULE MCLoading -----------------------------
(* Scripts of up to five statements, spread over up to three files in      *)
(* every way, one file of which may be at fault.                           *)
EXTENDS Loading, StatementSamples, TLC

Project(script, fileOf, n, unreadable, broken, unterminated) ==
  [script |-> script, fileOf |-> fileOf, files |-> n, unreadable |-> unreadable,
   broken |-> broken, unterminated |-> unterminated]

\* In every order that the names of n files can bring about.
Spread(script, n) ==
  {Project(script, f, n, {}, {}, {}) : f \in [DOMAIN script -> 1..n]}

UsersWithMail == CreateTableS(T, FALSE, <<Id, Mail>>, <<>>)
Check == AddConstraintS(T, Con(<<"c">>, "check", <<>>, "id > 0"))
Exclude == Con(<<"x">>, "exclude", <<"id">>, "=")
Login == Col("login", "text", FALSE, "none", <<Con(<<>>, "unique", <<>>, "")>>)

\* Scripts whose every statement says something of its own.
Scripts ==
  {<<Users, AddColumnS(T, FALSE, Mail), ColumnS("set_not_null", T, "mail"), Check,
     IndexS(T, FALSE, <<"i">>, <<"mail">>)>>,
   <<Users, AddColumnS(T, FALSE, Mail), AddColumnS(T, FALSE, Amount),
     ToS("alter_type", T, "mail", "varchar"), ToS("set_default", T, "amount", "1")>>,
   <<UsersWithMail, ToS("alter_type", T, "mail", "varchar"), ColumnS("drop_not_null", T, "mail"),
     Orders, AddColumnS(U, FALSE, Mail)>>,
   <<ObjectS("type", "state", FALSE, FALSE, "a"), Users, ColumnS("drop_default", T, "id")>>,
   <<Users, AddColumnS(T, FALSE, Mail), ColumnS("drop_column", T, "mail")>>,
   <<Users, Ignore, AddColumnS(T, FALSE, Mail), AddConstraintS(T, Exclude)>>,
   <<CreateTableS(T, FALSE, <<Id>>, <<Exclude>>), AddColumnS(T, FALSE, Login),
     ColumnS("set_not_null", T, "login"), Check>>}

SpreadScripts ==
  UNION {Spread(s, 3) : s \in {s \in Scripts : Len(s) < 5}} \cup UNION {Spread(s, 2) : s \in Scripts}

----------------------------------------------------------------------------
(* Scripts that PostgreSQL would refuse, statements that are not handled,  *)
(* renames, drops, and files that are at fault.                            *)

Unsupported == [kind |-> "unsupported"]

OddScripts ==
  {<<Users, Users, Unsupported>>,
   <<AddColumnS(T, FALSE, Mail), CreateTableS(T, FALSE, <<Id, Amount>>, <<>>),
     AddColumnS(T, FALSE, Col("amount", "text", FALSE, "none", <<>>))>>,
   <<AddColumnS(T, FALSE, Mail), CreateTableS(T, FALSE, <<Amount, Amount, Mail>>, <<>>)>>,
   <<AddColumnS(T, FALSE, Mail),
     CreateTableS(T, FALSE, <<Amount, Col("amount", "text", FALSE, "none", <<>>)>>, <<>>)>>,
   <<UsersWithMail, ToS("rename_column", T, "mail", "login"), ColumnS("drop_column", T, "login")>>,
   <<UsersWithMail, ToS("rename_column", T, "mail", "login"), ColumnS("drop_column", T, "id"),
     ToS("rename_column", T, "login", "mail"), ColumnS("drop_column", T, "mail")>>,
   <<UsersWithMail, ToS("rename_column", T, "mail", "id"), ToS("rename_column", T, "no", "id")>>,
   <<UsersWithMail, ColumnS("drop_column", T, "mail"), ColumnS("drop_column", T, "mail"),
     ColumnS("set_not_null", T, "mail")>>,
   <<Users, Check, DropConstraintS(T, <<"c">>), IndexS(T, FALSE, <<"i">>, <<"id">>),
     IndexS(T, TRUE, <<"i">>, <<"id">>)>>,
   <<IndexS(T, FALSE, <<"i">>, <<"id">>), IndexS(T, FALSE, <<"i">>, <<"id">>), Users,
     [kind |-> "create_schema", namespace |-> "shop"]>>,
   <<ObjectS("type", "state", FALSE, FALSE, "a"), ObjectS("type", "state", FALSE, FALSE, "b")>>}

Faulty(script) ==
  UNION {{Project(script, f, 2, {k}, {}, {}), Project(script, f, 2, {}, {k}, {}),
          Project(script, f, 2, {}, {}, {k})} :
           f \in [DOMAIN script -> 1..2], k \in 1..2}

AnyFiles ==
  {Project(<<>>, <<>>, 0, {}, {}, {})}
    \cup UNION {Spread(s, 2) : s \in OddScripts}
    \cup UNION {Faulty(s) : s \in {<<Users>>, <<Users, AddColumnS(T, FALSE, Mail)>>}}

MCProjects == SpreadScripts \cup AnyFiles

----------------------------------------------------------------------------
\* An index in a file of its own.
MCIndexInAnotherFile == Spread(<<Users, IndexS(T, FALSE, <<"i">>, <<"id">>)>>, 2)
=============================================================================
