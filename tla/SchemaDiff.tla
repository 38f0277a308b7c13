----------------------------- MODULE SchemaDiff -----------------------------
(***************************************************************************)
(* internal/diff: the comparison of two schemas, as the list of steps the  *)
(* nested loops of the differ go through.                                  *)
(*                                                                         *)
(* A schema is a function from namespace names to namespaces, a namespace  *)
(* a record of functions from the names of its tables, types, views,       *)
(* sequences and extensions to their contents.  Contents that the differ   *)
(* only compares are single values.                                        *)
(***************************************************************************)
EXTENDS Operations, FiniteSetsExt, Functions, Select

CONSTANT Names   \* every name there is, in alphabetical order

ASSUME NamesAssumption == Names \in Seq(STRING) /\ IsInjective(Names)

Sorted(S) == Select(Names, {k \in DOMAIN Names : Names[k] \in S})

\* A loop over the names in S, sorted first.
Each(S, Body(_)) == [k \in DOMAIN Sorted(S) |-> Body(Sorted(S)[k])]
EachOp(S, Body(_)) == FlattenSeq(Each(S, Body))

When(condition, op) == IF condition THEN <<op>> ELSE <<>>

----------------------------------------------------------------------------
(* Steps.  A step adds the operations of one of its alternatives; a        *)
(* checked one first looks at the context and, if that has expired,        *)
(* returns from the innermost of the calls it is in.                       *)

Checked(operations) == [checked |-> TRUE, adds |-> {operations}, calls |-> <<>>]
Unchecked(operations) == [checked |-> FALSE, adds |-> {operations}, calls |-> <<>>]
\* A loop over a map: its operations come in any order.
AnyOrder(operations) == [checked |-> FALSE, adds |-> SetToSeqs(operations), calls |-> <<>>]

\* The steps of a call; calls lists the innermost first.
In(call, steps) == [k \in DOMAIN steps |-> [steps[k] EXCEPT !.calls = Append(@, call)]]

AbandonMutant(steps) == steps             \* nobody returns

\* What is left of the steps when the first one's call returns early.
Abandon(steps) ==
  Select(steps, {k \in DOMAIN steps : steps[1].calls[1] \notin Range(steps[k].calls)})

----------------------------------------------------------------------------
(* Columns.                                                                *)

diffColumnMutant(s, t, c, source, target) ==   \* a default is set, never dropped
  When(source.type # target.type, AlterColumnTypeOp(s, t, c))
    \o When(source.nullable /\ ~target.nullable, SetNotNullOp(s, t, c))
    \o When(~source.nullable /\ target.nullable, DropNotNullOp(s, t, c))
    \o When(target.default \notin {source.default, "none"}, SetDefaultOp(s, t, c))
    \o When(source.collation # target.collation, AlterColumnCollationOp(s, t, c))
    \o When(source.identity # target.identity,
            CASE source.identity = "none" -> AddIdentityOp(s, t, c)
              [] target.identity = "none" -> DropIdentityOp(s, t, c)
              [] OTHER -> SetIdentityOp(s, t, c))

\* diffColumn: a column that both tables have.
diffColumn(s, t, c, source, target) ==
  When(source.type # target.type, AlterColumnTypeOp(s, t, c))
    \o When(source.nullable /\ ~target.nullable, SetNotNullOp(s, t, c))
    \o When(~source.nullable /\ target.nullable, DropNotNullOp(s, t, c))
    \o When(source.default # target.default,
            IF target.default = "none" THEN DropDefaultOp(s, t, c) ELSE SetDefaultOp(s, t, c))
    \o When(source.collation # target.collation, AlterColumnCollationOp(s, t, c))
    \o When(source.identity # target.identity,
            CASE source.identity = "none" -> AddIdentityOp(s, t, c)
              [] target.identity = "none" -> DropIdentityOp(s, t, c)
              [] OTHER -> SetIdentityOp(s, t, c))

columnSignature(col) == <<col.type, col.nullable, col.default, col.collation>>

\* The columns of source (by name) taken for renamed: the signature is that of a
\* column only target has, and no source column before it in the alphabet, gone
\* from target too, has been taken for that one.
Renames(source, target) ==
  LET gone == DOMAIN source \ DOMAIN target
      new == DOMAIN target \ DOMAIN source
      Alike(c) == {d \in gone : columnSignature(source[d]) = columnSignature(source[c])}
  IN  {c \in gone : /\ \E d \in new : columnSignature(target[d]) = columnSignature(source[c])
                    /\ Sorted(Alike(c))[1] = c}

\* Of the new columns with a signature the last one is the new name.
RenameTarget(column, source, target) ==
  Last(Sorted({d \in DOMAIN target \ DOMAIN source :
                 columnSignature(target[d]) = columnSignature(source[column])}))

\* Of tables that declare their columns in the order of the names: the last loop
\* follows the declarations of target.
diffTableColumns(s, t, source, target) ==
  LET gone == DOMAIN source \ DOMAIN target
      new == DOMAIN target \ DOMAIN source
      renamed == Renames(source, target)
      renamedTo == {RenameTarget(c, source, target) : c \in renamed}
  IN  Each(gone, LAMBDA c : Checked(When(c \in renamed, RenameColumnOp(s, t, c))))
        \o <<Unchecked(Each(new \ renamedTo, LAMBDA c : AddColumnOp(s, t, c))),
             AnyOrder({DropColumnOp(s, t, c) : c \in gone \ renamed})>>
        \o Each(DOMAIN target,
                LAMBDA c : Checked(IF c \in DOMAIN source
                                   THEN diffColumn(s, t, c, source[c], target[c]) ELSE <<>>))

----------------------------------------------------------------------------
(* Indexes, constraints and tables.                                        *)

diffTableIndexes(s, t, source, target) ==
  LET changed == {x \in DOMAIN source \cap DOMAIN target : source[x] # target[x]}
  IN  Each(DOMAIN target \ DOMAIN source, LAMBDA x : CreateIndexOp(s, t, x))
        \o Each(DOMAIN source \ DOMAIN target, LAMBDA x : DropIndexOp(s, x))
        \o EachOp(changed, LAMBDA x : <<DropIndexOp(s, x), CreateIndexOp(s, t, x)>>)

sameConstraintContent(a, b) == a = b

\* What the second look at a changed constraint compares: the references and
\* actions of foreign keys and the expressions of checks only.
sameConstraintSemantics(a, b) ==
  /\ a.type = b.type /\ a.columns = b.columns
  /\ a.type = "foreign_key" => a.ref = b.ref
  /\ a.type = "check" => a.expression = b.expression

diffTableConstraintsMutant(s, t, source, target) ==   \* a changed constraint is only added
  LET changed == {c \in DOMAIN source \cap DOMAIN target : ~sameConstraintSemantics(source[c], target[c])}
  IN  Each(DOMAIN target \ DOMAIN source, LAMBDA c : AddConstraintOp(s, t, c))
        \o Each(changed, LAMBDA c : AddConstraintOp(s, t, c))
        \o Each(DOMAIN source \ DOMAIN target, LAMBDA c : DropConstraintOp(s, t, c))

diffTableConstraints(s, t, source, target) ==
  LET changed == {c \in DOMAIN source \cap DOMAIN target :
                    /\ ~sameConstraintContent(source[c], target[c])
                    /\ ~sameConstraintSemantics(source[c], target[c])}
  IN  Each(DOMAIN target \ DOMAIN source, LAMBDA c : AddConstraintOp(s, t, c))
        \o EachOp(changed, LAMBDA c : <<DropConstraintOp(s, t, c), AddConstraintOp(s, t, c)>>)
        \o Each(DOMAIN source \ DOMAIN target, LAMBDA c : DropConstraintOp(s, t, c))

\* Indexes and constraints are compared without a look at the context, also
\* after the comparison of the columns was given up.
diffTable(s, t, source, target) ==
  In(<<"diffTableColumns", s, t>>, diffTableColumns(s, t, source.columns, target.columns))
    \o <<Unchecked(diffTableIndexes(s, t, source.indexes, target.indexes)
                     \o diffTableConstraints(s, t, source.constraints, target.constraints))>>

diffTables(s, source, target) ==
  Each(DOMAIN target \ DOMAIN source, LAMBDA t : Checked(<<AddTableOp(s, t, target[t])>>))
    \o Each(DOMAIN source \ DOMAIN target, LAMBDA t : Checked(<<DropTableOp(s, t)>>))
    \o EachOp(DOMAIN source \cap DOMAIN target, LAMBDA t : diffTable(s, t, source[t], target[t]))

----------------------------------------------------------------------------
(* Enum types, views, sequences and extensions.                            *)

isEnumAppend(old, new) == IsStrictPrefix(old, new)

\* Labels are only ever appended; any other change is left to a warning.
diffEnumType(s, n, old, new) ==
  IF isEnumAppend(old, new)
  THEN [k \in 1..(Len(new) - Len(old)) |-> AddEnumLabelOp(s, n, new[Len(old) + k])]
  ELSE <<>>

diffTypes(s, source, target) ==
  Each(DOMAIN target,
       LAMBDA n : Checked(When(n \notin DOMAIN source, AddEnumTypeOp(s, n))))
    \o Each(DOMAIN target,
            LAMBDA n : Checked(IF n \in DOMAIN source
                               THEN diffEnumType(s, n, source[n], target[n]) ELSE <<>>))
    \o Each(DOMAIN source,
            LAMBDA n : Checked(When(n \notin DOMAIN target, DropEnumTypeOp(s, n))))

CreateAnyViewOp(s, v, view) ==
  IF view.materialized THEN CreateMaterializedViewOp(s, v) ELSE CreateViewOp(s, v)

DropAnyViewOp(s, v, view, isRecreate) ==
  IF view.materialized THEN DropMaterializedViewOp(s, v) ELSE DropViewOp(s, v, isRecreate)

\* A view both schemas have: a change of its sort, and any change of a
\* materialized one, drops it and creates it again.
diffView(s, v, source, target) ==
  CASE source.materialized # target.materialized
         \/ (source.definition # target.definition /\ target.materialized) ->
         <<DropAnyViewOp(s, v, source, TRUE), CreateAnyViewOp(s, v, target)>>
    [] OTHER -> When(source.definition # target.definition, ReplaceViewOp(s, v))

diffViews(s, source, target) ==
  Each(DOMAIN target,
       LAMBDA v : Checked(IF v \in DOMAIN source THEN diffView(s, v, source[v], target[v])
                          ELSE <<CreateAnyViewOp(s, v, target[v])>>))
    \o Each(DOMAIN source,
            LAMBDA v : Checked(When(v \notin DOMAIN target,
                                    DropAnyViewOp(s, v, source[v], FALSE))))

diffSequences(s, source, target) ==
  Each(DOMAIN target,
       LAMBDA q : Checked(IF q \notin DOMAIN source THEN <<CreateSequenceOp(s, q)>>
                          ELSE When(source[q] # target[q], AlterSequenceOp(s, q))))
    \o Each(DOMAIN source,
            LAMBDA q : Checked(When(q \notin DOMAIN target, DropSequenceOp(s, q))))

\* Versions are compared only where both are known.
diffExtensions(s, source, target) ==
  Each(DOMAIN target,
       LAMBDA e : Checked(IF e \notin DOMAIN source THEN <<CreateExtensionOp(s, e)>>
                          ELSE When("unknown" \notin {source[e], target[e]} /\ source[e] # target[e],
                                    AlterExtensionUpdateOp(s, e))))
    \o Each(DOMAIN source,
            LAMBDA e : Checked(When(e \notin DOMAIN target, DropExtensionOp(s, e))))

----------------------------------------------------------------------------
(* Namespaces.                                                             *)

\* A namespace that source lacks is compared as one with nothing in it.
EmptyNamespace ==
  [part \in {"tables", "types", "views", "sequences", "extensions"} |-> <<>>]

diffNamespace(s, source, target) ==
  In(<<"diffTables", s>>, diffTables(s, source.tables, target.tables))
    \o In(<<"diffTypes", s>>, diffTypes(s, source.types, target.types))
    \o In(<<"diffViews", s>>, diffViews(s, source.views, target.views))
    \o In(<<"diffSequences", s>>, diffSequences(s, source.sequences, target.sequences))
    \o In(<<"diffExtensions", s>>, diffExtensions(s, source.extensions, target.extensions))

\* A namespace target has: created first if it is new.
diffSchema(s, source, target) ==
  IF s \in DOMAIN source
  THEN <<Checked(<<>>)>> \o diffNamespace(s, source[s], target[s])
  ELSE <<Checked(<<CreateSchemaOp(s)>>)>> \o diffNamespace(s, EmptyNamespace, target[s])

\* All the steps that turn the first schema into the second one.  The public
\* namespace is never dropped.
diffSchemas(source, target) ==
  In(<<"diffSchemas">>,
     EachOp(DOMAIN target, LAMBDA s : diffSchema(s, source, target))
       \o Each(DOMAIN source,
               LAMBDA s : Checked(When(s \notin DOMAIN target /\ s # "public", DropSchemaOp(s)))))
=============================================================================
