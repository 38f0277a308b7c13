------------------------- MODULE ParsedSchemaProofs -------------------------
(***************************************************************************)
(* What the mutations keep true of the schema they are applied to, and     *)
(* what a failing one leaves alone: for every schema and every statement,  *)
(* legal or not.                                                           *)
(***************************************************************************)
EXTENDS ParsedSchema, SequenceLemmas

----------------------------------------------------------------------------
(* The mutation of a statement.                                            *)

\* What Apply needs to know of a mutation.
IsMutation(m) ==
  /\ m.kind = "create_table" => m.columns \in Seq(Columns)
  /\ m.kind = "add_column" => m.column \in Columns
  /\ m.kind \in {"alter_type", "rename_column"} => m.to \in STRING
  /\ m.kind = "set_default" => m.to \in Defaults

LEMMA FormatTyped ==
  ASSUME NEW e \in STRING
  PROVE  FormatExpression(e) \in Defaults
BY DEF FormatExpression, Defaults

LEMMA ColumnDefTyped ==
  ASSUME NEW column, IsColumn(column)
  PROVE  ParseColumnDef(column) \in Columns /\ ParseTableColumn(column) \in Columns
<1>1. ParseColumnDef(column) \in Columns
  <2> DEFINE default == IF column.default \in Unreadable THEN "none" ELSE column.default
  <2>2. default \in Defaults
    BY DEF IsColumn, Defaults
  <2>3. (~column.notNull) \in BOOLEAN
    OBVIOUS
  <2>4. ParseColumnDef(column) = [name |-> column.name, type |-> column.type,
                                  nullable |-> ~column.notNull, default |-> default]
    BY Zenon DEF ParseColumnDef
  <2> HIDE DEF default
  <2> QED
    BY <2>2, <2>3, <2>4 DEF Columns, IsColumn
<1>2. \A c \in Columns, b \in BOOLEAN : [c EXCEPT !.nullable = b] \in Columns
  BY DEF Columns
<1> DEFINE key == \E k \in DOMAIN column.inline : IsPrimaryKey(column.inline[k])
           b == ParseColumnDef(column).nullable /\ ~key
<1>3. b \in BOOLEAN
  <2> HIDE DEF key
  <2> QED  OBVIOUS
<1>4. ParseTableColumn(column) = [ParseColumnDef(column) EXCEPT !.nullable = b]
  BY DEF ParseTableColumn
<1> HIDE DEF b
<1> QED
  BY <1>1, <1>2, <1>3, <1>4

\* The handler of a statement makes a mutation of its kind.
LEMMA HandleTyped ==
  ASSUME NEW s, IsStatement(s)
  PROVE  Handle(s).kind = s.kind /\ IsMutation(Handle(s))
<1>1. DOMAIN s = FieldsOf(s.kind) \cup {"kind"}
  BY DEF IsStatement
<1>2. CASE s.kind = "create_table"
  <2>1. Handle(s) = HandleCreateTable(s)
    BY <1>2 DEF Handle
  <2>2. s.columns \in Seq(Range(s.columns)) /\ \A c \in Range(s.columns) : IsColumn(c)
    BY <1>2 DEF IsStatement, IsList
  <2>3. DOMAIN s.columns = 1..Len(s.columns) /\ Len(s.columns) \in Nat
    BY <2>2
  <2>4. \A c \in DOMAIN s.columns : ParseTableColumn(s.columns[c]) \in Columns
    BY <2>2, ColumnDefTyped DEF Range
  <2>5. [c \in DOMAIN s.columns |-> ParseTableColumn(s.columns[c])] \in Seq(Columns)
    BY <2>3, <2>4
  <2> QED
    BY <1>2, <2>1, <2>5 DEF HandleCreateTable, IsMutation
<1>3. CASE s.kind = "add_column"
  <2>1. Handle(s) = HandleAddColumn(s)
    BY <1>3 DEF Handle
  <2>2. ParseColumnDef(s.column) \in Columns
    BY <1>3, ColumnDefTyped DEF IsStatement
  <2> QED
    BY <1>3, <2>1, <2>2 DEF HandleAddColumn, IsMutation
<1>4. CASE s.kind = "set_default"
  <2>1. Handle(s) = [s EXCEPT !.to = FormatExpression(@)]
    BY <1>4 DEF Handle, HandleSetDefault
  <2>2. DOMAIN s = {"table", "name", "to", "kind"}
    BY <1>1, <1>4 DEF FieldsOf
  <2>3. FormatExpression(s.to) \in Defaults
    BY <1>4, FormatTyped DEF IsStatement
  <2> QED
    BY <1>4, <2>1, <2>2, <2>3 DEF IsMutation
<1>5. CASE s.kind = "add_constraint"
  <2>1. Handle(s) = [s EXCEPT !.constraint = parseTableConstraint(s.table[2], @)]
    BY <1>5 DEF Handle, HandleAddConstraint
  <2>2. DOMAIN s = {"table", "constraint", "kind"}
    BY <1>1, <1>5 DEF FieldsOf
  <2> QED
    BY <1>5, <2>1, <2>2 DEF IsMutation
<1>6. CASE s.kind = "create_index"
  <2>1. Handle(s) = [s EXCEPT !.index.name = generateDefaultIndexName(s.table[2], s.index)]
    BY <1>6 DEF Handle, HandleCreateIndex
  <2>2. DOMAIN s = {"table", "ifNotExists", "index", "kind"}
    BY <1>1, <1>6 DEF FieldsOf
  <2> QED
    BY <1>6, <2>1, <2>2 DEF IsMutation
<1>7. CASE s.kind \notin {"create_table", "add_column", "set_default", "add_constraint",
                          "create_index"}
  <2>1. Handle(s) = s
    BY <1>7 DEF Handle
  <2> QED
    BY <1>7, <2>1 DEF IsMutation, IsStatement
<1> QED
  BY <1>2, <1>3, <1>4, <1>5, <1>6, <1>7

----------------------------------------------------------------------------
(* Tables.                                                                 *)

\* The last of the columns with a name is one of them.
LEMMA LastNamedIsOne ==
  ASSUME NEW columns, Len(columns) \in Nat, DOMAIN columns = 1..Len(columns),
         NEW name \in NamesOf(columns)
  PROVE  /\ LastNamed(columns, name) \in DOMAIN columns
         /\ columns[LastNamed(columns, name)].name = name
         /\ \A k \in DOMAIN columns : columns[k].name = name => k <= LastNamed(columns, name)
<1> DEFINE S == {k \in DOMAIN columns : columns[k].name = name}
<1>1. S \subseteq 0..Len(columns) /\ S # {}
  BY DEF NamesOf
<1>2. \E g \in S : \A k \in S : k <= g
  <2> HIDE DEF S
  <2> QED  BY <1>1, GreatestElement
<1>3. \E g \in DOMAIN columns :
        columns[g].name = name /\ \A l \in DOMAIN columns : columns[l].name = name => l <= g
  BY <1>2
<1> QED
  BY <1>3 DEF LastNamed

\* A heap that has grown is one for the tables of before.
LEMMA TypedInLarger ==
  ASSUME NEW table, NEW n \in Nat, NEW k \in Nat, n <= k, TableTyped(table, n)
  PROVE  TableTyped(table, k)
<1>1. 1..n \subseteq 1..k
  OBVIOUS
<1>2. table.columns \in Seq(1..k)
  BY <1>1 DEF TableTyped
<1> QED
  BY <1>1, <1>2 DEF TableTyped

\* New columns at the end of the heap and of the list.
LEMMA AddColumnsTyped ==
  ASSUME NEW table, NEW columns \in Seq(Columns), Len(heap) \in Nat,
         TableTyped(table, Len(heap))
  PROVE  /\ TableTyped(AddColumns(table, columns), Len(heap) + Len(columns))
         /\ AddColumns(table, columns).placeholder = table.placeholder
         /\ AddColumns(table, columns).columns =
              table.columns \o [k \in DOMAIN columns |-> Len(heap) + k]
<1> DEFINE added == AddColumns(table, columns)
           places == [k \in DOMAIN columns |-> Len(heap) + k]
           n == Len(heap) + Len(columns)
<1>1. Len(columns) \in Nat /\ DOMAIN columns = 1..Len(columns) /\ n \in Nat
  OBVIOUS
<1>2. /\ DOMAIN table = {"columns", "byName", "index", "primaryKey", "constraints", "indexes",
                         "placeholder"}
      /\ Len(table.columns) \in Nat
  BY DEF TableTyped
<1>3. /\ DOMAIN added = DOMAIN table
      /\ added.columns = table.columns \o places
      /\ added.placeholder = table.placeholder
  BY <1>2 DEF AddColumns
<1>4. added.columns \in Seq(1..n)
  <2>1. table.columns \in Seq(1..n)
    BY <1>1, TypedInLarger DEF TableTyped
  <2>2. places \in Seq(1..n)
    BY <1>1
  <2> QED
    BY <1>3, <2>1, <2>2, ConcatPlaces
<1>5. \A name \in NamesOf(columns) : LastNamed(columns, name) \in 1..Len(columns)
  BY <1>1, LastNamedIsOne
<1>6. Range(added.byName) \subseteq 1..n
  <2>1. added.byName = [m \in DOMAIN table.byName \cup NamesOf(columns) |->
                          IF m \in NamesOf(columns) THEN Len(heap) + LastNamed(columns, m)
                                                    ELSE table.byName[m]]
    BY <1>2 DEF AddColumns
  <2>2. \A m \in DOMAIN table.byName : table.byName[m] \in 1..Len(heap)
    BY DEF TableTyped, Range
  <2>3. \A m \in DOMAIN added.byName : added.byName[m] \in 1..n
    BY <1>1, <1>5, <2>1, <2>2
  <2> HIDE DEF added, n
  <2> QED
    BY <2>3 DEF Range
<1>7. Range(added.index) \subseteq Nat \ {0}
  <2>1. added.index = [m \in DOMAIN table.index \cup NamesOf(columns) |->
                         IF m \in NamesOf(columns)
                         THEN Len(table.columns) + LastNamed(columns, m)
                         ELSE table.index[m]]
    BY <1>2 DEF AddColumns
  <2>2. \A m \in DOMAIN table.index : table.index[m] \in Nat \ {0}
    BY DEF TableTyped, Range
  <2>3. \A m \in DOMAIN added.index : added.index[m] \in Nat \ {0}
    BY <1>2, <1>5, <2>1, <2>2
  <2> HIDE DEF added
  <2> QED
    BY <2>3 DEF Range
<1> QED
  BY <1>2, <1>3, <1>4, <1>6, <1>7 DEF TableTyped

LEMMA NewTableTyped ==
  ASSUME NEW placeholder \in BOOLEAN, NEW n \in Nat
  PROVE  TableTyped(NewTable(placeholder), n)
<1>1. DOMAIN <<>> = {} /\ <<>> \in Seq(1..n)
  OBVIOUS
<1>2. Range(<<>>) = {}
  BY <1>1 DEF Range
<1> QED
  BY <1>1, <1>2 DEF NewTable, TableTyped

LEMMA MetadataTyped ==
  ASSUME NEW table, NEW m, NEW n, TableTyped(table, n)
  PROVE  TableTyped(applyTableMetadata(table, m), n)
BY DEF applyTableMetadata, TableTyped

\* Taking a column out, with an index that is right or not.
LEMMA RemoveTyped ==
  ASSUME NEW table, NEW name, NEW n \in Nat, TableTyped(table, n)
  PROVE  TableTyped(RemoveColumn(table, name), n)
<1> DEFINE place == table.index[name]
           last == Len(table.columns)
           rest == Without(table.index, name)
           moved == [k \in 1..(last - 1) |-> IF k = place THEN table.columns[last]
                                                         ELSE table.columns[k]]
           put == Put(rest, heap[table.columns[last]].name, place)
<1>1. /\ DOMAIN table = {"columns", "byName", "index", "primaryKey", "constraints", "indexes",
                         "placeholder"}
      /\ last \in Nat /\ DOMAIN table.columns = 1..last
      /\ \A k \in 1..last : table.columns[k] \in 1..n
  BY DEF TableTyped
<1>2. Range(Without(table.byName, name)) \subseteq 1..n
  BY DEF TableTyped, Without, Range
<1>3. Range(rest) \subseteq Nat \ {0}
  BY DEF TableTyped, Without, Range
<1>4. CASE name \notin DOMAIN table.index
  BY <1>4 DEF RemoveColumn
<1>5. CASE name \in DOMAIN table.index /\ RemovePanics(table, name)
  <2>1. RemoveColumn(table, name) = [table EXCEPT !.byName = Without(@, name), !.index = rest]
    BY <1>5 DEF RemoveColumn
  <2> HIDE DEF rest
  <2> QED
    BY <1>1, <1>2, <1>3, <2>1 DEF TableTyped
<1>6. CASE name \in DOMAIN table.index /\ ~RemovePanics(table, name)
  <2>1. RemoveColumn(table, name) =
          [table EXCEPT !.byName = Without(@, name),
                        !.index = IF place = last THEN rest ELSE put, !.columns = moved]
    BY <1>6 DEF RemoveColumn
  <2>2. place \in Nat \ {0}
    BY <1>6 DEF TableTyped, Range
  <2>3. last - 1 \in Nat
    BY <1>1, <1>6, <2>2 DEF RemovePanics
  <2>4. moved \in Seq(1..n)
    BY <1>1, <2>3
  <2>5. Range(put) \subseteq Nat \ {0}
    <3>1. \A k \in DOMAIN rest : rest[k] \in Nat \ {0}
      BY <1>3 DEF Range
    <3>2. \A k \in DOMAIN put : put[k] \in {place} \cup {rest[l] : l \in DOMAIN rest}
      <4> HIDE DEF rest, place
      <4> QED  BY DEF Put
    <3> HIDE DEF put, rest, place
    <3> QED
      BY <2>2, <3>1, <3>2 DEF Range
  <2> HIDE DEF rest, put, moved, place, last
  <2> QED
    BY <1>1, <1>2, <1>3, <2>1, <2>4, <2>5 DEF TableTyped
<1> QED
  BY <1>4, <1>5, <1>6

----------------------------------------------------------------------------
(* The mutations.                                                          *)

\* A heap that is as long or longer, and tables of which each is as it was or typed.
LEMMA StaysTyped ==
  ASSUME SchemaTyped, heap' \in Seq(Columns), Len(heap) <= Len(heap'),
         \A t \in DOMAIN tables' :
           \/ t \in DOMAIN tables /\ tables'[t] = tables[t]
           \/ TableTyped(tables'[t], Len(heap'))
  PROVE  SchemaTyped'
<1>1. Len(heap) \in Nat /\ Len(heap') \in Nat
  BY DEF SchemaTyped
<1>2. \A t \in DOMAIN tables' : TableTyped(tables'[t], Len(heap'))
  <2> TAKE t \in DOMAIN tables'
  <2>1. CASE t \in DOMAIN tables /\ tables'[t] = tables[t]
    <3>1. TableTyped(tables[t], Len(heap))
      BY <2>1 DEF SchemaTyped
    <3> QED
      BY <1>1, <2>1, <3>1, TypedInLarger
  <2> QED
    BY <2>1
<1> QED
  BY <1>2 DEF SchemaTyped, TableTyped

LEMMA FailsTyped ==
  ASSUME SchemaTyped, NEW error \in Outcomes, Fails(error)
  PROVE  SchemaTyped' /\ outcome' \in Outcomes
<1>1. heap' = heap /\ tables' = tables /\ outcome' = error
  BY DEF Fails
<1>2. Len(heap) <= Len(heap')
  BY <1>1 DEF SchemaTyped
<1> QED
  BY <1>1, <1>2, StaysTyped DEF SchemaTyped

\* One table gets new columns at the end of the heap.
LEMMA GrowsTyped ==
  ASSUME SchemaTyped, NEW new \in Seq(Columns), NEW old, TableTyped(old, Len(heap)),
         heap' = heap \o new, NEW table,
         table = AddColumns(old, new) \/ \E m : table = applyTableMetadata(AddColumns(old, new), m),
         \A u \in DOMAIN tables' :
           tables'[u] = table \/ (u \in DOMAIN tables /\ tables'[u] = tables[u])
  PROVE  SchemaTyped'
<1>1. Len(heap) \in Nat /\ Len(new) \in Nat /\ heap' \in Seq(Columns)
      /\ Len(heap') = Len(heap) + Len(new)
  BY DEF SchemaTyped
<1>2. TableTyped(AddColumns(old, new), Len(heap'))
  BY <1>1, AddColumnsTyped
<1>3. TableTyped(table, Len(heap'))
  BY <1>2, MetadataTyped
<1>4. Len(heap) <= Len(heap')
  BY <1>1
<1> QED
  BY <1>1, <1>3, <1>4, StaysTyped

\* A column of the heap is another one now.
LEMMA HeapChangeTyped ==
  ASSUME SchemaTyped, NEW t \in DOMAIN tables, NEW n \in DOMAIN tables[t].byName,
         NEW column \in Columns, heap' = [heap EXCEPT ![tables[t].byName[n]] = column],
         NEW byName, Range(byName) \subseteq 1..Len(heap),
         tables' = tables \/ tables' = [tables EXCEPT ![t].byName = byName]
  PROVE  SchemaTyped'
<1>1. heap' \in Seq(Columns) /\ Len(heap') = Len(heap) /\ Len(heap) <= Len(heap')
  <2>1. heap \in Seq(Columns)
    BY DEF SchemaTyped
  <2>2. tables[t].byName[n] \in 1..Len(heap)
    BY DEF SchemaTyped, TableTyped, Range
  <2>3. heap' \in Seq(Columns) /\ Len(heap') = Len(heap)
    BY <2>1, <2>2, ExceptSeq
  <2> QED
    BY <2>1, <2>3
<1>2. TableTyped(tables[t], Len(heap'))
  BY <1>1 DEF SchemaTyped
<1>3. TableTyped([tables[t] EXCEPT !.byName = byName], Len(heap'))
  BY <1>1, <1>2 DEF TableTyped
<1>4. \A u \in DOMAIN tables' :
        \/ u \in DOMAIN tables /\ tables'[u] = tables[u]
        \/ tables'[u] = [tables[t] EXCEPT !.byName = byName]
  OBVIOUS
<1> QED
  BY <1>1, <1>3, <1>4, StaysTyped

\* What resolveColumn finds is a column.
LEMMA ResolvedTyped ==
  ASSUME SchemaTyped, NEW m, ~Unresolved(m)
  PROVE  /\ m.table \in DOMAIN tables /\ m.name \in DOMAIN tables[m.table].byName
         /\ tables[m.table].byName[m.name] \in 1..Len(heap)
         /\ Resolved(m) \in Columns
<1>1. m.table \in DOMAIN tables /\ m.name \in DOMAIN tables[m.table].byName
  BY DEF Unresolved
<1>2. tables[m.table].byName[m.name] \in 1..Len(heap)
  BY <1>1 DEF SchemaTyped, TableTyped, Range
<1> QED
  BY <1>1, <1>2 DEF Resolved, SchemaTyped

LEMMA ChangeTyped ==
  ASSUME SchemaTyped, NEW m, NEW column, ~Unresolved(m) => column \in Columns,
         ChangeColumn(m, column)
  PROVE  SchemaTyped' /\ outcome' \in Outcomes
<1>1. CASE Unresolved(m) /\ Fails("not found")
  BY <1>1, FailsTyped DEF Outcomes
<1>2. CASE ~Unresolved(m)
  <2>1. /\ heap' = [heap EXCEPT ![tables[m.table].byName[m.name]] = column]
        /\ outcome' = "ok" /\ tables' = tables
    BY <1>2 DEF ChangeColumn
  <2>2. m.table \in DOMAIN tables /\ m.name \in DOMAIN tables[m.table].byName
    BY <1>2, ResolvedTyped
  <2>3. Range(tables[m.table].byName) \subseteq 1..Len(heap)
    BY <2>2 DEF SchemaTyped, TableTyped
  <2>4. SchemaTyped'
    BY <1>2, <2>1, <2>2, <2>3, HeapChangeTyped
  <2> QED
    BY <2>1, <2>4 DEF Outcomes
<1> QED
  BY <1>1, <1>2 DEF ChangeColumn

LEMMA MissingTyped ==
  ASSUME NEW m, NEW columns \in Seq(Columns)
  PROVE  Missing(m, columns) \in Seq(Columns)
BY SelectProperties DEF Missing

LEMMA CreateTableTyped ==
  ASSUME SchemaTyped, NEW m, m.columns \in Seq(Columns), CreateTable(m)
  PROVE  SchemaTyped' /\ outcome' \in Outcomes
<1>0. Len(heap) \in Nat /\ Len(m.columns) \in Nat /\ DOMAIN m.columns = 1..Len(m.columns)
  BY DEF SchemaTyped
<1>1. CASE CreateNewTable(m)
  <2>1. /\ heap' = heap \o m.columns /\ outcome' = "ok"
        /\ tables' = Put(tables, m.table,
                         applyTableMetadata(AddColumns(NewTable(FALSE), m.columns), m))
    BY <1>1 DEF CreateNewTable
  <2>2. TableTyped(NewTable(FALSE), Len(heap))
    BY <1>0, NewTableTyped
  <2> DEFINE table == applyTableMetadata(AddColumns(NewTable(FALSE), m.columns), m)
  <2>3. \A u \in DOMAIN tables' :
          tables'[u] = table \/ (u \in DOMAIN tables /\ tables'[u] = tables[u])
    <3> HIDE DEF table
    <3> QED  BY <2>1 DEF Put, table
  <2>4. SchemaTyped'
    <3>1. \E n : table = applyTableMetadata(AddColumns(NewTable(FALSE), m.columns), n)
      OBVIOUS
    <3> HIDE DEF table
    <3> QED  BY <2>1, <2>2, <2>3, <3>1, GrowsTyped
  <2> QED
    BY <2>1, <2>4 DEF Outcomes
<1>2. CASE TableExists(m)
  BY <1>2, FailsTyped DEF TableExists, Outcomes
<1>3. CASE MergeFails(m)
  <2>1. PICK first \in Mismatches(m) :
          /\ heap' = heap \o Missing(m, SubSeq(m.columns, 1, first - 1))
          /\ tables' = [tables EXCEPT ![m.table] =
                          AddColumns(@, Missing(m, SubSeq(m.columns, 1, first - 1)))]
    BY <1>3 DEF MergeFails
  <2> DEFINE new == Missing(m, SubSeq(m.columns, 1, first - 1))
             table == AddColumns(tables[m.table], new)
  <2>2. new \in Seq(Columns)
    <3>1. first \in 1..Len(m.columns)
      BY <1>0 DEF Mismatches
    <3>2. SubSeq(m.columns, 1, first - 1) \in Seq(Columns)
      BY <3>1, <1>0
    <3> QED
      BY <3>2, MissingTyped
  <2>3. m.table \in DOMAIN tables /\ outcome' = "type mismatch"
    BY <1>3 DEF MergeFails
  <2>4. TableTyped(tables[m.table], Len(heap))
    BY <2>3 DEF SchemaTyped
  <2> HIDE DEF new
  <2>5. heap' = heap \o new /\ tables' = [tables EXCEPT ![m.table] = table]
    BY <2>1 DEF new
  <2>6. SchemaTyped'
    BY <2>2, <2>3, <2>4, <2>5, GrowsTyped
  <2> QED
    BY <2>3, <2>6 DEF Outcomes
<1>4. CASE MergePlaceholder(m)
  <2> DEFINE new == Missing(m, m.columns)
             table == applyTableMetadata(AddColumns(tables[m.table], new), m)
  <2>1. /\ heap' = heap \o new /\ tables' = [tables EXCEPT ![m.table] = table]
        /\ m.table \in DOMAIN tables /\ outcome' = "ok"
    BY <1>4 DEF MergePlaceholder
  <2>2. new \in Seq(Columns)
    BY MissingTyped
  <2>3. TableTyped(tables[m.table], Len(heap))
    BY <2>1 DEF SchemaTyped
  <2>4. \E n : table = applyTableMetadata(AddColumns(tables[m.table], new), n)
    OBVIOUS
  <2>5. SchemaTyped'
    <3> HIDE DEF new, table
    <3> QED  BY <2>1, <2>2, <2>3, <2>4, GrowsTyped
  <2> QED
    BY <2>1, <2>5 DEF Outcomes
<1> QED
  BY <1>1, <1>2, <1>3, <1>4 DEF CreateTable

\* The table of an ALTER TABLE, be it a placeholder.
LEMMA PlaceholderTyped ==
  ASSUME SchemaTyped, NEW t
  PROVE  TableTyped(TableOrPlaceholder(t), Len(heap))
<1>1. Len(heap) \in Nat
  BY DEF SchemaTyped
<1> QED
  BY <1>1, NewTableTyped DEF TableOrPlaceholder, SchemaTyped

LEMMA AddColumnTyped ==
  ASSUME SchemaTyped, NEW m, m.column \in Columns, AddColumn(m)
  PROVE  SchemaTyped' /\ outcome' \in Outcomes
<1> DEFINE new == <<m.column>>
           table == AddColumns(TableOrPlaceholder(m.table), new)
<1>1. heap' = Append(heap, m.column) /\ outcome' = "ok" /\ tables' = Put(tables, m.table, table)
  BY DEF AddColumn
<1>2. new \in Seq(Columns) /\ heap' = heap \o new
  BY <1>1 DEF SchemaTyped
<1> HIDE DEF new
<1>3. \A u \in DOMAIN tables' :
        tables'[u] = table \/ (u \in DOMAIN tables /\ tables'[u] = tables[u])
  <2> HIDE DEF table
  <2> QED  BY <1>1 DEF Put
<1>4. SchemaTyped'
  BY <1>2, <1>3, PlaceholderTyped, GrowsTyped
<1> QED
  BY <1>1, <1>4 DEF Outcomes

LEMMA DropColumnTyped ==
  ASSUME SchemaTyped, NEW m, DropColumn(m)
  PROVE  SchemaTyped' /\ outcome' \in Outcomes
<1>1. CASE Unresolved(m) /\ Fails("not found")
  BY <1>1, FailsTyped DEF Outcomes
<1>2. CASE ~Unresolved(m)
  <2>1. /\ tables' = [tables EXCEPT ![m.table] = RemoveColumn(@, m.name)] /\ heap' = heap
        /\ outcome' = IF RemovePanics(tables[m.table], m.name) THEN "panic" ELSE "ok"
    BY <1>2 DEF DropColumn
  <2>2. Len(heap) \in Nat /\ Len(heap) <= Len(heap') /\ heap' \in Seq(Columns)
    BY <2>1 DEF SchemaTyped
  <2>3. m.table \in DOMAIN tables
    BY <1>2, ResolvedTyped
  <2> DEFINE table == RemoveColumn(tables[m.table], m.name)
  <2>4. TableTyped(table, Len(heap'))
    BY <2>1, <2>2, <2>3, RemoveTyped DEF SchemaTyped
  <2>5. SchemaTyped'
    <3> HIDE DEF table
    <3>1. tables' = [tables EXCEPT ![m.table] = table]
      BY <2>1 DEF table
    <3> QED  BY <2>2, <2>4, <3>1, StaysTyped
  <2> QED
    BY <2>1, <2>5 DEF Outcomes
<1> QED
  BY <1>1, <1>2 DEF DropColumn

LEMMA RenameTyped ==
  ASSUME SchemaTyped, NEW m, m.to \in STRING, RenameColumn(m)
  PROVE  SchemaTyped' /\ outcome' \in Outcomes
<1>1. CASE RenameNothing(m)
  <2>1. /\ heap' = heap /\ outcome' = "ok"
        /\ tables' = Put(tables, m.table, TableOrPlaceholder(m.table))
    BY <1>1 DEF RenameNothing
  <2>2. Len(heap) <= Len(heap') /\ heap' \in Seq(Columns)
    BY <2>1 DEF SchemaTyped
  <2>3. \A u \in DOMAIN tables' :
          \/ u \in DOMAIN tables /\ tables'[u] = tables[u]
          \/ tables'[u] = TableOrPlaceholder(m.table)
    BY <2>1 DEF Put
  <2> QED
    BY <2>1, <2>2, <2>3, PlaceholderTyped, StaysTyped DEF Outcomes
<1>2. CASE RenameFails(m)
  <2>1. Fails("not found") \/ Fails("already exists")
    BY <1>2 DEF RenameFails
  <2> QED
    BY <2>1, FailsTyped DEF Outcomes
<1>3. CASE RenameDone(m)
  <2> DEFINE byName == tables[m.table].byName
             renamed == Put(Without(byName, m.name), m.to, byName[m.name])
             column == [heap[byName[m.name]] EXCEPT !.name = m.to]
  <2>1. /\ m.table \in DOMAIN tables /\ m.name \in DOMAIN byName
        /\ heap' = [heap EXCEPT ![byName[m.name]].name = m.to]
        /\ tables' = [tables EXCEPT ![m.table].byName = renamed]
        /\ outcome' = "ok"
    BY <1>3 DEF RenameDone, TableOrPlaceholder, NewTable
  <2>2. Range(byName) \subseteq 1..Len(heap)
    BY <2>1 DEF SchemaTyped, TableTyped
  <2>3. byName[m.name] \in 1..Len(heap)
    BY <2>1, <2>2 DEF Range
  <2>4. column \in Columns /\ heap' = [heap EXCEPT ![byName[m.name]] = column]
    <3>1. heap[byName[m.name]] \in Columns
      BY <2>3 DEF SchemaTyped
    <3> QED
      BY <2>1, <3>1 DEF Columns
  <2>5. Range(renamed) \subseteq 1..Len(heap)
    <3>1. \A n \in DOMAIN renamed : renamed[n] \in Range(byName)
      <4>1. \A n \in DOMAIN byName : byName[n] \in Range(byName)
        BY DEF Range
      <4> HIDE DEF byName
      <4> QED
        BY <2>1, <4>1 DEF Put, Without
    <3> HIDE DEF renamed
    <3> QED
      BY <2>2, <3>1 DEF Range
  <2>6. SchemaTyped'
    <3> HIDE DEF renamed, column
    <3> QED  BY <2>1, <2>4, <2>5, HeapChangeTyped
  <2> QED
    BY <2>1, <2>6 DEF Outcomes
<1> QED
  BY <1>1, <1>2, <1>3 DEF RenameColumn

\* A table has other constraints or indexes, and is otherwise as it was.
LEMMA PartsTyped ==
  ASSUME SchemaTyped, NEW t, NEW parts, heap' = heap,
         \/ tables' = tables
         \/ tables' = [tables EXCEPT ![t].constraints = parts]
         \/ tables' = [tables EXCEPT ![t].indexes = parts]
  PROVE  SchemaTyped'
<1>1. Len(heap) <= Len(heap') /\ heap' \in Seq(Columns)
  BY DEF SchemaTyped
<1>2. \A u \in DOMAIN tables' :
        /\ u \in DOMAIN tables
        /\ \/ tables'[u] = tables[u]
           \/ tables'[u] = [tables[u] EXCEPT !.constraints = parts]
           \/ tables'[u] = [tables[u] EXCEPT !.indexes = parts]
  OBVIOUS
<1>3. \A u \in DOMAIN tables' : TableTyped(tables'[u], Len(heap))
  <2> TAKE u \in DOMAIN tables'
  <2>1. TableTyped(tables[u], Len(heap))
    BY <1>2 DEF SchemaTyped
  <2>2. TableTyped([tables[u] EXCEPT !.constraints = parts], Len(heap))
    BY <2>1 DEF TableTyped
  <2>3. TableTyped([tables[u] EXCEPT !.indexes = parts], Len(heap))
    BY <2>1 DEF TableTyped
  <2> QED
    BY <1>2, <2>1, <2>2, <2>3
<1> QED
  BY <1>1, <1>3, StaysTyped

LEMMA PartMutationTyped ==
  ASSUME SchemaTyped, NEW m,
         \/ AddConstraint(m) \/ DropConstraint(m) \/ CreateIndex(m)
         \/ CreateSchema(m) \/ CreateObject(m)
  PROVE  SchemaTyped' /\ outcome' \in Outcomes
<1>1. heap' = heap
  BY DEF AddConstraint, DropConstraint, CreateIndex, CreateSchema, CreateObject, Fails
<1>2. outcome' \in {"ok", "not found", "already exists"}
  BY DEF AddConstraint, DropConstraint, CreateIndex, CreateSchema, CreateObject, Fails
<1>3. \E t, parts : \/ tables' = tables
                    \/ tables' = [tables EXCEPT ![t].constraints = parts]
                    \/ tables' = [tables EXCEPT ![t].indexes = parts]
  BY DEF AddConstraint, DropConstraint, CreateIndex, CreateSchema, CreateObject, Fails
<1> QED
  BY <1>1, <1>2, <1>3, PartsTyped DEF Outcomes

\* Whatever is applied, the pointers of every table stay places in the heap.
LEMMA ApplyTyped ==
  ASSUME SchemaTyped, NEW m, IsMutation(m), Apply(m)
  PROVE  SchemaTyped' /\ outcome' \in Outcomes
<1>1. CASE m.kind = "create_table" /\ CreateTable(m)
  BY <1>1, CreateTableTyped DEF IsMutation
<1>2. CASE m.kind = "add_column" /\ AddColumn(m)
  BY <1>2, AddColumnTyped DEF IsMutation
<1>3. CASE m.kind = "drop_column" /\ DropColumn(m)
  BY <1>3, DropColumnTyped
<1>4. CASE m.kind = "alter_type" /\ AlterColumnType(m)
  <2>1. \A c \in Columns : [c EXCEPT !.type = m.to] \in Columns
    BY <1>4 DEF Columns, IsMutation
  <2> QED
    BY <1>4, <2>1, ResolvedTyped, ChangeTyped DEF AlterColumnType
<1>5. CASE m.kind = "set_not_null" /\ SetNotNull(m)
  <2>1. \A c \in Columns : [c EXCEPT !.nullable = FALSE] \in Columns
    BY DEF Columns
  <2> QED
    BY <1>5, <2>1, ResolvedTyped, ChangeTyped DEF SetNotNull
<1>6. CASE m.kind = "drop_not_null" /\ DropNotNull(m)
  <2>1. \A c \in Columns : [c EXCEPT !.nullable = TRUE] \in Columns
    BY DEF Columns
  <2> QED
    BY <1>6, <2>1, ResolvedTyped, ChangeTyped DEF DropNotNull
<1>7. CASE m.kind = "set_default" /\ SetDefault(m)
  <2>1. \A c \in Columns : [c EXCEPT !.default = m.to] \in Columns
    BY <1>7 DEF Columns, IsMutation
  <2> QED
    BY <1>7, <2>1, ResolvedTyped, ChangeTyped DEF SetDefault
<1>8. CASE m.kind = "drop_default" /\ DropDefault(m)
  <2>1. \A c \in Columns : [c EXCEPT !.default = "none"] \in Columns
    BY DEF Columns, Defaults
  <2> QED
    BY <1>8, <2>1, ResolvedTyped, ChangeTyped DEF DropDefault
<1>9. CASE m.kind = "rename_column" /\ RenameColumn(m)
  BY <1>9, RenameTyped DEF IsMutation
<1>10. CASE AddConstraint(m) \/ DropConstraint(m) \/ CreateIndex(m) \/ CreateSchema(m)
            \/ CreateObject(m)
  BY <1>10, PartMutationTyped
<1> QED
  BY <1>1, <1>2, <1>3, <1>4, <1>5, <1>6, <1>7, <1>8, <1>9, <1>10 DEF Apply

----------------------------------------------------------------------------
(* Mutations that fail.                                                    *)

\* The beginning of a concatenation is its first part.
LEMMA ConcatBegins ==
  ASSUME NEW S, NEW s \in Seq(S), NEW t \in Seq(S)
  PROVE  SubSeq(s \o t, 1, Len(s)) = s /\ IsPrefix(s, s \o t)
<1>1. Len(s) \in Nat /\ Len(t) \in Nat /\ s \o t \in Seq(S) /\ Len(s \o t) = Len(s) + Len(t)
  OBVIOUS
<1>2. \A k \in 1..Len(s) : (s \o t)[k] = s[k]
  BY ConcatPlaces
<1>3. s = [k \in 1..Len(s) |-> s[k]]
  OBVIOUS
<1>4. SubSeq(s \o t, 1, Len(s)) = s
  <2>1. SubSeq(s \o t, 1, Len(s)) = [k \in 1..Len(s) |-> (s \o t)[k]]
    BY <1>1
  <2> QED
    BY <1>2, <1>3, <2>1
<1>5. SubSeq(s, 1, Len(s)) = s /\ Len(s) <= Len(s \o t)
  BY <1>1, <1>3
<1> QED
  BY <1>4, <1>5 DEF IsPrefix

LEMMA NothingChanged ==
  ASSUME SchemaTyped, heap' = heap, objects' = objects, tables' = tables
  PROVE  LeavesTheRest
<1>1. <<>> \in Seq(Columns) /\ heap \in Seq(Columns) /\ heap \o <<>> = heap
  BY DEF SchemaTyped
<1>2. SubSeq(heap, 1, Len(heap)) = heap
  BY <1>1, ConcatBegins
<1> QED
  BY <1>2 DEF LeavesTheRest

\* What a mutation that does not succeed leaves of the schema.
LEMMA FailureLeaves ==
  ASSUME SchemaTyped, NEW m, IsMutation(m), Apply(m), outcome' \notin {"ok", "panic"}
  PROVE  LeavesTheRest
<1>1. CASE m.kind = "create_table" /\ MergeFails(m)
  <2>1. PICK first \in Mismatches(m) :
          /\ heap' = heap \o Missing(m, SubSeq(m.columns, 1, first - 1))
          /\ tables' = [tables EXCEPT ![m.table] =
                          AddColumns(@, Missing(m, SubSeq(m.columns, 1, first - 1)))]
    BY <1>1 DEF MergeFails
  <2> DEFINE new == Missing(m, SubSeq(m.columns, 1, first - 1))
             old == tables[m.table]
             places == [k \in DOMAIN new |-> Len(heap) + k]
  <2>2. new \in Seq(Columns)
    <3>1. m.columns \in Seq(Columns)
      BY <1>1 DEF IsMutation
    <3>2. first \in 1..Len(m.columns) /\ Len(m.columns) \in Nat
      BY <3>1 DEF Mismatches
    <3>3. SubSeq(m.columns, 1, first - 1) \in Seq(Columns)
      BY <3>1, <3>2
    <3> QED
      BY <3>3, MissingTyped
  <2> HIDE DEF new
  <2>3. /\ m.table \in DOMAIN tables /\ old.placeholder /\ objects' = objects
        /\ heap' = heap \o new /\ tables' = [tables EXCEPT ![m.table] = AddColumns(old, new)]
    BY <1>1, <2>1 DEF MergeFails, new
  <2>4. heap \in Seq(Columns) /\ Len(heap) \in Nat /\ TableTyped(old, Len(heap))
    BY <2>3 DEF SchemaTyped
  <2>5. SubSeq(heap', 1, Len(heap)) = heap
    BY <2>2, <2>3, <2>4, ConcatBegins
  <2>6. AddColumns(old, new).placeholder /\ AddColumns(old, new).columns = old.columns \o places
    BY <2>2, <2>3, <2>4, AddColumnsTyped
  <2>7. IsPrefix(old.columns, AddColumns(old, new).columns)
    <3>1. places \in Seq(Nat)
      BY <2>2, <2>4
    <3>2. old.columns \in Seq(Nat)
      BY <2>4 DEF TableTyped
    <3> QED
      BY <2>6, <3>1, <3>2, ConcatBegins
  <2> HIDE DEF places
  <2> QED
    BY <2>3, <2>5, <2>6, <2>7 DEF LeavesTheRest
<1>2. CASE ~(m.kind = "create_table" /\ MergeFails(m))
  <2>1. CASE m.kind = "create_table" /\ CreateTable(m)
    <3>1. TableExists(m)
      BY <1>2, <2>1 DEF CreateTable, CreateNewTable, MergePlaceholder
    <3> QED
      BY <3>1, NothingChanged DEF TableExists, Fails
  <2>2. CASE m.kind = "add_column" /\ AddColumn(m)
    BY <2>2 DEF AddColumn
  <2>3. CASE m.kind = "drop_column" /\ DropColumn(m)
    BY <2>3, NothingChanged DEF DropColumn, Fails
  <2>4. \A column : ChangeColumn(m, column) => LeavesTheRest
    BY NothingChanged DEF ChangeColumn, Fails
  <2>5. CASE \/ AlterColumnType(m) \/ SetNotNull(m) \/ DropNotNull(m) \/ SetDefault(m)
             \/ DropDefault(m)
    BY <2>4, <2>5 DEF AlterColumnType, SetNotNull, DropNotNull, SetDefault, DropDefault
  <2>6. CASE m.kind = "rename_column" /\ RenameColumn(m)
    <3>1. RenameFails(m)
      BY <2>6 DEF RenameColumn, RenameNothing, RenameDone
    <3> QED
      BY <3>1, NothingChanged DEF RenameFails, Fails
  <2>7. CASE AddConstraint(m) \/ DropConstraint(m)
    BY <2>7, NothingChanged DEF AddConstraint, DropConstraint, Fails
  <2>8. CASE CreateIndex(m)
    BY <2>8, NothingChanged DEF CreateIndex
  <2>9. CASE CreateSchema(m) \/ CreateObject(m)
    BY <2>9, NothingChanged DEF CreateSchema, CreateObject
  <2> QED
    BY <2>1, <2>2, <2>3, <2>5, <2>6, <2>7, <2>8, <2>9 DEF Apply
<1> QED
  BY <1>1, <1>2
=============================================================================
