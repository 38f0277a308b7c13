---------------------------- MODULE ScriptProofs ----------------------------
(***************************************************************************)
(* The parsed schema and the catalog, for all scripts that PostgreSQL      *)
(* executes: the lists and maps of a table agree, the columns, constraints *)
(* and indexes are those of the catalog, and nothing fails, unless the     *)
(* script has one of the statements that Steady, Plain, Careful and        *)
(* Distinct name.                                                          *)
(***************************************************************************)
EXTENDS Script, ParsedSchemaProofs

Compared(c) == [type |-> c.type, nullable |-> c.nullable, default |-> c.default]

\* The map of a table leads to a column of each name, and the list has the same columns.
Linked(h, table) ==
  /\ \A n \in DOMAIN table.byName : h[table.byName[n]].name = n
  /\ \A p : p \in Range(table.columns) <=> p \in Range(table.byName)
  /\ IsInjective(table.columns)

\* The index leads to the place in the list.
Indexed(table) ==
  /\ DOMAIN table.index = DOMAIN table.byName
  /\ \A n \in DOMAIN table.byName :
       table.index[n] \in DOMAIN table.columns /\ table.columns[table.index[n]] = table.byName[n]

\* A table of the schema is the one of the catalog.
Matches(h, table, cat) ==
  /\ ~table.placeholder
  /\ DOMAIN cat = {"columns", "constraints", "indexes"}
  /\ DOMAIN cat.columns = DOMAIN table.byName
  /\ Linked(h, table)

\* So are the values of its columns.
Valued(h, table, cat) ==
  cat.columns = [n \in DOMAIN table.byName |-> Compared(h[table.byName[n]])]

\* No two tables have a column together.
NotShared ==
  \A t, u \in DOMAIN tables :
    \A n \in DOMAIN tables[t].byName, m \in DOMAIN tables[u].byName :
      tables[t].byName[n] = tables[u].byName[m] => t = u

Structure ==
  /\ DOMAIN catalog = {"namespaces", "tables", "objects"}
  /\ DOMAIN tables = DOMAIN catalog.tables
  /\ \A t \in DOMAIN tables :
       /\ Matches(heap, tables[t], catalog.tables[t])
       /\ ~HasKind("rename_column") => Indexed(tables[t])
       /\ Plain => Valued(heap, tables[t], catalog.tables[t])
  /\ NotShared

\* Nothing has failed, and the indexes of a table have the names that PostgreSQL knows.
Accepted ==
  /\ outcome = "ok"
  /\ DOMAIN objects = DOMAIN catalog.objects
  /\ \A t \in DOMAIN tables :
       /\ \A x \in catalog.tables[t].indexes : IsIndex(x)
       /\ ~HasKind("drop_column") =>
            DOMAIN tables[t].indexes = {x.name : x \in catalog.tables[t].indexes}

\* As LeftBehind, of the names in g.
Left(g, t, p) == \E n \in Range(p.columns) : <<t, n>> \in g

\* The parser's p is PostgreSQL's c.
Alike(g, t, p, c) ==
  /\ p.rest = c.rest
  /\ p.columns = c.columns \/ Left(g, t, p)
  /\ c.name # <<>> => p.name = c.name

\* The name of the parser for a constraint.
KeyOf(t, c) == defaultConstraintName(t[2], c)

HasRename(m) == \E s \in m : s.kind = "rename_column"

\* One of these statements has written it, for columns that may have had other names.
IsFrom(m, t, c) ==
  \E s \in m : \E o \in Written(s) :
    s.table = t /\ o.name = c.name /\ o.type = c.type /\ (c = o \/ HasRename(m))

\* The constraints of the catalog and those of a parsed table.
ConstraintsHeld(m, g, t, held, constraints) ==
  /\ \A c \in constraints :
       /\ IsConstraint(c) /\ IsFrom(m, t, c)
       /\ KeyOf(t, c) \in DOMAIN held
       /\ held[KeyOf(t, c)].type = c.type /\ Alike(g, t, held[KeyOf(t, c)], c)
  /\ \A c, d \in constraints : KeyOf(t, c) = KeyOf(t, d) => c = d
  /\ \A n \in DOMAIN held : Left(g, t, held[n]) \/ \E c \in constraints : KeyOf(t, c) = n

\* So with the indexes.
IndexesHeld(g, t, held, indexes) ==
  /\ \A x \in indexes :
       IsIndex(x) /\ x.name # <<>> /\ x.name \in DOMAIN held /\ Alike(g, t, held[x.name], x)
  /\ \A n \in DOMAIN held : Left(g, t, held[n]) \/ \E x \in indexes : x.name = n

\* The constraints and indexes of a table of the schema are those of the catalog.
Held(g, t) ==
  /\ ConstraintsHeld(menu, g, t, tables[t].constraints, catalog.tables[t].constraints)
  /\ IndexesHeld(g, t, tables[t].indexes, catalog.tables[t].indexes)

PartsHeld == \A t \in DOMAIN tables : Held(gone, t)

IInv ==
  /\ menu \in Menus /\ TypeOK
  /\ Steady => Structure
  /\ Steady /\ Careful => Accepted
  /\ Steady /\ Careful /\ Distinct => PartsHeld

----------------------------------------------------------------------------
(* One table.                                                              *)

\* Different names lead to different columns.
LEMMA LinkedInjective ==
  ASSUME NEW h, NEW table, Linked(h, table), NEW n \in DOMAIN table.byName,
         NEW m \in DOMAIN table.byName, table.byName[n] = table.byName[m]
  PROVE  n = m
BY DEF Linked

\* Columns that have names of their own.
Fresh(table, new) ==
  /\ \A k, l \in DOMAIN new : new[k].name = new[l].name => k = l
  /\ \A k \in DOMAIN new : new[k].name \notin DOMAIN table.byName

\* They are behind those that the heap and the table have.
Extended(table, new, added) ==
  /\ Linked(heap \o new, added)
  /\ Indexed(table) => Indexed(added)
  /\ DOMAIN added.byName = DOMAIN table.byName \cup NamesOf(new)
  /\ \A n \in DOMAIN table.byName :
       /\ added.byName[n] = table.byName[n] /\ table.byName[n] \in 1..Len(heap)
       /\ (heap \o new)[table.byName[n]] = heap[table.byName[n]]
  /\ \A k \in DOMAIN new :
       /\ new[k].name \in DOMAIN added.byName
       /\ added.byName[new[k].name] = Len(heap) + k
       /\ (heap \o new)[Len(heap) + k] = new[k]

LEMMA AddLinked ==
  ASSUME heap \in Seq(Columns), NEW table, TableTyped(table, Len(heap)), Linked(heap, table),
         NEW new \in Seq(Columns), Fresh(table, new),
         NEW added, added = AddColumns(table, new)
  PROVE  Extended(table, new, added)
<1> DEFINE places == [k \in DOMAIN new |-> Len(heap) + k]
<1>0. Len(heap) \in Nat /\ Len(new) \in Nat /\ DOMAIN new = 1..Len(new) /\ DOMAIN heap = 1..Len(heap)
  OBVIOUS
<1>1. /\ DOMAIN table = {"columns", "byName", "index", "primaryKey", "constraints", "indexes",
                         "placeholder"}
      /\ table.columns \in Seq(1..Len(heap))
      /\ Len(table.columns) \in Nat /\ DOMAIN table.columns = 1..Len(table.columns)
      /\ \A n \in DOMAIN table.byName : table.byName[n] \in 1..Len(heap)
  BY DEF TableTyped, Range
<1>2. \A k \in DOMAIN new : new[k].name \in NamesOf(new) /\ LastNamed(new, new[k].name) = k
  <2> TAKE k \in DOMAIN new
  <2>1. new[k].name \in NamesOf(new)
    BY DEF NamesOf
  <2>2. /\ LastNamed(new, new[k].name) \in DOMAIN new
        /\ new[LastNamed(new, new[k].name)].name = new[k].name
    BY <1>0, <2>1, LastNamedIsOne
  <2> QED
    BY <2>1, <2>2 DEF Fresh
<1>3. \A n \in NamesOf(new) : \E k \in DOMAIN new : new[k].name = n
  BY DEF NamesOf
<1>4. /\ added.columns = table.columns \o places
      /\ added.byName = [n \in DOMAIN table.byName \cup NamesOf(new) |->
                           IF n \in NamesOf(new) THEN Len(heap) + LastNamed(new, n)
                                                 ELSE table.byName[n]]
      /\ added.index = [n \in DOMAIN table.index \cup NamesOf(new) |->
                          IF n \in NamesOf(new) THEN Len(table.columns) + LastNamed(new, n)
                                                ELSE table.index[n]]
  BY <1>1 DEF AddColumns
<1>5. DOMAIN added.byName = DOMAIN table.byName \cup NamesOf(new)
  BY <1>4
<1>6. \A n \in DOMAIN table.byName : n \notin NamesOf(new) /\ added.byName[n] = table.byName[n]
  BY <1>3, <1>4 DEF Fresh
<1>7. \A k \in DOMAIN new :
        new[k].name \in DOMAIN added.byName /\ added.byName[new[k].name] = Len(heap) + k
  BY <1>2, <1>4
<1>8. /\ \A p \in 1..Len(heap) : (heap \o new)[p] = heap[p]
      /\ \A k \in DOMAIN new : (heap \o new)[Len(heap) + k] = new[k]
  BY <1>0, ConcatPlaces
<1>9. \A n \in DOMAIN added.byName : (heap \o new)[added.byName[n]].name = n
  <2> TAKE n \in DOMAIN added.byName
  <2>1. CASE n \in DOMAIN table.byName
    BY <1>1, <1>6, <1>8, <2>1 DEF Linked
  <2>2. CASE n \in NamesOf(new)
    BY <1>3, <1>7, <1>8, <2>2
  <2> QED
    BY <1>5, <2>1, <2>2
<1>10. /\ places \in Seq(Nat) /\ table.columns \in Seq(Nat)
       /\ IsInjective(places)
       /\ \A p : p \in Range(places) <=> \E k \in DOMAIN new : p = Len(heap) + k
       /\ Range(table.columns) \cap Range(places) = {}
  <2>1. places \in Seq(Nat) /\ DOMAIN places = DOMAIN new
        /\ \A k \in DOMAIN new : places[k] = Len(heap) + k
    BY <1>0
  <2>2. table.columns \in Seq(Nat)
    BY <1>1
  <2>3. IsInjective(places)
    BY <1>0, <2>1 DEF IsInjective
  <2>4. \A p : p \in Range(places) <=> \E k \in DOMAIN new : p = Len(heap) + k
    BY <2>1 DEF Range
  <2>5. \A p \in Range(table.columns) : p \in 1..Len(heap)
    BY <1>1 DEF Range
  <2>6. Range(table.columns) \cap Range(places) = {}
    <3>1. \A p \in Range(places) : p \notin 1..Len(heap)
      BY <1>0, <2>4
    <3> QED
      BY <2>5, <3>1
  <2> QED
    BY <2>1, <2>2, <2>3, <2>4, <2>6
<1>11. /\ \A p : p \in Range(added.columns) <=> p \in Range(table.columns) \/ p \in Range(places)
       /\ IsInjective(added.columns)
  <2> DEFINE before == table.columns
             after == added.columns
  <2>1. /\ before \in Seq(Nat) /\ places \in Seq(Nat) /\ after = before \o places
        /\ IsInjective(before) /\ IsInjective(places)
        /\ Range(before) \cap Range(places) = {}
    BY <1>4, <1>10 DEF Linked
  <2> HIDE DEF places, before, after
  <2>2. /\ \A p : p \in Range(after) <=> p \in Range(before) \/ p \in Range(places)
        /\ IsInjective(after)
    BY <2>1, ConcatList
  <2> QED
    BY <2>2 DEF before, after
<1>12. \A p : p \in Range(added.byName) <=> p \in Range(table.byName) \/ p \in Range(places)
  <2>1. ASSUME NEW p \in Range(added.byName) PROVE p \in Range(table.byName) \/ p \in Range(places)
    <3>1. PICK n \in DOMAIN added.byName : p = added.byName[n]
      BY DEF Range
    <3>2. CASE n \in DOMAIN table.byName
      BY <1>6, <3>1, <3>2, Zenon DEF Range
    <3>3. CASE n \in NamesOf(new)
      <4>1. PICK k \in DOMAIN new : new[k].name = n
        BY <1>3, <3>3
      <4>2. p = Len(heap) + k
        BY <1>7, <3>1, <4>1
      <4> HIDE DEF places
      <4> QED
        BY <1>10, <4>2
    <3> QED
      BY <1>5, <3>2, <3>3
  <2>2. ASSUME NEW p \in Range(table.byName) PROVE p \in Range(added.byName)
    <3>1. PICK n \in DOMAIN table.byName : p = table.byName[n]
      BY DEF Range
    <3>2. n \in DOMAIN added.byName /\ added.byName[n] = p
      BY <1>5, <1>6, <3>1
    <3> QED
      BY <3>2 DEF Range
  <2>3. ASSUME NEW p \in Range(places) PROVE p \in Range(added.byName)
    <3>1. PICK k \in DOMAIN new : p = Len(heap) + k
      BY <1>10
    <3> HIDE DEF places
    <3> QED
      BY <1>7, <3>1 DEF Range
  <2> QED
    BY <2>1, <2>2, <2>3
<1>13. Linked(heap \o new, added)
  <2> HIDE DEF places
  <2>1. \A p : p \in Range(added.columns) <=> p \in Range(added.byName)
    BY <1>11, <1>12 DEF Linked
  <2> QED
    BY <1>9, <1>11, <2>1 DEF Linked
<1>14. ASSUME Indexed(table) PROVE Indexed(added)
  <2>1. DOMAIN added.index = DOMAIN added.byName
    BY <1>4, <1>14 DEF Indexed
  <2>2. /\ DOMAIN added.columns = 1..(Len(table.columns) + Len(new))
        /\ \A k \in DOMAIN table.columns : added.columns[k] = table.columns[k]
        /\ \A k \in DOMAIN new : added.columns[Len(table.columns) + k] = Len(heap) + k
    <3>1. Len(places) = Len(new) /\ \A k \in 1..Len(new) : places[k] = Len(heap) + k
      BY <1>0
    <3> DEFINE before == table.columns
               after == added.columns
    <3>2. before \in Seq(Nat) /\ places \in Seq(Nat) /\ after = before \o places
      BY <1>4, <1>10
    <3> HIDE DEF places, before, after
    <3>3. /\ DOMAIN after = 1..(Len(before) + Len(places))
          /\ \A p \in 1..Len(before) : after[p] = before[p]
          /\ \A p \in 1..Len(places) : after[Len(before) + p] = places[p]
      BY <3>2, ConcatPlaces
    <3> QED
      BY <1>0, <1>1, <3>1, <3>3 DEF before, after
  <2>3. ASSUME NEW n \in DOMAIN added.byName
        PROVE  /\ added.index[n] \in DOMAIN added.columns
               /\ added.columns[added.index[n]] = added.byName[n]
    <3>1. CASE n \in DOMAIN table.byName
      <4>1. n \in DOMAIN table.index /\ added.index[n] = table.index[n]
        BY <1>4, <1>6, <1>14, <3>1 DEF Indexed
      <4>2. table.index[n] \in 1..Len(table.columns)
            /\ table.columns[table.index[n]] = table.byName[n]
        BY <1>1, <1>14, <3>1 DEF Indexed
      <4> QED
        BY <1>0, <1>1, <1>6, <2>2, <3>1, <4>1, <4>2
    <3>2. CASE n \in NamesOf(new)
      <4>1. PICK k \in DOMAIN new : new[k].name = n
        BY <1>3, <3>2
      <4>2. added.index[n] = Len(table.columns) + k /\ added.byName[n] = Len(heap) + k
        BY <1>2, <1>4, <1>7, <4>1
      <4> QED
        BY <1>0, <1>1, <2>2, <4>2
    <3> QED
      BY <1>5, <3>1, <3>2
  <2> QED
    BY <2>1, <2>3 DEF Indexed
<1> QED
  BY <1>1, <1>5, <1>6, <1>7, <1>8, <1>13, <1>14 DEF Extended

\* A column is taken out.
LEMMA RemoveLinked ==
  ASSUME heap \in Seq(Columns), NEW table, TableTyped(table, Len(heap)), Linked(heap, table),
         Indexed(table), NEW name \in DOMAIN table.byName,
         NEW left, left = RemoveColumn(table, name)
  PROVE  /\ ~RemovePanics(table, name)
         /\ left.byName = Without(table.byName, name)
         /\ left.placeholder = table.placeholder
         /\ Linked(heap, left) /\ Indexed(left)
<1> DEFINE place == table.index[name]
           last == Len(table.columns)
           rest == Without(table.index, name)
           moved == [k \in 1..(last - 1) |-> IF k = place THEN table.columns[last]
                                                         ELSE table.columns[k]]
           lastName == heap[table.columns[last]].name
<1>0. /\ DOMAIN table = {"columns", "byName", "index", "primaryKey", "constraints", "indexes",
                         "placeholder"}
      /\ last \in Nat /\ DOMAIN table.columns = 1..last
  BY DEF TableTyped
<1>1. /\ DOMAIN table.index = DOMAIN table.byName /\ name \in DOMAIN table.index
      /\ \A n \in DOMAIN table.byName :
           table.index[n] \in 1..last /\ table.columns[table.index[n]] = table.byName[n]
  BY <1>0 DEF Indexed
<1>2. place \in 1..last /\ table.columns[place] = table.byName[name]
  BY <1>1
<1>3. ~RemovePanics(table, name)
  BY <1>0, <1>2 DEF RemovePanics
<1>4. last \in 1..last /\ last - 1 \in Nat
  BY <1>0, <1>2
<1>5. \A k \in 1..last : \E n \in DOMAIN table.byName : table.byName[n] = table.columns[k]
  <2>1. \A p : p \in Range(table.columns) => p \in Range(table.byName)
    BY DEF Linked
  <2>2. \A k \in 1..last : table.columns[k] \in Range(table.columns)
    BY <1>0 DEF Range
  <2>3. \A p \in Range(table.byName) : \E n \in DOMAIN table.byName : table.byName[n] = p
    BY DEF Range
  <2> QED
    BY <2>1, <2>2, <2>3
<1>6. lastName \in DOMAIN table.byName /\ table.byName[lastName] = table.columns[last]
  <2>1. PICK n \in DOMAIN table.byName : table.byName[n] = table.columns[last]
    BY <1>4, <1>5
  <2>2. heap[table.byName[n]].name = n
    BY DEF Linked
  <2> QED
    BY <2>1, <2>2
<1>7. \A k, l \in 1..last : table.columns[k] = table.columns[l] => k = l
  BY <1>0 DEF Linked, IsInjective
<1>8. place # last => lastName # name
  BY <1>2, <1>4, <1>6, <1>7
<1>9. /\ left.byName = Without(table.byName, name)
      /\ left.placeholder = table.placeholder
      /\ left.columns = moved
      /\ left.index = IF place = last THEN rest ELSE Put(rest, lastName, place)
  <2>1. left = [table EXCEPT !.byName = Without(@, name),
                             !.index = IF place = last THEN rest ELSE Put(rest, lastName, place),
                             !.columns = moved]
    BY <1>1, <1>3, Zenon DEF RemoveColumn
  <2> HIDE DEF place, last, rest, moved, lastName
  <2> QED
    BY <1>0, <2>1
<1>10. /\ DOMAIN left.byName = DOMAIN table.byName \ {name}
       /\ \A n \in DOMAIN table.byName \ {name} : left.byName[n] = table.byName[n]
  BY <1>9 DEF Without
<1>11. DOMAIN left.columns = 1..(last - 1)
       /\ \A k \in 1..(last - 1) : left.columns[k] = IF k = place THEN table.columns[last]
                                                                  ELSE table.columns[k]
  BY <1>9
<1>12. DOMAIN left.index = DOMAIN left.byName
  BY <1>1, <1>6, <1>8, <1>9, <1>10 DEF Put, Without
<1>13. ASSUME NEW n \in DOMAIN left.byName
       PROVE  /\ left.index[n] \in DOMAIN left.columns
              /\ left.columns[left.index[n]] = left.byName[n]
  <2>1. n \in DOMAIN table.byName /\ n # name /\ left.byName[n] = table.byName[n]
    BY <1>10
  <2>2. rest[n] = table.index[n] /\ n \in DOMAIN rest
    BY <1>1, <2>1 DEF Without
  <2>3. /\ table.index[n] \in 1..last /\ table.columns[table.index[n]] = table.byName[n]
        /\ table.index[n] # place
    <3>1. table.byName[n] # table.byName[name]
      BY <2>1, LinkedInjective
    <3> QED
      BY <1>1, <1>2, <2>1, <3>1
  <2>4. CASE place = last
    <3>1. left.index[n] = table.index[n]
      BY <1>9, <2>2, <2>4
    <3>2. table.index[n] \in 1..(last - 1)
      BY <1>0, <2>3, <2>4
    <3> QED
      BY <1>11, <2>1, <2>3, <3>1, <3>2
  <2>5. CASE place # last /\ n = lastName
    <3>1. left.index[n] = place
      BY <1>9, <2>5 DEF Put
    <3>2. place \in 1..(last - 1)
      BY <1>0, <1>2, <2>5
    <3> QED
      BY <1>6, <1>11, <2>1, <2>5, <3>1, <3>2
  <2>6. CASE place # last /\ n # lastName
    <3>1. left.index[n] = table.index[n]
      BY <1>9, <2>2, <2>6 DEF Put
    <3>2. table.index[n] # last
      <4>1. table.byName[n] # table.byName[lastName]
        BY <1>6, <2>1, <2>6, LinkedInjective
      <4> QED
        BY <1>6, <2>3, <4>1
    <3>3. table.index[n] \in 1..(last - 1)
      BY <1>0, <2>3, <3>2
    <3> QED
      BY <1>11, <2>1, <2>3, <3>1, <3>3
  <2> QED
    BY <2>4, <2>5, <2>6
<1>14. Indexed(left)
  BY <1>12, <1>13 DEF Indexed
<1>15. IsInjective(left.columns)
  <2>1. ASSUME NEW k \in 1..(last - 1), NEW l \in 1..(last - 1), left.columns[k] = left.columns[l]
        PROVE  k = l
    <3>1. k \in 1..last /\ l \in 1..last /\ k # last /\ l # last
      BY <1>0
    <3> QED
      BY <1>4, <1>7, <1>11, <2>1, <3>1
  <2> QED
    BY <1>11, <2>1 DEF IsInjective
<1>16. \A p : p \in Range(left.columns) <=> p \in Range(left.byName)
  <2>1. ASSUME NEW n \in DOMAIN left.byName PROVE left.byName[n] \in Range(left.columns)
    BY <1>13 DEF Range
  <2>2. ASSUME NEW k \in 1..(last - 1)
        PROVE  \E n \in DOMAIN left.byName : left.byName[n] = left.columns[k]
    <3>1. k \in 1..last /\ k # last
      BY <1>0
    <3> DEFINE old == IF k = place THEN last ELSE k
    <3>2. old \in 1..last /\ old # place /\ left.columns[k] = table.columns[old]
      BY <1>4, <1>11, <3>1
    <3>3. PICK n \in DOMAIN table.byName : table.byName[n] = table.columns[old]
      BY <1>5, <3>2
    <3>4. n # name
      BY <1>2, <1>7, <3>2, <3>3
    <3> QED
      BY <1>10, <3>2, <3>3, <3>4
  <2>3. \A p \in Range(left.byName) : p \in Range(left.columns)
    BY <2>1 DEF Range
  <2>4. \A p \in Range(left.columns) : p \in Range(left.byName)
    BY <1>11, <2>2 DEF Range
  <2> QED
    BY <2>3, <2>4
<1>17. \A n \in DOMAIN left.byName : heap[left.byName[n]].name = n
  BY <1>10 DEF Linked
<1>18. Linked(heap, left)
  BY <1>15, <1>16, <1>17 DEF Linked
<1> QED
  BY <1>3, <1>9, <1>14, <1>18

\* A column has another name and is otherwise where it was.
Renames(table, name, to, renamed, h) ==
  /\ Linked(h, renamed)
  /\ renamed.placeholder = table.placeholder
  /\ DOMAIN renamed.byName = (DOMAIN table.byName \ {name}) \cup {to}
  /\ renamed.byName[to] = table.byName[name]
  /\ \A n \in DOMAIN table.byName \ {name} : renamed.byName[n] = table.byName[n]
  /\ \A n \in DOMAIN table.byName :
       Compared(h[table.byName[n]]) = Compared(heap[table.byName[n]])
  /\ \A p \in 1..Len(heap) : h[p] = heap[p] \/ p = table.byName[name]

\* It may get one that no other has.
LEMMA RenameLinked ==
  ASSUME heap \in Seq(Columns), NEW table, TableTyped(table, Len(heap)), Linked(heap, table),
         NEW name \in DOMAIN table.byName, NEW to, to \notin DOMAIN table.byName,
         NEW renamed,
         renamed = [table EXCEPT !.byName = Put(Without(@, name), to, table.byName[name])],
         NEW h, h = [heap EXCEPT ![table.byName[name]].name = to]
  PROVE  Renames(table, name, to, renamed, h)
<1>0. DOMAIN table = {"columns", "byName", "index", "primaryKey", "constraints", "indexes",
                      "placeholder"}
  BY DEF TableTyped
<1>1. \A n \in DOMAIN table.byName : table.byName[n] \in 1..Len(heap)
  BY DEF TableTyped, Range
<1>2. /\ renamed.placeholder = table.placeholder
      /\ renamed.columns = table.columns
      /\ renamed.byName = Put(Without(table.byName, name), to, table.byName[name])
  BY <1>0
<1>3. /\ DOMAIN renamed.byName = (DOMAIN table.byName \ {name}) \cup {to}
      /\ renamed.byName[to] = table.byName[name]
      /\ \A n \in DOMAIN table.byName \ {name} : renamed.byName[n] = table.byName[n]
  BY <1>2 DEF Put, Without
<1>4. DOMAIN heap = 1..Len(heap) /\ \A p \in 1..Len(heap) : heap[p] \in Columns
  OBVIOUS
<1>5. \A p \in 1..Len(heap) :
        /\ h[p] = IF p = table.byName[name] THEN [heap[p] EXCEPT !.name = to] ELSE heap[p]
        /\ h[p].type = heap[p].type /\ h[p].nullable = heap[p].nullable
        /\ h[p].default = heap[p].default
  BY <1>4 DEF Columns
<1>6. \A n \in DOMAIN table.byName :
        Compared(h[table.byName[n]]) = Compared(heap[table.byName[n]])
  BY <1>1, <1>5 DEF Compared
<1>7. h[table.byName[name]].name = to
  <2>1. [heap[table.byName[name]] EXCEPT !.name = to].name = to
    BY <1>1, <1>4 DEF Columns
  <2> QED
    BY <1>1, <1>5, <2>1
<1>8. \A n \in DOMAIN renamed.byName : h[renamed.byName[n]].name = n
  <2> TAKE n \in DOMAIN renamed.byName
  <2>1. CASE n = to
    BY <1>3, <1>7, <2>1
  <2>2. CASE n # to
    <3>1. n \in DOMAIN table.byName /\ n # name /\ renamed.byName[n] = table.byName[n]
      BY <1>3, <2>2
    <3>2. table.byName[n] # table.byName[name]
      BY <3>1, LinkedInjective
    <3>3. h[table.byName[n]] = heap[table.byName[n]]
      BY <1>1, <1>5, <3>1, <3>2
    <3> QED
      BY <3>1, <3>3 DEF Linked
  <2> QED
    BY <2>1, <2>2
<1>9. \A p : p \in Range(renamed.byName) <=> p \in Range(table.byName)
  <2>1. ASSUME NEW n \in DOMAIN renamed.byName
        PROVE  \E m \in DOMAIN table.byName : table.byName[m] = renamed.byName[n]
    BY <1>3
  <2>2. ASSUME NEW n \in DOMAIN table.byName
        PROVE  \E m \in DOMAIN renamed.byName : renamed.byName[m] = table.byName[n]
    <3>1. CASE n = name
      BY <1>3, <3>1
    <3>2. CASE n # name
      BY <1>3, <3>2
    <3> QED
      BY <3>1, <3>2
  <2> QED
    BY <2>1, <2>2 DEF Range
<1>10. Linked(h, renamed)
  BY <1>2, <1>8, <1>9 DEF Linked
<1> QED
  BY <1>2, <1>3, <1>5, <1>6, <1>10 DEF Renames

----------------------------------------------------------------------------
(* All tables.                                                             *)

\* A statement changes one table, and of the heap only what belongs to that or is new.
LEMMA OneTable ==
  ASSUME Structure, SchemaTyped, NEW T, menu' = menu,
         DOMAIN catalog' = DOMAIN catalog,
         DOMAIN tables' = DOMAIN tables \cup {T},
         DOMAIN catalog'.tables = DOMAIN catalog.tables \cup {T},
         \A u \in DOMAIN tables \ {T} :
           tables'[u] = tables[u] /\ catalog'.tables[u] = catalog.tables[u],
         \A p \in 1..Len(heap) :
           heap'[p] = heap[p] \/ (T \in DOMAIN tables /\ p \in Range(tables[T].byName)),
         \A n \in DOMAIN tables'[T].byName :
           \/ tables'[T].byName[n] \notin 1..Len(heap)
           \/ T \in DOMAIN tables /\ tables'[T].byName[n] \in Range(tables[T].byName),
         Matches(heap', tables'[T], catalog'.tables[T]),
         ~HasKind("rename_column") => Indexed(tables'[T]),
         Plain => Valued(heap', tables'[T], catalog'.tables[T])
  PROVE  Structure'
<1>1. \A u \in DOMAIN tables : \A n \in DOMAIN tables[u].byName : tables[u].byName[n] \in 1..Len(heap)
  BY DEF SchemaTyped, TableTyped, Range
<1>2. ASSUME NEW u \in DOMAIN tables, u # T, NEW n \in DOMAIN tables[u].byName
      PROVE  /\ heap'[tables[u].byName[n]] = heap[tables[u].byName[n]]
             /\ T \in DOMAIN tables => tables[u].byName[n] \notin Range(tables[T].byName)
  <2>1. T \in DOMAIN tables => tables[u].byName[n] \notin Range(tables[T].byName)
    BY <1>2 DEF Structure, NotShared, Range
  <2> QED
    BY <1>1, <2>1
<1>3. (HasKind("rename_column") <=> HasKind("rename_column")') /\ (Plain <=> Plain')
  BY DEF HasKind, Plain
<1>4. ASSUME NEW u \in DOMAIN tables, u # T
      PROVE  /\ Matches(heap', tables[u], catalog.tables[u])
             /\ ~HasKind("rename_column") => Indexed(tables[u])
             /\ Plain => Valued(heap', tables[u], catalog.tables[u])
  <2>1. /\ Matches(heap, tables[u], catalog.tables[u])
        /\ ~HasKind("rename_column") => Indexed(tables[u])
        /\ Plain => Valued(heap, tables[u], catalog.tables[u])
    BY DEF Structure
  <2>2. Linked(heap', tables[u])
    BY <1>2, <1>4, <2>1 DEF Matches, Linked
  <2>3. [n \in DOMAIN tables[u].byName |-> Compared(heap'[tables[u].byName[n]])] =
          [n \in DOMAIN tables[u].byName |-> Compared(heap[tables[u].byName[n]])]
    BY <1>2, <1>4
  <2> QED
    BY <2>1, <2>2, <2>3 DEF Matches, Valued
<1>5. \A u \in DOMAIN tables' :
        /\ Matches(heap', tables'[u], catalog'.tables[u])
        /\ ~HasKind("rename_column") => Indexed(tables'[u])
        /\ Plain => Valued(heap', tables'[u], catalog'.tables[u])
  <2> TAKE u \in DOMAIN tables'
  <2>1. CASE u = T
    BY <2>1
  <2>2. CASE u # T
    <3>1. u \in DOMAIN tables /\ tables'[u] = tables[u] /\ catalog'.tables[u] = catalog.tables[u]
      BY <2>2
    <3> QED
      BY <1>4, <2>2, <3>1
  <2> QED
    BY <2>1, <2>2
<1>6. ASSUME NEW t \in DOMAIN tables', NEW u \in DOMAIN tables', t # u,
             NEW n \in DOMAIN tables'[t].byName, NEW m \in DOMAIN tables'[u].byName
      PROVE  tables'[t].byName[n] # tables'[u].byName[m]
  <2>1. \A v \in DOMAIN tables' : v # T => v \in DOMAIN tables /\ tables'[v] = tables[v]
    OBVIOUS
  <2>2. CASE t # T /\ u # T
    BY <1>6, <2>1, <2>2 DEF Structure, NotShared
  <2>3. CASE t = T /\ u # T
    BY <1>1, <1>2, <1>6, <2>1, <2>3
  <2>4. CASE t # T /\ u = T
    BY <1>1, <1>2, <1>6, <2>1, <2>4
  <2> QED
    BY <1>6, <2>2, <2>3, <2>4
<1>7. NotShared'
  BY <1>6 DEF NotShared
<1>8. DOMAIN catalog' = {"namespaces", "tables", "objects"} /\ DOMAIN tables' = DOMAIN catalog'.tables
  BY DEF Structure
<1> QED
  BY <1>3, <1>5, <1>7, <1>8 DEF Structure

\* A statement leaves the columns of all tables as they were.
LEMMA SameColumns ==
  ASSUME Structure, menu' = menu, heap' = heap, DOMAIN catalog' = DOMAIN catalog,
         DOMAIN tables' = DOMAIN tables, DOMAIN catalog'.tables = DOMAIN catalog.tables,
         \A u \in DOMAIN tables :
           /\ tables'[u].columns = tables[u].columns /\ tables'[u].byName = tables[u].byName
           /\ tables'[u].index = tables[u].index /\ tables'[u].placeholder = tables[u].placeholder
           /\ DOMAIN catalog'.tables[u] = DOMAIN catalog.tables[u]
           /\ DOMAIN catalog'.tables[u].columns = DOMAIN catalog.tables[u].columns
           /\ Plain => catalog'.tables[u].columns = catalog.tables[u].columns
  PROVE  Structure'
<1>1. (HasKind("rename_column") <=> HasKind("rename_column")') /\ (Plain <=> Plain')
  BY DEF HasKind, Plain
<1>2. \A u \in DOMAIN tables :
        /\ Matches(heap', tables'[u], catalog'.tables[u])
        /\ ~HasKind("rename_column") => Indexed(tables'[u])
        /\ Plain => Valued(heap', tables'[u], catalog'.tables[u])
  <2> TAKE u \in DOMAIN tables
  <2>1. /\ Matches(heap, tables[u], catalog.tables[u])
        /\ ~HasKind("rename_column") => Indexed(tables[u])
        /\ Plain => Valued(heap, tables[u], catalog.tables[u])
    BY DEF Structure
  <2> QED
    BY <2>1 DEF Matches, Linked, Indexed, Valued
<1>3. NotShared'
  BY DEF Structure, NotShared
<1>4. DOMAIN catalog' = {"namespaces", "tables", "objects"} /\ DOMAIN tables' = DOMAIN catalog'.tables
  BY DEF Structure
<1> QED
  BY <1>1, <1>2, <1>3, <1>4 DEF Structure

----------------------------------------------------------------------------
(* What a statement does to the catalog.                                   *)

Altering(s) == s.kind \notin {"create_schema", "create_object", "create_table"}

LEMMA AlteredCatalog ==
  ASSUME Structure, NEW s, Altering(s), Legal(s, catalog), ~Skipped(s, catalog),
         NEW c, c = Effect(s, catalog)
  PROVE  /\ s.table \in DOMAIN catalog.tables /\ AlterLegal(s, catalog.tables[s.table])
         /\ DOMAIN c = DOMAIN catalog /\ DOMAIN c.tables = DOMAIN catalog.tables
         /\ c.tables[s.table] = Altered(s, catalog.tables[s.table])
         /\ \A u \in DOMAIN catalog.tables \ {s.table} : c.tables[u] = catalog.tables[u]
<1>1. s.table \in DOMAIN catalog.tables /\ AlterLegal(s, catalog.tables[s.table])
  BY DEF Legal, Altering
<1>2. c = [catalog EXCEPT !.tables[s.table] = Altered(s, @)]
  BY DEF Effect, Altering
<1>3. DOMAIN catalog = {"namespaces", "tables", "objects"}
  BY DEF Structure
<1> HIDE DEF Altering
<1>4. c.tables = [catalog.tables EXCEPT ![s.table] = Altered(s, catalog.tables[s.table])]
      /\ DOMAIN c = DOMAIN catalog
  BY <1>2, <1>3
<1> QED
  BY <1>1, <1>4

\* Nothing is done that has been done.
LEMMA SkippedCatalog ==
  ASSUME NEW s, Skipped(s, catalog)
  PROVE  Effect(s, catalog) = catalog
BY DEF Effect

\* A column as PostgreSQL makes it and as the parser does: only its primary key counts,
\* and the default has to be read.
LEMMA SameColumn ==
  ASSUME NEW column, IsColumn(column), column.default \notin Unreadable, NEW constraints,
         NEW parsedColumn \in {ParseColumnDef(column), ParseTableColumn(column)},
         parsedColumn.nullable <=>
           ~column.notNull /\ ~\E c \in constraints : IsPrimaryKey(c) /\ column.name \in Range(c.columns)
  PROVE  Column(column, constraints) = Compared(parsedColumn)
<1> DEFINE keyed == \E c \in constraints : IsPrimaryKey(c) /\ column.name \in Range(c.columns)
<1>1. ParseColumnDef(column) \in Columns /\ ParseTableColumn(column) \in Columns
  BY ColumnDefTyped
<1>2. parsedColumn.type = column.type /\ parsedColumn.default = column.default
  BY <1>1 DEF ParseColumnDef, ParseTableColumn
<1>3. parsedColumn.nullable \in BOOLEAN
  BY <1>1 DEF Columns
<1>4. (~column.notNull /\ ~keyed) \in BOOLEAN
  OBVIOUS
<1>5. parsedColumn.nullable = (~column.notNull /\ ~keyed)
  BY <1>3, <1>4
<1>6. Column(column, constraints) =
        [type |-> column.type, default |-> column.default, nullable |-> ~column.notNull /\ ~keyed]
  BY DEF Column
<1> HIDE DEF keyed
<1> QED
  BY <1>2, <1>5, <1>6 DEF Compared

\* The columns of a CREATE TABLE.
LEMMA CreatedColumn ==
  ASSUME NEW s, IsStatement(s), s.kind = "create_table",
         \A k, l \in DOMAIN s.columns : s.columns[k].name = s.columns[l].name => k = l,
         \A c \in Range(s.columns) : c.default \notin Unreadable,
         \A c \in Range(s.constraints) : ~IsPrimaryKey(c),
         NEW k \in DOMAIN s.columns
  PROVE  Column(s.columns[k], WrittenConstraints(s)) = Compared(ParseTableColumn(s.columns[k]))
<1> DEFINE column == s.columns[k]
           Inline(l) == {[c EXCEPT !.columns = <<s.columns[l].name>>] : c \in Range(s.columns[l].inline)}
           inlineKey == \E j \in DOMAIN column.inline : IsPrimaryKey(column.inline[j])
           keyed == \E c \in WrittenConstraints(s) : IsPrimaryKey(c) /\ column.name \in Range(c.columns)
<1>1. \A l \in DOMAIN s.columns : IsColumn(s.columns[l]) /\ s.columns[l].default \notin Unreadable
  BY DEF IsStatement, Range
<1>2. \A l \in DOMAIN s.columns : \A c \in Range(s.columns[l].inline) :
        /\ [c EXCEPT !.columns = <<s.columns[l].name>>].type = c.type
        /\ [c EXCEPT !.columns = <<s.columns[l].name>>].columns = <<s.columns[l].name>>
  BY <1>1 DEF IsColumn, IsConstraint
<1>3. \A n, x : x \in Range(<<n>>) <=> x = n
  BY DEF Range
<1>3a. \A c : c \in WrittenConstraints(s) <=>
             (\E l \in DOMAIN s.columns : c \in Inline(l)) \/ c \in Range(s.constraints)
  <2> DEFINE behind == UNION {Inline(l) : l \in DOMAIN s.columns}
  <2>1. WrittenConstraints(s) = behind \cup Range(s.constraints)
    BY DEF WrittenConstraints
  <2>2. \A c : c \in behind <=> \E l \in DOMAIN s.columns : c \in Inline(l)
    <3> HIDE DEF Inline
    <3> QED  BY Zenon
  <2> HIDE DEF behind, Inline
  <2> QED
    BY <2>1, <2>2
<1>4. ASSUME inlineKey PROVE keyed
  <2>1. PICK j \in DOMAIN column.inline : IsPrimaryKey(column.inline[j])
    BY <1>4
  <2> DEFINE c == [column.inline[j] EXCEPT !.columns = <<column.name>>]
  <2>2. column.inline[j] \in Range(column.inline)
    BY DEF Range
  <2>3. c \in Inline(k)
    BY <2>2
  <2>4. c \in WrittenConstraints(s)
    BY <1>3a, <2>3
  <2>5. IsPrimaryKey(c) /\ column.name \in Range(c.columns)
    BY <1>2, <1>3, <2>1, <2>2 DEF IsPrimaryKey
  <2> QED
    BY <2>4, <2>5
<1>5. ASSUME keyed PROVE inlineKey
  <2>1. PICK c \in WrittenConstraints(s) : IsPrimaryKey(c) /\ column.name \in Range(c.columns)
    BY <1>5
  <2>2. c \notin Range(s.constraints)
    BY <2>1
  <2>3. \E l \in DOMAIN s.columns : c \in Inline(l)
    BY <1>3a, <2>1, <2>2
  <2>4. PICK l \in DOMAIN s.columns : c \in Inline(l)
    BY <2>3
  <2>5. PICK d \in Range(s.columns[l].inline) : c = [d EXCEPT !.columns = <<s.columns[l].name>>]
    BY <2>4
  <2>6. c.type = d.type /\ c.columns = <<s.columns[l].name>>
    BY <1>2, <2>5
  <2>7. l = k
    BY <1>3, <2>1, <2>6
  <2>8. IsPrimaryKey(d)
    BY <2>1, <2>6 DEF IsPrimaryKey
  <2> QED
    BY <2>7, <2>8 DEF Range
<1>6. ParseTableColumn(column).nullable <=> ~column.notNull /\ ~inlineKey
  <2>1. ParseTableColumn(column) = [ParseColumnDef(column) EXCEPT !.nullable = @ /\ ~inlineKey]
    BY DEF ParseTableColumn
  <2>2. ParseColumnDef(column).nullable = ~column.notNull
    BY DEF ParseColumnDef
  <2>3. DOMAIN ParseColumnDef(column) = {"name", "type", "nullable", "default"}
    BY DEF ParseColumnDef
  <2> HIDE DEF inlineKey
  <2> QED
    BY <2>1, <2>2, <2>3
<1>7. ParseTableColumn(column).nullable <=> ~column.notNull /\ ~keyed
  BY <1>4, <1>5, <1>6
<1> QED
  BY <1>1, <1>7, SameColumn

----------------------------------------------------------------------------
(* The statements.                                                         *)

\* A statement of a steady menu is taken.
Taken(s) ==
  /\ Steady /\ Structure /\ SchemaTyped
  /\ s \in menu /\ IsStatement(s) /\ ~HasUnsupported(s) /\ Statement(s)

\* What is not done has been done: the table is there.
LEMMA CreateSkipped ==
  ASSUME NEW s, Taken(s), s.kind = "create_table", Skipped(s, catalog)
  PROVE  Structure'
<1>1. s.table \in DOMAIN tables /\ ~tables[s.table].placeholder
  BY DEF Taken, Skipped, Structure, Matches
<1>2. Handle(s).kind = "create_table" /\ Handle(s).table = s.table
  BY DEF Handle, HandleCreateTable
<1>3. CreateTable(Handle(s))
  BY <1>2 DEF Taken, Statement, Apply
<1>4. TableExists(Handle(s))
  BY <1>1, <1>2, <1>3 DEF CreateTable, CreateNewTable, MergeFails, MergePlaceholder
<1>5. heap' = heap /\ tables' = tables
  BY <1>4 DEF TableExists, Fails
<1>6. catalog' = catalog /\ menu' = menu
  BY SkippedCatalog DEF Taken, Statement
<1> QED
  BY <1>5, <1>6, SameColumns DEF Taken

LEMMA CreateStep ==
  ASSUME NEW s, Taken(s), s.kind = "create_table", ~Skipped(s, catalog)
  PROVE  Structure'
<1> DEFINE T == s.table
           m == Handle(s)
           new == m.columns
           empty == NewTable(FALSE)
           added == AddColumns(empty, new)
           table == applyTableMetadata(added, m)
           cat == catalog'.tables[T]
<1>1. /\ Structure /\ SchemaTyped /\ IsStatement(s) /\ menu' = menu /\ s \in menu
      /\ Legal(s, catalog) /\ Apply(m) /\ catalog' = Effect(s, catalog)
  BY DEF Taken, Statement
<1>2. /\ T \notin DOMAIN catalog.tables
      /\ \A k, l \in DOMAIN s.columns : s.columns[k].name = s.columns[l].name => k = l
  BY <1>1 DEF Legal
<1>3. T \notin DOMAIN tables
  BY <1>1, <1>2 DEF Structure
<1>4. /\ m.kind = "create_table" /\ m.table = T
      /\ new = [c \in DOMAIN s.columns |-> ParseTableColumn(s.columns[c])]
  BY DEF Handle, HandleCreateTable
<1>5. new \in Seq(Columns)
  BY <1>1, <1>4, HandleTyped DEF IsMutation
<1>6. CreateNewTable(m)
  <2>1. CreateTable(m)
    BY <1>1, <1>4 DEF Apply
  <2> HIDE DEF m, T
  <2> QED
    BY <1>3, <1>4, <2>1 DEF CreateTable, TableExists, MergeFails, MergePlaceholder
<1>7. heap' = heap \o new /\ tables' = Put(tables, T, table)
  BY <1>4, <1>6 DEF CreateNewTable
<1>8. heap \in Seq(Columns) /\ Len(heap) \in Nat
  BY <1>1 DEF SchemaTyped
<1>9. /\ TableTyped(empty, Len(heap)) /\ Linked(heap, empty) /\ Indexed(empty)
      /\ DOMAIN empty.byName = {}
  <2>1. empty.byName = <<>> /\ empty.index = <<>> /\ empty.columns = <<>>
    BY DEF NewTable
  <2>2. DOMAIN <<>> = {}
    OBVIOUS
  <2>3. Linked(heap, empty) /\ Indexed(empty)
    BY <2>1, <2>2 DEF Linked, Indexed, Range, IsInjective
  <2> QED
    BY <1>8, <2>1, <2>2, <2>3, NewTableTyped
<1>10. \A k \in DOMAIN s.columns : new[k] = ParseTableColumn(s.columns[k]) /\ new[k].name = s.columns[k].name
  BY <1>4 DEF ParseTableColumn, ParseColumnDef
<1>11. DOMAIN new = DOMAIN s.columns
  BY <1>4
<1> HIDE DEF m, new, empty
<1>12. /\ Linked(heap \o new, added) /\ Indexed(added)
       /\ DOMAIN added.byName = NamesOf(new)
       /\ \A k \in DOMAIN new :
            /\ new[k].name \in DOMAIN added.byName
            /\ added.byName[new[k].name] = Len(heap) + k
            /\ (heap \o new)[Len(heap) + k] = new[k]
  <2>1. Fresh(empty, new)
    BY <1>2, <1>9, <1>10, <1>11 DEF Fresh
  <2> HIDE DEF added
  <2>2. Extended(empty, new, added)
    BY <1>5, <1>8, <1>9, <2>1, AddLinked DEF added
  <2> QED
    BY <1>9, <2>2 DEF Extended
<1>13. /\ table.byName = added.byName /\ table.columns = added.columns
       /\ table.index = added.index /\ table.placeholder = FALSE
  <2>1. TableTyped(added, Len(heap) + Len(new))
    BY <1>5, <1>8, <1>9, AddColumnsTyped
  <2> HIDE DEF added
  <2> QED
    BY <2>1 DEF applyTableMetadata, TableTyped
<1> HIDE DEF table, added
<1>14. Linked(heap', table) /\ Indexed(table)
  <2>1. Linked(heap \o new, table)
    BY <1>12, <1>13 DEF Linked
  <2>2. Indexed(table)
    BY <1>12, <1>13 DEF Indexed
  <2> QED
    BY <1>7, <2>1, <2>2
<1>15. /\ DOMAIN tables' = DOMAIN tables \cup {T} /\ tables'[T] = table
       /\ \A u \in DOMAIN tables \ {T} : tables'[u] = tables[u]
  BY <1>7 DEF Put
<1>16. /\ DOMAIN catalog' = DOMAIN catalog
       /\ DOMAIN catalog'.tables = DOMAIN catalog.tables \cup {T}
       /\ \A u \in DOMAIN catalog.tables \ {T} : catalog'.tables[u] = catalog.tables[u]
       /\ cat = CreatedTable(s)
  <2>1. catalog' = [catalog EXCEPT !.tables = [t \in DOMAIN @ \cup {T} |->
                                                 IF t = T THEN CreatedTable(s) ELSE @[t]]]
    BY <1>1 DEF Effect
  <2>2. DOMAIN catalog = {"namespaces", "tables", "objects"}
    BY <1>1 DEF Structure
  <2>3. catalog'.tables = [t \in DOMAIN catalog.tables \cup {T} |->
                             IF t = T THEN CreatedTable(s) ELSE catalog.tables[t]]
    BY <2>1, <2>2
  <2> QED
    BY <2>1, <2>3
<1> DEFINE names == {s.columns[k].name : k \in DOMAIN s.columns}
           made(n) == Column(s.columns[CHOOSE k \in DOMAIN s.columns : s.columns[k].name = n],
                             WrittenConstraints(s))
<1>17. /\ DOMAIN cat = {"columns", "constraints", "indexes"}
       /\ cat.columns = [n \in names |-> made(n)]
  BY <1>16 DEF CreatedTable
<1>18. names = DOMAIN table.byName
  BY <1>10, <1>11, <1>12, <1>13 DEF NamesOf
<1>19. Matches(heap', table, cat)
  <2> HIDE DEF made
  <2> QED  BY <1>13, <1>14, <1>17, <1>18 DEF Matches
<1>20. ASSUME Plain PROVE Valued(heap', table, cat)
  <2>1. \A k \in DOMAIN s.columns :
          made(s.columns[k].name) = Compared(heap'[table.byName[s.columns[k].name]])
    <3> TAKE k \in DOMAIN s.columns
    <3>1. (CHOOSE l \in DOMAIN s.columns : s.columns[l].name = s.columns[k].name) = k
      BY <1>2
    <3>2. /\ \A c \in Range(s.columns) : c.default \notin Unreadable
          /\ \A c \in Range(s.constraints) : ~IsPrimaryKey(c)
      BY <1>1, <1>20 DEF Plain
    <3>3. Column(s.columns[k], WrittenConstraints(s)) = Compared(ParseTableColumn(s.columns[k]))
      BY <1>1, <1>2, <3>2, CreatedColumn
    <3>4. heap'[table.byName[s.columns[k].name]] = ParseTableColumn(s.columns[k])
      <4>1. k \in DOMAIN new /\ new[k].name = s.columns[k].name
        BY <1>10, <1>11
      <4>2. table.byName[s.columns[k].name] = Len(heap) + k
        BY <1>12, <1>13, <4>1
      <4>3. heap'[Len(heap) + k] = new[k]
        BY <1>7, <1>12, <4>1
      <4> QED
        BY <1>10, <4>2, <4>3
    <3> QED
      BY <3>1, <3>3, <3>4
  <2>2. \A n \in names : made(n) = Compared(heap'[table.byName[n]])
    <3> HIDE DEF made
    <3> QED  BY <2>1
  <2> HIDE DEF made, names
  <2> QED
    BY <1>17, <1>18, <2>2 DEF Valued
<1>21. \A p \in 1..Len(heap) : heap'[p] = heap[p]
  BY <1>5, <1>7, <1>8, ConcatPlaces
<1>22. \A n \in DOMAIN table.byName : table.byName[n] \notin 1..Len(heap)
  <2> TAKE n \in DOMAIN table.byName
  <2>1. PICK k \in DOMAIN new : new[k].name = n
    BY <1>12, <1>13 DEF NamesOf
  <2>2. table.byName[n] = Len(heap) + k /\ k \in Nat \ {0}
    BY <1>5, <1>12, <1>13, <2>1
  <2> QED
    BY <1>8, <2>2
<1>23. \A u \in DOMAIN tables \ {T} :
         tables'[u] = tables[u] /\ catalog'.tables[u] = catalog.tables[u]
  BY <1>1, <1>15, <1>16 DEF Structure
<1>24. /\ Matches(heap', tables'[T], catalog'.tables[T]) /\ Indexed(tables'[T])
       /\ Plain => Valued(heap', tables'[T], catalog'.tables[T])
  BY <1>14, <1>15, <1>19, <1>20
<1>25. \A n \in DOMAIN tables'[T].byName : tables'[T].byName[n] \notin 1..Len(heap)
  BY <1>15, <1>22
<1> HIDE DEF T, cat
<1> QED
  BY <1>1, <1>15, <1>16, <1>21, <1>23, <1>24, <1>25, OneTable

\* What is known of a statement that alters a table.
LEMMA AlterFacts ==
  ASSUME NEW s, Taken(s), Altering(s), ~Skipped(s, catalog)
  PROVE  /\ Structure /\ SchemaTyped /\ IsStatement(s) /\ s \in menu /\ menu' = menu
         /\ Apply(Handle(s)) /\ Handle(s).kind = s.kind
         /\ s.table \in DOMAIN tables /\ s.table \in DOMAIN catalog.tables
         /\ AlterLegal(s, catalog.tables[s.table])
         /\ TableTyped(tables[s.table], Len(heap)) /\ heap \in Seq(Columns)
         /\ Matches(heap, tables[s.table], catalog.tables[s.table])
         /\ ~HasKind("rename_column") => Indexed(tables[s.table])
         /\ Plain => Valued(heap, tables[s.table], catalog.tables[s.table])
         /\ DOMAIN catalog' = DOMAIN catalog /\ DOMAIN catalog'.tables = DOMAIN catalog.tables
         /\ catalog'.tables[s.table] = Altered(s, catalog.tables[s.table])
         /\ \A u \in DOMAIN catalog.tables \ {s.table} : catalog'.tables[u] = catalog.tables[u]
         /\ DOMAIN tables = DOMAIN catalog.tables
<1>1. /\ Structure /\ SchemaTyped /\ IsStatement(s) /\ s \in menu /\ menu' = menu
      /\ Apply(Handle(s)) /\ Legal(s, catalog) /\ catalog' = Effect(s, catalog)
  BY DEF Taken, Statement
<1>2. /\ s.table \in DOMAIN catalog.tables /\ AlterLegal(s, catalog.tables[s.table])
      /\ DOMAIN catalog' = DOMAIN catalog /\ DOMAIN catalog'.tables = DOMAIN catalog.tables
      /\ catalog'.tables[s.table] = Altered(s, catalog.tables[s.table])
      /\ \A u \in DOMAIN catalog.tables \ {s.table} : catalog'.tables[u] = catalog.tables[u]
  BY <1>1, AlteredCatalog
<1>3. DOMAIN tables = DOMAIN catalog.tables
  BY <1>1 DEF Structure
<1>4. /\ Matches(heap, tables[s.table], catalog.tables[s.table])
      /\ ~HasKind("rename_column") => Indexed(tables[s.table])
      /\ Plain => Valued(heap, tables[s.table], catalog.tables[s.table])
  BY <1>1, <1>2, <1>3 DEF Structure
<1>5. TableTyped(tables[s.table], Len(heap)) /\ heap \in Seq(Columns)
  BY <1>1, <1>2, <1>3 DEF SchemaTyped
<1>6. Handle(s).kind = s.kind
  BY <1>1, HandleTyped
<1> QED
  BY <1>1, <1>2, <1>3, <1>4, <1>5, <1>6

LEMMA AddColumnStep ==
  ASSUME NEW s, Taken(s), s.kind = "add_column"
  PROVE  Structure'
<1> DEFINE T == s.table
           m == Handle(s)
           new == <<m.column>>
           old == tables[T]
           table == AddColumns(old, new)
           cat == catalog.tables[T]
           name == s.column.name
           inline == {[c EXCEPT !.columns = <<s.column.name>>] : c \in Range(s.column.inline)}
<1>1. ~Skipped(s, catalog) /\ Altering(s)
  BY DEF Skipped, Altering, Taken, Steady
<1>2. /\ Structure /\ SchemaTyped /\ IsStatement(s) /\ s \in menu /\ menu' = menu
      /\ Apply(m) /\ m.kind = "add_column"
      /\ T \in DOMAIN tables /\ T \in DOMAIN catalog.tables
      /\ AlterLegal(s, cat) /\ TableTyped(old, Len(heap)) /\ heap \in Seq(Columns)
      /\ Matches(heap, old, cat)
      /\ ~HasKind("rename_column") => Indexed(old)
      /\ Plain => Valued(heap, old, cat)
      /\ DOMAIN catalog' = DOMAIN catalog /\ DOMAIN catalog'.tables = DOMAIN catalog.tables
      /\ catalog'.tables[T] = Altered(s, cat)
      /\ \A u \in DOMAIN catalog.tables \ {T} : catalog'.tables[u] = catalog.tables[u]
      /\ DOMAIN tables = DOMAIN catalog.tables
  BY <1>1, AlterFacts
<1>3. m.table = T /\ m.column = ParseColumnDef(s.column) /\ m.column.name = name
  BY DEF Handle, HandleAddColumn, ParseColumnDef
<1>4. IsColumn(s.column) /\ m.column \in Columns
  BY <1>2, <1>3, ColumnDefTyped DEF IsStatement
<1>5. AddColumn(m)
  BY <1>2 DEF Apply
<1> HIDE DEF m
<1>6. heap' = heap \o new /\ tables' = Put(tables, T, table)
  <2>1. TableOrPlaceholder(T) = old
    BY <1>2 DEF TableOrPlaceholder
  <2> QED
    BY <1>2, <1>3, <1>5, <2>1 DEF AddColumn
<1>7. new \in Seq(Columns) /\ DOMAIN new = {1} /\ new[1] = m.column
  BY <1>4
<1>8. name \notin DOMAIN old.byName
  BY <1>2 DEF AlterLegal, Matches
<1> HIDE DEF new
<1>9. Extended(old, new, table)
  <2>1. Fresh(old, new)
    BY <1>3, <1>7, <1>8 DEF Fresh
  <2>2. Linked(heap, old)
    BY <1>2 DEF Matches
  <2> QED
    BY <1>2, <1>7, <2>1, <2>2, AddLinked
<1>10. /\ Linked(heap', table) /\ (Indexed(old) => Indexed(table))
       /\ DOMAIN table.byName = DOMAIN old.byName \cup {name}
       /\ table.byName[name] = Len(heap) + 1 /\ heap'[Len(heap) + 1] = m.column
       /\ \A n \in DOMAIN old.byName :
            /\ table.byName[n] = old.byName[n] /\ old.byName[n] \in 1..Len(heap)
            /\ heap'[old.byName[n]] = heap[old.byName[n]]
  <2>1. NamesOf(new) = {name}
    BY <1>3, <1>7 DEF NamesOf
  <2> HIDE DEF table, old
  <2>2. /\ Linked(heap \o new, table)
        /\ Indexed(old) => Indexed(table)
        /\ DOMAIN table.byName = DOMAIN old.byName \cup NamesOf(new)
        /\ \A n \in DOMAIN old.byName :
             /\ table.byName[n] = old.byName[n] /\ old.byName[n] \in 1..Len(heap)
             /\ (heap \o new)[old.byName[n]] = heap[old.byName[n]]
        /\ \A k \in DOMAIN new :
             /\ table.byName[new[k].name] = Len(heap) + k
             /\ (heap \o new)[Len(heap) + k] = new[k]
    BY <1>9, Zenon DEF Extended
  <2>3. table.byName[name] = Len(heap) + 1 /\ (heap \o new)[Len(heap) + 1] = m.column
    <3>1. 1 \in DOMAIN new /\ new[1].name = name
      BY <1>3, <1>7
    <3> QED
      BY <1>7, <2>2, <3>1, Zenon
  <2>4. heap' = heap \o new
    BY <1>6
  <2> QED
    BY <2>1, <2>2, <2>3, <2>4, Zenon
<1>11. table.placeholder = old.placeholder
  <2>1. Len(heap) \in Nat
    BY <1>2
  <2> QED
    BY <1>2, <1>7, <2>1, AddColumnsTyped
<1> HIDE DEF table
<1>12. /\ DOMAIN tables' = DOMAIN tables \cup {T} /\ tables'[T] = table
       /\ \A u \in DOMAIN tables \ {T} : tables'[u] = tables[u]
  BY <1>6 DEF Put
<1>13. /\ DOMAIN catalog'.tables[T] = {"columns", "constraints", "indexes"}
       /\ catalog'.tables[T].columns =
            [n \in DOMAIN cat.columns \cup {name} |->
               IF n = name THEN Column(s.column, inline) ELSE cat.columns[n]]
  <2>1. catalog'.tables[T] = AddedColumn(s, cat)
    BY <1>2 DEF Altered
  <2>2. DOMAIN cat = {"columns", "constraints", "indexes"}
    BY <1>2 DEF Matches
  <2> QED
    BY <2>1, <2>2 DEF AddedColumn
<1>14. Matches(heap', table, catalog'.tables[T])
  <2> HIDE DEF inline
  <2> QED  BY <1>2, <1>10, <1>11, <1>13 DEF Matches
<1>15. ASSUME Plain PROVE Valued(heap', table, catalog'.tables[T])
  <2>1. s.column.default \notin Unreadable /\ \A c \in Range(s.column.inline) : ~IsPrimaryKey(c)
    BY <1>2, <1>15 DEF Plain
  <2>2. \A c \in inline : ~IsPrimaryKey(c)
    BY <1>4, <2>1 DEF IsColumn, IsConstraint, IsPrimaryKey
  <2>3. m.column.nullable = ~s.column.notNull
    BY <1>3 DEF ParseColumnDef
  <2> HIDE DEF inline
  <2>4. Column(s.column, inline) = Compared(m.column)
    BY <1>3, <1>4, <2>1, <2>2, <2>3, SameColumn
  <2>5. \A n \in DOMAIN old.byName : cat.columns[n] = Compared(heap'[old.byName[n]])
    BY <1>2, <1>10, <1>15 DEF Valued
  <2>6. DOMAIN cat.columns = DOMAIN old.byName
    BY <1>2 DEF Matches
  <2>7. catalog'.tables[T].columns = [n \in DOMAIN table.byName |-> Compared(heap'[table.byName[n]])]
    BY <1>8, <1>10, <1>13, <2>4, <2>5, <2>6
  <2> QED
    BY <2>7 DEF Valued
<1>16. \A p \in 1..Len(heap) : heap'[p] = heap[p]
  BY <1>2, <1>6, <1>7, ConcatPlaces
<1>17. \A n \in DOMAIN tables'[T].byName :
         tables'[T].byName[n] \notin 1..Len(heap) \/ tables'[T].byName[n] \in Range(tables[T].byName)
  <2>1. Len(heap) + 1 \notin 1..Len(heap)
    BY <1>2
  <2>2. \A n \in DOMAIN old.byName : old.byName[n] \in Range(old.byName)
    BY DEF Range
  <2> QED
    BY <1>10, <1>12, <2>1, <2>2
<1>18. \A u \in DOMAIN tables \ {T} :
         tables'[u] = tables[u] /\ catalog'.tables[u] = catalog.tables[u]
  BY <1>2, <1>12
<1>19. /\ Matches(heap', tables'[T], catalog'.tables[T])
       /\ ~HasKind("rename_column") => Indexed(tables'[T])
       /\ Plain => Valued(heap', tables'[T], catalog'.tables[T])
  BY <1>2, <1>10, <1>12, <1>14, <1>15
<1>20. DOMAIN catalog'.tables = DOMAIN catalog.tables \cup {T}
  BY <1>2
<1> HIDE DEF T
<1> QED
  BY <1>2, <1>12, <1>16, <1>17, <1>18, <1>19, <1>20, OneTable

LEMMA DropColumnStep ==
  ASSUME NEW s, Taken(s), s.kind = "drop_column"
  PROVE  Structure'
<1> DEFINE T == s.table
           old == tables[T]
           table == RemoveColumn(old, s.name)
           cat == catalog.tables[T]
<1>1. ~Skipped(s, catalog) /\ Altering(s)
  BY DEF Skipped, Altering
<1>2. /\ Structure /\ SchemaTyped /\ IsStatement(s) /\ s \in menu /\ menu' = menu
      /\ Apply(Handle(s))
      /\ T \in DOMAIN tables /\ T \in DOMAIN catalog.tables
      /\ AlterLegal(s, cat) /\ TableTyped(old, Len(heap)) /\ heap \in Seq(Columns)
      /\ Matches(heap, old, cat)
      /\ ~HasKind("rename_column") => Indexed(old)
      /\ Plain => Valued(heap, old, cat)
      /\ DOMAIN catalog' = DOMAIN catalog /\ DOMAIN catalog'.tables = DOMAIN catalog.tables
      /\ catalog'.tables[T] = Altered(s, cat)
      /\ \A u \in DOMAIN catalog.tables \ {T} : catalog'.tables[u] = catalog.tables[u]
      /\ DOMAIN tables = DOMAIN catalog.tables
  BY <1>1, AlterFacts
<1>3. Indexed(old)
  <2>1. HasKind("drop_column")
    BY <1>2 DEF HasKind
  <2> QED
    BY <1>2, <2>1 DEF Taken, Steady
<1>4. s.name \in DOMAIN old.byName
  BY <1>2 DEF AlterLegal, Matches
<1>5. Handle(s) = s
  BY DEF Handle
<1>6. heap' = heap /\ tables' = [tables EXCEPT ![T] = table]
  <2>1. DropColumn(s)
    BY <1>2, <1>5 DEF Apply
  <2>2. ~Unresolved(s)
    BY <1>2, <1>4 DEF Unresolved
  <2> QED
    BY <2>1, <2>2 DEF DropColumn
<1>7. /\ table.byName = Without(old.byName, s.name)
      /\ table.placeholder = old.placeholder
      /\ Linked(heap, table) /\ Indexed(table)
  BY <1>2, <1>3, <1>4, RemoveLinked DEF Matches
<1> HIDE DEF table
<1>8. /\ DOMAIN table.byName = DOMAIN old.byName \ {s.name}
      /\ \A n \in DOMAIN table.byName : table.byName[n] = old.byName[n]
  BY <1>7 DEF Without
<1>9. /\ DOMAIN catalog'.tables[T] = {"columns", "constraints", "indexes"}
      /\ catalog'.tables[T].columns = [n \in DOMAIN cat.columns \ {s.name} |-> cat.columns[n]]
  <2>1. catalog'.tables[T] = DroppedColumn(s, cat)
    BY <1>2 DEF Altered
  <2> QED
    BY <2>1 DEF DroppedColumn
<1>10. Matches(heap', table, catalog'.tables[T])
  BY <1>2, <1>6, <1>7, <1>8, <1>9 DEF Matches
<1>11. ASSUME Plain PROVE Valued(heap', table, catalog'.tables[T])
  <2>1. /\ DOMAIN cat.columns = DOMAIN old.byName
        /\ cat.columns = [n \in DOMAIN old.byName |-> Compared(heap[old.byName[n]])]
    BY <1>2, <1>11 DEF Valued, Matches
  <2>2. \A n \in DOMAIN old.byName : cat.columns[n] = Compared(heap[old.byName[n]])
    BY <2>1
  <2> HIDE DEF cat, old
  <2>3. \A n \in DOMAIN table.byName : cat.columns[n] = Compared(heap'[table.byName[n]])
    BY <1>6, <1>8, <2>2
  <2>4. catalog'.tables[T].columns = [n \in DOMAIN table.byName |-> cat.columns[n]]
    BY <1>8, <1>9, <2>1
  <2>5. catalog'.tables[T].columns
          = [n \in DOMAIN table.byName |-> Compared(heap'[table.byName[n]])]
    BY <2>3, <2>4
  <2> QED
    BY <2>5 DEF Valued
<1>12. \A n \in DOMAIN tables'[T].byName : tables'[T].byName[n] \in Range(tables[T].byName)
  BY <1>2, <1>6, <1>8 DEF Range
<1>13. \A u \in DOMAIN tables \ {T} :
         tables'[u] = tables[u] /\ catalog'.tables[u] = catalog.tables[u]
  BY <1>2, <1>6
<1>14. /\ Matches(heap', tables'[T], catalog'.tables[T])
       /\ Indexed(tables'[T])
       /\ Plain => Valued(heap', tables'[T], catalog'.tables[T])
  BY <1>2, <1>6, <1>7, <1>10, <1>11
<1>15. /\ DOMAIN tables' = DOMAIN tables \cup {T}
       /\ DOMAIN catalog'.tables = DOMAIN catalog.tables \cup {T}
       /\ \A p \in 1..Len(heap) : heap'[p] = heap[p]
  BY <1>2, <1>6
<1> HIDE DEF T
<1> QED
  BY <1>2, <1>12, <1>13, <1>14, <1>15, OneTable

\* A column is changed in its place in the heap, and in the catalog as well.
LEMMA ColumnChanged ==
  ASSUME Structure, SchemaTyped, menu' = menu, tables' = tables,
         DOMAIN catalog' = DOMAIN catalog, DOMAIN catalog'.tables = DOMAIN catalog.tables,
         NEW T \in DOMAIN tables, NEW name \in DOMAIN tables[T].byName,
         NEW column, column.name = name,
         heap' = [heap EXCEPT ![tables[T].byName[name]] = column],
         \A u \in DOMAIN catalog.tables \ {T} : catalog'.tables[u] = catalog.tables[u],
         DOMAIN catalog'.tables[T] = DOMAIN catalog.tables[T],
         DOMAIN catalog'.tables[T].columns = DOMAIN catalog.tables[T].columns,
         Plain => catalog'.tables[T].columns =
                    [catalog.tables[T].columns EXCEPT ![name] = Compared(column)]
  PROVE  Structure'
<1> DEFINE table == tables[T]
           cat == catalog.tables[T]
           cat2 == catalog'.tables[T]
<1>1. /\ heap \in Seq(Columns) /\ TableTyped(table, Len(heap)) /\ DOMAIN heap = 1..Len(heap)
      /\ Matches(heap, table, cat)
      /\ ~HasKind("rename_column") => Indexed(table)
      /\ Plain => Valued(heap, table, cat)
      /\ DOMAIN tables = DOMAIN catalog.tables
  BY DEF Structure, SchemaTyped
<1>2. \A n \in DOMAIN table.byName : table.byName[n] \in DOMAIN heap
  BY <1>1 DEF TableTyped, Range
<1>3. /\ heap'[table.byName[name]] = column
      /\ \A n \in DOMAIN table.byName \ {name} : heap'[table.byName[n]] = heap[table.byName[n]]
  <2>1. Linked(heap, table)
    BY <1>1 DEF Matches
  <2>2. \A n \in DOMAIN table.byName \ {name} : table.byName[n] # table.byName[name]
    BY <2>1, LinkedInjective
  <2> QED
    BY <1>2, <2>2
<1>4. Matches(heap', table, cat2)
  BY <1>1, <1>3 DEF Matches, Linked
<1>5. ASSUME Plain PROVE Valued(heap', table, cat2)
  <2>1. cat.columns = [n \in DOMAIN table.byName |-> Compared(heap[table.byName[n]])]
    BY <1>1, <1>5 DEF Valued
  <2>2. cat2.columns = [cat.columns EXCEPT ![name] = Compared(column)]
    BY <1>5
  <2>3. cat2.columns = [n \in DOMAIN table.byName |-> Compared(heap'[table.byName[n]])]
    BY <1>3, <2>1, <2>2
  <2> QED
    BY <2>3 DEF Valued
<1>6. /\ DOMAIN tables' = DOMAIN tables \cup {T}
      /\ DOMAIN catalog'.tables = DOMAIN catalog.tables \cup {T}
      /\ \A u \in DOMAIN tables \ {T} :
           tables'[u] = tables[u] /\ catalog'.tables[u] = catalog.tables[u]
  BY <1>1
<1>7. \A p \in 1..Len(heap) : heap'[p] = heap[p] \/ (T \in DOMAIN tables /\ p \in Range(tables[T].byName))
  <2>1. table.byName[name] \in Range(table.byName)
    BY DEF Range
  <2> QED
    BY <1>1, <2>1
<1>8. \A n \in DOMAIN tables'[T].byName :
           \/ tables'[T].byName[n] \notin 1..Len(heap)
           \/ T \in DOMAIN tables /\ tables'[T].byName[n] \in Range(tables[T].byName)
  BY DEF Range
<1>9. /\ Matches(heap', tables'[T], catalog'.tables[T])
      /\ ~HasKind("rename_column") => Indexed(tables'[T])
      /\ Plain => Valued(heap', tables'[T], catalog'.tables[T])
  BY <1>1, <1>4, <1>5
<1> QED
  BY <1>6, <1>7, <1>8, <1>9, OneTable

\* One of the values of a column is changed.
Changing(s) ==
  s.kind \in {"alter_type", "set_not_null", "drop_not_null", "set_default", "drop_default"}

LEMMA ChangeStep ==
  ASSUME NEW s, Taken(s), Changing(s)
  PROVE  Structure'
<1> DEFINE T == s.table
           m == Handle(s)
           cat == catalog.tables[T]
           p == tables[T].byName[s.name]
           old == heap[p]
<1>1. ~Skipped(s, catalog) /\ Altering(s)
  BY DEF Skipped, Altering, Changing
<1>2. /\ Structure /\ SchemaTyped /\ IsStatement(s) /\ s \in menu /\ menu' = menu
      /\ Apply(m) /\ m.kind = s.kind
      /\ T \in DOMAIN tables /\ T \in DOMAIN catalog.tables
      /\ AlterLegal(s, cat) /\ TableTyped(tables[T], Len(heap)) /\ heap \in Seq(Columns)
      /\ Matches(heap, tables[T], cat)
      /\ Plain => Valued(heap, tables[T], cat)
      /\ DOMAIN catalog' = DOMAIN catalog /\ DOMAIN catalog'.tables = DOMAIN catalog.tables
      /\ catalog'.tables[T] = Altered(s, cat)
      /\ \A u \in DOMAIN catalog.tables \ {T} : catalog'.tables[u] = catalog.tables[u]
      /\ DOMAIN tables = DOMAIN catalog.tables
  BY <1>1, AlterFacts
<1>3. s.name \in DOMAIN cat.columns /\ s.name \in DOMAIN tables[T].byName
  BY <1>2 DEF AlterLegal, Matches, Changing
<1>4. old \in Columns /\ old.name = s.name
  <2>1. p \in 1..Len(heap)
    BY <1>2, <1>3 DEF TableTyped, Range
  <2>2. old.name = s.name
    BY <1>2, <1>3 DEF Matches, Linked
  <2> QED
    BY <1>2, <2>1, <2>2
<1>5. /\ m.table = T /\ m.name = s.name
      /\ s.kind = "alter_type" => m.to = s.to
      /\ s.kind = "set_default" => m.to = FormatExpression(s.to)
  <2>1. CASE s.kind = "set_default"
    <3>1. DOMAIN s = {"table", "name", "to", "kind"}
      BY <1>2, <2>1 DEF IsStatement, FieldsOf
    <3> QED
      BY <2>1, <3>1 DEF Handle, HandleSetDefault
  <2>2. CASE s.kind # "set_default"
    BY <2>2 DEF Handle, Changing
  <2> QED
    BY <2>1, <2>2
<1> HIDE DEF m
<1>6. ~Unresolved(m) /\ Resolved(m) = old
  BY <1>2, <1>3, <1>5 DEF Unresolved, Resolved
<1> DEFINE field == CASE s.kind = "alter_type" -> "type"
                      [] s.kind \in {"set_not_null", "drop_not_null"} -> "nullable"
                      [] s.kind \in {"set_default", "drop_default"} -> "default"
           written == CASE s.kind \in {"alter_type", "set_default"} -> s.to
                        [] s.kind = "set_not_null" -> FALSE
                        [] s.kind = "drop_not_null" -> TRUE
                        [] s.kind = "drop_default" -> "none"
           read == CASE s.kind \in {"alter_type", "set_default"} -> m.to
                     [] s.kind = "set_not_null" -> FALSE
                     [] s.kind = "drop_not_null" -> TRUE
                     [] s.kind = "drop_default" -> "none"
           column == [old EXCEPT ![field] = read]
<1>7. ChangeColumn(m, column)
  <2>1. CASE s.kind = "alter_type"
    BY <1>2, <1>6, <2>1 DEF Apply, AlterColumnType
  <2>2. CASE s.kind = "set_not_null"
    BY <1>2, <1>6, <2>2 DEF Apply, SetNotNull
  <2>3. CASE s.kind = "drop_not_null"
    BY <1>2, <1>6, <2>3 DEF Apply, DropNotNull
  <2>4. CASE s.kind = "set_default"
    BY <1>2, <1>6, <2>4 DEF Apply, SetDefault
  <2>5. CASE s.kind = "drop_default"
    BY <1>2, <1>6, <2>5 DEF Apply, DropDefault
  <2> QED
    BY <2>1, <2>2, <2>3, <2>4, <2>5 DEF Changing
<1>8. catalog'.tables[T] = [cat EXCEPT !.columns[s.name][field] = written]
  <2>1. CASE s.kind = "alter_type"
    BY <1>2, <2>1 DEF Altered
  <2>2. CASE s.kind = "set_not_null"
    BY <1>2, <2>2 DEF Altered
  <2>3. CASE s.kind = "drop_not_null"
    BY <1>2, <2>3 DEF Altered
  <2>4. CASE s.kind = "set_default"
    BY <1>2, <2>4 DEF Altered
  <2>5. CASE s.kind = "drop_default"
    BY <1>2, <2>5 DEF Altered
  <2> QED
    BY <2>1, <2>2, <2>3, <2>4, <2>5 DEF Changing
<1>9. field \in {"type", "nullable", "default"}
  BY DEF Changing
<1>10. Plain => read = written
  <2>1. Plain /\ s.kind = "set_default" => s.to \notin Unreadable
    BY <1>2 DEF Plain
  <2> QED
    BY <1>5, <2>1 DEF FormatExpression, Changing
<1> HIDE DEF field, written, read
<1>11. heap' = [heap EXCEPT ![p] = column] /\ tables' = tables
  <2> HIDE DEF column
  <2> QED  BY <1>5, <1>6, <1>7 DEF ChangeColumn, Fails
<1>12. column.name = s.name /\ Compared(column) = [Compared(old) EXCEPT ![field] = read]
  <2> DEFINE seen == Compared(old)
  <2>1. /\ DOMAIN old = {"name", "type", "nullable", "default"}
        /\ DOMAIN seen = {"type", "nullable", "default"}
        /\ \A f \in {"type", "nullable", "default"} : seen[f] = old[f]
    <3>1. DOMAIN old = {"name", "type", "nullable", "default"}
      BY <1>4 DEF Columns
    <3> HIDE DEF old
    <3> QED
      BY <3>1 DEF Compared
  <2>2. \A f \in DOMAIN old : column[f] = IF f = field THEN read ELSE old[f]
    BY <2>1
  <2>3. column.name = s.name
    BY <1>4, <1>9, <2>1, <2>2
  <2>4. seen = [type |-> old.type, nullable |-> old.nullable, default |-> old.default]
    BY DEF Compared
  <2>5. Compared(column) =
          [type |-> column.type, nullable |-> column.nullable, default |-> column.default]
    BY DEF Compared
  <2> HIDE DEF seen, column, old
  <2>6. ASSUME field = "type" PROVE Compared(column) = [seen EXCEPT ![field] = read]
    <3>1. column.type = read /\ column.nullable = old.nullable /\ column.default = old.default
      BY <2>1, <2>2, <2>6
    <3> QED
      BY <2>4, <2>5, <2>6, <3>1
  <2>7. ASSUME field = "nullable" PROVE Compared(column) = [seen EXCEPT ![field] = read]
    <3>1. column.type = old.type /\ column.nullable = read /\ column.default = old.default
      BY <2>1, <2>2, <2>7
    <3> QED
      BY <2>4, <2>5, <2>7, <3>1
  <2>8. ASSUME field = "default" PROVE Compared(column) = [seen EXCEPT ![field] = read]
    <3>1. column.type = old.type /\ column.nullable = old.nullable /\ column.default = read
      BY <2>1, <2>2, <2>8
    <3> QED
      BY <2>4, <2>5, <2>8, <3>1
  <2>9. Compared(column) = [seen EXCEPT ![field] = read]
    BY <1>9, <2>6, <2>7, <2>8
  <2> QED
    BY <2>3, <2>9 DEF seen
<1>13. DOMAIN cat = {"columns", "constraints", "indexes"}
  BY <1>2 DEF Matches
<1>14. /\ DOMAIN catalog'.tables[T] = DOMAIN cat
       /\ catalog'.tables[T].columns = [cat.columns EXCEPT ![s.name][field] = written]
  BY <1>8, <1>13
<1>15. ASSUME Plain
       PROVE  catalog'.tables[T].columns = [cat.columns EXCEPT ![s.name] = Compared(column)]
  <2>1. cat.columns[s.name] = Compared(old)
    BY <1>2, <1>3, <1>15 DEF Valued
  <2> HIDE DEF old, column, p
  <2>2. [cat.columns[s.name] EXCEPT ![field] = written] = Compared(column)
    BY <1>10, <1>12, <1>15, <2>1
  <2> QED
    BY <1>14, <2>2
<1>16. DOMAIN catalog'.tables[T].columns = DOMAIN cat.columns
  BY <1>14
<1> HIDE DEF T, column
<1> QED
  BY <1>2, <1>3, <1>11, <1>12, <1>14, <1>15, <1>16, ColumnChanged

LEMMA RenameStep ==
  ASSUME NEW s, Taken(s), s.kind = "rename_column"
  PROVE  Structure'
<1> DEFINE T == s.table
           old == tables[T]
           table == [old EXCEPT !.byName = Put(Without(@, s.name), s.to, old.byName[s.name])]
           cat == catalog.tables[T]
           cat2 == catalog'.tables[T]
           renamed == [heap EXCEPT ![old.byName[s.name]].name = s.to]
<1>1. ~Skipped(s, catalog) /\ Altering(s)
  BY DEF Skipped, Altering
<1>2. /\ Structure /\ SchemaTyped /\ IsStatement(s) /\ s \in menu /\ menu' = menu
      /\ Apply(Handle(s))
      /\ T \in DOMAIN tables /\ T \in DOMAIN catalog.tables
      /\ AlterLegal(s, cat) /\ TableTyped(old, Len(heap)) /\ heap \in Seq(Columns)
      /\ Matches(heap, old, cat)
      /\ Plain => Valued(heap, old, cat)
      /\ DOMAIN catalog' = DOMAIN catalog /\ DOMAIN catalog'.tables = DOMAIN catalog.tables
      /\ cat2 = Altered(s, cat)
      /\ \A u \in DOMAIN catalog.tables \ {T} : catalog'.tables[u] = catalog.tables[u]
      /\ DOMAIN tables = DOMAIN catalog.tables
  BY <1>1, AlterFacts
<1>3. HasKind("rename_column")
  BY <1>2 DEF HasKind
<1>4. s.name \in DOMAIN old.byName /\ s.to \notin DOMAIN old.byName /\ s.name # s.to
  BY <1>2 DEF AlterLegal, Matches
<1>5. heap' = renamed /\ tables' = [tables EXCEPT ![T] = table]
  <2>1. Handle(s) = s
    BY DEF Handle
  <2>2. RenameColumn(s)
    BY <1>2, <2>1 DEF Apply
  <2>3. TableOrPlaceholder(T) = old /\ ~old.placeholder
    BY <1>2 DEF TableOrPlaceholder, Matches
  <2>4. RenameDone(s)
    BY <1>4, <2>2, <2>3 DEF RenameColumn, RenameNothing, RenameFails
  <2> QED
    BY <2>4 DEF RenameDone
<1>6. Linked(heap, old)
  BY <1>2 DEF Matches
<1> HIDE DEF table, renamed
<1>7. /\ Linked(renamed, table)
      /\ table.placeholder = old.placeholder
      /\ DOMAIN table.byName = (DOMAIN old.byName \ {s.name}) \cup {s.to}
      /\ table.byName[s.to] = old.byName[s.name]
      /\ \A n \in DOMAIN old.byName \ {s.name} : table.byName[n] = old.byName[n]
      /\ \A n \in DOMAIN old.byName :
           Compared(renamed[old.byName[n]]) = Compared(heap[old.byName[n]])
      /\ \A p \in 1..Len(heap) : renamed[p] = heap[p] \/ p = old.byName[s.name]
  <2>1. /\ table = [old EXCEPT !.byName = Put(Without(@, s.name), s.to, old.byName[s.name])]
        /\ renamed = [heap EXCEPT ![old.byName[s.name]].name = s.to]
    BY DEF table, renamed
  <2>2. heap \in Seq(Columns) /\ TableTyped(old, Len(heap))
    BY <1>2
  <2> HIDE DEF old
  <2>3. Renames(old, s.name, s.to, table, renamed)
    BY <1>4, <1>6, <2>1, <2>2, RenameLinked
  <2> QED
    BY <2>3, Zenon DEF Renames
<1>8. /\ DOMAIN cat2 = {"columns", "constraints", "indexes"}
      /\ DOMAIN cat2.columns = (DOMAIN cat.columns \ {s.name}) \cup {s.to}
      /\ cat2.columns[s.to] = cat.columns[s.name]
      /\ \A n \in DOMAIN cat.columns \ {s.name} : n # s.to => cat2.columns[n] = cat.columns[n]
      /\ cat2.columns = [n \in DOMAIN cat2.columns |-> cat2.columns[n]]
  <2> DEFINE names == {IF o = s.name THEN s.to ELSE o : o \in DOMAIN cat.columns}
             columns == [n \in names |-> IF n = s.to THEN cat.columns[s.name] ELSE cat.columns[n]]
  <2>1. cat2 = RenamedColumn(s, cat)
    BY <1>2 DEF Altered
  <2>2. cat2.columns = columns /\ DOMAIN cat2 = {"columns", "constraints", "indexes"}
    BY <2>1 DEF RenamedColumn
  <2>3. s.name \in DOMAIN cat.columns
    BY <1>2, <1>4 DEF Matches
  <2>4. names = (DOMAIN cat.columns \ {s.name}) \cup {s.to}
    BY <1>4, <2>3
  <2> HIDE DEF names
  <2> QED
    BY <2>2, <2>4
<1>9. Matches(renamed, table, cat2)
  BY <1>2, <1>7, <1>8 DEF Matches
<1>10. ASSUME Plain PROVE Valued(renamed, table, cat2)
  <2>1. cat.columns = [n \in DOMAIN old.byName |-> Compared(heap[old.byName[n]])]
    BY <1>2, <1>10 DEF Valued
  <2>2. \A n \in DOMAIN table.byName : cat2.columns[n] = Compared(renamed[table.byName[n]])
    <3> TAKE n \in DOMAIN table.byName
    <3>1. CASE n = s.to
      BY <1>4, <1>7, <1>8, <2>1, <3>1, ZenonT(30)
    <3>2. CASE n # s.to
      <4>1. n \in DOMAIN old.byName \ {s.name} /\ table.byName[n] = old.byName[n]
        BY <1>7, <3>2
      <4>2. n \in DOMAIN cat.columns \ {s.name} /\ cat.columns[n] = Compared(heap[old.byName[n]])
        BY <2>1, <4>1
      <4> QED
        BY <1>7, <1>8, <3>2, <4>1, <4>2
    <3> QED
      BY <3>1, <3>2
  <2>3. DOMAIN cat2.columns = DOMAIN table.byName
    BY <1>9 DEF Matches
  <2> QED
    BY <1>8, <2>2, <2>3 DEF Valued
<1>11. \A p \in 1..Len(heap) : heap'[p] = heap[p] \/ (T \in DOMAIN tables /\ p \in Range(tables[T].byName))
  <2>1. old.byName[s.name] \in Range(old.byName)
    BY <1>4 DEF Range
  <2> QED
    BY <1>2, <1>5, <1>7, <2>1
<1>12. /\ DOMAIN tables' = DOMAIN tables \cup {T} /\ tables'[T] = table
       /\ DOMAIN catalog'.tables = DOMAIN catalog.tables \cup {T}
       /\ \A u \in DOMAIN tables \ {T} :
            tables'[u] = tables[u] /\ catalog'.tables[u] = catalog.tables[u]
  BY <1>2, <1>5
<1>13. \A n \in DOMAIN tables'[T].byName :
           \/ tables'[T].byName[n] \notin 1..Len(heap)
           \/ T \in DOMAIN tables /\ tables'[T].byName[n] \in Range(tables[T].byName)
  <2>1. \A n \in DOMAIN old.byName : old.byName[n] \in Range(old.byName)
    BY DEF Range
  <2> QED
    BY <1>2, <1>4, <1>7, <1>12, <2>1
<1>14. /\ Matches(heap', tables'[T], catalog'.tables[T])
       /\ ~HasKind("rename_column") => Indexed(tables'[T])
       /\ Plain => Valued(heap', tables'[T], catalog'.tables[T])
  BY <1>3, <1>5, <1>9, <1>10, <1>12
<1> HIDE DEF T
<1> QED
  BY <1>2, <1>11, <1>12, <1>13, <1>14, OneTable

\* Constraints and indexes, namespaces and objects.
Parts(s) ==
  s.kind \in {"add_constraint", "drop_constraint", "create_index", "create_schema", "create_object"}

\* The catalog keeps the columns of all tables, but for what a primary key makes of them.
LEMMA PartsCatalog ==
  ASSUME NEW s, Taken(s), Parts(s), NEW c, c = Effect(s, catalog)
  PROVE  /\ DOMAIN c = DOMAIN catalog /\ DOMAIN c.tables = DOMAIN catalog.tables
         /\ \A u \in DOMAIN catalog.tables :
              /\ DOMAIN c.tables[u] = DOMAIN catalog.tables[u]
              /\ DOMAIN c.tables[u].columns = DOMAIN catalog.tables[u].columns
              /\ Plain => c.tables[u].columns = catalog.tables[u].columns
<1>1. Structure /\ Legal(s, catalog) /\ s \in menu
  BY DEF Taken, Statement
<1>2. /\ DOMAIN catalog = {"namespaces", "tables", "objects"}
      /\ DOMAIN tables = DOMAIN catalog.tables
      /\ \A u \in DOMAIN catalog.tables :
           /\ DOMAIN catalog.tables[u] = {"columns", "constraints", "indexes"}
           /\ Plain => Valued(heap, tables[u], catalog.tables[u])
  BY <1>1 DEF Structure, Matches
<1>3. CASE Skipped(s, catalog)
  BY <1>3, SkippedCatalog
<1>4. CASE ~Skipped(s, catalog) /\ s.kind \in {"create_schema", "create_object"}
  <2>1. DOMAIN c = DOMAIN catalog /\ c.tables = catalog.tables
    BY <1>2, <1>4 DEF Effect
  <2> QED
    BY <2>1
<1>5. CASE ~Skipped(s, catalog) /\ s.kind \in {"add_constraint", "drop_constraint", "create_index"}
  <2> DEFINE T == s.table
             cat == catalog.tables[T]
             cat2 == c.tables[T]
  <2>1. /\ T \in DOMAIN catalog.tables
        /\ DOMAIN c = DOMAIN catalog /\ DOMAIN c.tables = DOMAIN catalog.tables
        /\ cat2 = Altered(s, cat)
        /\ \A u \in DOMAIN catalog.tables \ {T} : c.tables[u] = catalog.tables[u]
    BY <1>1, <1>5, AlteredCatalog DEF Altering
  <2>2. DOMAIN cat = {"columns", "constraints", "indexes"} /\ (Plain => Valued(heap, tables[T], cat))
    BY <1>2, <2>1
  <2>3. CASE s.kind = "add_constraint"
    <3>1. cat2 = ConstrainedTable(s, cat)
      BY <2>1, <2>3 DEF Altered
    <3>2. /\ DOMAIN cat2 = DOMAIN cat
          /\ cat2.columns = [n \in DOMAIN cat.columns |->
                               IF IsPrimaryKey(s.constraint) /\ n \in Range(s.constraint.columns)
                               THEN [cat.columns[n] EXCEPT !.nullable = FALSE] ELSE cat.columns[n]]
      BY <2>2, <3>1 DEF ConstrainedTable
    <3>3. ASSUME Plain PROVE cat2.columns = cat.columns
      <4>1. ~IsPrimaryKey(s.constraint)
        BY <1>1, <2>3, <3>3 DEF Plain
      <4>2. cat.columns = [n \in DOMAIN cat.columns |-> cat.columns[n]]
        BY <2>2, <3>3 DEF Valued
      <4> QED
        BY <3>2, <4>1, <4>2
    <3> QED
      BY <2>1, <3>2, <3>3
  <2>4. CASE s.kind \in {"drop_constraint", "create_index"}
    <3>1. DOMAIN cat2 = DOMAIN cat /\ cat2.columns = cat.columns
      BY <2>1, <2>2, <2>4 DEF Altered
    <3> QED
      BY <2>1, <3>1
  <2> QED
    BY <1>5, <2>3, <2>4
<1> QED
  BY <1>3, <1>4, <1>5 DEF Parts

LEMMA PartsStep ==
  ASSUME NEW s, Taken(s), Parts(s)
  PROVE  Structure'
<1>1. /\ Structure /\ SchemaTyped /\ IsStatement(s) /\ menu' = menu /\ Apply(Handle(s))
      /\ catalog' = Effect(s, catalog)
  BY DEF Taken, Statement
<1>2. Handle(s).kind = s.kind
  BY <1>1, HandleTyped
<1>3. heap' = heap /\ \E t, parts : \/ tables' = tables
                                     \/ tables' = [tables EXCEPT ![t].constraints = parts]
                                     \/ tables' = [tables EXCEPT ![t].indexes = parts]
  <2> DEFINE m == Handle(s)
  <2> HIDE DEF m
  <2>1. \/ AddConstraint(m) \/ DropConstraint(m) \/ CreateIndex(m)
        \/ CreateSchema(m) \/ CreateObject(m)
    BY <1>1, <1>2 DEF Apply, Parts, m
  <2> QED
    BY <2>1 DEF AddConstraint, DropConstraint, CreateIndex, CreateSchema, CreateObject, Fails
<1>4. PICK t, parts : \/ tables' = tables
                      \/ tables' = [tables EXCEPT ![t].constraints = parts]
                      \/ tables' = [tables EXCEPT ![t].indexes = parts]
  BY <1>3
<1>5. DOMAIN tables' = DOMAIN tables
  BY <1>4
<1>6. \A u \in DOMAIN tables :
        /\ tables'[u].columns = tables[u].columns /\ tables'[u].byName = tables[u].byName
        /\ tables'[u].index = tables[u].index /\ tables'[u].placeholder = tables[u].placeholder
  <2> TAKE u \in DOMAIN tables
  <2>1. DOMAIN tables[u] = {"columns", "byName", "index", "primaryKey", "constraints", "indexes",
                            "placeholder"}
    BY <1>1 DEF SchemaTyped, TableTyped
  <2> QED
    BY <1>4, <2>1
<1>7. /\ DOMAIN catalog' = DOMAIN catalog /\ DOMAIN catalog'.tables = DOMAIN catalog.tables
      /\ \A u \in DOMAIN catalog.tables :
           /\ DOMAIN catalog'.tables[u] = DOMAIN catalog.tables[u]
           /\ DOMAIN catalog'.tables[u].columns = DOMAIN catalog.tables[u].columns
           /\ Plain => catalog'.tables[u].columns = catalog.tables[u].columns
  BY <1>1, PartsCatalog
<1>8. DOMAIN tables = DOMAIN catalog.tables
  BY <1>1 DEF Structure
<1> QED
  BY <1>1, <1>3, <1>5, <1>6, <1>7, <1>8, SameColumns

----------------------------------------------------------------------------
(* What is accepted.                                                       *)

\* The other objects are those of the catalog.
LEMMA ObjectsStep ==
  ASSUME NEW s, Taken(s), Careful, Accepted, s.kind = "create_object"
  PROVE  /\ outcome' = "ok" /\ tables' = tables /\ catalog'.tables = catalog.tables
         /\ DOMAIN objects' = DOMAIN catalog'.objects
<1>1. /\ Structure /\ IsStatement(s) /\ s \in menu /\ Legal(s, catalog)
      /\ Apply(Handle(s)) /\ catalog' = Effect(s, catalog)
  BY DEF Taken, Statement
<1>2. DOMAIN catalog = {"namespaces", "tables", "objects"} /\ DOMAIN objects = DOMAIN catalog.objects
  BY <1>1 DEF Structure, Accepted
<1>3. CreateObject(s)
  BY <1>1 DEF Handle, Apply
<1>4. ~(s.object[1] = "type" /\ s.object \in DOMAIN objects)
  <2> SUFFICES ASSUME s.object[1] = "type", s.object \in DOMAIN catalog.objects
               PROVE  FALSE
    BY <1>2
  <2>1. ~s.ifNotExists /\ ~s.orReplace
    BY <1>1 DEF Careful
  <2> QED
    BY <1>1, <2>1 DEF Legal, Skipped
<1>5. outcome' = "ok" /\ tables' = tables /\ DOMAIN objects' = DOMAIN objects \cup {s.object}
  BY <1>3, <1>4 DEF CreateObject, Put
<1>6. catalog'.tables = catalog.tables /\ DOMAIN catalog'.objects = DOMAIN catalog.objects \cup {s.object}
  <2>1. CASE Skipped(s, catalog)
    <3>1. catalog' = catalog /\ s.object \in DOMAIN catalog.objects
      BY <1>1, <2>1, SkippedCatalog DEF Skipped
    <3> QED
      BY <3>1
  <2>2. CASE ~Skipped(s, catalog)
    <3>1. catalog' = [catalog EXCEPT !.objects = [o \in DOMAIN @ \cup {s.object} |->
                                                    IF o = s.object THEN s.content ELSE @[o]]]
      BY <1>1, <2>2 DEF Effect
    <3> QED
      BY <1>2, <3>1
  <2> QED
    BY <2>1, <2>2
<1> QED
  BY <1>2, <1>5, <1>6

\* All other statements leave them alone.
LEMMA OtherObjects ==
  ASSUME NEW s, Taken(s), s.kind # "create_object"
  PROVE  objects' = objects /\ catalog'.objects = catalog.objects
<1>1. /\ Structure /\ IsStatement(s) /\ Apply(Handle(s)) /\ catalog' = Effect(s, catalog)
  BY DEF Taken, Statement
<1>2. DOMAIN catalog = {"namespaces", "tables", "objects"}
  BY <1>1 DEF Structure
<1>3. Handle(s).kind # "create_object"
  BY <1>1, HandleTyped
<1>4. objects' = objects
  <2> DEFINE m == Handle(s)
  <2> HIDE DEF m
  <2>1. \/ CreateTable(m) \/ AddColumn(m) \/ DropColumn(m) \/ AlterColumnType(m)
        \/ SetNotNull(m) \/ DropNotNull(m) \/ SetDefault(m) \/ DropDefault(m) \/ RenameColumn(m)
        \/ AddConstraint(m) \/ DropConstraint(m) \/ CreateIndex(m) \/ CreateSchema(m)
    BY <1>1, <1>3 DEF Apply, m
  <2> QED
    BY <2>1 DEF CreateTable, CreateNewTable, TableExists, MergeFails, MergePlaceholder, AddColumn,
                DropColumn, AlterColumnType, SetNotNull, DropNotNull, SetDefault, DropDefault,
                ChangeColumn, RenameColumn, RenameNothing, RenameFails, RenameDone, AddConstraint,
                DropConstraint, CreateIndex, CreateSchema, Fails
<1>5. catalog'.objects = catalog.objects
  <2>1. \/ catalog' = catalog
        \/ catalog' = [catalog EXCEPT !.namespaces = catalog.namespaces \cup {s.namespace}]
        \/ \E all : catalog' = [catalog EXCEPT !.tables = all]
    <3>1. CASE Skipped(s, catalog)
      BY <1>1, <3>1, SkippedCatalog
    <3>2. CASE ~Skipped(s, catalog) /\ s.kind = "create_schema"
      BY <1>1, <3>2 DEF Effect
    <3>3. CASE ~Skipped(s, catalog) /\ s.kind = "create_table"
      BY <1>1, <3>3 DEF Effect
    <3>4. CASE ~Skipped(s, catalog) /\ s.kind \notin {"create_schema", "create_table"}
      <4>1. catalog' = [catalog EXCEPT !.tables[s.table] = Altered(s, @)]
        BY <1>1, <3>4 DEF Effect
      <4> QED
        BY <4>1
    <3> QED
      BY <3>1, <3>2, <3>3, <3>4
  <2> QED
    BY <1>2, <2>1
<1> QED
  BY <1>4, <1>5

\* At most one table has other indexes.
LEMMA AcceptedTable ==
  ASSUME Accepted, menu' = menu, outcome' = "ok", DOMAIN objects' = DOMAIN catalog'.objects, NEW T,
         DOMAIN tables' = DOMAIN tables \cup {T},
         \A u \in DOMAIN tables \ {T} :
           /\ tables'[u].indexes = tables[u].indexes
           /\ catalog'.tables[u].indexes = catalog.tables[u].indexes,
         \A x \in catalog'.tables[T].indexes : IsIndex(x),
         ~HasKind("drop_column") =>
            DOMAIN tables'[T].indexes = {x.name : x \in catalog'.tables[T].indexes}
  PROVE  Accepted'
<1>1. HasKind("drop_column")' <=> HasKind("drop_column")
  BY DEF HasKind
<1>2. ASSUME NEW u \in DOMAIN tables'
      PROVE  /\ \A x \in catalog'.tables[u].indexes : IsIndex(x)
             /\ ~HasKind("drop_column") =>
                  DOMAIN tables'[u].indexes = {x.name : x \in catalog'.tables[u].indexes}
  <2>1. CASE u = T
    BY <2>1
  <2>2. CASE u # T
    <3>1. /\ u \in DOMAIN tables /\ tables'[u].indexes = tables[u].indexes
          /\ catalog'.tables[u].indexes = catalog.tables[u].indexes
      BY <2>2
    <3> QED
      BY <3>1 DEF Accepted
  <2> QED
    BY <2>1, <2>2
<1> QED
  BY <1>1, <1>2 DEF Accepted

\* A table is made, with the constraints that the parser has read.
LEMMA TableCreated ==
  ASSUME NEW s, Taken(s), Careful, s.kind = "create_table"
  PROVE  /\ menu' = menu /\ outcome' = "ok" /\ s.table \notin DOMAIN tables
         /\ DOMAIN tables' = DOMAIN tables \cup {s.table}
         /\ tables'[s.table].indexes = <<>>
         /\ tables'[s.table].constraints = WithConstraints(<<>>, ParsedConstraints(s))
         /\ \A u \in DOMAIN tables \ {s.table} : tables'[u] = tables[u]
         /\ catalog'.tables[s.table] = CreatedTable(s)
         /\ DOMAIN tables = DOMAIN catalog.tables
         /\ \A u \in DOMAIN tables \ {s.table} : catalog'.tables[u] = catalog.tables[u]
<1> DEFINE T == s.table
           m == Handle(s)
           added == AddColumns(NewTable(FALSE), m.columns)
<1>1. /\ Structure /\ SchemaTyped /\ IsStatement(s) /\ menu' = menu /\ s \in menu
      /\ Legal(s, catalog) /\ Apply(m) /\ catalog' = Effect(s, catalog)
  BY DEF Taken, Statement
<1>2. ~Skipped(s, catalog)
  BY <1>1 DEF Careful, Skipped
<1>3. T \notin DOMAIN tables
  BY <1>1, <1>2 DEF Legal, Structure
<1>4. m.kind = "create_table" /\ m.table = T /\ m.constraints = ParsedConstraints(s)
  BY DEF Handle, HandleCreateTable
<1>5. m.columns \in Seq(Columns)
  BY <1>1, <1>4, HandleTyped DEF IsMutation
<1> HIDE DEF m, T
<1>6. CreateNewTable(m)
  <2>1. CreateTable(m)
    BY <1>1, <1>4 DEF Apply
  <2> QED
    BY <1>3, <1>4, <2>1 DEF CreateTable, TableExists, MergeFails, MergePlaceholder
<1>7. /\ outcome' = "ok" /\ tables' = Put(tables, T, applyTableMetadata(added, m))
  BY <1>4, <1>6 DEF CreateNewTable
<1>8. /\ applyTableMetadata(added, m).indexes = <<>>
      /\ applyTableMetadata(added, m).constraints = WithConstraints(<<>>, ParsedConstraints(s))
  <2>1. /\ added.indexes = <<>> /\ added.constraints = <<>>
        /\ DOMAIN added = {"columns", "byName", "index", "primaryKey", "constraints", "indexes",
                           "placeholder"}
    BY DEF AddColumns, NewTable
  <2> HIDE DEF added
  <2> QED
    BY <1>4, <2>1 DEF applyTableMetadata
<1> HIDE DEF added
<1>9. /\ DOMAIN tables' = DOMAIN tables \cup {T}
      /\ tables'[T] = applyTableMetadata(added, m)
      /\ \A u \in DOMAIN tables \ {T} : tables'[u] = tables[u]
  BY <1>7 DEF Put
<1>10. DOMAIN catalog = {"namespaces", "tables", "objects"} /\ DOMAIN tables = DOMAIN catalog.tables
  BY <1>1 DEF Structure
<1>11. /\ catalog'.tables[T] = CreatedTable(s)
       /\ \A u \in DOMAIN catalog.tables \ {T} : catalog'.tables[u] = catalog.tables[u]
  <2>1. catalog' = [catalog EXCEPT !.tables = [t \in DOMAIN @ \cup {T} |->
                                                 IF t = T THEN CreatedTable(s) ELSE @[t]]]
    BY <1>1, <1>2 DEF Effect, T
  <2>2. catalog'.tables = [t \in DOMAIN catalog.tables \cup {T} |->
                             IF t = T THEN CreatedTable(s) ELSE catalog.tables[t]]
    BY <1>10, <2>1
  <2> QED
    BY <2>2
<1> QED
  BY <1>1, <1>3, <1>7, <1>8, <1>9, <1>10, <1>11 DEF T

LEMMA CreateAccepted ==
  ASSUME NEW s, Taken(s), Careful, Accepted, s.kind = "create_table"
  PROVE  Accepted'
<1> DEFINE T == s.table
<1>1. /\ menu' = menu /\ outcome' = "ok" /\ DOMAIN tables' = DOMAIN tables \cup {T}
      /\ tables'[T].indexes = <<>> /\ catalog'.tables[T] = CreatedTable(s)
      /\ \A u \in DOMAIN tables \ {T} :
           tables'[u] = tables[u] /\ catalog'.tables[u] = catalog.tables[u]
  BY TableCreated
<1>2. catalog'.tables[T].indexes = {}
  BY <1>1 DEF CreatedTable
<1>3. DOMAIN objects' = DOMAIN catalog'.objects
  BY OtherObjects DEF Accepted
<1>4. DOMAIN tables'[T].indexes = {x.name : x \in catalog'.tables[T].indexes}
  BY <1>1, <1>2
<1> HIDE DEF T
<1> QED
  BY <1>1, <1>2, <1>3, <1>4, AcceptedTable

\* A constraint as the parser has it.
AsParsed(t, c) == parseTableConstraint(t[2], c)

\* The columns of an index or a constraint when one of them has another name.
Followed(x, name, to) ==
  [x EXCEPT !.columns = [k \in DOMAIN @ |-> IF @[k] = name THEN to ELSE @[k]]]

LEMMA FollowedFacts ==
  ASSUME NEW x, IsConstraint(x) \/ IsIndex(x), NEW name, NEW to, NEW more, more = Followed(x, name, to)
  PROVE  /\ IsConstraint(x) => IsConstraint(more) /\ more.type = x.type
         /\ IsIndex(x) => IsIndex(more)
         /\ more.name = x.name /\ more.rest = x.rest
         /\ name \notin Range(x.columns) => more.columns = x.columns
<1> DEFINE list == [k \in DOMAIN x.columns |-> IF x.columns[k] = name THEN to ELSE x.columns[k]]
<1>1. /\ DOMAIN x = {"name", "type", "columns", "rest"} \/ DOMAIN x = {"name", "columns", "rest"}
      /\ x.columns \in Seq(Range(x.columns))
  BY DEF IsConstraint, IsIndex, IsList
<1>2. IsList(list)
  <2>1. list \in Seq(Range(list))
    <3>1. /\ DOMAIN list = 1..Len(x.columns) /\ Len(x.columns) \in Nat
          /\ \A k \in DOMAIN list : list[k] \in Range(list)
      BY <1>1 DEF Range
    <3> HIDE DEF list
    <3>2. list = [k \in 1..Len(x.columns) |-> list[k]]
      BY <3>1 DEF list
    <3> QED
      BY <3>1, <3>2
  <2> QED
    BY <2>1 DEF IsList
<1>3. ASSUME name \notin Range(x.columns) PROVE list = x.columns
  <2>1. \A k \in DOMAIN x.columns : x.columns[k] # name
    BY <1>3 DEF Range
  <2>2. x.columns = [k \in DOMAIN x.columns |-> x.columns[k]]
    BY <1>1
  <2> QED
    BY <2>1, <2>2
<1>4. more = [x EXCEPT !.columns = list]
  BY DEF Followed
<1> HIDE DEF list
<1>5. more.columns = list /\ DOMAIN more = DOMAIN x /\ more.name = x.name /\ more.rest = x.rest
  BY <1>1, <1>4
<1>6. "type" \in DOMAIN x => more.type = x.type
  BY <1>4
<1> QED
  BY <1>1, <1>2, <1>3, <1>5, <1>6 DEF IsConstraint, IsIndex

LEMMA RenamedParts ==
  ASSUME NEW s, NEW table
  PROVE  /\ RenamedColumn(s, table).indexes = {Followed(x, s.name, s.to) : x \in table.indexes}
         /\ RenamedColumn(s, table).constraints = {Followed(c, s.name, s.to) : c \in table.constraints}
BY DEF RenamedColumn, Followed

LEMMA HandledTable ==
  ASSUME NEW s, IsStatement(s), Altering(s)
  PROVE  Handle(s).table = s.table
<1>1. DOMAIN s = FieldsOf(s.kind) \cup {"kind"} /\ (s.kind = "create_index" => IsIndex(s.index))
  BY DEF IsStatement
<1>2. CASE s.kind = "set_default"
  BY <1>1, <1>2 DEF Handle, HandleSetDefault, FieldsOf
<1>3. CASE s.kind = "add_constraint"
  BY <1>1, <1>3 DEF Handle, HandleAddConstraint, FieldsOf
<1>4. CASE s.kind = "create_index"
  BY <1>1, <1>4 DEF Handle, HandleCreateIndex, FieldsOf
<1>5. CASE s.kind = "add_column"
  BY <1>5 DEF Handle, HandleAddColumn
<1>6. CASE s.kind \notin {"set_default", "add_constraint", "create_index", "add_column"}
  BY <1>6 DEF Handle, Altering
<1> QED
  BY <1>2, <1>3, <1>4, <1>5, <1>6

\* What makes no index leaves those of the table alone, and the constraints too unless
\* it is about one.
AlteredTo(s, old, new) ==
  /\ new.indexes = old.indexes
  /\ s.kind = "add_constraint" =>
       new.constraints = Put(old.constraints, AsParsed(s.table, s.constraint).name,
                             AsParsed(s.table, s.constraint))
  /\ s.kind = "drop_constraint" => new.constraints = Without(old.constraints, s.constraintName)
  /\ s.kind \notin {"add_constraint", "drop_constraint"} => new.constraints = old.constraints

LEMMA AlteredTable ==
  ASSUME NEW s, Taken(s), Altering(s), ~Skipped(s, catalog), s.kind # "create_index"
  PROVE  /\ outcome' = "ok" /\ DOMAIN tables' = DOMAIN tables
         /\ \A u \in DOMAIN tables \ {s.table} : tables'[u] = tables[u]
         /\ AlteredTo(s, tables[s.table], tables'[s.table])
<1> DEFINE T == s.table
           m == Handle(s)
           old == tables[T]
           cat == catalog.tables[T]
<1>1. /\ Structure /\ SchemaTyped /\ IsStatement(s) /\ s \in menu
      /\ Apply(m) /\ m.kind = s.kind
      /\ T \in DOMAIN tables
      /\ AlterLegal(s, cat) /\ TableTyped(old, Len(heap)) /\ heap \in Seq(Columns)
      /\ Matches(heap, old, cat)
      /\ ~HasKind("rename_column") => Indexed(old)
  BY AlterFacts
<1>2. DOMAIN old = {"columns", "byName", "index", "primaryKey", "constraints", "indexes",
                    "placeholder"}
  BY <1>1 DEF TableTyped
<1>3. DOMAIN cat.columns = DOMAIN old.byName /\ ~old.placeholder
  BY <1>1 DEF Matches
<1>4. m.table = T
  BY <1>1, HandledTable
<1>5. CASE s.kind = "add_column"
  <2>1. AddColumn(m) /\ TableOrPlaceholder(T) = old
    BY <1>1, <1>5 DEF Apply, TableOrPlaceholder
  <2> DEFINE table == AddColumns(old, <<m.column>>)
  <2>2. table.indexes = old.indexes /\ table.constraints = old.constraints
    BY <1>2 DEF AddColumns
  <2> HIDE DEF table, m
  <2>3. outcome' = "ok" /\ tables' = Put(tables, T, table)
    BY <1>4, <2>1 DEF AddColumn, table
  <2>4. /\ DOMAIN tables' = DOMAIN tables /\ tables'[T] = table
        /\ \A u \in DOMAIN tables \ {T} : tables'[u] = tables[u]
    BY <1>1, <2>3 DEF Put
  <2> QED
    BY <1>5, <2>2, <2>3, <2>4 DEF AlteredTo
<1>6. CASE s.kind = "drop_column"
  <2>1. DropColumn(s)
    BY <1>1, <1>6 DEF Apply, Handle
  <2>2. s.name \in DOMAIN old.byName
    BY <1>1, <1>3, <1>6 DEF AlterLegal
  <2>3. Indexed(old)
    <3>1. HasKind("drop_column")
      BY <1>1, <1>6 DEF HasKind
    <3> QED
      BY <1>1, <3>1 DEF Taken, Steady
  <2>4. ~RemovePanics(old, s.name)
    BY <1>1, <2>2, <2>3, RemoveLinked DEF Matches
  <2>5. outcome' = "ok" /\ tables' = [tables EXCEPT ![T] = RemoveColumn(old, s.name)]
    BY <1>1, <2>1, <2>2, <2>4 DEF DropColumn, Unresolved
  <2>6. /\ RemoveColumn(old, s.name).indexes = old.indexes
        /\ RemoveColumn(old, s.name).constraints = old.constraints
    <3> DEFINE place == old.index[s.name]
               last == Len(old.columns)
               rest == Without(old.index, s.name)
               put == Put(rest, heap[old.columns[last]].name, place)
               moved == [k \in 1..(last - 1) |-> IF k = place THEN old.columns[last]
                                                             ELSE old.columns[k]]
    <3>1. RemoveColumn(old, s.name) =
            IF s.name \notin DOMAIN old.index THEN old
            ELSE IF RemovePanics(old, s.name)
            THEN [old EXCEPT !.byName = Without(@, s.name), !.index = rest]
            ELSE [old EXCEPT !.byName = Without(@, s.name),
                             !.index = IF place = last THEN rest ELSE put,
                             !.columns = moved]
      BY Zenon DEF RemoveColumn
    <3> HIDE DEF place, last, rest, put, moved, old
    <3> QED
      BY <1>2, <3>1
  <2>7. /\ DOMAIN tables' = DOMAIN tables /\ tables'[T] = RemoveColumn(old, s.name)
        /\ \A u \in DOMAIN tables \ {T} : tables'[u] = tables[u]
    BY <1>1, <2>5
  <2> QED
    BY <1>6, <2>5, <2>6, <2>7 DEF AlteredTo
<1>7. CASE Changing(s)
  <2>1. m.name = s.name
    <3>1. CASE s.kind = "set_default"
      <4>1. DOMAIN s = {"table", "name", "to", "kind"}
        BY <1>1, <3>1 DEF IsStatement, FieldsOf
      <4> QED
        BY <3>1, <4>1 DEF Handle, HandleSetDefault
    <3>2. CASE s.kind # "set_default"
      BY <1>7, <3>2 DEF Handle, Changing
    <3> QED
      BY <3>1, <3>2
  <2>2. s.name \in DOMAIN old.byName
    BY <1>1, <1>3, <1>7 DEF AlterLegal, Changing
  <2> HIDE DEF m
  <2>3. ~Unresolved(m)
    BY <1>1, <1>4, <2>1, <2>2 DEF Unresolved
  <2>4. \E column : ChangeColumn(m, column)
    <3>1. \/ AlterColumnType(m) \/ SetNotNull(m) \/ DropNotNull(m) \/ SetDefault(m)
          \/ DropDefault(m)
      BY <1>1, <1>7 DEF Apply, Changing
    <3> QED
      BY <3>1 DEF AlterColumnType, SetNotNull, DropNotNull, SetDefault, DropDefault
  <2>5. outcome' = "ok" /\ tables' = tables
    BY <2>3, <2>4 DEF ChangeColumn
  <2> QED
    BY <1>7, <2>5 DEF AlteredTo, Changing
<1>8. CASE s.kind = "rename_column"
  <2>1. RenameColumn(s)
    BY <1>1, <1>8 DEF Apply, Handle
  <2>2. s.name \in DOMAIN old.byName /\ s.to \notin DOMAIN old.byName
    BY <1>1, <1>3, <1>8 DEF AlterLegal
  <2>3. TableOrPlaceholder(T) = old
    BY <1>1 DEF TableOrPlaceholder
  <2>4. RenameDone(s)
    BY <1>3, <2>1, <2>2, <2>3 DEF RenameColumn, RenameNothing, RenameFails
  <2>5. outcome' = "ok" /\ \E names : tables' = [tables EXCEPT ![T].byName = names]
    BY <2>4 DEF RenameDone
  <2> QED
    BY <1>1, <1>2, <1>8, <2>5 DEF AlteredTo
<1>9. CASE s.kind = "add_constraint"
  <2> DEFINE c == AsParsed(T, s.constraint)
  <2>1. m.constraint = c
    <3>1. DOMAIN s = {"table", "constraint", "kind"}
      BY <1>1, <1>9 DEF IsStatement, FieldsOf
    <3>2. m = [s EXCEPT !.constraint = c]
      BY <1>9 DEF Handle, HandleAddConstraint, AsParsed
    <3> HIDE DEF c
    <3> QED
      BY <3>1, <3>2
  <2>2. AddConstraint(m)
    BY <1>1, <1>9 DEF Apply
  <2> HIDE DEF m, c
  <2>3. outcome' = "ok" /\ tables' = [tables EXCEPT ![T].constraints = Put(@, c.name, c)]
    BY <1>1, <1>4, <2>1, <2>2 DEF AddConstraint
  <2>4. tables'[T].constraints = Put(old.constraints, c.name, c)
    BY <1>1, <1>2, <2>3
  <2>5. /\ DOMAIN tables' = DOMAIN tables /\ tables'[T].indexes = old.indexes
        /\ \A u \in DOMAIN tables \ {T} : tables'[u] = tables[u]
    BY <1>1, <1>2, <2>3
  <2> QED
    BY <1>9, <2>3, <2>4, <2>5 DEF AlteredTo, c
<1>10. CASE s.kind = "drop_constraint"
  <2>1. DropConstraint(s)
    BY <1>1, <1>10 DEF Apply, Handle
  <2>2. /\ outcome' = "ok"
        /\ tables' = [tables EXCEPT ![T].constraints = Without(@, s.constraintName)]
    BY <1>1, <2>1 DEF DropConstraint
  <2> QED
    BY <1>1, <1>2, <1>10, <2>2 DEF AlteredTo
<1>11. \/ s.kind \in {"add_column", "drop_column", "rename_column", "add_constraint",
                     "drop_constraint"}
       \/ Changing(s)
  <2> HIDE DEF m
  <2> QED  BY <1>1 DEF Apply, Altering, Changing
<1> QED
  BY <1>5, <1>6, <1>7, <1>8, <1>9, <1>10, <1>11

\* So in the catalog.
AlteredPgTo(s, cat, cat2) ==
  /\ s.kind = "drop_column" =>
       /\ cat2.constraints = {c \in cat.constraints : s.name \notin Range(c.columns)}
       /\ cat2.indexes = {x \in cat.indexes : s.name \notin Range(x.columns)}
  /\ s.kind = "rename_column" =>
       /\ cat2.constraints = {Followed(c, s.name, s.to) : c \in cat.constraints}
       /\ cat2.indexes = {Followed(x, s.name, s.to) : x \in cat.indexes}
  /\ s.kind = "add_constraint" => cat2.constraints = cat.constraints \cup {s.constraint}
  /\ s.kind = "drop_constraint" =>
       cat2.constraints = {c \in cat.constraints : c.name # s.constraintName}
  /\ s.kind = "create_index" =>
       cat2.constraints = cat.constraints /\ cat2.indexes = cat.indexes \cup {s.index}
  /\ s.kind \in {"add_column", "add_constraint", "drop_constraint"} \/ Changing(s) =>
       cat2.indexes = cat.indexes
  /\ Changing(s) \/ (s.kind = "add_column" /\ s.column.inline = <<>>) =>
       cat2.constraints = cat.constraints

LEMMA AlteredPg ==
  ASSUME NEW s, NEW cat, DOMAIN cat = {"columns", "constraints", "indexes"}
  PROVE  AlteredPgTo(s, cat, Altered(s, cat))
<1> DEFINE cat2 == Altered(s, cat)
<1>1. CASE s.kind = "drop_column"
  BY <1>1 DEF AlteredPgTo, Altered, DroppedColumn, Changing
<1>2. CASE s.kind = "rename_column"
  <2>1. cat2 = RenamedColumn(s, cat)
    BY <1>2 DEF Altered
  <2> HIDE DEF cat2
  <2>2. AlteredPgTo(s, cat, cat2)
    BY <1>2, <2>1, RenamedParts DEF AlteredPgTo, Changing
  <2> QED
    BY <2>2 DEF cat2
<1>3. CASE s.kind = "add_column"
  <2> DEFINE inline == {[c EXCEPT !.columns = <<s.column.name>>] : c \in Range(s.column.inline)}
  <2>1. \E columns : cat2 = [cat EXCEPT !.columns = columns, !.constraints = @ \cup inline]
    <3>1. cat2 = AddedColumn(s, cat)
      BY <1>3 DEF Altered
    <3> HIDE DEF cat2
    <3> QED
      BY <3>1, Zenon DEF AddedColumn
  <2>2. s.column.inline = <<>> => inline = {}
    BY DEF Range
  <2> HIDE DEF cat2, inline
  <2>3. cat2.indexes = cat.indexes /\ cat2.constraints = cat.constraints \cup inline
    BY <2>1
  <2>4. AlteredPgTo(s, cat, cat2)
    BY <1>3, <2>2, <2>3 DEF AlteredPgTo, Changing
  <2> QED
    BY <2>4 DEF cat2
<1>4. CASE s.kind = "add_constraint"
  <2>1. \E columns : cat2 = [cat EXCEPT !.constraints = @ \cup {s.constraint}, !.columns = columns]
    <3>1. cat2 = ConstrainedTable(s, cat)
      BY <1>4 DEF Altered
    <3> HIDE DEF cat2
    <3> QED
      BY <3>1, Zenon DEF ConstrainedTable
  <2> HIDE DEF cat2
  <2>2. cat2.indexes = cat.indexes /\ cat2.constraints = cat.constraints \cup {s.constraint}
    BY <2>1
  <2>3. AlteredPgTo(s, cat, cat2)
    BY <1>4, <2>2 DEF AlteredPgTo, Changing
  <2> QED
    BY <2>3 DEF cat2
<1>5. CASE s.kind = "drop_constraint"
  BY <1>5 DEF AlteredPgTo, Altered, Changing
<1>6. CASE s.kind = "create_index"
  BY <1>6 DEF AlteredPgTo, Altered, Changing
<1>7. CASE Changing(s)
  <2>1. \E field, value : cat2 = [cat EXCEPT !.columns[s.name][field] = value]
    <3>1. CASE s.kind = "alter_type"
      BY <3>1 DEF Altered
    <3>2. CASE s.kind = "set_not_null"
      BY <3>2 DEF Altered
    <3>3. CASE s.kind = "drop_not_null"
      BY <3>3 DEF Altered
    <3>4. CASE s.kind = "set_default"
      BY <3>4 DEF Altered
    <3>5. CASE s.kind = "drop_default"
      BY <3>5 DEF Altered
    <3> QED
      BY <1>7, <3>1, <3>2, <3>3, <3>4, <3>5 DEF Changing
  <2> HIDE DEF cat2
  <2>2. \E columns : cat2 = [cat EXCEPT !.columns = columns]
    BY <2>1, Zenon
  <2>3. cat2.indexes = cat.indexes /\ cat2.constraints = cat.constraints
    BY <2>2
  <2>4. AlteredPgTo(s, cat, cat2)
    BY <1>7, <2>3 DEF AlteredPgTo, Changing
  <2> QED
    BY <2>4 DEF cat2
<1>8. CASE /\ s.kind \notin {"drop_column", "rename_column", "add_column", "add_constraint",
                             "drop_constraint", "create_index"}
           /\ ~Changing(s)
  BY <1>8 DEF AlteredPgTo
<1> QED
  BY <1>1, <1>2, <1>3, <1>4, <1>5, <1>6, <1>7, <1>8

\* An index gets the name it was given, which no other has.
LEMMA IndexCreated ==
  ASSUME NEW s, Taken(s), Careful, Accepted, s.kind = "create_index", ~Skipped(s, catalog)
  PROVE  /\ outcome' = "ok" /\ DOMAIN tables' = DOMAIN tables
         /\ IsIndex(s.index) /\ s.index.name # <<>> /\ ~HasKind("drop_column")
         /\ s.index.name \notin DOMAIN tables[s.table].indexes
         /\ \A u \in DOMAIN tables \ {s.table} : tables'[u] = tables[u]
         /\ tables'[s.table].constraints = tables[s.table].constraints
         /\ \E x : /\ x.name = s.index.name /\ x.columns = s.index.columns /\ x.rest = s.index.rest
                   /\ tables'[s.table].indexes = Put(tables[s.table].indexes, s.index.name, x)
<1> DEFINE T == s.table
           m == Handle(s)
           old == tables[T]
           cat == catalog.tables[T]
           name == s.index.name
<1>1. /\ IsStatement(s) /\ s \in menu /\ Apply(m) /\ m.kind = s.kind /\ T \in DOMAIN tables
      /\ AlterLegal(s, cat) /\ TableTyped(old, Len(heap))
  BY AlterFacts DEF Altering
<1>2. DOMAIN old = {"columns", "byName", "index", "primaryKey", "constraints", "indexes",
                    "placeholder"}
  BY <1>1 DEF TableTyped
<1>3. DOMAIN s = {"table", "ifNotExists", "index", "kind"} /\ IsIndex(s.index)
  BY <1>1 DEF IsStatement, FieldsOf
<1>4. name # <<>> /\ ~HasKind("drop_column")
  BY <1>1 DEF Careful, HasKind
<1>5. /\ m.index.name = name /\ m.index.columns = s.index.columns /\ m.index.rest = s.index.rest
      /\ m.table = T
  <2>1. m = [s EXCEPT !.index.name = name]
    BY <1>4 DEF Handle, HandleCreateIndex, generateDefaultIndexName
  <2> HIDE DEF m
  <2> QED
    BY <1>3, <2>1 DEF IsIndex
<1>6. name \notin DOMAIN old.indexes
  <2>1. ~Named(cat.indexes, name)
    BY <1>1, <1>4 DEF AlterLegal
  <2>2. DOMAIN old.indexes = {x.name : x \in cat.indexes}
    BY <1>1, <1>4 DEF Accepted
  <2> QED
    BY <2>1, <2>2 DEF Named
<1>7. CreateIndex(m)
  BY <1>1 DEF Apply
<1> HIDE DEF m, name
<1>8. /\ outcome' = "ok"
      /\ tables' = [tables EXCEPT ![T].indexes = Put(@, name, m.index)]
  BY <1>1, <1>5, <1>6, <1>7 DEF CreateIndex
<1>9. /\ DOMAIN tables' = DOMAIN tables /\ tables'[T].constraints = old.constraints
      /\ tables'[T].indexes = Put(old.indexes, name, m.index)
      /\ \A u \in DOMAIN tables \ {T} : tables'[u] = tables[u]
  BY <1>1, <1>2, <1>8
<1> QED
  BY <1>3, <1>4, <1>5, <1>6, <1>8, <1>9 DEF name

\* Nothing that alters a table fails.
LEMMA AlterAccepted ==
  ASSUME NEW s, Taken(s), Careful, Accepted, Altering(s), ~Skipped(s, catalog)
  PROVE  Accepted'
<1> DEFINE T == s.table
           old == tables[T]
           cat == catalog.tables[T]
           cat2 == catalog'.tables[T]
<1>1. /\ s \in menu /\ menu' = menu /\ IsStatement(s) /\ Apply(Handle(s)) /\ Handle(s).kind = s.kind
      /\ T \in DOMAIN tables /\ DOMAIN tables = DOMAIN catalog.tables
      /\ Matches(heap, old, cat) /\ cat2 = Altered(s, cat)
      /\ \A u \in DOMAIN catalog.tables \ {T} : catalog'.tables[u] = catalog.tables[u]
  BY AlterFacts
<1>2. AlteredPgTo(s, cat, cat2)
  BY <1>1, AlteredPg DEF Matches
<1>3. /\ \A x \in cat.indexes : IsIndex(x)
      /\ ~HasKind("drop_column") => DOMAIN old.indexes = {x.name : x \in cat.indexes}
  BY <1>1 DEF Accepted
<1>4. DOMAIN objects' = DOMAIN catalog'.objects
  BY OtherObjects DEF Accepted, Altering
<1>5. /\ outcome' = "ok" /\ DOMAIN tables' = DOMAIN tables
      /\ \A u \in DOMAIN tables \ {T} : tables'[u] = tables[u]
  <2>1. CASE s.kind = "create_index"
    BY <2>1, IndexCreated
  <2>2. CASE s.kind # "create_index"
    BY <2>2, AlteredTable
  <2> QED
    BY <2>1, <2>2
<1>6. /\ \A x \in cat2.indexes : IsIndex(x)
      /\ ~HasKind("drop_column") => DOMAIN tables'[T].indexes = {x.name : x \in cat2.indexes}
  <2>1. CASE s.kind = "create_index"
    <3>1. /\ IsIndex(s.index) /\ ~HasKind("drop_column")
          /\ \E x : tables'[T].indexes = Put(old.indexes, s.index.name, x)
      BY <2>1, IndexCreated
    <3>2. cat2.indexes = cat.indexes \cup {s.index}
      BY <1>2, <2>1 DEF AlteredPgTo
    <3>3. DOMAIN tables'[T].indexes = DOMAIN old.indexes \cup {s.index.name}
      BY <3>1 DEF Put
    <3> QED
      BY <1>3, <3>1, <3>2, <3>3
  <2>2. CASE s.kind = "rename_column"
    <3>1. cat2.indexes = {Followed(x, s.name, s.to) : x \in cat.indexes}
      BY <1>2, <2>2 DEF AlteredPgTo
    <3>2. \A x \in cat.indexes :
            IsIndex(Followed(x, s.name, s.to)) /\ Followed(x, s.name, s.to).name = x.name
      BY <1>3, FollowedFacts
    <3> HIDE DEF cat2
    <3>3. {x.name : x \in cat2.indexes} = {x.name : x \in cat.indexes}
      BY <3>1, <3>2
    <3>4. \A x \in cat2.indexes : IsIndex(x)
      BY <3>1, <3>2
    <3>5. tables'[T].indexes = old.indexes
      BY <2>2, AlteredTable DEF AlteredTo
    <3> QED
      BY <1>3, <3>3, <3>4, <3>5
  <2>3. CASE s.kind = "drop_column"
    <3>1. HasKind("drop_column")
      BY <1>1, <2>3 DEF HasKind
    <3>2. \A x \in cat2.indexes : x \in cat.indexes
      BY <1>2, <2>3 DEF AlteredPgTo
    <3> QED
      BY <1>3, <3>1, <3>2
  <2>4. CASE s.kind \notin {"create_index", "rename_column", "drop_column"}
    <3>1. s.kind \in {"add_column", "add_constraint", "drop_constraint"} \/ Changing(s)
      BY <1>1, <2>4 DEF Apply, Altering, Changing
    <3>2. cat2.indexes = cat.indexes
      BY <1>2, <3>1 DEF AlteredPgTo
    <3>3. tables'[T].indexes = old.indexes
      BY <2>4, AlteredTable DEF AlteredTo
    <3> QED
      BY <1>3, <3>2, <3>3
  <2> QED
    BY <2>1, <2>2, <2>3, <2>4
<1>7. /\ DOMAIN tables' = DOMAIN tables \cup {T}
      /\ \A u \in DOMAIN tables \ {T} :
           /\ tables'[u].indexes = tables[u].indexes
           /\ catalog'.tables[u].indexes = catalog.tables[u].indexes
  BY <1>1, <1>5
<1> HIDE DEF T
<1> QED
  BY <1>1, <1>4, <1>5, <1>6, <1>7, AcceptedTable

\* What leaves all tables alone.
Resting(s) ==
  \/ s.kind \in {"create_schema", "create_object"}
  \/ s.kind = "create_index" /\ Skipped(s, catalog)

LEMMA RestLeaves ==
  ASSUME NEW s, Taken(s), Careful, Accepted, Resting(s)
  PROVE  outcome' = "ok" /\ tables' = tables /\ catalog'.tables = catalog.tables
<1>1. /\ Structure /\ SchemaTyped /\ IsStatement(s) /\ s \in menu /\ menu' = menu
      /\ Apply(Handle(s)) /\ catalog' = Effect(s, catalog)
  BY DEF Taken, Statement
<1>2. DOMAIN catalog = {"namespaces", "tables", "objects"} /\ DOMAIN tables = DOMAIN catalog.tables
  BY <1>1 DEF Structure
<1>3. CASE s.kind = "create_object"
  BY <1>3, ObjectsStep
<1>4. CASE s.kind = "create_schema"
  <2>1. CreateSchema(s)
    BY <1>1, <1>4 DEF Handle, Apply
  <2>2. catalog' = [catalog EXCEPT !.namespaces = catalog.namespaces \cup {s.namespace}]
    BY <1>1, <1>4 DEF Effect, Skipped
  <2> QED
    BY <1>2, <2>1, <2>2 DEF CreateSchema
<1>5. CASE s.kind = "create_index" /\ Skipped(s, catalog)
  <2> DEFINE m == Handle(s)
             T == s.table
             name == s.index.name
  <2>1. DOMAIN s = {"table", "ifNotExists", "index", "kind"} /\ IsIndex(s.index)
    BY <1>1, <1>5 DEF IsStatement, FieldsOf
  <2>2. name # <<>> /\ ~HasKind("drop_column")
    BY <1>1, <1>5 DEF Careful, HasKind
  <2>3. m.index.name = name /\ m.table = T /\ m.ifNotExists = s.ifNotExists
    BY <1>5, <2>1, <2>2 DEF Handle, HandleCreateIndex, generateDefaultIndexName, IsIndex
  <2>4. /\ s.ifNotExists /\ T \in DOMAIN tables
        /\ \E x \in catalog.tables[T].indexes : x.name = name
    BY <1>2, <1>5 DEF Skipped
  <2>5. name \in DOMAIN tables[T].indexes
    BY <2>2, <2>4 DEF Accepted
  <2>6. CreateIndex(m)
    BY <1>1, <1>5, HandleTyped DEF Apply
  <2> HIDE DEF m
  <2>7. outcome' = "ok" /\ tables' = tables
    BY <2>3, <2>4, <2>5, <2>6 DEF CreateIndex
  <2>8. catalog' = catalog
    BY <1>1, <1>5, SkippedCatalog
  <2> QED
    BY <2>7, <2>8
<1> QED
  BY <1>3, <1>4, <1>5 DEF Resting

\* Nothing of it fails.
LEMMA RestAccepted ==
  ASSUME NEW s, Taken(s), Careful, Accepted, Resting(s)
  PROVE  Accepted'
<1>1. menu' = menu
  BY DEF Taken, Statement
<1>2. outcome' = "ok" /\ tables' = tables /\ catalog'.tables = catalog.tables
  BY RestLeaves
<1>3. DOMAIN objects' = DOMAIN catalog'.objects
  <2>1. CASE s.kind = "create_object"
    BY <2>1, ObjectsStep
  <2>2. CASE s.kind # "create_object"
    BY <2>2, OtherObjects DEF Accepted
  <2> QED
    BY <2>1, <2>2
<1>4. HasKind("drop_column")' <=> HasKind("drop_column")
  BY <1>1 DEF HasKind
<1> QED
  BY <1>2, <1>3, <1>4 DEF Accepted

LEMMA AcceptedStep ==
  ASSUME NEW s, Taken(s), Careful, Accepted
  PROVE  Accepted'
<1>1. CASE s.kind = "create_table"
  BY <1>1, CreateAccepted
<1>2. CASE Resting(s)
  BY <1>2, RestAccepted
<1>3. CASE Altering(s) /\ ~Skipped(s, catalog)
  BY <1>3, AlterAccepted
<1>4. CASE Altering(s) /\ Skipped(s, catalog) /\ s.kind # "create_index"
  BY <1>4 DEF Altering, Skipped, Taken, Steady
<1> QED
  BY <1>1, <1>2, <1>3, <1>4 DEF Altering, Resting

----------------------------------------------------------------------------
(* Constraints and indexes.                                                *)

LEMMA LeftMore ==
  ASSUME NEW g, NEW h, g \subseteq h, NEW t, NEW p
  PROVE  /\ Left(g, t, p) => Left(h, t, p)
         /\ \A c : Alike(g, t, p, c) => Alike(h, t, p, c)
<1>1. Left(g, t, p) => Left(h, t, p)
  BY DEF Left
<1> QED
  BY <1>1 DEF Alike

LEMMA NamedKey ==
  ASSUME NEW t, NEW c, c.name # <<>>
  PROVE  KeyOf(t, c) = c.name
BY DEF KeyOf, defaultConstraintName

LEMMA PrimaryKeyKey ==
  ASSUME NEW t, NEW c, c.name = <<>>, IsPrimaryKey(c)
  PROVE  KeyOf(t, c) = <<t[2], "pkey">>
BY DEF KeyOf, defaultConstraintName, IsPrimaryKey

LEMMA HeldMore ==
  ASSUME NEW m, NEW g, NEW h, g \subseteq h, NEW t, NEW held, NEW all
  PROVE  /\ ConstraintsHeld(m, g, t, held, all) => ConstraintsHeld(m, h, t, held, all)
         /\ IndexesHeld(g, t, held, all) => IndexesHeld(h, t, held, all)
<1>1. \A p : /\ Left(g, t, p) => Left(h, t, p)
             /\ \A c : Alike(g, t, p, c) => Alike(h, t, p, c)
  BY LeftMore
<1>2. ConstraintsHeld(m, g, t, held, all) => ConstraintsHeld(m, h, t, held, all)
  BY <1>1 DEF ConstraintsHeld
<1>3. IndexesHeld(g, t, held, all) => IndexesHeld(h, t, held, all)
  BY <1>1 DEF IndexesHeld
<1> QED
  BY <1>2, <1>3

\* A new one.
LEMMA ConstraintAdded ==
  ASSUME NEW m, NEW g, NEW t, NEW held, NEW all, ConstraintsHeld(m, g, t, held, all),
         NEW c, IsConstraint(c), IsFrom(m, t, c), \A d \in all : KeyOf(t, d) # KeyOf(t, c),
         NEW p, p.type = c.type, p.rest = c.rest, p.columns = c.columns, p.name = KeyOf(t, c)
  PROVE  ConstraintsHeld(m, g, t, Put(held, KeyOf(t, c), p), all \cup {c})
<1> DEFINE key == KeyOf(t, c)
           more == Put(held, key, p)
<1>1. Alike(g, t, p, c)
  BY NamedKey DEF Alike
<1>2. /\ DOMAIN more = DOMAIN held \cup {key} /\ more[key] = p
      /\ \A n \in DOMAIN held : n # key => more[n] = held[n]
  BY DEF Put
<1> HIDE DEF more
<1>3. ASSUME NEW d \in all \cup {c}
      PROVE  /\ IsConstraint(d) /\ IsFrom(m, t, d)
             /\ KeyOf(t, d) \in DOMAIN more
             /\ more[KeyOf(t, d)].type = d.type /\ Alike(g, t, more[KeyOf(t, d)], d)
  BY <1>1, <1>2 DEF ConstraintsHeld
<1>4. \A d, e \in all \cup {c} : KeyOf(t, d) = KeyOf(t, e) => d = e
  BY DEF ConstraintsHeld
<1>5. \A n \in DOMAIN more : Left(g, t, more[n]) \/ \E d \in all \cup {c} : KeyOf(t, d) = n
  BY <1>2 DEF ConstraintsHeld
<1>6. ConstraintsHeld(m, g, t, more, all \cup {c})
  BY <1>3, <1>4, <1>5 DEF ConstraintsHeld
<1> QED
  BY <1>6 DEF more

\* One is dropped, by its name.
LEMMA ConstraintDropped ==
  ASSUME NEW m, NEW g, NEW t, NEW held, NEW all, ConstraintsHeld(m, g, t, held, all),
         NEW name, name # <<>>, Named(all, name)
  PROVE  ConstraintsHeld(m, g, t, Without(held, name), {c \in all : c.name # name})
<1> DEFINE less == Without(held, name)
           rest == {c \in all : c.name # name}
<1>1. PICK d \in all : d.name = name /\ KeyOf(t, d) = name
  BY NamedKey DEF Named
<1>2. DOMAIN less = DOMAIN held \ {name} /\ \A n \in DOMAIN less : less[n] = held[n]
  BY DEF Without
<1>3. \A c \in rest : c \in all /\ KeyOf(t, c) # name
  BY <1>1 DEF ConstraintsHeld
<1>4. \A c \in all : KeyOf(t, c) # name => c \in rest
  BY NamedKey
<1> HIDE DEF less, rest
<1>5. ASSUME NEW c \in rest
      PROVE  /\ IsConstraint(c) /\ IsFrom(m, t, c)
             /\ KeyOf(t, c) \in DOMAIN less
             /\ less[KeyOf(t, c)].type = c.type /\ Alike(g, t, less[KeyOf(t, c)], c)
  BY <1>2, <1>3 DEF ConstraintsHeld
<1>6. \A c, e \in rest : KeyOf(t, c) = KeyOf(t, e) => c = e
  BY <1>3 DEF ConstraintsHeld
<1>7. \A n \in DOMAIN less : Left(g, t, less[n]) \/ \E c \in rest : KeyOf(t, c) = n
  BY <1>2, <1>4 DEF ConstraintsHeld
<1>8. ConstraintsHeld(m, g, t, less, rest)
  BY <1>5, <1>6, <1>7 DEF ConstraintsHeld
<1> QED
  BY <1>8 DEF less, rest

\* A column goes, and what is on it in the catalog.
LEMMA ColumnDropped ==
  ASSUME NEW m, NEW g, NEW h, g \subseteq h, NEW t, NEW column, <<t, column>> \in h,
         NEW held, NEW all, NEW rest,
         \A c : c \in rest <=> c \in all /\ column \notin Range(c.columns)
  PROVE  /\ ConstraintsHeld(m, g, t, held, all) => ConstraintsHeld(m, h, t, held, rest)
         /\ IndexesHeld(g, t, held, all) => IndexesHeld(h, t, held, rest)
<1>1. \A p : /\ Left(g, t, p) => Left(h, t, p)
             /\ \A c : Alike(g, t, p, c) => Alike(h, t, p, c)
  BY LeftMore
<1>2. \A p, c : Alike(g, t, p, c) /\ column \in Range(c.columns) => Left(h, t, p)
  BY <1>1 DEF Alike, Left
<1>3. ConstraintsHeld(m, g, t, held, all) => ConstraintsHeld(m, h, t, held, rest)
  <2> SUFFICES ASSUME ConstraintsHeld(m, g, t, held, all) PROVE ConstraintsHeld(m, h, t, held, rest)
    OBVIOUS
  <2>1. ASSUME NEW n \in DOMAIN held
        PROVE  Left(h, t, held[n]) \/ \E c \in rest : KeyOf(t, c) = n
    <3>1. Left(g, t, held[n]) \/ \E c \in all : KeyOf(t, c) = n
      BY DEF ConstraintsHeld
    <3>2. ASSUME NEW c \in all, KeyOf(t, c) = n, column \in Range(c.columns)
          PROVE  Left(h, t, held[n])
      BY <1>2, <3>2 DEF ConstraintsHeld
    <3> QED
      BY <1>1, <3>1, <3>2
  <2> QED
    BY <1>1, <2>1 DEF ConstraintsHeld
<1>4. IndexesHeld(g, t, held, all) => IndexesHeld(h, t, held, rest)
  <2> SUFFICES ASSUME IndexesHeld(g, t, held, all) PROVE IndexesHeld(h, t, held, rest)
    OBVIOUS
  <2>1. ASSUME NEW n \in DOMAIN held
        PROVE  Left(h, t, held[n]) \/ \E x \in rest : x.name = n
    <3>1. Left(g, t, held[n]) \/ \E x \in all : x.name = n
      BY DEF IndexesHeld
    <3>2. ASSUME NEW x \in all, x.name = n, column \in Range(x.columns)
          PROVE  Left(h, t, held[n])
      BY <1>2, <3>2 DEF IndexesHeld
    <3> QED
      BY <1>1, <3>1, <3>2
  <2> QED
    BY <1>1, <2>1 DEF IndexesHeld
<1> QED
  BY <1>3, <1>4

\* Those of all with the name to for another.
AllFollowed(now, all, name, to) == \A e : e \in now <=> \E c \in all : e = Followed(c, name, to)

\* Their names do not depend on the columns.
Lasting(all) == \A c \in all : c.name # <<>> \/ IsPrimaryKey(c)

\* A column gets another name, and what is on it follows in the catalog.
LEMMA ColumnRenamed ==
  ASSUME NEW m, HasRename(m), NEW g, NEW h, g \subseteq h, NEW t, NEW column, <<t, column>> \in h,
         NEW to, NEW held, NEW all, NEW now, AllFollowed(now, all, column, to)
  PROVE  /\ ConstraintsHeld(m, g, t, held, all) /\ Lasting(all) => ConstraintsHeld(m, h, t, held, now)
         /\ IndexesHeld(g, t, held, all) => IndexesHeld(h, t, held, now)
<1> DEFINE F(c) == Followed(c, column, to)
<1>1. \A p : /\ Left(g, t, p) => Left(h, t, p)
             /\ \A c : Alike(g, t, p, c) => Alike(h, t, p, c)
  BY LeftMore
<1>2. \A c : IsConstraint(c) \/ IsIndex(c) =>
        /\ IsConstraint(c) => IsConstraint(F(c)) /\ F(c).type = c.type
        /\ IsIndex(c) => IsIndex(F(c))
        /\ F(c).name = c.name /\ F(c).rest = c.rest
        /\ column \notin Range(c.columns) => F(c).columns = c.columns
  BY FollowedFacts
<1>3. /\ \A c \in all : F(c) \in now
      /\ \A e \in now : \E c \in all : e = F(c)
  BY DEF AllFollowed
<1> HIDE DEF F
<1>4. ASSUME NEW p, NEW c, IsConstraint(c) \/ IsIndex(c), Alike(g, t, p, c)
      PROVE  Alike(h, t, p, F(c))
  <2>1. Alike(h, t, p, c) /\ F(c).name = c.name /\ F(c).rest = c.rest
    BY <1>1, <1>2, <1>4
  <2>2. CASE column \in Range(c.columns)
    <3>1. Left(h, t, p)
      BY <1>1, <1>4, <2>2 DEF Alike, Left
    <3> QED
      BY <2>1, <3>1 DEF Alike
  <2>3. CASE column \notin Range(c.columns)
    <3>1. F(c).columns = c.columns
      BY <1>2, <1>4, <2>3
    <3> QED
      BY <2>1, <3>1 DEF Alike
  <2> QED
    BY <2>2, <2>3
<1>5. ASSUME ConstraintsHeld(m, g, t, held, all), Lasting(all)
      PROVE  ConstraintsHeld(m, h, t, held, now)
  <2>1. ASSUME NEW c \in all
        PROVE  IsConstraint(c) /\ F(c).type = c.type /\ F(c).name = c.name /\ KeyOf(t, F(c)) = KeyOf(t, c)
    <3>1. IsConstraint(c) /\ F(c).type = c.type /\ F(c).name = c.name
      BY <1>2, <1>5 DEF ConstraintsHeld
    <3>2. CASE c.name # <<>>
      BY <3>1, <3>2, NamedKey
    <3>3. CASE c.name = <<>>
      <4>1. IsPrimaryKey(c) /\ IsPrimaryKey(F(c))
        BY <1>5, <3>1, <3>3 DEF IsPrimaryKey, Lasting
      <4> QED
        BY <3>1, <3>3, <4>1, PrimaryKeyKey
    <3> QED
      BY <3>1, <3>2, <3>3
  <2>2. ASSUME NEW c \in all
        PROVE  /\ IsConstraint(F(c)) /\ IsFrom(m, t, F(c)) /\ KeyOf(t, F(c)) \in DOMAIN held
               /\ held[KeyOf(t, F(c))].type = F(c).type /\ Alike(h, t, held[KeyOf(t, F(c))], F(c))
    <3>1. IsConstraint(F(c))
      BY <1>2, <2>1
    <3>2. IsFrom(m, t, c)
      BY <1>5 DEF ConstraintsHeld
    <3>3. IsFrom(m, t, F(c))
      BY <2>1, <3>2 DEF IsFrom
    <3>4. /\ KeyOf(t, c) \in DOMAIN held /\ held[KeyOf(t, c)].type = c.type
          /\ Alike(g, t, held[KeyOf(t, c)], c)
      BY <1>5 DEF ConstraintsHeld
    <3> QED
      BY <1>4, <2>1, <3>1, <3>3, <3>4
  <2>3. \A d, e \in now : KeyOf(t, d) = KeyOf(t, e) => d = e
    BY <1>3, <1>5, <2>1 DEF ConstraintsHeld
  <2>4. \A n \in DOMAIN held : Left(h, t, held[n]) \/ \E e \in now : KeyOf(t, e) = n
    BY <1>1, <1>3, <1>5, <2>1 DEF ConstraintsHeld
  <2> QED
    BY <1>3, <2>2, <2>3, <2>4 DEF ConstraintsHeld
<1>6. ASSUME IndexesHeld(g, t, held, all)
      PROVE  IndexesHeld(h, t, held, now)
  <2>1. ASSUME NEW x \in all
        PROVE  /\ IsIndex(F(x)) /\ F(x).name = x.name /\ x.name # <<>> /\ x.name \in DOMAIN held
               /\ Alike(h, t, held[x.name], F(x))
    BY <1>2, <1>4, <1>6 DEF IndexesHeld
  <2>2. \A n \in DOMAIN held : Left(h, t, held[n]) \/ \E e \in now : e.name = n
    BY <1>1, <1>3, <1>6, <2>1 DEF IndexesHeld
  <2> QED
    BY <1>3, <2>1, <2>2 DEF IndexesHeld
<1> QED
  BY <1>5, <1>6

LEMMA IndexAdded ==
  ASSUME NEW g, NEW t, NEW held, NEW all, IndexesHeld(g, t, held, all),
         NEW x, IsIndex(x), x.name # <<>>, x.name \notin DOMAIN held,
         NEW p, p.name = x.name, p.columns = x.columns, p.rest = x.rest
  PROVE  IndexesHeld(g, t, Put(held, x.name, p), all \cup {x})
<1> DEFINE more == Put(held, x.name, p)
<1>1. /\ DOMAIN more = DOMAIN held \cup {x.name} /\ more[x.name] = p
      /\ \A n \in DOMAIN held : more[n] = held[n]
  BY DEF Put
<1>2. Alike(g, t, p, x)
  BY DEF Alike
<1> HIDE DEF more
<1>3. IndexesHeld(g, t, more, all \cup {x})
  BY <1>1, <1>2 DEF IndexesHeld
<1> QED
  BY <1>3 DEF more

\* What PostgreSQL takes gets a name that no other constraint of the table has.
LEMMA NewKey ==
  ASSUME Distinct, NEW t, NEW g, NEW held, NEW all, ConstraintsHeld(menu, g, t, held, all),
         NEW s \in menu, s.table = t, NEW c \in Written(s), c \notin all,
         c.name # <<>> => ~Named(all, c.name),
         IsPrimaryKey(c) => ~\E d \in all : IsPrimaryKey(d)
  PROVE  \A d \in all : KeyOf(t, d) # KeyOf(t, c)
<1> SUFFICES ASSUME NEW d \in all, KeyOf(t, d) = KeyOf(t, c) PROVE FALSE
  OBVIOUS
<1>1. IsFrom(menu, t, d)
  BY DEF ConstraintsHeld
<1>2. PICK r \in menu :
        \E o \in Written(r) :
          r.table = t /\ o.name = d.name /\ o.type = d.type /\ (d = o \/ HasRename(menu))
  BY <1>1 DEF IsFrom
<1>3. PICK o \in Written(r) :
        r.table = t /\ o.name = d.name /\ o.type = d.type /\ (d = o \/ HasRename(menu))
  BY <1>2
<1>4. HasRename(menu) => \A w \in {c, o} : w.name # <<>> \/ IsPrimaryKey(w)
  BY <1>3 DEF Distinct, HasKind, HasRename
<1>5. KeyOf(t, o) = KeyOf(t, d)
  <2>1. CASE d.name # <<>>
    BY <1>3, <2>1, NamedKey
  <2>2. CASE d.name = <<>> /\ d # o
    <3>1. IsPrimaryKey(o) /\ IsPrimaryKey(d)
      BY <1>3, <1>4, <2>2 DEF IsPrimaryKey
    <3> QED
      BY <1>3, <2>2, <3>1, PrimaryKeyKey
  <2> QED
    BY <2>1, <2>2
<1>6. c.name = <<>> \/ d.name = <<>>
  BY NamedKey DEF Named
<1>7. c = o
  <2>1. ASSUME c # o PROVE FALSE
    <3>1. ShareName(t, c, o)
      BY <1>5, <2>1 DEF ShareName, KeyOf
    <3>2. c.name # <<>> /\ o.name # <<>>
      BY <1>3, <3>1 DEF Distinct
    <3> QED
      BY <1>3, <1>6, <3>2
  <2> QED
    BY <2>1
<1>8. d # o
  BY <1>7
<1>9. IsPrimaryKey(c)
  BY <1>3, <1>4, <1>6, <1>7, <1>8
<1>10. IsPrimaryKey(d)
  BY <1>3, <1>7, <1>9 DEF IsPrimaryKey
<1> QED
  BY <1>9, <1>10

----------------------------------------------------------------------------
(* The constraints of a CREATE TABLE.                                      *)

LEMMA ParsedFacts ==
  ASSUME NEW t, NEW c, IsConstraint(c), c.rest \notin Unreadable
  PROVE  /\ AsParsed(t, c).name = KeyOf(t, c) /\ AsParsed(t, c).type = c.type
         /\ AsParsed(t, c).columns = c.columns /\ AsParsed(t, c).rest = c.rest
BY DEF AsParsed, KeyOf, parseTableConstraint, FormatExpression, IsConstraint

\* One behind a column.
LEMMA InlineParsed ==
  ASSUME NEW t, NEW column, NEW c, IsConstraint(c),
         c.type \in {"primary_key", "foreign_key"} => c.name = <<>>
  PROVE  /\ parseInlineConstraint(t[2], column, c) = AsParsed(t, [c EXCEPT !.columns = <<column.name>>])
         /\ IsConstraint([c EXCEPT !.columns = <<column.name>>])
<1> DEFINE more == [c EXCEPT !.columns = <<column.name>>]
           named == c.type \notin {"primary_key", "foreign_key"}
<1>1. [c EXCEPT !.name = IF named THEN @ ELSE <<>>, !.columns = <<column.name>>] = more
  <2>1. (IF named THEN c.name ELSE <<>>) = c.name
    OBVIOUS
  <2>2. DOMAIN c = {"name", "type", "columns", "rest"}
    BY DEF IsConstraint
  <2> QED
    BY <2>1, <2>2
<1>2. parseInlineConstraint(t[2], column, c) = AsParsed(t, more)
  BY <1>1 DEF parseInlineConstraint, AsParsed
<1>3. DOMAIN more = {"name", "type", "columns", "rest"} /\ more.columns = <<column.name>>
  BY DEF IsConstraint
<1>4. IsList(<<column.name>>)
  BY DEF IsList, Range
<1>5. IsConstraint(more)
  <2> HIDE DEF more
  <2> QED  BY <1>3, <1>4 DEF IsConstraint
<1> QED
  BY <1>2, <1>5

\* The parser goes through all of them and no other.
LEMMA AllRead ==
  ASSUME Distinct, NEW s \in menu, IsStatement(s), s.kind = "create_table"
  PROVE  /\ \A c \in WrittenConstraints(s) : IsConstraint(c)
         /\ ReadConstraints(s) \in Seq({AsParsed(s.table, c) : c \in WrittenConstraints(s)})
         /\ Range(ReadConstraints(s)) = {AsParsed(s.table, c) : c \in WrittenConstraints(s)}
<1> DEFINE T == s.table
           all == WrittenConstraints(s)
           parsedAll == {AsParsed(T, c) : c \in all}
           At(k, l) == [s.columns[k].inline[l] EXCEPT !.columns = <<s.columns[k].name>>]
           parts == [k \in DOMAIN s.columns |->
                       [l \in DOMAIN s.columns[k].inline |->
                          parseInlineConstraint(T[2], s.columns[k], s.columns[k].inline[l])]]
           rest == [k \in DOMAIN s.constraints |-> parseTableConstraint(T[2], s.constraints[k])]
<1>1. /\ s.columns \in Seq(Range(s.columns)) /\ s.constraints \in Seq(Range(s.constraints))
      /\ \A k \in DOMAIN s.columns :
           /\ s.columns[k].inline \in Seq(Range(s.columns[k].inline))
           /\ \A l \in DOMAIN s.columns[k].inline : IsConstraint(s.columns[k].inline[l])
      /\ \A k \in DOMAIN s.constraints : IsConstraint(s.constraints[k])
  BY DEF IsStatement, IsColumn, IsList, Range
<1>2. \A k \in DOMAIN s.columns : \A l \in DOMAIN s.columns[k].inline :
        s.columns[k].inline[l].type \in {"primary_key", "foreign_key"} => s.columns[k].inline[l].name = <<>>
  BY DEF Distinct, Range
<1>3. \A k \in DOMAIN s.columns : \A l \in DOMAIN s.columns[k].inline :
        /\ parseInlineConstraint(T[2], s.columns[k], s.columns[k].inline[l]) = AsParsed(T, At(k, l))
        /\ IsConstraint(At(k, l))
  BY <1>1, <1>2, InlineParsed
<1> DEFINE Behind(k) == {[c EXCEPT !.columns = <<s.columns[k].name>>] : c \in Range(s.columns[k].inline)}
           inlines == UNION {Behind(k) : k \in DOMAIN s.columns}
<1>4. \A c : c \in all <=>
               \/ \E k \in DOMAIN s.columns : \E l \in DOMAIN s.columns[k].inline : c = At(k, l)
               \/ \E k \in DOMAIN s.constraints : c = s.constraints[k]
  <2>1. all = inlines \cup Range(s.constraints)
    BY DEF WrittenConstraints
  <2>2. \A c, k : c \in Behind(k) <=> \E l \in DOMAIN s.columns[k].inline : c = At(k, l)
    BY DEF Range
  <2>3. \A c : c \in Range(s.constraints) <=> \E k \in DOMAIN s.constraints : c = s.constraints[k]
    BY DEF Range
  <2> HIDE DEF At, Behind, all
  <2>4. \A c : c \in inlines <=> \E k \in DOMAIN s.columns : c \in Behind(k)
    OBVIOUS
  <2> HIDE DEF inlines
  <2> QED
    BY <2>1, <2>2, <2>3, <2>4
<1>5. \A c \in all : IsConstraint(c)
  <2> HIDE DEF At, all
  <2> QED
    BY <1>1, <1>3, <1>4
<1> HIDE DEF At
<1>6. /\ \A k \in DOMAIN s.columns : \A l \in DOMAIN s.columns[k].inline :
           parts[k][l] = AsParsed(T, At(k, l))
      /\ \A k \in DOMAIN s.constraints : rest[k] = AsParsed(T, s.constraints[k])
  BY <1>3 DEF AsParsed
<1>7. /\ parts \in Seq(Seq(parsedAll)) /\ DOMAIN parts = DOMAIN s.columns
      /\ \A k \in DOMAIN parts : DOMAIN parts[k] = DOMAIN s.columns[k].inline
  <2>1. \A k \in DOMAIN s.columns : \A l \in DOMAIN s.columns[k].inline : parts[k][l] \in parsedAll
    <3> HIDE DEF all, parts
    <3> QED  BY <1>4, <1>6
  <2>2. /\ DOMAIN parts = DOMAIN s.columns
        /\ \A k \in DOMAIN parts : parts[k] = [l \in DOMAIN s.columns[k].inline |-> parts[k][l]]
        /\ parts = [k \in DOMAIN s.columns |-> parts[k]]
    OBVIOUS
  <2> HIDE DEF parts, parsedAll
  <2>3. \A k \in DOMAIN s.columns : parts[k] \in Seq(parsedAll)
    <3> TAKE k \in DOMAIN s.columns
    <3> DEFINE n == Len(s.columns[k].inline)
               part == parts[k]
    <3>1. DOMAIN s.columns[k].inline = 1..n /\ n \in Nat
      BY <1>1
    <3>2. part = [l \in 1..n |-> part[l]] /\ \A l \in 1..n : part[l] \in parsedAll
      BY <2>1, <2>2, <3>1
    <3> HIDE DEF part, n
    <3>3. part \in Seq(parsedAll)
      BY <3>1, <3>2
    <3> QED
      BY <3>3 DEF part
  <2> DEFINE n == Len(s.columns)
  <2>4. DOMAIN s.columns = 1..n /\ n \in Nat
    BY <1>1
  <2>5. parts = [k \in 1..n |-> parts[k]] /\ \A k \in 1..n : parts[k] \in Seq(parsedAll)
    BY <2>2, <2>3, <2>4
  <2> HIDE DEF n
  <2>6. parts \in Seq(Seq(parsedAll))
    BY <2>4, <2>5
  <2> QED
    BY <2>2, <2>6
<1>8. rest \in Seq(parsedAll) /\ DOMAIN rest = DOMAIN s.constraints
  <2>1. \A k \in DOMAIN s.constraints : rest[k] \in parsedAll
    <3> HIDE DEF all, rest
    <3> QED  BY <1>4, <1>6
  <2>2. DOMAIN rest = DOMAIN s.constraints /\ rest = [k \in DOMAIN s.constraints |-> rest[k]]
    OBVIOUS
  <2>3. DOMAIN s.constraints = 1..Len(s.constraints) /\ Len(s.constraints) \in Nat
    BY <1>1
  <2> HIDE DEF rest, parsedAll
  <2> QED
    BY <2>1, <2>2, <2>3
<1> DEFINE flat == FlattenSeq(parts)
<1>9. ReadConstraints(s) = flat \o rest
  BY DEF ReadConstraints
<1> HIDE DEF parts, rest
<1>10. flat \in Seq(parsedAll) /\ Range(flat) = UNION {Range(parts[k]) : k \in DOMAIN parts}
  <2> HIDE DEF parsedAll
  <2> QED  BY <1>7, FlattenFacts
<1> HIDE DEF flat, parsedAll
<1>11. /\ flat \o rest \in Seq(parsedAll)
       /\ \A x : x \in Range(flat \o rest) <=> x \in Range(flat) \/ x \in Range(rest)
  BY <1>8, <1>10, ConcatList
<1>12. ASSUME NEW x \in parsedAll PROVE x \in Range(flat \o rest)
  <2>1. PICK c \in all : x = AsParsed(T, c)
    BY <1>12 DEF parsedAll
  <2>2. CASE \E k \in DOMAIN s.columns : \E l \in DOMAIN s.columns[k].inline : c = At(k, l)
    <3>1. PICK k \in DOMAIN s.columns : \E l \in DOMAIN s.columns[k].inline : c = At(k, l)
      BY <2>2
    <3>2. PICK l \in DOMAIN s.columns[k].inline : c = At(k, l)
      BY <3>1
    <3>3. x \in Range(parts[k])
      BY <1>6, <1>7, <2>1, <3>2 DEF Range
    <3> QED
      BY <1>7, <1>10, <1>11, <3>3
  <2>3. CASE \E k \in DOMAIN s.constraints : c = s.constraints[k]
    BY <1>6, <1>8, <1>11, <2>1, <2>3 DEF Range
  <2> HIDE DEF all
  <2> QED
    BY <1>4, <2>2, <2>3
<1>13. Range(flat \o rest) = parsedAll
  <2>1. Range(flat \o rest) \subseteq parsedAll
    BY <1>11 DEF Range
  <2> QED
    BY <1>12, <2>1
<1> QED
  BY <1>5, <1>9, <1>11, <1>13 DEF parsedAll

\* It has them all when there is a case for the type of each.
LEMMA AllParsed ==
  ASSUME Distinct, NEW s \in menu, IsStatement(s), ~HasUnsupported(s), s.kind = "create_table"
  PROVE  /\ \A c \in WrittenConstraints(s) : IsConstraint(c)
         /\ ParsedConstraints(s) \in Seq({AsParsed(s.table, c) : c \in WrittenConstraints(s)})
         /\ Range(ParsedConstraints(s)) = {AsParsed(s.table, c) : c \in WrittenConstraints(s)}
<1> DEFINE parsedAll == {AsParsed(s.table, c) : c \in WrittenConstraints(s)}
           read == ReadConstraints(s)
           kept == {k \in DOMAIN read : IsSupported(read[k])}
<1>1. /\ \A c \in WrittenConstraints(s) : IsConstraint(c)
      /\ read \in Seq(parsedAll) /\ Range(read) = parsedAll
  BY AllRead
<1>2. \A k \in DOMAIN read : IsSupported(read[k])
  BY DEF HasUnsupported, Range
<1>3. ParsedConstraints(s) = Select(read, kept)
  BY DEF ParsedConstraints
<1>4. kept \cap DOMAIN read = DOMAIN read
  BY <1>2
<1> HIDE DEF read, kept, parsedAll
<1>5. /\ Select(read, kept) \in Seq(parsedAll)
      /\ Range(Select(read, kept)) = {read[k] : k \in kept \cap DOMAIN read}
  <2>1. read \in Seq(parsedAll)
    BY <1>1
  <2> QED
    BY ONLY <2>1, SelectList
<1>6. Range(Select(read, kept)) = Range(read)
  BY <1>4, <1>5 DEF Range
<1> QED
  BY <1>1, <1>3, <1>5, <1>6 DEF parsedAll

LEMMA CreatedHeld ==
  ASSUME Distinct, NEW s \in menu, IsStatement(s), ~HasUnsupported(s), s.kind = "create_table", NEW g
  PROVE  ConstraintsHeld(menu, g, s.table, WithConstraints(<<>>, ParsedConstraints(s)),
                         WrittenConstraints(s))
<1> DEFINE T == s.table
           all == WrittenConstraints(s)
           list == ParsedConstraints(s)
           held == WithConstraints(<<>>, list)
<1>1. /\ \A c \in all : IsConstraint(c)
      /\ list \in Seq({AsParsed(T, c) : c \in all})
      /\ Range(list) = {AsParsed(T, c) : c \in all}
  BY AllParsed
<1>2. Written(s) = all
  BY DEF Written
<1>3. \A c \in all :
        /\ AsParsed(T, c).name = KeyOf(T, c) /\ AsParsed(T, c).type = c.type
        /\ AsParsed(T, c).columns = c.columns /\ AsParsed(T, c).rest = c.rest
  <2>1. \A c \in all : c.rest \notin Unreadable
    BY <1>2 DEF Distinct
  <2> QED
    BY <1>1, <2>1, ParsedFacts
<1>4. \A c, d \in all : KeyOf(T, c) = KeyOf(T, d) => c = d
  <2> SUFFICES ASSUME NEW c \in all, NEW d \in all, KeyOf(T, c) = KeyOf(T, d), c # d PROVE FALSE
    OBVIOUS
  <2>1. ShareName(T, c, d)
    BY DEF ShareName, KeyOf
  <2> QED
    BY <1>2, <2>1 DEF Distinct
<1>5. \A c \in all : IsFrom(menu, T, c)
  BY <1>2 DEF IsFrom
<1> HIDE DEF all, list, T
<1>6. DOMAIN list = 1..Len(list) /\ Len(list) \in Nat
  BY <1>1
<1>7. \A k \in DOMAIN list : \E c \in all : list[k] = AsParsed(T, c)
  <2>1. \A k \in DOMAIN list : list[k] \in Range(list)
    BY DEF Range
  <2> QED
    BY <1>1, <2>1
<1>8. \A c \in all : \E k \in DOMAIN list : list[k] = AsParsed(T, c)
  <2>1. \A c \in all : AsParsed(T, c) \in Range(list)
    BY <1>1
  <2> QED
    BY <2>1 DEF Range
<1>9. /\ DOMAIN held = NamesOf(list)
      /\ \A n \in NamesOf(list) : held[n] = list[LastNamed(list, n)]
  BY DEF WithConstraints
<1> HIDE DEF held
<1>10. ASSUME NEW n \in DOMAIN held
       PROVE  \E c \in all : KeyOf(T, c) = n /\ held[n] = AsParsed(T, c)
  <2>1. LastNamed(list, n) \in DOMAIN list /\ list[LastNamed(list, n)].name = n
    BY <1>6, <1>9, LastNamedIsOne
  <2>2. PICK c \in all : list[LastNamed(list, n)] = AsParsed(T, c)
    BY <1>7, <2>1
  <2> QED
    BY <1>3, <1>9, <2>1, <2>2
<1>11. ASSUME NEW c \in all
       PROVE  KeyOf(T, c) \in DOMAIN held /\ held[KeyOf(T, c)] = AsParsed(T, c)
  <2>1. PICK k \in DOMAIN list : list[k] = AsParsed(T, c)
    BY <1>8
  <2>2. KeyOf(T, c) \in DOMAIN held
    BY <1>3, <1>9, <2>1 DEF NamesOf
  <2> QED
    BY <1>4, <1>10, <2>2
<1>12. ASSUME NEW c \in all
       PROVE  /\ held[KeyOf(T, c)].type = c.type
              /\ Alike(g, T, held[KeyOf(T, c)], c)
  BY <1>3, <1>11, NamedKey DEF Alike
<1> HIDE DEF AsParsed
<1>13. ConstraintsHeld(menu, g, T, held, all)
  BY <1>1, <1>4, <1>5, <1>10, <1>11, <1>12 DEF ConstraintsHeld
<1> QED
  BY <1>13 DEF T, all, list, held

----------------------------------------------------------------------------
(* Every statement.                                                        *)

\* No name is found again, and one that a column loses is noted.
LEMMA GoneGrows ==
  ASSUME NEW s, Taken(s)
  PROVE  /\ gone \subseteq gone'
         /\ s.kind \in {"drop_column", "rename_column"} => <<s.table, s.name>> \in gone'
BY DEF Taken, Statement

\* At most one table has other ones.
LEMMA OneTableHeld ==
  ASSUME PartsHeld, menu' = menu, gone \subseteq gone', NEW T, DOMAIN tables' = DOMAIN tables \cup {T},
         \A u \in DOMAIN tables \ {T} :
           tables'[u] = tables[u] /\ catalog'.tables[u] = catalog.tables[u],
         ConstraintsHeld(menu, gone', T, tables'[T].constraints, catalog'.tables[T].constraints),
         IndexesHeld(gone', T, tables'[T].indexes, catalog'.tables[T].indexes)
  PROVE  PartsHeld'
<1> SUFFICES ASSUME NEW u \in DOMAIN tables'
             PROVE  /\ ConstraintsHeld(menu, gone', u, tables'[u].constraints,
                                       catalog'.tables[u].constraints)
                    /\ IndexesHeld(gone', u, tables'[u].indexes, catalog'.tables[u].indexes)
  BY DEF PartsHeld, Held
<1>1. CASE u = T
  BY <1>1
<1>2. CASE u # T
  <2>1. u \in DOMAIN tables /\ tables'[u] = tables[u] /\ catalog'.tables[u] = catalog.tables[u]
    BY <1>2
  <2>2. /\ ConstraintsHeld(menu, gone, u, tables[u].constraints, catalog.tables[u].constraints)
        /\ IndexesHeld(gone, u, tables[u].indexes, catalog.tables[u].indexes)
    BY <2>1 DEF PartsHeld, Held
  <2>3. /\ ConstraintsHeld(menu, gone', u, tables[u].constraints, catalog.tables[u].constraints)
        /\ IndexesHeld(gone', u, tables[u].indexes, catalog.tables[u].indexes)
    BY <2>2, HeldMore
  <2> QED
    BY <2>1, <2>3
<1> QED
  BY <1>1, <1>2

LEMMA RestHeld ==
  ASSUME NEW s, Taken(s), Careful, Accepted, PartsHeld, Resting(s)
  PROVE  PartsHeld'
<1>1. tables' = tables /\ catalog'.tables = catalog.tables
  BY RestLeaves
<1>2. menu' = menu /\ gone' = gone
  BY DEF Taken, Statement, Resting
<1> QED
  BY <1>1, <1>2 DEF PartsHeld, Held

LEMMA CreateHeld ==
  ASSUME NEW s, Taken(s), Careful, Distinct, PartsHeld, s.kind = "create_table"
  PROVE  PartsHeld'
<1> DEFINE T == s.table
<1>1. /\ menu' = menu /\ DOMAIN tables' = DOMAIN tables \cup {T}
      /\ tables'[T].indexes = <<>>
      /\ tables'[T].constraints = WithConstraints(<<>>, ParsedConstraints(s))
      /\ catalog'.tables[T] = CreatedTable(s)
      /\ \A u \in DOMAIN tables \ {T} :
           tables'[u] = tables[u] /\ catalog'.tables[u] = catalog.tables[u]
  BY TableCreated
<1>2. catalog'.tables[T].constraints = WrittenConstraints(s) /\ catalog'.tables[T].indexes = {}
  BY <1>1 DEF CreatedTable
<1>3. ConstraintsHeld(menu, gone', T, tables'[T].constraints, catalog'.tables[T].constraints)
  BY <1>1, <1>2, CreatedHeld DEF Taken
<1>4. IndexesHeld(gone', T, tables'[T].indexes, catalog'.tables[T].indexes)
  BY <1>1, <1>2 DEF IndexesHeld
<1> HIDE DEF T
<1> QED
  BY <1>1, <1>3, <1>4, GoneGrows, OneTableHeld

LEMMA AlterHeld ==
  ASSUME NEW s, Taken(s), Careful, Distinct, Accepted, PartsHeld,
         Altering(s), ~Skipped(s, catalog)
  PROVE  PartsHeld'
<1> DEFINE T == s.table
           old == tables[T]
           new == tables'[T]
           cat == catalog.tables[T]
           cat2 == catalog'.tables[T]
<1>1. /\ s \in menu /\ menu' = menu /\ IsStatement(s) /\ Apply(Handle(s)) /\ Handle(s).kind = s.kind
      /\ T \in DOMAIN tables /\ DOMAIN tables = DOMAIN catalog.tables
      /\ AlterLegal(s, cat) /\ Matches(heap, old, cat) /\ cat2 = Altered(s, cat)
      /\ \A u \in DOMAIN catalog.tables \ {T} : catalog'.tables[u] = catalog.tables[u]
  BY AlterFacts
<1>2. AlteredPgTo(s, cat, cat2)
  BY <1>1, AlteredPg DEF Matches
<1>3. /\ gone \subseteq gone'
      /\ s.kind \in {"drop_column", "rename_column"} => <<T, s.name>> \in gone'
  BY GoneGrows
<1>4. /\ ConstraintsHeld(menu, gone, T, old.constraints, cat.constraints)
      /\ IndexesHeld(gone, T, old.indexes, cat.indexes)
  BY <1>1 DEF PartsHeld, Held
<1>5. /\ ConstraintsHeld(menu, gone', T, old.constraints, cat.constraints)
      /\ IndexesHeld(gone', T, old.indexes, cat.indexes)
  BY <1>3, <1>4, HeldMore
<1>6. DOMAIN tables' = DOMAIN tables /\ \A u \in DOMAIN tables \ {T} : tables'[u] = tables[u]
  <2>1. CASE s.kind = "create_index"
    BY <2>1, IndexCreated
  <2>2. CASE s.kind # "create_index"
    BY <2>2, AlteredTable
  <2> QED
    BY <2>1, <2>2
<1>7. s.kind # "create_index" => AlteredTo(s, old, new)
  BY AlteredTable
<1> DEFINE Goal == /\ ConstraintsHeld(menu, gone', T, new.constraints, cat2.constraints)
                   /\ IndexesHeld(gone', T, new.indexes, cat2.indexes)
<1>8. ASSUME s.kind = "create_index"
      PROVE  Goal
  <2>1. PICK x : /\ x.name = s.index.name /\ x.columns = s.index.columns /\ x.rest = s.index.rest
                 /\ new.indexes = Put(old.indexes, s.index.name, x)
    BY <1>8, IndexCreated
  <2>2. /\ IsIndex(s.index) /\ s.index.name # <<>> /\ s.index.name \notin DOMAIN old.indexes
        /\ new.constraints = old.constraints
    BY <1>8, IndexCreated
  <2>3. cat2.constraints = cat.constraints /\ cat2.indexes = cat.indexes \cup {s.index}
    BY <1>2, <1>8 DEF AlteredPgTo
  <2> HIDE DEF T, old, new, cat, cat2
  <2>4. IndexesHeld(gone', T, Put(old.indexes, s.index.name, x), cat.indexes \cup {s.index})
    BY <1>5, <2>1, <2>2, IndexAdded
  <2> QED
    BY <1>5, <2>1, <2>2, <2>3, <2>4
<1>9. ASSUME s.kind = "drop_column"
      PROVE  Goal
  <2>1. new.constraints = old.constraints /\ new.indexes = old.indexes
    BY <1>7, <1>9 DEF AlteredTo
  <2>2. /\ cat2.constraints = {c \in cat.constraints : s.name \notin Range(c.columns)}
        /\ cat2.indexes = {x \in cat.indexes : s.name \notin Range(x.columns)}
    BY <1>2, <1>9 DEF AlteredPgTo
  <2> HIDE DEF T, old, new, cat, cat2
  <2>3. /\ \A c : c \in cat2.constraints <=> c \in cat.constraints /\ s.name \notin Range(c.columns)
        /\ \A x : x \in cat2.indexes <=> x \in cat.indexes /\ s.name \notin Range(x.columns)
    BY <2>2
  <2>4. /\ ConstraintsHeld(menu, gone', T, old.constraints, cat2.constraints)
        /\ IndexesHeld(gone', T, old.indexes, cat2.indexes)
    BY <1>3, <1>4, <1>9, <2>3, ColumnDropped
  <2> QED
    BY <2>1, <2>4
<1>10. ASSUME s.kind = "rename_column"
       PROVE  Goal
  <2>1. new.constraints = old.constraints /\ new.indexes = old.indexes
    BY <1>7, <1>10 DEF AlteredTo
  <2>2. /\ cat2.constraints = {Followed(c, s.name, s.to) : c \in cat.constraints}
        /\ cat2.indexes = {Followed(x, s.name, s.to) : x \in cat.indexes}
    BY <1>2, <1>10 DEF AlteredPgTo
  <2>3. HasRename(menu) /\ HasKind("rename_column")
    BY <1>1, <1>10 DEF HasRename, HasKind
  <2>4. ASSUME NEW c \in cat.constraints PROVE c.name # <<>> \/ IsPrimaryKey(c)
    <3>1. IsFrom(menu, T, c)
      BY <1>4 DEF ConstraintsHeld
    <3>2. PICK r \in menu : \E o \in Written(r) : o.name = c.name /\ o.type = c.type
      BY <3>1 DEF IsFrom
    <3>3. PICK o \in Written(r) : o.name = c.name /\ o.type = c.type
      BY <3>2
    <3>4. o.name # <<>> \/ IsPrimaryKey(o)
      BY <2>3 DEF Distinct
    <3> QED
      BY <3>3, <3>4 DEF IsPrimaryKey
  <2> HIDE DEF T, old, new, cat, cat2
  <2>5. /\ AllFollowed(cat2.constraints, cat.constraints, s.name, s.to)
        /\ AllFollowed(cat2.indexes, cat.indexes, s.name, s.to)
    BY <2>2 DEF AllFollowed
  <2>6. Lasting(cat.constraints)
    BY <2>4 DEF Lasting
  <2>7. /\ ConstraintsHeld(menu, gone', T, old.constraints, cat2.constraints)
        /\ IndexesHeld(gone', T, old.indexes, cat2.indexes)
    BY <1>3, <1>4, <1>10, <2>3, <2>5, <2>6, ColumnRenamed
  <2> QED
    BY <2>1, <2>7
<1>11. ASSUME s.kind = "add_constraint"
       PROVE  Goal
  <2> DEFINE c == s.constraint
             p == AsParsed(T, c)
  <2>1. new.constraints = Put(old.constraints, p.name, p) /\ new.indexes = old.indexes
    BY <1>7, <1>11 DEF AlteredTo
  <2>2. cat2.constraints = cat.constraints \cup {c} /\ cat2.indexes = cat.indexes
    BY <1>2, <1>11 DEF AlteredPgTo
  <2>3. c \in Written(s) /\ IsConstraint(c)
    BY <1>1, <1>11 DEF Written, IsStatement
  <2>4. p.name = KeyOf(T, c) /\ p.type = c.type /\ p.columns = c.columns /\ p.rest = c.rest
    <3>1. c.rest \notin Unreadable
      BY <1>1, <2>3 DEF Distinct
    <3> HIDE DEF c
    <3> QED
      BY <2>3, <3>1, ParsedFacts
  <2>5. /\ c \notin cat.constraints
        /\ c.name # <<>> => ~Named(cat.constraints, c.name)
        /\ IsPrimaryKey(c) => ~\E d \in cat.constraints : IsPrimaryKey(d)
    BY <1>1, <1>11 DEF AlterLegal, ConstraintLegal
  <2>6. IsFrom(menu, T, c)
    BY <1>1, <2>3 DEF IsFrom
  <2>7. T = s.table
    OBVIOUS
  <2> HIDE DEF T, old, new, cat, cat2, c, p
  <2>8. \A d \in cat.constraints : KeyOf(T, d) # KeyOf(T, c)
    BY <1>1, <1>4, <2>3, <2>5, <2>7, NewKey
  <2>9. ConstraintsHeld(menu, gone', T, Put(old.constraints, KeyOf(T, c), p), cat.constraints \cup {c})
    BY <1>5, <2>3, <2>4, <2>6, <2>8, ConstraintAdded
  <2> QED
    BY <1>5, <2>1, <2>2, <2>4, <2>9
<1>12. ASSUME s.kind = "drop_constraint"
       PROVE  Goal
  <2>1. /\ new.constraints = Without(old.constraints, s.constraintName)
        /\ new.indexes = old.indexes
    BY <1>7, <1>12 DEF AlteredTo
  <2>2. /\ cat2.constraints = {c \in cat.constraints : c.name # s.constraintName}
        /\ cat2.indexes = cat.indexes
    BY <1>2, <1>12 DEF AlteredPgTo
  <2>3. s.constraintName # <<>> /\ Named(cat.constraints, s.constraintName)
    BY <1>1, <1>12 DEF IsStatement, AlterLegal
  <2> HIDE DEF T, old, new, cat, cat2
  <2>4. ConstraintsHeld(menu, gone', T, Without(old.constraints, s.constraintName),
                        {c \in cat.constraints : c.name # s.constraintName})
    BY <1>5, <2>3, ConstraintDropped
  <2> QED
    BY <1>5, <2>1, <2>2, <2>4
<1>13. ASSUME s.kind = "add_column" \/ Changing(s)
       PROVE  Goal
  <2>1. new.constraints = old.constraints /\ new.indexes = old.indexes
    BY <1>7, <1>13 DEF AlteredTo, Changing
  <2>2. s.kind = "add_column" => s.column.inline = <<>>
    BY <1>1 DEF Distinct
  <2> HIDE DEF T, old, new, cat, cat2
  <2>3. cat2.constraints = cat.constraints /\ cat2.indexes = cat.indexes
    BY <1>2, <1>13, <2>2 DEF AlteredPgTo
  <2> QED
    BY <1>5, <2>1, <2>3
<1>14. \/ s.kind \in {"create_index", "drop_column", "rename_column", "add_constraint",
                      "drop_constraint", "add_column"}
       \/ Changing(s)
  BY <1>1 DEF Apply, Altering, Changing
<1>15. Goal
  <2> HIDE DEF Goal
  <2> QED
    BY <1>8, <1>9, <1>10, <1>11, <1>12, <1>13, <1>14
<1>16. DOMAIN tables' = DOMAIN tables \cup {T}
  BY <1>1, <1>6
<1> HIDE DEF T
<1> QED
  BY <1>1, <1>3, <1>6, <1>15, <1>16, OneTableHeld

LEMMA HeldStep ==
  ASSUME NEW s, Taken(s), Careful, Distinct, Accepted, PartsHeld
  PROVE  PartsHeld'
<1>1. CASE s.kind = "create_table"
  BY <1>1, CreateHeld
<1>2. CASE Resting(s)
  BY <1>2, RestHeld
<1>3. CASE Altering(s) /\ ~Skipped(s, catalog)
  BY <1>3, AlterHeld
<1>4. CASE Altering(s) /\ Skipped(s, catalog) /\ s.kind # "create_index"
  BY <1>4 DEF Altering, Skipped, Taken, Steady
<1> QED
  BY <1>1, <1>2, <1>3, <1>4 DEF Altering, Resting

----------------------------------------------------------------------------
(* The invariant.                                                          *)

LEMMA InitInv ==
  ASSUME Init
  PROVE  IInv
<1>1. /\ heap = <<>> /\ tables = <<>> /\ outcome = "ok" /\ menu \in Menus
      /\ catalog = EmptyCatalog
  BY DEF Init, InitSchema
<1>2. DOMAIN tables = {} /\ heap \in Seq(Columns) /\ Len(heap) = 0
  BY <1>1
<1>3. TypeOK
  BY <1>1, <1>2, MaxColumnsAssumption DEF TypeOK, SchemaTyped, Outcomes
<1>4. /\ DOMAIN catalog = {"namespaces", "tables", "objects"} /\ DOMAIN catalog.tables = {}
  BY <1>1 DEF EmptyCatalog
<1>5. Structure
  BY <1>2, <1>4 DEF Structure, NotShared
<1>6. Accepted
  <2>1. outcome = "ok" /\ objects = <<>> /\ catalog.objects = <<>>
    BY <1>1 DEF Init, InitSchema, EmptyCatalog
  <2> QED
    BY <1>2, <2>1 DEF Accepted
<1>7. PartsHeld
  BY <1>2 DEF PartsHeld
<1> QED
  BY <1>1, <1>3, <1>5, <1>6, <1>7 DEF IInv

LEMMA SameDistinct ==
  ASSUME menu' = menu
  PROVE  Distinct' <=> Distinct
BY DEF Distinct, HasKind

LEMMA StatementInv ==
  ASSUME IInv, NEW s \in menu, Statement(s)
  PROVE  IInv'
<1>1. /\ menu \in Menus /\ menu' = menu /\ IsStatement(s) /\ ~HasUnsupported(s) /\ SchemaTyped
      /\ Len(heap') <= MaxColumns
  BY MenusAssumption DEF IInv, TypeOK, Statement
<1>2. TypeOK'
  <2>1. IsMutation(Handle(s)) /\ Apply(Handle(s))
    BY <1>1, HandleTyped DEF Statement
  <2>2. SchemaTyped' /\ outcome' \in Outcomes
    BY <1>1, <2>1, ApplyTyped
  <2> QED
    BY <1>1, <2>2 DEF TypeOK
<1>3. Steady' <=> Steady
  BY <1>1 DEF Steady, HasKind
<1>4. ASSUME Steady PROVE Structure'
  <2>1. Taken(s)
    BY <1>1, <1>4 DEF Taken, IInv
  <2>2. CASE s.kind = "create_table"
    BY <2>1, <2>2, CreateSkipped, CreateStep
  <2>3. CASE s.kind = "add_column"
    BY <2>1, <2>3, AddColumnStep
  <2>4. CASE s.kind = "drop_column"
    BY <2>1, <2>4, DropColumnStep
  <2>5. CASE Changing(s)
    BY <2>1, <2>5, ChangeStep
  <2>6. CASE s.kind = "rename_column"
    BY <2>1, <2>6, RenameStep
  <2>7. CASE Parts(s)
    BY <2>1, <2>7, PartsStep
  <2>8. \/ s.kind \in {"create_table", "add_column", "drop_column", "rename_column"}
        \/ Changing(s) \/ Parts(s)
    <3>1. Apply(Handle(s)) /\ Handle(s).kind = s.kind
      BY <1>1, HandleTyped DEF Statement
    <3> QED
      BY <3>1 DEF Apply, Changing, Parts
  <2> QED
    BY <2>2, <2>3, <2>4, <2>5, <2>6, <2>7, <2>8
<1>5. Careful' <=> Careful
  BY <1>1 DEF Careful, HasKind
<1>6. ASSUME Steady, Careful PROVE Accepted'
  <2>1. Taken(s) /\ Accepted
    BY <1>1, <1>6 DEF Taken, IInv
  <2> QED
    BY <1>6, <2>1, AcceptedStep
<1>7. Distinct' <=> Distinct
  BY <1>1, SameDistinct
<1>8. ASSUME Steady, Careful, Distinct PROVE PartsHeld'
  <2>1. Taken(s) /\ Accepted /\ PartsHeld
    BY <1>1, <1>8 DEF Taken, IInv
  <2> QED
    BY <1>8, <2>1, HeldStep
<1> QED
  BY <1>1, <1>2, <1>3, <1>4, <1>5, <1>6, <1>7, <1>8 DEF IInv

LEMMA StutterInv ==
  ASSUME IInv, UNCHANGED vars
  PROVE  IInv'
<1>1. /\ heap' = heap /\ tables' = tables /\ outcome' = outcome /\ menu' = menu
      /\ catalog' = catalog /\ objects' = objects /\ gone' = gone
  BY DEF vars
<1>2. TypeOK'
  BY <1>1 DEF IInv, TypeOK, SchemaTyped
<1>3. Steady' <=> Steady
  BY <1>1 DEF Steady, HasKind
<1>4. Structure => Structure'
  BY <1>1, SameColumns
<1>5. (Careful' <=> Careful) /\ (Accepted => Accepted')
  BY <1>1 DEF Careful, HasKind, Accepted
<1>6. (Distinct' <=> Distinct) /\ (PartsHeld => PartsHeld')
  BY <1>1, SameDistinct DEF PartsHeld, Held
<1> QED
  BY <1>1, <1>2, <1>3, <1>4, <1>5, <1>6 DEF IInv

LEMMA Inductive == Spec => []IInv
<1>1. Init => IInv
  BY InitInv
<1>2. IInv /\ [Next]_vars => IInv'
  BY StatementInv, StutterInv DEF Next
<1> QED
  BY <1>1, <1>2, PTL DEF Spec

\* Whatever the script, every pointer of a table leads to a column that has been made,
\* and every mutation ends with one of the known outcomes (schema.go, table.go).
THEOREM ScriptTyped == Spec => []TypeOK
<1>1. IInv => TypeOK
  BY DEF IInv
<1> QED
  BY <1>1, Inductive, PTL

\* The columns of a list have names of their own.
LEMMA ListOfTable ==
  ASSUME NEW h, NEW table, NEW cat, Matches(h, table, cat), NEW p \in DOMAIN table.columns
  PROVE  /\ h[table.columns[p]].name \in DOMAIN table.byName
         /\ table.byName[h[table.columns[p]].name] = table.columns[p]
<1>1. table.columns[p] \in Range(table.byName)
  BY DEF Matches, Linked, Range
<1>2. PICK n \in DOMAIN table.byName : table.byName[n] = table.columns[p]
  BY <1>1 DEF Range
<1>3. h[table.byName[n]].name = n
  BY DEF Matches, Linked
<1> QED
  BY <1>2, <1>3

LEMMA NamesOfTable ==
  ASSUME NEW h, NEW table, NEW cat, Matches(h, table, cat)
  PROVE  DOMAIN table.byName = {h[table.columns[p]].name : p \in DOMAIN table.columns}
<1>1. ASSUME NEW n \in DOMAIN table.byName
      PROVE  \E p \in DOMAIN table.columns : h[table.columns[p]].name = n
  <2>1. table.byName[n] \in Range(table.columns)
    BY DEF Matches, Linked, Range
  <2>2. PICK p \in DOMAIN table.columns : table.columns[p] = table.byName[n]
    BY <2>1 DEF Range
  <2> QED
    BY <2>2 DEF Matches, Linked
<1>2. \A p \in DOMAIN table.columns : h[table.columns[p]].name \in DOMAIN table.byName
  BY ListOfTable
<1> QED
  BY <1>1, <1>2

\* List, map and index of every table agree, however long the script is, provided that no
\* column is both renamed and dropped by it and no ADD COLUMN has an IF NOT EXISTS
\* (table.go:81, rename_column_mutation.go:48).
THEOREM ListsAndMapsAgree == Spec => [](Steady => ListMapIndexAgree)
<1>1. ASSUME Structure, NEW t \in DOMAIN tables
      PROVE  LET table == tables[t]
                 Name(p) == heap[table.columns[p]].name
             IN  /\ DOMAIN table.byName = {Name(p) : p \in DOMAIN table.columns}
                 /\ \A p \in DOMAIN table.columns : table.byName[Name(p)] = table.columns[p]
                 /\ ~HasKind("rename_column") =>
                      /\ DOMAIN table.index = DOMAIN table.byName
                      /\ \A p \in DOMAIN table.columns : table.index[Name(p)] = p
  <2> DEFINE table == tables[t]
             Name(p) == heap[table.columns[p]].name
  <2>1. Matches(heap, table, catalog.tables[t]) /\ (~HasKind("rename_column") => Indexed(table))
    BY <1>1 DEF Structure
  <2>2. DOMAIN table.byName = {Name(p) : p \in DOMAIN table.columns}
    BY <2>1, NamesOfTable
  <2>3. \A p \in DOMAIN table.columns :
          Name(p) \in DOMAIN table.byName /\ table.byName[Name(p)] = table.columns[p]
    BY <2>1, ListOfTable
  <2>4. ASSUME ~HasKind("rename_column"), NEW p \in DOMAIN table.columns
        PROVE  table.index[Name(p)] = p
    <3>1. /\ table.index[Name(p)] \in DOMAIN table.columns
          /\ table.columns[table.index[Name(p)]] = table.columns[p]
      BY <2>1, <2>3, <2>4 DEF Indexed
    <3>2. IsInjective(table.columns)
      BY <2>1 DEF Matches, Linked
    <3> QED
      BY <3>1, <3>2 DEF IsInjective
  <2> QED
    BY <2>1, <2>2, <2>3, <2>4 DEF Indexed
<1>2. Structure => ListMapIndexAgree
  BY <1>1 DEF ListMapIndexAgree
<1>3. IInv => (Steady => ListMapIndexAgree)
  BY <1>2 DEF IInv
<1> QED
  BY <1>3, Inductive, PTL

\* The columns that Clone leaves are those that the map had.
LEMMA ClonedColumnsOfTable ==
  ASSUME NEW t, TableTyped(tables[t], Len(heap)), NEW cat, Matches(heap, tables[t], cat)
  PROVE  ClonedColumns(t) = [n \in DOMAIN tables[t].byName |-> heap[tables[t].byName[n]]]
<1> DEFINE table == tables[t]
           columns == [k \in DOMAIN table.columns |-> heap[table.columns[k]]]
<1>1. Len(table.columns) \in Nat /\ DOMAIN table.columns = 1..Len(table.columns)
  BY DEF TableTyped
<1>2. Len(columns) \in Nat /\ DOMAIN columns = 1..Len(columns) /\ DOMAIN columns = DOMAIN table.columns
  BY <1>1
<1>3. NamesOf(columns) = DOMAIN table.byName
  <2>1. \A p \in DOMAIN columns : columns[p].name = heap[table.columns[p]].name
    BY <1>2
  <2>2. NamesOf(columns) = {heap[table.columns[p]].name : p \in DOMAIN table.columns}
    <3> HIDE DEF columns
    <3> QED  BY <1>2, <2>1 DEF NamesOf
  <2>3. DOMAIN table.byName = {heap[table.columns[p]].name : p \in DOMAIN table.columns}
    <3> HIDE DEF table
    <3> QED  BY NamesOfTable DEF table
  <2> QED
    BY <2>2, <2>3
<1>4. ASSUME NEW n \in DOMAIN table.byName
      PROVE  columns[LastNamed(columns, n)] = heap[table.byName[n]]
  <2> DEFINE k == LastNamed(columns, n)
  <2>1. k \in DOMAIN columns /\ columns[k].name = n
    <3> HIDE DEF columns
    <3> QED  BY <1>2, <1>3, LastNamedIsOne
  <2> HIDE DEF k
  <2>2. columns[k] = heap[table.columns[k]] /\ k \in DOMAIN table.columns
    BY <2>1
  <2>3. table.byName[n] = table.columns[k]
    BY <2>1, <2>2, ListOfTable
  <2> QED
    BY <2>2, <2>3 DEF k
<1>5. ClonedColumns(t) = [n \in NamesOf(columns) |-> columns[LastNamed(columns, n)]]
  BY DEF ClonedColumns
<1> HIDE DEF columns
<1> QED
  BY <1>3, <1>4, <1>5

\* There are as many in the list.
LEMMA CountOfTable ==
  ASSUME NEW h, NEW table, NEW cat, Matches(h, table, cat),
         Len(table.columns) \in Nat, DOMAIN table.columns = 1..Len(table.columns)
  PROVE  Len(table.columns) = Cardinality(DOMAIN table.byName)
<1> DEFINE S == 1..Len(table.columns)
           names == DOMAIN table.byName
           f == [p \in S |-> h[table.columns[p]].name]
<1>1. \A p \in S : f[p] \in names /\ table.byName[f[p]] = table.columns[p]
  BY ListOfTable
<1>2. f \in Injection(S, names)
  <2>1. f \in [S -> names]
    BY <1>1
  <2>2. \A p, q \in S : f[p] = f[q] => p = q
    <3>1. IsInjective(table.columns)
      BY DEF Matches, Linked
    <3> HIDE DEF f
    <3> QED
      BY <1>1, <3>1 DEF IsInjective
  <2> HIDE DEF f
  <2> QED
    BY <2>1, <2>2 DEF Injection, IsInjective
<1>3. f \in Surjection(S, names)
  <2>1. \A n \in names : \E p \in S : f[p] = n
    <3>1. names = {h[table.columns[p]].name : p \in DOMAIN table.columns}
      BY NamesOfTable
    <3>2. \A n \in names : \E p \in DOMAIN table.columns : h[table.columns[p]].name = n
      BY <3>1
    <3> QED
      BY <3>2
  <2>2. f \in [S -> names]
    BY <1>1
  <2> HIDE DEF f
  <2> QED
    BY <2>1, <2>2 DEF Surjection
<1>4. IsFiniteSet(S) /\ Cardinality(S) = Len(table.columns)
  BY FS_Interval
<1> HIDE DEF S, names, f
<1>5. Cardinality(S) = Cardinality(names)
  BY <1>2, <1>3, <1>4, FS_Surjection
<1> QED
  BY <1>4, <1>5 DEF names

\* The comparison sees every column that PostgreSQL would have made, with its type,
\* default and nullability, and no other, however long the script is, unless it has one
\* of the statements that Steady and Plain name (mutation.go:98-346, table.go:72-95).
THEOREM ColumnsAreFaithful == Spec => [](Steady /\ Plain => ColumnsFaithful)
<1>1. ASSUME Structure, SchemaTyped, Plain, NEW t \in DOMAIN tables
      PROVE  /\ ComparedColumns(t) = catalog.tables[t].columns
             /\ Len(tables[t].columns) = Cardinality(DOMAIN catalog.tables[t].columns)
  <2> DEFINE cat == catalog.tables[t]
             byName == tables[t].byName
             cloned == ClonedColumns(t)
  <2>1. /\ Matches(heap, tables[t], cat) /\ Valued(heap, tables[t], cat)
        /\ TableTyped(tables[t], Len(heap))
    BY <1>1 DEF Structure, SchemaTyped
  <2>2. cloned = [n \in DOMAIN byName |-> heap[byName[n]]]
    BY <2>1, ClonedColumnsOfTable
  <2>3. ComparedColumns(t) = [n \in DOMAIN cloned |-> Compared(cloned[n])]
    BY DEF ComparedColumns, Compared
  <2>4. cat.columns = [n \in DOMAIN byName |-> Compared(heap[byName[n]])]
    BY <2>1 DEF Valued
  <2> HIDE DEF cloned, byName, cat
  <2>5. ComparedColumns(t) = cat.columns
    BY <2>2, <2>3, <2>4
  <2>6. Len(tables[t].columns) = Cardinality(DOMAIN byName)
    <3>1. Len(tables[t].columns) \in Nat /\ DOMAIN tables[t].columns = 1..Len(tables[t].columns)
      BY <2>1 DEF TableTyped
    <3> QED
      BY <2>1, <3>1, CountOfTable DEF byName
  <2>7. DOMAIN cat.columns = DOMAIN byName
    BY <2>4
  <2> QED
    BY <2>5, <2>6, <2>7 DEF cat
<1>2. Structure /\ SchemaTyped /\ Plain => ColumnsFaithful
  BY <1>1 DEF ColumnsFaithful, Structure
<1>3. IInv => (Steady /\ Plain => ColumnsFaithful)
  BY <1>2 DEF IInv, TypeOK
<1> QED
  BY <1>3, Inductive, PTL

\* A script that PostgreSQL accepts is parsed without an error, leaves no placeholder and
\* knows every object, however long it is, unless it has one of the statements that Steady
\* and Careful name (mutation.go:98-408, index_mutation.go:20).
THEOREM LegalScriptsAreAccepted == Spec => [](Steady /\ Careful => LegalIsAccepted)
<1>1. Structure => \A t \in DOMAIN tables : ~tables[t].placeholder
  BY DEF Structure, Matches
<1>2. IInv => (Steady /\ Careful => LegalIsAccepted)
  BY <1>1 DEF IInv, Accepted, LegalIsAccepted
<1> QED
  BY <1>2, Inductive, PTL

\* The properties of the tables say so.
LEMMA HeldIsFaithful ==
  ASSUME PartsHeld
  PROVE  PartsFaithful
<1> SUFFICES ASSUME NEW t \in DOMAIN tables
             PROVE  /\ \A c \in catalog.tables[t].constraints :
                         \E p \in Range(tables[t].constraints) : SameConstraint(t, p, c)
                    /\ \A p \in Range(tables[t].constraints) :
                         LeftBehind(t, p)
                           \/ \E c \in catalog.tables[t].constraints : SameConstraint(t, p, c)
                    /\ \A x \in catalog.tables[t].indexes :
                         \E y \in Range(tables[t].indexes) : SameIndex(t, y, x)
                    /\ \A y \in Range(tables[t].indexes) :
                         LeftBehind(t, y)
                           \/ \E x \in catalog.tables[t].indexes : SameIndex(t, y, x)
  BY DEF PartsFaithful
<1> DEFINE held == tables[t].constraints
           indexes == tables[t].indexes
<1>1. /\ ConstraintsHeld(menu, gone, t, held, catalog.tables[t].constraints)
      /\ IndexesHeld(gone, t, indexes, catalog.tables[t].indexes)
  BY DEF PartsHeld, Held
<1>2. \A p, c : /\ p.type = c.type /\ Alike(gone, t, p, c) => SameConstraint(t, p, c)
                /\ Alike(gone, t, p, c) => SameIndex(t, p, c)
                /\ Left(gone, t, p) <=> LeftBehind(t, p)
  BY DEF Alike, SameConstraint, SameIndex, Left, LeftBehind
<1>3. /\ \A p : p \in Range(held) <=> \E n \in DOMAIN held : p = held[n]
      /\ \A p : p \in Range(indexes) <=> \E n \in DOMAIN indexes : p = indexes[n]
  BY DEF Range
<1> HIDE DEF held, indexes
<1>4. \A c \in catalog.tables[t].constraints : \E p \in Range(held) : SameConstraint(t, p, c)
  BY <1>1, <1>2, <1>3 DEF ConstraintsHeld
<1>5. \A p \in Range(held) :
        LeftBehind(t, p) \/ \E c \in catalog.tables[t].constraints : SameConstraint(t, p, c)
  BY <1>1, <1>2, <1>3 DEF ConstraintsHeld
<1>6. \A x \in catalog.tables[t].indexes : \E y \in Range(indexes) : SameIndex(t, y, x)
  BY <1>1, <1>2, <1>3 DEF IndexesHeld
<1>7. \A y \in Range(indexes) :
        LeftBehind(t, y) \/ \E x \in catalog.tables[t].indexes : SameIndex(t, y, x)
  BY <1>1, <1>2, <1>3 DEF IndexesHeld
<1> QED
  BY <1>4, <1>5, <1>6, <1>7 DEF held, indexes

\* The parser has each constraint and each index that PostgreSQL would have, and no other
\* but on columns that have gone, however long the script is: what Steady, Careful and
\* Distinct name are the only statements that lose one or leave one behind
\* (mutation.go:85, 205, 363; create_table_handler.go:97; index_mutation.go:30).
THEOREM PartsAreFaithful == Spec => [](Steady /\ Careful /\ Distinct => PartsFaithful)
<1>1. IInv => (Steady /\ Careful /\ Distinct => PartsFaithful)
  BY HeldIsFaithful DEF IInv
<1> QED
  BY <1>1, Inductive, PTL
=============================================================================
