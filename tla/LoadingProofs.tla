--------------------------- MODULE LoadingProofs ---------------------------
(***************************************************************************)
(* Loading, for every project: whatever its statements are, in however     *)
(* many files, and whichever of them fail.  Strict loading is all or       *)
(* nothing, but for the statements that no handler makes anything of, and  *)
(* a statement that fails leaves what was there before.                    *)
(***************************************************************************)
EXTENDS Loading, ParsedSchemaProofs

\* What has become of the statements visited so far: each was applied, brought an error,
\* or was ignored.
Accounted ==
  \A k \in 1..visited : k \in applied \/ k \in errors \/ Ignored(Text[k].statement)

\* Where the load is tells how far it is: the statements are visited when all files
\* have been read, and what is returned without an error in strict loading is whole.
Progress ==
  /\ pc \in {"parsing", "visiting"} => files = project.files
  /\ pc # "done" => result = "none"
  /\ pc = "reading" => files = 0 \/ files < project.files
  /\ pc \in {"reading", "parsing"} => visited = 0 /\ errors = {}
  /\ Accounted
  /\ StrictIsWhole

\* Nothing but Projects is known of, and of that no more than the assumption.
IInv == project \in Projects /\ TypeOK /\ Progress

----------------------------------------------------------------------------
(* The text.                                                               *)

\* The entries of the text of a project.
Entries(p) == {[file |-> p.fileOf[k], statement |-> p.script[k]] : k \in DOMAIN p.script}

\* The text is a list of the statements of the project.
LEMMA TextTyped ==
  ASSUME NEW p \in Projects
  PROVE  TextOf(p) \in Seq(Entries(p))
<1> DEFINE entries == [k \in DOMAIN p.script |-> [file |-> p.fileOf[k], statement |-> p.script[k]]]
           Of(f) == Select(entries, {k \in DOMAIN p.script : p.fileOf[k] = f})
           parts == [f \in 1..p.files |-> Of(f)]
<1>1. p.files \in Nat /\ p.script \in Seq(Range(p.script))
  BY ProjectsAssumption
<1>2. DOMAIN p.script = 1..Len(p.script) /\ Len(p.script) \in Nat
  BY <1>1
<1>3. entries \in Seq(Entries(p))
  BY <1>2 DEF Entries
<1>4. \A f \in 1..p.files : Of(f) \in Seq(Entries(p))
  <2> HIDE DEF entries
  <2> QED  BY <1>3, SelectProperties
<1>5. parts \in Seq(Seq(Entries(p)))
  <2> DEFINE T == Seq(Entries(p))
  <2>1. \A f \in 1..p.files : Of(f) \in T
    BY <1>4
  <2> HIDE DEF Of, T
  <2>2. parts \in Seq(T)
    BY <1>1, <2>1
  <2> QED  BY <2>2 DEF T
<1>6. TextOf(p) = FlattenSeq(parts)
  BY DEF TextOf
<1> HIDE DEF parts
<1> QED
  BY <1>5, <1>6, FlattenList

\* Each has a statement that is one.
LEMMA TextProperties ==
  ASSUME project \in Projects
  PROVE  /\ Len(Text) \in Nat
         /\ DOMAIN Text = 1..Len(Text)
         /\ \A k \in 1..Len(Text) : IsStatement(Text[k].statement)
<1>1. Text \in Seq(Entries(project))
  BY TextTyped DEF Text
<1>2. \A e \in Entries(project) : IsStatement(e.statement)
  <2>1. \A k \in DOMAIN project.script : IsStatement(project.script[k])
    BY ProjectsAssumption DEF Range
  <2> QED
    BY <2>1 DEF Entries
<1> QED
  BY <1>1, <1>2

\* No file, no statement.
LEMMA NoText ==
  ASSUME project.files = 0
  PROVE  Len(Text) = 0
<1> DEFINE Of(f) ==
      Select([k \in DOMAIN project.script |->
                [file |-> project.fileOf[k], statement |-> project.script[k]]],
             {k \in DOMAIN project.script : project.fileOf[k] = f})
<1> DEFINE none == [f \in 1..0 |-> Of(f)]
<1>1. none = <<>>
  <2> HIDE DEF Of
  <2> QED  OBVIOUS
<1>2. Len(none) = 0
  BY <1>1
<1>3. Text = FlattenSeq(none)
  BY DEF Text, TextOf
<1>4. FlattenSeq(none) = none
  <2> HIDE DEF none
  <2> QED  BY <1>2 DEF FlattenSeq
<1> QED
  BY <1>2, <1>3, <1>4

----------------------------------------------------------------------------
(* The invariant.                                                          *)

LEMMA Initially == Init => IInv
<1> SUFFICES ASSUME Init PROVE IInv
  OBVIOUS
<1>1. project \in Projects /\ project.files \in Nat
  BY ProjectsAssumption DEF Init
<1>2. Len(Text) \in Nat
  BY <1>1, TextProperties
<1>3. SchemaTyped /\ outcome \in Outcomes
  BY DEF Init, InitSchema, SchemaTyped, Outcomes
<1>4. TypeOK
  BY <1>1, <1>2, <1>3 DEF Init, TypeOK
<1>5. Progress
  BY <1>1 DEF Init, Progress, StrictIsWhole, Accounted
<1> QED
  BY <1>1, <1>4, <1>5 DEF IInv

LEMMA Counted ==
  ASSUME IInv
  PROVE  /\ project.files \in Nat /\ files \in 0..project.files
         /\ Len(Text) \in Nat /\ visited \in 0..Len(Text)
         /\ applied \subseteq 1..visited /\ errors \subseteq 1..visited
         /\ DOMAIN Text = 1..Len(Text)
<1>1. project.files \in Nat
  BY ProjectsAssumption DEF IInv
<1>2. Len(Text) \in Nat
  BY TextProperties DEF IInv
<1>3. /\ files \in 0..project.files /\ visited \in 0..Len(Text)
      /\ applied \subseteq 1..visited /\ errors \subseteq 1..visited
  BY Zenon DEF IInv, TypeOK
<1>4. DOMAIN Text = 1..Len(Text)
  BY TextProperties DEF IInv
<1> QED
  BY <1>1, <1>2, <1>3, <1>4

\* One statement, whether there is a handler for it or not, and whether the handler
\* makes a mutation of it or not.
LEMMA VisitTyped ==
  ASSUME IInv, VisitNode
  PROVE  /\ SchemaTyped' /\ outcome' \in Outcomes \cup {"unsupported"}
         /\ outcome' \notin {"ok", "panic"} => LeavesTheRest
<1> DEFINE s == Text[visited + 1].statement
<1>1. IsStatement(s)
  <2>1. visited + 1 \in 1..Len(Text)
    BY Counted DEF VisitNode
  <2> QED
    BY <2>1, TextProperties DEF IInv
<1>2. SchemaTyped
  BY DEF IInv, TypeOK
<1>3. CASE s.kind = "unsupported" /\ Fails("unsupported")
  <2>1. heap' = heap /\ tables' = tables /\ objects' = objects /\ outcome' = "unsupported"
    BY <1>3 DEF Fails
  <2>2. SchemaTyped'
    BY <1>2, <2>1 DEF SchemaTyped, TableTyped
  <2> QED
    BY <1>2, <2>1, <2>2, NothingChanged
<1>4. CASE s.kind # "unsupported" /\ ~Ignored(s) /\ Apply(Handle(s))
  BY <1>1, <1>2, <1>4, HandleTyped, ApplyTyped, FailureLeaves
<1>5. CASE outcome' = "ok" /\ UNCHANGED <<heap, namespaces, tables, objects>>
  BY <1>2, <1>5 DEF SchemaTyped, TableTyped, Outcomes
<1> QED
  BY <1>3, <1>4, <1>5 DEF VisitNode, Visit

LEMMA Inductive == IInv /\ [Next]_vars => IInv'
<1> SUFFICES ASSUME IInv, [Next]_vars PROVE IInv'
  OBVIOUS
<1>0. /\ project.files \in Nat /\ Len(Text) \in Nat
      /\ visited \in 0..Len(Text) /\ files \in 0..project.files
      /\ applied \subseteq 1..visited /\ errors \subseteq 1..visited
      /\ DOMAIN Text = 1..Len(Text)
  BY Counted
<1>1. project' = project /\ strict' = strict /\ Text' = Text
  <2>1. project' = project /\ strict' = strict
    BY DEF Next, NoFiles, ReadFile, ParseText, VisitNode, Finish, vars
  <2> QED
    BY <2>1 DEF Text
<1>2. project' \in Projects
  BY <1>1 DEF IInv
<1>3. TypeOK'
  <2>1. SchemaTyped' /\ outcome' \in Outcomes \cup {"unsupported"}
    <3>1. CASE UNCHANGED parsed
      BY <3>1 DEF IInv, TypeOK, parsed, SchemaTyped, TableTyped
    <3>2. CASE VisitNode
      BY <3>2, VisitTyped
    <3> QED
      BY <3>1, <3>2 DEF Next, NoFiles, ReadFile, ParseText, Finish, vars, parsed
  <2>2. /\ strict' \in BOOLEAN
        /\ pc' \in {"reading", "parsing", "visiting", "done"}
        /\ result' \in {"none", "schema", "nil schema", "error"}
    BY DEF IInv, TypeOK, Next, NoFiles, ReadFile, ParseText, VisitNode, Finish, Return, vars
  <2>3. files' \in 0..project.files
    <3>1. files' = files \/ (files < project.files /\ files' = files + 1)
      BY DEF Next, NoFiles, ReadFile, ParseText, VisitNode, Finish, vars
    <3> QED
      BY <1>0, <3>1
  <2>4. /\ visited' \in 0..Len(Text)
        /\ applied' \subseteq 1..visited' /\ errors' \subseteq 1..visited'
    <3>1. CASE VisitNode
      <4>1. visited < Len(Text) /\ visited' = visited + 1
        BY <3>1 DEF VisitNode
      <4>2. /\ applied' \subseteq applied \cup {visited + 1}
            /\ errors' \subseteq errors \cup {visited + 1}
        BY <3>1 DEF VisitNode
      <4> QED
        BY <1>0, <4>1, <4>2
    <3>2. CASE visited' = visited /\ applied' = applied /\ errors' = errors
      BY <3>2 DEF IInv, TypeOK
    <3> QED
      BY <3>1, <3>2 DEF Next, NoFiles, ReadFile, ParseText, Finish, vars
  <2> QED
    BY <1>1, <2>1, <2>2, <2>3, <2>4 DEF TypeOK
<1>4. Progress'
  <2>1. CASE UNCHANGED <<visited, applied, errors>>
    <3>1. Accounted'
      BY <1>1, <2>1 DEF IInv, Progress, Accounted
    <3>2. CASE NoFiles
      <4>1. Len(Text) = 0
        BY <3>2, NoText DEF NoFiles
      <4> QED
        BY <1>0, <1>1, <3>1, <3>2, <4>1
        DEF NoFiles, Return, IInv, TypeOK, Progress, StrictIsWhole
    <3>3. CASE ReadFile
      BY <1>0, <1>1, <3>1, <3>3 DEF ReadFile, Return, IInv, Progress, StrictIsWhole
    <3>4. CASE ParseText
      BY <1>0, <1>1, <3>1, <3>4 DEF ParseText, Return, IInv, Progress, StrictIsWhole
    <3>5. CASE Finish
      \* strict and without an error: all were visited, and each is accounted for
      BY <1>0, <1>1, <3>1, <3>5
      DEF Finish, Return, IInv, Progress, StrictIsWhole, Accounted
    <3>6. CASE UNCHANGED vars
      BY <1>1, <3>1, <3>6 DEF vars, IInv, Progress, StrictIsWhole
    <3>7. CASE VisitNode
      BY <1>0, <2>1, <3>7 DEF VisitNode
    <3> QED
      BY <3>2, <3>3, <3>4, <3>5, <3>6, <3>7 DEF Next
  <2>2. CASE VisitNode
    <3>1. Accounted'
      <4> SUFFICES ASSUME NEW k \in 1..visited'
                   PROVE  k \in applied' \/ k \in errors' \/ Ignored(Text[k].statement)
        BY <1>1 DEF Accounted
      <4>1. CASE k \in 1..visited
        BY <2>2, <4>1 DEF VisitNode, IInv, Progress, Accounted
      <4>2. CASE k = visited + 1
        BY <2>2, <4>2 DEF VisitNode
      <4> QED
        BY <1>0, <2>2, <4>1, <4>2 DEF VisitNode
    <3> QED
      BY <1>0, <1>1, <2>2, <3>1 DEF VisitNode, IInv, Progress, StrictIsWhole
  <2> QED
    BY <2>1, <2>2 DEF Next, NoFiles, ReadFile, ParseText, Finish, vars
<1> QED
  BY <1>2, <1>3, <1>4 DEF IInv

----------------------------------------------------------------------------
(* The theorems.                                                           *)

\* Whatever the files hold, every pointer of every table is a place in the heap, no
\* more statements are visited than there are, and errors are of those visited.
THEOREM LoadingTyped == Spec => []TypeOK
<1>1. IInv => TypeOK
  BY DEF IInv
<1> QED
  BY Initially, Inductive, <1>1, PTL DEF Spec

\* Strict: a schema is returned only if the mutation of every statement of every file has
\* been applied, but of those the handlers ignore: no other statement goes missing
\* (dir_loader.go:89, sql_file_loader.go:40).
THEOREM StrictLoadingIsWhole == Spec => []StrictIsWhole
<1>1. IInv => StrictIsWhole
  BY DEF IInv, Progress
<1> QED
  BY Initially, Inductive, <1>1, PTL DEF Spec

\* A statement that fails without a panic changes nothing but a placeholder, which it
\* may give more columns.
THEOREM FailureIsLocal == Spec => FailureLeavesTheRest
<1> DEFINE step == pc = "visiting" /\ outcome' \notin {"ok", "panic"} /\ visited' # visited
                     => LeavesTheRest
<1>1. IInv /\ [Next]_vars => [step]_vars
  <2> SUFFICES ASSUME IInv, Next, visited' # visited, outcome' \notin {"ok", "panic"}
               PROVE  LeavesTheRest
    OBVIOUS
  <2>1. VisitNode
    BY DEF Next, NoFiles, ReadFile, ParseText, Finish
  <2> QED
    BY <2>1, VisitTyped
<1> QED
  BY Initially, Inductive, <1>1, PTL DEF Spec, FailureLeavesTheRest
=============================================================================
