------------------------ MODULE ExecutionPlanProofs ------------------------
(***************************************************************************)
(* Proofs about ExecutionPlan, for all the schemas of RequestsAssumption.  *)
(*                                                                         *)
(* First about SchemaDiff: what the nested loops of the differ list, and   *)
(* in which order, for every two schemas.  Then about the plan: it is      *)
(* whole or empty, and the filter, the stages and the sort keep the order  *)
(* that the differ meant.  At the end what the differ lists, by what it    *)
(* takes away, which is what the proofs about Convergence start from.      *)
(***************************************************************************)
EXTENDS ExecutionPlan, SequenceLemmas

----------------------------------------------------------------------------
(* Names.                                                                  *)

NameSet == Range(Names)

\* The provers know no more of a text than of any other value.
Text == STRING

LEMMA NameFacts == NameSet \subseteq Text /\ IsFiniteSet(NameSet)
<1>1. Names \in Seq(STRING)
  BY NamesAssumption
<1>2. NameSet \subseteq Text
  BY <1>1 DEF NameSet, Range, Text
<1>3. IsFiniteSet(DOMAIN Names)
  BY <1>1, FS_Interval
<1>4. Names \in Surjection(DOMAIN Names, NameSet)
  <2>1. Names \in [DOMAIN Names -> NameSet]
    BY <1>1 DEF NameSet, Range
  <2>2. \A n \in NameSet : \E k \in DOMAIN Names : Names[k] = n
    BY DEF NameSet, Range
  <2> QED
    BY <2>1, <2>2 DEF Surjection
<1> QED
  BY <1>2, <1>3, <1>4, FS_Surjection

\* Sorted names are all there, once.
LEMMA SortedFacts ==
  ASSUME NEW S, S \subseteq NameSet
  PROVE  /\ Sorted(S) \in Seq(S) /\ DOMAIN Sorted(S) = 1..Len(Sorted(S)) /\ Len(Sorted(S)) \in Nat
         /\ IsInjective(Sorted(S)) /\ Range(Sorted(S)) = S
<1> DEFINE kept == {k \in DOMAIN Names : Names[k] \in S}
<1>1. Names \in Seq(STRING) /\ IsInjective(Names)
  BY NamesAssumption
<1>2. /\ Select(Names, kept) \in Seq(STRING) /\ IsInjective(Select(Names, kept))
      /\ Range(Select(Names, kept)) = {Names[k] : k \in kept \cap DOMAIN Names}
  BY <1>1, SelectList
<1>3. {Names[k] : k \in kept \cap DOMAIN Names} = S
  BY DEF NameSet, Range
<1> HIDE DEF kept
<1>4. Sorted(S) = Select(Names, kept)
  BY DEF Sorted, kept
<1>5. Sorted(S) \in Seq(STRING) /\ IsInjective(Sorted(S)) /\ Range(Sorted(S)) = S
  BY <1>2, <1>3, <1>4
<1>6. Sorted(S) \in Seq(S)
  BY <1>5 DEF Range
<1> QED
  BY <1>5, <1>6

\* What Each makes, of a function.
Loop(S, F) == [k \in DOMAIN Sorted(S) |-> F[Sorted(S)[k]]]

\* A loop over names makes a list, of what it makes for each of them, and R has every two
\* of those if it has what is made of any two names.
LEMMA LoopPairs ==
  ASSUME NEW S, S \subseteq NameSet, NEW T, NEW F, \A n \in S : F[n] \in T
  PROVE  /\ Loop(S, F) \in Seq(T) /\ Range(Loop(S, F)) = {F[n] : n \in S}
         /\ \A R : (\A m, n \in S : m # n => <<F[m], F[n]>> \in R) => Pairwise(Loop(S, F), R)
<1> DEFINE list == Loop(S, F)
<1>1. /\ Sorted(S) \in Seq(S) /\ DOMAIN Sorted(S) = 1..Len(Sorted(S)) /\ Len(Sorted(S)) \in Nat
      /\ IsInjective(Sorted(S)) /\ Range(Sorted(S)) = S
  BY SortedFacts
<1>2. \A k \in DOMAIN Sorted(S) : Sorted(S)[k] \in S
  BY <1>1
<1>3. list \in Seq(T)
  BY <1>1, <1>2 DEF Loop
<1>4. DOMAIN list = DOMAIN Sorted(S) /\ \A k \in DOMAIN list : list[k] = F[Sorted(S)[k]]
  BY DEF Loop
<1> HIDE DEF list
<1>5. Range(list) = {F[n] : n \in S}
  <2>1. \A k \in DOMAIN list : list[k] \in {F[n] : n \in S}
    BY <1>2, <1>4
  <2>2. \A n \in S : \E k \in DOMAIN list : list[k] = F[n]
    BY <1>1, <1>4 DEF Range
  <2> QED
    BY <2>1, <2>2 DEF Range
<1>6. \A R : (\A m, n \in S : m # n => <<F[m], F[n]>> \in R) => Pairwise(list, R)
  <2>1. \A p, q \in DOMAIN list : p < q => Sorted(S)[p] # Sorted(S)[q]
    BY <1>1, <1>4 DEF IsInjective
  <2> QED
    BY <1>2, <1>4, <2>1 DEF Pairwise
<1> QED
  BY <1>3, <1>5, <1>6 DEF list

----------------------------------------------------------------------------
(* Lists of operations.                                                    *)

\* The differ lists op before later, whatever the names are.
MustPrecede(op, later) ==
  /\ op # later
  /\ \/ op.kind = "create_schema" /\ later.key.schema = op.key.schema
     \/ /\ op.kind = "add_column" /\ later.kind \in {"add_index", "add_constraint"}
        /\ later.dependsOn[1] = op.dependsOn[1]

\* The operations of X may be listed before those of Y.
MayPrecede(X, Y) == \A x \in X, y \in Y : x # y /\ ~MustPrecede(y, x)

\* No operation of X need precede another.
IsFree(X) == \A x, y \in X : ~MustPrecede(x, y)

\* A list of operations, each of them once.
IsOps(list) == list \in Seq(Operation) /\ IsInjective(list)

Different == {pair \in Operation \X Operation : pair[1] # pair[2]}

LEMMA InjectivePairs ==
  ASSUME NEW list \in Seq(Operation)
  PROVE  IsInjective(list) <=> Pairwise(list, Different)
<1>1. DOMAIN list \subseteq Nat /\ \A p \in DOMAIN list : list[p] \in Operation
  OBVIOUS
<1>2. \A p, q \in DOMAIN list : <<list[p], list[q]>> \in Different <=> list[p] # list[q]
  BY <1>1 DEF Different
<1>3. IsInjective(list) => Pairwise(list, Different)
  BY <1>1, <1>2 DEF IsInjective, Pairwise
<1>4. Pairwise(list, Different) => IsInjective(list)
  <2>1. \A p, q \in DOMAIN list : p = q \/ p < q \/ q < p
    BY <1>1
  <2> QED
    BY <1>2, <2>1 DEF IsInjective, Pairwise
<1> QED
  BY <1>3, <1>4

LEMMA NoOps == IsOps(<<>>) /\ Range(<<>>) = {}
BY DEF IsOps, IsInjective, Range

LEMMA OneOp ==
  ASSUME NEW op \in Operation
  PROVE  IsOps(<<op>>) /\ Range(<<op>>) = {op}
<1>1. <<op>> \in Seq(Operation) /\ DOMAIN <<op>> = {1} /\ <<op>>[1] = op
  OBVIOUS
<1> QED
  BY <1>1, Zenon DEF IsOps, IsInjective, Range

LEMMA TwoOps ==
  ASSUME NEW op \in Operation, NEW later \in Operation, op # later
  PROVE  IsOps(<<op, later>>) /\ Range(<<op, later>>) = {op, later}
<1>1. /\ <<op, later>> \in Seq(Operation) /\ DOMAIN <<op, later>> = {1, 2}
      /\ <<op, later>>[1] = op /\ <<op, later>>[2] = later
  OBVIOUS
<1> DEFINE list == <<op, later>>
<1>2. \A p, q \in DOMAIN list : list[p] = list[q] => p = q
  BY <1>1
<1>3. Range(list) = {list[p] : p \in {1, 2}}
  BY <1>1, Zenon DEF Range
<1>4. {list[p] : p \in {1, 2}} = {op, later}
  BY <1>1
<1> QED
  BY <1>1, <1>2, <1>3, <1>4 DEF IsOps, IsInjective

LEMMA WhenOps ==
  ASSUME NEW condition, NEW op \in Operation
  PROVE  IsOps(When(condition, op)) /\ Range(When(condition, op)) = {x \in {op} : condition}
BY NoOps, OneOp DEF When

LEMMA ConcatOps ==
  ASSUME NEW s, NEW t, IsOps(s), IsOps(t), Range(s) \cap Range(t) = {}
  PROVE  IsOps(s \o t) /\ Range(s \o t) = Range(s) \cup Range(t)
<1> DEFINE u == s \o t
<1>1. s \in Seq(Operation) /\ t \in Seq(Operation) /\ u = s \o t /\ IsInjective(s) /\ IsInjective(t)
  BY DEF IsOps
<1> HIDE DEF u
<1>2. u \in Seq(Operation) /\ IsInjective(u) /\ \A x : x \in Range(u) <=> x \in Range(s) \/ x \in Range(t)
  BY <1>1, ConcatList
<1> QED
  BY <1>2 DEF IsOps, u

\* A loop over names that makes one operation of each.
LEMMA LoopOps ==
  ASSUME NEW S, S \subseteq NameSet, NEW F,
         \A n \in S : F[n] \in Operation, \A m, n \in S : F[m] = F[n] => m = n
  PROVE  IsOps(Loop(S, F)) /\ Range(Loop(S, F)) = {F[n] : n \in S}
<1> DEFINE list == Loop(S, F)
<1>1. /\ list \in Seq(Operation) /\ Range(list) = {F[n] : n \in S}
      /\ \A R : (\A m, n \in S : m # n => <<F[m], F[n]>> \in R) => Pairwise(list, R)
  BY LoopPairs
<1>2. \A m, n \in S : m # n => <<F[m], F[n]>> \in Different
  BY DEF Different
<1> HIDE DEF list
<1>3. IsOps(list) /\ Range(list) = {F[n] : n \in S}
  BY <1>1, <1>2, InjectivePairs DEF IsOps
<1> QED
  BY <1>3 DEF list

\* A loop over names that makes a list of operations of each.
LEMMA LoopOpLists ==
  ASSUME NEW S, S \subseteq NameSet, NEW F, \A n \in S : IsOps(F[n]),
         \A m, n \in S : m # n => Range(F[m]) \cap Range(F[n]) = {},
         NEW list, list = FlattenSeq(Loop(S, F))
  PROVE  IsOps(list) /\ Range(list) = UNION {Range(F[n]) : n \in S}
<1> DEFINE seqs == Loop(S, F)
           T == Seq(Operation)
           Apart == {pair \in T \X T : Range(pair[1]) \cap Range(pair[2]) = {}}
<1>1. \A n \in S : F[n] \in T
  BY DEF IsOps
<1> HIDE DEF T
<1>2. /\ seqs \in Seq(T) /\ Range(seqs) = {F[n] : n \in S}
      /\ \A R : (\A m, n \in S : m # n => <<F[m], F[n]>> \in R) => Pairwise(seqs, R)
  BY <1>1, LoopPairs
<1>3. Pairwise(seqs, Apart)
  <2>1. \A m, n \in S : m # n => <<F[m], F[n]>> \in Apart
    BY <1>1
  <2> HIDE DEF Apart, seqs
  <2> QED
    BY <1>2, <2>1
<1> HIDE DEF seqs
<1>4. seqs \in Seq(Seq(Operation)) /\ list = FlattenSeq(seqs)
  BY <1>2 DEF T, seqs
<1>5. \A m \in DOMAIN seqs : \E n \in S : seqs[m] = F[n]
  BY <1>2 DEF Range
<1>6. \A m \in DOMAIN seqs : Pairwise(seqs[m], Different)
  BY <1>5, InjectivePairs DEF IsOps
<1>7. \A m, n \in DOMAIN seqs : m < n =>
        \A x \in Range(seqs[m]), y \in Range(seqs[n]) : <<x, y>> \in Different
  <2>1. \A m, n \in DOMAIN seqs : m < n => Range(seqs[m]) \cap Range(seqs[n]) = {}
    BY <1>3 DEF Pairwise
  <2>2. \A m \in DOMAIN seqs : seqs[m] \in Seq(Operation)
    BY <1>4
  <2>3. \A m \in DOMAIN seqs : Range(seqs[m]) \subseteq Operation
    BY <2>2 DEF Range
  <2> QED
    BY <2>1, <2>3 DEF Different
<1>8. /\ list \in Seq(Operation) /\ Range(list) = UNION {Range(seqs[m]) : m \in DOMAIN seqs}
      /\ Pairwise(list, Different)
  BY <1>4, <1>6, <1>7, FlattenList, FlattenPairs
<1>9. Range(list) = UNION {Range(F[n]) : n \in S}
  <2>1. \A n \in S : \E m \in DOMAIN seqs : seqs[m] = F[n]
    BY <1>2 DEF Range
  <2> QED
    BY <1>5, <1>8, <2>1
<1> QED
  BY <1>8, <1>9, InjectivePairs DEF IsOps

----------------------------------------------------------------------------
(* Lists of steps.                                                         *)

\* A call is told by the function and the names it is called with.
Calls ==
  Seq(NameSet \cup {"diffSchemas", "diffTables", "diffTableColumns", "diffTypes", "diffViews",
                    "diffSequences", "diffExtensions"})

DifferSteps == [checked : BOOLEAN, adds : SUBSET Seq(Operation), calls : Seq(Calls)]

\* Steps that list their operations once, whatever the order, and in any order.
GoodSteps ==
  {step \in DifferSteps :
     /\ \A some \in step.adds : IsOps(some) /\ Range(some) = Added(step)
     /\ IsFree(Added(step))}

InOrder == {pair \in GoodSteps \X GoodSteps : MayPrecede(Added(pair[1]), Added(pair[2]))}

\* Steps of which no operation is listed twice, or behind one that it must precede.
IsSteps(list) == list \in Seq(GoodSteps) /\ Pairwise(list, InOrder)

Content(list) == UNION {Added(step) : step \in Range(list)}

LEMMA AddedOnce ==
  ASSUME NEW step, NEW list, step.adds = {list}
  PROVE  Added(step) = Range(list)
BY DEF Added

LEMMA CheckedStep ==
  ASSUME NEW list, IsOps(list), IsFree(Range(list))
  PROVE  /\ Checked(list) \in GoodSteps /\ Added(Checked(list)) = Range(list)
         /\ Unchecked(list) \in GoodSteps /\ Added(Unchecked(list)) = Range(list)
<1>1. Checked(list).adds = {list} /\ Unchecked(list).adds = {list}
  BY DEF Checked, Unchecked
<1>2. Added(Checked(list)) = Range(list) /\ Added(Unchecked(list)) = Range(list)
  BY <1>1, AddedOnce
<1>3. Checked(list) \in DifferSteps /\ Unchecked(list) \in DifferSteps
  BY DEF Checked, Unchecked, DifferSteps, IsOps
<1> QED
  BY <1>1, <1>2, <1>3 DEF GoodSteps

LEMMA AnyOrderStep ==
  ASSUME NEW S, S \subseteq Operation, IsFiniteSet(S), IsFree(S)
  PROVE  AnyOrder(S) \in GoodSteps /\ Added(AnyOrder(S)) = S
<1>1. AnyOrder(S).adds = SetToSeqs(S)
  BY DEF AnyOrder
<1>2. /\ \A list \in SetToSeqs(S) : list \in Seq(S) /\ IsInjective(list) /\ Range(list) = S
      /\ SetToSeqs(S) # {}
  BY EveryListOfSet, OneListOfSet
<1>3. Added(AnyOrder(S)) = S
  BY <1>1, <1>2 DEF Added
<1>4. \A list \in SetToSeqs(S) : list \in Seq(Operation)
  BY <1>2
<1>5. AnyOrder(S) \in DifferSteps
  BY <1>4 DEF AnyOrder, DifferSteps
<1> QED
  BY <1>1, <1>2, <1>3, <1>4, <1>5 DEF GoodSteps, IsOps

LEMMA NoSteps == IsSteps(<<>>) /\ Content(<<>>) = {}
BY DEF IsSteps, Pairwise, Content, Range

LEMMA OneStep ==
  ASSUME NEW step \in GoodSteps
  PROVE  IsSteps(<<step>>) /\ Content(<<step>>) = Added(step)
<1>1. <<step>> \in Seq(GoodSteps) /\ DOMAIN <<step>> = {1} /\ <<step>>[1] = step
  OBVIOUS
<1>2. Range(<<step>>) = {step}
  BY <1>1, Zenon DEF Range
<1>3. Pairwise(<<step>>, InOrder)
  BY DEF Pairwise
<1> QED
  BY <1>1, <1>2, <1>3 DEF IsSteps, Content

LEMMA TwoIsOneAndOne ==
  ASSUME NEW T, NEW x \in T, NEW y \in T
  PROVE  <<x, y>> = <<x>> \o <<y>>
<1> DEFINE u == <<x>> \o <<y>>
<1>1. <<x>> \in Seq(T) /\ <<y>> \in Seq(T)
  OBVIOUS
<1>2. Len(<<x>>) = 1 /\ Len(<<y>>) = 1 /\ <<x>>[1] = x /\ <<y>>[1] = y
  OBVIOUS
<1>3. u \in Seq(T) /\ Len(u) = 2 /\ u[1] = x /\ u[2] = y
  BY <1>1, <1>2, ConcatProperties
<1> HIDE DEF u
<1>4. u = <<x, y>>
  BY <1>3
<1> QED
  BY <1>4 DEF u

LEMMA ConcatSteps ==
  ASSUME NEW s, NEW t, IsSteps(s), IsSteps(t), MayPrecede(Content(s), Content(t))
  PROVE  IsSteps(s \o t) /\ Content(s \o t) = Content(s) \cup Content(t)
<1> DEFINE u == s \o t
<1>1. s \in Seq(GoodSteps) /\ t \in Seq(GoodSteps) /\ u = s \o t
  BY DEF IsSteps
<1>2. \A x \in Range(s), y \in Range(t) : <<x, y>> \in InOrder
  <2>1. Range(s) \subseteq GoodSteps /\ Range(t) \subseteq GoodSteps
    BY <1>1 DEF Range
  <2>2. \A x \in Range(s), y \in Range(t) : MayPrecede(Added(x), Added(y))
    BY DEF MayPrecede, Content
  <2> QED
    BY <2>1, <2>2 DEF InOrder
<1>3. Pairwise(u, InOrder)
  BY <1>1, <1>2, ConcatPairs DEF IsSteps
<1> HIDE DEF u
<1>4. u \in Seq(GoodSteps) /\ \A x : x \in Range(u) <=> x \in Range(s) \/ x \in Range(t)
  BY <1>1, ConcatList
<1>5. Content(u) = Content(s) \cup Content(t)
  BY <1>4 DEF Content
<1> QED
  BY <1>3, <1>4, <1>5 DEF IsSteps, u

\* The steps of a call are what they are without it.
LEMMA InSteps ==
  ASSUME NEW call \in Calls, NEW list, IsSteps(list)
  PROVE  IsSteps(In(call, list)) /\ Content(In(call, list)) = Content(list)
<1> DEFINE called == In(call, list)
<1>1. /\ list \in Seq(GoodSteps) /\ DOMAIN list = 1..Len(list) /\ Len(list) \in Nat
      /\ \A k \in DOMAIN list : list[k] \in GoodSteps
  BY DEF IsSteps
<1>2. /\ DOMAIN called = DOMAIN list
      /\ \A k \in DOMAIN list : called[k] = [list[k] EXCEPT !.calls = Append(list[k].calls, call)]
  BY DEF In
<1>3. ASSUME NEW k \in DOMAIN list
      PROVE  called[k] \in DifferSteps /\ called[k].adds = list[k].adds
  <2>1. list[k] \in DifferSteps
    BY <1>1 DEF GoodSteps
  <2>2. Append(list[k].calls, call) \in Seq(Calls)
    BY <2>1 DEF DifferSteps
  <2> QED
    BY <1>2, <2>1, <2>2 DEF DifferSteps
<1> HIDE DEF called
<1>4. \A k \in DOMAIN list : Added(called[k]) = Added(list[k])
  BY <1>3 DEF Added
<1>5. \A k \in DOMAIN list : called[k] \in GoodSteps
  BY <1>1, <1>3, <1>4 DEF GoodSteps
<1>6. called \in Seq(GoodSteps)
  <2>1. called = [k \in 1..Len(list) |-> called[k]]
    BY <1>1 DEF called, In
  <2> QED
    BY <1>1, <1>5, <2>1
<1>7. Pairwise(called, InOrder)
  <2>1. DOMAIN called = DOMAIN list
    BY <1>2 DEF called
  <2>2. \A p, q \in DOMAIN list : p < q => MayPrecede(Added(list[p]), Added(list[q]))
    BY DEF Pairwise, InOrder, IsSteps
  <2>3. \A p, q \in DOMAIN called : p < q => <<called[p], called[q]>> \in InOrder
    BY <1>4, <1>5, <2>1, <2>2 DEF InOrder
  <2> QED
    BY <2>3, Zenon DEF Pairwise
<1>8. Content(called) = Content(list)
  BY <1>2, <1>4 DEF Content, Range
<1> QED
  BY <1>6, <1>7, <1>8 DEF IsSteps, called

\* A loop over names that makes one step of each.
LEMMA LoopSteps ==
  ASSUME NEW S, S \subseteq NameSet, NEW F, \A n \in S : F[n] \in GoodSteps,
         \A m, n \in S : m # n => MayPrecede(Added(F[m]), Added(F[n]))
  PROVE  IsSteps(Loop(S, F)) /\ Content(Loop(S, F)) = UNION {Added(F[n]) : n \in S}
<1> DEFINE list == Loop(S, F)
<1>1. /\ list \in Seq(GoodSteps) /\ Range(list) = {F[n] : n \in S}
      /\ \A R : (\A m, n \in S : m # n => <<F[m], F[n]>> \in R) => Pairwise(list, R)
  BY LoopPairs
<1>2. \A m, n \in S : m # n => <<F[m], F[n]>> \in InOrder
  BY DEF InOrder
<1> HIDE DEF list
<1>3. IsSteps(list)
  BY <1>1, <1>2 DEF IsSteps
<1>4. Content(list) = UNION {Added(F[n]) : n \in S}
  BY <1>1 DEF Content
<1> QED
  BY <1>3, <1>4 DEF list

\* A loop over names that makes a list of steps of each.
LEMMA LoopStepLists ==
  ASSUME NEW S, S \subseteq NameSet, NEW F, \A n \in S : IsSteps(F[n]),
         \A m, n \in S : m # n => MayPrecede(Content(F[m]), Content(F[n])),
         NEW list, list = FlattenSeq(Loop(S, F))
  PROVE  IsSteps(list) /\ Content(list) = UNION {Content(F[n]) : n \in S}
<1> DEFINE seqs == Loop(S, F)
           T == Seq(GoodSteps)
           Apart == {pair \in T \X T : MayPrecede(Content(pair[1]), Content(pair[2]))}
<1>1. \A n \in S : F[n] \in T
  BY DEF IsSteps
<1> HIDE DEF T
<1>2. /\ seqs \in Seq(T) /\ Range(seqs) = {F[n] : n \in S}
      /\ \A R : (\A m, n \in S : m # n => <<F[m], F[n]>> \in R) => Pairwise(seqs, R)
  BY <1>1, LoopPairs
<1>3. Pairwise(seqs, Apart)
  <2>1. \A m, n \in S : m # n => <<F[m], F[n]>> \in Apart
    BY <1>1
  <2> HIDE DEF Apart, seqs
  <2> QED
    BY <1>2, <2>1
<1> HIDE DEF seqs
<1>4. seqs \in Seq(Seq(GoodSteps)) /\ list = FlattenSeq(seqs)
  BY <1>2 DEF T, seqs
<1>5. \A m \in DOMAIN seqs : \E n \in S : seqs[m] = F[n]
  BY <1>2 DEF Range
<1>6. \A m \in DOMAIN seqs : Pairwise(seqs[m], InOrder)
  BY <1>5 DEF IsSteps
<1>7. \A m, n \in DOMAIN seqs : m < n =>
        \A x \in Range(seqs[m]), y \in Range(seqs[n]) : <<x, y>> \in InOrder
  <2>1. \A m, n \in DOMAIN seqs : m < n => MayPrecede(Content(seqs[m]), Content(seqs[n]))
    BY <1>3 DEF Pairwise
  <2>2. \A m \in DOMAIN seqs : seqs[m] \in Seq(GoodSteps)
    BY <1>4
  <2>3. \A m \in DOMAIN seqs : Range(seqs[m]) \subseteq GoodSteps
    BY <2>2 DEF Range
  <2>4. \A m, n \in DOMAIN seqs : m < n =>
          \A x \in Range(seqs[m]), y \in Range(seqs[n]) : MayPrecede(Added(x), Added(y))
    BY <2>1 DEF MayPrecede, Content
  <2> QED
    BY <2>3, <2>4 DEF InOrder
<1>8. /\ list \in Seq(GoodSteps) /\ Range(list) = UNION {Range(seqs[m]) : m \in DOMAIN seqs}
      /\ Pairwise(list, InOrder)
  BY <1>4, <1>6, <1>7, FlattenList, FlattenPairs
<1>9. Range(list) = UNION {Range(F[n]) : n \in S}
  <2>1. \A n \in S : \E m \in DOMAIN seqs : seqs[m] = F[n]
    BY <1>2 DEF Range
  <2> QED
    BY <1>5, <1>8, <2>1
<1>10. Content(list) = UNION {Content(F[n]) : n \in S}
  BY <1>9 DEF Content
<1> QED
  BY <1>8, <1>10 DEF IsSteps

----------------------------------------------------------------------------
(* Operations.                                                             *)

\* The kinds of operations that must precede others.
Leads == {"create_schema", "add_column"}

LEMMA NothingLeads ==
  ASSUME NEW X, NEW Y, \A y \in Y : y.kind \notin Leads, \A x \in X, y \in Y : x # y
  PROVE  MayPrecede(X, Y)
BY DEF MayPrecede, MustPrecede, Leads

LEMMA NoLeadIsFree ==
  ASSUME NEW X, \A x \in X : x.kind \notin Leads
  PROVE  IsFree(X)
BY DEF IsFree, MustPrecede, Leads

LEMMA OneIsFree ==
  ASSUME NEW op
  PROVE  IsFree({op})
BY DEF IsFree, MustPrecede

LEMMA KeysAre == Keys = [schema : Text, path : Seq(Text), kind : ObjectKinds]
BY DEF Keys, Text

LEMMA OpType ==
  ASSUME NEW kind \in Kinds, NEW key \in Keys, NEW needs \in Seq(Keys), NEW destructive \in BOOLEAN
  PROVE  /\ Op(kind, key, needs, destructive) \in Operation
         /\ Op(kind, key, needs, destructive).kind = kind
         /\ Op(kind, key, needs, destructive).key = key
         /\ Op(kind, key, needs, destructive).dependsOn = needs
BY DEF Op, Operation

\* A list of operations of some kinds about one object, all with the same needs.
OpsAbout(list, kinds, key, needs) ==
  IsOps(list) /\ \A op \in Range(list) : op.kind \in kinds /\ op.key = key /\ op.dependsOn = needs

LEMMA WhenAbout ==
  ASSUME NEW op \in Operation, NEW kinds, NEW condition, op.kind \in kinds
  PROVE  OpsAbout(When(condition, op), kinds, op.key, op.dependsOn)
BY WhenOps DEF OpsAbout

LEMMA ConcatAbout ==
  ASSUME NEW s, NEW t, NEW kinds, NEW others, NEW key, NEW needs, kinds \cap others = {},
         OpsAbout(s, kinds, key, needs), OpsAbout(t, others, key, needs)
  PROVE  OpsAbout(s \o t, kinds \cup others, key, needs)
<1>1. Range(s) \cap Range(t) = {}
  BY DEF OpsAbout
<1>2. IsOps(s \o t) /\ Range(s \o t) = Range(s) \cup Range(t)
  BY <1>1, ConcatOps DEF OpsAbout
<1> QED
  BY <1>2 DEF OpsAbout

\* What Each makes of checked steps.
CheckedLoop(S, F) == [k \in DOMAIN Sorted(S) |-> Checked(F[Sorted(S)[k]])]

LEMMA CheckedLoopSteps ==
  ASSUME NEW S, S \subseteq NameSet, NEW F,
         \A n \in S : IsOps(F[n]) /\ \A op \in Range(F[n]) : op.kind \notin Leads,
         \A m, n \in S : m # n => Range(F[m]) \cap Range(F[n]) = {}
  PROVE  /\ IsSteps(CheckedLoop(S, F))
         /\ Content(CheckedLoop(S, F)) = UNION {Range(F[n]) : n \in S}
<1> DEFINE G == [n \in S |-> Checked(F[n])]
<1>1. \A n \in S : G[n] \in GoodSteps /\ Added(G[n]) = Range(F[n])
  BY CheckedStep, NoLeadIsFree
<1>2. CheckedLoop(S, F) = Loop(S, G)
  BY SortedFacts DEF CheckedLoop, Loop
<1> HIDE DEF G
<1>3. \A m, n \in S : m # n => MayPrecede(Added(G[m]), Added(G[n]))
  <2> SUFFICES ASSUME NEW m \in S, NEW n \in S, m # n PROVE MayPrecede(Range(F[m]), Range(F[n]))
    BY <1>1
  <2>1. \A x \in Range(F[m]), y \in Range(F[n]) : x # y
    OBVIOUS
  <2> QED
    BY <2>1, NothingLeads
<1>4. IsSteps(Loop(S, G)) /\ Content(Loop(S, G)) = UNION {Added(G[n]) : n \in S}
  BY <1>1, <1>3, LoopSteps
<1>5. UNION {Added(G[n]) : n \in S} = UNION {Range(F[n]) : n \in S}
  BY <1>1
<1> QED
  BY <1>2, <1>4, <1>5

----------------------------------------------------------------------------
(* Columns.                                                                *)

FieldKinds ==
  {"alter_column_type", "set_not_null", "drop_not_null", "set_default", "drop_default",
   "alter_column_collation", "add_identity", "drop_identity", "set_identity"}

ColumnKinds == FieldKinds \cup {"rename_column", "add_column", "drop_column"}

\* op is about a column of the table.
IsColumnOp(op, s, t) ==
  /\ op.kind \in ColumnKinds /\ op.dependsOn = <<TableKey(s, t)>>
  /\ op.key.schema = s /\ op.key.kind = "column" /\ op.key.path[1] = t

LEMMA ColumnKeyType ==
  ASSUME NEW s \in Text, NEW t \in Text, NEW c \in Text
  PROVE  /\ ColumnKey(s, t, c) \in Keys /\ TableKey(s, t) \in Keys
         /\ ColumnKey(s, t, c).schema = s /\ ColumnKey(s, t, c).kind = "column"
         /\ ColumnKey(s, t, c).path[1] = t /\ ColumnKey(s, t, c).path[2] = c
<1>1. <<t, c>> \in Seq(Text) /\ <<t>> \in Seq(Text) /\ <<t, c>>[1] = t /\ <<t, c>>[2] = c
      /\ "column" \in ObjectKinds /\ "table" \in ObjectKinds
  BY DEF ObjectKinds
<1>2. /\ ColumnKey(s, t, c) \in Keys /\ ColumnKey(s, t, c).schema = s
      /\ ColumnKey(s, t, c).kind = "column" /\ ColumnKey(s, t, c).path = <<t, c>>
  BY <1>1, KeysAre DEF ColumnKey, Key
<1>3. TableKey(s, t) \in Keys
  BY <1>1, KeysAre DEF TableKey, Key
<1> QED
  BY <1>1, <1>2, <1>3

LEMMA ColumnOpType ==
  ASSUME NEW s \in Text, NEW t \in Text, NEW c \in Text, NEW kind \in Kinds,
         NEW destructive \in BOOLEAN
  PROVE  /\ ColumnOp(kind, s, t, c, destructive) \in Operation
         /\ ColumnOp(kind, s, t, c, destructive).kind = kind
         /\ ColumnOp(kind, s, t, c, destructive).key = ColumnKey(s, t, c)
         /\ ColumnOp(kind, s, t, c, destructive).dependsOn = <<TableKey(s, t)>>
<1>1. ColumnKey(s, t, c) \in Keys /\ <<TableKey(s, t)>> \in Seq(Keys)
  BY ColumnKeyType
<1> QED
  BY <1>1 DEF ColumnOp, Op, Operation

LEMMA diffColumnOps ==
  ASSUME NEW s \in Text, NEW t \in Text, NEW c \in Text, NEW source, NEW target
  PROVE  OpsAbout(diffColumn(s, t, c, source, target), FieldKinds, ColumnKey(s, t, c), <<TableKey(s, t)>>)
<1> DEFINE About(list, kinds) == OpsAbout(list, kinds, ColumnKey(s, t, c), <<TableKey(s, t)>>)
           o1 == AlterColumnTypeOp(s, t, c)
           o2 == SetNotNullOp(s, t, c)
           o3 == DropNotNullOp(s, t, c)
           o4 == IF target.default = "none" THEN DropDefaultOp(s, t, c) ELSE SetDefaultOp(s, t, c)
           o5 == AlterColumnCollationOp(s, t, c)
           o6 == CASE source.identity = "none" -> AddIdentityOp(s, t, c)
                   [] target.identity = "none" -> DropIdentityOp(s, t, c)
                   [] OTHER -> SetIdentityOp(s, t, c)
           Fit(op, kinds) ==
             /\ op \in Operation /\ op.kind \in kinds
             /\ op.key = ColumnKey(s, t, c) /\ op.dependsOn = <<TableKey(s, t)>>
<1>0. ColumnKinds \subseteq Kinds /\ FieldKinds \subseteq ColumnKinds
  BY DEF ColumnKinds, FieldKinds, Kinds, PreDeployKinds, DeployKinds, PostDeployKinds
<1>1. \A kind \in FieldKinds, destructive \in BOOLEAN :
        Fit(ColumnOp(kind, s, t, c, destructive), {kind})
  BY <1>0, ColumnOpType
<1>2. /\ Fit(o1, {"alter_column_type"}) /\ Fit(o2, {"set_not_null"}) /\ Fit(o3, {"drop_not_null"})
      /\ Fit(o5, {"alter_column_collation"})
  BY <1>1 DEF AlterColumnTypeOp, SetNotNullOp, DropNotNullOp, AlterColumnCollationOp, FieldKinds
<1>3. Fit(o4, {"set_default", "drop_default"})
  BY <1>1 DEF SetDefaultOp, DropDefaultOp, FieldKinds
<1>4. Fit(o6, {"add_identity", "drop_identity", "set_identity"})
  BY <1>1 DEF AddIdentityOp, DropIdentityOp, SetIdentityOp, FieldKinds
<1> DEFINE c1 == source.type # target.type
           c2 == source.nullable /\ ~target.nullable
           c3 == ~source.nullable /\ target.nullable
           c4 == source.default # target.default
           c5 == source.collation # target.collation
           c6 == source.identity # target.identity
           w1 == When(c1, o1)
           w2 == When(c2, o2)
           w3 == When(c3, o3)
           w4 == When(c4, o4)
           w5 == When(c5, o5)
           w6 == When(c6, o6)
<1>5. diffColumn(s, t, c, source, target) = w1 \o w2 \o w3 \o w4 \o w5 \o w6
  BY DEF diffColumn
<1> HIDE DEF o1, o2, o3, o4, o5, o6, c1, c2, c3, c4, c5, c6
<1>6. /\ About(w1, {"alter_column_type"}) /\ About(w2, {"set_not_null"}) /\ About(w3, {"drop_not_null"})
      /\ About(w4, {"set_default", "drop_default"}) /\ About(w5, {"alter_column_collation"})
      /\ About(w6, {"add_identity", "drop_identity", "set_identity"})
  BY <1>2, <1>3, <1>4, WhenAbout
<1> HIDE DEF w1, w2, w3, w4, w5, w6
<1> DEFINE k2 == {"alter_column_type"} \cup {"set_not_null"}
           k3 == k2 \cup {"drop_not_null"}
           k4 == k3 \cup {"set_default", "drop_default"}
           k5 == k4 \cup {"alter_column_collation"}
           k6 == k5 \cup {"add_identity", "drop_identity", "set_identity"}
<1>7. About(w1 \o w2, k2)
  BY <1>6, ConcatAbout
<1>8. About(w1 \o w2 \o w3, k3)
  BY <1>6, <1>7, ConcatAbout
<1>9. About(w1 \o w2 \o w3 \o w4, k4)
  BY <1>6, <1>8, ConcatAbout
<1>10. About(w1 \o w2 \o w3 \o w4 \o w5, k5)
  BY <1>6, <1>9, ConcatAbout
<1>11. About(w1 \o w2 \o w3 \o w4 \o w5 \o w6, k6)
  BY <1>6, <1>10, ConcatAbout
<1>12. k6 = FieldKinds
  BY DEF FieldKinds
<1> QED
  BY <1>5, <1>11, <1>12

\* Operations about columns need not stand in any order.
LEMMA ColumnOpsFit ==
  ASSUME NEW X, NEW Y, \A x \in X, y \in Y : x.kind \in ColumnKinds /\ y.kind \in ColumnKinds /\ x # y
  PROVE  MayPrecede(X, Y)
BY DEF MayPrecede, MustPrecede, ColumnKinds, FieldKinds

LEMMA ColumnOpsAreFree ==
  ASSUME NEW X, \A x \in X : x.kind \in ColumnKinds
  PROVE  IsFree(X)
BY DEF IsFree, MustPrecede, ColumnKinds, FieldKinds

\* What diffTableColumns lists: new columns are not told from renamed ones here.
LEMMA diffTableColumnsSteps ==
  ASSUME NEW s \in Text, NEW t \in Text, NEW source, NEW target,
         DOMAIN source \subseteq NameSet, DOMAIN target \subseteq NameSet
  PROVE  /\ IsSteps(diffTableColumns(s, t, source, target))
         /\ \A op \in Content(diffTableColumns(s, t, source, target)) : IsColumnOp(op, s, t)
<1> DEFINE gone == DOMAIN source \ DOMAIN target
           renamed == Renames(source, target)
           added == (DOMAIN target \ DOMAIN source) \ {RenameTarget(c, source, target) : c \in renamed}
           F1 == [c \in gone |-> When(c \in renamed, RenameColumnOp(s, t, c))]
           F2 == [c \in added |-> AddColumnOp(s, t, c)]
           dropped == {DropColumnOp(s, t, c) : c \in gone \ renamed}
           F3 == [c \in DOMAIN target |-> IF c \in DOMAIN source
                                          THEN diffColumn(s, t, c, source[c], target[c]) ELSE <<>>]
           a == CheckedLoop(gone, F1)
           b == Unchecked(Loop(added, F2))
           d == AnyOrder(dropped)
           e == CheckedLoop(DOMAIN target, F3)
           Of(op, kinds, c) ==
             /\ op.kind \in kinds /\ op.dependsOn = <<TableKey(s, t)>> /\ op.key = ColumnKey(s, t, c)
<1>1. gone \subseteq NameSet /\ added \subseteq NameSet /\ NameSet \subseteq Text /\ IsFiniteSet(NameSet)
  BY NameFacts
<1>2. diffTableColumns(s, t, source, target) = a \o <<b, d>> \o e
  <2>1. Each(gone, LAMBDA c : Checked(When(c \in renamed, RenameColumnOp(s, t, c)))) = a
    BY <1>1, SortedFacts DEF Each, CheckedLoop
  <2>2. Each(added, LAMBDA c : AddColumnOp(s, t, c)) = Loop(added, F2)
    BY <1>1, SortedFacts DEF Each, Loop
  <2>3. Each(DOMAIN target, LAMBDA c : Checked(IF c \in DOMAIN source
                                               THEN diffColumn(s, t, c, source[c], target[c]) ELSE <<>>)) = e
    BY <1>1, SortedFacts DEF Each, CheckedLoop
  <2> QED
    BY <2>1, <2>2, <2>3, Zenon DEF diffTableColumns
<1>3. \A c, k \in Text : ColumnKey(s, t, c) = ColumnKey(s, t, k) => c = k
  BY ColumnKeyType
<1>4. \A c \in Text : /\ RenameColumnOp(s, t, c) \in Operation /\ Of(RenameColumnOp(s, t, c), {"rename_column"}, c)
                      /\ AddColumnOp(s, t, c) \in Operation /\ Of(AddColumnOp(s, t, c), {"add_column"}, c)
                      /\ DropColumnOp(s, t, c) \in Operation /\ Of(DropColumnOp(s, t, c), {"drop_column"}, c)
  <2>1. {"rename_column", "add_column", "drop_column"} \subseteq Kinds
    BY DEF Kinds, PreDeployKinds, DeployKinds, PostDeployKinds
  <2>2. \A c \in Text, kind \in {"rename_column", "add_column", "drop_column"}, destructive \in BOOLEAN :
          /\ ColumnOp(kind, s, t, c, destructive) \in Operation
          /\ Of(ColumnOp(kind, s, t, c, destructive), {kind}, c)
    BY <2>1, ColumnOpType
  <2> QED
    BY <2>2 DEF RenameColumnOp, AddColumnOp, DropColumnOp
<1>5. \A kinds, c : \A op : Of(op, kinds, c) /\ kinds \subseteq ColumnKinds /\ c \in Text => IsColumnOp(op, s, t)
  BY ColumnKeyType DEF IsColumnOp
<1> HIDE DEF gone, renamed, added
<1>6. IsSteps(a) /\ \A op \in Content(a) : op.kind = "rename_column" /\ IsColumnOp(op, s, t)
  <2>1. \A c \in gone : IsOps(F1[c]) /\ \A op \in Range(F1[c]) : Of(op, {"rename_column"}, c)
    BY <1>1, <1>4, WhenOps
  <2> HIDE DEF F1
  <2>2. \A m, n \in gone : m # n => Range(F1[m]) \cap Range(F1[n]) = {}
    BY <1>1, <1>3, <2>1
  <2>3. \A c \in gone : \A op \in Range(F1[c]) : op.kind \notin Leads
    BY <2>1 DEF Leads
  <2>4. IsSteps(a) /\ Content(a) = UNION {Range(F1[n]) : n \in gone}
    BY <1>1, <2>1, <2>2, <2>3, CheckedLoopSteps
  <2>5. \A op \in Content(a) : \E c \in gone : Of(op, {"rename_column"}, c)
    BY <2>1, <2>4
  <2>6. {"rename_column"} \subseteq ColumnKinds
    BY DEF ColumnKinds
  <2> QED
    BY <1>1, <1>5, <2>4, <2>5, <2>6
<1>7. b \in GoodSteps /\ \A op \in Added(b) : op.kind = "add_column" /\ IsColumnOp(op, s, t)
  <2>1. \A c \in added : F2[c] \in Operation /\ Of(F2[c], {"add_column"}, c)
    BY <1>1, <1>4
  <2> HIDE DEF F2
  <2>2. \A m, n \in added : F2[m] = F2[n] => m = n
    BY <1>1, <1>3, <2>1
  <2>3. IsOps(Loop(added, F2)) /\ Range(Loop(added, F2)) = {F2[c] : c \in added}
    <3>1. added \subseteq NameSet /\ \A c \in added : F2[c] \in Operation
      BY <1>1, <2>1
    <3> QED
      BY <2>2, <3>1, LoopOps
  <2>4. {"add_column"} \subseteq ColumnKinds
    BY DEF ColumnKinds
  <2>5. \A op \in Range(Loop(added, F2)) : op.kind = "add_column" /\ IsColumnOp(op, s, t)
    BY <1>1, <1>5, <2>1, <2>3, <2>4
  <2>6. IsFree(Range(Loop(added, F2)))
    BY <2>4, <2>5, ColumnOpsAreFree
  <2> QED
    BY <2>3, <2>5, <2>6, CheckedStep
<1>8. d \in GoodSteps /\ \A op \in Added(d) : op.kind = "drop_column" /\ IsColumnOp(op, s, t)
  <2>1. {"drop_column"} \subseteq ColumnKinds
    BY DEF ColumnKinds
  <2>2. dropped \subseteq Operation /\ \A op \in dropped : op.kind = "drop_column" /\ IsColumnOp(op, s, t)
    BY <1>1, <1>4, <1>5, <2>1
  <2>3. IsFiniteSet(dropped)
    <3> DEFINE D == [c \in gone \ renamed |-> DropColumnOp(s, t, c)]
    <3>1. IsFiniteSet(gone \ renamed)
      BY <1>1, FS_Subset
    <3>2. D \in Surjection(gone \ renamed, dropped)
      BY DEF Surjection
    <3> QED
      BY <3>1, <3>2, FS_Surjection
  <2>4. IsFree(dropped)
    BY <2>1, <2>2, ColumnOpsAreFree
  <2> QED
    BY <2>2, <2>3, <2>4, AnyOrderStep
<1>9. IsSteps(e) /\ \A op \in Content(e) : op.kind \in FieldKinds /\ IsColumnOp(op, s, t)
  <2>1. \A c \in DOMAIN target : IsOps(F3[c]) /\ \A op \in Range(F3[c]) : Of(op, FieldKinds, c)
    BY <1>1, diffColumnOps, NoOps DEF OpsAbout
  <2> HIDE DEF F3
  <2>2. \A m, n \in DOMAIN target : m # n => Range(F3[m]) \cap Range(F3[n]) = {}
    BY <1>1, <1>3, <2>1
  <2>3. \A c \in DOMAIN target : \A op \in Range(F3[c]) : op.kind \notin Leads
    BY <2>1 DEF Leads, FieldKinds
  <2>4. IsSteps(e) /\ Content(e) = UNION {Range(F3[n]) : n \in DOMAIN target}
    BY <1>1, <2>1, <2>2, <2>3, CheckedLoopSteps
  <2>5. \A op \in Content(e) : \E c \in DOMAIN target : Of(op, FieldKinds, c)
    BY <2>1, <2>4
  <2>6. FieldKinds \subseteq ColumnKinds
    BY DEF ColumnKinds
  <2> QED
    BY <1>1, <1>5, <2>4, <2>5, <2>6
<1> HIDE DEF a, b, d, e
<1>10. IsSteps(<<b>>) /\ IsSteps(<<d>>) /\ Content(<<b>>) = Added(b) /\ Content(<<d>>) = Added(d)
  BY <1>7, <1>8, OneStep
<1>11. IsSteps(<<b, d>>) /\ Content(<<b, d>>) = Added(b) \cup Added(d)
  <2>1. MayPrecede(Content(<<b>>), Content(<<d>>))
    BY <1>7, <1>8, <1>10, ColumnOpsFit DEF IsColumnOp
  <2>2. <<b, d>> = <<b>> \o <<d>>
    BY <1>7, <1>8, TwoIsOneAndOne
  <2> DEFINE x == <<b>>
             y == <<d>>
  <2>3. IsSteps(x) /\ IsSteps(y) /\ MayPrecede(Content(x), Content(y)) /\ <<b, d>> = x \o y
    BY <1>10, <2>1, <2>2
  <2> HIDE DEF x, y
  <2>4. IsSteps(x \o y) /\ Content(x \o y) = Content(x) \cup Content(y)
    BY <2>3, ConcatSteps
  <2>5. Content(x) = Added(b) /\ Content(y) = Added(d)
    BY <1>10 DEF x, y
  <2> QED
    BY <2>3, <2>4, <2>5
<1>12. IsSteps(a \o <<b, d>>) /\ Content(a \o <<b, d>>) = Content(a) \cup Content(<<b, d>>)
  <2>1. MayPrecede(Content(a), Content(<<b, d>>))
    BY <1>6, <1>7, <1>8, <1>11, ColumnOpsFit DEF IsColumnOp
  <2> QED
    BY <1>6, <1>11, <2>1, ConcatSteps
<1>13. IsSteps(a \o <<b, d>> \o e) /\ Content(a \o <<b, d>> \o e) = Content(a \o <<b, d>>) \cup Content(e)
  <2>1. \A kind \in FieldKinds : kind \notin {"rename_column", "add_column", "drop_column"}
    BY DEF FieldKinds
  <2>2. MayPrecede(Content(a \o <<b, d>>), Content(e))
    BY <1>6, <1>7, <1>8, <1>9, <1>11, <1>12, <2>1, ColumnOpsFit DEF IsColumnOp
  <2> QED
    BY <1>9, <1>12, <2>2, ConcatSteps
<1> QED
  BY <1>2, <1>6, <1>7, <1>8, <1>9, <1>11, <1>12, <1>13

----------------------------------------------------------------------------
(* Indexes and constraints.                                                *)

IndexKey(s, x) == Key(s, <<x>>, "index")

\* op is about an index of the table, and if it drops it, about one of these.
IsIndexOp(op, s, t, indexes) ==
  /\ op.key.schema = s /\ op.key.kind = "index"
  /\ \/ op.kind = "add_index" /\ op.dependsOn = <<TableKey(s, t)>>
     \/ op.kind = "drop_index" /\ op.dependsOn = <<>> /\ op.key.path[1] \in indexes

IsConstraintOp(op, s, t) ==
  /\ op.key.schema = s /\ op.key.kind = "constraint" /\ op.key.path[1] = t
  /\ \/ /\ op.kind = "add_constraint" /\ op.dependsOn = <<TableKey(s, t), op.key>>
        /\ op = AddConstraintOp(s, t, op.key.path[2])
     \/ op.kind = "drop_constraint" /\ op.dependsOn = <<>>

LEMMA IndexOpType ==
  ASSUME NEW s \in Text, NEW t \in Text, NEW x \in Text
  PROVE  /\ CreateIndexOp(s, t, x) \in Operation /\ DropIndexOp(s, x) \in Operation
         /\ CreateIndexOp(s, t, x).kind = "add_index" /\ DropIndexOp(s, x).kind = "drop_index"
         /\ CreateIndexOp(s, t, x).key = IndexKey(s, x) /\ DropIndexOp(s, x).key = IndexKey(s, x)
         /\ CreateIndexOp(s, t, x).dependsOn = <<TableKey(s, t)>> /\ DropIndexOp(s, x).dependsOn = <<>>
         /\ IndexKey(s, x).schema = s /\ IndexKey(s, x).kind = "index" /\ IndexKey(s, x).path[1] = x
<1>1. <<x>> \in Seq(Text) /\ <<x>>[1] = x /\ "index" \in ObjectKinds
  BY DEF ObjectKinds
<1>2. /\ IndexKey(s, x) \in Keys /\ IndexKey(s, x).schema = s
      /\ IndexKey(s, x).kind = "index" /\ IndexKey(s, x).path = <<x>>
  BY <1>1, KeysAre DEF IndexKey, Key
<1>3. {"add_index", "drop_index"} \subseteq Kinds
  BY DEF Kinds, PreDeployKinds, PostDeployKinds
<1>4. <<TableKey(s, t)>> \in Seq(Keys) /\ <<>> \in Seq(Keys)
  BY ColumnKeyType
<1>5. /\ CreateIndexOp(s, t, x) = Op("add_index", IndexKey(s, x), <<TableKey(s, t)>>, FALSE)
      /\ DropIndexOp(s, x) = Op("drop_index", IndexKey(s, x), <<>>, TRUE)
  BY DEF CreateIndexOp, DropIndexOp, IndexKey
<1> QED
  BY <1>1, <1>2, <1>3, <1>4, <1>5 DEF Op, Operation

LEMMA ConstraintOpType ==
  ASSUME NEW s \in Text, NEW t \in Text, NEW c \in Text
  PROVE  /\ AddConstraintOp(s, t, c) \in Operation /\ DropConstraintOp(s, t, c) \in Operation
         /\ AddConstraintOp(s, t, c).kind = "add_constraint"
         /\ DropConstraintOp(s, t, c).kind = "drop_constraint"
         /\ AddConstraintOp(s, t, c).key = ConstraintKey(s, t, c)
         /\ DropConstraintOp(s, t, c).key = ConstraintKey(s, t, c)
         /\ AddConstraintOp(s, t, c).dependsOn = <<TableKey(s, t), ConstraintKey(s, t, c)>>
         /\ DropConstraintOp(s, t, c).dependsOn = <<>>
         /\ ConstraintKey(s, t, c).schema = s /\ ConstraintKey(s, t, c).kind = "constraint"
         /\ ConstraintKey(s, t, c).path[1] = t /\ ConstraintKey(s, t, c).path[2] = c
<1>1. <<t, c>> \in Seq(Text) /\ <<t, c>>[1] = t /\ <<t, c>>[2] = c /\ "constraint" \in ObjectKinds
  BY DEF ObjectKinds
<1>2. /\ ConstraintKey(s, t, c) \in Keys /\ ConstraintKey(s, t, c).schema = s
      /\ ConstraintKey(s, t, c).kind = "constraint" /\ ConstraintKey(s, t, c).path = <<t, c>>
  BY <1>1, KeysAre DEF ConstraintKey, Key
<1>3. {"add_constraint", "drop_constraint"} \subseteq Kinds
  BY DEF Kinds, PreDeployKinds, PostDeployKinds
<1>4. <<TableKey(s, t), ConstraintKey(s, t, c)>> \in Seq(Keys) /\ <<>> \in Seq(Keys)
  BY <1>2, ColumnKeyType
<1> QED
  BY <1>1, <1>2, <1>3, <1>4 DEF Op, Operation, AddConstraintOp, DropConstraintOp

\* What is created, dropped, and dropped and created again.
LEMMA diffTableIndexesOps ==
  ASSUME NEW s \in Text, NEW t \in Text, NEW source, NEW target,
         DOMAIN source \subseteq NameSet, DOMAIN target \subseteq NameSet
  PROVE  /\ IsOps(diffTableIndexes(s, t, source, target))
         /\ \A op \in Range(diffTableIndexes(s, t, source, target)) : IsIndexOp(op, s, t, DOMAIN source)
<1> DEFINE new == DOMAIN target \ DOMAIN source
           gone == DOMAIN source \ DOMAIN target
           changed == {x \in DOMAIN source \cap DOMAIN target : source[x] # target[x]}
           F1 == [x \in new |-> CreateIndexOp(s, t, x)]
           F2 == [x \in gone |-> DropIndexOp(s, x)]
           F3 == [x \in changed |-> <<DropIndexOp(s, x), CreateIndexOp(s, t, x)>>]
           a == Loop(new, F1)
           b == Loop(gone, F2)
           d == FlattenSeq(Loop(changed, F3))
           Creates(op, x) ==
             op.kind = "add_index" /\ op.key = IndexKey(s, x) /\ op.dependsOn = <<TableKey(s, t)>>
           Drops(op, x) == op.kind = "drop_index" /\ op.key = IndexKey(s, x) /\ op.dependsOn = <<>>
<1>1. /\ new \subseteq NameSet /\ gone \subseteq NameSet /\ changed \subseteq NameSet
      /\ NameSet \subseteq Text
      /\ \A x \in new : x \notin gone /\ x \notin changed
      /\ \A x \in gone : x \in DOMAIN source /\ x \notin changed
      /\ \A x \in changed : x \in DOMAIN source
  BY NameFacts
<1>2. diffTableIndexes(s, t, source, target) = a \o b \o d
  <2>1. Each(new, LAMBDA x : CreateIndexOp(s, t, x)) = a
    BY <1>1, SortedFacts DEF Each, Loop
  <2>2. Each(gone, LAMBDA x : DropIndexOp(s, x)) = b
    BY <1>1, SortedFacts DEF Each, Loop
  <2>3. Each(changed, LAMBDA x : <<DropIndexOp(s, x), CreateIndexOp(s, t, x)>>) = Loop(changed, F3)
    <3>1. \A k \in DOMAIN Sorted(changed) : Sorted(changed)[k] \in changed
      BY <1>1, SortedFacts
    <3> HIDE DEF changed
    <3> QED
      BY <3>1, Zenon DEF Each, Loop
  <2> QED
    BY <2>1, <2>2, <2>3, Zenon DEF diffTableIndexes, EachOp
<1>3. \A x \in Text : /\ CreateIndexOp(s, t, x) \in Operation /\ Creates(CreateIndexOp(s, t, x), x)
                      /\ DropIndexOp(s, x) \in Operation /\ Drops(DropIndexOp(s, x), x)
  BY IndexOpType
<1>4. \A x, y \in Text : IndexKey(s, x) = IndexKey(s, y) => x = y
  BY IndexOpType
<1>5. \A x \in Text : \A op :
        /\ Creates(op, x) => IsIndexOp(op, s, t, DOMAIN source)
        /\ Drops(op, x) /\ x \in DOMAIN source => IsIndexOp(op, s, t, DOMAIN source)
  BY IndexOpType DEF IsIndexOp
<1> HIDE DEF new, gone, changed
<1>6. IsOps(a) /\ \A op \in Range(a) : \E x \in new : Creates(op, x)
  <2>1. \A x \in new : F1[x] \in Operation /\ Creates(F1[x], x)
    BY <1>1, <1>3
  <2> HIDE DEF F1
  <2>2. \A x, y \in new : F1[x] = F1[y] => x = y
    BY <1>1, <1>4, <2>1
  <2>3. IsOps(a) /\ Range(a) = {F1[x] : x \in new}
    BY <1>1, <2>1, <2>2, LoopOps
  <2> QED
    BY <2>1, <2>3
<1>7. IsOps(b) /\ \A op \in Range(b) : \E x \in gone : Drops(op, x)
  <2>1. \A x \in gone : F2[x] \in Operation /\ Drops(F2[x], x)
    BY <1>1, <1>3
  <2> HIDE DEF F2
  <2>2. \A x, y \in gone : F2[x] = F2[y] => x = y
    BY <1>1, <1>4, <2>1
  <2>3. IsOps(b) /\ Range(b) = {F2[x] : x \in gone}
    BY <1>1, <2>1, <2>2, LoopOps
  <2> QED
    BY <2>1, <2>3
<1>8. IsOps(d) /\ \A op \in Range(d) : \E x \in changed : Creates(op, x) \/ Drops(op, x)
  <2>1. \A x \in changed : IsOps(F3[x]) /\ \A op \in Range(F3[x]) : Creates(op, x) \/ Drops(op, x)
    <3> SUFFICES ASSUME NEW x \in changed
                 PROVE  /\ IsOps(<<DropIndexOp(s, x), CreateIndexOp(s, t, x)>>)
                        /\ \A op \in Range(<<DropIndexOp(s, x), CreateIndexOp(s, t, x)>>) :
                             Creates(op, x) \/ Drops(op, x)
      OBVIOUS
    <3>1. /\ CreateIndexOp(s, t, x) \in Operation /\ Creates(CreateIndexOp(s, t, x), x)
          /\ DropIndexOp(s, x) \in Operation /\ Drops(DropIndexOp(s, x), x)
      BY <1>1, <1>3
    <3> QED
      BY <3>1, TwoOps
  <2> HIDE DEF F3
  <2>2. \A x, y \in changed : x # y => Range(F3[x]) \cap Range(F3[y]) = {}
    BY <1>1, <1>4, <2>1
  <2>3. IsOps(d) /\ Range(d) = UNION {Range(F3[x]) : x \in changed}
    BY <1>1, <2>1, <2>2, LoopOpLists
  <2> QED
    BY <2>1, <2>3
<1> HIDE DEF a, b, d
<1>9. IsOps(a \o b) /\ Range(a \o b) = Range(a) \cup Range(b)
  <2>1. Range(a) \cap Range(b) = {}
    BY <1>6, <1>7
  <2> QED
    BY <1>6, <1>7, <2>1, ConcatOps
<1>10. IsOps(a \o b \o d) /\ Range(a \o b \o d) = Range(a \o b) \cup Range(d)
  <2>1. \A op \in Range(a) : op \notin Range(d)
    BY <1>1, <1>4, <1>6, <1>8
  <2>2. \A op \in Range(b) : op \notin Range(d)
    BY <1>1, <1>4, <1>7, <1>8
  <2>3. Range(a \o b) \cap Range(d) = {}
    BY <1>9, <2>1, <2>2
  <2> QED
    BY <1>8, <1>9, <2>3, ConcatOps
<1>11. \A op \in Range(a \o b \o d) : IsIndexOp(op, s, t, DOMAIN source)
  BY <1>1, <1>5, <1>6, <1>7, <1>8, <1>9, <1>10
<1> QED
  BY <1>2, <1>10, <1>11

LEMMA diffTableConstraintsOps ==
  ASSUME NEW s \in Text, NEW t \in Text, NEW source, NEW target,
         DOMAIN source \subseteq NameSet, DOMAIN target \subseteq NameSet
  PROVE  /\ IsOps(diffTableConstraints(s, t, source, target))
         /\ \A op \in Range(diffTableConstraints(s, t, source, target)) : IsConstraintOp(op, s, t)
<1> DEFINE new == DOMAIN target \ DOMAIN source
           gone == DOMAIN source \ DOMAIN target
           changed == {c \in DOMAIN source \cap DOMAIN target :
                         /\ ~sameConstraintContent(source[c], target[c])
                         /\ ~sameConstraintSemantics(source[c], target[c])}
           F1 == [c \in new |-> AddConstraintOp(s, t, c)]
           F2 == [c \in changed |-> <<DropConstraintOp(s, t, c), AddConstraintOp(s, t, c)>>]
           F3 == [c \in gone |-> DropConstraintOp(s, t, c)]
           a == Loop(new, F1)
           b == FlattenSeq(Loop(changed, F2))
           d == Loop(gone, F3)
           Adds(op, c) ==
             /\ op.kind = "add_constraint" /\ op.key = ConstraintKey(s, t, c)
             /\ op.dependsOn = <<TableKey(s, t), ConstraintKey(s, t, c)>> /\ op = AddConstraintOp(s, t, c)
           Drops(op, c) ==
             op.kind = "drop_constraint" /\ op.key = ConstraintKey(s, t, c) /\ op.dependsOn = <<>>
<1>1. /\ new \subseteq NameSet /\ gone \subseteq NameSet /\ changed \subseteq NameSet
      /\ NameSet \subseteq Text
      /\ \A c \in new : c \notin gone /\ c \notin changed
      /\ \A c \in gone : c \notin changed
  BY NameFacts
<1>2. diffTableConstraints(s, t, source, target) = a \o b \o d
  <2>1. Each(new, LAMBDA c : AddConstraintOp(s, t, c)) = a
    BY <1>1, SortedFacts DEF Each, Loop
  <2>2. Each(changed, LAMBDA c : <<DropConstraintOp(s, t, c), AddConstraintOp(s, t, c)>>) = Loop(changed, F2)
    <3>1. \A k \in DOMAIN Sorted(changed) : Sorted(changed)[k] \in changed
      BY <1>1, SortedFacts
    <3> HIDE DEF changed
    <3> QED
      BY <3>1, Zenon DEF Each, Loop
  <2>3. Each(gone, LAMBDA c : DropConstraintOp(s, t, c)) = d
    BY <1>1, SortedFacts DEF Each, Loop
  <2> QED
    BY <2>1, <2>2, <2>3, Zenon DEF diffTableConstraints, EachOp
<1>3. \A c \in Text : /\ AddConstraintOp(s, t, c) \in Operation /\ Adds(AddConstraintOp(s, t, c), c)
                      /\ DropConstraintOp(s, t, c) \in Operation /\ Drops(DropConstraintOp(s, t, c), c)
  BY ConstraintOpType
<1>4. \A c, k \in Text : ConstraintKey(s, t, c) = ConstraintKey(s, t, k) => c = k
  BY ConstraintOpType
<1>5. \A c \in Text : \A op : Adds(op, c) \/ Drops(op, c) => IsConstraintOp(op, s, t)
  BY ConstraintOpType DEF IsConstraintOp
<1> HIDE DEF new, gone, changed
<1>6. IsOps(a) /\ \A op \in Range(a) : \E c \in new : Adds(op, c)
  <2>1. \A c \in new : F1[c] \in Operation /\ Adds(F1[c], c)
    BY <1>1, <1>3
  <2> HIDE DEF F1
  <2>2. \A c, k \in new : F1[c] = F1[k] => c = k
    BY <1>1, <1>4, <2>1
  <2>3. IsOps(a) /\ Range(a) = {F1[c] : c \in new}
    BY <1>1, <2>1, <2>2, LoopOps
  <2> QED
    BY <2>1, <2>3
<1>7. IsOps(b) /\ \A op \in Range(b) : \E c \in changed : Adds(op, c) \/ Drops(op, c)
  <2>1. \A c \in changed : IsOps(F2[c]) /\ \A op \in Range(F2[c]) : Adds(op, c) \/ Drops(op, c)
    <3> SUFFICES ASSUME NEW c \in changed
                 PROVE  /\ IsOps(<<DropConstraintOp(s, t, c), AddConstraintOp(s, t, c)>>)
                        /\ \A op \in Range(<<DropConstraintOp(s, t, c), AddConstraintOp(s, t, c)>>) :
                             Adds(op, c) \/ Drops(op, c)
      OBVIOUS
    <3>1. /\ AddConstraintOp(s, t, c) \in Operation /\ Adds(AddConstraintOp(s, t, c), c)
          /\ DropConstraintOp(s, t, c) \in Operation /\ Drops(DropConstraintOp(s, t, c), c)
      BY <1>1, <1>3
    <3> QED
      BY <3>1, TwoOps
  <2> HIDE DEF F2
  <2>2. \A c, k \in changed : c # k => Range(F2[c]) \cap Range(F2[k]) = {}
    BY <1>1, <1>4, <2>1
  <2>3. IsOps(b) /\ Range(b) = UNION {Range(F2[c]) : c \in changed}
    BY <1>1, <2>1, <2>2, LoopOpLists
  <2> QED
    BY <2>1, <2>3
<1>8. IsOps(d) /\ \A op \in Range(d) : \E c \in gone : Drops(op, c)
  <2>1. \A c \in gone : F3[c] \in Operation /\ Drops(F3[c], c)
    BY <1>1, <1>3
  <2> HIDE DEF F3
  <2>2. \A c, k \in gone : F3[c] = F3[k] => c = k
    BY <1>1, <1>4, <2>1
  <2>3. IsOps(d) /\ Range(d) = {F3[c] : c \in gone}
    BY <1>1, <2>1, <2>2, LoopOps
  <2> QED
    BY <2>1, <2>3
<1> HIDE DEF a, b, d
<1>9. IsOps(a \o b) /\ Range(a \o b) = Range(a) \cup Range(b)
  <2>1. \A op \in Range(a) : op \notin Range(b)
    BY <1>1, <1>4, <1>6, <1>7
  <2>2. Range(a) \cap Range(b) = {}
    BY <2>1
  <2> QED
    BY <1>6, <1>7, <2>2, ConcatOps
<1>10. IsOps(a \o b \o d) /\ Range(a \o b \o d) = Range(a \o b) \cup Range(d)
  <2>1. \A op \in Range(a) : op \notin Range(d)
    BY <1>1, <1>4, <1>6, <1>8
  <2>2. \A op \in Range(b) : op \notin Range(d)
    BY <1>1, <1>4, <1>7, <1>8
  <2>3. Range(a \o b) \cap Range(d) = {}
    BY <1>9, <2>1, <2>2
  <2> QED
    BY <1>8, <1>9, <2>3, ConcatOps
<1>11. \A op \in Range(a \o b \o d) : IsConstraintOp(op, s, t)
  BY <1>1, <1>5, <1>6, <1>7, <1>8, <1>9, <1>10
<1> QED
  BY <1>2, <1>10, <1>11

----------------------------------------------------------------------------
(* Tables.                                                                 *)

\* op is about the table's columns, indexes or constraints.
IsPartOp(op, s, t, indexes) ==
  IsColumnOp(op, s, t) \/ IsIndexOp(op, s, t, indexes) \/ IsConstraintOp(op, s, t)

\* The new columns of the table come first.
LEMMA diffTableSteps ==
  ASSUME NEW s \in NameSet, NEW t \in NameSet, NEW source, NEW target, IsTable(source), IsTable(target)
  PROVE  /\ IsSteps(diffTable(s, t, source, target))
         /\ \A op \in Content(diffTable(s, t, source, target)) : IsPartOp(op, s, t, DOMAIN source.indexes)
<1> DEFINE columns == diffTableColumns(s, t, source.columns, target.columns)
           indexes == diffTableIndexes(s, t, source.indexes, target.indexes)
           constraints == diffTableConstraints(s, t, source.constraints, target.constraints)
           call == <<"diffTableColumns", s, t>>
           a == In(call, columns)
           b == Unchecked(indexes \o constraints)
<1>1. diffTable(s, t, source, target) = a \o <<b>>
  BY DEF diffTable
<1>2. s \in Text /\ t \in Text
  BY NameFacts
<1>3. /\ DOMAIN source.columns \subseteq NameSet /\ DOMAIN target.columns \subseteq NameSet
      /\ DOMAIN source.indexes \subseteq NameSet /\ DOMAIN target.indexes \subseteq NameSet
      /\ DOMAIN source.constraints \subseteq NameSet /\ DOMAIN target.constraints \subseteq NameSet
  BY DEF IsTable, IsNamed, NameSet
<1>4. IsSteps(columns) /\ \A op \in Content(columns) : IsColumnOp(op, s, t)
  BY <1>2, <1>3, diffTableColumnsSteps
<1>5. IsSteps(a) /\ Content(a) = Content(columns)
  <2>1. call \in Calls
    BY DEF Calls
  <2> HIDE DEF call, columns
  <2> QED
    BY <1>4, <2>1, InSteps
<1>6. IsOps(indexes) /\ \A op \in Range(indexes) : IsIndexOp(op, s, t, DOMAIN source.indexes)
  BY <1>2, <1>3, diffTableIndexesOps
<1>7. IsOps(constraints) /\ \A op \in Range(constraints) : IsConstraintOp(op, s, t)
  BY <1>2, <1>3, diffTableConstraintsOps
<1> HIDE DEF columns, indexes, constraints
<1>8. IsOps(indexes \o constraints) /\ Range(indexes \o constraints) = Range(indexes) \cup Range(constraints)
  <2>1. Range(indexes) \cap Range(constraints) = {}
    BY <1>6, <1>7 DEF IsIndexOp, IsConstraintOp
  <2> QED
    BY <1>6, <1>7, <2>1, ConcatOps
<1>9. \A op \in Range(indexes \o constraints) :
        /\ IsIndexOp(op, s, t, DOMAIN source.indexes) \/ IsConstraintOp(op, s, t)
        /\ op.kind \notin Leads /\ op.key.kind # "column"
  BY <1>6, <1>7, <1>8 DEF IsIndexOp, IsConstraintOp, Leads
<1>10. b \in GoodSteps /\ Added(b) = Range(indexes \o constraints)
  <2>1. IsFree(Range(indexes \o constraints))
    BY <1>9, NoLeadIsFree
  <2> QED
    BY <1>8, <2>1, CheckedStep
<1> HIDE DEF a, b
<1>11. IsSteps(<<b>>) /\ Content(<<b>>) = Range(indexes \o constraints)
  BY <1>10, OneStep
<1>12. MayPrecede(Content(a), Content(<<b>>))
  <2>1. \A x \in Content(a), y \in Content(<<b>>) : x # y
    BY <1>4, <1>5, <1>9, <1>11 DEF IsColumnOp
  <2> QED
    BY <1>9, <1>11, <2>1, NothingLeads
<1>13. IsSteps(a \o <<b>>) /\ Content(a \o <<b>>) = Content(a) \cup Content(<<b>>)
  BY <1>5, <1>11, <1>12, ConcatSteps
<1>14. \A op \in Content(a \o <<b>>) : IsPartOp(op, s, t, DOMAIN source.indexes)
  BY <1>4, <1>5, <1>9, <1>11, <1>13 DEF IsPartOp
<1> QED
  BY <1>1, <1>13, <1>14

\* Operations about parts of two tables need not stand in any order.
LEMMA PartOpsFit ==
  ASSUME NEW s \in Text, NEW t \in Text, NEW u \in Text, t # u,
         NEW indexes, NEW others, indexes \cap others = {},
         NEW X, \A op \in X : IsPartOp(op, s, t, indexes),
         NEW Y, \A op \in Y : IsPartOp(op, s, u, others)
  PROVE  MayPrecede(X, Y)
<1> SUFFICES ASSUME NEW x \in X, NEW y \in Y PROVE x # y /\ ~MustPrecede(y, x)
  BY DEF MayPrecede
<1>1. TableKey(s, t) # TableKey(s, u)
  <2>1. \A v \in Text : <<v>>[1] = v
    OBVIOUS
  <2> QED
    BY <2>1 DEF TableKey, Key
<1>2. IsPartOp(x, s, t, indexes) /\ IsPartOp(y, s, u, others)
  OBVIOUS
<1>3. x # y
  <2>1. CASE IsColumnOp(x, s, t)
    BY <1>2, <2>1 DEF IsPartOp, IsColumnOp, IsIndexOp, IsConstraintOp
  <2>2. CASE IsConstraintOp(x, s, t)
    BY <1>2, <2>2 DEF IsPartOp, IsColumnOp, IsIndexOp, IsConstraintOp
  <2>3. CASE IsIndexOp(x, s, t, indexes)
    <3>1. IsIndexOp(y, s, u, others) => x # y
      <4> SUFFICES ASSUME IsIndexOp(y, s, u, others), x = y PROVE FALSE
        OBVIOUS
      <4>1. CASE x.kind = "add_index"
        <5>1. x.dependsOn = <<TableKey(s, t)>> /\ y.dependsOn = <<TableKey(s, u)>>
          BY <2>3, <4>1 DEF IsIndexOp
        <5> QED
          BY <1>1, <5>1
      <4>2. CASE x.kind # "add_index"
        BY <2>3, <4>2 DEF IsIndexOp
      <4> QED
        BY <4>1, <4>2
    <3> QED
      BY <1>2, <2>3, <3>1 DEF IsPartOp, IsColumnOp, IsIndexOp, IsConstraintOp
  <2> QED
    BY <1>2, <2>1, <2>2, <2>3 DEF IsPartOp
<1>4. ~MustPrecede(y, x)
  <2> SUFFICES ASSUME MustPrecede(y, x) PROVE FALSE
    OBVIOUS
  <2>1. y.kind # "create_schema"
    BY <1>2 DEF IsPartOp, IsColumnOp, IsIndexOp, IsConstraintOp, ColumnKinds, FieldKinds
  <2>2. /\ y.kind = "add_column" /\ x.kind \in {"add_index", "add_constraint"}
        /\ x.dependsOn[1] = y.dependsOn[1]
    BY <2>1 DEF MustPrecede
  <2>3. y.dependsOn = <<TableKey(s, u)>>
    BY <1>2, <2>2 DEF IsPartOp, IsColumnOp, IsIndexOp, IsConstraintOp
  <2>4. x.dependsOn = <<TableKey(s, t)>> \/ x.dependsOn = <<TableKey(s, t), x.key>>
    BY <1>2, <2>2 DEF IsPartOp, IsColumnOp, IsIndexOp, IsConstraintOp, ColumnKinds, FieldKinds
  <2>5. y.dependsOn[1] = TableKey(s, u) /\ x.dependsOn[1] = TableKey(s, t)
    BY <2>3, <2>4
  <2> QED
    BY <1>1, <2>2, <2>5
<1> QED
  BY <1>3, <1>4

LEMMA ReferencesFacts ==
  ASSUME NEW table, IsTable(table)
  PROVE  References(table) \subseteq Keys /\ IsFiniteSet(References(table))
<1> DEFINE foreign == {c \in DOMAIN table.constraints : table.constraints[c].type = "foreign_key"}
           Referred(c) == TableKey(table.constraints[c].ref.schema, table.constraints[c].ref.table)
           F == [c \in foreign |-> Referred(c)]
<1>1. References(table) = {Referred(c) : c \in foreign}
  BY DEF References
<1>2. \A c \in foreign : Referred(c) \in Keys
  <2>1. \A c \in foreign : table.constraints[c].ref.schema \in Text /\ table.constraints[c].ref.table \in Text
    BY DEF IsTable, Text
  <2>2. \A s, t \in Text : TableKey(s, t) \in Keys
    BY ColumnKeyType
  <2> QED
    BY <2>1, <2>2
<1>3. IsFiniteSet(foreign)
  <2>1. foreign \subseteq NameSet
    BY DEF IsTable, IsNamed, NameSet
  <2> QED
    BY <2>1, NameFacts, FS_Subset
<1> HIDE DEF Referred, foreign
<1>4. F \in Surjection(foreign, {Referred(c) : c \in foreign})
  BY DEF Surjection
<1> QED
  BY <1>1, <1>2, <1>3, <1>4, FS_Surjection

LEMMA AddTableOpType ==
  ASSUME NEW s \in Text, NEW t \in Text, NEW table, IsTable(table)
  PROVE  /\ AddTableOp(s, t, table) \in Operation /\ AddTableOp(s, t, table).kind = "add_table"
         /\ AddTableOp(s, t, table).key = TableKey(s, t)
         /\ Range(AddTableOp(s, t, table).dependsOn) = References(table)
<1> DEFINE needs == SetToSeq(References(table))
<1>1. needs \in Seq(Keys) /\ Range(needs) = References(table)
  BY ReferencesFacts, OneListOfSet
<1>2. TableKey(s, t) \in Keys /\ "add_table" \in Kinds
  BY ColumnKeyType DEF Kinds, PreDeployKinds
<1>3. AddTableOp(s, t, table) = Op("add_table", TableKey(s, t), needs, FALSE)
  BY DEF AddTableOp
<1> HIDE DEF needs
<1> QED
  BY <1>1, <1>2, <1>3 DEF Op, Operation

LEMMA DropTableOpType ==
  ASSUME NEW s \in Text, NEW t \in Text
  PROVE  /\ DropTableOp(s, t) \in Operation /\ DropTableOp(s, t).kind = "drop_table"
         /\ DropTableOp(s, t).key = TableKey(s, t) /\ DropTableOp(s, t).dependsOn = <<>>
<1>1. TableKey(s, t) \in Keys /\ "drop_table" \in Kinds /\ <<>> \in Seq(Keys)
  BY ColumnKeyType DEF Kinds, PostDeployKinds
<1> QED
  BY <1>1 DEF DropTableOp, Op, Operation

LEMMA TableKeyFacts ==
  ASSUME NEW s \in Text, NEW t \in Text
  PROVE  TableKey(s, t).schema = s /\ TableKey(s, t).kind = "table" /\ TableKey(s, t).path = <<t>>
BY DEF TableKey, Key

\* op is about a table of the namespace: a new one, one that goes, or a part of one that stays.
IsTablesOp(op, s, source, target) ==
  \/ \E t \in DOMAIN target \ DOMAIN source : op = AddTableOp(s, t, target[t])
  \/ \E t \in DOMAIN source \ DOMAIN target : op = DropTableOp(s, t)
  \/ \E t \in DOMAIN source \cap DOMAIN target : IsPartOp(op, s, t, DOMAIN source[t].indexes)

LEMMA diffTablesSteps ==
  ASSUME NEW s \in NameSet, NEW source, NEW target,
         DOMAIN source \subseteq NameSet, DOMAIN target \subseteq NameSet,
         \A t \in DOMAIN source : IsTable(source[t]), \A t \in DOMAIN target : IsTable(target[t]),
         \A t, u \in DOMAIN source : DOMAIN source[t].indexes \cap DOMAIN source[u].indexes # {} => t = u
  PROVE  /\ IsSteps(diffTables(s, source, target))
         /\ \A op \in Content(diffTables(s, source, target)) : IsTablesOp(op, s, source, target)
<1> DEFINE new == DOMAIN target \ DOMAIN source
           gone == DOMAIN source \ DOMAIN target
           both == DOMAIN source \cap DOMAIN target
           F1 == [t \in new |-> <<AddTableOp(s, t, target[t])>>]
           F2 == [t \in gone |-> <<DropTableOp(s, t)>>]
           F3 == [t \in both |-> diffTable(s, t, source[t], target[t])]
           a == CheckedLoop(new, F1)
           b == CheckedLoop(gone, F2)
           d == FlattenSeq(Loop(both, F3))
<1>1. /\ new \subseteq NameSet /\ gone \subseteq NameSet /\ both \subseteq NameSet
      /\ NameSet \subseteq Text /\ s \in Text
      /\ \A t \in new : t \notin gone /\ t \in DOMAIN target
      /\ \A t \in gone : t \in DOMAIN source
      /\ \A t \in both : t \in DOMAIN source /\ t \in DOMAIN target
  BY NameFacts
<1>2. diffTables(s, source, target) = a \o b \o d
  <2>1. \A S : S \subseteq NameSet => \A k \in DOMAIN Sorted(S) : Sorted(S)[k] \in S
    BY SortedFacts
  <2>2. Each(new, LAMBDA t : Checked(<<AddTableOp(s, t, target[t])>>)) = a
    BY <1>1, <2>1, Zenon DEF Each, CheckedLoop
  <2>3. Each(gone, LAMBDA t : Checked(<<DropTableOp(s, t)>>)) = b
    BY <1>1, <2>1, Zenon DEF Each, CheckedLoop
  <2>4. Each(both, LAMBDA t : diffTable(s, t, source[t], target[t])) = Loop(both, F3)
    BY <1>1, <2>1, Zenon DEF Each, Loop
  <2> QED
    BY <2>2, <2>3, <2>4, Zenon DEF diffTables, EachOp
<1>3. /\ \A t \in new : /\ AddTableOp(s, t, target[t]) \in Operation
                        /\ AddTableOp(s, t, target[t]).kind = "add_table"
                        /\ AddTableOp(s, t, target[t]).key = TableKey(s, t)
      /\ \A t \in gone : /\ DropTableOp(s, t) \in Operation /\ DropTableOp(s, t).kind = "drop_table"
                         /\ DropTableOp(s, t).key = TableKey(s, t)
  BY <1>1, AddTableOpType, DropTableOpType
<1>4. \A t, u \in Text : TableKey(s, t) = TableKey(s, u) => t = u
  <2>1. \A t \in Text : <<t>>[1] = t
    OBVIOUS
  <2> QED
    BY <1>1, <2>1, TableKeyFacts
<1> DEFINE Adds(op) == \E t \in new : op = AddTableOp(s, t, target[t])
           Drops(op) == \E t \in gone : op = DropTableOp(s, t)
           Alters(op) == \E t \in both : IsPartOp(op, s, t, DOMAIN source[t].indexes)
<1>5. /\ \A op : Adds(op) => op.kind = "add_table" /\ op.key.kind = "table"
      /\ \A op : Drops(op) => op.kind = "drop_table" /\ op.key.kind = "table"
      /\ \A op : Alters(op) => op.key.kind # "table"
  <2>1. \A t \in Text : TableKey(s, t).kind = "table"
    BY <1>1, TableKeyFacts
  <2> QED
    BY <1>1, <1>3, <2>1 DEF IsPartOp, IsColumnOp, IsIndexOp, IsConstraintOp
<1>6. \A op : Adds(op) \/ Drops(op) \/ Alters(op) => IsTablesOp(op, s, source, target)
  BY Zenon DEF IsTablesOp
<1>7. IsSteps(a) /\ \A op \in Content(a) : Adds(op)
  <2>1. \A t \in new : IsOps(F1[t]) /\ Range(F1[t]) = {AddTableOp(s, t, target[t])}
    BY <1>3, OneOp
  <2> HIDE DEF F1, new
  <2>2. \A t \in new : \A op \in Range(F1[t]) : op.kind \notin Leads
    BY <1>3, <2>1 DEF Leads
  <2>3. \A t, u \in new : t # u => Range(F1[t]) \cap Range(F1[u]) = {}
    BY <1>1, <1>3, <1>4, <2>1
  <2>4. IsSteps(a) /\ Content(a) = UNION {Range(F1[t]) : t \in new}
    BY <1>1, <2>1, <2>2, <2>3, CheckedLoopSteps
  <2> QED
    BY <2>1, <2>4
<1>8. IsSteps(b) /\ \A op \in Content(b) : Drops(op)
  <2>1. \A t \in gone : IsOps(F2[t]) /\ Range(F2[t]) = {DropTableOp(s, t)}
    BY <1>3, OneOp
  <2> HIDE DEF F2, gone
  <2>2. \A t \in gone : \A op \in Range(F2[t]) : op.kind \notin Leads
    BY <1>3, <2>1 DEF Leads
  <2>3. \A t, u \in gone : t # u => Range(F2[t]) \cap Range(F2[u]) = {}
    BY <1>1, <1>3, <1>4, <2>1
  <2>4. IsSteps(b) /\ Content(b) = UNION {Range(F2[t]) : t \in gone}
    BY <1>1, <2>1, <2>2, <2>3, CheckedLoopSteps
  <2> QED
    BY <2>1, <2>4
<1>9. IsSteps(d) /\ \A op \in Content(d) : Alters(op)
  <2>1. \A t \in both : /\ IsSteps(F3[t])
                        /\ \A op \in Content(F3[t]) : IsPartOp(op, s, t, DOMAIN source[t].indexes)
    BY <1>1, diffTableSteps
  <2> HIDE DEF F3, both
  <2>2. ASSUME NEW t \in both, NEW u \in both, t # u PROVE MayPrecede(Content(F3[t]), Content(F3[u]))
    <3>1. DOMAIN source[t].indexes \cap DOMAIN source[u].indexes = {}
      BY <1>1, <2>2
    <3> QED
      BY <1>1, <2>1, <2>2, <3>1, PartOpsFit
  <2>3. IsSteps(d) /\ Content(d) = UNION {Content(F3[t]) : t \in both}
    BY <1>1, <2>1, <2>2, LoopStepLists
  <2> QED
    BY <2>1, <2>3
<1> HIDE DEF a, b, d, Adds, Drops, Alters
<1>10. IsSteps(a \o b) /\ Content(a \o b) = Content(a) \cup Content(b)
  <2>1. \A y \in Content(b) : y.kind \notin Leads
    BY <1>5, <1>8 DEF Leads
  <2>2. \A x \in Content(a), y \in Content(b) : x # y
    BY <1>5, <1>7, <1>8
  <2>3. MayPrecede(Content(a), Content(b))
    BY <2>1, <2>2, NothingLeads
  <2> QED
    BY <1>7, <1>8, <2>3, ConcatSteps
<1>11. IsSteps(a \o b \o d) /\ Content(a \o b \o d) = Content(a \o b) \cup Content(d)
  <2>1. \A x \in Content(a \o b) : x.kind \in {"add_table", "drop_table"} /\ x.key.kind = "table"
    BY <1>5, <1>7, <1>8, <1>10
  <2>2. \A y \in Content(d) : y.kind # "create_schema" /\ y.key.kind # "table"
    BY <1>5, <1>9 DEF Alters, IsPartOp, IsColumnOp, IsIndexOp, IsConstraintOp, ColumnKinds, FieldKinds
  <2>3. MayPrecede(Content(a \o b), Content(d))
    BY <2>1, <2>2 DEF MayPrecede, MustPrecede
  <2> QED
    BY <1>9, <1>10, <2>3, ConcatSteps
<1> QED
  BY <1>2, <1>6, <1>7, <1>8, <1>9, <1>10, <1>11

----------------------------------------------------------------------------
(* Enum types, views, sequences and extensions.                            *)

OtherKinds == Kinds \ (Leads \cup {"add_table", "add_index", "add_constraint"})

\* op is about the type, view, sequence or extension n, or about a label of the type.
IsOtherOp(op, s, n, kind) ==
  /\ op \in Operation /\ op.kind \in OtherKinds
  /\ op.key.schema = s /\ op.key.kind = kind /\ op.key.path[1] = n
  /\ op.dependsOn # <<>> => Len(op.key.path) = 2 /\ op.dependsOn = <<Key(s, <<n>>, kind)>>

LEMMA OtherOpType ==
  ASSUME NEW s \in Text, NEW n \in Text, NEW object \in ObjectKinds, NEW kind \in OtherKinds,
         NEW destructive \in BOOLEAN
  PROVE  /\ Op(kind, Key(s, <<n>>, object), <<>>, destructive).kind = kind
         /\ IsOtherOp(Op(kind, Key(s, <<n>>, object), <<>>, destructive), s, n, object)
<1> DEFINE key == Key(s, <<n>>, object)
<1>1. <<n>> \in Seq(Text) /\ <<n>>[1] = n
  OBVIOUS
<1>2. key \in Keys /\ key.schema = s /\ key.kind = object /\ key.path[1] = n
  BY <1>1, KeysAre DEF Key
<1>3. kind \in Kinds /\ <<>> \in Seq(Keys)
  BY DEF OtherKinds
<1> HIDE DEF key
<1>4. /\ Op(kind, key, <<>>, destructive) \in Operation
      /\ Op(kind, key, <<>>, destructive).kind = kind
      /\ Op(kind, key, <<>>, destructive).key = key
      /\ Op(kind, key, <<>>, destructive).dependsOn = <<>>
  BY <1>2, <1>3 DEF Op, Operation
<1> QED
  BY <1>2, <1>4 DEF IsOtherOp, key

LEMMA OtherLoop ==
  ASSUME NEW s, NEW object, NEW S, S \subseteq NameSet, NEW F,
         \A n \in S : IsOps(F[n]) /\ \A op \in Range(F[n]) : IsOtherOp(op, s, n, object)
  PROVE  /\ IsSteps(CheckedLoop(S, F))
         /\ \A op \in Content(CheckedLoop(S, F)) :
              \E n \in S : op \in Range(F[n]) /\ IsOtherOp(op, s, n, object)
<1>1. \A n \in S : \A op \in Range(F[n]) : op.kind \notin Leads
  BY DEF IsOtherOp, OtherKinds
<1>2. \A m, n \in S : m # n => Range(F[m]) \cap Range(F[n]) = {}
  <2>1. \A n \in S : \A op \in Range(F[n]) : op.key.path[1] = n
    BY DEF IsOtherOp
  <2> QED
    BY <2>1
<1>3. /\ IsSteps(CheckedLoop(S, F))
      /\ Content(CheckedLoop(S, F)) = UNION {Range(F[n]) : n \in S}
  BY <1>1, <1>2, CheckedLoopSteps
<1> QED
  BY <1>3

LEMMA OtherConcat ==
  ASSUME NEW a, IsSteps(a), NEW b, IsSteps(b),
         \A y \in Content(b) : y.kind \in OtherKinds, \A x \in Content(a), y \in Content(b) : x # y
  PROVE  IsSteps(a \o b) /\ Content(a \o b) = Content(a) \cup Content(b)
<1>1. \A y \in Content(b) : y.kind \notin Leads
  BY DEF OtherKinds
<1>2. MayPrecede(Content(a), Content(b))
  BY <1>1, NothingLeads
<1> QED
  BY <1>2, ConcatSteps

\* What Each makes of checked steps is a loop of CheckedLoop.
LEMMA SortedNames ==
  ASSUME NEW S, S \subseteq NameSet
  PROVE  \A k \in DOMAIN Sorted(S) : Sorted(S)[k] \in S
BY SortedFacts

\* What IsOtherOp says, of the loops of one part of a namespace.
AreOtherOps(list, s, object) == \A op \in Content(list) : \E n \in NameSet : IsOtherOp(op, s, n, object)

\* The last loop of each part drops what target lacks.
LEMMA DropLoop ==
  ASSUME NEW s, NEW object, NEW n, NEW target, NEW op, IsOtherOp(op, s, n, object)
  PROVE  LET list == When(n \notin target, op)
         IN  IsOps(list) /\ \A x \in Range(list) : IsOtherOp(x, s, n, object) /\ n \notin target
<1>1. IsOps(When(n \notin target, op)) /\ Range(When(n \notin target, op)) = {x \in {op} : n \notin target}
  BY WhenOps DEF IsOtherOp
<1> QED
  BY <1>1

LEMMA SequenceOpType ==
  ASSUME NEW s \in Text, NEW q \in Text, NEW op,
         op \in {CreateSequenceOp(s, q), DropSequenceOp(s, q), AlterSequenceOp(s, q)}
  PROVE  IsOtherOp(op, s, q, "sequence") /\ op \in Operation
<1>1. /\ {"create_sequence", "drop_sequence", "alter_sequence"} \subseteq OtherKinds
      /\ "sequence" \in ObjectKinds
  BY DEF OtherKinds, Leads, Kinds, PreDeployKinds, DeployKinds, PostDeployKinds, ObjectKinds
<1>2. \A kind \in OtherKinds, destructive \in BOOLEAN :
        IsOtherOp(SequenceOp(kind, s, q, destructive), s, q, "sequence")
  BY <1>1, OtherOpType DEF SequenceOp
<1>3. IsOtherOp(op, s, q, "sequence")
  BY <1>1, <1>2 DEF CreateSequenceOp, DropSequenceOp, AlterSequenceOp
<1> QED
  BY <1>3 DEF IsOtherOp

LEMMA diffSequencesSteps ==
  ASSUME NEW s \in Text, NEW source, NEW target,
         DOMAIN source \subseteq NameSet, DOMAIN target \subseteq NameSet
  PROVE  /\ IsSteps(diffSequences(s, source, target))
         /\ AreOtherOps(diffSequences(s, source, target), s, "sequence")
<1> DEFINE F1 == [q \in DOMAIN target |->
                    IF q \notin DOMAIN source THEN <<CreateSequenceOp(s, q)>>
                    ELSE When(source[q] # target[q], AlterSequenceOp(s, q))]
           F2 == [q \in DOMAIN source |-> When(q \notin DOMAIN target, DropSequenceOp(s, q))]
           a == CheckedLoop(DOMAIN target, F1)
           b == CheckedLoop(DOMAIN source, F2)
<1>1. diffSequences(s, source, target) = a \o b
  BY SortedNames, Zenon DEF diffSequences, Each, CheckedLoop
<1>2. NameSet \subseteq Text
  BY NameFacts
<1>3. \A q \in DOMAIN target : IsOps(F1[q]) /\ \A op \in Range(F1[q]) : IsOtherOp(op, s, q, "sequence")
  BY <1>2, SequenceOpType, OneOp, WhenOps
<1>4. \A q \in DOMAIN source :
        IsOps(F2[q]) /\ \A op \in Range(F2[q]) : IsOtherOp(op, s, q, "sequence") /\ q \notin DOMAIN target
  <2>1. \A q \in DOMAIN source : IsOtherOp(DropSequenceOp(s, q), s, q, "sequence")
    BY <1>2, SequenceOpType
  <2> QED
    BY <2>1, DropLoop
<1> HIDE DEF F1, F2
<1>5. IsSteps(a) /\ \A op \in Content(a) : \E q \in DOMAIN target : IsOtherOp(op, s, q, "sequence")
  BY <1>3, OtherLoop
<1>6. /\ IsSteps(b)
      /\ \A op \in Content(b) : \E q \in DOMAIN source : IsOtherOp(op, s, q, "sequence") /\ q \notin DOMAIN target
  BY <1>4, OtherLoop
<1> HIDE DEF a, b
<1>7. /\ \A y \in Content(b) : y.kind \in OtherKinds
      /\ \A x \in Content(a), y \in Content(b) : x # y
  <2>1. \A x \in Content(a) : x.key.path[1] \in DOMAIN target
    BY <1>5 DEF IsOtherOp
  <2>2. \A y \in Content(b) : y.key.path[1] \notin DOMAIN target /\ y.kind \in OtherKinds
    BY <1>6 DEF IsOtherOp
  <2> QED
    BY <2>1, <2>2
<1>8. IsSteps(a \o b) /\ Content(a \o b) = Content(a) \cup Content(b)
  BY <1>5, <1>6, <1>7, OtherConcat
<1> QED
  BY <1>1, <1>5, <1>6, <1>8 DEF AreOtherOps

LEMMA ExtensionOpType ==
  ASSUME NEW s \in Text, NEW e \in Text, NEW op,
         op \in {CreateExtensionOp(s, e), DropExtensionOp(s, e), AlterExtensionUpdateOp(s, e)}
  PROVE  IsOtherOp(op, s, e, "extension") /\ op \in Operation
<1>1. /\ {"create_extension", "drop_extension", "alter_extension_update"} \subseteq OtherKinds
      /\ "extension" \in ObjectKinds
  BY DEF OtherKinds, Leads, Kinds, PreDeployKinds, DeployKinds, PostDeployKinds, ObjectKinds
<1>2. \A kind \in OtherKinds, destructive \in BOOLEAN :
        IsOtherOp(ExtensionOp(kind, s, e, destructive), s, e, "extension")
  BY <1>1, OtherOpType DEF ExtensionOp
<1>3. IsOtherOp(op, s, e, "extension")
  BY <1>1, <1>2 DEF CreateExtensionOp, DropExtensionOp, AlterExtensionUpdateOp
<1> QED
  BY <1>3 DEF IsOtherOp

LEMMA diffExtensionsSteps ==
  ASSUME NEW s \in Text, NEW source, NEW target,
         DOMAIN source \subseteq NameSet, DOMAIN target \subseteq NameSet
  PROVE  /\ IsSteps(diffExtensions(s, source, target))
         /\ AreOtherOps(diffExtensions(s, source, target), s, "extension")
<1> DEFINE F1 == [e \in DOMAIN target |->
                    IF e \notin DOMAIN source THEN <<CreateExtensionOp(s, e)>>
                    ELSE When("unknown" \notin {source[e], target[e]} /\ source[e] # target[e],
                              AlterExtensionUpdateOp(s, e))]
           F2 == [e \in DOMAIN source |-> When(e \notin DOMAIN target, DropExtensionOp(s, e))]
           a == CheckedLoop(DOMAIN target, F1)
           b == CheckedLoop(DOMAIN source, F2)
<1>1. diffExtensions(s, source, target) = a \o b
  BY SortedNames, Zenon DEF diffExtensions, Each, CheckedLoop
<1>2. NameSet \subseteq Text
  BY NameFacts
<1>3. \A e \in DOMAIN target : IsOps(F1[e]) /\ \A op \in Range(F1[e]) : IsOtherOp(op, s, e, "extension")
  BY <1>2, ExtensionOpType, OneOp, WhenOps
<1>4. \A e \in DOMAIN source :
        IsOps(F2[e]) /\ \A op \in Range(F2[e]) : IsOtherOp(op, s, e, "extension") /\ e \notin DOMAIN target
  <2>1. \A e \in DOMAIN source : IsOtherOp(DropExtensionOp(s, e), s, e, "extension")
    BY <1>2, ExtensionOpType
  <2> QED
    BY <2>1, DropLoop
<1> HIDE DEF F1, F2
<1>5. IsSteps(a) /\ \A op \in Content(a) : \E e \in DOMAIN target : IsOtherOp(op, s, e, "extension")
  BY <1>3, OtherLoop
<1>6. /\ IsSteps(b)
      /\ \A op \in Content(b) : \E e \in DOMAIN source : IsOtherOp(op, s, e, "extension") /\ e \notin DOMAIN target
  BY <1>4, OtherLoop
<1> HIDE DEF a, b
<1>7. /\ \A y \in Content(b) : y.kind \in OtherKinds
      /\ \A x \in Content(a), y \in Content(b) : x # y
  <2>1. \A x \in Content(a) : x.key.path[1] \in DOMAIN target
    BY <1>5 DEF IsOtherOp
  <2>2. \A y \in Content(b) : y.key.path[1] \notin DOMAIN target /\ y.kind \in OtherKinds
    BY <1>6 DEF IsOtherOp
  <2> QED
    BY <2>1, <2>2
<1>8. IsSteps(a \o b) /\ Content(a \o b) = Content(a) \cup Content(b)
  BY <1>5, <1>6, <1>7, OtherConcat
<1> QED
  BY <1>1, <1>5, <1>6, <1>8 DEF AreOtherOps

DropViewKinds == {"drop_view", "drop_materialized_view"}

LEMMA ViewOpType ==
  ASSUME NEW s \in Text, NEW v \in Text, NEW view, NEW isRecreate \in BOOLEAN
  PROVE  /\ IsOtherOp(CreateAnyViewOp(s, v, view), s, v, "view")
         /\ IsOtherOp(DropAnyViewOp(s, v, view, isRecreate), s, v, "view")
         /\ IsOtherOp(ReplaceViewOp(s, v), s, v, "view")
         /\ CreateAnyViewOp(s, v, view).kind \notin DropViewKinds
         /\ DropAnyViewOp(s, v, view, isRecreate).kind \in DropViewKinds
<1>1. /\ {"create_view", "create_materialized_view", "drop_view", "drop_materialized_view",
          "replace_view"} \subseteq OtherKinds
      /\ "view" \in ObjectKinds
  BY DEF OtherKinds, Leads, Kinds, PreDeployKinds, DeployKinds, PostDeployKinds, ObjectKinds
<1>2. \A kind \in OtherKinds, destructive \in BOOLEAN :
        /\ IsOtherOp(ViewOp(kind, s, v, destructive), s, v, "view")
        /\ ViewOp(kind, s, v, destructive).kind = kind
  BY <1>1, OtherOpType DEF ViewOp
<1>3. \A op \in {CreateViewOp(s, v), CreateMaterializedViewOp(s, v)} :
        IsOtherOp(op, s, v, "view") /\ op.kind \notin DropViewKinds
  BY <1>1, <1>2 DEF CreateViewOp, CreateMaterializedViewOp, DropViewKinds
<1>4. \A op \in {DropViewOp(s, v, isRecreate), DropMaterializedViewOp(s, v)} :
        IsOtherOp(op, s, v, "view") /\ op.kind \in DropViewKinds
  BY <1>1, <1>2 DEF DropViewOp, DropMaterializedViewOp, DropViewKinds
<1>5. IsOtherOp(ReplaceViewOp(s, v), s, v, "view")
  BY <1>1, <1>2 DEF ReplaceViewOp
<1> QED
  BY <1>3, <1>4, <1>5 DEF CreateAnyViewOp, DropAnyViewOp

LEMMA diffViewOps ==
  ASSUME NEW s \in Text, NEW v \in Text, NEW source, NEW target
  PROVE  /\ IsOps(diffView(s, v, source, target))
         /\ \A op \in Range(diffView(s, v, source, target)) : IsOtherOp(op, s, v, "view")
<1> DEFINE drop == DropAnyViewOp(s, v, source, TRUE)
           create == CreateAnyViewOp(s, v, target)
           again == source.materialized # target.materialized
                      \/ (source.definition # target.definition /\ target.materialized)
<1>1. /\ IsOtherOp(drop, s, v, "view") /\ IsOtherOp(create, s, v, "view") /\ drop # create
      /\ IsOtherOp(ReplaceViewOp(s, v), s, v, "view")
  BY ViewOpType
<1>2. diffView(s, v, source, target) =
        IF again THEN <<drop, create>>
        ELSE When(source.definition # target.definition, ReplaceViewOp(s, v))
  BY DEF diffView
<1> HIDE DEF drop, create, again
<1>3. drop \in Operation /\ create \in Operation /\ ReplaceViewOp(s, v) \in Operation
  BY <1>1 DEF IsOtherOp
<1>4. CASE again
  BY <1>1, <1>2, <1>3, <1>4, TwoOps
<1>5. CASE ~again
  BY <1>1, <1>2, <1>3, <1>5, WhenOps
<1> QED
  BY <1>4, <1>5

LEMMA diffViewsSteps ==
  ASSUME NEW s \in Text, NEW source, NEW target,
         DOMAIN source \subseteq NameSet, DOMAIN target \subseteq NameSet
  PROVE  /\ IsSteps(diffViews(s, source, target))
         /\ AreOtherOps(diffViews(s, source, target), s, "view")
<1> DEFINE F1 == [v \in DOMAIN target |->
                    IF v \in DOMAIN source THEN diffView(s, v, source[v], target[v])
                    ELSE <<CreateAnyViewOp(s, v, target[v])>>]
           Drop(v) == DropAnyViewOp(s, v, source[v], FALSE)
           F2 == [v \in DOMAIN source |-> When(v \notin DOMAIN target, Drop(v))]
           a == CheckedLoop(DOMAIN target, F1)
           b == CheckedLoop(DOMAIN source, F2)
<1>1. diffViews(s, source, target) = a \o b
  BY SortedNames, Zenon DEF diffViews, Each, CheckedLoop
<1>2. NameSet \subseteq Text
  BY NameFacts
<1>3. \A v \in DOMAIN target : IsOps(F1[v]) /\ \A op \in Range(F1[v]) : IsOtherOp(op, s, v, "view")
  <2>1. \A v \in DOMAIN target :
          /\ IsOtherOp(CreateAnyViewOp(s, v, target[v]), s, v, "view")
          /\ CreateAnyViewOp(s, v, target[v]) \in Operation
    <3>1. \A v \in DOMAIN target : IsOtherOp(CreateAnyViewOp(s, v, target[v]), s, v, "view")
      BY <1>2, ViewOpType
    <3> QED
      BY <3>1 DEF IsOtherOp
  <2>2. \A v \in DOMAIN target \cap DOMAIN source :
          /\ IsOps(diffView(s, v, source[v], target[v]))
          /\ \A op \in Range(diffView(s, v, source[v], target[v])) : IsOtherOp(op, s, v, "view")
    BY <1>2, diffViewOps
  <2> QED
    BY <2>1, <2>2, OneOp
<1>4. \A v \in DOMAIN source :
        IsOps(F2[v]) /\ \A op \in Range(F2[v]) : IsOtherOp(op, s, v, "view") /\ v \notin DOMAIN target
  <2>1. \A v \in DOMAIN source : IsOtherOp(Drop(v), s, v, "view")
    BY <1>2, ViewOpType
  <2> HIDE DEF Drop
  <2> QED
    BY <2>1, DropLoop
<1> HIDE DEF F1, F2
<1>5. IsSteps(a) /\ \A op \in Content(a) : \E v \in DOMAIN target : IsOtherOp(op, s, v, "view")
  BY <1>3, OtherLoop
<1>6. /\ IsSteps(b)
      /\ \A op \in Content(b) : \E v \in DOMAIN source : IsOtherOp(op, s, v, "view") /\ v \notin DOMAIN target
  BY <1>4, OtherLoop
<1> HIDE DEF a, b
<1>7. /\ \A y \in Content(b) : y.kind \in OtherKinds
      /\ \A x \in Content(a), y \in Content(b) : x # y
  <2>1. \A x \in Content(a) : x.key.path[1] \in DOMAIN target
    BY <1>5 DEF IsOtherOp
  <2>2. \A y \in Content(b) : y.key.path[1] \notin DOMAIN target /\ y.kind \in OtherKinds
    BY <1>6 DEF IsOtherOp
  <2> QED
    BY <2>1, <2>2
<1>8. IsSteps(a \o b) /\ Content(a \o b) = Content(a) \cup Content(b)
  BY <1>5, <1>6, <1>7, OtherConcat
<1> QED
  BY <1>1, <1>5, <1>6, <1>8 DEF AreOtherOps

LEMMA TypeOpType ==
  ASSUME NEW s \in Text, NEW n \in Text
  PROVE  /\ IsOtherOp(AddEnumTypeOp(s, n), s, n, "type") /\ AddEnumTypeOp(s, n).kind = "add_enum_type"
         /\ IsOtherOp(DropEnumTypeOp(s, n), s, n, "type") /\ DropEnumTypeOp(s, n).kind = "drop_enum_type"
<1>1. /\ {"add_enum_type", "drop_enum_type"} \subseteq OtherKinds /\ "type" \in ObjectKinds
  BY DEF OtherKinds, Leads, Kinds, PreDeployKinds, DeployKinds, PostDeployKinds, ObjectKinds
<1>2. \A kind \in {"add_enum_type", "drop_enum_type"}, destructive \in BOOLEAN :
        /\ IsOtherOp(Op(kind, TypeKey(s, n), <<>>, destructive), s, n, "type")
        /\ Op(kind, TypeKey(s, n), <<>>, destructive).kind = kind
  BY <1>1, OtherOpType DEF TypeKey
<1> QED
  BY <1>2 DEF AddEnumTypeOp, DropEnumTypeOp

LEMMA LabelOpType ==
  ASSUME NEW s \in Text, NEW n \in Text, NEW label \in Text
  PROVE  /\ IsOtherOp(AddEnumLabelOp(s, n, label), s, n, "type")
         /\ AddEnumLabelOp(s, n, label).kind = "add_enum_label"
         /\ AddEnumLabelOp(s, n, label).key.path[2] = label
<1> DEFINE key == Key(s, <<n, label>>, "type")
<1>1. /\ <<n, label>> \in Seq(Text) /\ <<n, label>>[1] = n /\ <<n, label>>[2] = label
      /\ Len(<<n, label>>) = 2 /\ <<n>> \in Seq(Text)
  OBVIOUS
<1>2. "type" \in ObjectKinds /\ "add_enum_label" \in OtherKinds /\ "add_enum_label" \in Kinds
  BY DEF OtherKinds, Leads, Kinds, PreDeployKinds, ObjectKinds
<1>3. key \in Keys /\ key.schema = s /\ key.kind = "type" /\ key.path = <<n, label>>
  BY <1>1, <1>2, KeysAre DEF Key
<1>4. TypeKey(s, n) \in Keys
  BY <1>1, <1>2, KeysAre DEF TypeKey, Key
<1>5. AddEnumLabelOp(s, n, label) = Op("add_enum_label", key, <<TypeKey(s, n)>>, FALSE)
  BY DEF AddEnumLabelOp
<1> HIDE DEF key
<1>6. /\ AddEnumLabelOp(s, n, label) \in Operation /\ AddEnumLabelOp(s, n, label).kind = "add_enum_label"
      /\ AddEnumLabelOp(s, n, label).key = key
      /\ AddEnumLabelOp(s, n, label).dependsOn = <<TypeKey(s, n)>>
  BY <1>2, <1>3, <1>4, <1>5 DEF Op, Operation
<1> QED
  BY <1>1, <1>2, <1>3, <1>6 DEF IsOtherOp, TypeKey

\* The labels of a type differ, so those appended to it do.
LEMMA diffEnumTypeOps ==
  ASSUME NEW s \in Text, NEW n \in Text, NEW old \in Seq(STRING), NEW new \in Seq(STRING), IsInjective(new)
  PROVE  /\ IsOps(diffEnumType(s, n, old, new))
         /\ \A op \in Range(diffEnumType(s, n, old, new)) :
              IsOtherOp(op, s, n, "type") /\ op.kind = "add_enum_label"
<1>1. CASE ~isEnumAppend(old, new)
  BY <1>1, NoOps DEF diffEnumType
<1>2. CASE isEnumAppend(old, new)
  <2> DEFINE more == Len(new) - Len(old)
             list == [k \in 1..more |-> AddEnumLabelOp(s, n, new[Len(old) + k])]
  <2>1. diffEnumType(s, n, old, new) = list
    BY <1>2 DEF diffEnumType
  <2>2. more \in Nat /\ \A k \in 1..more : Len(old) + k \in DOMAIN new
    BY <1>2 DEF isEnumAppend, IsStrictPrefix, IsPrefix
  <2>3. \A k \in 1..more : new[Len(old) + k] \in Text
    BY <2>2 DEF Text
  <2>4. \A k, l \in 1..more : new[Len(old) + k] = new[Len(old) + l] => k = l
    BY <2>2 DEF IsInjective
  <2>5. DOMAIN list = 1..more /\ \A k \in 1..more : list[k] = AddEnumLabelOp(s, n, new[Len(old) + k])
    OBVIOUS
  <2>6. list = [k \in 1..more |-> list[k]]
    OBVIOUS
  <2> HIDE DEF more, list
  <2>7. \A k \in 1..more : /\ IsOtherOp(list[k], s, n, "type") /\ list[k].kind = "add_enum_label"
                           /\ list[k].key.path[2] = new[Len(old) + k]
    BY <2>3, <2>5, LabelOpType
  <2>8. \A k \in 1..more : list[k] \in Operation
    BY <2>7 DEF IsOtherOp
  <2>9. list \in Seq(Operation)
    <3>1. more \in Nat
      BY <2>2
    <3> QED
      BY <2>6, <2>8, <3>1
  <2>10. IsInjective(list)
    BY <2>4, <2>5, <2>7 DEF IsInjective
  <2>11. \A op \in Range(list) : IsOtherOp(op, s, n, "type") /\ op.kind = "add_enum_label"
    BY <2>5, <2>7 DEF Range
  <2> QED
    BY <2>1, <2>9, <2>10, <2>11 DEF IsOps
<1> QED
  BY <1>1, <1>2

LEMMA diffTypesSteps ==
  ASSUME NEW s \in Text, NEW source, NEW target,
         DOMAIN source \subseteq NameSet, DOMAIN target \subseteq NameSet,
         \A n \in DOMAIN source : source[n] \in Seq(STRING),
         \A n \in DOMAIN target : target[n] \in Seq(STRING) /\ IsInjective(target[n])
  PROVE  /\ IsSteps(diffTypes(s, source, target))
         /\ AreOtherOps(diffTypes(s, source, target), s, "type")
<1> DEFINE F1 == [n \in DOMAIN target |-> When(n \notin DOMAIN source, AddEnumTypeOp(s, n))]
           F2 == [n \in DOMAIN target |->
                    IF n \in DOMAIN source THEN diffEnumType(s, n, source[n], target[n]) ELSE <<>>]
           F3 == [n \in DOMAIN source |-> When(n \notin DOMAIN target, DropEnumTypeOp(s, n))]
           a == CheckedLoop(DOMAIN target, F1)
           b == CheckedLoop(DOMAIN target, F2)
           d == CheckedLoop(DOMAIN source, F3)
           Of(op, n, kind) == IsOtherOp(op, s, n, "type") /\ op.kind = kind
<1>1. diffTypes(s, source, target) = a \o b \o d
  BY SortedNames, Zenon DEF diffTypes, Each, CheckedLoop
<1>2. NameSet \subseteq Text
  BY NameFacts
<1>3. \A n \in DOMAIN target : IsOps(F1[n]) /\ \A op \in Range(F1[n]) : Of(op, n, "add_enum_type")
  <2>1. \A n \in DOMAIN target : Of(AddEnumTypeOp(s, n), n, "add_enum_type")
    BY <1>2, TypeOpType
  <2>2. \A n \in DOMAIN target : AddEnumTypeOp(s, n) \in Operation
    BY <2>1 DEF IsOtherOp
  <2> QED
    BY <2>1, <2>2, WhenOps
<1>4. \A n \in DOMAIN target : IsOps(F2[n]) /\ \A op \in Range(F2[n]) : Of(op, n, "add_enum_label")
  <2>1. \A n \in DOMAIN target \cap DOMAIN source :
          /\ IsOps(diffEnumType(s, n, source[n], target[n]))
          /\ \A op \in Range(diffEnumType(s, n, source[n], target[n])) : Of(op, n, "add_enum_label")
    BY <1>2, diffEnumTypeOps
  <2> QED
    BY <2>1, NoOps
<1>5. \A n \in DOMAIN source : IsOps(F3[n]) /\ \A op \in Range(F3[n]) : Of(op, n, "drop_enum_type")
  <2>1. \A n \in DOMAIN source : Of(DropEnumTypeOp(s, n), n, "drop_enum_type")
    BY <1>2, TypeOpType
  <2>2. \A n \in DOMAIN source : DropEnumTypeOp(s, n) \in Operation
    BY <2>1 DEF IsOtherOp
  <2> QED
    BY <2>1, <2>2, WhenOps
<1> HIDE DEF F1, F2, F3
<1>6. IsSteps(a) /\ \A op \in Content(a) : \E n \in NameSet : Of(op, n, "add_enum_type")
  <2>1. IsSteps(a) /\ \A op \in Content(a) : \E n \in DOMAIN target : op \in Range(F1[n])
    BY <1>3, OtherLoop
  <2> QED
    BY <1>3, <2>1
<1>7. IsSteps(b) /\ \A op \in Content(b) : \E n \in NameSet : Of(op, n, "add_enum_label")
  <2>1. IsSteps(b) /\ \A op \in Content(b) : \E n \in DOMAIN target : op \in Range(F2[n])
    BY <1>4, OtherLoop
  <2> QED
    BY <1>4, <2>1
<1>8. IsSteps(d) /\ \A op \in Content(d) : \E n \in NameSet : Of(op, n, "drop_enum_type")
  <2>1. IsSteps(d) /\ \A op \in Content(d) : \E n \in DOMAIN source : op \in Range(F3[n])
    BY <1>5, OtherLoop
  <2> QED
    BY <1>5, <2>1
<1> HIDE DEF a, b, d
<1>9. IsSteps(a \o b) /\ Content(a \o b) = Content(a) \cup Content(b)
  <2>1. /\ \A y \in Content(b) : y.kind \in OtherKinds
        /\ \A x \in Content(a), y \in Content(b) : x # y
    BY <1>6, <1>7 DEF IsOtherOp
  <2> QED
    BY <1>6, <1>7, <2>1, OtherConcat
<1>10. IsSteps(a \o b \o d) /\ Content(a \o b \o d) = Content(a \o b) \cup Content(d)
  <2>1. /\ \A y \in Content(d) : y.kind \in OtherKinds
        /\ \A x \in Content(a \o b), y \in Content(d) : x # y
    BY <1>6, <1>7, <1>8, <1>9 DEF IsOtherOp
  <2> QED
    BY <1>8, <1>9, <2>1, OtherConcat
<1> QED
  BY <1>1, <1>6, <1>7, <1>8, <1>9, <1>10 DEF AreOtherOps

----------------------------------------------------------------------------
(* Namespaces.                                                             *)

\* No two tables have indexes of one name.
IndexesDiffer(tables) ==
  \A t, u \in DOMAIN tables : DOMAIN tables[t].indexes \cap DOMAIN tables[u].indexes # {} => t = u

\* op is about something in the namespace.
IsNamespaceOp(op, s, source, target) ==
  \/ IsTablesOp(op, s, source.tables, target.tables)
  \/ \E object \in {"type", "view", "sequence", "extension"} :
       \E n \in NameSet : IsOtherOp(op, s, n, object)

LEMMA EmptyNamespaceFacts ==
  IsNamespace(EmptyNamespace) /\ IndexesDiffer(EmptyNamespace.tables) /\ EmptyNamespace.tables = <<>>
<1>1. DOMAIN <<>> = {}
  OBVIOUS
<1>2. /\ EmptyNamespace.tables = <<>> /\ EmptyNamespace.types = <<>> /\ EmptyNamespace.views = <<>>
      /\ EmptyNamespace.sequences = <<>> /\ EmptyNamespace.extensions = <<>>
  BY DEF EmptyNamespace
<1> QED
  BY <1>1, <1>2 DEF IsNamespace, IsNamed, IndexesDiffer

LEMMA TablesOpFacts ==
  ASSUME NEW s \in Text, NEW source, NEW target,
         DOMAIN source \subseteq NameSet, DOMAIN target \subseteq NameSet,
         \A t \in DOMAIN target : IsTable(target[t]),
         NEW op, IsTablesOp(op, s, source, target)
  PROVE  /\ op.key.schema = s /\ op.key.kind \in {"table", "column", "index", "constraint"}
         /\ op.kind # "create_schema"
         /\ op.kind \in {"add_column", "add_index", "add_constraint"} =>
              \E t \in DOMAIN source \cap DOMAIN target :
                IsPartOp(op, s, t, DOMAIN source[t].indexes) /\ op.dependsOn[1] = TableKey(s, t)
<1>1. NameSet \subseteq Text
  BY NameFacts
<1>2. CASE \E t \in DOMAIN target \ DOMAIN source : op = AddTableOp(s, t, target[t])
  BY <1>1, <1>2, AddTableOpType, TableKeyFacts
<1>3. CASE \E t \in DOMAIN source \ DOMAIN target : op = DropTableOp(s, t)
  BY <1>1, <1>3, DropTableOpType, TableKeyFacts
<1>4. CASE \E t \in DOMAIN source \cap DOMAIN target : IsPartOp(op, s, t, DOMAIN source[t].indexes)
  <2>1. PICK t \in DOMAIN source \cap DOMAIN target : IsPartOp(op, s, t, DOMAIN source[t].indexes)
    BY <1>4
  <2>2. CASE IsColumnOp(op, s, t)
    BY <2>1, <2>2 DEF IsColumnOp, ColumnKinds, FieldKinds
  <2>3. CASE IsIndexOp(op, s, t, DOMAIN source[t].indexes)
    BY <2>1, <2>3 DEF IsIndexOp
  <2>4. CASE IsConstraintOp(op, s, t)
    BY <2>1, <2>4 DEF IsConstraintOp
  <2> QED
    BY <2>1, <2>2, <2>3, <2>4 DEF IsPartOp
<1> QED
  BY <1>2, <1>3, <1>4 DEF IsTablesOp

\* One more part of a namespace.
LEMMA NextPart ==
  ASSUME NEW s, NEW object, NEW a, IsSteps(a), \A op \in Content(a) : op.key.kind # object,
         NEW b, IsSteps(b), AreOtherOps(b, s, object)
  PROVE  IsSteps(a \o b) /\ Content(a \o b) = Content(a) \cup Content(b)
<1>1. \A op \in Content(b) : op.kind \in OtherKinds /\ op.key.kind = object
  BY DEF AreOtherOps, IsOtherOp
<1>2. /\ \A y \in Content(b) : y.kind \in OtherKinds
      /\ \A x \in Content(a), y \in Content(b) : x # y
  BY <1>1
<1> QED
  BY <1>2, OtherConcat

LEMMA diffNamespaceSteps ==
  ASSUME NEW s \in NameSet, NEW source, NEW target, IsNamespace(source), IsNamespace(target),
         IndexesDiffer(source.tables)
  PROVE  /\ IsSteps(diffNamespace(s, source, target))
         /\ \A op \in Content(diffNamespace(s, source, target)) : IsNamespaceOp(op, s, source, target)
<1> DEFINE tables == diffTables(s, source.tables, target.tables)
           types == diffTypes(s, source.types, target.types)
           views == diffViews(s, source.views, target.views)
           sequences == diffSequences(s, source.sequences, target.sequences)
           extensions == diffExtensions(s, source.extensions, target.extensions)
           a == In(<<"diffTables", s>>, tables)
           b == In(<<"diffTypes", s>>, types)
           d == In(<<"diffViews", s>>, views)
           e == In(<<"diffSequences", s>>, sequences)
           f == In(<<"diffExtensions", s>>, extensions)
<1>1. diffNamespace(s, source, target) = a \o b \o d \o e \o f
  BY DEF diffNamespace
<1>2. s \in Text
  BY NameFacts
<1>3. /\ DOMAIN source.tables \subseteq NameSet /\ DOMAIN target.tables \subseteq NameSet
      /\ DOMAIN source.types \subseteq NameSet /\ DOMAIN target.types \subseteq NameSet
      /\ DOMAIN source.views \subseteq NameSet /\ DOMAIN target.views \subseteq NameSet
      /\ DOMAIN source.sequences \subseteq NameSet /\ DOMAIN target.sequences \subseteq NameSet
      /\ DOMAIN source.extensions \subseteq NameSet /\ DOMAIN target.extensions \subseteq NameSet
  BY DEF IsNamespace, IsNamed, NameSet
<1>4. /\ \A t \in DOMAIN source.tables : IsTable(source.tables[t])
      /\ \A t \in DOMAIN target.tables : IsTable(target.tables[t])
      /\ \A n \in DOMAIN source.types : source.types[n] \in Seq(STRING)
      /\ \A n \in DOMAIN target.types : target.types[n] \in Seq(STRING) /\ IsInjective(target.types[n])
  BY DEF IsNamespace
<1>5. /\ <<"diffTables", s>> \in Calls /\ <<"diffTypes", s>> \in Calls /\ <<"diffViews", s>> \in Calls
      /\ <<"diffSequences", s>> \in Calls /\ <<"diffExtensions", s>> \in Calls
  BY DEF Calls
<1>6. /\ IsSteps(a)
      /\ \A op \in Content(a) : IsTablesOp(op, s, source.tables, target.tables)
  <2>1. IsSteps(tables) /\ \A op \in Content(tables) : IsTablesOp(op, s, source.tables, target.tables)
    BY <1>3, <1>4, diffTablesSteps DEF IndexesDiffer
  <2> QED
    BY <1>5, <2>1, InSteps
<1>7. \A op \in Content(a) : op.key.kind \notin {"type", "view", "sequence", "extension"}
  <2>1. \A op \in Content(a) : op.key.kind \in {"table", "column", "index", "constraint"}
    BY <1>2, <1>3, <1>4, <1>6, TablesOpFacts
  <2> QED
    BY <2>1
<1>8. IsSteps(b) /\ AreOtherOps(b, s, "type")
  <2>1. IsSteps(types) /\ AreOtherOps(types, s, "type")
    BY <1>2, <1>3, <1>4, diffTypesSteps
  <2> QED
    BY <1>5, <2>1, InSteps DEF AreOtherOps
<1>9. IsSteps(d) /\ AreOtherOps(d, s, "view")
  <2>1. IsSteps(views) /\ AreOtherOps(views, s, "view")
    BY <1>2, <1>3, diffViewsSteps
  <2> QED
    BY <1>5, <2>1, InSteps DEF AreOtherOps
<1>10. IsSteps(e) /\ AreOtherOps(e, s, "sequence")
  <2>1. IsSteps(sequences) /\ AreOtherOps(sequences, s, "sequence")
    BY <1>2, <1>3, diffSequencesSteps
  <2> QED
    BY <1>5, <2>1, InSteps DEF AreOtherOps
<1>11. IsSteps(f) /\ AreOtherOps(f, s, "extension")
  <2>1. IsSteps(extensions) /\ AreOtherOps(extensions, s, "extension")
    BY <1>2, <1>3, diffExtensionsSteps
  <2> QED
    BY <1>5, <2>1, InSteps DEF AreOtherOps
<1> HIDE DEF a, b, d, e, f
<1>12. \A op \in Content(b) \cup Content(d) \cup Content(e) \cup Content(f) :
         /\ op \in Content(b) => op.key.kind = "type"
         /\ op \in Content(d) => op.key.kind = "view"
         /\ op \in Content(e) => op.key.kind = "sequence"
         /\ op \in Content(f) => op.key.kind = "extension"
  BY <1>8, <1>9, <1>10, <1>11 DEF AreOtherOps, IsOtherOp
<1>13. IsSteps(a \o b) /\ Content(a \o b) = Content(a) \cup Content(b)
  BY <1>6, <1>7, <1>8, NextPart
<1>14. IsSteps(a \o b \o d) /\ Content(a \o b \o d) = Content(a \o b) \cup Content(d)
  <2>1. \A op \in Content(a \o b) : op.key.kind # "view"
    BY <1>7, <1>12, <1>13
  <2> QED
    BY <1>9, <1>13, <2>1, NextPart
<1>15. IsSteps(a \o b \o d \o e) /\ Content(a \o b \o d \o e) = Content(a \o b \o d) \cup Content(e)
  <2>1. \A op \in Content(a \o b \o d) : op.key.kind # "sequence"
    BY <1>7, <1>12, <1>13, <1>14
  <2> QED
    BY <1>10, <1>14, <2>1, NextPart
<1>16. /\ IsSteps(a \o b \o d \o e \o f)
       /\ Content(a \o b \o d \o e \o f) = Content(a \o b \o d \o e) \cup Content(f)
  <2>1. \A op \in Content(a \o b \o d \o e) : op.key.kind # "extension"
    BY <1>7, <1>12, <1>13, <1>14, <1>15
  <2> QED
    BY <1>11, <1>15, <2>1, NextPart
<1>17. \A op \in Content(b) \cup Content(d) \cup Content(e) \cup Content(f) :
         IsNamespaceOp(op, s, source, target)
  BY <1>8, <1>9, <1>10, <1>11 DEF AreOtherOps, IsNamespaceOp
<1>18. \A op \in Content(a) : IsNamespaceOp(op, s, source, target)
  BY <1>6 DEF IsNamespaceOp
<1> QED
  BY <1>1, <1>13, <1>14, <1>15, <1>16, <1>17, <1>18

----------------------------------------------------------------------------
(* Schemas.                                                                *)

\* op is about a namespace of target, with all there is in it.
IsSchemaOp(op, s, source, target) ==
  IF s \in DOMAIN source THEN IsNamespaceOp(op, s, source[s], target[s])
  ELSE op = CreateSchemaOp(s) \/ IsNamespaceOp(op, s, EmptyNamespace, target[s])

LEMMA SchemaOpType ==
  ASSUME NEW s \in Text
  PROVE  /\ CreateSchemaOp(s) \in Operation /\ CreateSchemaOp(s).kind = "create_schema"
         /\ DropSchemaOp(s) \in Operation /\ DropSchemaOp(s).kind = "drop_schema"
         /\ CreateSchemaOp(s).key = Key(s, <<>>, "schema") /\ DropSchemaOp(s).key = Key(s, <<>>, "schema")
         /\ CreateSchemaOp(s).dependsOn = <<>> /\ DropSchemaOp(s).dependsOn = <<>>
         /\ Key(s, <<>>, "schema").schema = s /\ Key(s, <<>>, "schema").kind = "schema"
<1> DEFINE key == Key(s, <<>>, "schema")
<1>1. <<>> \in Seq(Text) /\ <<>> \in Seq(Keys) /\ "schema" \in ObjectKinds
  BY DEF ObjectKinds
<1>2. {"create_schema", "drop_schema"} \subseteq Kinds
  BY DEF Kinds, PreDeployKinds, PostDeployKinds
<1>3. key \in Keys /\ key.schema = s /\ key.kind = "schema"
  BY <1>1, KeysAre DEF Key
<1>4. CreateSchemaOp(s) = Op("create_schema", key, <<>>, FALSE) /\ DropSchemaOp(s) = Op("drop_schema", key, <<>>, TRUE)
  BY DEF CreateSchemaOp, DropSchemaOp
<1> HIDE DEF key
<1>5. /\ CreateSchemaOp(s) \in Operation /\ CreateSchemaOp(s).kind = "create_schema"
      /\ DropSchemaOp(s) \in Operation /\ DropSchemaOp(s).kind = "drop_schema"
      /\ CreateSchemaOp(s).key = key /\ DropSchemaOp(s).key = key
      /\ CreateSchemaOp(s).dependsOn = <<>> /\ DropSchemaOp(s).dependsOn = <<>>
  BY <1>1, <1>2, <1>3, <1>4 DEF Op, Operation
<1> QED
  BY <1>3, <1>5 DEF key

LEMMA NamespaceOpFacts ==
  ASSUME NEW s \in NameSet, NEW source, NEW target, IsNamespace(source), IsNamespace(target),
         NEW op, IsNamespaceOp(op, s, source, target)
  PROVE  /\ op.key.schema = s /\ op.key.kind # "schema" /\ op.kind # "create_schema"
         /\ op.kind \in {"add_column", "add_index", "add_constraint"} =>
              \E t \in NameSet : op.dependsOn[1] = TableKey(s, t)
<1>1. CASE IsTablesOp(op, s, source.tables, target.tables)
  <2>1. /\ s \in Text
        /\ DOMAIN source.tables \subseteq NameSet /\ DOMAIN target.tables \subseteq NameSet
        /\ \A t \in DOMAIN target.tables : IsTable(target.tables[t])
    BY NameFacts DEF IsNamespace, IsNamed, NameSet
  <2>2. /\ op.key.schema = s /\ op.key.kind \in {"table", "column", "index", "constraint"}
        /\ op.kind # "create_schema"
        /\ op.kind \in {"add_column", "add_index", "add_constraint"} =>
             \E t \in DOMAIN source.tables \cap DOMAIN target.tables : op.dependsOn[1] = TableKey(s, t)
    BY <1>1, <2>1, TablesOpFacts
  <2> QED
    BY <2>1, <2>2
<1>2. CASE \E object \in {"type", "view", "sequence", "extension"} :
             \E n \in NameSet : IsOtherOp(op, s, n, object)
  BY <1>2 DEF IsOtherOp, OtherKinds, Leads
<1> QED
  BY <1>1, <1>2 DEF IsNamespaceOp

LEMMA SchemaOpFacts ==
  ASSUME NEW source, NEW target, IsSchema(source), IsSchema(target),
         NEW s \in DOMAIN target, NEW op, IsSchemaOp(op, s, source, target)
  PROVE  /\ s \in NameSet /\ op.key.schema = s
         /\ op.kind = "create_schema" => op = CreateSchemaOp(s)
         /\ op.kind \in {"add_column", "add_index", "add_constraint"} =>
              \E t \in NameSet : op.dependsOn[1] = TableKey(s, t)
<1>1. s \in NameSet /\ s \in Text /\ IsNamespace(target[s]) /\ IsNamespace(EmptyNamespace)
  BY NameFacts, EmptyNamespaceFacts DEF IsSchema, IsNamed, NameSet
<1>2. CASE op = CreateSchemaOp(s)
  BY <1>1, <1>2, SchemaOpType
<1>3. CASE s \in DOMAIN source /\ IsNamespaceOp(op, s, source[s], target[s])
  BY <1>1, <1>3, NamespaceOpFacts DEF IsSchema
<1>4. CASE IsNamespaceOp(op, s, EmptyNamespace, target[s])
  BY <1>1, <1>4, NamespaceOpFacts
<1> QED
  BY <1>2, <1>3, <1>4 DEF IsSchemaOp

\* A new namespace is created before all that is put into it.
LEMMA diffSchemaSteps ==
  ASSUME NEW source, NEW target, IsSchema(source), IsSchema(target), IndexNamesDiffer(source),
         NEW s \in DOMAIN target
  PROVE  /\ IsSteps(diffSchema(s, source, target))
         /\ \A op \in Content(diffSchema(s, source, target)) : IsSchemaOp(op, s, source, target)
<1> DEFINE old == IF s \in DOMAIN source THEN source[s] ELSE EmptyNamespace
           first == IF s \in DOMAIN source THEN <<>> ELSE <<CreateSchemaOp(s)>>
           rest == diffNamespace(s, old, target[s])
<1>1. diffSchema(s, source, target) = <<Checked(first)>> \o rest
  BY DEF diffSchema
<1>2. s \in NameSet /\ s \in Text
  BY NameFacts DEF IsSchema, IsNamed, NameSet
<1>3. IsNamespace(old) /\ IsNamespace(target[s]) /\ IndexesDiffer(old.tables)
  <2>1. IsNamespace(target[s])
    BY DEF IsSchema
  <2>2. CASE s \in DOMAIN source
    BY <2>1, <2>2 DEF IsSchema, IndexNamesDiffer, IndexesDiffer
  <2>3. CASE s \notin DOMAIN source
    BY <2>1, <2>3, EmptyNamespaceFacts
  <2> QED
    BY <2>2, <2>3
<1>4. /\ IsOps(first)
      /\ \A op \in Range(first) : s \notin DOMAIN source /\ op = CreateSchemaOp(s)
  <2>1. CreateSchemaOp(s) \in Operation
    BY <1>2, SchemaOpType
  <2> QED
    BY <2>1, NoOps, OneOp
<1>5. \A op : IsNamespaceOp(op, s, old, target[s]) => IsSchemaOp(op, s, source, target)
  BY DEF IsSchemaOp
<1>6. \A op \in Range(first) : IsSchemaOp(op, s, source, target)
  BY <1>4 DEF IsSchemaOp
<1> HIDE DEF first, old
<1>7. IsSteps(rest) /\ \A op \in Content(rest) : IsNamespaceOp(op, s, old, target[s])
  BY <1>2, <1>3, diffNamespaceSteps
<1> HIDE DEF rest
<1>8. Checked(first) \in GoodSteps /\ Added(Checked(first)) = Range(first)
  <2>1. IsFree(Range(first))
    BY <1>4 DEF IsFree, MustPrecede
  <2> QED
    BY <1>4, <2>1, CheckedStep
<1>9. IsSteps(<<Checked(first)>>) /\ Content(<<Checked(first)>>) = Range(first)
  BY <1>8, OneStep
<1>10. MayPrecede(Content(<<Checked(first)>>), Content(rest))
  <2>1. \A x \in Range(first) : x.kind = "create_schema"
    BY <1>2, <1>4, SchemaOpType
  <2>2. \A y \in Content(rest) : y.kind # "create_schema"
    BY <1>2, <1>3, <1>7, NamespaceOpFacts
  <2> QED
    BY <1>9, <2>1, <2>2 DEF MayPrecede, MustPrecede
<1>11. /\ IsSteps(<<Checked(first)>> \o rest)
       /\ Content(<<Checked(first)>> \o rest) = Range(first) \cup Content(rest)
  BY <1>7, <1>9, <1>10, ConcatSteps
<1> QED
  BY <1>1, <1>5, <1>6, <1>7, <1>11

\* Operations about two namespaces need not stand in any order.
LEMMA SchemaOpsFit ==
  ASSUME NEW source, NEW target, IsSchema(source), IsSchema(target),
         NEW m \in DOMAIN target, NEW n \in DOMAIN target, m # n,
         NEW X, \A op \in X : IsSchemaOp(op, m, source, target),
         NEW Y, \A op \in Y : IsSchemaOp(op, n, source, target)
  PROVE  MayPrecede(X, Y)
<1> SUFFICES ASSUME NEW x \in X, NEW y \in Y PROVE x # y /\ ~MustPrecede(y, x)
  BY DEF MayPrecede
<1>1. /\ x.key.schema = m
      /\ x.kind \in {"add_column", "add_index", "add_constraint"} =>
           \E t \in NameSet : x.dependsOn[1] = TableKey(m, t)
  BY SchemaOpFacts
<1>2. /\ y.key.schema = n
      /\ y.kind \in {"add_column", "add_index", "add_constraint"} =>
           \E t \in NameSet : y.dependsOn[1] = TableKey(n, t)
  BY SchemaOpFacts
<1>3. \A t, u \in NameSet : TableKey(m, t) # TableKey(n, u)
  BY DEF TableKey, Key
<1> QED
  BY <1>1, <1>2, <1>3 DEF MustPrecede

\* op is about a namespace of the target, or drops one of the source.
IsListedOp(op, source, target) ==
  \/ \E s \in DOMAIN target : IsSchemaOp(op, s, source, target)
  \/ \E s \in DOMAIN source \ DOMAIN target : op = DropSchemaOp(s)

LEMMA diffSchemasSteps ==
  ASSUME NEW source, NEW target, IsSchema(source), IsSchema(target), IndexNamesDiffer(source)
  PROVE  /\ IsSteps(diffSchemas(source, target))
         /\ \A op \in Content(diffSchemas(source, target)) : IsListedOp(op, source, target)
<1> DEFINE F1 == [s \in DOMAIN target |-> diffSchema(s, source, target)]
           F2 == [s \in DOMAIN source |-> When(s \notin DOMAIN target /\ s # "public", DropSchemaOp(s))]
           a == FlattenSeq(Loop(DOMAIN target, F1))
           b == CheckedLoop(DOMAIN source, F2)
           call == <<"diffSchemas">>
<1>1. DOMAIN source \subseteq NameSet /\ DOMAIN target \subseteq NameSet /\ NameSet \subseteq Text
  BY NameFacts DEF IsSchema, IsNamed, NameSet
<1>2. diffSchemas(source, target) = In(call, a \o b)
  <2>1. \A S : S \subseteq NameSet => \A k \in DOMAIN Sorted(S) : Sorted(S)[k] \in S
    BY SortedNames
  <2>2. Each(DOMAIN target, LAMBDA s : diffSchema(s, source, target)) = Loop(DOMAIN target, F1)
    BY <1>1, <2>1, Zenon DEF Each, Loop
  <2>3. Each(DOMAIN source, LAMBDA s : Checked(When(s \notin DOMAIN target /\ s # "public", DropSchemaOp(s)))) = b
    BY <1>1, <2>1, Zenon DEF Each, CheckedLoop
  <2> QED
    BY <2>2, <2>3, Zenon DEF diffSchemas, EachOp
<1>3. \A s \in DOMAIN target :
        IsSteps(F1[s]) /\ \A op \in Content(F1[s]) : IsSchemaOp(op, s, source, target)
  BY diffSchemaSteps
<1>4. \A s \in DOMAIN source : /\ DropSchemaOp(s) \in Operation /\ DropSchemaOp(s).kind = "drop_schema"
                               /\ DropSchemaOp(s).key.schema = s
  BY <1>1, SchemaOpType
<1>5. \A s \in DOMAIN source :
        IsOps(F2[s]) /\ \A op \in Range(F2[s]) : s \notin DOMAIN target /\ op = DropSchemaOp(s)
  <2> TAKE s \in DOMAIN source
  <2> DEFINE goes == s \notin DOMAIN target /\ s # "public"
             op == DropSchemaOp(s)
  <2>1. F2[s] = When(goes, op) /\ op \in Operation
    BY <1>4
  <2> HIDE DEF F2, op
  <2>2. IsOps(When(goes, op)) /\ Range(When(goes, op)) = {x \in {op} : goes}
    BY <2>1, WhenOps
  <2>3. \A x \in Range(F2[s]) : goes /\ x = op
    BY <2>1, <2>2
  <2> QED
    BY <2>1, <2>2, <2>3 DEF op
<1> HIDE DEF F1, F2
<1>6. IsSteps(a) /\ \A op \in Content(a) : \E s \in DOMAIN target : IsSchemaOp(op, s, source, target)
  <2>1. ASSUME NEW m \in DOMAIN target, NEW n \in DOMAIN target, m # n
        PROVE  MayPrecede(Content(F1[m]), Content(F1[n]))
    BY <1>3, <2>1, SchemaOpsFit
  <2>2. IsSteps(a) /\ Content(a) = UNION {Content(F1[s]) : s \in DOMAIN target}
    BY <1>1, <1>3, <2>1, LoopStepLists
  <2> QED
    BY <1>3, <2>2
<1>7. /\ IsSteps(b)
      /\ \A op \in Content(b) : \E s \in DOMAIN source \ DOMAIN target : op = DropSchemaOp(s)
  <2>1. \A s \in DOMAIN source : \A op \in Range(F2[s]) : op.kind \notin Leads
    BY <1>4, <1>5 DEF Leads
  <2>2. \A m, n \in DOMAIN source : m # n => Range(F2[m]) \cap Range(F2[n]) = {}
    BY <1>4, <1>5
  <2>3. IsSteps(b) /\ Content(b) = UNION {Range(F2[s]) : s \in DOMAIN source}
    BY <1>1, <1>5, <2>1, <2>2, CheckedLoopSteps
  <2> QED
    BY <1>5, <2>3
<1> HIDE DEF a, b
<1>8. IsSteps(a \o b) /\ Content(a \o b) = Content(a) \cup Content(b)
  <2>1. \A y \in Content(b) : y.kind \notin Leads
    BY <1>4, <1>7 DEF Leads
  <2>2. \A x \in Content(a), y \in Content(b) : x # y
    <3>1. \A x \in Content(a) : x.key.schema \in DOMAIN target
      BY <1>6, SchemaOpFacts
    <3>2. \A y \in Content(b) : y.key.schema \notin DOMAIN target
      BY <1>4, <1>7
    <3> QED
      BY <3>1, <3>2
  <2>3. MayPrecede(Content(a), Content(b))
    BY <2>1, <2>2, NothingLeads
  <2> QED
    BY <1>6, <1>7, <2>3, ConcatSteps
<1>9. IsSteps(In(call, a \o b)) /\ Content(In(call, a \o b)) = Content(a \o b)
  <2>1. call \in Calls
    BY DEF Calls
  <2> HIDE DEF call
  <2> QED
    BY <1>8, <2>1, InSteps
<1>10. \A op \in Content(a) \cup Content(b) : IsListedOp(op, source, target)
  BY <1>6, <1>7 DEF IsListedOp
<1> QED
  BY <1>2, <1>8, <1>9, <1>10

LEMMA FilterNamespacesFacts ==
  ASSUME NEW schema, NEW schemas, IsSchema(schema), NEW kept, kept = FilterNamespaces(schema, schemas)
  PROVE  /\ IsSchema(kept)
         /\ IndexNamesDiffer(schema) => IndexNamesDiffer(kept)
         /\ \A s \in DOMAIN kept : s \in DOMAIN schema /\ kept[s] = schema[s]
<1>1. \A s \in DOMAIN kept : s \in DOMAIN schema /\ kept[s] = schema[s]
  BY DEF FilterNamespaces, RestrictDomain, Restrict
<1>2. IsSchema(kept)
  BY <1>1 DEF IsSchema, IsNamed
<1>3. IndexNamesDiffer(schema) => IndexNamesDiffer(kept)
  BY <1>1 DEF IndexNamesDiffer
<1> QED
  BY <1>1, <1>2, <1>3

----------------------------------------------------------------------------
(* What ComputeDiff may count on.                                          *)

\* The step of op is made before the step of later.
ListedBefore(req, op, later) ==
  LET list == StepsOf(req)
  IN  \E k, l \in DOMAIN list : k < l /\ op \in Added(list[k]) /\ later \in Added(list[l])

\* A step lists all its operations once, whatever the order, and no other step does.
ListsOnce(req) ==
  LET list == StepsOf(req)
  IN  /\ list \in Seq(Range(list))
      /\ \A k, l \in DOMAIN list : Added(list[k]) \cap Added(list[l]) # {} => k = l
      /\ \A k \in DOMAIN list : \A some \in list[k].adds :
           some \in Seq(Operation) /\ IsInjective(some) /\ Range(some) = Added(list[k])

\* diffSchema: a new namespace depends on nothing and is listed before what is in it.
ListsSchemasFirst(req) ==
  \A op \in Listed(req) : op.kind = "create_schema" =>
    /\ op.dependsOn = <<>>
    /\ \A later \in Listed(req) \ {op} :
         later.key.schema = op.key.schema => ListedBefore(req, op, later)

\* diffTable: the new columns of a table come before its new indexes and constraints;
\* the table has been there, so nothing is listed about the table itself.
ListsColumnsFirst(req) ==
  \A op, later \in Listed(req) : op.kind = "add_column" =>
    /\ later.key \notin Range(op.dependsOn)
    /\ later.kind \in {"add_index", "add_constraint"} /\ later.dependsOn[1] = op.dependsOn[1]
       => ListedBefore(req, op, later)

\* diffTables: a new table is listed with the tables it refers to, and nothing else
\* is about that table itself.
ListsReferences(req) ==
  \A op \in Listed(req) : op.kind = "add_table" =>
    /\ Range(op.dependsOn) = References(TargetTable(req, op.key))
    /\ <<op.key, Range(op.dependsOn) \ {op.key}>> \in NewReferences(req)
    /\ \A other \in Listed(req) : other.key = op.key => other = op

\* What others depend on are new tables, and operations that depend on nothing.
ListsNoOtherNeeds(req) ==
  \A op, other \in Listed(req) :
    other # op /\ other.key \in Range(op.dependsOn) =>
      other.kind = "add_table" \/ other.dependsOn = <<>>

\* What is listed, and how.
LEMMA StepsFacts ==
  ASSUME NEW req, IsSchema(req.source), IsSchema(req.target), IndexNamesDiffer(req.source)
  PROVE  /\ IsSteps(StepsOf(req)) /\ Listed(req) = Content(StepsOf(req))
         /\ LET from == FilterNamespaces(req.source, req.schemas)
                to == FilterNamespaces(req.target, req.schemas)
            IN  /\ IsSchema(from) /\ IsSchema(to)
                /\ \A s \in DOMAIN to : to[s] = req.target[s]
                /\ \A op \in Listed(req) : IsListedOp(op, from, to)
<1> DEFINE from == FilterNamespaces(req.source, req.schemas)
           to == FilterNamespaces(req.target, req.schemas)
<1>1. /\ IsSchema(from) /\ IsSchema(to) /\ IndexNamesDiffer(from)
      /\ \A s \in DOMAIN to : to[s] = req.target[s]
  <2>1. IsSchema(from) /\ IndexNamesDiffer(from)
    BY FilterNamespacesFacts
  <2>2. IsSchema(to) /\ \A s \in DOMAIN to : to[s] = req.target[s]
    BY FilterNamespacesFacts
  <2> QED
    BY <2>1, <2>2
<1>2. StepsOf(req) = diffSchemas(from, to)
  BY DEF StepsOf
<1>3. Listed(req) = Content(StepsOf(req))
  BY DEF Listed, Content
<1> HIDE DEF from, to
<1>4. IsSteps(diffSchemas(from, to)) /\ \A op \in Content(diffSchemas(from, to)) : IsListedOp(op, from, to)
  BY <1>1, diffSchemasSteps
<1> QED
  BY <1>1, <1>2, <1>3, <1>4 DEF from, to

\* Of two operations that stand in some order the first is listed before.
LEMMA InTheirOrder ==
  ASSUME NEW req, IsSteps(StepsOf(req)), Listed(req) = Content(StepsOf(req)),
         NEW op \in Listed(req), NEW later \in Listed(req), MustPrecede(op, later)
  PROVE  ListedBefore(req, op, later)
<1> DEFINE list == StepsOf(req)
<1>1. /\ list \in Seq(GoodSteps) /\ DOMAIN list \subseteq Nat
      /\ \A p, q \in DOMAIN list : p < q => MayPrecede(Added(list[p]), Added(list[q]))
      /\ \A p \in DOMAIN list : IsFree(Added(list[p]))
  <2>1. list \in Seq(GoodSteps)
    BY DEF IsSteps
  <2>2. \A p \in DOMAIN list : list[p] \in GoodSteps
    BY <2>1
  <2> HIDE DEF list
  <2>3. DOMAIN list \subseteq Nat
    BY <2>1
  <2> QED
    BY <2>1, <2>2, <2>3 DEF IsSteps, Pairwise, InOrder, GoodSteps, list
<1>2. \E k, l \in DOMAIN list : op \in Added(list[k]) /\ later \in Added(list[l])
  BY DEF Content, Range
<1> HIDE DEF list
<1>3. PICK k \in DOMAIN list, l \in DOMAIN list : op \in Added(list[k]) /\ later \in Added(list[l])
  BY <1>2
<1>4. k # l
  BY <1>1, <1>3 DEF IsFree
<1>5. ~(l < k)
  BY <1>1, <1>3 DEF MayPrecede
<1>6. k < l
  BY <1>1, <1>3, <1>4, <1>5
<1> QED
  BY <1>3, <1>6 DEF ListedBefore, list

LEMMA ListsEachOnce ==
  ASSUME NEW req, IsSteps(StepsOf(req))
  PROVE  ListsOnce(req)
<1> DEFINE list == StepsOf(req)
<1>1. list \in Seq(GoodSteps) /\ \A p \in DOMAIN list : list[p] \in GoodSteps
  BY DEF IsSteps
<1>2. list \in Seq(Range(list)) /\ DOMAIN list \subseteq Nat
  <2> HIDE DEF list
  <2> QED
    BY <1>1 DEF Range
<1>3. \A p, q \in DOMAIN list : p < q => Added(list[p]) \cap Added(list[q]) = {}
  BY DEF IsSteps, Pairwise, InOrder, MayPrecede
<1> HIDE DEF list
<1>4. \A p, q \in DOMAIN list : Added(list[p]) \cap Added(list[q]) # {} => p = q
  <2>1. \A p, q \in DOMAIN list : p = q \/ p < q \/ q < p
    BY <1>2
  <2> QED
    BY <1>3, <2>1
<1>5. \A p \in DOMAIN list : \A some \in list[p].adds :
        some \in Seq(Operation) /\ IsInjective(some) /\ Range(some) = Added(list[p])
  BY <1>1 DEF GoodSteps, IsOps
<1> QED
  BY <1>2, <1>4, <1>5 DEF ListsOnce, list

LEMMA ListsSchemas ==
  ASSUME NEW req, IsSchema(req.source), IsSchema(req.target), IndexNamesDiffer(req.source)
  PROVE  ListsSchemasFirst(req)
<1> DEFINE from == FilterNamespaces(req.source, req.schemas)
           to == FilterNamespaces(req.target, req.schemas)
<1>1. /\ IsSteps(StepsOf(req)) /\ Listed(req) = Content(StepsOf(req)) /\ IsSchema(from) /\ IsSchema(to)
      /\ \A op \in Listed(req) : IsListedOp(op, from, to)
  BY StepsFacts
<1> HIDE DEF from, to
<1> SUFFICES ASSUME NEW op \in Listed(req), op.kind = "create_schema"
             PROVE  /\ op.dependsOn = <<>>
                    /\ \A later \in Listed(req) \ {op} :
                         later.key.schema = op.key.schema => ListedBefore(req, op, later)
  BY DEF ListsSchemasFirst
<1>2. op.dependsOn = <<>>
  <2>1. DOMAIN from \subseteq Text /\ DOMAIN to \subseteq Text
    BY <1>1, NameFacts DEF IsSchema, IsNamed, NameSet
  <2>2. CASE \E s \in DOMAIN to : IsSchemaOp(op, s, from, to)
    BY <1>1, <2>1, <2>2, SchemaOpFacts, SchemaOpType
  <2>3. CASE \E s \in DOMAIN from \ DOMAIN to : op = DropSchemaOp(s)
    BY <2>1, <2>3, SchemaOpType
  <2> QED
    BY <1>1, <2>2, <2>3 DEF IsListedOp
<1>3. \A later \in Listed(req) \ {op} : later.key.schema = op.key.schema => MustPrecede(op, later)
  BY DEF MustPrecede
<1> QED
  BY <1>1, <1>2, <1>3, InTheirOrder

\* An operation about a table itself: the table is new, or goes.
LEMMA TableOps ==
  ASSUME NEW from, NEW to, IsSchema(from), IsSchema(to),
         NEW s, NEW t, NEW op, IsListedOp(op, from, to), op.key = TableKey(s, t)
  PROVE  LET source == IF s \in DOMAIN from THEN from[s] ELSE EmptyNamespace
         IN  /\ s \in DOMAIN to /\ s \in Text
             /\ \/ /\ t \in DOMAIN to[s].tables \ DOMAIN source.tables
                   /\ op = AddTableOp(s, t, to[s].tables[t])
                \/ t \in DOMAIN source.tables \ DOMAIN to[s].tables /\ op = DropTableOp(s, t)
<1> DEFINE source == IF s \in DOMAIN from THEN from[s] ELSE EmptyNamespace
<1>1. op.key.schema = s /\ op.key.kind = "table" /\ op.key.path = <<t>>
  BY DEF TableKey, Key
<1>2. DOMAIN from \subseteq Text /\ DOMAIN to \subseteq Text /\ NameSet \subseteq Text /\ DOMAIN to \subseteq NameSet
  BY NameFacts DEF IsSchema, IsNamed, NameSet
<1>3. /\ \A r \in Text : DropSchemaOp(r).key.kind = "schema" /\ CreateSchemaOp(r).key.kind = "schema"
      /\ \A other : \A n \in DOMAIN to : IsSchemaOp(other, n, from, to) => other.key.schema = n
  BY SchemaOpType, SchemaOpFacts
<1>4. s \in DOMAIN to /\ IsSchemaOp(op, s, from, to)
  <2>1. ~\E r \in DOMAIN from \ DOMAIN to : op = DropSchemaOp(r)
    BY <1>1, <1>2, <1>3
  <2> QED
    BY <1>1, <1>3, <2>1 DEF IsListedOp
<1>5. IsNamespace(source) /\ IsNamespace(to[s])
  BY <1>4, EmptyNamespaceFacts DEF IsSchema
<1>6. IsNamespaceOp(op, s, source, to[s])
  BY <1>1, <1>2, <1>3, <1>4 DEF IsSchemaOp
<1> HIDE DEF source
<1>7. IsTablesOp(op, s, source.tables, to[s].tables)
  BY <1>1, <1>6 DEF IsNamespaceOp, IsOtherOp
<1>8. /\ DOMAIN source.tables \subseteq NameSet /\ DOMAIN to[s].tables \subseteq NameSet
      /\ \A u \in DOMAIN to[s].tables : IsTable(to[s].tables[u])
  BY <1>5 DEF IsNamespace, IsNamed, NameSet
<1>9. \A u \in Text : TableKey(s, u) = op.key => u = t
  <2>1. <<t>>[1] = t /\ \A u \in Text : <<u>>[1] = u
    OBVIOUS
  <2> QED
    BY <1>1, <1>2, <1>4, <2>1, TableKeyFacts
<1>10. CASE \E u \in DOMAIN to[s].tables \ DOMAIN source.tables : op = AddTableOp(s, u, to[s].tables[u])
  <2>1. PICK u \in DOMAIN to[s].tables \ DOMAIN source.tables : op = AddTableOp(s, u, to[s].tables[u])
    BY <1>10
  <2>2. op.key = TableKey(s, u)
    BY <1>2, <1>4, <1>8, <2>1, AddTableOpType
  <2>3. u = t
    BY <1>2, <1>8, <1>9, <2>2
  <2> QED
    BY <1>2, <1>4, <2>1, <2>3 DEF source
<1>11. CASE \E u \in DOMAIN source.tables \ DOMAIN to[s].tables : op = DropTableOp(s, u)
  <2>1. PICK u \in DOMAIN source.tables \ DOMAIN to[s].tables : op = DropTableOp(s, u)
    BY <1>11
  <2>2. op.key = TableKey(s, u)
    BY <1>2, <1>4, <1>8, <2>1, DropTableOpType
  <2>3. u = t
    BY <1>2, <1>8, <1>9, <2>2
  <2> QED
    BY <1>2, <1>4, <2>1, <2>3 DEF source
<1>12. CASE \E u \in DOMAIN source.tables \cap DOMAIN to[s].tables :
               IsPartOp(op, s, u, DOMAIN source.tables[u].indexes)
  BY <1>1, <1>12 DEF IsPartOp, IsColumnOp, IsIndexOp, IsConstraintOp
<1> QED
  BY <1>7, <1>10, <1>11, <1>12 DEF IsTablesOp

\* A new column: the table has been there and stays.
LEMMA NewColumnOps ==
  ASSUME NEW from, NEW to, IsSchema(from), IsSchema(to),
         NEW op, IsListedOp(op, from, to), op.kind = "add_column"
  PROVE  \E s \in DOMAIN from \cap DOMAIN to :
           \E t \in DOMAIN from[s].tables \cap DOMAIN to[s].tables :
             op.dependsOn = <<TableKey(s, t)>>
<1>1. DOMAIN from \subseteq Text /\ DOMAIN to \subseteq Text /\ NameSet \subseteq Text /\ DOMAIN to \subseteq NameSet
  BY NameFacts DEF IsSchema, IsNamed, NameSet
<1>2. PICK s \in DOMAIN to : IsSchemaOp(op, s, from, to)
  BY <1>1, SchemaOpType DEF IsListedOp
<1> DEFINE source == IF s \in DOMAIN from THEN from[s] ELSE EmptyNamespace
<1>3. IsNamespaceOp(op, s, source, to[s])
  BY <1>1, <1>2, SchemaOpType DEF IsSchemaOp
<1>4. IsNamespace(source) /\ IsNamespace(to[s])
  BY EmptyNamespaceFacts DEF IsSchema
<1>5. s \notin DOMAIN from => DOMAIN source.tables = {}
  <2>1. DOMAIN <<>> = {}
    OBVIOUS
  <2> QED
    BY <2>1, EmptyNamespaceFacts
<1>6. s \in DOMAIN from => source = from[s]
  OBVIOUS
<1> HIDE DEF source
<1>7. IsTablesOp(op, s, source.tables, to[s].tables)
  BY <1>3 DEF IsNamespaceOp, IsOtherOp, OtherKinds, Leads
<1>8. /\ DOMAIN source.tables \subseteq NameSet /\ DOMAIN to[s].tables \subseteq NameSet
      /\ \A u \in DOMAIN to[s].tables : IsTable(to[s].tables[u])
  BY <1>4 DEF IsNamespace, IsNamed, NameSet
<1>9. PICK t \in DOMAIN source.tables \cap DOMAIN to[s].tables :
             IsPartOp(op, s, t, DOMAIN source.tables[t].indexes)
  BY <1>1, <1>7, <1>8, TablesOpFacts
<1>10. op.dependsOn = <<TableKey(s, t)>>
  BY <1>9 DEF IsPartOp, IsColumnOp, IsIndexOp, IsConstraintOp
<1> QED
  BY <1>5, <1>6, <1>9, <1>10

LEMMA ListsColumns ==
  ASSUME NEW req, IsSchema(req.source), IsSchema(req.target), IndexNamesDiffer(req.source)
  PROVE  ListsColumnsFirst(req)
<1> DEFINE from == FilterNamespaces(req.source, req.schemas)
           to == FilterNamespaces(req.target, req.schemas)
<1>1. /\ IsSteps(StepsOf(req)) /\ Listed(req) = Content(StepsOf(req)) /\ IsSchema(from) /\ IsSchema(to)
      /\ \A op \in Listed(req) : IsListedOp(op, from, to)
  BY StepsFacts
<1> HIDE DEF from, to
<1> SUFFICES ASSUME NEW op \in Listed(req), NEW later \in Listed(req), op.kind = "add_column"
             PROVE  /\ later.key \notin Range(op.dependsOn)
                    /\ later.kind \in {"add_index", "add_constraint"} /\ later.dependsOn[1] = op.dependsOn[1]
                       => ListedBefore(req, op, later)
  BY DEF ListsColumnsFirst
<1>2. PICK s \in DOMAIN from \cap DOMAIN to :
        \E t \in DOMAIN from[s].tables \cap DOMAIN to[s].tables : op.dependsOn = <<TableKey(s, t)>>
  BY <1>1, NewColumnOps
<1>3. PICK t \in DOMAIN from[s].tables \cap DOMAIN to[s].tables : op.dependsOn = <<TableKey(s, t)>>
  BY <1>2
<1>4. Range(op.dependsOn) = {TableKey(s, t)}
  BY <1>3 DEF Range
<1>5. later.key # TableKey(s, t)
  BY <1>1, <1>2, <1>3, TableOps
<1>6. later.kind \in {"add_index", "add_constraint"} /\ later.dependsOn[1] = op.dependsOn[1]
        => MustPrecede(op, later)
  BY DEF MustPrecede
<1> QED
  BY <1>1, <1>4, <1>5, <1>6, InTheirOrder

\* A new table.
LEMMA NewTableOps ==
  ASSUME NEW from, NEW to, IsSchema(from), IsSchema(to),
         NEW op, IsListedOp(op, from, to), op.kind = "add_table"
  PROVE  \E s \in DOMAIN to : \E t \in DOMAIN to[s].tables :
           /\ op = AddTableOp(s, t, to[s].tables[t])
           /\ s \in DOMAIN from => t \notin DOMAIN from[s].tables
<1>1. DOMAIN from \subseteq Text /\ DOMAIN to \subseteq Text
  BY NameFacts DEF IsSchema, IsNamed, NameSet
<1>2. PICK s \in DOMAIN to : IsSchemaOp(op, s, from, to)
  BY <1>1, SchemaOpType DEF IsListedOp
<1> DEFINE source == IF s \in DOMAIN from THEN from[s] ELSE EmptyNamespace
<1>3. IsNamespaceOp(op, s, source, to[s])
  BY <1>1, <1>2, SchemaOpType DEF IsSchemaOp
<1>4. IsNamespace(source) /\ s \in Text
  BY <1>1, EmptyNamespaceFacts DEF IsSchema
<1>5. s \in DOMAIN from => source = from[s]
  OBVIOUS
<1> HIDE DEF source
<1>6. IsTablesOp(op, s, source.tables, to[s].tables)
  BY <1>3 DEF IsNamespaceOp, IsOtherOp, OtherKinds, Leads
<1>7. \A t \in DOMAIN source.tables : DropTableOp(s, t).kind = "drop_table"
  BY <1>4, NameFacts, DropTableOpType DEF IsNamespace, IsNamed, NameSet
<1>8. PICK t \in DOMAIN to[s].tables \ DOMAIN source.tables : op = AddTableOp(s, t, to[s].tables[t])
  BY <1>6, <1>7 DEF IsTablesOp, IsPartOp, IsColumnOp, IsIndexOp, IsConstraintOp, ColumnKinds, FieldKinds
<1> QED
  BY <1>5, <1>8

LEMMA ListsNewTables ==
  ASSUME NEW req, IsSchema(req.source), IsSchema(req.target), IndexNamesDiffer(req.source)
  PROVE  ListsReferences(req)
<1> DEFINE from == FilterNamespaces(req.source, req.schemas)
           to == FilterNamespaces(req.target, req.schemas)
           IsNew(s, t) == s \in DOMAIN from => t \notin DOMAIN from[s].tables
           Own(s, t) == TableKey(s, t)
           places == {st \in (DOMAIN to) \X Range(Names) :
                        st[2] \in DOMAIN to[st[1]].tables /\ IsNew(st[1], st[2])}
<1>1. /\ IsSchema(from) /\ IsSchema(to)
      /\ \A s \in DOMAIN to : to[s] = req.target[s]
      /\ \A op \in Listed(req) : IsListedOp(op, from, to)
  BY StepsFacts
<1>2. NewReferences(req) = {<<Own(st[1], st[2]), References(to[st[1]].tables[st[2]]) \ {Own(st[1], st[2])}>> : st \in places}
  BY DEF NewReferences
<1> HIDE DEF from, to
<1> SUFFICES ASSUME NEW op \in Listed(req), op.kind = "add_table"
             PROVE  /\ Range(op.dependsOn) = References(TargetTable(req, op.key))
                    /\ <<op.key, Range(op.dependsOn) \ {op.key}>> \in NewReferences(req)
                    /\ \A other \in Listed(req) : other.key = op.key => other = op
  BY DEF ListsReferences
<1>3. PICK s \in DOMAIN to : \E t \in DOMAIN to[s].tables : op = AddTableOp(s, t, to[s].tables[t]) /\ IsNew(s, t)
  BY <1>1, NewTableOps
<1>4. PICK t \in DOMAIN to[s].tables : op = AddTableOp(s, t, to[s].tables[t]) /\ IsNew(s, t)
  BY <1>3
<1>5. s \in Text /\ t \in Text /\ IsTable(to[s].tables[t]) /\ t \in Range(Names)
  BY <1>1, NameFacts DEF IsSchema, IsNamespace, IsNamed, NameSet
<1>6. op.key = TableKey(s, t) /\ Range(op.dependsOn) = References(to[s].tables[t])
  BY <1>4, <1>5, AddTableOpType
<1>7. TargetTable(req, op.key) = to[s].tables[t]
  BY <1>1, <1>5, <1>6, TableKeyFacts DEF TargetTable
<1>8. <<op.key, Range(op.dependsOn) \ {op.key}>> \in NewReferences(req)
  <2>1. <<s, t>> \in places
    BY <1>4, <1>5
  <2> QED
    BY <1>2, <1>6, <2>1
<1>9. \A other \in Listed(req) : other.key = op.key => other = op
  <2> SUFFICES ASSUME NEW other \in Listed(req), other.key = TableKey(s, t) PROVE other = op
    BY <1>6
  <2>1. IsListedOp(other, from, to)
    BY <1>1
  <2>2. other = AddTableOp(s, t, to[s].tables[t]) \/ t \notin DOMAIN to[s].tables
    BY <1>1, <2>1, TableOps
  <2> QED
    BY <1>4, <2>2
<1> QED
  BY <1>6, <1>7, <1>8, <1>9

IsPartKey(key) == key.kind \in {"column", "index", "constraint"}

\* op is the only one that adds the constraint it is about.
IsAddConstraint(op) ==
  /\ op.kind = "add_constraint" /\ op.key.kind = "constraint"
  /\ op = AddConstraintOp(op.key.schema, op.key.path[1], op.key.path[2])

\* What an operation needs, and of which sort it is if it is not a new table and needs something.
HasGoodNeeds(op) ==
  /\ \A key \in Range(op.dependsOn) : \/ ~IsPartKey(key) /\ Len(key.path) = 1
                                      \/ key = op.key /\ IsAddConstraint(op)
  /\ \/ op.kind = "add_table" \/ op.dependsOn = <<>>
     \/ ~IsPartKey(op.key) /\ Len(op.key.path) = 2
     \/ op.key.kind \in {"column", "index"}
     \/ IsAddConstraint(op)

LEMMA NeedsFacts ==
  ASSUME NEW from, NEW to, IsSchema(from), IsSchema(to), NEW op, IsListedOp(op, from, to)
  PROVE  HasGoodNeeds(op)
<1>1. DOMAIN from \subseteq Text /\ DOMAIN to \subseteq Text
  BY NameFacts DEF IsSchema, IsNamed, NameSet
<1>2. ASSUME op.dependsOn = <<>> PROVE HasGoodNeeds(op)
  <2>1. Range(op.dependsOn) = {}
    BY <1>2 DEF Range
  <2> QED
    BY <1>2, <2>1 DEF HasGoodNeeds
<1>3. \A s, t, kind : Len(Key(s, <<t>>, kind).path) = 1 /\ Key(s, <<t>>, kind).kind = kind
  BY DEF Key
<1>4. ASSUME op.kind = "add_table" PROVE HasGoodNeeds(op)
  <2>1. PICK s \in DOMAIN to : \E t \in DOMAIN to[s].tables : op = AddTableOp(s, t, to[s].tables[t])
    BY <1>4, NewTableOps
  <2>2. PICK t \in DOMAIN to[s].tables : op = AddTableOp(s, t, to[s].tables[t])
    BY <2>1
  <2>3. s \in Text /\ t \in Text /\ IsTable(to[s].tables[t])
    BY NameFacts DEF IsSchema, IsNamespace, IsNamed, NameSet
  <2>4. Range(op.dependsOn) = References(to[s].tables[t])
    BY <2>2, <2>3, AddTableOpType
  <2>5. \A key \in References(to[s].tables[t]) : \E r, u : key = Key(r, <<u>>, "table")
    BY DEF References, TableKey
  <2>6. ASSUME NEW key \in Range(op.dependsOn) PROVE ~IsPartKey(key) /\ Len(key.path) = 1
    <3>1. PICK r, u : key = Key(r, <<u>>, "table")
      BY <2>4, <2>5
    <3> QED
      BY <1>3, <3>1 DEF IsPartKey
  <2> QED
    BY <1>4, <2>6 DEF HasGoodNeeds
<1>5. ASSUME NEW s, NEW t, NEW indexes, IsPartOp(op, s, t, indexes) PROVE HasGoodNeeds(op)
  <2>1. TableKey(s, t).kind = "table" /\ Len(TableKey(s, t).path) = 1
    BY <1>3 DEF TableKey
  <2>2. CASE op.dependsOn = <<TableKey(s, t)>> /\ op.key.kind \in {"column", "index"}
    <3>1. Range(op.dependsOn) = {TableKey(s, t)}
      BY <2>2 DEF Range
    <3> QED
      BY <2>1, <2>2, <3>1 DEF HasGoodNeeds, IsPartKey
  <2>3. CASE IsConstraintOp(op, s, t) /\ op.kind = "add_constraint"
    <3>1. \A key \in Range(op.dependsOn) : key = TableKey(s, t) \/ key = op.key
      BY <2>3 DEF IsConstraintOp, Range
    <3>2. IsAddConstraint(op)
      BY <2>3 DEF IsConstraintOp, IsAddConstraint
    <3> QED
      BY <2>1, <3>1, <3>2 DEF HasGoodNeeds, IsPartKey
  <2>4. op.dependsOn = <<>> \/ (op.dependsOn = <<TableKey(s, t)>> /\ op.key.kind \in {"column", "index"})
          \/ (IsConstraintOp(op, s, t) /\ op.kind = "add_constraint")
    BY <1>5 DEF IsPartOp, IsColumnOp, IsIndexOp, IsConstraintOp
  <2> QED
    BY <1>2, <2>2, <2>3, <2>4
<1>6. ASSUME NEW s, NEW n, NEW object \in {"type", "view", "sequence", "extension"}, IsOtherOp(op, s, n, object)
      PROVE  HasGoodNeeds(op)
  <2>1. CASE op.dependsOn # <<>>
    <3>1. Range(op.dependsOn) = {Key(s, <<n>>, object)} /\ Len(op.key.path) = 2
      BY <1>6, <2>1 DEF IsOtherOp, Range
    <3>2. op.key.kind = object
      BY <1>6 DEF IsOtherOp
    <3> QED
      BY <1>3, <3>1, <3>2 DEF HasGoodNeeds, IsPartKey
  <2> QED
    BY <1>2, <2>1
<1>7. ASSUME NEW s \in DOMAIN to, NEW source, IsNamespace(source), IsNamespaceOp(op, s, source, to[s])
      PROVE  HasGoodNeeds(op)
  <2>1. NameSet \subseteq Text /\ DOMAIN source.tables \subseteq NameSet /\ DOMAIN to[s].tables \subseteq NameSet
        /\ \A t \in DOMAIN to[s].tables : IsTable(to[s].tables[t])
    BY <1>7, NameFacts DEF IsSchema, IsNamespace, IsNamed, NameSet
  <2>2. \A t \in DOMAIN to[s].tables : AddTableOp(s, t, to[s].tables[t]).kind = "add_table"
    BY <1>1, <2>1, AddTableOpType
  <2>3. \A t \in DOMAIN source.tables : DropTableOp(s, t).dependsOn = <<>>
    BY <1>1, <2>1, DropTableOpType
  <2>4. IsTablesOp(op, s, source.tables, to[s].tables) => HasGoodNeeds(op)
    BY <1>2, <1>4, <1>5, <2>2, <2>3 DEF IsTablesOp
  <2> QED
    BY <1>6, <1>7, <2>4 DEF IsNamespaceOp
<1>8. ASSUME NEW s \in DOMAIN to, IsSchemaOp(op, s, from, to) PROVE HasGoodNeeds(op)
  <2>1. CASE op = CreateSchemaOp(s)
    BY <1>1, <1>2, <2>1, SchemaOpType
  <2>2. CASE s \in DOMAIN from /\ IsNamespaceOp(op, s, from[s], to[s])
    BY <1>7, <2>2 DEF IsSchema
  <2>3. CASE IsNamespaceOp(op, s, EmptyNamespace, to[s])
    BY <1>7, <2>3, EmptyNamespaceFacts
  <2> QED
    BY <1>8, <2>1, <2>2, <2>3 DEF IsSchemaOp
<1>9. ASSUME NEW s \in DOMAIN from, op = DropSchemaOp(s) PROVE HasGoodNeeds(op)
  BY <1>1, <1>2, <1>9, SchemaOpType
<1> QED
  BY <1>8, <1>9 DEF IsListedOp

LEMMA ListsNeeds ==
  ASSUME NEW req, IsSchema(req.source), IsSchema(req.target), IndexNamesDiffer(req.source)
  PROVE  ListsNoOtherNeeds(req)
<1> DEFINE from == FilterNamespaces(req.source, req.schemas)
           to == FilterNamespaces(req.target, req.schemas)
<1>1. /\ IsSteps(StepsOf(req)) /\ Listed(req) = Content(StepsOf(req)) /\ IsSchema(from) /\ IsSchema(to)
      /\ \A op \in Listed(req) : IsListedOp(op, from, to)
  BY StepsFacts
<1> HIDE DEF from, to
<1> SUFFICES ASSUME NEW op \in Listed(req), NEW other \in Listed(req),
                    other # op, other.key \in Range(op.dependsOn),
                    other.kind # "add_table", other.dependsOn # <<>>
             PROVE  FALSE
  BY DEF ListsNoOtherNeeds
<1> DEFINE key == other.key
<1>3. HasGoodNeeds(op) /\ HasGoodNeeds(other)
  BY <1>1, NeedsFacts
<1>4. key = op.key /\ IsAddConstraint(op) /\ IsAddConstraint(other)
  BY <1>3 DEF HasGoodNeeds, IsAddConstraint, IsPartKey
<1>5. op = other
  BY <1>4 DEF IsAddConstraint
<1> QED
  BY <1>5

\* Of the differ (differ.go, diff_*.go, operation_*.go): of two schemas whose names are the
\* keys of maps, and the first of which has no two indexes of one name in a namespace, the
\* differ lists no operation twice; a new namespace stands before what is in it, a new
\* column before the new indexes and constraints of its table, and a new table with the
\* tables it refers to; and nothing else depends on what depends on something itself.
THEOREM DifferLists ==
  ASSUME NEW req, IsSchema(req.source), IsSchema(req.target), IndexNamesDiffer(req.source)
  PROVE  /\ ListsOnce(req) /\ ListsSchemasFirst(req) /\ ListsColumnsFirst(req)
         /\ ListsReferences(req) /\ ListsNoOtherNeeds(req)
BY StepsFacts, ListsEachOnce, ListsSchemas, ListsColumns, ListsNewTables, ListsNeeds

----------------------------------------------------------------------------
(* The plan: the sort, in both instances of its module.                    *)

\* The module of the proofs about the sort, of the sort of ExecutionPlan.
SP == INSTANCE DagProofs WITH ObjectKey <- Keys, Inputs <- Seq(Operation)

\* OperationAssumption and InputsAssumption of Dag.
LEMMA SortAssumptions ==
  /\ \A op \in Operation : op.key \in Keys /\ op.dependsOn \in Seq(Keys)
  /\ \A list \in Seq(Operation) : list \in Seq(Operation)
BY DEF Operation

----------------------------------------------------------------------------
(* What is known of the sort.                                              *)

\* The lookup is the same in both instances of Dag.
LEMMA SameLookup == \A key : Sort!findNodeByObjectKey(key) = SP!findNodeByObjectKey(key)
<1> TAKE key
<1>1. Sort!Matches(key) = SP!Matches(key)
  BY DEF Sort!Matches, SP!Matches, Sort!Node, SP!Node
<1>2. \A S : Sort!Preferred(S) = SP!Preferred(S)
  BY DEF Sort!Preferred, SP!Preferred
<1>3. \A S : Sort!First(S) = SP!First(S)
  BY DEF Sort!First, SP!First
<1> QED
  BY <1>1, <1>2, <1>3, Zenon DEF Sort!findNodeByObjectKey, SP!findNodeByObjectKey, Sort!None, SP!None

\* So are the steps.
LEMMA SameSteps == Sort!Work \/ Sort!Cancel => SP!Next
<1> USE DEF Sort!kahn, SP!kahn, Sort!graph, SP!graph
<1>1. Sort!LinkKey => SP!LinkKey
  <2>1. Sort!findNodeByObjectKey(ops[i].dependsOn[j]) = SP!findNodeByObjectKey(ops[i].dependsOn[j])
    BY SameLookup
  <2>2. \A from, to : /\ Sort!NewEdge(from, to) <=> SP!NewEdge(from, to)
                      /\ Sort!AddDependency(from, to) <=> SP!AddDependency(from, to)
    BY DEF Sort!NewEdge, SP!NewEdge, Sort!AddDependency, SP!AddDependency, Sort!None, SP!None,
      Sort!Range, SP!Range
  <2> QED
    BY <2>1, <2>2 DEF Sort!LinkKey, SP!LinkKey
<1>2. Sort!LinkNextNode => SP!LinkNextNode
  BY DEF Sort!LinkNextNode, SP!LinkNextNode
<1>3. Sort!GraphBuilt => SP!GraphBuilt
  BY DEF Sort!GraphBuilt, SP!GraphBuilt
<1>4. Sort!CountNode => SP!CountNode
  BY DEF Sort!CountNode, SP!CountNode, Sort!Enqueue, SP!Enqueue
<1>5. Sort!Counted => SP!Counted
  BY DEF Sort!Counted, SP!Counted
<1>6. Sort!Pop => SP!Pop
  BY DEF Sort!Pop, SP!Pop
<1>7. Sort!Release => SP!Release
  BY DEF Sort!Release, SP!Release, Sort!Enqueue, SP!Enqueue
<1>8. Sort!Released => SP!Released
  BY DEF Sort!Released, SP!Released
<1>9. Sort!Return => SP!Return
  BY DEF Sort!Return, SP!Return
<1>10. Sort!Cancel => SP!Cancel
  BY DEF Sort!Cancel, SP!Cancel
<1> QED
  BY <1>1, <1>2, <1>3, <1>4, <1>5, <1>6, <1>7, <1>8, <1>9, <1>10 DEF Sort!Work, SP!Next, SP!Work

\* What the sort keeps true at every step.
SortInv == SP!Inv /\ SP!OrderRespectsNeeds /\ SP!QueueRootsFirst

LEMMA SortStarts == SP!Init => SortInv
<1>1. SP!Init => SP!OrderRespectsNeeds
  BY DEF SP!Init, SP!OrderRespectsNeeds
<1>2. SP!Init => SP!Inv
  BY SP!InvInit, SortAssumptions
<1>3. SP!Init => SP!QueueRootsFirst
  BY SP!RootsInit, SortAssumptions
<1> QED
  BY <1>1, <1>2, <1>3 DEF SortInv

LEMMA SortKeeps == SortInv /\ [SP!Next]_(SP!vars) => SortInv'
<1>1. SP!Inv /\ [SP!Next]_(SP!vars) => SP!Inv'
  BY SP!InvStep, SortAssumptions
<1>2. SP!Inv /\ SP!OrderRespectsNeeds /\ [SP!Next]_(SP!vars) => SP!OrderRespectsNeeds'
  BY SP!OrderStep, SortAssumptions
<1>3. SP!Inv /\ SP!QueueRootsFirst /\ [SP!Next]_(SP!vars) => SP!QueueRootsFirst'
  BY SP!RootsStep, SortAssumptions
<1> QED
  BY <1>1, <1>2, <1>3 DEF SortInv

----------------------------------------------------------------------------
(* The inductive invariant.                                                *)

All == StepsOf(request)

\* What the first d steps of the differ add.
AddedBy(d) == UNION {Added(All[k]) : k \in 1..d}

\* The pairs of operations that the differ lists in this order, whatever the alternatives.
ListOrder ==
  {pair \in Listed(request) \X Listed(request) : ListedBefore(request, pair[1], pair[2])}

\* The list has what is in S, once, in the order of the differ.
IsListOf(list, S) == IsInjective(list) /\ Range(list) = S /\ Respects(list, ListOrder)

OfStage(stage) == {op \in Wanted : assignStage(op) = stage}

\* The operations of the first n stages.
OfStages(n) == UNION {OfStage(StageOrder[k]) : k \in 1..n}

\* No operation of its stage is one that op depends on.
Alone(op) ==
  \A other \in OfStage(assignStage(op)) \ {op} : other.key \notin Range(op.dependsOn)

\* No other operation of its stage is about the same object.
IsOnly(op) == \A other \in OfStage(assignStage(op)) \ {op} : other.key # op.key

IsEarlier(op, later) ==
  \E k, l \in DOMAIN StageOrder :
    k < l /\ assignStage(op) = StageOrder[k] /\ assignStage(later) = StageOrder[l]

\* What the sort of their stage says of the two.
SortsBefore(op, later) ==
  /\ op # later /\ assignStage(op) = assignStage(later)
  /\ \/ Alone(op) /\ ListedBefore(request, op, later)
     \/ IsOnly(op) /\ op.key \in Range(later.dependsOn)

\* The pairs of operations that stand in this order in every plan.
PlanOrder ==
  {pair \in Wanted \X Wanted : IsEarlier(pair[1], pair[2]) \/ SortsBefore(pair[1], pair[2])}

IsPlanOf(list, S) == IsInjective(list) /\ Range(list) = S /\ Respects(list, PlanOrder)

Types ==
  /\ IsRequest(request) /\ expired \in BOOLEAN
  /\ pc \in {"diff", "assign", "stage", "sort"} \cup Returned
  /\ steps \in Seq(Range(All))
  /\ operations \in Seq(Operation) /\ plan \in Seq(Operation)
  /\ Range(plan) \subseteq Range(operations)
  /\ stages \in [Range(StageOrder) -> Seq(Operation)]

\* Nothing has come out of the differ, or what has is lost.
IsEmpty == plan = <<>> /\ \A stage \in Range(StageOrder) : stages[stage] = <<>>

\* An unhurried differ has listed all that the steps before this one add.
Diffing ==
  pc = "diff" =>
    /\ IsEmpty /\ next = 1
    /\ \/ expired
       \/ \E d \in 0..Len(All) : steps = SubSeq(All, d + 1, Len(All)) /\ IsListOf(operations, AddedBy(d))

\* The operations before the next one are in their stages.
IsAssigned ==
  /\ plan = <<>> /\ IsListOf(operations, Wanted)
  /\ \A stage \in Range(StageOrder) :
       IsListOf(stages[stage], {operations[k] : k \in {l \in 1..(next - 1) : assignStage(operations[l]) = stage}})

Assigning ==
  pc = "assign" =>
    /\ next \in 1..(Len(operations) + 1)
    /\ (expired /\ IsEmpty /\ next = 1) \/ IsAssigned

\* The stages before the next one are in the plan.
IsStaged ==
  /\ Range(operations) = Wanted
  /\ \A stage \in Range(StageOrder) : IsListOf(stages[stage], OfStage(stage))
  /\ IsPlanOf(plan, OfStages(next - 1))

Staging ==
  /\ pc \in {"stage", "planned"} => next \in 1..4 /\ (IsEmpty \/ IsStaged)
  /\ pc = "planned" => next = 4
  /\ pc \in {"sort", "cycle"} => next \in 1..3 /\ IsStaged

\* The sort is that of the stage at hand.
Sorting ==
  /\ pc \in {"sort", "cycle"} => ops = StageOps /\ SortInv
  /\ pc = "cycle" => phase = "cycle"

IInv == Types /\ Diffing /\ Assigning /\ Staging /\ Sorting

\* All that depends on the request stays, because the request does.
LEMMA RequestKept ==
  ASSUME request' = request
  PROVE  /\ All' = All /\ Wanted' = Wanted /\ ListOrder' = ListOrder /\ PlanOrder' = PlanOrder
         /\ \A d : AddedBy(d)' = AddedBy(d)
         /\ \A stage : OfStage(stage)' = OfStage(stage)
         /\ \A n : OfStages(n)' = OfStages(n)
<1>1. All' = All /\ Wanted' = Wanted /\ ListOrder' = ListOrder
  BY DEF All, Wanted, ListOrder
<1>2. /\ \A d : AddedBy(d)' = AddedBy(d)
      /\ \A stage : OfStage(stage)' = OfStage(stage)
  BY <1>1 DEF AddedBy, OfStage
<1>3. \A n : OfStages(n)' = OfStages(n)
  BY <1>2 DEF OfStages
<1>4. \A op : Alone(op)' = Alone(op) /\ IsOnly(op)' = IsOnly(op)
  BY <1>2 DEF Alone, IsOnly
<1>5. \A op, later : SortsBefore(op, later)' = SortsBefore(op, later)
  BY <1>4 DEF SortsBefore
<1>6. PlanOrder' = PlanOrder
  BY <1>1, <1>5 DEF PlanOrder, IsEarlier
<1> QED
  BY <1>1, <1>2, <1>3, <1>6

----------------------------------------------------------------------------
(* What the differ lists.                                                  *)

LEMMA RequestFacts ==
  ASSUME IsRequest(request)
  PROVE  /\ request.unsafeDrop \in BOOLEAN
         /\ ListsOnce(request) /\ ListsSchemasFirst(request) /\ ListsColumnsFirst(request)
         /\ ListsReferences(request) /\ ListsNoOtherNeeds(request)
BY DifferLists DEF IsRequest

\* The steps, their places and what each of them adds.
LEMMA StepFacts ==
  ASSUME IsRequest(request)
  PROVE  /\ All \in Seq(Range(All)) /\ Len(All) \in Nat /\ DOMAIN All = 1..Len(All)
         /\ \A k, l \in DOMAIN All : Added(All[k]) \cap Added(All[l]) # {} => k = l
         /\ \A k \in DOMAIN All : \A some \in All[k].adds :
              some \in Seq(Operation) /\ IsInjective(some) /\ Range(some) = Added(All[k])
         /\ Listed(request) = AddedBy(Len(All))
<1>1. ListsOnce(request)
  BY RequestFacts
<1>2. /\ All \in Seq(Range(All))
      /\ \A k, l \in DOMAIN All : Added(All[k]) \cap Added(All[l]) # {} => k = l
      /\ \A k \in DOMAIN All : \A some \in All[k].adds :
           some \in Seq(Operation) /\ IsInjective(some) /\ Range(some) = Added(All[k])
  BY <1>1 DEF ListsOnce, All
<1>3. Len(All) \in Nat /\ DOMAIN All = 1..Len(All)
  BY <1>2
<1>4. Range(All) = {All[k] : k \in 1..Len(All)}
  BY <1>3 DEF Range
<1>5. Listed(request) = UNION {Added(step) : step \in Range(All)}
  BY DEF Listed, All
<1>6. Listed(request) = AddedBy(Len(All))
  BY <1>4, <1>5, Zenon DEF AddedBy
<1> QED
  BY <1>2, <1>3, <1>6

\* Whatever is listed is listed by one step.
LEMMA ListedAtOnce ==
  ASSUME IsRequest(request), NEW k \in DOMAIN All, NEW op \in Added(All[k])
  PROVE  /\ op \in Listed(request)
         /\ \A l \in DOMAIN All : op \in Added(All[l]) => l = k
<1>1. op \in Listed(request)
  BY StepFacts DEF AddedBy
<1>2. \A l \in DOMAIN All : op \in Added(All[l]) => l = k
  BY StepFacts
<1> QED
  BY <1>1, <1>2

\* The order of the differ is that of the steps.
LEMMA OrderOfSteps ==
  ASSUME IsRequest(request),
         NEW k \in DOMAIN All, NEW op \in Added(All[k]),
         NEW l \in DOMAIN All, NEW later \in Added(All[l])
  PROVE  <<op, later>> \in ListOrder => k < l
<1> SUFFICES ASSUME <<op, later>> \in ListOrder PROVE k < l
  OBVIOUS
<1>1. ListedBefore(request, op, later)
  BY DEF ListOrder
<1>2. PICK m, n \in DOMAIN All : m < n /\ op \in Added(All[m]) /\ later \in Added(All[n])
  BY <1>1 DEF ListedBefore, All
<1> QED
  BY <1>2, ListedAtOnce

\* One more step of the differ, in any of its alternatives.
LEMMA StepAdds ==
  ASSUME IsRequest(request), operations \in Seq(Operation),
         NEW d \in Nat, d + 1 \in DOMAIN All, IsListOf(operations, AddedBy(d)),
         NEW some \in All[d + 1].adds,
         NEW list, list = operations \o some
  PROVE  list \in Seq(Operation) /\ IsListOf(list, AddedBy(d + 1))
<1>1. some \in Seq(Operation) /\ IsInjective(some) /\ Range(some) = Added(All[d + 1])
  BY StepFacts
<1>2. /\ Len(All) \in Nat /\ DOMAIN All = 1..Len(All)
      /\ \A k \in 1..d : k \in DOMAIN All /\ k # d + 1
  BY StepFacts
<1>3. \A op \in AddedBy(d) : \E k \in 1..d : k \in DOMAIN All /\ op \in Added(All[k])
  BY <1>2 DEF AddedBy
<1>4. AddedBy(d) \cap Added(All[d + 1]) = {}
  BY <1>2, <1>3, StepFacts
<1>5. AddedBy(d + 1) = AddedBy(d) \cup Added(All[d + 1])
  <2>1. 1..(d + 1) = (1..d) \cup {d + 1}
    OBVIOUS
  <2> QED
    BY <2>1, Zenon DEF AddedBy
<1>6. Respects(some, ListOrder)
  <2>1. \A p, q \in DOMAIN some : some[p] \in Added(All[d + 1]) /\ some[q] \in Added(All[d + 1])
    BY <1>1 DEF Range
  <2>2. \A op, later \in Added(All[d + 1]) : <<op, later>> \in ListOrder => d + 1 < d + 1
    BY OrderOfSteps
  <2> QED
    BY <2>1, <2>2 DEF Respects
<1>7. \A op \in Range(operations), later \in Range(some) : <<later, op>> \notin ListOrder
  <2> SUFFICES ASSUME NEW op \in AddedBy(d), NEW later \in Added(All[d + 1]),
                      <<later, op>> \in ListOrder
               PROVE  FALSE
    BY <1>1 DEF IsListOf
  <2>1. PICK k \in 1..d : k \in DOMAIN All /\ op \in Added(All[k])
    BY <1>3
  <2>2. d + 1 < k
    BY <2>1, OrderOfSteps
  <2> QED
    BY <2>2
<1>8. Range(list) = AddedBy(d + 1)
  <2>1. \A x : x \in Range(list) <=> x \in Range(operations) \/ x \in Range(some)
    BY <1>1, ConcatList
  <2> QED
    BY <1>1, <1>5, <2>1 DEF IsListOf
<1>9. IsInjective(list)
  BY <1>1, <1>4, ConcatList DEF IsListOf
<1>10. Respects(list, ListOrder)
  BY <1>1, <1>6, <1>7, ConcatList DEF IsListOf
<1> QED
  BY <1>1, <1>8, <1>9, <1>10, ConcatList DEF IsListOf

\* What the filter keeps of a complete list is what is wanted.
LEMMA FilterKeepsWanted ==
  ASSUME IsRequest(request), operations \in Seq(Operation),
         IsListOf(operations, Listed(request)),
         NEW list, list = Select(operations, {k \in DOMAIN operations : IsAllowed(operations[k], request)})
  PROVE  IsListOf(list, Wanted)
<1> DEFINE kept == {k \in DOMAIN operations : IsAllowed(operations[k], request)}
<1>1. /\ Range(list) = {operations[k] : k \in kept \cap DOMAIN operations}
      /\ IsInjective(list) /\ Respects(list, ListOrder)
  BY SelectList DEF IsListOf
<1>2. Range(list) \subseteq Wanted
  BY <1>1 DEF IsListOf, Wanted, Range
<1>3. ASSUME NEW op \in Wanted PROVE op \in Range(list)
  <2>1. op \in Range(operations) /\ IsAllowed(op, request)
    BY DEF Wanted, IsListOf
  <2>2. PICK k \in DOMAIN operations : operations[k] = op
    BY <2>1 DEF Range
  <2> QED
    BY <1>1, <2>1, <2>2
<1> QED
  BY <1>1, <1>2, <1>3 DEF IsListOf

----------------------------------------------------------------------------
(* The steps up to the stages.                                             *)

\* As long as the differ has nothing of the plan to change.
LEMMA OnlyDiffing ==
  ASSUME pc = "diff"
  PROVE  Assigning /\ Staging /\ Sorting
BY DEF Assigning, Staging, Sorting

\* Whatever it is called with, ComputeDiff starts with the invariant.
LEMMA IInvStarts ==
  ASSUME IsRequest(request), pc = "diff", steps = StepsOf(request), Idle
  PROVE  IInv
<1>1. /\ IsRequest(request) /\ expired = FALSE /\ pc = "diff" /\ steps = All /\ next = 1
      /\ operations = <<>> /\ plan = <<>>
      /\ stages = [stage \in Range(StageOrder) |-> <<>>]
  BY DEF Idle, All
<1>2. Types
  <2>1. steps \in Seq(Range(All)) /\ stages \in [Range(StageOrder) -> Seq(Operation)]
    BY <1>1, StepFacts
  <2>2. Range(plan) = {} /\ plan \in Seq(Operation) /\ operations \in Seq(Operation)
    BY <1>1 DEF Range
  <2> QED
    BY <1>1, <2>1, <2>2 DEF Types
<1>3. IsListOf(operations, AddedBy(0))
  BY <1>1 DEF IsListOf, IsInjective, Range, Respects, AddedBy
<1>4. steps = SubSeq(All, 0 + 1, Len(All)) /\ 0 \in 0..Len(All)
  BY <1>1, StepFacts
<1>5. Diffing
  BY <1>1, <1>3, <1>4 DEF Diffing, IsEmpty
<1> QED
  BY <1>1, <1>2, <1>5, OnlyDiffing DEF IInv

LEMMA IInvInit == Init => IInv
BY IInvStarts, RequestsAssumption DEF Init

LEMMA KeepDiffing ==
  ASSUME pc' = "diff"
  PROVE  Assigning' /\ Staging' /\ Sorting'
BY DEF Assigning, Staging, Sorting

LEMMA DiffStepKeeps == IInv /\ DiffStep => IInv'
<1> SUFFICES ASSUME IInv, DiffStep PROVE IInv'
  OBVIOUS
<1>1. /\ pc = "diff" /\ pc' = "diff" /\ steps # <<>> /\ steps' = Tail(steps)
      /\ UNCHANGED <<request, expired, next, stages, plan>>
  BY DEF DiffStep
<1>2. PICK some \in steps[1].adds : operations' = operations \o some
  BY DEF DiffStep
<1>3. /\ IsRequest(request) /\ All' = All /\ \A d : AddedBy(d)' = AddedBy(d)
      /\ ListOrder' = ListOrder
  BY <1>1, RequestKept DEF IInv, Types
<1>4. /\ steps \in Seq(Range(All)) /\ operations \in Seq(Operation)
      /\ IsEmpty /\ next = 1
  BY <1>1 DEF IInv, Types, Diffing
<1>5. some \in Seq(Operation)
  <2>1. steps[1] \in Range(All)
    BY <1>1, <1>4
  <2> QED
    BY <1>3, <2>1, StepFacts DEF Range
<1>6. Types'
  <2>1. steps' \in Seq(Range(All)) /\ operations' \in Seq(Operation)
    BY <1>1, <1>2, <1>4, <1>5
  <2>2. plan' = <<>> /\ Range(plan') = {}
    BY <1>1, <1>4 DEF IsEmpty, Range
  <2> QED
    BY <1>1, <1>3, <2>1, <2>2 DEF IInv, Types
<1>7. IsEmpty'
  BY <1>1, <1>4 DEF IsEmpty
<1>8. CASE expired
  BY <1>1, <1>4, <1>6, <1>7, <1>8, KeepDiffing DEF IInv, Diffing
<1>9. CASE ~expired
  <2>1. PICK d \in 0..Len(All) : steps = SubSeq(All, d + 1, Len(All)) /\ IsListOf(operations, AddedBy(d))
    BY <1>1, <1>9 DEF IInv, Diffing
  <2>2. All \in Seq(Range(All)) /\ Len(All) \in Nat /\ DOMAIN All = 1..Len(All)
    BY <1>3, StepFacts
  <2>3. d \in Nat /\ d < Len(All)
    BY <1>1, <2>1, <2>2
  <2>4. steps[1] = All[d + 1] /\ d + 1 \in DOMAIN All
    BY <2>1, <2>2, <2>3
  <2>5. Tail(steps) = SubSeq(All, (d + 1) + 1, Len(All)) /\ d + 1 \in 0..Len(All)
    BY <2>1, <2>2, <2>3
  <2>6. IsListOf(operations', AddedBy(d + 1))
    BY <1>2, <1>3, <1>4, <2>1, <2>3, <2>4, StepAdds
  <2>7. IsListOf(operations, AddedBy(d + 1))'
    BY <1>3, <2>6 DEF IsListOf
  <2>8. Diffing'
    BY <1>1, <1>3, <1>4, <1>7, <2>5, <2>7 DEF Diffing
  <2> QED
    BY <1>1, <1>6, <2>8, KeepDiffing DEF IInv
<1> QED
  BY <1>8, <1>9

LEMMA DiffCancelledKeeps == IInv /\ DiffCancelled => IInv'
<1> SUFFICES ASSUME IInv, DiffCancelled PROVE IInv'
  OBVIOUS
<1>1. /\ pc = "diff" /\ pc' = "diff" /\ steps' = Abandon(steps) /\ expired
      /\ UNCHANGED <<request, expired, operations, next, stages, plan>>
  BY DEF DiffCancelled
<1>2. steps' \in Seq(Range(All)) /\ All' = All
  BY <1>1, SelectList, RequestKept DEF IInv, Types, Abandon
<1>3. Types'
  BY <1>1, <1>2 DEF IInv, Types
<1>4. Diffing'
  BY <1>1 DEF IInv, Diffing, IsEmpty
<1> QED
  BY <1>1, <1>3, <1>4, KeepDiffing DEF IInv

LEMMA FilterKeeps == IInv /\ FilterDestructiveOps => IInv'
<1> SUFFICES ASSUME IInv, FilterDestructiveOps PROVE IInv'
  OBVIOUS
<1>1. /\ pc = "diff" /\ pc' = "assign" /\ steps = <<>>
      /\ operations' = Select(operations, {k \in DOMAIN operations : IsAllowed(operations[k], request)})
      /\ UNCHANGED <<request, expired, steps, next, stages, plan>>
  BY DEF FilterDestructiveOps
<1>2. /\ IsRequest(request) /\ operations \in Seq(Operation) /\ IsEmpty /\ next = 1
      /\ All' = All /\ Wanted' = Wanted /\ ListOrder' = ListOrder
  BY <1>1, RequestKept DEF IInv, Types, Diffing
<1>3. operations' \in Seq(Operation) /\ Len(operations') \in Nat
  BY <1>1, <1>2, SelectList
<1>4. Types'
  <2>1. plan' = <<>> /\ Range(plan') = {}
    BY <1>1, <1>2 DEF IsEmpty, Range
  <2> QED
    BY <1>1, <1>2, <1>3, <2>1 DEF IInv, Types
<1>5. IsEmpty'
  BY <1>1, <1>2 DEF IsEmpty
<1>6. ASSUME ~expired PROVE IsAssigned'
  <2>1. PICK d \in 0..Len(All) : steps = SubSeq(All, d + 1, Len(All)) /\ IsListOf(operations, AddedBy(d))
    BY <1>1, <1>6 DEF IInv, Diffing
  <2>2. All \in Seq(Range(All)) /\ Len(All) \in Nat /\ Listed(request) = AddedBy(Len(All))
    BY <1>2, StepFacts
  <2>3. d = Len(All)
    <3>1. Len(SubSeq(All, d + 1, Len(All))) = Len(All) - d
      BY <2>2
    <3>2. Len(SubSeq(All, d + 1, Len(All))) = 0
      BY <1>1, <2>1
    <3> QED
      BY <2>2, <3>1, <3>2
  <2>4. IsListOf(operations', Wanted)
    BY <1>1, <1>2, <2>1, <2>2, <2>3, FilterKeepsWanted
  <2>5. \A stage \in Range(StageOrder) : IsListOf(<<>>, {})
    BY DEF IsListOf, IsInjective, Range, Respects
  <2>6. \A stage \in Range(StageOrder) :
          {operations'[k] : k \in {l \in 1..(next' - 1) : assignStage(operations'[l]) = stage}} = {}
    BY <1>1, <1>2
  <2> QED
    BY <1>1, <1>2, <1>5, <2>4, <2>5, <2>6 DEF IsAssigned, IsEmpty, IsListOf
<1>7. Assigning'
  BY <1>1, <1>2, <1>3, <1>5, <1>6 DEF Assigning
<1> QED
  BY <1>1, <1>4, <1>7 DEF IInv, Diffing, Staging, Sorting

\* The stage of an operation is one of the three.
LEMMA StageType ==
  /\ DOMAIN StageOrder = 1..3 /\ Len(StageOrder) = 3
  /\ \A k, l \in 1..3 : StageOrder[k] = StageOrder[l] => k = l
  /\ \A k \in 1..3 : StageOrder[k] \in Range(StageOrder)
  /\ \A op : \E k \in 1..3 : assignStage(op) = StageOrder[k]
<1>1. DOMAIN StageOrder = 1..3 /\ Len(StageOrder) = 3
  BY DEF StageOrder
<1>2. StageOrder[1] = "pre-deploy" /\ StageOrder[2] = "deploy" /\ StageOrder[3] = "post-deploy"
  BY DEF StageOrder
<1>3. \A op : assignStage(op) \in {"pre-deploy", "deploy", "post-deploy"}
  BY DEF assignStage
<1>4. \A k \in 1..3 : k = 1 \/ k = 2 \/ k = 3
  OBVIOUS
<1>5. \A k, l \in 1..3 : StageOrder[k] = StageOrder[l] => k = l
  BY <1>2, <1>4
<1>6. \A op : \E k \in 1..3 : assignStage(op) = StageOrder[k]
  BY <1>2, <1>3
<1> QED
  BY <1>1, <1>5, <1>6 DEF Range

LEMMA AssignKeeps == IInv /\ Assign => IInv'
<1> SUFFICES ASSUME IInv, Assign PROVE IInv'
  OBVIOUS
<1> DEFINE op == operations[next]
           mine == assignStage(op)
           Placed(stage) ==
             {operations[k] : k \in {l \in 1..(next - 1) : assignStage(operations[l]) = stage}}
           Now(stage) ==
             {operations[k] : k \in {l \in 1..next : assignStage(operations[l]) = stage}}
<1>1. /\ pc = "assign" /\ pc' = "assign" /\ next <= Len(operations) /\ ~expired
      /\ stages' = [stages EXCEPT ![mine] = Append(@, op)] /\ next' = next + 1
      /\ UNCHANGED <<request, expired, steps, operations, plan>>
  BY DEF Assign
<1>2. /\ operations \in Seq(Operation) /\ next \in 1..Len(operations) /\ Len(operations) \in Nat
      /\ DOMAIN operations = 1..Len(operations)
      /\ stages \in [Range(StageOrder) -> Seq(Operation)] /\ IsAssigned
      /\ All' = All /\ Wanted' = Wanted /\ ListOrder' = ListOrder
  BY <1>1, RequestKept DEF IInv, Types, Assigning
<1>3. op \in Operation /\ mine \in Range(StageOrder)
  BY <1>2, StageType
<1>4. \A stage : Now(stage) = IF stage = mine THEN Placed(stage) \cup {op} ELSE Placed(stage)
  <2>1. 1..next = (1..(next - 1)) \cup {next}
    BY <1>2
  <2> QED
    BY <2>1
<1>5. IsListOf(stages[mine], Placed(mine)) /\ stages[mine] \in Seq(Operation)
  BY <1>2, <1>3 DEF IsAssigned
<1>6. /\ \A other \in Placed(mine) : other # op /\ <<op, other>> \notin ListOrder
      /\ <<op, op>> \notin ListOrder
  <2>1. \A p, q \in 1..Len(operations) : /\ operations[p] = operations[q] => p = q
                                         /\ <<operations[p], operations[q]>> \in ListOrder => p < q
    BY <1>2 DEF IsAssigned, IsListOf, IsInjective, Respects
  <2>2. \A l \in 1..(next - 1) : l \in 1..Len(operations) /\ l # next /\ ~(next < l)
    BY <1>2
  <2> QED
    BY <1>2, <2>1, <2>2
<1>7. /\ op \notin Range(stages[mine]) /\ \A other \in Range(stages[mine]) : <<op, other>> \notin ListOrder
      /\ IsInjective(stages[mine]) /\ Respects(stages[mine], ListOrder)
  BY <1>5, <1>6 DEF IsListOf
<1>8. stages'[mine] = Append(stages[mine], op)
  BY <1>1, <1>2, <1>3
<1>9. IsListOf(stages'[mine], Now(mine)) /\ stages'[mine] \in Seq(Operation)
  <2> HIDE DEF op, mine, Before, Now
  <2>1. \A x : x \in Range(stages'[mine]) <=> x \in Range(stages[mine]) \/ x = op
    BY <1>3, <1>5, <1>8, AppendList
  <2>2. Range(stages'[mine]) = Now(mine)
    BY <1>4, <1>5, <2>1 DEF IsListOf
  <2>3. IsInjective(stages'[mine])
    BY <1>3, <1>5, <1>7, <1>8, AppendList
  <2>4. Respects(stages'[mine], ListOrder)
    BY <1>3, <1>5, <1>6, <1>7, <1>8, AppendList, ZenonT(30)
  <2> QED
    BY <1>3, <1>5, <1>8, <2>2, <2>3, <2>4, AppendList DEF IsListOf
<1>10. \A stage \in Range(StageOrder) : IsListOf(stages'[stage], Now(stage))
  <2> TAKE stage \in Range(StageOrder)
  <2>1. CASE stage = mine
    BY <1>9, <2>1
  <2>2. CASE stage # mine
    BY <1>1, <1>2, <1>4, <2>2 DEF IsAssigned
  <2> QED
    BY <2>1, <2>2
<1>11. Types'
  BY <1>1, <1>2, <1>3, <1>9 DEF IInv, Types
<1>12. IsAssigned'
  <2>1. next' - 1 = next
    BY <1>1, <1>2
  <2>2. plan' = <<>> /\ IsListOf(operations, Wanted)'
    BY <1>1, <1>2 DEF IsAssigned, IsListOf
  <2>3. \A stage \in Range(StageOrder) : IsListOf(stages[stage], Placed(stage))'
    BY <1>1, <1>2, <1>10, <2>1 DEF IsListOf
  <2> QED
    BY <2>2, <2>3 DEF IsAssigned
<1>13. Assigning'
  BY <1>1, <1>2, <1>12 DEF Assigning
<1> QED
  BY <1>1, <1>11, <1>13 DEF IInv, Diffing, Staging, Sorting

\* When nothing is left to assign, each stage has all that belongs to it.
LEMMA AssignedKeeps == IInv /\ Assigned => IInv'
<1> SUFFICES ASSUME IInv, Assigned PROVE IInv'
  OBVIOUS
<1>1. /\ pc = "assign" /\ pc' = "stage" /\ next > Len(operations) /\ next' = 1
      /\ UNCHANGED <<request, expired, steps, operations, stages, plan>>
  BY DEF Assigned
<1>2. /\ operations \in Seq(Operation) /\ Len(operations) \in Nat /\ next = Len(operations) + 1
      /\ DOMAIN operations = 1..Len(operations)
      /\ All' = All /\ Wanted' = Wanted /\ ListOrder' = ListOrder /\ PlanOrder' = PlanOrder
      /\ \A stage : OfStage(stage)' = OfStage(stage)
      /\ \A n : OfStages(n)' = OfStages(n)
  BY <1>1, RequestKept DEF IInv, Types, Assigning
<1>3. Types'
  BY <1>1, <1>2 DEF IInv, Types
<1>4. CASE expired /\ IsEmpty
  <2>1. IsEmpty'
    BY <1>1, <1>4 DEF IsEmpty
  <2> QED
    BY <1>1, <1>3, <2>1 DEF IInv, Diffing, Assigning, Staging, Sorting
<1>5. CASE IsAssigned
  <2>1. IsListOf(operations, Wanted) /\ plan = <<>>
    BY <1>5 DEF IsAssigned
  <2>2. ASSUME NEW stage \in Range(StageOrder)
        PROVE  IsListOf(stages[stage], OfStage(stage))
    <3> DEFINE assigned == {operations[k] : k \in {l \in 1..(next - 1) : assignStage(operations[l]) = stage}}
    <3>1. IsListOf(stages[stage], assigned)
      BY <1>5, <2>2 DEF IsAssigned
    <3>2. 1..(next - 1) = DOMAIN operations
      BY <1>2
    <3>3. Wanted = {operations[k] : k \in DOMAIN operations}
      BY <2>1 DEF IsListOf, Range
    <3>4. assigned = OfStage(stage)
      BY <3>2, <3>3 DEF OfStage
    <3> QED
      BY <3>1, <3>4
  <2>3. IsPlanOf(<<>>, OfStages(0))
    BY DEF IsPlanOf, IsInjective, Range, Respects, OfStages
  <2>4. IsPlanOf(plan, OfStages(next - 1))'
    BY <1>1, <1>2, <2>1, <2>3 DEF IsPlanOf
  <2>5. \A stage \in Range(StageOrder) : IsListOf(stages[stage], OfStage(stage))'
    BY <1>1, <1>2, <2>2 DEF IsListOf
  <2>6. Range(operations') = Wanted'
    BY <1>1, <1>2, <2>1 DEF IsListOf
  <2>7. IsStaged'
    BY <2>4, <2>5, <2>6 DEF IsStaged
  <2> QED
    BY <1>1, <1>3, <2>7 DEF IInv, Diffing, Assigning, Staging, Sorting
<1> QED
  BY <1>1, <1>4, <1>5 DEF IInv, Assigning

LEMMA PlanCancelledKeeps == IInv /\ PlanCancelled => IInv'
<1> SUFFICES ASSUME IInv, PlanCancelled PROVE IInv'
  OBVIOUS
<1>1. /\ pc' = "cancelled"
      /\ UNCHANGED <<request, expired, steps, operations, next, stages, plan>>
  BY DEF PlanCancelled
<1>2. Types'
  BY <1>1, RequestKept DEF IInv, Types, Returned
<1> QED
  BY <1>1, <1>2 DEF IInv, Diffing, Assigning, Staging, Sorting

----------------------------------------------------------------------------
(* The stages.                                                             *)

\* What is staged stays so as long as the lists and the index do.
LEMMA StagedKept ==
  ASSUME UNCHANGED <<request, operations, stages, plan, next>>
  PROVE  IsStaged' = IsStaged /\ IsEmpty' = IsEmpty
<1>1. /\ Wanted' = Wanted /\ ListOrder' = ListOrder /\ PlanOrder' = PlanOrder
      /\ \A stage : OfStage(stage)' = OfStage(stage)
      /\ \A n : OfStages(n)' = OfStages(n)
  BY RequestKept
<1>2. \A list, S : /\ IsListOf(list, S)' = IsListOf(list, S)
                   /\ IsPlanOf(list, S)' = IsPlanOf(list, S)
  BY <1>1 DEF IsListOf, IsPlanOf
<1> QED
  BY <1>1, <1>2 DEF IsStaged, IsEmpty

\* The stages up to the next one are those up to this one and this one.
LEMMA NextStage ==
  ASSUME NEW n \in 1..3
  PROVE  \A op : op \in OfStages(n) <=> op \in OfStages(n - 1) \/ op \in OfStage(StageOrder[n])
<1>1. 1..n = (1..(n - 1)) \cup {n}
  OBVIOUS
<1> QED
  BY <1>1 DEF OfStages

LEMMA SkipStageKeeps == IInv /\ SkipStage => IInv'
<1> SUFFICES ASSUME IInv, SkipStage PROVE IInv'
  OBVIOUS
<1>1. /\ pc = "stage" /\ pc' = "stage" /\ next <= 3 /\ StageOps = <<>> /\ next' = next + 1
      /\ UNCHANGED <<request, expired, steps, operations, stages, plan>>
  BY StageType DEF SkipStage
<1>2. /\ next \in 1..3 /\ next' \in 1..4 /\ (IsEmpty \/ IsStaged)
      /\ All' = All /\ Wanted' = Wanted /\ ListOrder' = ListOrder /\ PlanOrder' = PlanOrder
      /\ \A stage : OfStage(stage)' = OfStage(stage)
      /\ \A n : OfStages(n)' = OfStages(n)
  BY <1>1, RequestKept DEF IInv, Staging
<1>3. Types'
  BY <1>1, <1>2 DEF IInv, Types
<1>4. CASE IsEmpty
  <2>1. IsEmpty'
    BY <1>1, <1>4 DEF IsEmpty
  <2> QED
    BY <1>1, <1>2, <1>3, <2>1 DEF IInv, Diffing, Assigning, Staging, Sorting
<1>5. CASE IsStaged
  <2>1. IsListOf(StageOps, OfStage(StageOrder[next]))
    BY <1>2, <1>5, StageType DEF IsStaged, StageOps
  <2>2. OfStage(StageOrder[next]) = {}
    BY <1>1, <2>1 DEF IsListOf, Range
  <2>3. next' - 1 = next
    BY <1>1, <1>2
  <2>4. OfStages(next) = OfStages(next - 1)
    BY <1>2, <2>2, NextStage
  <2>5. IsPlanOf(plan, OfStages(next - 1))'
    BY <1>1, <1>2, <1>5, <2>3, <2>4 DEF IsStaged, IsPlanOf
  <2>6. \A stage \in Range(StageOrder) : IsListOf(stages[stage], OfStage(stage))'
    BY <1>1, <1>2, <1>5 DEF IsStaged, IsListOf
  <2>7. Range(operations') = Wanted'
    BY <1>1, <1>2, <1>5 DEF IsStaged
  <2>8. IsStaged'
    BY <2>5, <2>6, <2>7 DEF IsStaged
  <2> QED
    BY <1>1, <1>2, <1>3, <2>8 DEF IInv, Diffing, Assigning, Staging, Sorting
<1> QED
  BY <1>2, <1>4, <1>5

LEMMA CallSorts == (SP!Init => SortInv)'
BY SortStarts, PTL

LEMMA CallKeeps == IInv /\ CallTopoSort => IInv'
<1> SUFFICES ASSUME IInv, CallTopoSort PROVE IInv'
  OBVIOUS
<1>1. /\ pc = "stage" /\ pc' = "sort" /\ next <= 3 /\ StageOps # <<>> /\ ops' = StageOps
      /\ UNCHANGED <<request, expired, steps, operations, next, stages, plan>>
  BY StageType DEF CallTopoSort
<1>2. next \in 1..3 /\ (IsEmpty \/ IsStaged) /\ All' = All
  BY <1>1, RequestKept DEF IInv, Staging
<1>3. IsStaged'
  BY <1>1, <1>2, StageType, StagedKept DEF IsEmpty, StageOps
<1>4. Types'
  BY <1>1, <1>2 DEF IInv, Types
<1>5. ops' \in Seq(Operation) /\ StageOps' = StageOps
  BY <1>1, <1>2, StageType DEF IInv, Types, StageOps
<1>6. SP!Init'
  BY <1>1, <1>5 DEF CallTopoSort, SP!Init, SP!Node
<1>7. SortInv'
  BY <1>6, CallSorts
<1> QED
  BY <1>1, <1>2, <1>3, <1>4, <1>5, <1>7 DEF IInv, Diffing, Assigning, Staging, Sorting

\* A step of the sort touches nothing else.
LEMMA SortKept ==
  ASSUME IInv, pc = "sort", pc' = "sort", [SP!Next]_(SP!vars),
         UNCHANGED <<request, steps, operations, next, stages, plan>>, expired' \in BOOLEAN
  PROVE  IInv'
<1>1. All' = All /\ IsStaged' = IsStaged /\ StageOps' = StageOps
  BY RequestKept, StagedKept DEF StageOps
<1>2. Types'
  BY <1>1 DEF IInv, Types
<1>3. SortInv'
  BY SortKeeps DEF IInv, Sorting
<1>4. ops' = ops
  BY SP!OpsKept, SortAssumptions
<1> QED
  BY <1>1, <1>2, <1>3, <1>4 DEF IInv, Diffing, Assigning, Staging, Sorting

LEMMA SortKeepsPlan == IInv /\ (SortStep \/ SortCancelled) => IInv'
<1> SUFFICES ASSUME IInv, SortStep \/ SortCancelled PROVE IInv'
  OBVIOUS
<1>1. /\ pc = "sort" /\ pc' = "sort" /\ (Sort!Work \/ Sort!Cancel)
      /\ UNCHANGED <<request, expired, steps, operations, next, stages, plan>>
  BY DEF SortStep, SortCancelled
<1>2. expired' \in BOOLEAN
  BY <1>1 DEF IInv, Types
<1> QED
  BY <1>1, <1>2, SameSteps, SortKept

\* The variables of the sort are its variables in both instances.
LEMMA SameVariables == UNCHANGED sort => UNCHANGED SP!vars
BY DEF sort, SP!vars, SP!graph, SP!kahn

\* Nothing changes but where ComputeDiff is, and the context.
LEMMA MovesOn ==
  ASSUME IInv, pc \in {"stage", "sort"}, pc' \in Returned,
         pc' = "cycle" => pc = "sort" /\ phase = "cycle",
         pc' = "planned" => pc = "stage" /\ next = 4,
         UNCHANGED <<request, expired, steps, operations, next, stages, plan, sort>>
  PROVE  IInv'
<1>1. All' = All /\ IsStaged' = IsStaged /\ IsEmpty' = IsEmpty /\ StageOps' = StageOps
  BY RequestKept, StagedKept DEF StageOps
<1>2. Types'
  BY <1>1 DEF IInv, Types
<1>3. ops' = ops /\ phase' = phase /\ (SortInv => SortInv')
  BY SameVariables, SortKeeps DEF sort
<1> QED
  BY <1>1, <1>2, <1>3 DEF IInv, Diffing, Assigning, Staging, Sorting, Returned

LEMMA EndKeeps == IInv /\ (StageFailed \/ Planned) => IInv'
<1> SUFFICES ASSUME IInv, StageFailed \/ Planned PROVE IInv'
  OBVIOUS
<1>1. CASE StageFailed
  BY <1>1, MovesOn DEF StageFailed, Returned
<1>2. CASE Planned
  <2>1. next = 4
    BY <1>2, StageType DEF Planned, IInv, Staging
  <2> QED
    BY <1>2, <2>1, MovesOn DEF Planned, Returned
<1> QED
  BY <1>1, <1>2

LEMMA ExpireKeeps == IInv /\ (Expire \/ UNCHANGED vars) => IInv'
<1> SUFFICES ASSUME IInv, Expire \/ UNCHANGED vars PROVE IInv'
  OBVIOUS
<1>1. UNCHANGED <<request, pc, steps, operations, next, stages, plan, sort>>
  BY DEF Expire, vars
<1>2. expired' \in BOOLEAN /\ (expired => expired')
  BY DEF Expire, vars, IInv, Types
<1>3. /\ All' = All /\ Wanted' = Wanted /\ ListOrder' = ListOrder
      /\ \A d : AddedBy(d)' = AddedBy(d)
      /\ IsStaged' = IsStaged /\ IsEmpty' = IsEmpty /\ StageOps' = StageOps
  BY <1>1, RequestKept, StagedKept DEF StageOps
<1>4. \A list, S : IsListOf(list, S)' = IsListOf(list, S)
  BY <1>3 DEF IsListOf
<1>5. IsAssigned' = IsAssigned
  BY <1>1, <1>3, <1>4 DEF IsAssigned
<1>6. ops' = ops /\ phase' = phase /\ (SortInv => SortInv')
  BY <1>1, SameVariables, SortKeeps DEF sort
<1>7. Types'
  BY <1>1, <1>2, <1>3 DEF IInv, Types
<1>8. Diffing'
  BY <1>1, <1>2, <1>3, <1>4 DEF IInv, Diffing
<1>9. Assigning'
  BY <1>1, <1>2, <1>3, <1>5 DEF IInv, Assigning
<1> QED
  BY <1>1, <1>3, <1>6, <1>7, <1>8, <1>9 DEF IInv, Staging, Sorting

----------------------------------------------------------------------------
(* A sorted stage.                                                         *)

\* What the sort returns: the nodes in another order.
LEMMA SortResult ==
  ASSUME SortInv, phase = "sorted"
  PROVE  /\ ops \in Seq(Operation) /\ result \in Seq(DOMAIN ops)
         /\ IsInjective(result) /\ Range(result) = DOMAIN ops
         /\ SP!RootsFirst /\ SP!OrderRespectsNeeds
<1>1. /\ SP!TypeOK /\ SP!QueueIsOrder /\ SP!Inv
  BY DEF SortInv, SP!Inv
<1>2. Range(result) = DOMAIN ops
  <2>1. SP!Range(result) = SP!Node
    BY <1>1, SortAssumptions, SP!SortedIsComplete
  <2> QED
    BY <2>1 DEF SP!Range, Range, SP!Node
<1>3. SP!RootsFirst
  BY SortAssumptions, SP!ResultRootsFirst DEF SortInv
<1>4. IsInjective(result)
  <2>1. \A p \in DOMAIN result : p \in DOMAIN queue /\ result[p] = queue[p]
    BY <1>1, SortAssumptions, SP!ResultIsTaken DEF SP!QueueIsOrder
  <2>2. \A p, q \in DOMAIN queue : queue[p] = queue[q] => p = q
    BY <1>1 DEF SP!QueueIsOrder, SP!IsInjective
  <2> QED
    BY <2>1, <2>2 DEF IsInjective
<1> QED
  BY <1>1, <1>2, <1>3, <1>4 DEF SP!TypeOK, SP!Node, SortInv

\* The key of an operation that is the only one about its object is found at it.
LEMMA OnlyIsFound ==
  ASSUME ops \in Seq(Operation), NEW n \in DOMAIN ops,
         \A m \in DOMAIN ops : ops[m].key = ops[n].key => m = n
  PROVE  SP!findNodeByObjectKey(ops[n].key) = n
<1>1. SP!Matches(ops[n].key) = {n}
  BY DEF SP!Matches, SP!Node
<1>2. SP!Preferred({n}) = {n}
  BY DEF SP!Preferred
<1>3. SP!First({n}) = n
  BY DEF SP!First
<1> QED
  BY <1>1, <1>2, <1>3 DEF SP!findNodeByObjectKey

\* A key that no operation of the list is about is found nowhere.
LEMMA NoneIsFound ==
  ASSUME NEW n \in DOMAIN ops,
         \A m \in DOMAIN ops : m # n => ops[m].key \notin Range(ops[n].dependsOn)
  PROVE  SP!Needs[n] = {}
<1>1. ASSUME NEW key \in Range(ops[n].dependsOn)
      PROVE  SP!findNodeByObjectKey(key) \in {SP!None, n}
  <2>1. SP!Matches(key) \in {{}, {n}}
    BY <1>1 DEF SP!Matches, SP!Node
  <2>2. SP!Preferred({n}) = {n} /\ SP!First({n}) = n
    BY DEF SP!Preferred, SP!First
  <2> QED
    BY <2>1, <2>2 DEF SP!findNodeByObjectKey
<1>2. SP!Needs[n] = {SP!findNodeByObjectKey(key) : key \in SP!Range(ops[n].dependsOn)} \ {SP!None, n}
  BY DEF SP!Needs, SP!Node
<1>3. SP!Range(ops[n].dependsOn) = Range(ops[n].dependsOn)
  BY DEF SP!Range, Range
<1> QED
  BY <1>1, <1>2, <1>3

\* The sort lists all of its stage, and in the order of every plan.
LEMMA SortedStage ==
  ASSUME SortInv, phase = "sorted", NEW stage, IsListOf(ops, OfStage(stage)),
         NEW piece, piece = [p \in DOMAIN result |-> ops[result[p]]]
  PROVE  piece \in Seq(Operation) /\ IsPlanOf(piece, OfStage(stage))
<1>1. /\ ops \in Seq(Operation) /\ result \in Seq(DOMAIN ops)
      /\ IsInjective(result) /\ Range(result) = DOMAIN ops
      /\ SP!RootsFirst /\ SP!OrderRespectsNeeds
  BY SortResult
<1>2. /\ DOMAIN result = 1..Len(result) /\ Len(result) \in Nat
      /\ \A p \in DOMAIN result : result[p] \in DOMAIN ops
      /\ DOMAIN ops = 1..Len(ops) /\ Len(ops) \in Nat
  BY <1>1
<1>3. /\ DOMAIN piece = DOMAIN result
      /\ \A p \in DOMAIN piece : piece[p] = ops[result[p]] /\ piece[p] \in OfStage(stage)
  BY <1>2 DEF IsListOf, Range
<1>4. piece \in Seq(Operation)
  BY <1>1, <1>2
<1>5. /\ \A m, n \in DOMAIN ops : ops[m] = ops[n] => m = n
      /\ \A m, n \in DOMAIN ops : <<ops[m], ops[n]>> \in ListOrder => m < n
      /\ \A op \in OfStage(stage) : \E n \in DOMAIN ops : ops[n] = op
      /\ \A n \in DOMAIN ops : ops[n] \in OfStage(stage)
  BY DEF IsListOf, IsInjective, Respects, Range
<1>6. IsInjective(piece)
  BY <1>1, <1>2, <1>3, <1>5 DEF IsInjective
<1>7. Range(piece) = OfStage(stage)
  <2>1. Range(piece) \subseteq OfStage(stage)
    BY <1>3 DEF Range
  <2>2. ASSUME NEW op \in OfStage(stage) PROVE op \in Range(piece)
    <3>1. PICK n \in DOMAIN ops : ops[n] = op
      BY <1>5
    <3>2. PICK p \in DOMAIN result : result[p] = n
      BY <1>1 DEF Range
    <3> QED
      BY <1>3, <3>1, <3>2 DEF Range
  <2> QED
    BY <2>1, <2>2
<1>8. ASSUME NEW p \in DOMAIN piece, NEW q \in DOMAIN piece, <<piece[p], piece[q]>> \in PlanOrder
      PROVE  p < q
  <2> DEFINE m == result[p]
             n == result[q]
  <2>1. /\ m \in DOMAIN ops /\ n \in DOMAIN ops /\ piece[p] = ops[m] /\ piece[q] = ops[n]
        /\ p \in DOMAIN result /\ q \in DOMAIN result /\ m \in Nat /\ n \in Nat
    BY <1>2, <1>3
  <2>2. assignStage(ops[m]) = stage /\ assignStage(ops[n]) = stage
    BY <1>3, <2>1 DEF OfStage
  <2>3. ~IsEarlier(ops[m], ops[n])
    BY <2>2, StageType DEF IsEarlier
  <2>4. SortsBefore(ops[m], ops[n]) /\ ops[m] \in Wanted /\ ops[n] \in Wanted
    BY <1>8, <2>1, <2>3 DEF PlanOrder
  <2>5. m # n /\ p # q
    BY <2>4 DEF SortsBefore
  <2>6. CASE Alone(ops[m]) /\ ListedBefore(request, ops[m], ops[n])
    <3>1. m < n
      <4>1. <<ops[m], ops[n]>> \in ListOrder
        BY <2>4, <2>6 DEF ListOrder, Wanted
      <4> QED
        BY <1>5, <2>1, <4>1
    <3>2. SP!Needs[m] = {}
      <4>1. \A other \in DOMAIN ops : other # m => ops[other].key \notin Range(ops[m].dependsOn)
        BY <1>5, <2>1, <2>2, <2>6 DEF Alone
      <4> QED
        BY <2>1, <4>1, NoneIsFound
    <3> QED
      BY <1>1, <2>1, <3>1, <3>2 DEF SP!RootsFirst
  <2>7. CASE IsOnly(ops[m]) /\ ops[m].key \in Range(ops[n].dependsOn)
    <3>1. SP!findNodeByObjectKey(ops[m].key) = m
      <4>1. \A other \in DOMAIN ops : ops[other].key = ops[m].key => other = m
        BY <1>5, <2>1, <2>2, <2>7 DEF IsOnly
      <4> QED
        BY <1>1, <2>1, <4>1, OnlyIsFound
    <3>2. m \in SP!Needs[n]
      <4>1. m # SP!None
        BY <1>2, <2>1 DEF SP!None
      <4> QED
        BY <2>1, <2>5, <2>7, <3>1, <4>1 DEF SP!Needs, SP!Node, SP!Range, Range
    <3>3. PICK r \in 1..(q - 1) : result[r] = m
      BY <1>1, <2>1, <3>2 DEF SP!OrderRespectsNeeds
    <3>4. r \in DOMAIN result /\ r < q
      BY <1>2, <2>1
    <3> QED
      BY <1>1, <2>1, <3>3, <3>4 DEF IsInjective
  <2> QED
    BY <2>4, <2>6, <2>7 DEF SortsBefore
<1>9. Respects(piece, PlanOrder)
  BY <1>8, Zenon DEF Respects
<1> QED
  BY <1>4, <1>6, <1>7, <1>9 DEF IsPlanOf

LEMMA StageSortedKeeps == IInv /\ StageSorted => IInv'
<1> SUFFICES ASSUME IInv, StageSorted PROVE IInv'
  OBVIOUS
<1> DEFINE piece == [p \in DOMAIN result |-> ops[result[p]]]
           stage == StageOrder[next]
<1>1. /\ pc = "sort" /\ pc' = "stage" /\ phase = "sorted" /\ plan' = plan \o piece /\ next' = next + 1
      /\ UNCHANGED <<request, expired, steps, operations, stages>>
  BY DEF StageSorted
<1>2. /\ next \in 1..3 /\ next' \in 1..4 /\ next' - 1 = next /\ IsStaged
      /\ SortInv /\ ops = stages[stage] /\ plan \in Seq(Operation)
      /\ All' = All /\ Wanted' = Wanted /\ ListOrder' = ListOrder /\ PlanOrder' = PlanOrder
      /\ \A st : OfStage(st)' = OfStage(st)
      /\ \A n : OfStages(n)' = OfStages(n)
  BY <1>1, RequestKept DEF IInv, Types, Staging, Sorting, StageOps
<1>3. IsListOf(ops, OfStage(stage))
  BY <1>2, StageType DEF IsStaged
<1>4. piece \in Seq(Operation) /\ IsPlanOf(piece, OfStage(stage))
  BY <1>1, <1>2, <1>3, SortedStage
<1>5. IsPlanOf(plan, OfStages(next - 1))
  BY <1>2 DEF IsStaged
<1>6. ASSUME NEW op \in OfStages(next - 1), NEW later \in OfStage(stage)
      PROVE  op # later /\ <<later, op>> \notin PlanOrder
  <2>1. PICK k \in 1..(next - 1) : op \in OfStage(StageOrder[k])
    BY DEF OfStages
  <2>2. /\ k \in 1..3 /\ k < next
        /\ assignStage(op) = StageOrder[k] /\ assignStage(later) = StageOrder[next]
    BY <1>2, <2>1 DEF OfStage
  <2>3. assignStage(op) # assignStage(later)
    BY <1>2, <2>2, StageType
  <2>4. ~IsEarlier(later, op)
    BY <1>2, <2>2, StageType DEF IsEarlier
  <2> QED
    BY <2>3, <2>4 DEF PlanOrder, SortsBefore
<1> HIDE DEF piece, stage
<1>7. \A x : x \in Range(plan') <=> x \in Range(plan) \/ x \in Range(piece)
  BY <1>1, <1>2, <1>4, ConcatList
<1>8. Range(plan') = OfStages(next)
  <2>1. \A op : op \in OfStages(next) <=> op \in OfStages(next - 1) \/ op \in OfStage(stage)
    BY <1>2, NextStage DEF stage
  <2> QED
    BY <1>4, <1>5, <1>7, <2>1 DEF IsPlanOf
<1>9. plan' \in Seq(Operation) /\ IsInjective(plan') /\ Respects(plan', PlanOrder)
  <2>1. IsInjective(plan) /\ Respects(plan, PlanOrder) /\ IsInjective(piece) /\ Respects(piece, PlanOrder)
    BY <1>4, <1>5 DEF IsPlanOf
  <2>2. /\ Range(plan) \cap Range(piece) = {}
        /\ \A x \in Range(plan), y \in Range(piece) : <<y, x>> \notin PlanOrder
    BY <1>4, <1>5, <1>6 DEF IsPlanOf
  <2> QED
    BY <1>1, <1>2, <1>4, <2>1, <2>2, ConcatList
<1>10. IsStaged'
  <2>1. IsPlanOf(plan, OfStages(next - 1))'
    BY <1>2, <1>8, <1>9 DEF IsPlanOf
  <2>2. \A st \in Range(StageOrder) : IsListOf(stages[st], OfStage(st))'
    BY <1>1, <1>2 DEF IsStaged, IsListOf
  <2>3. Range(operations') = Wanted'
    BY <1>1, <1>2 DEF IsStaged
  <2> QED
    BY <2>1, <2>2, <2>3 DEF IsStaged
<1>11. Types'
  <2>1. Range(plan') \subseteq Range(operations')
    BY <1>1, <1>2, <1>8 DEF IsStaged, OfStages, OfStage
  <2> QED
    BY <1>1, <1>2, <1>9, <2>1 DEF IInv, Types
<1> QED
  BY <1>1, <1>2, <1>10, <1>11 DEF IInv, Diffing, Assigning, Staging, Sorting

LEMMA IInvStep == IInv /\ [Next]_vars => IInv'
BY DiffStepKeeps, DiffCancelledKeeps, FilterKeeps, AssignKeeps, PlanCancelledKeeps, AssignedKeeps,
  SkipStageKeeps, CallKeeps, SortKeepsPlan, StageSortedKeeps, EndKeeps, ExpireKeeps
  DEF Next, Step, Done

LEMMA IInvAlways == Spec => []IInv
BY IInvInit, IInvStep, PTL DEF Spec

----------------------------------------------------------------------------
(* What follows.                                                           *)

\* The types of ComputeDiff's variables, for every request.
THEOREM TypeCorrect == Spec => []TypeOK
<1>1. IInv => TypeOK
  <2> SUFFICES ASSUME IInv PROVE TypeOK
    OBVIOUS
  <2>1. Types /\ request.unsafeDrop \in BOOLEAN
    BY RequestFacts DEF IInv, Types
  <2>2. \A s \in Seq(Operation) : s \in Seq(Range(s))
    BY DEF Range
  <2>3. \A S : \A s \in Seq(Operation) : Range(s) \subseteq S => s \in Seq(S)
    BY DEF Range
  <2>4. operations \in Seq(Range(operations)) /\ plan \in Seq(Range(operations))
    BY <2>1, <2>2, <2>3 DEF Types
  <2> QED
    BY <2>1, <2>4, StageType DEF TypeOK, Types, IInv, Assigning, Staging
<1> QED
  BY <1>1, IInvAlways, PTL

\* A finished plan is empty or is a list of all that is wanted, in the order of every plan.
LEMMA PlannedIsWhole ==
  ASSUME IInv, pc = "planned"
  PROVE  plan = <<>> \/ IsPlanOf(plan, Wanted)
<1>1. next = 4 /\ (IsEmpty \/ IsStaged)
  BY DEF IInv, Staging
<1>2. \A op \in Wanted : \E k \in 1..3 : op \in OfStage(StageOrder[k])
  BY StageType DEF OfStage
<1>3. OfStages(3) = Wanted
  BY <1>2 DEF OfStages, OfStage
<1>4. next - 1 = 3
  BY <1>1
<1> QED
  BY <1>1, <1>3, <1>4 DEF IsEmpty, IsStaged

\* Half a plan never comes out, whenever the context expires (differ.go:45, plan.go:64),
\* and no operation is lost or doubled on the way through filter, stages and sort.
THEOREM NoHalfPlan == Spec => []PlanWholeOrEmpty
<1>1. IInv => PlanWholeOrEmpty
  BY PlannedIsWhole DEF PlanWholeOrEmpty, IsWholeDiff, IsPlanOf
<1> QED
  BY <1>1, IInvAlways, PTL

\* Where two operations of a finished plan stand.
LEMMA PlannedInOrder ==
  ASSUME IInv, pc = "planned", NEW p \in DOMAIN plan, NEW q \in DOMAIN plan, p # q
  PROVE  /\ IsRequest(request) /\ plan[p] \in Wanted /\ plan[q] \in Wanted /\ plan[p] # plan[q]
         /\ plan[p] \in Listed(request) /\ plan[q] \in Listed(request)
         /\ IsEarlier(plan[p], plan[q]) \/ SortsBefore(plan[p], plan[q]) => p < q
<1>1. IsPlanOf(plan, Wanted)
  BY PlannedIsWhole
<1>2. plan[p] \in Wanted /\ plan[q] \in Wanted
  BY <1>1 DEF IsPlanOf, Range
<1>3. plan[p] # plan[q]
  BY <1>1 DEF IsPlanOf, IsInjective
<1>4. IsEarlier(plan[p], plan[q]) \/ SortsBefore(plan[p], plan[q]) => p < q
  BY <1>1, <1>2 DEF IsPlanOf, Respects, PlanOrder
<1> QED
  BY <1>2, <1>3, <1>4 DEF Wanted, IInv, Types

\* What is put in the first stage is earlier than what is not.
LEMMA FirstStage ==
  ASSUME NEW op, op.kind \in {"create_schema", "add_table", "add_column"}, NEW later
  PROVE  /\ assignStage(op) = "pre-deploy"
         /\ assignStage(later) = assignStage(op) \/ IsEarlier(op, later)
<1>1. assignStage(op) = StageOrder[1] /\ StageOrder[1] = "pre-deploy"
  <2>1. op.kind \in PreDeployKinds
    BY DEF PreDeployKinds
  <2>2. op.kind \notin PostDeployKinds
    BY DEF PostDeployKinds
  <2>3. assignStage(op) = "pre-deploy"
    BY <2>1, <2>2 DEF assignStage
  <2> QED
    BY <2>3 DEF StageOrder
<1>2. PICK k \in 1..3 : assignStage(later) = StageOrder[k]
  BY StageType
<1>3. CASE k = 1
  BY <1>1, <1>2, <1>3
<1>4. CASE 1 < k
  BY <1>1, <1>2, <1>4, StageType DEF IsEarlier
<1> QED
  BY <1>1, <1>2, <1>3, <1>4

\* CREATE SCHEMA comes before all that is put into the namespace, for every request:
\* the differ lists it first, and the sort keeps the order of what depends on nothing.
THEOREM SchemasLead == Spec => []SchemaBeforeObjects
<1>1. ASSUME IInv, pc = "planned", NEW p \in DOMAIN plan, NEW q \in DOMAIN plan,
             plan[p].kind = "create_schema", p # q, plan[q].key.schema = plan[p].key.schema
      PROVE  p < q
  <2>1. /\ plan[p] \in Listed(request) /\ plan[q] \in Listed(request) \ {plan[p]}
        /\ ListsSchemasFirst(request)
    BY <1>1, PlannedInOrder, RequestFacts
  <2>2. plan[p].dependsOn = <<>> /\ ListedBefore(request, plan[p], plan[q])
    BY <1>1, <2>1, Zenon DEF ListsSchemasFirst
  <2>3. Alone(plan[p])
    BY <2>2 DEF Alone, Range
  <2>4. IsEarlier(plan[p], plan[q]) \/ SortsBefore(plan[p], plan[q])
    BY <1>1, <2>1, <2>2, <2>3, FirstStage DEF SortsBefore
  <2> QED
    BY <1>1, <2>4, PlannedInOrder
<1>2. IInv => SchemaBeforeObjects
  BY <1>1, Zenon DEF SchemaBeforeObjects, Before
<1> QED
  BY <1>2, IInvAlways, PTL

\* The new columns of a table come before its new indexes and constraints, for every
\* request: the differ lists them first, and nothing stands about what they depend on.
THEOREM ColumnsLead == Spec => []ColumnsFirst
<1>1. ASSUME IInv, pc = "planned", NEW p \in DOMAIN plan, NEW q \in DOMAIN plan,
             plan[p].kind = "add_column", p # q,
             plan[q].kind \in {"add_index", "add_constraint"},
             plan[q].dependsOn[1] = plan[p].dependsOn[1]
      PROVE  p < q
  <2>1. /\ plan[p] \in Listed(request) /\ plan[q] \in Listed(request) /\ plan[p] # plan[q]
        /\ ListsColumnsFirst(request)
    BY <1>1, PlannedInOrder, RequestFacts
  <2>2. /\ ListedBefore(request, plan[p], plan[q])
        /\ \A other \in Listed(request) : other.key \notin Range(plan[p].dependsOn)
    BY <1>1, <2>1, Zenon DEF ListsColumnsFirst
  <2>3. Alone(plan[p])
    BY <2>2 DEF Alone, OfStage, Wanted
  <2>4. IsEarlier(plan[p], plan[q]) \/ SortsBefore(plan[p], plan[q])
    BY <1>1, <2>1, <2>2, <2>3, FirstStage DEF SortsBefore
  <2> QED
    BY <1>1, <2>4, PlannedInOrder
<1>2. IInv => ColumnsFirst
  BY <1>1, Zenon DEF ColumnsFirst, Before
<1> QED
  BY <1>2, IInvAlways, PTL

\* A new table comes after the new tables its foreign keys refer to, for every request
\* (operation_table.go:94, dag.go:133-138).
THEOREM ReferencedTablesLead == Spec => []ReferencedTablesFirst
<1>1. ASSUME IInv, pc = "planned", NEW p \in DOMAIN plan, NEW q \in DOMAIN plan,
             plan[p].kind = "add_table", p # q, plan[q].kind = "add_table",
             NEW constraint \in Range(TargetTable(request, plan[q].key).constraints),
             RefersTo(constraint, plan[p].key)
      PROVE  p < q
  <2>1. /\ plan[p] \in Listed(request) /\ plan[q] \in Listed(request) /\ plan[p] # plan[q]
        /\ ListsReferences(request)
    BY <1>1, PlannedInOrder, RequestFacts
  <2>2. plan[p].key \in References(TargetTable(request, plan[q].key))
    BY <1>1 DEF RefersTo, References, Range
  <2>3. Range(plan[q].dependsOn) = References(TargetTable(request, plan[q].key))
    BY <1>1, <2>1, Zenon DEF ListsReferences
  <2>4. \A other \in Listed(request) : other.key = plan[p].key => other = plan[p]
    BY <1>1, <2>1, Zenon DEF ListsReferences
  <2>5. IsOnly(plan[p])
    BY <2>4 DEF IsOnly, OfStage, Wanted
  <2>6. IsEarlier(plan[p], plan[q]) \/ SortsBefore(plan[p], plan[q])
    BY <1>1, <2>1, <2>2, <2>3, <2>5, FirstStage DEF SortsBefore
  <2> QED
    BY <1>1, <2>6, PlannedInOrder
<1>2. IInv => ReferencedTablesFirst
  BY <1>1, Zenon DEF ReferencedTablesFirst, Before
<1> QED
  BY <1>2, IInvAlways, PTL

\* What a node needs is another one whose key its operation depends on.
LEMMA NeedsOne ==
  ASSUME ops \in Seq(Operation), NEW n \in DOMAIN ops, NEW m \in SP!Needs[n]
  PROVE  m \in DOMAIN ops /\ m # n /\ ops[m].key \in Range(ops[n].dependsOn)
<1>1. PICK key \in SP!Range(ops[n].dependsOn) : m = SP!findNodeByObjectKey(key) /\ m # SP!None /\ m # n
  BY DEF SP!Needs, SP!Node
<1>2. m \in SP!Matches(key)
  <2>1. SP!Matches(key) # {} /\ m = SP!First(SP!Preferred(SP!Matches(key)))
    BY <1>1 DEF SP!findNodeByObjectKey
  <2>2. SP!Preferred(SP!Matches(key)) # {} /\ SP!Preferred(SP!Matches(key)) \subseteq SP!Matches(key)
    BY <2>1 DEF SP!Preferred
  <2>3. SP!Matches(key) \subseteq Nat
    BY DEF SP!Matches, SP!Node
  <2>4. PICK least \in SP!Preferred(SP!Matches(key)) :
          \A other \in SP!Preferred(SP!Matches(key)) : least <= other
    BY <2>2, <2>3, LeastElement
  <2>5. SP!First(SP!Preferred(SP!Matches(key))) \in SP!Preferred(SP!Matches(key))
    BY <2>4 DEF SP!First
  <2> QED
    BY <2>1, <2>2, <2>5
<1> QED
  BY <1>1, <1>2 DEF SP!Matches, SP!Node, SP!Range, Range

\* Operations of which each depends on another one of them: there are new tables
\* among them, and each of these refers to another one of these.
LEMMA TablesInACircle ==
  ASSUME IsRequest(request), NEW C, C # {}, C \subseteq Listed(request),
         \A op \in C : \E other \in C : other # op /\ other.key \in Range(op.dependsOn)
  PROVE  \E S \in SUBSET NewReferences(request) :
           S # {} /\ \A node \in S : \E other \in S : other[1] \in node[2]
<1>1. ListsNoOtherNeeds(request) /\ ListsReferences(request)
  BY RequestFacts
<1>2. ASSUME NEW op \in C
      PROVE  \E other \in C : /\ other # op /\ other.key \in Range(op.dependsOn)
                              /\ other.kind = "add_table"
  <2>1. PICK other \in C : other # op /\ other.key \in Range(op.dependsOn)
    OBVIOUS
  <2>2. PICK third \in C : third.key \in Range(other.dependsOn)
    OBVIOUS
  <2>3. other.dependsOn # <<>>
    BY <2>2 DEF Range
  <2>4. other.kind = "add_table" \/ other.dependsOn = <<>>
    BY <1>1, <2>1, Zenon DEF ListsNoOtherNeeds
  <2> QED
    BY <2>1, <2>3, <2>4
<1> DEFINE NodeOf(op) == <<op.key, Range(op.dependsOn) \ {op.key}>>
           tables == {op \in C : op.kind = "add_table"}
           S == {NodeOf(op) : op \in tables}
<1>3. /\ \A op \in tables : NodeOf(op) \in NewReferences(request)
      /\ \A op \in tables, other \in C : other.key = op.key => other = op
  BY <1>1, Zenon DEF ListsReferences
<1>4. tables # {}
  BY <1>2
<1>5. ASSUME NEW op \in tables
      PROVE  \E other \in tables : NodeOf(other)[1] \in NodeOf(op)[2]
  <2>1. PICK other \in C : other # op /\ other.key \in Range(op.dependsOn) /\ other.kind = "add_table"
    BY <1>2
  <2>2. other \in tables /\ other.key # op.key
    BY <1>3, <2>1
  <2>3. NodeOf(other)[1] = other.key /\ NodeOf(op)[2] = Range(op.dependsOn) \ {op.key}
    OBVIOUS
  <2> QED
    BY <2>1, <2>2, <2>3
<1> HIDE DEF NodeOf, tables
<1>6. S \in SUBSET NewReferences(request) /\ S # {}
  BY <1>3, <1>4
<1>7. \A node \in S : \E other \in S : other[1] \in node[2]
  BY <1>5
<1> QED
  BY <1>6, <1>7

\* A cycle is only ever reported where new tables refer to one another in a circle, for
\* every request (dag.go:49, 87, 141-146).
THEOREM CyclesAreReferences == Spec => []CycleMeansMutualReferences
<1>1. ASSUME IInv, pc = "cycle"
      PROVE  \E S \in SUBSET NewReferences(request) :
               S # {} /\ \A node \in S : \E other \in S : other[1] \in node[2]
  <2> DEFINE stage == StageOrder[next]
             left == DOMAIN ops \ Range(result)
             C == {ops[n] : n \in left}
  <2>1. /\ SortInv /\ phase = "cycle" /\ ops = stages[stage] /\ next \in 1..3 /\ IsStaged
        /\ IsRequest(request)
    BY <1>1 DEF IInv, Types, Sorting, Staging, StageOps
  <2>2. IsListOf(ops, OfStage(stage))
    BY <2>1, StageType DEF IsStaged
  <2>3. SP!Deadlocked(left)
    <3>1. SP!Deadlocked(SP!Node \ SP!Range(result))
      BY <2>1, SortAssumptions, SP!CycleIsReal DEF SortInv
    <3> QED
      BY <3>1 DEF SP!Node, SP!Range, Range
  <2>4. ops \in Seq(Operation)
    BY <2>1 DEF SortInv, SP!Inv, SP!TypeOK
  <2>5. C \subseteq Listed(request)
    BY <2>2 DEF IsListOf, Range, OfStage, Wanted
  <2>6. C # {}
    BY <2>3 DEF SP!Deadlocked
  <2>7. ASSUME NEW n \in left
        PROVE  \E other \in C : other # ops[n] /\ other.key \in Range(ops[n].dependsOn)
    <3>1. PICK m \in SP!Needs[n] : m \in left
      BY <2>3 DEF SP!Deadlocked
    <3>2. m \in DOMAIN ops /\ m # n /\ ops[m].key \in Range(ops[n].dependsOn)
      BY <2>4, NeedsOne
    <3>3. ops[m] # ops[n]
      BY <2>2, <3>2 DEF IsListOf, IsInjective
    <3> QED
      BY <3>1, <3>2, <3>3
  <2> HIDE DEF left
  <2>8. \A op \in C : \E other \in C : other # op /\ other.key \in Range(op.dependsOn)
    BY <2>7
  <2> HIDE DEF C
  <2> QED
    BY <2>1, <2>5, <2>6, <2>8, TablesInACircle
<1>2. IInv => CycleMeansMutualReferences
  BY <1>1, Zenon DEF CycleMeansMutualReferences
<1> QED
  BY <1>2, IInvAlways, PTL

----------------------------------------------------------------------------
(* What the differ lists, operations that say that they are destructive if *)
(* they are set apart from those that do not.                              *)

\* A view that is dropped to be made again as a materialized one.
Again(sv) == <<DropViewOp(sv[1], sv[2], TRUE), CreateMaterializedViewOp(sv[1], sv[2])>>
Recreations == {Again(sv) : sv \in NameSet \X NameSet}

\* Steps that list operations of S only, and views that are made again.
StepsWith(S) == Seq([checked : BOOLEAN, adds : SUBSET (Seq(S) \cup Recreations), calls : Seq(Calls)])

LEMMA CheckedWith ==
  ASSUME NEW S, NEW list, list \in Seq(S) \cup Recreations
  PROVE  <<Checked(list)>> \in StepsWith(S) /\ <<Unchecked(list)>> \in StepsWith(S)
BY DEF Checked, Unchecked, StepsWith

LEMMA ConcatWith ==
  ASSUME NEW S, NEW a \in StepsWith(S), NEW b \in StepsWith(S)
  PROVE  a \o b \in StepsWith(S)
BY DEF StepsWith

LEMMA WhenWith ==
  ASSUME NEW S, NEW op \in S, NEW condition
  PROVE  When(condition, op) \in Seq(S)
BY DEF When

LEMMA LoopWith ==
  ASSUME NEW S, NEW N, N \subseteq NameSet, NEW F, \A n \in N : F[n] \in Seq(S) \cup Recreations
  PROVE  CheckedLoop(N, F) \in StepsWith(S)
<1>1. /\ DOMAIN Sorted(N) = 1..Len(Sorted(N)) /\ Len(Sorted(N)) \in Nat
      /\ \A k \in DOMAIN Sorted(N) : Sorted(N)[k] \in N
  BY SortedFacts
<1> DEFINE T == [checked : BOOLEAN, adds : SUBSET (Seq(S) \cup Recreations), calls : Seq(Calls)]
<1>2. \A n \in N : Checked(F[n]) \in T
  BY DEF Checked
<1>3. StepsWith(S) = Seq(T)
  BY DEF StepsWith
<1> HIDE DEF T
<1>4. \A k \in 1..Len(Sorted(N)) : Checked(F[Sorted(N)[k]]) \in T
  BY <1>1, <1>2
<1>5. CheckedLoop(N, F) = [k \in 1..Len(Sorted(N)) |-> Checked(F[Sorted(N)[k]])]
  BY <1>1 DEF CheckedLoop
<1> QED
  BY <1>1, <1>3, <1>4, <1>5

LEMMA CallWith ==
  ASSUME NEW S, NEW call \in Calls, NEW list \in StepsWith(S)
  PROVE  In(call, list) \in StepsWith(S)
<1> DEFINE T == [checked : BOOLEAN, adds : SUBSET (Seq(S) \cup Recreations), calls : Seq(Calls)]
<1>1. StepsWith(S) = Seq(T)
  BY DEF StepsWith
<1>2. \A step \in T : [step EXCEPT !.calls = Append(@, call)] \in T
  <2> TAKE step \in T
  <2>1. Append(step.calls, call) \in Seq(Calls)
    OBVIOUS
  <2> QED
    BY <2>1
<1> HIDE DEF T
<1>3. DOMAIN list = 1..Len(list) /\ Len(list) \in Nat /\ \A k \in 1..Len(list) : list[k] \in T
  BY <1>1
<1>4. In(call, list) = [k \in 1..Len(list) |-> [list[k] EXCEPT !.calls = Append(@, call)]]
  BY <1>3 DEF In
<1>5. \A k \in 1..Len(list) : [list[k] EXCEPT !.calls = Append(@, call)] \in T
  BY <1>2, <1>3
<1> QED
  BY <1>1, <1>3, <1>4, <1>5

LEMMA AnyOrderWith ==
  ASSUME NEW S, NEW X, X \subseteq S, IsFiniteSet(X)
  PROVE  <<AnyOrder(X)>> \in StepsWith(S)
<1>1. \A list \in SetToSeqs(X) : list \in Seq(S)
  BY EveryListOfSet
<1> QED
  BY <1>1 DEF AnyOrder, StepsWith

\* Loops of steps, or of lists of operations.
LEMMA LoopsWith ==
  ASSUME NEW T, NEW N, N \subseteq NameSet, NEW F, \A n \in N : F[n] \in Seq(T)
  PROVE  FlattenSeq(Loop(N, F)) \in Seq(T)
<1>1. Loop(N, F) \in Seq(Seq(T))
  BY LoopPairs
<1> QED
  BY <1>1, FlattenList

----------------------------------------------------------------------------
\* The kinds that take something away, but for the rename.
LosingKinds ==
  {"drop_table", "drop_column", "alter_column_type", "drop_constraint", "drop_index", "drop_enum_type",
   "drop_view", "drop_materialized_view", "drop_sequence", "drop_extension", "drop_schema"}

\* Operations that say that they are destructive if they are, about any object.
PlainOps ==
  {op \in Operation :
     /\ op.kind \in LosingKinds => op.destructive
     /\ op.kind \notin {"rename_column", "alter_column_collation"}
     /\ op.kind = "add_enum_label" => op.key.path[2] \in Text}

\* Those that the differ may list for the columns of a table.
ColumnOps(s, t, source, target) ==
  PlainOps \cup {RenameColumnOp(s, t, c) : c \in Renames(source, target)}
    \cup {AlterColumnCollationOp(s, t, c) : c \in DOMAIN source \cap DOMAIN target}

LEMMA PlainColumnOp ==
  ASSUME NEW s \in Text, NEW t \in Text, NEW c \in Text, NEW kind \in ColumnKinds,
         kind \notin {"rename_column", "alter_column_collation"},
         NEW destructive \in BOOLEAN, kind \in {"drop_column", "alter_column_type"} => destructive
  PROVE  ColumnOp(kind, s, t, c, destructive) \in PlainOps
<1>1. kind \in Kinds
  BY DEF ColumnKinds, FieldKinds, Kinds, PreDeployKinds, DeployKinds, PostDeployKinds
<1>2. /\ ColumnOp(kind, s, t, c, destructive) \in Operation
      /\ ColumnOp(kind, s, t, c, destructive).kind = kind
  BY <1>1, ColumnOpType
<1>3. ColumnOp(kind, s, t, c, destructive).destructive = destructive
  BY DEF ColumnOp, Op
<1>4. kind # "add_enum_label" /\ (kind \in LosingKinds => kind \in {"drop_column", "alter_column_type"})
  BY DEF ColumnKinds, FieldKinds, LosingKinds
<1> QED
  BY <1>2, <1>3, <1>4 DEF PlainOps

LEMMA diffColumnWith ==
  ASSUME NEW s \in Text, NEW t \in Text, NEW c \in Text, NEW source, NEW target,
         NEW S, PlainOps \subseteq S, AlterColumnCollationOp(s, t, c) \in S
  PROVE  diffColumn(s, t, c, source, target) \in Seq(S)
<1> DEFINE o1 == AlterColumnTypeOp(s, t, c)
           o2 == SetNotNullOp(s, t, c)
           o3 == DropNotNullOp(s, t, c)
           o4 == IF target.default = "none" THEN DropDefaultOp(s, t, c) ELSE SetDefaultOp(s, t, c)
           o5 == AlterColumnCollationOp(s, t, c)
           o6 == CASE source.identity = "none" -> AddIdentityOp(s, t, c)
                   [] target.identity = "none" -> DropIdentityOp(s, t, c)
                   [] OTHER -> SetIdentityOp(s, t, c)
           c1 == source.type # target.type
           c2 == source.nullable /\ ~target.nullable
           c3 == ~source.nullable /\ target.nullable
           c4 == source.default # target.default
           c5 == source.collation # target.collation
           c6 == source.identity # target.identity
           w1 == When(c1, o1)
           w2 == When(c2, o2)
           w3 == When(c3, o3)
           w4 == When(c4, o4)
           w5 == When(c5, o5)
           w6 == When(c6, o6)
<1>1. \A kind \in FieldKinds \ {"alter_column_collation"}, destructive \in BOOLEAN :
        (kind = "alter_column_type" => destructive) => ColumnOp(kind, s, t, c, destructive) \in S
  <2>1. \A kind \in FieldKinds \ {"alter_column_collation"} :
          kind \in ColumnKinds /\ kind \notin {"rename_column", "alter_column_collation", "drop_column"}
    BY DEF ColumnKinds, FieldKinds
  <2> QED
    BY <2>1, PlainColumnOp
<1>2. o1 \in S /\ o2 \in S /\ o3 \in S /\ o4 \in S /\ o5 \in S /\ o6 \in S
  BY <1>1 DEF FieldKinds, AlterColumnTypeOp, SetNotNullOp, DropNotNullOp, DropDefaultOp, SetDefaultOp,
              AddIdentityOp, DropIdentityOp, SetIdentityOp
<1>3. diffColumn(s, t, c, source, target) = w1 \o w2 \o w3 \o w4 \o w5 \o w6
  BY DEF diffColumn
<1> HIDE DEF o1, o2, o3, o4, o5, o6, c1, c2, c3, c4, c5, c6
<1>4. w1 \in Seq(S) /\ w2 \in Seq(S) /\ w3 \in Seq(S) /\ w4 \in Seq(S) /\ w5 \in Seq(S) /\ w6 \in Seq(S)
  BY <1>2, WhenWith
<1> HIDE DEF w1, w2, w3, w4, w5, w6
<1> QED
  BY <1>3, <1>4

LEMMA diffTableColumnsWith ==
  ASSUME NEW s \in Text, NEW t \in Text, NEW source, NEW target,
         DOMAIN source \subseteq NameSet, DOMAIN target \subseteq NameSet,
         NEW S, ColumnOps(s, t, source, target) \subseteq S
  PROVE  diffTableColumns(s, t, source, target) \in StepsWith(S)
<1> DEFINE gone == DOMAIN source \ DOMAIN target
           renamed == Renames(source, target)
           added == (DOMAIN target \ DOMAIN source) \ {RenameTarget(c, source, target) : c \in renamed}
           F1 == [c \in gone |-> When(c \in renamed, RenameColumnOp(s, t, c))]
           F2 == [c \in added |-> AddColumnOp(s, t, c)]
           dropped == {DropColumnOp(s, t, c) : c \in gone \ renamed}
           F3 == [c \in DOMAIN target |-> IF c \in DOMAIN source
                                          THEN diffColumn(s, t, c, source[c], target[c]) ELSE <<>>]
           a == CheckedLoop(gone, F1)
           b == Unchecked(Loop(added, F2))
           d == AnyOrder(dropped)
           e == CheckedLoop(DOMAIN target, F3)
<1>1. gone \subseteq NameSet /\ added \subseteq NameSet /\ NameSet \subseteq Text /\ IsFiniteSet(NameSet)
  BY NameFacts
<1>2. diffTableColumns(s, t, source, target) = a \o <<b, d>> \o e
  <2>1. Each(gone, LAMBDA c : Checked(When(c \in renamed, RenameColumnOp(s, t, c)))) = a
    BY <1>1, SortedFacts DEF Each, CheckedLoop
  <2>2. Each(added, LAMBDA c : AddColumnOp(s, t, c)) = Loop(added, F2)
    BY <1>1, SortedFacts DEF Each, Loop
  <2>3. Each(DOMAIN target, LAMBDA c : Checked(IF c \in DOMAIN source
                                               THEN diffColumn(s, t, c, source[c], target[c]) ELSE <<>>)) = e
    BY <1>1, SortedFacts DEF Each, CheckedLoop
  <2> QED
    BY <2>1, <2>2, <2>3, Zenon DEF diffTableColumns
<1>3. PlainOps \subseteq S /\ \A c \in DOMAIN source \cap DOMAIN target : AlterColumnCollationOp(s, t, c) \in S
  BY DEF ColumnOps
<1>4. \A c \in renamed : RenameColumnOp(s, t, c) \in S
  BY DEF ColumnOps
<1>5. \A c \in Text : AddColumnOp(s, t, c) \in S /\ DropColumnOp(s, t, c) \in S
  <2>1. {"add_column", "drop_column"} \subseteq ColumnKinds
    BY DEF ColumnKinds
  <2> QED
    BY <1>3, <2>1, PlainColumnOp DEF AddColumnOp, DropColumnOp
<1>6. \A c \in gone : F1[c] \in Seq(S)
  BY <1>4, WhenWith DEF When
<1>7. \A c \in added : F2[c] \in S
  BY <1>1, <1>5
<1>8. \A c \in DOMAIN target : F3[c] \in Seq(S)
  BY <1>1, <1>3, diffColumnWith
<1>9. dropped \subseteq S /\ IsFiniteSet(dropped)
  <2> DEFINE D == [c \in gone \ renamed |-> DropColumnOp(s, t, c)]
  <2>1. IsFiniteSet(gone \ renamed)
    BY <1>1, FS_Subset
  <2>2. D \in Surjection(gone \ renamed, dropped)
    BY DEF Surjection
  <2> QED
    BY <1>1, <1>5, <2>1, <2>2, FS_Surjection
<1> HIDE DEF gone, added, renamed, F1, F2, F3, dropped
<1>10. a \in StepsWith(S) /\ e \in StepsWith(S)
  BY <1>1, <1>6, <1>8, LoopWith
<1>11. Loop(added, F2) \in Seq(S)
  BY <1>1, <1>7, LoopPairs
<1>12. <<b>> \in StepsWith(S) /\ <<d>> \in StepsWith(S)
  BY <1>9, <1>11, CheckedWith, AnyOrderWith
<1> HIDE DEF a, b, d, e
<1>13. <<b, d>> \in StepsWith(S)
  BY <1>12 DEF StepsWith
<1>14. a \o <<b, d>> \in StepsWith(S)
  BY <1>10, <1>13, ConcatWith
<1> QED
  BY <1>2, <1>10, <1>14, ConcatWith

LEMMA PlainPartOps ==
  ASSUME NEW s \in Text, NEW t \in Text, NEW n \in Text
  PROVE  /\ CreateIndexOp(s, t, n) \in PlainOps /\ DropIndexOp(s, n) \in PlainOps
         /\ AddConstraintOp(s, t, n) \in PlainOps /\ DropConstraintOp(s, t, n) \in PlainOps
<1>1. /\ CreateIndexOp(s, t, n) \in Operation /\ CreateIndexOp(s, t, n).kind = "add_index"
      /\ DropIndexOp(s, n) \in Operation /\ DropIndexOp(s, n).kind = "drop_index"
  BY IndexOpType
<1>2. /\ AddConstraintOp(s, t, n) \in Operation /\ AddConstraintOp(s, t, n).kind = "add_constraint"
      /\ DropConstraintOp(s, t, n) \in Operation /\ DropConstraintOp(s, t, n).kind = "drop_constraint"
  BY ConstraintOpType
<1>3. DropIndexOp(s, n).destructive /\ DropConstraintOp(s, t, n).destructive
  BY DEF DropIndexOp, DropConstraintOp, Op
<1> QED
  BY <1>1, <1>2, <1>3 DEF PlainOps, LosingKinds

LEMMA diffTableIndexesWith ==
  ASSUME NEW s \in Text, NEW t \in Text, NEW source, NEW target,
         DOMAIN source \subseteq NameSet, DOMAIN target \subseteq NameSet
  PROVE  diffTableIndexes(s, t, source, target) \in Seq(PlainOps)
<1> DEFINE new == DOMAIN target \ DOMAIN source
           gone == DOMAIN source \ DOMAIN target
           changed == {x \in DOMAIN source \cap DOMAIN target : source[x] # target[x]}
           F1 == [x \in new |-> CreateIndexOp(s, t, x)]
           F2 == [x \in gone |-> DropIndexOp(s, x)]
           F3 == [x \in changed |-> <<DropIndexOp(s, x), CreateIndexOp(s, t, x)>>]
<1>1. new \subseteq NameSet /\ gone \subseteq NameSet /\ changed \subseteq NameSet /\ NameSet \subseteq Text
  BY NameFacts
<1>2. diffTableIndexes(s, t, source, target) = Loop(new, F1) \o Loop(gone, F2) \o FlattenSeq(Loop(changed, F3))
  BY <1>1, SortedNames, Zenon DEF diffTableIndexes, Each, EachOp, Loop
<1>3. /\ \A x \in new : F1[x] \in PlainOps
      /\ \A x \in gone : F2[x] \in PlainOps
      /\ \A x \in changed : F3[x] \in Seq(PlainOps)
  <2>1. \A x \in Text : CreateIndexOp(s, t, x) \in PlainOps /\ DropIndexOp(s, x) \in PlainOps
    BY PlainPartOps
  <2> QED
    BY <1>1, <2>1
<1> HIDE DEF new, gone, changed, F1, F2, F3
<1>4. Loop(new, F1) \in Seq(PlainOps) /\ Loop(gone, F2) \in Seq(PlainOps)
  BY <1>1, <1>3, LoopPairs
<1>5. FlattenSeq(Loop(changed, F3)) \in Seq(PlainOps)
  BY <1>1, <1>3, LoopsWith
<1> QED
  BY <1>2, <1>4, <1>5

LEMMA diffTableConstraintsWith ==
  ASSUME NEW s \in Text, NEW t \in Text, NEW source, NEW target,
         DOMAIN source \subseteq NameSet, DOMAIN target \subseteq NameSet
  PROVE  diffTableConstraints(s, t, source, target) \in Seq(PlainOps)
<1> DEFINE new == DOMAIN target \ DOMAIN source
           gone == DOMAIN source \ DOMAIN target
           changed == {c \in DOMAIN source \cap DOMAIN target :
                         /\ ~sameConstraintContent(source[c], target[c])
                         /\ ~sameConstraintSemantics(source[c], target[c])}
           F1 == [c \in new |-> AddConstraintOp(s, t, c)]
           F2 == [c \in changed |-> <<DropConstraintOp(s, t, c), AddConstraintOp(s, t, c)>>]
           F3 == [c \in gone |-> DropConstraintOp(s, t, c)]
<1>1. new \subseteq NameSet /\ gone \subseteq NameSet /\ changed \subseteq NameSet /\ NameSet \subseteq Text
  BY NameFacts
<1>2. diffTableConstraints(s, t, source, target) = Loop(new, F1) \o FlattenSeq(Loop(changed, F2)) \o Loop(gone, F3)
  BY <1>1, SortedNames, Zenon DEF diffTableConstraints, Each, EachOp, Loop
<1>3. /\ \A c \in new : F1[c] \in PlainOps
      /\ \A c \in gone : F3[c] \in PlainOps
      /\ \A c \in changed : F2[c] \in Seq(PlainOps)
  <2>1. \A c \in Text : AddConstraintOp(s, t, c) \in PlainOps /\ DropConstraintOp(s, t, c) \in PlainOps
    BY PlainPartOps
  <2> QED
    BY <1>1, <2>1
<1> HIDE DEF new, gone, changed, F1, F2, F3
<1>4. Loop(new, F1) \in Seq(PlainOps) /\ Loop(gone, F3) \in Seq(PlainOps)
  BY <1>1, <1>3, LoopPairs
<1>5. FlattenSeq(Loop(changed, F2)) \in Seq(PlainOps)
  BY <1>1, <1>3, LoopsWith
<1> QED
  BY <1>2, <1>4, <1>5

\* What may be listed for the tables that stay.
TableOps0(s, source, target) ==
  PlainOps \cup UNION {ColumnOps(s, t, source[t].columns, target[t].columns) : t \in DOMAIN source \cap DOMAIN target}

LEMMA diffTableWith ==
  ASSUME NEW s \in NameSet, NEW t \in NameSet, NEW source, NEW target, IsTable(source), IsTable(target),
         NEW S, ColumnOps(s, t, source.columns, target.columns) \subseteq S
  PROVE  diffTable(s, t, source, target) \in StepsWith(S)
<1> DEFINE call == <<"diffTableColumns", s, t>>
           columns == diffTableColumns(s, t, source.columns, target.columns)
           indexes == diffTableIndexes(s, t, source.indexes, target.indexes)
           constraints == diffTableConstraints(s, t, source.constraints, target.constraints)
<1>1. /\ DOMAIN source.columns \subseteq NameSet /\ DOMAIN target.columns \subseteq NameSet
      /\ DOMAIN source.indexes \subseteq NameSet /\ DOMAIN target.indexes \subseteq NameSet
      /\ DOMAIN source.constraints \subseteq NameSet /\ DOMAIN target.constraints \subseteq NameSet
  BY DEF IsTable, IsNamed, NameSet
<1>2. s \in Text /\ t \in Text /\ call \in Calls
  BY NameFacts DEF Calls
<1>3. diffTable(s, t, source, target) = In(call, columns) \o <<Unchecked(indexes \o constraints)>>
  BY DEF diffTable
<1>4. columns \in StepsWith(S)
  BY <1>1, <1>2, diffTableColumnsWith
<1>5. indexes \in Seq(PlainOps) /\ constraints \in Seq(PlainOps) /\ PlainOps \subseteq S
  BY <1>1, <1>2, diffTableIndexesWith, diffTableConstraintsWith DEF ColumnOps
<1> HIDE DEF call, columns, indexes, constraints
<1>6. In(call, columns) \in StepsWith(S)
  BY <1>2, <1>4, CallWith
<1>7. indexes \o constraints \in Seq(S)
  BY <1>5
<1>8. <<Unchecked(indexes \o constraints)>> \in StepsWith(S)
  BY <1>7, CheckedWith
<1> QED
  BY <1>3, <1>6, <1>8, ConcatWith

LEMMA diffTablesWith ==
  ASSUME NEW s \in NameSet, NEW source, NEW target,
         DOMAIN source \subseteq NameSet, DOMAIN target \subseteq NameSet,
         \A t \in DOMAIN source : IsTable(source[t]), \A t \in DOMAIN target : IsTable(target[t]),
         NEW S, TableOps0(s, source, target) \subseteq S
  PROVE  diffTables(s, source, target) \in StepsWith(S)
<1> DEFINE new == DOMAIN target \ DOMAIN source
           gone == DOMAIN source \ DOMAIN target
           both == DOMAIN source \cap DOMAIN target
           F1 == [t \in new |-> <<AddTableOp(s, t, target[t])>>]
           F2 == [t \in gone |-> <<DropTableOp(s, t)>>]
           F3 == [t \in both |-> diffTable(s, t, source[t], target[t])]
           a == CheckedLoop(new, F1)
           b == CheckedLoop(gone, F2)
           d == FlattenSeq(Loop(both, F3))
<1>1. /\ new \subseteq NameSet /\ gone \subseteq NameSet /\ both \subseteq NameSet
      /\ NameSet \subseteq Text /\ s \in Text
  BY NameFacts
<1>2. diffTables(s, source, target) = a \o b \o d
  BY <1>1, SortedNames, Zenon DEF diffTables, Each, EachOp, CheckedLoop, Loop
<1>3. PlainOps \subseteq S /\ \A t \in both : ColumnOps(s, t, source[t].columns, target[t].columns) \subseteq S
  BY DEF TableOps0
<1>4. \A t \in new : F1[t] \in Seq(S)
  <2>1. \A t \in new : AddTableOp(s, t, target[t]) \in Operation /\ AddTableOp(s, t, target[t]).kind = "add_table"
    BY <1>1, AddTableOpType
  <2>2. \A t \in new : AddTableOp(s, t, target[t]) \in PlainOps
    BY <2>1 DEF PlainOps, LosingKinds
  <2> QED
    BY <1>3, <2>2
<1>5. \A t \in gone : F2[t] \in Seq(S)
  <2>1. \A t \in gone : DropTableOp(s, t) \in Operation /\ DropTableOp(s, t).kind = "drop_table"
    BY <1>1, DropTableOpType
  <2>2. \A t \in gone : DropTableOp(s, t).destructive
    BY DEF DropTableOp, Op
  <2>3. \A t \in gone : DropTableOp(s, t) \in PlainOps
    BY <2>1, <2>2 DEF PlainOps
  <2> QED
    BY <1>3, <2>3
<1>6. \A t \in both : F3[t] \in StepsWith(S)
  BY <1>1, <1>3, diffTableWith
<1> HIDE DEF new, gone, both, F1, F2, F3
<1>7. a \in StepsWith(S) /\ b \in StepsWith(S)
  BY <1>1, <1>4, <1>5, LoopWith
<1>8. d \in StepsWith(S)
  BY <1>1, <1>6, LoopsWith DEF StepsWith
<1> HIDE DEF a, b, d
<1> QED
  BY <1>2, <1>7, <1>8, ConcatWith

----------------------------------------------------------------------------
LEMMA PlainOtherOps ==
  ASSUME NEW s \in Text, NEW n \in Text
  PROVE  /\ AddEnumTypeOp(s, n) \in PlainOps /\ DropEnumTypeOp(s, n) \in PlainOps
         /\ \A label \in Text : AddEnumLabelOp(s, n, label) \in PlainOps
         /\ CreateViewOp(s, n) \in PlainOps /\ ReplaceViewOp(s, n) \in PlainOps
         /\ CreateMaterializedViewOp(s, n) \in PlainOps /\ DropMaterializedViewOp(s, n) \in PlainOps
         /\ DropViewOp(s, n, FALSE) \in PlainOps
         /\ CreateSequenceOp(s, n) \in PlainOps /\ DropSequenceOp(s, n) \in PlainOps
         /\ AlterSequenceOp(s, n) \in PlainOps
         /\ CreateExtensionOp(s, n) \in PlainOps /\ DropExtensionOp(s, n) \in PlainOps
         /\ AlterExtensionUpdateOp(s, n) \in PlainOps
         /\ CreateSchemaOp(s) \in PlainOps /\ DropSchemaOp(s) \in PlainOps
<1>1. \A kind \in OtherKinds \ {"rename_column", "alter_column_collation", "add_enum_label"}, destructive \in BOOLEAN,
         object \in {"type", "view", "sequence", "extension"} :
        (kind \in LosingKinds => destructive) => Op(kind, Key(s, <<n>>, object), <<>>, destructive) \in PlainOps
  <2> TAKE kind \in OtherKinds \ {"rename_column", "alter_column_collation", "add_enum_label"}, destructive \in BOOLEAN,
           object \in {"type", "view", "sequence", "extension"}
  <2>1. object \in ObjectKinds
    BY DEF ObjectKinds
  <2> DEFINE op == Op(kind, Key(s, <<n>>, object), <<>>, destructive)
  <2>2. op.kind = kind /\ IsOtherOp(op, s, n, object)
    BY <2>1, OtherOpType
  <2>3. op.destructive = destructive
    BY DEF Op
  <2> HIDE DEF op
  <2>4. (kind \in LosingKinds => destructive) => op \in PlainOps
    BY <2>2, <2>3 DEF IsOtherOp, PlainOps
  <2> QED
    BY <2>4 DEF op
<1>2. {"add_enum_type", "drop_enum_type", "create_view", "replace_view", "create_materialized_view",
       "drop_materialized_view", "drop_view", "create_sequence", "drop_sequence", "alter_sequence",
       "create_extension", "drop_extension", "alter_extension_update"}
        \subseteq OtherKinds \ {"rename_column", "alter_column_collation", "add_enum_label"}
  BY DEF OtherKinds, Leads, Kinds, PreDeployKinds, DeployKinds, PostDeployKinds
<1>3. \A kind \in {"add_enum_type", "create_view", "replace_view", "create_materialized_view", "create_sequence",
                   "alter_sequence", "create_extension", "alter_extension_update"} : kind \notin LosingKinds
  BY DEF LosingKinds
<1>4. /\ AddEnumTypeOp(s, n) \in PlainOps /\ DropEnumTypeOp(s, n) \in PlainOps
  BY <1>1, <1>2, <1>3 DEF AddEnumTypeOp, DropEnumTypeOp, TypeKey
<1>5. /\ CreateViewOp(s, n) \in PlainOps /\ ReplaceViewOp(s, n) \in PlainOps
      /\ CreateMaterializedViewOp(s, n) \in PlainOps /\ DropMaterializedViewOp(s, n) \in PlainOps
      /\ DropViewOp(s, n, FALSE) \in PlainOps
  BY <1>1, <1>2, <1>3 DEF CreateViewOp, ReplaceViewOp, CreateMaterializedViewOp, DropMaterializedViewOp, DropViewOp, ViewOp
<1>6. /\ CreateSequenceOp(s, n) \in PlainOps /\ DropSequenceOp(s, n) \in PlainOps
      /\ AlterSequenceOp(s, n) \in PlainOps
  BY <1>1, <1>2, <1>3 DEF CreateSequenceOp, DropSequenceOp, AlterSequenceOp, SequenceOp
<1>7. /\ CreateExtensionOp(s, n) \in PlainOps /\ DropExtensionOp(s, n) \in PlainOps
      /\ AlterExtensionUpdateOp(s, n) \in PlainOps
  BY <1>1, <1>2, <1>3 DEF CreateExtensionOp, DropExtensionOp, AlterExtensionUpdateOp, ExtensionOp
<1>8. \A label \in Text : AddEnumLabelOp(s, n, label) \in PlainOps
  <2>1. \A label \in Text : /\ IsOtherOp(AddEnumLabelOp(s, n, label), s, n, "type")
                            /\ AddEnumLabelOp(s, n, label).kind = "add_enum_label"
                            /\ AddEnumLabelOp(s, n, label).key.path[2] = label
    BY LabelOpType
  <2> QED
    BY <2>1 DEF IsOtherOp, PlainOps, LosingKinds
<1>9. CreateSchemaOp(s) \in PlainOps /\ DropSchemaOp(s) \in PlainOps
  <2>1. DropSchemaOp(s).destructive
    BY DEF DropSchemaOp, Op
  <2> QED
    BY <2>1, SchemaOpType DEF PlainOps, LosingKinds
<1> QED
  BY <1>4, <1>5, <1>6, <1>7, <1>8, <1>9

LEMMA diffEnumTypeWith ==
  ASSUME NEW s \in Text, NEW n \in Text, NEW old \in Seq(STRING), NEW new \in Seq(STRING)
  PROVE  diffEnumType(s, n, old, new) \in Seq(PlainOps)
<1>1. CASE ~isEnumAppend(old, new)
  BY <1>1 DEF diffEnumType
<1>2. CASE isEnumAppend(old, new)
  <2> DEFINE more == Len(new) - Len(old)
  <2>1. diffEnumType(s, n, old, new) = [k \in 1..more |-> AddEnumLabelOp(s, n, new[Len(old) + k])]
    BY <1>2 DEF diffEnumType
  <2>2. more \in Nat /\ \A k \in 1..more : Len(old) + k \in DOMAIN new
    BY <1>2 DEF isEnumAppend, IsStrictPrefix, IsPrefix
  <2>3. \A k \in 1..more : new[Len(old) + k] \in Text
    BY <2>2 DEF Text
  <2> HIDE DEF more
  <2>4. \A k \in 1..more : AddEnumLabelOp(s, n, new[Len(old) + k]) \in PlainOps
    BY <2>3, PlainOtherOps
  <2>5. more \in Nat
    BY <2>2
  <2> QED
    BY <2>1, <2>4, <2>5
<1> QED
  BY <1>1, <1>2

LEMMA diffTypesWith ==
  ASSUME NEW s \in Text, NEW source, NEW target,
         DOMAIN source \subseteq NameSet, DOMAIN target \subseteq NameSet,
         \A n \in DOMAIN source : source[n] \in Seq(STRING),
         \A n \in DOMAIN target : target[n] \in Seq(STRING)
  PROVE  diffTypes(s, source, target) \in StepsWith(PlainOps)
<1> DEFINE F1 == [n \in DOMAIN target |-> When(n \notin DOMAIN source, AddEnumTypeOp(s, n))]
           F2 == [n \in DOMAIN target |->
                    IF n \in DOMAIN source THEN diffEnumType(s, n, source[n], target[n]) ELSE <<>>]
           F3 == [n \in DOMAIN source |-> When(n \notin DOMAIN target, DropEnumTypeOp(s, n))]
           a == CheckedLoop(DOMAIN target, F1)
           b == CheckedLoop(DOMAIN target, F2)
           d == CheckedLoop(DOMAIN source, F3)
<1>1. diffTypes(s, source, target) = a \o b \o d
  BY SortedNames, Zenon DEF diffTypes, Each, CheckedLoop
<1>2. /\ \A n \in DOMAIN target : n \in Text /\ AddEnumTypeOp(s, n) \in PlainOps
      /\ \A n \in DOMAIN source : n \in Text /\ DropEnumTypeOp(s, n) \in PlainOps
  <2>1. NameSet \subseteq Text
    BY NameFacts
  <2>2. \A n \in Text : AddEnumTypeOp(s, n) \in PlainOps /\ DropEnumTypeOp(s, n) \in PlainOps
    BY PlainOtherOps
  <2> QED
    BY <2>1, <2>2
<1>3. \A n \in DOMAIN target : F1[n] \in Seq(PlainOps)
  BY <1>2, WhenWith
<1>4. \A n \in DOMAIN target : F2[n] \in Seq(PlainOps)
  BY <1>2, diffEnumTypeWith
<1>5. \A n \in DOMAIN source : F3[n] \in Seq(PlainOps)
  BY <1>2, WhenWith
<1> HIDE DEF F1, F2, F3
<1>6. a \in StepsWith(PlainOps) /\ b \in StepsWith(PlainOps) /\ d \in StepsWith(PlainOps)
  BY <1>3, <1>4, <1>5, LoopWith
<1> HIDE DEF a, b, d
<1> QED
  BY <1>1, <1>6, ConcatWith

LEMMA diffViewWith ==
  ASSUME NEW s \in NameSet, NEW v \in NameSet, NEW source, NEW target,
         source.materialized \in BOOLEAN, target.materialized \in BOOLEAN
  PROVE  diffView(s, v, source, target) \in Seq(PlainOps) \cup Recreations
<1>0. s \in Text /\ v \in Text
  BY NameFacts
<1>1. /\ CreateViewOp(s, v) \in PlainOps /\ ReplaceViewOp(s, v) \in PlainOps
      /\ CreateMaterializedViewOp(s, v) \in PlainOps /\ DropMaterializedViewOp(s, v) \in PlainOps
  BY <1>0, PlainOtherOps
<1> DEFINE drop == DropAnyViewOp(s, v, source, TRUE)
           create == CreateAnyViewOp(s, v, target)
           again == source.materialized # target.materialized
                      \/ (source.definition # target.definition /\ target.materialized)
<1>2. diffView(s, v, source, target) =
        IF again THEN <<drop, create>>
        ELSE When(source.definition # target.definition, ReplaceViewOp(s, v))
  BY DEF diffView
<1>3. CASE again /\ source.materialized
  <2>1. <<drop, create>> \in Seq(PlainOps)
    BY <1>1, <1>3 DEF DropAnyViewOp, CreateAnyViewOp
  <2> QED
    BY <1>2, <1>3, <2>1
<1>4. CASE again /\ ~source.materialized
  <2>1. target.materialized
    BY <1>4
  <2>2. <<drop, create>> = <<DropViewOp(s, v, TRUE), CreateMaterializedViewOp(s, v)>>
    BY <1>4, <2>1 DEF DropAnyViewOp, CreateAnyViewOp
  <2> HIDE DEF drop, create
  <2>3. <<drop, create>> = Again(<<s, v>>) /\ <<s, v>> \in NameSet \X NameSet
    BY <2>2 DEF Again
  <2>4. <<drop, create>> \in Recreations
    BY <2>3, Zenon DEF Recreations
  <2> QED
    BY <1>2, <1>4, <2>4
<1>5. CASE ~again
  BY <1>1, <1>2, <1>5, WhenWith
<1> QED
  BY <1>3, <1>4, <1>5

LEMMA diffViewsWith ==
  ASSUME NEW s \in NameSet, NEW source, NEW target,
         DOMAIN source \subseteq NameSet, DOMAIN target \subseteq NameSet,
         \A v \in DOMAIN source : source[v].materialized \in BOOLEAN,
         \A v \in DOMAIN target : target[v].materialized \in BOOLEAN
  PROVE  diffViews(s, source, target) \in StepsWith(PlainOps)
<1> DEFINE F1 == [v \in DOMAIN target |->
                    IF v \in DOMAIN source THEN diffView(s, v, source[v], target[v])
                    ELSE <<CreateAnyViewOp(s, v, target[v])>>]
           F2 == [v \in DOMAIN source |->
                    When(v \notin DOMAIN target, DropAnyViewOp(s, v, source[v], FALSE))]
           a == CheckedLoop(DOMAIN target, F1)
           b == CheckedLoop(DOMAIN source, F2)
<1>1. diffViews(s, source, target) = a \o b
  BY SortedNames, Zenon DEF diffViews, Each, CheckedLoop
<1>2. s \in Text /\ NameSet \subseteq Text
  BY NameFacts
<1>3. \A v \in Text : /\ CreateViewOp(s, v) \in PlainOps /\ CreateMaterializedViewOp(s, v) \in PlainOps
                      /\ DropViewOp(s, v, FALSE) \in PlainOps /\ DropMaterializedViewOp(s, v) \in PlainOps
  BY <1>2, PlainOtherOps
<1>4. \A v \in DOMAIN target : F1[v] \in Seq(PlainOps) \cup Recreations
  <2>1. \A v \in DOMAIN target : CreateAnyViewOp(s, v, target[v]) \in PlainOps
    BY <1>2, <1>3 DEF CreateAnyViewOp
  <2>2. \A v \in DOMAIN target : <<CreateAnyViewOp(s, v, target[v])>> \in Seq(PlainOps)
    BY <2>1
  <2>3. \A v \in DOMAIN target \cap DOMAIN source :
          diffView(s, v, source[v], target[v]) \in Seq(PlainOps) \cup Recreations
    BY diffViewWith
  <2> QED
    BY <2>2, <2>3
<1>5. \A v \in DOMAIN source : F2[v] \in Seq(PlainOps)
  <2>1. \A v \in DOMAIN source : DropAnyViewOp(s, v, source[v], FALSE) \in PlainOps
    BY <1>2, <1>3 DEF DropAnyViewOp
  <2> QED
    BY <2>1, WhenWith
<1> HIDE DEF F1, F2
<1>6. a \in StepsWith(PlainOps) /\ b \in StepsWith(PlainOps)
  BY <1>4, <1>5, LoopWith
<1> HIDE DEF a, b
<1> QED
  BY <1>1, <1>6, ConcatWith

LEMMA diffSequencesWith ==
  ASSUME NEW s \in Text, NEW source, NEW target,
         DOMAIN source \subseteq NameSet, DOMAIN target \subseteq NameSet
  PROVE  diffSequences(s, source, target) \in StepsWith(PlainOps)
<1> DEFINE F1 == [q \in DOMAIN target |->
                    IF q \notin DOMAIN source THEN <<CreateSequenceOp(s, q)>>
                    ELSE When(source[q] # target[q], AlterSequenceOp(s, q))]
           F2 == [q \in DOMAIN source |-> When(q \notin DOMAIN target, DropSequenceOp(s, q))]
           a == CheckedLoop(DOMAIN target, F1)
           b == CheckedLoop(DOMAIN source, F2)
<1>1. diffSequences(s, source, target) = a \o b
  BY SortedNames, Zenon DEF diffSequences, Each, CheckedLoop
<1>2. \A q \in NameSet : /\ CreateSequenceOp(s, q) \in PlainOps /\ DropSequenceOp(s, q) \in PlainOps
                         /\ AlterSequenceOp(s, q) \in PlainOps
  BY NameFacts, PlainOtherOps
<1>3. /\ \A q \in DOMAIN target : F1[q] \in Seq(PlainOps)
      /\ \A q \in DOMAIN source : F2[q] \in Seq(PlainOps)
  BY <1>2, WhenWith
<1> HIDE DEF F1, F2
<1>4. a \in StepsWith(PlainOps) /\ b \in StepsWith(PlainOps)
  BY <1>3, LoopWith
<1> HIDE DEF a, b
<1> QED
  BY <1>1, <1>4, ConcatWith

LEMMA diffExtensionsWith ==
  ASSUME NEW s \in Text, NEW source, NEW target,
         DOMAIN source \subseteq NameSet, DOMAIN target \subseteq NameSet
  PROVE  diffExtensions(s, source, target) \in StepsWith(PlainOps)
<1> DEFINE Newer(e) == "unknown" \notin {source[e], target[e]} /\ source[e] # target[e]
           F1 == [e \in DOMAIN target |->
                    IF e \notin DOMAIN source THEN <<CreateExtensionOp(s, e)>>
                    ELSE When(Newer(e), AlterExtensionUpdateOp(s, e))]
           F2 == [e \in DOMAIN source |-> When(e \notin DOMAIN target, DropExtensionOp(s, e))]
           a == CheckedLoop(DOMAIN target, F1)
           b == CheckedLoop(DOMAIN source, F2)
<1>1. diffExtensions(s, source, target) = a \o b
  BY SortedNames, Zenon DEF diffExtensions, Each, CheckedLoop
<1>2. \A e \in NameSet : /\ CreateExtensionOp(s, e) \in PlainOps /\ DropExtensionOp(s, e) \in PlainOps
                         /\ AlterExtensionUpdateOp(s, e) \in PlainOps
  BY NameFacts, PlainOtherOps
<1> HIDE DEF Newer
<1>3. /\ \A e \in DOMAIN target : F1[e] \in Seq(PlainOps)
      /\ \A e \in DOMAIN source : F2[e] \in Seq(PlainOps)
  BY <1>2, WhenWith
<1> HIDE DEF F1, F2
<1>4. a \in StepsWith(PlainOps) /\ b \in StepsWith(PlainOps)
  BY <1>3, LoopWith
<1> HIDE DEF a, b
<1> QED
  BY <1>1, <1>4, ConcatWith

----------------------------------------------------------------------------
LEMMA MoreWith ==
  ASSUME NEW S, NEW T, S \subseteq T
  PROVE  StepsWith(S) \subseteq StepsWith(T)
<1> DEFINE Steps(X) == [checked : BOOLEAN, adds : SUBSET (Seq(X) \cup Recreations), calls : Seq(Calls)]
<1>1. Seq(S) \subseteq Seq(T)
  OBVIOUS
<1>2. Steps(S) \subseteq Steps(T)
  BY <1>1
<1>3. StepsWith(S) = Seq(Steps(S)) /\ StepsWith(T) = Seq(Steps(T))
  BY DEF StepsWith
<1> HIDE DEF Steps
<1> QED
  BY <1>2, <1>3

LEMMA diffNamespaceWith ==
  ASSUME NEW s \in NameSet, NEW source, NEW target, IsNamespace(source), IsNamespace(target),
         NEW S, TableOps0(s, source.tables, target.tables) \subseteq S
  PROVE  diffNamespace(s, source, target) \in StepsWith(S)
<1> DEFINE a == diffTables(s, source.tables, target.tables)
           b == diffTypes(s, source.types, target.types)
           d == diffViews(s, source.views, target.views)
           e == diffSequences(s, source.sequences, target.sequences)
           f == diffExtensions(s, source.extensions, target.extensions)
<1>1. diffNamespace(s, source, target) =
        In(<<"diffTables", s>>, a) \o In(<<"diffTypes", s>>, b) \o In(<<"diffViews", s>>, d)
          \o In(<<"diffSequences", s>>, e) \o In(<<"diffExtensions", s>>, f)
  BY DEF diffNamespace
<1>2. s \in Text
  BY NameFacts
<1>3. /\ DOMAIN source.tables \subseteq NameSet /\ DOMAIN target.tables \subseteq NameSet
      /\ DOMAIN source.types \subseteq NameSet /\ DOMAIN target.types \subseteq NameSet
      /\ DOMAIN source.views \subseteq NameSet /\ DOMAIN target.views \subseteq NameSet
      /\ DOMAIN source.sequences \subseteq NameSet /\ DOMAIN target.sequences \subseteq NameSet
      /\ DOMAIN source.extensions \subseteq NameSet /\ DOMAIN target.extensions \subseteq NameSet
  BY DEF IsNamespace, IsNamed, NameSet
<1>4. /\ \A t \in DOMAIN source.tables : IsTable(source.tables[t])
      /\ \A t \in DOMAIN target.tables : IsTable(target.tables[t])
      /\ \A n \in DOMAIN source.types : source.types[n] \in Seq(STRING)
      /\ \A n \in DOMAIN target.types : target.types[n] \in Seq(STRING)
  BY DEF IsNamespace
<1>5. /\ <<"diffTables", s>> \in Calls /\ <<"diffTypes", s>> \in Calls /\ <<"diffViews", s>> \in Calls
      /\ <<"diffSequences", s>> \in Calls /\ <<"diffExtensions", s>> \in Calls
  BY DEF Calls
<1>6. a \in StepsWith(S)
  BY <1>3, <1>4, diffTablesWith
<1>7. b \in StepsWith(S) /\ d \in StepsWith(S) /\ e \in StepsWith(S) /\ f \in StepsWith(S)
  <2>1. PlainOps \subseteq S
    BY DEF TableOps0
  <2>2. b \in StepsWith(PlainOps)
    BY <1>2, <1>3, <1>4, diffTypesWith
  <2>3. d \in StepsWith(PlainOps)
    BY <1>3, diffViewsWith DEF IsNamespace
  <2>4. e \in StepsWith(PlainOps) /\ f \in StepsWith(PlainOps)
    BY <1>2, <1>3, diffSequencesWith, diffExtensionsWith
  <2> QED
    BY <2>1, <2>2, <2>3, <2>4, MoreWith
<1> HIDE DEF a, b, d, e, f
<1> DEFINE ca == In(<<"diffTables", s>>, a)
           cb == In(<<"diffTypes", s>>, b)
           cd == In(<<"diffViews", s>>, d)
           ce == In(<<"diffSequences", s>>, e)
           cf == In(<<"diffExtensions", s>>, f)
<1>8. /\ ca \in StepsWith(S) /\ cb \in StepsWith(S) /\ cd \in StepsWith(S)
      /\ ce \in StepsWith(S) /\ cf \in StepsWith(S)
  BY <1>5, <1>6, <1>7, CallWith
<1>9. diffNamespace(s, source, target) = ca \o cb \o cd \o ce \o cf
  BY <1>1
<1> HIDE DEF ca, cb, cd, ce, cf
<1>10. ca \o cb \o cd \in StepsWith(S)
  BY <1>8, ConcatWith
<1>11. ca \o cb \o cd \o ce \in StepsWith(S)
  BY <1>8, <1>10, ConcatWith
<1> QED
  BY <1>8, <1>9, <1>11, ConcatWith

\* What may be listed for the columns of the tables that both schemas have.
ListedOps(from, to) ==
  PlainOps \cup UNION {UNION {ColumnOps(s, t, from[s].tables[t].columns, to[s].tables[t].columns) :
                               t \in DOMAIN from[s].tables \cap DOMAIN to[s].tables} :
                         s \in DOMAIN from \cap DOMAIN to}

LEMMA diffSchemaWith ==
  ASSUME NEW from, NEW to, IsSchema(from), IsSchema(to), NEW s \in DOMAIN to
  PROVE  diffSchema(s, from, to) \in StepsWith(ListedOps(from, to))
<1> DEFINE old == IF s \in DOMAIN from THEN from[s] ELSE EmptyNamespace
           first == IF s \in DOMAIN from THEN <<>> ELSE <<CreateSchemaOp(s)>>
           rest == diffNamespace(s, old, to[s])
           S == ListedOps(from, to)
<1>1. diffSchema(s, from, to) = <<Checked(first)>> \o rest
  BY DEF diffSchema
<1>2. s \in NameSet /\ s \in Text
  BY NameFacts DEF IsSchema, IsNamed, NameSet
<1>3. IsNamespace(old) /\ IsNamespace(to[s])
  BY EmptyNamespaceFacts DEF IsSchema
<1>4. TableOps0(s, old.tables, to[s].tables) \subseteq S
  <2>1. CASE s \in DOMAIN from
    BY <2>1 DEF TableOps0, ListedOps
  <2>2. CASE s \notin DOMAIN from
    <3>1. old.tables = <<>> /\ DOMAIN <<>> = {}
      BY <2>2, EmptyNamespaceFacts
    <3>2. DOMAIN old.tables \cap DOMAIN to[s].tables = {}
      BY <3>1
    <3> HIDE DEF old
    <3> QED
      BY <3>2 DEF TableOps0, ListedOps
  <2> QED
    BY <2>1, <2>2
<1>5. first \in Seq(S)
  <2>1. CreateSchemaOp(s) \in S
    BY <1>2, PlainOtherOps DEF ListedOps
  <2> QED
    BY <2>1
<1> HIDE DEF first, old, S
<1>6. rest \in StepsWith(S)
  BY <1>2, <1>3, <1>4, diffNamespaceWith
<1> HIDE DEF rest
<1>7. <<Checked(first)>> \in StepsWith(S)
  BY <1>5, CheckedWith
<1>8. <<Checked(first)>> \o rest \in StepsWith(S)
  BY <1>6, <1>7, ConcatWith
<1> QED
  BY <1>1, <1>8 DEF S

LEMMA diffSchemasWith ==
  ASSUME NEW from, NEW to, IsSchema(from), IsSchema(to)
  PROVE  diffSchemas(from, to) \in StepsWith(ListedOps(from, to))
<1> DEFINE F1 == [s \in DOMAIN to |-> diffSchema(s, from, to)]
           F2 == [s \in DOMAIN from |-> When(s \notin DOMAIN to /\ s # "public", DropSchemaOp(s))]
           a == FlattenSeq(Loop(DOMAIN to, F1))
           b == CheckedLoop(DOMAIN from, F2)
           call == <<"diffSchemas">>
           S == ListedOps(from, to)
<1>1. DOMAIN from \subseteq NameSet /\ DOMAIN to \subseteq NameSet /\ NameSet \subseteq Text
  BY NameFacts DEF IsSchema, IsNamed, NameSet
<1>2. diffSchemas(from, to) = In(call, a \o b)
  <2>1. \A N : N \subseteq NameSet => \A k \in DOMAIN Sorted(N) : Sorted(N)[k] \in N
    BY SortedNames
  <2>2. Each(DOMAIN to, LAMBDA s : diffSchema(s, from, to)) = Loop(DOMAIN to, F1)
    BY <1>1, <2>1, Zenon DEF Each, Loop
  <2>3. Each(DOMAIN from, LAMBDA s : Checked(When(s \notin DOMAIN to /\ s # "public", DropSchemaOp(s)))) = b
    BY <1>1, <2>1, Zenon DEF Each, CheckedLoop
  <2> QED
    BY <2>2, <2>3, Zenon DEF diffSchemas, EachOp
<1>3. \A s \in DOMAIN to : F1[s] \in StepsWith(S)
  BY diffSchemaWith
<1>4. \A s \in DOMAIN from : F2[s] \in Seq(S)
  <2>1. \A s \in DOMAIN from : DropSchemaOp(s) \in S
    BY <1>1, PlainOtherOps DEF ListedOps
  <2> DEFINE goes(s) == s \notin DOMAIN to /\ s # "public"
  <2> HIDE DEF S, goes
  <2>2. \A s \in DOMAIN from : When(goes(s), DropSchemaOp(s)) \in Seq(S)
    BY <2>1, WhenWith
  <2> QED
    BY <2>2 DEF goes
<1>5. call \in Calls
  BY DEF Calls
<1> HIDE DEF F1, F2, S, call
<1>6. a \in StepsWith(S)
  BY <1>1, <1>3, LoopsWith DEF StepsWith
<1>7. b \in StepsWith(S)
  BY <1>1, <1>4, LoopWith
<1> HIDE DEF a, b
<1>8. In(call, a \o b) \in StepsWith(S)
  BY <1>5, <1>6, <1>7, ConcatWith, CallWith
<1> QED
  BY <1>2, <1>8 DEF S

\* What is listed says that it is destructive if it is, but for renames, changes of a
\* collation and views that are dropped to be made again.
LEMMA ListsSafely ==
  ASSUME NEW req, IsRequest(req), NEW op \in Listed(req)
  PROVE  \/ op \in ListedOps(FilterNamespaces(req.source, req.schemas), FilterNamespaces(req.target, req.schemas))
         \/ \E s, v \in NameSet : /\ op = DropViewOp(s, v, TRUE)
                                  /\ CreateMaterializedViewOp(s, v) \in Listed(req)
<1> DEFINE from == FilterNamespaces(req.source, req.schemas)
           to == FilterNamespaces(req.target, req.schemas)
           S == ListedOps(from, to)
<1>1. IsSchema(from) /\ IsSchema(to)
  BY FilterNamespacesFacts DEF IsRequest
<1>2. StepsOf(req) \in StepsWith(S)
  BY <1>1, diffSchemasWith DEF StepsOf
<1> HIDE DEF S
<1>3. PICK step \in Range(StepsOf(req)) : op \in Added(step)
  BY DEF Listed
<1>0. \A T : \A list \in Seq(T) : Range(list) \subseteq T
  BY DEF Range
<1>4. step.adds \subseteq Seq(S) \cup Recreations
  <2> DEFINE T == [checked : BOOLEAN, adds : SUBSET (Seq(S) \cup Recreations), calls : Seq(Calls)]
  <2>1. StepsOf(req) \in Seq(T)
    BY <1>2 DEF StepsWith
  <2> HIDE DEF T
  <2>2. step \in T
    BY <1>0, <1>3, <2>1
  <2> QED
    BY <2>2 DEF T
<1>5. PICK some \in step.adds : op \in Range(some)
  BY <1>3 DEF Added
<1>6. CASE some \in Seq(S)
  <2>1. op \in S
    BY <1>0, <1>5, <1>6
  <2> QED
    BY <2>1 DEF S
<1>7. CASE some \in Recreations
  <2>1. PICK sv \in NameSet \X NameSet : some = Again(sv)
    BY <1>7 DEF Recreations
  <2>2. Range(some) = {DropViewOp(sv[1], sv[2], TRUE), CreateMaterializedViewOp(sv[1], sv[2])}
    <3> DEFINE x == DropViewOp(sv[1], sv[2], TRUE)
               y == CreateMaterializedViewOp(sv[1], sv[2])
    <3>1. some = <<x, y>>
      BY <2>1 DEF Again
    <3> HIDE DEF x, y
    <3>2. Range(some) = {x, y}
      BY <3>1 DEF Range
    <3> QED
      BY <3>2 DEF x, y
  <2>3. CreateMaterializedViewOp(sv[1], sv[2]) \in Listed(req)
    <3> DEFINE create == CreateMaterializedViewOp(sv[1], sv[2])
    <3>1. create \in Range(some)
      BY <2>2
    <3> HIDE DEF create
    <3>2. create \in Added(step)
      BY <1>5, <3>1 DEF Added
    <3>3. create \in Listed(req)
      BY <1>3, <3>2 DEF Listed
    <3> QED
      BY <3>3 DEF create
  <2>4. CASE op = DropViewOp(sv[1], sv[2], TRUE)
    BY <2>1, <2>3, <2>4
  <2>5. CASE op = CreateMaterializedViewOp(sv[1], sv[2])
    <3>1. sv[1] \in Text /\ sv[2] \in Text
      BY <2>1, NameFacts
    <3>2. op \in PlainOps
      BY <2>5, <3>1, PlainOtherOps
    <3> QED
      BY <3>2 DEF S, ListedOps
  <2> QED
    BY <1>5, <2>2, <2>4, <2>5
<1> QED
  BY <1>4, <1>5, <1>6, <1>7

\* The new name of a column is one that source does not have.
LEMMA RenamedToNew ==
  ASSUME NEW source, NEW target, DOMAIN target \subseteq NameSet, NEW c \in Renames(source, target)
  PROVE  /\ c \in DOMAIN source \ DOMAIN target
         /\ RenameTarget(c, source, target) \in DOMAIN target \ DOMAIN source
<1> DEFINE S == {d \in DOMAIN target \ DOMAIN source : columnSignature(target[d]) = columnSignature(source[c])}
<1>1. c \in DOMAIN source \ DOMAIN target /\ S # {}
  BY DEF Renames
<1>2. RenameTarget(c, source, target) = Last(Sorted(S))
  BY DEF RenameTarget
<1>3. /\ Len(Sorted(S)) \in Nat /\ DOMAIN Sorted(S) = 1..Len(Sorted(S))
      /\ \A k \in DOMAIN Sorted(S) : Sorted(S)[k] \in S
      /\ \A d \in S : \E k \in DOMAIN Sorted(S) : Sorted(S)[k] = d
  <2>1. S \subseteq NameSet
    OBVIOUS
  <2> HIDE DEF S
  <2>2. Range(Sorted(S)) = S /\ DOMAIN Sorted(S) = 1..Len(Sorted(S)) /\ Len(Sorted(S)) \in Nat
    BY <2>1, SortedFacts
  <2> QED
    BY <2>2 DEF Range
<1> HIDE DEF S
<1>4. Len(Sorted(S)) > 0
  BY <1>1, <1>3
<1>5. Last(Sorted(S)) \in S
  BY <1>3, <1>4 DEF Last
<1> QED
  BY <1>1, <1>2, <1>5 DEF S

=============================================================================
