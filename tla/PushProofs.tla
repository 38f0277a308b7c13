----------------------------- MODULE PushProofs -----------------------------
(***************************************************************************)
(* Proofs about Push, for every plan and all flags: the program and the    *)
(* server agree on the transaction, what is committed is the plan but for  *)
(* what may be missing, and push does what AtomicPush promises.            *)
(***************************************************************************)
EXTENDS Push, SequenceTheorems, TLAPS

\* A request, and the lengths and positions of its plan.
LEMMA PlanType ==
  ASSUME request \in Request
  PROVE  /\ ops \in Seq(Operation) /\ Len(ops) \in Nat
         /\ DOMAIN ops = 1..Len(ops)
         /\ \A p \in DOMAIN ops : ops[p] \in Operation
         /\ request.execute \in BOOLEAN /\ request.unsafeDrop \in BOOLEAN
BY DEF Request, ops

\* What holds of the positions before i holds of those before a later one.
LEMMA LaterPositions ==
  ASSUME NEW n \in Int, NEW m \in Int, n <= m, NEW s \in Seq(1..n)
  PROVE  s \in Seq(1..m)
OBVIOUS

\* The positions up to n are those before it and itself.
LEMMA OneMore ==
  ASSUME NEW n \in Nat \ {0}
  PROVE  1..n = 1..(n - 1) \cup {n}
OBVIOUS

\* The statement at hand is the last of those that were executed.
LEMMA AppendPosition ==
  ASSUME NEW n \in Nat \ {0}, NEW s \in Seq(1..(n - 1)),
         \A p, q \in DOMAIN s : p < q => s[p] < s[q]
  PROVE  /\ Append(s, n) \in Seq(1..n)
         /\ Range(Append(s, n)) = Range(s) \cup {n}
         /\ \A p, q \in DOMAIN Append(s, n) : p < q => Append(s, n)[p] < Append(s, n)[q]
<1>0. n \in 1..n
  OBVIOUS
<1>1. s \in Seq(1..n)
  BY LaterPositions, n - 1 <= n
<1>2. /\ Append(s, n) \in Seq(1..n) /\ Len(Append(s, n)) = Len(s) + 1
      /\ \A p \in 1..Len(s) : Append(s, n)[p] = s[p]
      /\ Append(s, n)[Len(s) + 1] = n
  BY <1>0, <1>1, AppendProperties
<1>3. Range(Append(s, n)) = Range(s) \cup {n}
  BY <1>0, <1>1, AppendProperties, SMTT(20) DEF Range
<1>4. \A p \in 1..Len(s) : s[p] \in 1..(n - 1)
  BY ElementOfSeq
<1>5. \A p, q \in DOMAIN Append(s, n) : p < q => Append(s, n)[p] < Append(s, n)[q]
  BY <1>2, <1>4
<1> QED
  BY <1>2, <1>3, <1>5

----------------------------------------------------------------------------
(* The invariant.                                                          *)

\* Initially the invariant holds.
LEMMA InitInv == Init => Inv
<1> SUFFICES ASSUME Init PROVE Inv
  OBVIOUS
<1>1. request \in Request
  BY RequestsAssumption DEF Init
<1>2. TypeOK
  <2>1. i = 1 /\ i \in 1..(Len(ops) + 1)
    BY <1>1, PlanType DEF Init
  <2>2. applied \in Seq(1..(i - 1)) /\ database \in Seq(1..(i - 1))
    BY EmptySeq DEF Init
  <2> QED
    BY <1>1, <2>1, <2>2 DEF Init, TypeOK, PC, Waits
<1>3. TransactionKnown
  BY DEF Init, TransactionKnown
<1>4. PlanFollowed
  BY <1>1, PlanType DEF Init, PlanFollowed
<1>5. DestructiveNeedsFlag
  BY DEF Init, DestructiveNeedsFlag, Range
<1> QED
  BY <1>2, <1>3, <1>4, <1>5 DEF Inv, Init

\* A step that executes nothing and moves on to no other statement disturbs
\* nothing of what is known of the statements so far.
LEMMA PlanKept ==
  ASSUME Inv, UNCHANGED <<request, i, skipped, applied>>,
         tx' \in {"committing", "committed"} => i = Len(ops) + 1
  PROVE  PlanFollowed' /\ DestructiveNeedsFlag'
BY DEF Inv, PlanFollowed, DestructiveNeedsFlag, MayBeMissing, ops

\* ExecutePlan may be left from every place in it, without an error only when no
\* commit is under way.
LEMMA ReturnKeepsInv ==
  ASSUME Inv, NEW error \in BOOLEAN, ReturnFromPlan(error),
         pc \in {"connect", "begin", "next", "prompt", "exec", "committing"},
         ~error => tx \in {"open", "committed"}
  PROVE  Inv'
<1> USE DEF Inv, ReturnFromPlan, End
<1>1. TypeOK'
  <2>1. UNCHANGED <<request, i, applyAll, skipped, handler, signalled, applied, database, timer, verdict>>
    BY DEF user
  <2>2. UNCHANGED <<ops, Len(ops)>>
    BY <2>1 DEF ops
  <2>3. pc' \in {"ended", "reload"} /\ report' \in {"error", "success", report}
    OBVIOUS
  <2>4. active' \in BOOLEAN /\ cancelled' \in BOOLEAN /\ tx' \in {tx, "rolledback"}
    OBVIOUS
  <2> QED
    BY <2>1, <2>2, <2>3, <2>4 DEF TypeOK, PC, Waits
<1>2. TransactionKnown'
  BY DEF TypeOK, TransactionKnown
<1>3. PlanFollowed' /\ DestructiveNeedsFlag'
  BY PlanKept DEF user, PlanFollowed
<1>4. (pc = "exec" => ~Blocked)'
  OBVIOUS
<1> QED
  BY <1>1, <1>2, <1>3, <1>4

\* Before and after the execution, and beside it.
LEMMA OutsideKeepsInv ==
  ASSUME Inv, Loaded \/ StartExecution \/ Connected \/ Interrupt \/ HandleSignal \/ TimerExpires \/ Reloaded \/ LoadFailed \/ NothingToExecute \/ ReloadFailed \/ Validated \/ ValidationFailed
  PROVE  Inv'
<1> USE DEF Inv, user, signal, server, ops
<1>1. CASE Loaded
  <2>1. TypeOK'
    BY <1>1, PlanType DEF Loaded, TypeOK, PC, Waits
  <2>2. TransactionKnown'
    BY <1>1 DEF Loaded, TypeOK, TransactionKnown
  <2>3. PlanFollowed' /\ DestructiveNeedsFlag'
    BY <1>1, PlanKept DEF Loaded, TransactionKnown, PlanFollowed
  <2> QED
    BY <1>1, <2>1, <2>2, <2>3 DEF Loaded, Blocked, op
<1>2. CASE StartExecution
  <2>1. TypeOK'
    BY <1>2, PlanType DEF StartExecution, TypeOK, PC, Waits
  <2>2. TransactionKnown'
    BY <1>2 DEF StartExecution, TypeOK, TransactionKnown
  <2>3. PlanFollowed' /\ DestructiveNeedsFlag'
    BY <1>2, PlanKept DEF StartExecution, TransactionKnown, PlanFollowed
  <2> QED
    BY <1>2, <2>1, <2>2, <2>3 DEF StartExecution, Blocked, op
<1>3. CASE Connected
  <2>1. TypeOK'
    BY <1>3, PlanType DEF Connected, TypeOK, PC, Waits
  <2>2. TransactionKnown'
    BY <1>3 DEF Connected, TypeOK, TransactionKnown
  <2>3. PlanFollowed' /\ DestructiveNeedsFlag'
    BY <1>3, PlanKept DEF Connected, TransactionKnown, PlanFollowed
  <2> QED
    BY <1>3, <2>1, <2>2, <2>3 DEF Connected, Blocked, op
<1>4. CASE Interrupt
  <2>1. TypeOK'
    BY <1>4, PlanType DEF Interrupt, TypeOK, PC, Waits
  <2>2. TransactionKnown'
    BY <1>4 DEF Interrupt, TypeOK, TransactionKnown
  <2>3. PlanFollowed' /\ DestructiveNeedsFlag'
    BY <1>4, PlanKept DEF Interrupt, TransactionKnown, PlanFollowed
  <2> QED
    BY <1>4, <2>1, <2>2, <2>3 DEF Interrupt, Blocked, op
<1>5. CASE HandleSignal
  <2>1. TypeOK'
    BY <1>5, PlanType DEF HandleSignal, TypeOK, PC, Waits
  <2>2. TransactionKnown'
    BY <1>5 DEF HandleSignal, TypeOK, TransactionKnown
  <2>3. PlanFollowed' /\ DestructiveNeedsFlag'
    BY <1>5, PlanKept DEF HandleSignal, TransactionKnown, PlanFollowed
  <2> QED
    BY <1>5, <2>1, <2>2, <2>3 DEF HandleSignal, Blocked, op
<1>6. CASE TimerExpires
  <2>1. TypeOK'
    BY <1>6, PlanType DEF TimerExpires, TypeOK, PC, Waits
  <2>2. TransactionKnown'
    BY <1>6 DEF TimerExpires, TypeOK, TransactionKnown
  <2>3. PlanFollowed' /\ DestructiveNeedsFlag'
    BY <1>6, PlanKept DEF TimerExpires, TransactionKnown, PlanFollowed
  <2> QED
    BY <1>6, <2>1, <2>2, <2>3 DEF TimerExpires, Blocked, op
<1>7. CASE Reloaded
  <2>1. TypeOK'
    BY <1>7, PlanType DEF Reloaded, TypeOK, PC, Waits
  <2>2. TransactionKnown'
    BY <1>7 DEF Reloaded, TypeOK, TransactionKnown
  <2>3. PlanFollowed' /\ DestructiveNeedsFlag'
    BY <1>7, PlanKept DEF Reloaded, TransactionKnown, PlanFollowed
  <2> QED
    BY <1>7, <2>1, <2>2, <2>3 DEF Reloaded, Blocked, op
<1>8. CASE LoadFailed
  <2>1. TypeOK'
    BY <1>8, PlanType DEF LoadFailed, TypeOK, PC, Waits, End
  <2>2. TransactionKnown'
    BY <1>8 DEF LoadFailed, TypeOK, TransactionKnown, End
  <2>3. PlanFollowed' /\ DestructiveNeedsFlag'
    BY <1>8, PlanKept DEF LoadFailed, TransactionKnown, PlanFollowed, End
  <2> QED
    BY <1>8, <2>1, <2>2, <2>3 DEF LoadFailed, Blocked, op, End
<1>9. CASE NothingToExecute
  <2>1. TypeOK'
    BY <1>9, PlanType DEF NothingToExecute, TypeOK, PC, Waits, End
  <2>2. TransactionKnown'
    BY <1>9 DEF NothingToExecute, TypeOK, TransactionKnown, End
  <2>3. PlanFollowed' /\ DestructiveNeedsFlag'
    BY <1>9, PlanKept DEF NothingToExecute, TransactionKnown, PlanFollowed, End
  <2> QED
    BY <1>9, <2>1, <2>2, <2>3 DEF NothingToExecute, Blocked, op, End
<1>10. CASE ReloadFailed
  <2>1. TypeOK'
    BY <1>10, PlanType DEF ReloadFailed, TypeOK, PC, Waits, End
  <2>2. TransactionKnown'
    BY <1>10 DEF ReloadFailed, TypeOK, TransactionKnown, End
  <2>3. PlanFollowed' /\ DestructiveNeedsFlag'
    BY <1>10, PlanKept DEF ReloadFailed, TransactionKnown, PlanFollowed, End
  <2> QED
    BY <1>10, <2>1, <2>2, <2>3 DEF ReloadFailed, Blocked, op, End
<1>11. CASE Validated
  <2>1. TypeOK'
    BY <1>11, PlanType DEF Validated, TypeOK, PC, Waits, End
  <2>2. TransactionKnown'
    BY <1>11 DEF Validated, TypeOK, TransactionKnown, End
  <2>3. PlanFollowed' /\ DestructiveNeedsFlag'
    BY <1>11, PlanKept DEF Validated, TransactionKnown, PlanFollowed, End
  <2> QED
    BY <1>11, <2>1, <2>2, <2>3 DEF Validated, Blocked, op, End
<1>12. CASE ValidationFailed
  <2>1. TypeOK'
    BY <1>12, PlanType DEF ValidationFailed, TypeOK, PC, Waits, End
  <2>2. TransactionKnown'
    BY <1>12 DEF ValidationFailed, TypeOK, TransactionKnown, End
  <2>3. PlanFollowed' /\ DestructiveNeedsFlag'
    BY <1>12, PlanKept DEF ValidationFailed, TransactionKnown, PlanFollowed, End
  <2> QED
    BY <1>12, <2>1, <2>2, <2>3 DEF ValidationFailed, Blocked, op, End
<1> QED
  BY <1>1, <1>2, <1>3, <1>4, <1>5, <1>6, <1>7, <1>8, <1>9, <1>10, <1>11, <1>12

\* Inside the execution, at one statement, and at the server.
LEMMA StatementKeepsInv ==
  ASSUME Inv, Begun \/ Execute \/ Prompt \/ AnswerYes \/ CommitSent \/ ServerCommits \/ ServerRefuses \/ Killed
  PROVE  Inv'
<1> USE DEF Inv, user, signal, server, ops
<1>1. CASE Begun
  <2>1. TypeOK'
    BY <1>1, PlanType DEF Begun, TypeOK, PC, Waits, AtStatement
  <2>2. TransactionKnown'
    BY <1>1 DEF Begun, TypeOK, TransactionKnown, AtStatement
  <2>3. PlanFollowed' /\ DestructiveNeedsFlag'
    BY <1>1, PlanKept DEF Begun, TransactionKnown, PlanFollowed, AtStatement
  <2> QED
    BY <1>1, <2>1, <2>2, <2>3 DEF Begun, Blocked, op, AtStatement
<1>2. CASE Execute
  <2>1. TypeOK'
    BY <1>2, PlanType DEF Execute, TypeOK, PC, Waits, AtStatement
  <2>2. TransactionKnown'
    BY <1>2 DEF Execute, TypeOK, TransactionKnown, AtStatement
  <2>3. PlanFollowed' /\ DestructiveNeedsFlag'
    BY <1>2, PlanKept DEF Execute, TransactionKnown, PlanFollowed, AtStatement
  <2> QED
    BY <1>2, <2>1, <2>2, <2>3 DEF Execute, Blocked, op, AtStatement
<1>3. CASE Prompt
  <2>0. i \in DOMAIN ops
    BY <1>3, PlanType DEF Prompt, AtStatement, TypeOK
  <2>1. TypeOK'
    <3>1. pc' \in PC /\ applyAll' \in BOOLEAN /\ UNCHANGED <<ops, Len(ops)>>
      BY <1>3 DEF Prompt, PC
    <3> QED
      BY <1>3, <2>0, <3>1 DEF Prompt, TypeOK
  <2>2. TransactionKnown'
    BY <1>3 DEF Prompt, TypeOK, TransactionKnown, AtStatement
  <2>3. PlanFollowed' /\ DestructiveNeedsFlag'
    BY <1>3, PlanKept DEF Prompt, TransactionKnown, PlanFollowed, AtStatement
  <2> QED
    BY <1>3, <2>1, <2>2, <2>3 DEF Prompt, Blocked, op, AtStatement
<1>4. CASE AnswerYes
  <2>1. TypeOK'
    BY <1>4, PlanType DEF AnswerYes, TypeOK, PC, Waits, AtStatement
  <2>2. TransactionKnown'
    BY <1>4 DEF AnswerYes, TypeOK, TransactionKnown, AtStatement
  <2>3. PlanFollowed' /\ DestructiveNeedsFlag'
    BY <1>4, PlanKept DEF AnswerYes, TransactionKnown, PlanFollowed, AtStatement
  <2> QED
    BY <1>4, <2>1, <2>2, <2>3 DEF AnswerYes, Blocked, op, AtStatement
<1>5. CASE CommitSent
  <2>0. i = Len(ops) + 1
    <3>1. i \in 1..(Len(ops) + 1) /\ Len(ops) \in Nat
      BY PlanType DEF TypeOK
    <3> QED
      BY <1>5, <3>1 DEF CommitSent
  <2>1. TypeOK'
    BY <1>5, PlanType DEF CommitSent, TypeOK, PC, Waits, AtStatement
  <2>2. TransactionKnown'
    BY <1>5 DEF CommitSent, TypeOK, TransactionKnown, AtStatement
  <2>3. PlanFollowed' /\ DestructiveNeedsFlag'
    BY <1>5, <2>0, PlanKept DEF CommitSent, TransactionKnown, PlanFollowed, AtStatement
  <2> QED
    BY <1>5, <2>1, <2>2, <2>3 DEF CommitSent, Blocked, op, AtStatement
<1>6. CASE ServerCommits
  <2>1. TypeOK'
    BY <1>6, PlanType DEF ServerCommits, TypeOK, PC, Waits, AtStatement
  <2>2. TransactionKnown'
    BY <1>6 DEF ServerCommits, TypeOK, TransactionKnown, AtStatement
  <2>3. PlanFollowed' /\ DestructiveNeedsFlag'
    BY <1>6, PlanKept DEF ServerCommits, TransactionKnown, PlanFollowed, AtStatement
  <2> QED
    BY <1>6, <2>1, <2>2, <2>3 DEF ServerCommits, Blocked, op, AtStatement
<1>7. CASE ServerRefuses
  <2>1. TypeOK'
    BY <1>7, PlanType DEF ServerRefuses, TypeOK, PC, Waits, AtStatement
  <2>2. TransactionKnown'
    BY <1>7 DEF ServerRefuses, TypeOK, TransactionKnown, AtStatement
  <2>3. PlanFollowed' /\ DestructiveNeedsFlag'
    BY <1>7, PlanKept DEF ServerRefuses, TransactionKnown, PlanFollowed, AtStatement
  <2> QED
    BY <1>7, <2>1, <2>2, <2>3 DEF ServerRefuses, Blocked, op, AtStatement
<1>8. CASE Killed
  <2>1. TypeOK'
    BY <1>8, PlanType, ZenonT(30) DEF Killed, TypeOK, PC, Waits, End, AtStatement
  <2>2. TransactionKnown'
    BY <1>8 DEF Killed, TypeOK, TransactionKnown, End, AtStatement
  <2>3. PlanFollowed' /\ DestructiveNeedsFlag'
    BY <1>8, PlanKept DEF Killed, TransactionKnown, PlanFollowed, End, AtStatement
  <2> QED
    BY <1>8, <2>1, <2>2, <2>3 DEF Killed, Blocked, op, End, AtStatement
<1> QED
  BY <1>1, <1>2, <1>3, <1>4, <1>5, <1>6, <1>7, <1>8

\* The steps that leave ExecutePlan.
LEMMA LeavingKeepsInv ==
  ASSUME Inv, NotBegun \/ Interrupted \/ NonTransactional \/ AnswerNo \/ ExecFailed \/ CommitNotSent \/ Committed \/ CommitFailed
  PROVE  Inv'
<1>1. CASE NotBegun
  BY <1>1, ReturnKeepsInv DEF NotBegun
<1>2. CASE Interrupted
  BY <1>2, ReturnKeepsInv DEF Interrupted
<1>3. CASE NonTransactional
  BY <1>3, ReturnKeepsInv DEF NonTransactional
<1>4. CASE AnswerNo
  BY <1>4, ReturnKeepsInv DEF AnswerNo, TransactionKnown, Inv
<1>5. CASE ExecFailed
  BY <1>5, ReturnKeepsInv DEF ExecFailed
<1>6. CASE CommitNotSent
  BY <1>6, ReturnKeepsInv DEF CommitNotSent
<1>7. CASE Committed
  BY <1>7, ReturnKeepsInv DEF Committed, TransactionKnown, Inv
<1>8. CASE CommitFailed
  BY <1>8, ReturnKeepsInv DEF CommitFailed
<1> QED
  BY <1>1, <1>2, <1>3, <1>4, <1>5, <1>6, <1>7, <1>8

\* A statement that may be missing is passed over.
LEMMA PassedOver ==
  ASSUME Inv, pc \in {"next", "prompt"}, i \in DOMAIN ops,
         pc' = "next", i' = i + 1,
         UNCHANGED <<request, applyAll, signal, active, server, timer, verdict, report>>,
         skipped' = skipped \/ skipped' = skipped \cup {i},
         \/ ops[i].sql = "none"
         \/ i \in skipped'
         \/ request.execute /\ ops[i].destructive /\ ~request.unsafeDrop
  PROVE  Inv'
<1> USE DEF Inv, signal, server, ops
<1>1. i \in Nat \ {0} /\ i' - 1 = i /\ i - 1 <= i /\ i' \in 1..(Len(ops) + 1)
  BY PlanType DEF TypeOK
<1>2. 1..(i' - 1) = 1..(i - 1) \cup {i}
  BY <1>1, OneMore
<1>3. TypeOK'
  <2>1. applied' \in Seq(1..(i' - 1)) /\ database' \in Seq(1..(i' - 1))
    BY <1>1, LaterPositions DEF TypeOK
  <2>2. skipped' \subseteq 1..(i' - 1)
    BY <1>2 DEF TypeOK
  <2> QED
    BY <1>1, <2>1, <2>2 DEF TypeOK, PC, Waits
<1>4. TransactionKnown'
  BY DEF TransactionKnown
<1>5. PlanFollowed'
  <2>1. \A p \in 1..(i - 1) : p \in Range(applied') \/ MayBeMissing(p)'
    BY DEF PlanFollowed, MayBeMissing
  <2>2. \A p \in {i} : MayBeMissing(p)'
    BY DEF MayBeMissing
  <2>3. \A p \in 1..(i' - 1) : p \in Range(applied') \/ MayBeMissing(p)'
    BY <1>2, <2>1, <2>2, Zenon
  <2>4. tx' = "open"
    BY DEF TransactionKnown
  <2> QED
    BY <2>3, <2>4 DEF PlanFollowed
<1>6. DestructiveNeedsFlag'
  BY DEF DestructiveNeedsFlag
<1> QED
  BY <1>3, <1>4, <1>5, <1>6
\* The statement at hand was executed.
LEMMA ExecutedKeepsInv == Inv /\ Executed => Inv'
<1> SUFFICES ASSUME Inv, Executed PROVE Inv'
  OBVIOUS
<1> USE DEF Inv, user, signal, ops
<1>1. i \in Nat \ {0} /\ i' - 1 = i /\ i - 1 <= i /\ i' \in 1..(Len(ops) + 1)
  BY PlanType DEF TypeOK, Executed
<1>2. 1..(i' - 1) = 1..(i - 1) \cup {i}
  BY <1>1, OneMore
<1>3. /\ applied' \in Seq(1..(i' - 1))
      /\ Range(applied') = Range(applied) \cup {i}
      /\ \A p, q \in DOMAIN applied' : p < q => applied'[p] < applied'[q]
  <2>1. applied \in Seq(1..(i - 1)) /\ applied' = Append(applied, i)
    BY DEF TypeOK, Executed
  <2>2. \A p, q \in DOMAIN applied : p < q => applied[p] < applied[q]
    BY DEF PlanFollowed
  <2> QED
    BY <1>1, <2>1, <2>2, AppendPosition
<1>4. TypeOK'
  <2>1. database' \in Seq(1..(i' - 1))
    BY <1>1, LaterPositions DEF TypeOK, Executed
  <2>2. skipped' \subseteq 1..(i' - 1)
    BY <1>2 DEF TypeOK, Executed
  <2> QED
    BY <1>1, <1>3, <2>1, <2>2 DEF TypeOK, Executed, PC, Waits
<1>5. tx = "open" /\ tx' = "open"
  BY DEF TransactionKnown, Executed
<1>6. TransactionKnown'
  BY <1>5 DEF TransactionKnown, Executed
<1>7. PlanFollowed'
  <2>1. \A p \in 1..(i - 1) : p \in Range(applied') \/ MayBeMissing(p)'
    BY <1>3 DEF PlanFollowed, MayBeMissing, Executed
  <2>2. \A p \in 1..(i' - 1) : p \in Range(applied') \/ MayBeMissing(p)'
    BY <1>2, <1>3, <2>1, Zenon
  <2> QED
    BY <1>3, <1>5, <2>2 DEF PlanFollowed
<1>8. DestructiveNeedsFlag'
  BY <1>3 DEF DestructiveNeedsFlag, Executed, Blocked, op
<1> QED
  BY <1>4, <1>6, <1>7, <1>8 DEF Executed

\* Statements that are passed over keep the invariant.
LEMMA PassingKeepsInv ==
  ASSUME Inv, SkipBlank \/ AutoSkip \/ AnswerSkip
  PROVE  Inv'
<1> USE DEF Inv, user
<1>1. i \in Nat \ {0} /\ Len(ops) \in Nat /\ DOMAIN ops = 1..Len(ops)
  BY PlanType DEF TypeOK
<1>2. CASE SkipBlank
  BY <1>1, <1>2, PassedOver DEF SkipBlank, op
<1>3. CASE AutoSkip
  BY <1>1, <1>3, PassedOver DEF AutoSkip, AtStatement, Blocked, op
<1>4. CASE AnswerSkip
  BY <1>1, <1>4, PassedOver DEF AnswerSkip, TypeOK
<1> QED
  BY <1>2, <1>3, <1>4

\* A step that changes nothing keeps what it leaves alone.
LEMMA StutterKeepsInv == Inv /\ UNCHANGED vars => Inv'
BY DEF Inv, vars, user, signal, server, TypeOK, TransactionKnown, PlanFollowed, MayBeMissing,
       DestructiveNeedsFlag, Blocked, op, ops

\* Every step of the program, the user, the timer and the server keeps the invariant.
LEMMA NextInv == Inv /\ [Next]_vars => Inv'
<1> SUFFICES ASSUME Inv, [Next]_vars PROVE Inv'
  OBVIOUS
<1>1. CASE Next
  BY <1>1, OutsideKeepsInv, StatementKeepsInv, LeavingKeepsInv, PassingKeepsInv, ExecutedKeepsInv,
     StutterKeepsInv
  DEF Next, Main, Answer, Done
<1>2. CASE UNCHANGED vars
  BY <1>2, StutterKeepsInv
<1> QED
  BY <1>1, <1>2

\* Program and server agree on the transaction, and what was executed follows the
\* plan, at every step of every push.
THEOREM Invariance == Spec => []Inv
<1>1. Init => Inv
  BY InitInv
<1>2. Inv /\ [Next]_vars => Inv'
  BY NextInv
<1> QED
  BY <1>1, <1>2, PTL DEF Spec

\* Every variable of a push keeps its type, for every plan and all flags.
THEOREM TypeCorrect == Spec => []TypeOK
<1>1. Inv => TypeOK
  BY DEF Inv
<1> QED
  BY <1>1, Invariance, PTL
----------------------------------------------------------------------------
(* What follows from the invariant.                                        *)

\* What is committed is the whole plan but for what may be missing, whatever fails
\* and whoever interrupts.
THEOREM CommitIsWhole == Spec => []CommittedWhole
<1>1. Inv => CommittedWhole
  <2> SUFFICES ASSUME Inv, tx = "committed"
               PROVE  \A p \in DOMAIN ops : MayBeMissing(p) \/ p \in Range(database)
    BY DEF CommittedWhole
  <2>1. i = Len(ops) + 1 /\ database = applied
    BY DEF Inv, PlanFollowed, TransactionKnown
  <2>2. Len(ops) \in Nat /\ DOMAIN ops = 1..Len(ops)
    BY PlanType DEF Inv, TypeOK
  <2>3. DOMAIN ops = 1..(i - 1)
    BY <2>1, <2>2
  <2> QED
    BY <2>1, <2>3 DEF Inv, PlanFollowed
<1> QED
  BY <1>1, Invariance, PTL

\* Nothing destructive is executed without --unsafe-drop, whatever the plan and
\* whatever the user answers.
THEOREM DestructiveSafe == Spec => []DestructiveNeedsFlag
<1>1. Inv => DestructiveNeedsFlag
  BY DEF Inv
<1> QED
  BY <1>1, Invariance, PTL

\* However a push ends, it leaves no transaction open.
THEOREM NothingLeft == Spec => []NoTransactionLeft
<1>1. Inv => NoTransactionLeft
  BY DEF Inv, TransactionKnown, NoTransactionLeft
<1> QED
  BY <1>1, Invariance, PTL

----------------------------------------------------------------------------
(* What a step may do to the database and to what was reported.            *)

\* The steps that leave ExecutePlan, as far as the outside can see them.
LEMMA ReturnShape ==
  ASSUME Inv, NEW error, ReturnFromPlan(error),
         pc \in {"connect", "begin", "next", "prompt", "exec", "committing"}
  PROVE  /\ UNCHANGED <<request, database, verdict>>
         /\ tx' = "committed" <=> tx = "committed"
         /\ tx' = "committing" => tx = "committing"
         /\ report' = report \/ (report = "running" /\ report' # "running")
BY DEF ReturnFromPlan, End, Inv, TransactionKnown

\* A step is the server's commit, or the database stays as it is and the report is
\* made at most once.
LEMMA StepShape ==
  ASSUME Inv, [Next]_vars
  PROVE  /\ request' = request
         /\ ServerCommits \/ (database' = database /\ (tx' = "committed" <=> tx = "committed"))
         /\ ServerCommits \/ Validated \/ UNCHANGED <<database, verdict>>
         /\ ServerCommits \/ CommitSent \/ (tx' = "committing" => tx = "committing")
         /\ report' = report \/ (report = "running" /\ report' # "running")
<1>1. CASE Loaded \/ StartExecution \/ Connected \/ Interrupt \/ HandleSignal \/ TimerExpires
             \/ Reloaded
  BY <1>1 DEF Loaded, StartExecution, Connected, Interrupt, HandleSignal, TimerExpires, Reloaded,
              server
<1>2. CASE LoadFailed \/ NothingToExecute \/ ReloadFailed \/ Validated \/ ValidationFailed
  BY <1>2 DEF LoadFailed, NothingToExecute, ReloadFailed, Validated, ValidationFailed, End, server,
              Inv, TransactionKnown
<1>3. CASE Begun \/ Killed
  BY <1>3 DEF Begun, Killed, End, Inv, TransactionKnown
<1>4. CASE SkipBlank \/ AutoSkip \/ Execute \/ Prompt \/ AnswerYes \/ AnswerSkip \/ Executed
  BY <1>4 DEF SkipBlank, AutoSkip, Execute, Prompt, AnswerYes, AnswerSkip, Executed, server
<1>5. CASE CommitSent \/ ServerCommits \/ ServerRefuses
  BY <1>5 DEF CommitSent, ServerCommits, ServerRefuses, Inv, TransactionKnown
<1>6. CASE NotBegun \/ Interrupted \/ NonTransactional \/ AnswerNo \/ ExecFailed \/ CommitNotSent
             \/ Committed \/ CommitFailed
  BY <1>6, ReturnShape DEF NotBegun, Interrupted, NonTransactional, AnswerNo, ExecFailed,
                           CommitNotSent, Committed, CommitFailed
<1>7. CASE UNCHANGED vars
  BY <1>7 DEF vars, server
<1> QED
  BY <1>1, <1>2, <1>3, <1>4, <1>5, <1>6, <1>7 DEF Next, Main, Answer, Done

\* After the execution was cancelled no commit is sent.
THEOREM InterruptStopsCommit == Spec => NoCommitAfterInterrupt
<1>1. Inv /\ [Next]_vars => (cancelled /\ tx # "committing" => tx' # "committing")
  BY StepShape DEF CommitSent, ServerCommits
<1>2. Inv /\ [Next]_vars => [cancelled /\ tx # "committing" => tx' # "committing"]_vars
  BY <1>1
<1> QED
  BY <1>2, Invariance, PTL DEF Spec, NoCommitAfterInterrupt

\* How an operation of a plan is undone and what it lies within.
LEMMA OperationAt ==
  ASSUME request \in Request, NEW k \in DOMAIN ops
  PROVE  /\ ops[k].undo \in {"none", "plain", "destructive"}
         /\ ops[k].within # 0 => /\ ops[k].within \in DOMAIN ops
                                 /\ ops[ops[k].within].undo # "none"
                                 /\ ops[ops[k].within].within # 0 =>
                                      ops[ops[ops[k].within].within].within = 0
<1>1. ops[k] \in Operation /\ DOMAIN ops = 1..Len(ops) /\ Len(ops) \in Nat
  BY PlanType
<1>2. ops[k].undo \in {"none", "plain", "destructive"} /\ ops[k].within \in Nat
  BY <1>1 DEF Operation
<1>3. ops[k].within # 0 => /\ ops[k].within < k
                           /\ ops[ops[k].within].undo # "none"
                           /\ ops[ops[k].within].within # 0 =>
                                ops[ops[ops[k].within].within].within = 0
  BY DEF Request, Nested, ops
<1>4. k \in 1..Len(ops)
  BY <1>1
<1>5. ops[k].within # 0 => ops[k].within \in DOMAIN ops
  BY <1>1, <1>2, <1>3, <1>4
<1> QED
  BY <1>2, <1>3, <1>5

\* An operation that was not executed and shows nothing, though there is one to undo
\* it, lies within another such one.
LEMMA HiddenWithin ==
  ASSUME request \in Request, request.unsafeDrop, Remaining = {},
         NEW k \in DOMAIN ops, k \notin Range(database), ops[k].undo # "none"
  PROVE  /\ ops[k].within # 0 /\ ops[k].within \in DOMAIN ops
         /\ ops[k].within \notin Range(database) /\ ops[ops[k].within].undo # "none"
<1>1. Shows(ops[k].undo)
  BY OperationAt DEF Shows
<1>2. ops[k].within \notin {0} \cup Range(database)
  BY <1>1 DEF Remaining
<1> QED
  BY <1>2, OperationAt

\* An operation that is missing although the second comparison lists nothing, with
\* --unsafe-drop, is one that nothing undoes: otherwise it lies within a missing one,
\* that too, and that again, but a namespace lies within nothing.
LEMMA NothingRemains ==
  ASSUME request \in Request, request.unsafeDrop, Remaining = {},
         NEW p \in DOMAIN ops, p \notin Range(database)
  PROVE  ops[p].undo = "none"
<1> DEFINE q == ops[p].within
           r == ops[q].within
<1> SUFFICES ASSUME ops[p].undo # "none" PROVE FALSE
  OBVIOUS
<1>1. q # 0 /\ q \in DOMAIN ops /\ q \notin Range(database) /\ ops[q].undo # "none"
  BY HiddenWithin
<1>2. r # 0 /\ r \in DOMAIN ops /\ r \notin Range(database) /\ ops[r].undo # "none"
  BY <1>1, HiddenWithin
<1>3. ops[r].within = 0
  BY <1>1, <1>2, OperationAt
<1> QED
  BY <1>2, <1>3, HiddenWithin

\* With --unsafe-drop a validation that passed means that every operation was
\* executed but for those that nothing undoes, the new labels of enum types, for every
\* plan: nothing else stays out of the second comparison.
THEOREM ValidationSafe == Spec => []UnsafeValidationHonest
<1>1. Init => UnsafeValidationHonest
  BY DEF Init, UnsafeValidationHonest
<1>2. Inv /\ UnsafeValidationHonest /\ [Next]_vars => UnsafeValidationHonest'
  <2> SUFFICES ASSUME Inv, UnsafeValidationHonest, [Next]_vars PROVE UnsafeValidationHonest'
    OBVIOUS
  <2>1. ops' = ops /\ request' = request
    BY StepShape DEF ops
  <2>2. CASE Validated
    <3>1. database' = database /\ (verdict' = "passed" => Remaining = {})
      BY <2>2 DEF Validated, server
    <3>2. request \in Request
      BY DEF Inv, TypeOK
    <3> QED
      BY <2>1, <3>1, <3>2, NothingRemains DEF UnsafeValidationHonest
  <2>3. CASE ServerCommits
    BY <2>3 DEF ServerCommits, Inv, TransactionKnown, UnsafeValidationHonest
  <2>4. CASE UNCHANGED <<database, verdict>>
    BY <2>1, <2>4 DEF UnsafeValidationHonest
  <2> QED
    BY <2>2, <2>3, <2>4, StepShape
<1> QED
  BY <1>1, <1>2, Invariance, PTL DEF Spec

----------------------------------------------------------------------------
(* The refinement.                                                         *)

\* What was executed is a selection of the plan, in its order.
LEMMA AppliedIsSelection ==
  ASSUME Inv
  PROVE  /\ applied \in Seq(Nat)
         /\ \A p \in DOMAIN applied : applied[p] \in DOMAIN ops
         /\ \A p, q \in DOMAIN applied : p < q => applied[p] < applied[q]
<1>1. applied \in Seq(1..(i - 1)) /\ i \in 1..(Len(ops) + 1)
        /\ Len(ops) \in Nat /\ DOMAIN ops = 1..Len(ops)
  BY PlanType DEF Inv, TypeOK
<1>2. 1..(i - 1) \subseteq DOMAIN ops /\ 1..(i - 1) \subseteq Nat
  BY <1>1
<1>3. applied \in Seq(Nat)
  BY <1>1, <1>2, SeqMonotonic
<1>4. \A p \in DOMAIN applied : applied[p] \in DOMAIN ops
  BY <1>1, <1>2, ElementOfSeq, LenProperties
<1> QED
  BY <1>3, <1>4 DEF Inv, PlanFollowed

\* A push implements AtomicPush, for every plan: the target database changes at
\* most once, by a selection of the plan in its order, and not after success was
\* reported.
THEOREM Refinement == Spec => RefinesAtomicPush
<1>1. Init => Promise!Init
  BY DEF Init, Promise!Init
<1>2. Inv /\ [Next]_vars => [Promise!Next]_Promise!vars
  <2> SUFFICES ASSUME Inv, [Next]_vars PROVE [Promise!Next]_Promise!vars
    OBVIOUS
  <2>1. ops' = ops
    BY StepShape DEF ops
  <2>2. CASE ServerCommits
    <3>1. tx = "committing" /\ tx' = "committed" /\ database' = applied /\ report' = report
      BY <2>2 DEF ServerCommits
    <3>2. report # "success"
      BY <3>1 DEF Inv, TransactionKnown
    <3> QED
      BY <2>1, <3>1, <3>2, AppliedIsSelection DEF Promise!Next, Promise!Change, Promise!Selection
  <2>3. CASE database' = database /\ (tx' = "committed" <=> tx = "committed")
    BY <2>1, <2>3, StepShape DEF Promise!Next, Promise!End, Promise!vars
  <2> QED
    BY <2>2, <2>3, StepShape
<1> QED
  BY <1>1, <1>2, Invariance, PTL DEF Spec, RefinesAtomicPush, Promise!Spec
=============================================================================
