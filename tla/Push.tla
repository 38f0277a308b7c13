-------------------------------- MODULE Push --------------------------------
(***************************************************************************)
(* "migra push": runPush of cmd/migra/push.go with ExecutePlan of          *)
(* internal/app/push/push_service.go.                                      *)
(*                                                                         *)
(* Five parties take steps: the program's main goroutine, the goroutine    *)
(* that waits for a signal, the user (answers and Ctrl-C), the timer of    *)
(* the context the schemas are loaded under, and the database server.      *)
(* A call to the server is one step of the program that starts it and one  *)
(* that returns; between the two the others may do as they like.           *)
(***************************************************************************)
EXTENDS Integers, Sequences, FiniteSets, Functions

CONSTANT Requests   \* flags and plans a push may be called with

\* execute, dryRun, unsafeDrop and noVerify are the flags.  ops is what ComputeDiff
\* gives (module ExecutionPlan), of which push looks at the SQL it renders to and
\* at whether it is destructive.  undo: the operation the comparison the other way
\* round lists if this one is not executed.  None undoes the new label of an enum
\* type, of which that comparison only warns (differ.go:185).  Of a missing namespace
\* public it only warns too (differ.go:72), but what introspection reads has one, or
\* --schema takes it out of both schemas: no plan of a push creates it.
\* within: the operation of the plan, 0 for none, that creates the table or namespace
\* this one adds to; while that is missing the comparison lists nothing for this one.
Operation == [sql : {"none", "plain", "concurrent"}, destructive : BOOLEAN,
              undo : {"none", "plain", "destructive"}, within : Nat]

\* What something is created within comes first, is no label, and lies in a namespace
\* at most.
Nested(plan) ==
  \A p \in DOMAIN plan :
    LET q == plan[p].within
    IN  q # 0 => /\ q < p /\ plan[q].undo # "none"
                 /\ plan[q].within # 0 => plan[plan[q].within].within = 0

\* leftOut: how the operations the filter of ComputeDiff has taken out of this plan
\* would be undone.
Request ==
  {req \in [execute : BOOLEAN, dryRun : BOOLEAN, unsafeDrop : BOOLEAN, noVerify : BOOLEAN,
            ops : Seq(Operation), leftOut : SUBSET {"plain", "destructive"}] : Nested(req.ops)}

ASSUME RequestsAssumption == Requests \subseteq Request

VARIABLES
  request,     \* the arguments of the push
  pc,          \* where the main goroutine is
  i,           \* the operation at hand
  applyAll,    \* the user has answered "a"
  skipped,     \* the operations the user has answered "s" to
  handler,     \* the signal goroutine: "none", "listening", "off"
  signalled,   \* a signal is in its channel
  cancelled,   \* execCtx is cancelled
  active,      \* transactionState.active
  tx,          \* the transaction, as the server sees it
  applied,     \* the operations executed in the transaction
  database,    \* the operations the target database has had
  timer,       \* loadCtx: "running", or where the program was when it ran out
  verdict,     \* what the validation has printed
  report       \* how the program has ended

user == <<applyAll, skipped>>
signal == <<handler, signalled, cancelled>>
server == <<tx, applied, database>>
vars == <<request, pc, i, user, signal, active, server, timer, verdict, report>>

ops == request.ops
op == ops[i]

\* The program is waiting: for the server, for the user.
Waits == {"load", "connect", "begin", "exec", "committing", "reload"}
PC == Waits \cup {"compare", "next", "prompt", "validate", "ended"}

Init ==
  /\ request \in Requests
  /\ pc = "load" /\ i = 1
  /\ applyAll = FALSE /\ skipped = {}
  /\ handler = "none" /\ signalled = FALSE /\ cancelled = FALSE
  /\ active = FALSE
  /\ tx = "none" /\ applied = <<>> /\ database = <<>>
  /\ timer = "running"
  /\ verdict = "none"
  /\ report = "running"

End(how) == pc' = "ended" /\ report' = how

----------------------------------------------------------------------------
(* runPush, up to the execution.                                           *)

\* Source and target schema, both under loadCtx.
Loaded ==
  /\ pc = "load" /\ timer = "running"
  /\ pc' = "compare"
  /\ UNCHANGED <<request, i, user, signal, active, server, timer, verdict, report>>

LoadFailed ==
  /\ pc = "load"
  /\ End("error")
  /\ UNCHANGED <<request, i, user, signal, active, server, timer, verdict>>

\* ComputeDiff has failed, there is nothing to do, or nothing is to be done.
NothingToExecute ==
  /\ pc = "compare"
  /\ \/ End("error")
     \/ (ops = <<>> \/ (request.dryRun /\ ~request.execute)) /\ End("success")
  /\ UNCHANGED <<request, i, user, signal, active, server, timer, verdict>>

\* setupSignalHandler, then the call to connect.
StartExecution ==
  /\ pc = "compare"
  /\ ops # <<>> /\ ~(request.dryRun /\ ~request.execute)
  /\ pc' = "connect"
  /\ handler' = "listening"
  /\ UNCHANGED <<request, i, user, signalled, cancelled, active, server, timer, verdict, report>>

----------------------------------------------------------------------------
(* ExecutePlan.                                                            *)

ReturnFromPlanMutant(error) ==             \* without the deferred rollback
  /\ active' = FALSE
  /\ cancelled' = TRUE
  /\ IF error THEN End("error")
     ELSE IF request.noVerify THEN End("success")
     ELSE pc' = "reload" /\ report' = report
  /\ UNCHANGED <<request, i, user, handler, signalled, server, timer, verdict>>

\* The deferred calls: rollback if the transaction is still active, close, and
\* execCancel, which ends the signal goroutine too.
ReturnFromPlan(error) ==
  /\ active' = FALSE
  /\ tx' = IF active /\ tx = "open" THEN "rolledback" ELSE tx
  /\ cancelled' = TRUE
  /\ IF error THEN End("error")
     ELSE IF request.noVerify THEN End("success")
     ELSE pc' = "reload" /\ report' = report
  /\ UNCHANGED <<request, i, user, handler, signalled, applied, database, timer, verdict>>

\* conn.Connect, whose context no signal cancels.
Connected ==
  /\ pc = "connect"
  /\ pc' = "begin"
  /\ UNCHANGED <<request, i, user, signal, active, server, timer, verdict, report>>

Begun ==
  /\ pc = "begin" /\ ~cancelled
  /\ pc' = "next"
  /\ active' = TRUE /\ tx' = "open"
  /\ UNCHANGED <<request, i, user, signal, applied, database, timer, verdict, report>>

NotBegunMutant ==                          \* tried again
  /\ pc \in {"connect", "begin"}
  /\ pc' = "connect"
  /\ UNCHANGED <<request, i, user, signal, active, server, timer, verdict, report>>

NotBegun == pc \in {"connect", "begin"} /\ ReturnFromPlan(TRUE)

\* The loop of executeAuto and executeInteractive, from the top.
Interrupted == pc = "next" /\ i <= Len(ops) /\ cancelled /\ ReturnFromPlan(TRUE)

SkipBlank ==
  /\ pc = "next" /\ i <= Len(ops) /\ ~cancelled /\ op.sql = "none"
  /\ i' = i + 1
  /\ UNCHANGED <<request, pc, user, signal, active, server, timer, verdict, report>>

NonTransactionalMutant ==                  \* left out, like a blank one
  /\ pc = "next" /\ i <= Len(ops) /\ ~cancelled /\ op.sql = "concurrent"
  /\ i' = i + 1
  /\ UNCHANGED <<request, pc, user, signal, active, server, timer, verdict, report>>

NonTransactional ==
  /\ pc = "next" /\ i <= Len(ops) /\ ~cancelled /\ op.sql = "concurrent"
  /\ ReturnFromPlan(TRUE)

\* A destructive operation that the flags do not allow.
Blocked == op.destructive /\ ~request.unsafeDrop

AtStatement == pc = "next" /\ i <= Len(ops) /\ ~cancelled /\ op.sql = "plain"

\* --execute: blocked operations are left out, the others are executed.
AutoSkip ==
  /\ AtStatement /\ request.execute /\ Blocked
  /\ i' = i + 1
  /\ UNCHANGED <<request, pc, user, signal, active, server, timer, verdict, report>>

ExecuteMutant ==                           \* "all" is all
  /\ AtStatement /\ ((request.execute /\ ~Blocked) \/ applyAll)
  /\ pc' = "exec"
  /\ UNCHANGED <<request, i, user, signal, active, server, timer, verdict, report>>

Execute ==
  /\ AtStatement /\ ~Blocked /\ (request.execute \/ applyAll)
  /\ pc' = "exec"
  /\ UNCHANGED <<request, i, user, signal, active, server, timer, verdict, report>>

\* A blocked operation ends "apply all".
Prompt ==
  /\ AtStatement /\ ~request.execute /\ (Blocked \/ ~applyAll)
  /\ pc' = "prompt" /\ applyAll' = FALSE
  /\ UNCHANGED <<request, i, skipped, signal, active, server, timer, verdict, report>>

\* The answers.  A "y" or "a" to a blocked operation, and what is no answer at
\* all, changes nothing but the screen.
AnswerYes ==
  /\ pc = "prompt" /\ ~Blocked
  /\ pc' = "exec"
  /\ applyAll' \in BOOLEAN   \* "y" or "a"
  /\ UNCHANGED <<request, i, skipped, signal, active, server, timer, verdict, report>>

\* Also the end of the input.  The rollback is not an error.
AnswerNo == pc = "prompt" /\ ReturnFromPlan(FALSE)

AnswerSkip ==
  /\ pc = "prompt"
  /\ skipped' = skipped \cup {i}
  /\ i' = i + 1 /\ pc' = "next"
  /\ UNCHANGED <<request, applyAll, signal, active, server, timer, verdict, report>>

Answer == AnswerYes \/ AnswerNo \/ AnswerSkip

ExecutedMutant ==                          \* the statement is sent once more
  /\ pc = "exec" /\ ~cancelled
  /\ applied' = Append(applied, i)
  /\ i' = i + 1
  /\ UNCHANGED <<request, pc, user, signal, active, tx, database, timer, verdict, report>>

\* tx.Exec has done it: what it adds to is there.
Executed ==
  /\ pc = "exec" /\ ~cancelled /\ op.within \in {0} \cup Range(applied)
  /\ applied' = Append(applied, i)
  /\ i' = i + 1 /\ pc' = "next"
  /\ UNCHANGED <<request, user, signal, active, tx, database, timer, verdict, report>>

\* An error of the server, a lost connection or a cancelled context.
ExecFailed == pc = "exec" /\ ReturnFromPlan(TRUE)

CommitSentMutant ==                        \* under the context of the command
  /\ pc = "next" /\ i > Len(ops)
  /\ pc' = "committing" /\ tx' = "committing"
  /\ UNCHANGED <<request, i, user, signal, active, applied, database, timer, verdict, report>>

\* tx.Commit under execCtx: a cancelled context keeps it from being sent at all.
CommitSent ==
  /\ pc = "next" /\ i > Len(ops) /\ ~cancelled
  /\ pc' = "committing" /\ tx' = "committing"
  /\ UNCHANGED <<request, i, user, signal, active, applied, database, timer, verdict, report>>

CommitNotSent == pc = "next" /\ i > Len(ops) /\ cancelled /\ ReturnFromPlan(TRUE)

Committed == pc = "committing" /\ tx = "committed" /\ ReturnFromPlan(FALSE)

CommitFailedMutant == pc = "committing" /\ ReturnFromPlan(FALSE)

\* The server has refused, or its answer has not come: the connection is lost or
\* the context was cancelled while the program was waiting.
CommitFailed == pc = "committing" /\ ReturnFromPlan(TRUE)

\* The server, whether anyone still waits for it or not.
ServerCommits ==
  /\ tx = "committing"
  /\ tx' = "committed" /\ database' = applied
  /\ UNCHANGED <<request, pc, i, user, signal, active, applied, timer, verdict, report>>

ServerRefuses ==
  /\ tx = "committing"
  /\ tx' = "rolledback"
  /\ UNCHANGED <<request, pc, i, user, signal, active, applied, database, timer, verdict, report>>

----------------------------------------------------------------------------
(* Ctrl-C, and the goroutine that waits for it.                            *)

Interrupt ==
  /\ pc # "ended" /\ handler = "listening" /\ ~signalled
  /\ signalled' = TRUE
  /\ UNCHANGED <<request, pc, i, user, handler, cancelled, active, server, timer, verdict, report>>

\* One signal, or the end of ExecutePlan, and the goroutine stops listening.
HandleSignal ==
  /\ handler = "listening" /\ (signalled \/ cancelled)
  /\ handler' = "off" /\ cancelled' = TRUE
  /\ UNCHANGED <<request, pc, i, user, signalled, active, server, timer, verdict, report>>

\* When nobody listens a signal ends the process, and the server an open transaction.
Killed ==
  /\ pc # "ended" /\ handler # "listening"
  /\ End("killed")
  /\ tx' = IF tx = "open" THEN "rolledback" ELSE tx
  /\ active' = FALSE
  /\ UNCHANGED <<request, i, user, signal, applied, database, timer, verdict>>

----------------------------------------------------------------------------
(* runPush, after the execution.                                           *)

\* loadCtx runs out: its timer was started before the first schema was loaded.
TimerExpires ==
  /\ timer = "running" /\ pc # "ended"
  /\ timer' = pc
  /\ UNCHANGED <<request, pc, i, user, signal, active, server, verdict, report>>

Reloaded ==
  /\ pc = "reload" /\ timer = "running"
  /\ pc' = "validate"
  /\ UNCHANGED <<request, i, user, signal, active, server, timer, verdict, report>>

ReloadFailed ==
  /\ pc = "reload"
  /\ End(IF timer = "running" THEN "error" ELSE "reload_timeout")
  /\ UNCHANGED <<request, i, user, signal, active, server, timer, verdict>>

\* The filter of the second ComputeDiff lets the operation pass.
Shows(undo) == undo = "plain" \/ (undo = "destructive" /\ request.unsafeDrop)

RemainingMutant ==                         \* always without --unsafe-drop
  {p \in DOMAIN ops :
     /\ p \notin Range(database)
     /\ ops[p].within \in {0} \cup Range(database)
     /\ ops[p].undo = "plain"}

\* What the second ComputeDiff finds of the plan: it is asked what would turn the
\* source into the target, so an operation that was not executed shows as the one
\* to undo it, if there is one and the filter lets it pass.
Remaining ==
  {p \in DOMAIN ops :
     /\ p \notin Range(database)
     /\ ops[p].within \in {0} \cup Range(database)
     /\ Shows(ops[p].undo)}

\* What was executed may be found different again (LeftOver of module Convergence),
\* what was left out shows like what was not executed.
Validated ==
  /\ pc = "validate"
  /\ \/ verdict' = "warned"
     \/ Remaining = {} /\ ~(\E undo \in request.leftOut : Shows(undo)) /\ verdict' = "passed"
  /\ End("success")
  /\ UNCHANGED <<request, i, user, signal, active, server, timer>>

ValidationFailed ==
  /\ pc = "validate"
  /\ End("error")
  /\ UNCHANGED <<request, i, user, signal, active, server, timer, verdict>>

----------------------------------------------------------------------------
\* The program with the answers of the server it waits for; every call of the
\* server returns, with an error if need be.
Main ==
  \/ Loaded \/ LoadFailed \/ NothingToExecute \/ StartExecution
  \/ Connected \/ Begun \/ NotBegun
  \/ Interrupted \/ SkipBlank \/ NonTransactional \/ AutoSkip \/ Execute \/ Prompt
  \/ Executed \/ ExecFailed \/ CommitSent \/ CommitNotSent \/ Committed \/ CommitFailed
  \/ Reloaded \/ ReloadFailed \/ Validated \/ ValidationFailed

Done == pc = "ended" /\ tx # "committing" /\ UNCHANGED vars

Next ==
  \/ Main \/ Answer \/ Interrupt \/ HandleSignal \/ Killed \/ TimerExpires
  \/ ServerCommits \/ ServerRefuses \/ Done

\* Go runs both goroutines; the user owes nothing.
Spec == Init /\ [][Next]_vars /\ WF_vars(Main) /\ WF_vars(HandleSignal)

----------------------------------------------------------------------------
(* What must be true.                                                      *)

TypeOK ==
  /\ request \in Request
  /\ pc \in PC
  /\ i \in 1..(Len(ops) + 1)
  /\ pc \in {"prompt", "exec"} => i \in DOMAIN ops
  /\ applyAll \in BOOLEAN /\ skipped \subseteq 1..(i - 1)
  /\ handler \in {"none", "listening", "off"}
  /\ signalled \in BOOLEAN /\ cancelled \in BOOLEAN /\ active \in BOOLEAN
  /\ tx \in {"none", "open", "committing", "committed", "rolledback"}
  /\ applied \in Seq(1..(i - 1)) /\ database \in Seq(1..(i - 1))
  /\ timer \in {"running"} \cup PC
  /\ verdict \in {"none", "passed", "warned"}
  /\ report \in {"running", "success", "error", "reload_timeout", "killed"}

\* Where the program is tells what has become of the transaction, but for the
\* time after a commit was sent.
TransactionKnown ==
  /\ pc \in {"load", "compare", "connect", "begin"} => tx = "none"
  /\ tx = "none" => applied = <<>>
  /\ pc \in {"next", "prompt", "exec"} => tx = "open"
  /\ tx = "open" => pc \in {"next", "prompt", "exec"} /\ active
  /\ active => pc \in {"next", "prompt", "exec", "committing"}
  /\ pc = "committing" => tx \in {"committing", "committed", "rolledback"}
  /\ pc \in {"reload", "validate"} => tx \in {"committed", "rolledback"}
  /\ report = "running" <=> pc # "ended"
  /\ report = "success" => tx # "committing"
  /\ verdict # "none" => pc = "ended" /\ tx # "committing"
  /\ database = IF tx = "committed" THEN applied ELSE <<>>

\* An operation that may be missing from what is committed: it renders to no SQL,
\* the user has skipped it, or --execute has left it out as destructive.
MayBeMissing(p) ==
  \/ ops[p].sql = "none"
  \/ p \in skipped
  \/ request.execute /\ ops[p].destructive /\ ~request.unsafeDrop

\* The operations before i were executed, in their order, or may be missing, and
\* only when none is left the commit is sent.
PlanFollowed ==
  /\ \A p \in 1..(i - 1) : p \in Range(applied) \/ MayBeMissing(p)
  /\ \A p, q \in DOMAIN applied : p < q => applied[p] < applied[q]
  /\ tx \in {"committing", "committed"} => i = Len(ops) + 1

\* What is committed is the whole plan but for what may be missing: not what was
\* done when a statement failed, the user said no, a signal came or a statement
\* cannot run in a transaction (README.md:140; push_service.go:149, 221).
CommittedWhole ==
  tx = "committed" => {p \in DOMAIN ops : ~MayBeMissing(p)} \subseteq Range(database)

\* Nothing destructive reaches the database without --unsafe-drop, whatever the
\* user answers and in whatever order: "a" does not carry over (push_service.go:176).
DestructiveNeedsFlag ==
  \A p \in Range(applied) : ops[p].destructive => request.unsafeDrop

\* What the proofs rest on.
Inv ==
  /\ TypeOK /\ TransactionKnown /\ PlanFollowed
  /\ DestructiveNeedsFlag /\ (pc = "exec" => ~Blocked)

\* Once the context of the execution is cancelled the commit is not sent any more
\* (push_service.go:141).
NoCommitAfterInterrupt == [][cancelled /\ tx # "committing" => tx' # "committing"]_vars

\* However the program ends, it leaves no transaction open behind it and none that
\* it believes to be active (push_service.go:112).
NoTransactionLeft == pc \in {"reload", "validate", "ended"} => tx # "open" /\ ~active

\* With --unsafe-drop, which takes nothing out of the second comparison, "Validation
\* passed" means that every operation was executed but for those that nothing undoes
\* (cmd/migra/push.go:191-196): nothing else stays hidden, not even what lies within
\* something that is missing too.
UnsafeValidationHonest ==
  verdict = "passed" /\ request.unsafeDrop =>
    \A p \in DOMAIN ops \ Range(database) : ops[p].undo = "none"

\* The database changes at most once, by a selection of the plan in its order, and
\* not after the program has reported success (push_service.go:140-147).
Promise == INSTANCE AtomicPush WITH planned <- ops, changed <- tx = "committed"
RefinesAtomicPush == Promise!Spec

\* Unless it keeps waiting for an answer the program comes to its end.
Ends == <>[](pc \in {"ended", "prompt"})

\* After the commit the target is compared again and found as expected
\* (README.md:143).
ValidationHonest == verdict = "passed" => Range(database) = DOMAIN ops

\* Time that the user takes to answer does not count for the timeout of loading
\* schemas (docs/DDL.md:235).
PromptCostsNoTime == report = "reload_timeout" => timer # "prompt"

\* Ctrl-C rolls back and ends the program (README.md:144).
InterruptEnds == signalled ~> pc = "ended"
=============================================================================
