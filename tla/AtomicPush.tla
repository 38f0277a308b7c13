----------------------------- MODULE AtomicPush -----------------------------
(***************************************************************************)
(* What "migra push" promises of the target database: it changes at most   *)
(* once, in one step, by operations of the plan in the order of the plan,  *)
(* and not any more after the program has said that it succeeded.          *)
(***************************************************************************)
EXTENDS Naturals, Sequences

VARIABLES
  planned,    \* the operations of the plan
  database,   \* the positions of those the target database has had
  changed,    \* the one change was made
  report      \* "running", then "success", or another word for a bad end

vars == <<planned, database, changed, report>>

\* A selection of the plan that keeps its order.
Selection(chosen) ==
  /\ \A p \in DOMAIN chosen : chosen[p] \in DOMAIN planned
  /\ \A p, q \in DOMAIN chosen : p < q => chosen[p] < chosen[q]

Init == database = <<>> /\ ~changed /\ report = "running"

\* The change may also come after the program has given up hope: a commit that
\* was sent off cannot be called back.
Change ==
  /\ ~changed /\ report # "success"
  /\ changed'
  /\ Selection(database') /\ database' \in Seq(Nat)
  /\ UNCHANGED <<planned, report>>

End ==
  /\ report = "running"
  /\ report' # "running"
  /\ UNCHANGED <<planned, database, changed>>

Next == Change \/ End

Spec == Init /\ [][Next]_vars
=============================================================================
