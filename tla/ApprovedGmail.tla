--------------------------- MODULE ApprovedGmail ----------------------------
(***************************************************************************)
(* An action plan with one send_email through Gmail: the plan's life in    *)
(* backend/app/services/action_plan_service.py around the calls of         *)
(* GmailSend.  Approving locks the plan's row, executes the action under   *)
(* the lock and commits the outcome with the request; the attempt's row    *)
(* commits on its own, so a request that dies leaves the plan pending.     *)
(***************************************************************************)
EXTENDS GmailSend

VARIABLES
  plan,    \* status of the pending_action_plans row
  overdue, \* expires_at has passed
  lock     \* the request that holds the row, with the action it is executing

planVars == <<plan, overdue, lock>>
allVars == <<vars, planVars>>

Statuses == {"pending", "executed", "failed", "expired", "rejected"}
Free == {}

PlanTypeOK ==
  /\ TypeOK
  /\ plan \in Statuses
  /\ overdue \in BOOLEAN
  /\ lock \in {Free} \union {{c} : c \in Callers}

PlanInit ==
  /\ Init
  /\ plan = "pending"
  /\ overdue = FALSE
  /\ lock = Free

-----------------------------------------------------------------------------

TtlPasses ==
  /\ ~overdue
  /\ overdue' = TRUE
  /\ UNCHANGED <<vars, plan, lock>>

\* Mutants of Approve: the row is read without FOR UPDATE; any plan is executed.
BugApproveWithoutLock(c) ==
  /\ caller[c] = Idle
  /\ plan = "pending" /\ ~overdue
  /\ lock' = lock \union {c}
  /\ AccountMissing(c) \/ ClaimStarted(c)
  /\ UNCHANGED <<plan, overdue>>
BugApproveAnyPlan(c) ==
  /\ lock = Free /\ caller[c] = Idle
  /\ ~overdue
  /\ lock' = {c}
  /\ AccountMissing(c) \/ ClaimStarted(c)
  /\ UNCHANGED <<plan, overdue>>

\* approve on a pending plan: the action begins.
Approve(c) ==
  /\ lock = Free /\ caller[c] = Idle
  /\ plan = "pending" /\ ~overdue
  /\ lock' = {c}
  /\ AccountMissing(c) \/ ClaimStarted(c)
  /\ UNCHANGED <<plan, overdue>>

\* approve or reject on a pending plan past its TTL.
FindExpired ==
  /\ lock = Free
  /\ plan = "pending" /\ overdue
  /\ plan' = "expired"
  /\ UNCHANGED <<vars, overdue, lock>>

Reject ==
  /\ lock = Free
  /\ plan = "pending" /\ ~overdue
  /\ plan' = "rejected"
  /\ UNCHANGED <<vars, overdue, lock>>

\* The action goes on under the lock.
Execute(c) ==
  /\ c \in lock
  /\ \/ TokenMissing(c) \/ SendMessage(c) \/ SendSucceeds(c) \/ SendRefused(c)
     \/ SendAmbiguous(c) \/ GetToken(c) \/ ReconcileSent(c)
     \/ ReadRow(c) \/ WriteRow(c) \/ StoreFails(c)
  /\ UNCHANGED planVars

\* Mutant of Conclude: an unconfirmed delivery counts as executed.
BugConcludeAlways(c) ==
  /\ c \in lock /\ caller[c].phase = "answered"
  /\ plan' = "executed"
  /\ lock' = lock \ {c}
  /\ Leave(c)
  /\ UNCHANGED overdue

\* The action is over and the request commits.
Conclude(c) ==
  /\ c \in lock /\ caller[c].phase = "answered"
  /\ plan' = IF caller[c].answer \in {"sent", "already_sent"}
             THEN "executed" ELSE "failed"
  /\ lock' = lock \ {c}
  /\ Leave(c)
  /\ UNCHANGED overdue

\* The request dies, or its commit fails: its transaction is rolled back.
Abort(c) ==
  /\ c \in lock
  /\ lock' = lock \ {c}
  /\ Leave(c)
  /\ UNCHANGED <<plan, overdue>>

PlanNext ==
  \/ TtlPasses \/ FindExpired \/ Reject
  \/ GmailDecides /\ UNCHANGED planVars
  \/ \E c \in Callers : Approve(c) \/ Execute(c) \/ Conclude(c) \/ Abort(c)

PlanSpec == PlanInit /\ [][PlanNext]_allVars

-----------------------------------------------------------------------------
(* What the plan adds: calls follow one another.                           *)

\* Under the plan's lock the protocol keeps the promise of SendOnce: besides one
\* send, a verdict that was recorded stands, and is the truth.
verdict == CASE attempt \in {"started", "uncertain"} -> "open"
             [] attempt = "succeeded" -> "delivered"
             [] attempt = "failed_definite" -> "failed"
             [] OTHER -> "none"
Promise == INSTANCE SendOnce WITH message <- message, verdict <- verdict
SendsOnce == Promise!Spec

\* A plan and its attempt are committed apart and still agree: executed means
\* delivered and recorded so, and a final attempt is never contradicted.
PlanAgreesWithAttempt ==
  /\ plan = "executed" => attempt = "succeeded" /\ Delivered
  /\ attempt = "failed_definite" => plan # "executed"

\* A decided plan stays decided, and nothing is sent for it any more: not by the
\* loser of two clicks, nor by an approval after a rejection or the TTL.
DecidedPlanIsOver ==
  [][plan # "pending" => plan' = plan /\ sends' = sends]_allVars
=============================================================================
