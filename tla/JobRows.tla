------------------------------ MODULE JobRows ------------------------------
(***************************************************************************)
(* One row of the "jobs" table and the transitions JobQueueService applies *)
(* to it (backend/app/services/job_queue_service.py).  Nothing here knows  *)
(* of workers or of the other rows; JobQueue puts the rows together.       *)
(*                                                                         *)
(* A row keeps what the code branches on:                                  *)
(*   status    "absent" stands for a row that was never inserted           *)
(*   attempts  claims since the last reset                                 *)
(*   lease     locked_at: "none" is NULL, "held" is a lock younger than    *)
(*             STALE_LOCK_MINUTES, "stale" an older one                    *)
(*   parked    last_error is the daily-budget marker                       *)
(*   transient payload says last_error_kind = transient and retryable      *)
(* run_after is not part of the row: see "ready" in JobQueue.              *)
(***************************************************************************)
EXTENDS Naturals

CONSTANTS
  MaxAttempts,     \* MAX_JOB_ATTEMPTS
  TransientTiers   \* number of delays a Google or Yandex retry steps through

ASSUME AttemptsAssumption ==
  /\ MaxAttempts \in Nat
  /\ TransientTiers \in Nat \ {0}
  /\ TransientTiers <= MaxAttempts

-----------------------------------------------------------------------------

\* "tiered": Gmail, Google Calendar, Yandex Mail and Calendar synchronisation;
\* "flood": Telegram; "plain": Mattermost; "teams": Microsoft Teams;
\* "proactive": the periodic review; "ordinary": every other type with a
\* handler; "unknown": no handler.
SourceKinds == {"tiered", "flood", "plain", "teams"}
Kinds == SourceKinds \union {"proactive", "ordinary", "unknown"}

Statuses == {"absent", "pending", "running", "done", "failed"}

\* What a handler can raise, as process_one_job tells exceptions apart.  A Teams
\* rate limit changes a row the way "retryable" does.
Errors == {"budget", "transient", "retryable", "fatal"}

JobRow ==
  [status : Statuses, attempts : Nat, lease : {"none", "held", "stale"},
   parked : BOOLEAN, transient : BOOLEAN]

Row(status, attempts, lease, parked, transient) ==
  [status |-> status, attempts |-> attempts, lease |-> lease,
   parked |-> parked, transient |-> transient]

NoRow == Row("absent", 0, "none", FALSE, FALSE)

UsesFailedRearm(kind) == kind \in SourceKinds \union {"proactive"}

\* claim_next refuses to hand out a running row that has no attempt left.
OutOfAttempts(row) == row.status = "running" /\ row.attempts >= MaxAttempts

-----------------------------------------------------------------------------
(* Row transitions, each named for the method it comes from.               *)

Enqueued == Row("pending", 0, "none", FALSE, FALSE)

Claimed(row) ==
  Row("running", row.attempts + 1, "held", row.parked, row.transient)

Done(row) == Row("done", row.attempts, "none", row.parked, row.transient)

Failed(row) == Row("failed", row.attempts, "none", FALSE, row.transient)

\* Mutants of Parked: no floor at zero; the claim's attempt is not given back.
BugParkedNoFloor(row) ==
  Row("pending", row.attempts - 1, "none", TRUE, row.transient)
BugParkedKeepsAttempt(row) ==
  Row("pending", row.attempts, "none", TRUE, row.transient)

Parked(row) ==
  Row("pending", IF row.attempts > 0 THEN row.attempts - 1 ELSE 0, "none",
      TRUE, row.transient)

Released(row) ==
  Row(row.status, row.attempts, row.lease, FALSE, row.transient)

Reactivated(row) == Enqueued

Retired(row) == Row("done", row.attempts, "none", FALSE, FALSE)

\* Mutant of Rearmed: everything is reset but the status.
BugRearmedStaysFailed(row) == Row("failed", 0, row.lease, FALSE, FALSE)

Rearmed(row) == Row("pending", 0, row.lease, FALSE, FALSE)

Triggered(row) ==
  IF row.status = "failed"
  THEN Row("pending", 0, row.lease, row.parked, row.transient)
  ELSE row

RecurringSucceeded(row) == Enqueued

RecurringFailed(row) == Row("failed", row.attempts, "none", FALSE, FALSE)

\* Mutant of TransientRetried: the attempts are not capped.
BugTransientUncapped(row) == Row("pending", row.attempts, "none", FALSE, TRUE)

TransientRetried(row) ==
  Row("pending",
      IF row.attempts < TransientTiers - 1 THEN row.attempts ELSE TransientTiers - 1,
      "none", FALSE, TRUE)

FloodRetried(row) == Row("pending", 0, "none", FALSE, TRUE)

\* mark_retry's way back to the queue, with the attempts it leaves.
Requeued(row, attempts) == Row("pending", attempts, "none", FALSE, row.transient)

\* Mutant of Retried: last_error keeps the old marker.
BugRetriedKeepsMarker(kind, error, row) ==
  IF error = "fatal" \/ row.attempts >= MaxAttempts
  THEN Failed(row)
  ELSE Row("pending", row.attempts, "none", row.parked, row.transient)

\* mark_retry: a configuration error ends an ordinary job at once, a source job
\* starts over after a cooldown, and the last attempt fails for every kind.
Retried(kind, error, row) ==
  CASE error = "fatal" /\ kind \in SourceKinds -> Requeued(row, 0)
    [] error = "fatal" /\ kind \notin SourceKinds -> Failed(row)
    [] error # "fatal" /\ row.attempts >= MaxAttempts -> Failed(row)
    [] OTHER -> Requeued(row, row.attempts)

\* The row after a failed handler: finalize_recurring_job_failure for a source
\* whose preference is on, mark_retry for everything else.
AfterFailure(kind, error, row) ==
  CASE kind = "tiered" /\ error = "transient" -> TransientRetried(row)
    [] kind = "flood" /\ error = "transient" -> FloodRetried(row)
    [] kind \in {"tiered", "flood"} /\ error # "transient" -> RecurringFailed(row)
    [] OTHER -> Retried(kind, error, row)

\* Whether the failure moves run_after: to a backoff, a retry delay or a
\* cooldown.  Only a job that fails for good and is never rearmed keeps it, and
\* a review that met a configuration error.
FailureDelays(kind, error, row) ==
  \/ kind \in SourceKinds
  \/ error # "fatal" /\ (row.attempts < MaxAttempts \/ UsesFailedRearm(kind))
=============================================================================
