------------------------------ MODULE JobQueue ------------------------------
(***************************************************************************)
(* The background job queue: the "jobs" table, the worker threads of       *)
(* backend/app/worker/run.py that poll it, process_one_job of              *)
(* backend/app/jobs/worker.py, and the API requests and scheduler passes   *)
(* that write the same rows.                                               *)
(*                                                                         *)
(* Each worker action is one database transaction.  A handler runs between *)
(* two of them, so leases expire, preferences change and rows are rewritten*)
(* while it runs.  A request or a pass reads a row without a lock and      *)
(* writes it later (Look, then Land): whatever commits in between is       *)
(* overwritten in the columns it changes.  Time is untimed: run_after      *)
(* passes (BecomeDue) and a lock goes stale (LeaseExpires) at any moment.  *)
(***************************************************************************)
EXTENDS JobRows, Sequences, FiniteSets

CONSTANTS
  Jobs,      \* rows the table can ever hold
  Workers,   \* polling threads, over all processes
  Lanes,     \* the disjoint sets of job types the threads poll
  Kind,      \* Kind[j] is the kind of job j
  LaneOf,    \* LaneOf[j] is the lane of j's type
  Polls,     \* Polls[w] is the lane thread w polls
  MaxRequests  \* bound: API requests between their read and their commit

ASSUME LanesAssumption ==
  /\ Kind \in [Jobs -> Kinds]
  /\ LaneOf \in [Jobs -> Lanes]
  /\ Polls \in [Workers -> Lanes]

VARIABLES
  job,        \* job[j] is the row of j
  ready,      \* jobs whose run_after has passed, in the order of run_after
  disabled,   \* source jobs whose synchronisation the user switched off
  offline,    \* Teams jobs whose account has no connection
  looks,      \* what requests and passes have read and have yet to write
  worker,     \* worker[w] is what thread w holds between its transactions
  effects,    \* history: committed handler runs of a job that is not a source
  dropped,    \* history: such jobs that were marked done instead of being run
  spent,      \* history: claims of such a job lost or failed since its last
              \*   fresh start
  budgetHeld  \* history: jobs whose run_after the daily budget set last

vars == <<job, ready, disabled, offline, looks, worker, effects, dropped, spent,
          budgetHeld>>

Idle == [phase |-> "idle"]
Busy == [phase : {"claimed", "running"}, id : Jobs]
        \union [phase : {"raised"}, id : Jobs, error : Errors]

\* A row that was read and is to be written: the status it is given ("kept" where
\* it was so already), the columns that are cleared, whether run_after becomes now,
\* what the same transaction stores besides, and the claims of the row meanwhile.
Columns == {"attempts", "lease", "parked", "transient"}
LookType ==
  [id : Jobs, by : {"pass", "request"}, status : {"kept", "pending", "done"},
   clears : SUBSET Columns, due : BOOLEAN,
   sets : {"nothing", "disabled", "enabled", "offline"}, claims : Nat]

TypeOK ==
  /\ job \in [Jobs -> JobRow]
  /\ ready \in Seq(Jobs)
  /\ disabled \subseteq Jobs
  /\ offline \subseteq Jobs
  /\ looks \subseteq LookType
  /\ worker \in [Workers -> {Idle} \union Busy]
  /\ effects \in [Jobs -> Nat]
  /\ dropped \subseteq Jobs
  /\ spent \in [Jobs -> Nat]
  /\ budgetHeld \subseteq Jobs

Init ==
  /\ job = [j \in Jobs |-> NoRow]
  /\ ready = <<>>
  /\ disabled = {}
  /\ offline = {j \in Jobs : Kind[j] = "teams"}
  /\ looks = {}
  /\ worker = [w \in Workers |-> Idle]
  /\ effects = [j \in Jobs |-> 0]
  /\ dropped = {}
  /\ spent = [j \in Jobs |-> 0]
  /\ budgetHeld = {}

-----------------------------------------------------------------------------
(* The order of run_after.                                                 *)

IsReady(j) == \E i \in 1 .. Len(ready) : ready[i] = j

Without(j) ==
  IF IsReady(j)
  THEN LET i == CHOOSE i \in 1 .. Len(ready) : ready[i] = j
       IN  SubSeq(ready, 1, i - 1) \o SubSeq(ready, i + 1, Len(ready))
  ELSE ready

\* Writing a row: run_after is kept, set to a later time, or set to now.
Write(j, row) == job' = [job EXCEPT ![j] = row] /\ UNCHANGED <<ready, budgetHeld>>

WriteLater(j, row) ==
  /\ job' = [job EXCEPT ![j] = row]
  /\ ready' = Without(j)
  /\ budgetHeld' = budgetHeld \ {j}

WriteNow(j, row) ==
  /\ job' = [job EXCEPT ![j] = row]
  /\ ready' = Append(Without(j), j)
  /\ budgetHeld' = budgetHeld \ {j}

IsSource(j) == Kind[j] \in SourceKinds
SwitchedOff(j) == IsSource(j) /\ j \in disabled

\* Mutant of Claimable: a stale lock is never taken over.
BugClaimableNoTakeover(w, j) ==
  LaneOf[j] = Polls[w] /\ job[j].status = "pending"

\* The rows claim_next may return to w, and the first of them by run_after.
Claimable(w, j) ==
  /\ LaneOf[j] = Polls[w]
  /\ \/ job[j].status = "pending"
     \/ job[j].status = "running" /\ job[j].lease = "stale"

IsHead(w, j) ==
  \E i \in 1 .. Len(ready) :
    /\ ready[i] = j
    /\ Claimable(w, j)
    /\ \A k \in 1 .. i - 1 : ~Claimable(w, ready[k])

-----------------------------------------------------------------------------
(* Time.                                                                   *)

BecomeDue(j) ==
  /\ job[j].status # "absent"
  /\ ~IsReady(j)
  /\ ready' = Append(ready, j)
  /\ UNCHANGED <<job, disabled, offline, looks, worker, effects, dropped, spent,
                 budgetHeld>>

LeaseExpires(j) ==
  /\ job[j].lease = "held"
  /\ job' = [job EXCEPT ![j].lease = "stale"]
  /\ UNCHANGED <<ready, disabled, offline, looks, worker, effects, dropped, spent,
                 budgetHeld>>

-----------------------------------------------------------------------------
(* Worker threads: process_one_job.                                        *)

\* The looks at a claimed row are one claim older.
Older(l, j) == IF l.id = j THEN [l EXCEPT !.claims = @ + 1] ELSE l

\* Bound: between its read and its commit a request or a pass sees fewer claims of
\* the row than it takes to use up the attempts.
Brief(j) == \A l \in looks : l.id = j => l.claims + 1 < MaxAttempts

\* Mutant of Claim: the claimed row leaves the order of run_after.
BugClaimLeavesOrder(w, j) ==
  /\ worker[w] = Idle
  /\ IsHead(w, j)
  /\ ~OutOfAttempts(job[j])
  /\ Brief(j)
  /\ WriteLater(j, Claimed(job[j]))
  /\ looks' = {Older(l, j) : l \in looks}
  /\ worker' = [worker EXCEPT ![w] = [phase |-> "claimed", id |-> j]]
  /\ UNCHANGED <<disabled, offline, effects, dropped, spent>>

\* First transaction.  A reclaimed row's earlier claim is lost.
Claim(w, j) ==
  /\ worker[w] = Idle
  /\ IsHead(w, j)
  /\ ~OutOfAttempts(job[j])
  /\ Brief(j)
  /\ Write(j, Claimed(job[j]))
  /\ looks' = {Older(l, j) : l \in looks}
  /\ spent' = IF job[j].status = "running" /\ ~IsSource(j)
              THEN [spent EXCEPT ![j] = @ + 1] ELSE spent
  /\ worker' = [worker EXCEPT ![w] = [phase |-> "claimed", id |-> j]]
  /\ UNCHANGED <<disabled, offline, effects, dropped>>

\* claim_next marks a stale row without attempts failed (or puts it back for a
\* transient retry) and returns None.  process_one_job then returns without a
\* commit and closes the session, so the write is rolled back.
ClaimOutOfAttempts(w, j) ==
  /\ worker[w] = Idle
  /\ IsHead(w, j)
  /\ OutOfAttempts(job[j])
  /\ UNCHANGED vars

\* No handler for the type.
UnknownType(w) ==
  /\ worker[w].phase = "claimed"
  /\ LET j == worker[w].id IN
       /\ Kind[j] = "unknown"
       /\ Write(j, Failed(job[j]))
       /\ spent' = [spent EXCEPT ![j] = @ + 1]
  /\ worker' = [worker EXCEPT ![w] = Idle]
  /\ UNCHANGED <<disabled, offline, looks, effects, dropped>>

\* A source the user has switched off is retired instead of run.
RetireInsteadOfRun(w) ==
  /\ worker[w].phase = "claimed"
  /\ LET j == worker[w].id IN
       /\ SwitchedOff(j)
       /\ Write(j, Retired(job[j]))
  /\ worker' = [worker EXCEPT ![w] = Idle]
  /\ UNCHANGED <<disabled, offline, looks, effects, dropped, spent>>

\* Mutant of StartHandler: the row is marked done before the handler runs.
BugDoneBeforeRun(w) ==
  /\ worker[w].phase = "claimed"
  /\ LET j == worker[w].id IN
       Kind[j] # "unknown" /\ ~SwitchedOff(j) /\ Write(j, Done(job[j]))
  /\ worker' = [worker EXCEPT ![w].phase = "running"]
  /\ UNCHANGED <<disabled, offline, looks, effects, dropped, spent>>

StartHandler(w) ==
  /\ worker[w].phase = "claimed"
  /\ LET j == worker[w].id IN Kind[j] # "unknown" /\ ~SwitchedOff(j)
  /\ worker' = [worker EXCEPT ![w].phase = "running"]
  /\ UNCHANGED <<job, ready, disabled, offline, looks, effects, dropped, spent,
                 budgetHeld>>

\* The handler's effects and the final state of the row commit together.
HandlerSucceeds(w) ==
  /\ worker[w].phase = "running"
  /\ LET j == worker[w].id IN
       \/ /\ ~IsSource(j)
          /\ Write(j, Done(job[j]))
          /\ effects' = [effects EXCEPT ![j] = @ + 1]
       \/ /\ SwitchedOff(j)
          /\ Write(j, Retired(job[j]))
          /\ UNCHANGED effects
       \/ /\ IsSource(j) /\ ~SwitchedOff(j)
          /\ WriteLater(j, RecurringSucceeded(job[j]))
          /\ UNCHANGED effects
  /\ worker' = [worker EXCEPT ![w] = Idle]
  /\ UNCHANGED <<disabled, offline, looks, dropped, spent>>

\* The handler's transaction is rolled back; the outcome is recorded in another.
HandlerRaises(w, error) ==
  /\ worker[w].phase = "running"
  /\ error = "transient" => Kind[worker[w].id] \in {"tiered", "flood"}
  /\ worker' = [worker EXCEPT ![w] =
                  [phase |-> "raised", id |-> worker[w].id, error |-> error]]
  /\ UNCHANGED <<job, ready, disabled, offline, looks, effects, dropped, spent,
                 budgetHeld>>

ParkUntilBudgetReset(w) ==
  /\ worker[w].phase = "raised" /\ worker[w].error = "budget"
  /\ LET j == worker[w].id IN
       /\ job' = [job EXCEPT ![j] = Parked(@)]
       /\ ready' = Without(j)
       /\ budgetHeld' = budgetHeld \union {j}
  /\ worker' = [worker EXCEPT ![w] = Idle]
  /\ UNCHANGED <<disabled, offline, looks, effects, dropped, spent>>

\* The claims a failure leaves on record: none once attempts are back to zero.
SpentAfter(j, row) ==
  [spent EXCEPT ![j] = IF row.attempts = 0 \/ IsSource(j) THEN 0 ELSE @ + 1]

RecordFailure(w) ==
  /\ worker[w].phase = "raised" /\ worker[w].error # "budget"
  /\ LET j     == worker[w].id
         error == worker[w].error
         row   == AfterFailure(Kind[j], error, job[j])
     IN  \/ /\ SwitchedOff(j)
            /\ Write(j, Retired(job[j]))
            /\ UNCHANGED spent
         \/ /\ ~SwitchedOff(j)
            /\ FailureDelays(Kind[j], error, job[j])
            /\ WriteLater(j, row)
            /\ spent' = SpentAfter(j, row)
         \/ /\ ~SwitchedOff(j)
            /\ ~FailureDelays(Kind[j], error, job[j])
            /\ Write(j, row)
            /\ spent' = SpentAfter(j, row)
  /\ worker' = [worker EXCEPT ![w] = Idle]
  /\ UNCHANGED <<disabled, offline, looks, effects, dropped>>

\* The process dies and is started again, or recording an outcome fails and is
\* only logged: the thread polls again and the row keeps its lock.
LoseOutcome(w) ==
  /\ worker[w] # Idle
  /\ worker' = [worker EXCEPT ![w] = Idle]
  /\ UNCHANGED <<job, ready, disabled, offline, looks, effects, dropped, spent,
                 budgetHeld>>

-----------------------------------------------------------------------------
(* API requests and scheduler passes.  Each finds rows without a lock,     *)
(* decides by what it has read, and flushes later, in one transaction with *)
(* the preference or the account it stores.  The flush writes the columns  *)
(* that differ from what was read and leaves the others to whoever wrote   *)
(* them since.  One that dies before its commit has done nothing.          *)

\* What an UPDATE sends for a row read as "row" that is to become "want".
Changes(row, want) ==
  [status |-> IF want.status = row.status THEN "kept" ELSE want.status,
   clears |-> {c \in Columns : want[c] # row[c]}]

\* Such an UPDATE, over the row as it is by now.
Written(row, l) ==
  Row(IF l.status = "kept" THEN row.status ELSE l.status,
      IF "attempts" \in l.clears THEN 0 ELSE row.attempts,
      IF "lease" \in l.clears THEN "none" ELSE row.lease,
      row.parked /\ "parked" \notin l.clears,
      row.transient /\ "transient" \notin l.clears)

\* The read.  The general lane runs one pass at a time, and sync_user holds the
\* settings row over its read and its commit, from a request too.  Requests overlap;
\* two that would write the same count as one.  A row of which one has seen that it
\* does not exist is inserted by that one: a second row for a source is left out.
Look(j, by, want, due, sets) ==
  /\ job[j].status = "absent" => \A l \in looks : l.id # j
  /\ by = "pass" => \A l \in looks : l.by = "pass" => l.id # j
  /\ by = "request" =>
       Cardinality({l \in looks : l.by = "request"}) < MaxRequests
  /\ LET changes == Changes(job[j], want)
     IN  looks' = looks \union
           {[id |-> j, by |-> by, status |-> changes.status,
             clears |-> changes.clears, due |-> due, sets |-> sets, claims |-> 0]}

\* A read that leaves everything else alone, as all but a sign-in's do.
OnlyLooks(j, by, want, due, sets) ==
  /\ Look(j, by, want, due, sets)
  /\ UNCHANGED <<job, ready, disabled, offline, worker, effects, dropped, spent,
                 budgetHeld>>

\* The commit.
Land(l) ==
  LET j   == l.id
      row == Written(job[j], l)
  IN  /\ looks' = looks \ {l}
      /\ IF l.due THEN WriteNow(j, row) ELSE Write(j, row)
      /\ disabled' = CASE l.sets = "disabled" -> disabled \union {j}
                       [] l.sets = "enabled"  -> disabled \ {j}
                       [] OTHER               -> disabled
      /\ offline' = IF l.sets = "offline" THEN offline \union {j} ELSE offline
      /\ dropped' = IF l.status = "done" /\ ~IsSource(j)
                    THEN dropped \union {j} ELSE dropped
      /\ spent' = IF "attempts" \in l.clears THEN [spent EXCEPT ![j] = 0] ELSE spent
      /\ UNCHANGED <<worker, effects>>

\* enqueue with run_after now, or with a later one.
Enqueue(j) ==
  /\ job[j].status = "absent"
  /\ ~IsSource(j)
  /\ WriteNow(j, Enqueued) \/ WriteLater(j, Enqueued)
  /\ UNCHANGED <<disabled, offline, looks, worker, effects, dropped, spent>>

\* An activity is cancelled, or gets a new time: its queued job, locked, is done.
Cancel(j) ==
  /\ Kind[j] = "ordinary" /\ job[j].status = "pending"
  /\ Write(j, Done(job[j]))
  /\ dropped' = dropped \union {j}
  /\ UNCHANGED <<disabled, offline, looks, worker, effects, spent>>

\* The daily limit was raised: a parked job not yet due becomes due.
ReleaseParked(j) ==
  /\ job[j].status = "pending" /\ job[j].parked
  /\ ~IsReady(j)
  /\ OnlyLooks(j, "request", Released(job[j]), TRUE, "nothing")

\* A source the scheduler wants a job for: its account is connected and enabled.
Expected(j) == IsSource(j) /\ j \notin disabled /\ j \notin offline

\* Mutant of Ensured: a retired row is taken for an existing job.
BugEnsuredIgnoresRetired(row) ==
  IF row.status = "absent" THEN Enqueued ELSE row

\* ensure_recurring_source_job inserts a row or reactivates a retired one.
Ensured(row) ==
  IF row.status \in {"absent", "done"} THEN Reactivated(row) ELSE row

\* Mutant of Unscheduled: a running row is retired too.
BugUnscheduledRunning(row) ==
  IF row.status \in {"pending", "running", "failed"} THEN Retired(row) ELSE row

\* A row that must not be rescheduled is retired unless it is running.
Unscheduled(row) ==
  IF row.status \in {"pending", "failed"} THEN Retired(row) ELSE row

EnsureRecurring(j) ==
  /\ Expected(j)
  /\ Ensured(job[j]) # job[j]
  /\ OnlyLooks(j, "pass", Ensured(job[j]), TRUE, "nothing")

\* Mutant of RetireUnexpected: only the preference is looked at.
BugRetireOnlySwitchedOff(j) ==
  /\ SwitchedOff(j)
  /\ Unscheduled(job[j]) # job[j]
  /\ OnlyLooks(j, "pass", Unscheduled(job[j]), FALSE, "nothing")

RetireUnexpected(j) ==
  /\ IsSource(j) /\ ~Expected(j)
  /\ Unscheduled(job[j]) # job[j]
  /\ OnlyLooks(j, "pass", Unscheduled(job[j]), FALSE, "nothing")

\* sync_user ends a review that the user has switched off or that there are two of.
DropReview(j) ==
  /\ Kind[j] = "proactive"
  /\ Unscheduled(job[j]) # job[j]
  /\ OnlyLooks(j, "pass", Unscheduled(job[j]), FALSE, "nothing")

\* A failed source or review whose cooldown has passed starts over.  The pass
\* retires the unexpected rows before it comes to this.
RearmFailed(j) ==
  /\ Expected(j) \/ Kind[j] = "proactive"
  /\ job[j].status = "failed"
  /\ IsReady(j)
  /\ OnlyLooks(j, "pass", Rearmed(job[j]), TRUE, "nothing")

\* The API stores the preference and reconciles the job in one transaction, which
\* holds the preference before it reads the job.  Telegram has no preference, and an
\* account without a connection no job.
PreferenceIsHeld(j) ==
  \E l \in looks : l.id = j /\ l.sets \in {"disabled", "enabled"}

DisableSource(j) ==
  /\ IsSource(j) /\ Kind[j] # "flood" /\ j \notin disabled
  /\ ~PreferenceIsHeld(j)
  /\ LET want == IF j \in offline THEN job[j] ELSE Unscheduled(job[j])
     IN  OnlyLooks(j, "request", want, FALSE, "disabled")

EnableSource(j) ==
  /\ j \in disabled
  /\ ~PreferenceIsHeld(j)
  /\ LET want == IF j \in offline THEN job[j] ELSE Ensured(job[j])
     IN  OnlyLooks(j, "request", want, want # job[j], "enabled")

\* trigger_recurring_source_job: run_after becomes now whatever the status is.
TriggeredNow(row) ==
  IF row.status \in {"absent", "done"} THEN Reactivated(row) ELSE Triggered(row)

\* "Synchronise now", for every expected source; a change notification from
\* Teams does the same without asking for the preference.
TriggerSource(j) ==
  /\ Expected(j) \/ (Kind[j] = "teams" /\ j \notin offline)
  /\ job[j].status # "absent"
  /\ OnlyLooks(j, "request", TriggeredNow(job[j]), TRUE, "nothing")

\* Signing in to Mattermost or Teams commits the account; then it ensures and
\* triggers the job, whatever the preference says.
ConnectSource(j) ==
  /\ Kind[j] \in {"plain", "teams"}
  /\ offline' = offline \ {j}
  /\ Look(j, "request", TriggeredNow(job[j]), TRUE, "nothing")
  /\ UNCHANGED <<job, ready, disabled, worker, effects, dropped, spent, budgetHeld>>

\* Signing out of Teams retires the row even while it is running.
DisconnectTeams(j) ==
  /\ Kind[j] = "teams" /\ j \notin offline
  /\ LET want == IF job[j].status \in {"pending", "running", "failed"}
                 THEN Retired(job[j]) ELSE job[j]
     IN  OnlyLooks(j, "request", want, FALSE, "offline")

-----------------------------------------------------------------------------

WorkerStep(w) ==
  \/ \E j \in Jobs : Claim(w, j)
  \/ UnknownType(w)
  \/ RetireInsteadOfRun(w)
  \/ StartHandler(w)
  \/ HandlerSucceeds(w)
  \/ \E error \in Errors : HandlerRaises(w, error)
  \/ ParkUntilBudgetReset(w)
  \/ RecordFailure(w)

MaintenanceStep(j) ==
  EnsureRecurring(j) \/ RetireUnexpected(j) \/ DropReview(j) \/ RearmFailed(j)

SourceRequest(j) ==
  \/ DisableSource(j)
  \/ EnableSource(j)
  \/ TriggerSource(j)
  \/ ConnectSource(j)
  \/ DisconnectTeams(j)

RequestStep(j) == Enqueue(j) \/ Cancel(j) \/ ReleaseParked(j) \/ SourceRequest(j)

\* A transaction of a request or of a pass that has read j ends.
Lands(j, by) == \E l \in looks : l.id = j /\ l.by = by /\ Land(l)

Next ==
  \/ \E j \in Jobs :
       BecomeDue(j) \/ LeaseExpires(j) \/ MaintenanceStep(j) \/ RequestStep(j)
  \/ \E l \in looks : Land(l)
  \/ \E w \in Workers : WorkerStep(w) \/ LoseOutcome(w)
  \/ \E w \in Workers, j \in Jobs : ClaimOutOfAttempts(w, j)

Spec == Init /\ [][Next]_vars

\* Clocks advance, a thread polls every WORKER_IDLE_SLEEP_SECONDS and its handler
\* returns or raises, and the general lane runs the scheduler's pass.  No request
\* has to arrive, and no outcome has to be lost; what has read a row commits.  The
\* pass comes every minute and a row waits out its interval or cooldown as pending
\* or failed, so a pass sees a row that must be retired: strong fairness.
Fairness ==
  /\ \A j \in Jobs :
       /\ WF_vars(BecomeDue(j))
       /\ WF_vars(LeaseExpires(j))
       /\ WF_vars(EnsureRecurring(j))
       /\ SF_vars(RetireUnexpected(j))
       /\ WF_vars(RearmFailed(j))
       /\ WF_vars(Lands(j, "pass"))
       /\ WF_vars(Lands(j, "request"))
  /\ \A w \in Workers : WF_vars(WorkerStep(w))

FairSpec == Spec /\ Fairness

-----------------------------------------------------------------------------
(* Safety.                                                                 *)

\* No row outlives its attempts: a pending row can always be claimed once more
\* without passing MAX_JOB_ATTEMPTS, whichever path put it back to pending.
AttemptsBounded ==
  \A j \in Jobs :
    /\ job[j].attempts <= MaxAttempts
    /\ job[j].status = "pending" => job[j].attempts < MaxAttempts

\* Attempts count real failures: parking for the daily budget gives back exactly
\* the attempt its claim took, and a lost claim costs one.
AttemptsAreSpentClaims ==
  \A j \in Jobs :
    ~IsSource(j) =>
      /\ job[j].status \in {"pending", "failed"} => job[j].attempts = spent[j]
      /\ job[j].status = "running" => job[j].attempts = spent[j] + 1

\* A handler's effects commit once, and only with a row that says done: a crash, a
\* retry or a second claim neither repeats nor loses them, nor does whoever marks a
\* row done instead of running it.  Only a review can be both dropped and run, when
\* it is claimed while sync_user has it for one that nobody runs.
DoneIffEffects ==
  \A j \in Jobs :
    ~IsSource(j) =>
      /\ effects[j] \in {0, 1}
      /\ effects[j] = 1 => job[j].status = "done"
      /\ job[j].status = "done" => effects[j] = 1 \/ j \in dropped
      /\ j \in dropped /\ Kind[j] # "proactive" => effects[j] = 0

\* The row of a thread at work is taken from it, run_after and lease aside, only by
\* a write that was decided before the claim, or by signing out of Teams.  Requests
\* and passes look at the status without a lock, so they do overwrite a claim that
\* they have not seen; one that they have seen they leave alone.
ClaimsOutlastLaterReads ==
  [][\A w \in Workers :
       LET j == worker[w].id
       IN  (/\ worker[w] # Idle /\ worker'[w] # Idle /\ worker'[w].id = j
            /\ job[j].status = "running" /\ job'[j].status # "running") =>
             \E l \in looks \ looks' :
               l.id = j /\ (l.claims > 0 \/ l.sets = "offline")]_vars

\* A running row stays in the order of run_after where it was claimed, so that a
\* stale one is found again, and no queued row has been dropped from it twice.
RunningStaysInOrder ==
  /\ \A j \in Jobs : job[j].status = "running" => IsReady(j)
  /\ \A i, k \in 1 .. Len(ready) : ready[i] = ready[k] => i = k

\* Raising the daily limit wakes exactly the jobs the limit had put off: the
\* marker in last_error is never left on a row that waits for another reason.
MarkerMeansBudget ==
  \A j \in Jobs :
    (job[j].status = "pending" /\ ~IsReady(j)) =>
      (job[j].parked <=> j \in budgetHeld)

-----------------------------------------------------------------------------
(* Progress.                                                               *)

\* A row that claim_next hands to nobody: running, stale and out of attempts.
Abandoned(j) ==
  /\ OutOfAttempts(job[j])
  /\ job[j].lease = "stale"
  /\ \A w \in Workers : worker[w] # Idle => worker[w].id # j

LaneJammed(j) == \E i \in Jobs : LaneOf[i] = LaneOf[j] /\ Abandoned(i)

\* Every queued job ends, or waits for the daily limit, however often its claims
\* are lost and whatever is queued ahead of it, unless its lane is jammed.
JobSettles ==
  \A j \in Jobs :
    ~IsSource(j) /\ job[j].status \in {"pending", "running"} ~>
      \/ job[j].status \in {"done", "failed"}
      \/ job[j].status = "pending" /\ job[j].parked
      \/ LaneJammed(j)

\* Users leave their sources alone from some moment on.  "Synchronise now" sends
\* a due row to the back of its lane, so one who never stops starves a source.
UsersSettle == <>[][\A j \in Jobs : ~SourceRequest(j)]_vars

\* A connected, enabled source is picked up again and again: no failure, race
\* with the API or cooldown stops its synchronisation for good, a jam aside.
SourceKeepsRunning ==
  UsersSettle =>
    \A j \in Jobs :
      Expected(j) ~>
        \/ \E w \in Workers : worker[w] # Idle /\ worker[w].id = j
        \/ ~Expected(j)
        \/ LaneJammed(j)

\* A source switched off or signed out stops for good even when a thread was in
\* the middle of it and wrote its row back afterwards, a jam aside.
UnexpectedIsRetired ==
  UsersSettle =>
    \A j \in Jobs :
      IsSource(j) /\ ~Expected(j) ~>
        job[j].status \in {"absent", "done"} \/ Expected(j) \/ LaneJammed(j)

\* A stale job without attempts left is failed by the worker that finds it, as
\* claim_next and its test say.  process_one_job rolls that write back.
AbandonedIsFailed == \A j \in Jobs : Abandoned(j) ~> job[j].status = "failed"
=============================================================================
