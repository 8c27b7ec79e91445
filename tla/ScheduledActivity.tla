-------------------------- MODULE ScheduledActivity --------------------------
(***************************************************************************)
(* Reminders (backend/app/services/scheduled_activity_service.py): an      *)
(* activity object, the run jobs that fire it, the threads that execute    *)
(* them and the requests that cancel, delete or edit it meanwhile.         *)
(*                                                                         *)
(* An activity and its run jobs are rows of two tables.  fire and cancel   *)
(* lock the activity's row; a job carries the occurrence it was made for   *)
(* as its fence.  Several threads may execute one job, when its lease has  *)
(* gone stale under a slow one.  The order in which due jobs are claimed   *)
(* is JobQueue's matter: here any due job may be next.                     *)
(***************************************************************************)
EXTENDS JobRows

CONSTANTS
  Activities,
  Recurring,   \* the activities with a daily or weekly schedule
  Threads,     \* polling threads of the scheduled lane, over all processes
  Horizon      \* bound on the clock; every instant is an occurrence

ASSUME ScheduleAssumption ==
  /\ Recurring \subseteq Activities
  /\ Horizon \in Nat

\* Nobody holds a lock in this name.
NoOne == "nobody"
ASSUME ThreadsAssumption == NoOne \notin Threads

VARIABLES
  activity,  \* activity[a] is the object row
  job,       \* job[a][d] is the run job made for the occurrence of a at d
  lock,      \* lock[a] is the thread whose transaction holds the object's row
  thread,    \* thread[t] is what t holds between its transactions
  now,
  notified,  \* history: notifications committed for the occurrence of a at d
  edited     \* history: the activities PATCH /objects was used on

vars == <<activity, job, lock, thread, now, notified, edited>>

Times == 0 .. Horizon + 1
Idle == [phase |-> "idle"]
At(phase, a, d) == [phase |-> phase, activity |-> a, due |-> d]

ActivityRow ==
  [status : {"absent", "scheduled", "completed", "cancelled"},
   due : Times, deleted : BOOLEAN]
Alive(row) == row.status = "scheduled" /\ ~row.deleted

\* While it fires, a thread goes by the row it has read.
Busy == [phase : {"claimed", "raised"}, activity : Activities, due : Times]
        \union [phase : {"firing"}, activity : Activities, due : Times,
                seen : ActivityRow]

TypeOK ==
  /\ activity \in [Activities -> ActivityRow]
  /\ job \in [Activities -> [Times -> JobRow]]
  /\ lock \in [Activities -> Threads \union {NoOne}]
  /\ thread \in [Threads -> {Idle} \union Busy]
  /\ now \in 0 .. Horizon
  /\ notified \in [Activities -> [Times -> Nat]]
  /\ edited \subseteq Activities

Init ==
  /\ activity = [a \in Activities |->
                   [status |-> "absent", due |-> 0, deleted |-> FALSE]]
  /\ job = [a \in Activities |-> [d \in Times |-> NoRow]]
  /\ lock = [a \in Activities |-> NoOne]
  /\ thread = [t \in Threads |-> Idle]
  /\ now = 0
  /\ notified = [a \in Activities |-> [d \in Times |-> 0]]
  /\ edited = {}

Tick ==
  /\ now < Horizon
  /\ now' = now + 1
  /\ UNCHANGED <<activity, job, lock, thread, notified, edited>>

-----------------------------------------------------------------------------
(* Requests.                                                               *)

\* create_once and create_recurring: the object and its first run job commit
\* together.
Create(a, due) ==
  /\ activity[a].status = "absent"
  /\ due >= now /\ due <= Horizon
  /\ activity' = [activity EXCEPT ![a] =
                    [status |-> "scheduled", due |-> due, deleted |-> FALSE]]
  /\ job' = [job EXCEPT ![a][due] = Enqueued]
  /\ UNCHANGED <<lock, thread, now, notified, edited>>

CompletePendingRunJob(a) ==
  job' = [job EXCEPT ![a] =
            [d \in Times |-> IF @[d].status = "pending" THEN Done(@[d]) ELSE @[d]]]

\* Mutants of Cancel: the waiting run jobs are left alone; the object is not locked.
BugCancelLeavesJobs(a) ==
  /\ lock[a] = NoOne
  /\ Alive(activity[a])
  /\ activity' = [activity EXCEPT ![a].status = "cancelled"]
  /\ UNCHANGED <<job, lock, thread, now, notified, edited>>

BugCancelWithoutLock(a) ==
  /\ Alive(activity[a])
  /\ activity' = [activity EXCEPT ![a].status = "cancelled"]
  /\ CompletePendingRunJob(a)
  /\ UNCHANGED <<lock, thread, now, notified, edited>>

\* cancel: under the object's lock, together with its waiting run jobs.  A job
\* already claimed is left to its thread.
Cancel(a) ==
  /\ lock[a] = NoOne
  /\ Alive(activity[a])
  /\ activity' = [activity EXCEPT ![a].status = "cancelled"]
  /\ CompletePendingRunJob(a)
  /\ UNCHANGED <<lock, thread, now, notified, edited>>

\* delete_object writes the tombstone and knows nothing of run jobs.  It takes
\* no lock before its UPDATE, which waits for the one fire holds.
Delete(a) ==
  /\ lock[a] = NoOne
  /\ activity[a].status # "absent" /\ ~activity[a].deleted
  /\ activity' = [activity EXCEPT ![a].deleted = TRUE]
  /\ UNCHANGED <<job, lock, thread, now, notified, edited>>

\* PATCH /objects/{id} may move due_at; no run job follows it.  The new instant
\* is one no job was ever made for.
MoveDue(a, due) ==
  /\ lock[a] = NoOne
  /\ activity[a].status # "absent" /\ ~activity[a].deleted
  /\ due > now /\ job[a][due].status = "absent"
  /\ activity' = [activity EXCEPT ![a].due = due]
  /\ edited' = edited \union {a}
  /\ UNCHANGED <<job, lock, thread, now, notified>>

\* PATCH /objects/{id} may set any status, of a finished activity too.
SetStatus(a, status) ==
  /\ lock[a] = NoOne
  /\ activity[a].status # "absent" /\ ~activity[a].deleted
  /\ activity' = [activity EXCEPT ![a].status = status]
  /\ edited' = edited \union {a}
  /\ UNCHANGED <<job, lock, thread, now, notified>>

Request(a) ==
  \/ Cancel(a) \/ Delete(a)
  \/ \E due \in Times : Create(a, due) \/ MoveDue(a, due)
  \/ \E status \in {"scheduled", "completed", "cancelled"} : SetStatus(a, status)

-----------------------------------------------------------------------------
(* Threads.                                                                *)

\* Mutant of Claimable: a stale lock is never taken over.
BugClaimableNoTakeover(a, d) == d <= now /\ job[a][d].status = "pending"

\* A job is due at its occurrence, and some time after a failure.
Claimable(a, d) ==
  /\ d <= now
  /\ \/ job[a][d].status = "pending"
     \/ job[a][d].status = "running" /\ job[a][d].lease = "stale"
  /\ ~OutOfAttempts(job[a][d])

Claim(t, a, d) ==
  /\ thread[t] = Idle
  /\ Claimable(a, d)
  /\ job' = [job EXCEPT ![a][d] = Claimed(@)]
  /\ thread' = [thread EXCEPT ![t] = At("claimed", a, d)]
  /\ UNCHANGED <<activity, lock, now, notified, edited>>

LeaseExpires(a, d) ==
  /\ job[a][d].lease = "held"
  /\ job' = [job EXCEPT ![a][d].lease = "stale"]
  /\ UNCHANGED <<activity, lock, thread, now, notified, edited>>

Firing(t) == [phase |-> "firing", activity |-> thread[t].activity,
              due |-> thread[t].due, seen |-> activity[thread[t].activity]]

\* Mutant of LockActivity: the row is read without FOR UPDATE.
BugLockNothing(t) ==
  /\ thread[t].phase = "claimed"
  /\ lock[thread[t].activity] = NoOne
  /\ thread' = [thread EXCEPT ![t] = Firing(t)]
  /\ UNCHANGED <<activity, job, lock, now, notified, edited>>

\* fire begins with the object's lock and holds it to the end of the handler's
\* transaction.
LockActivity(t) ==
  /\ thread[t].phase = "claimed"
  /\ lock[thread[t].activity] = NoOne
  /\ lock' = [lock EXCEPT ![thread[t].activity] = t]
  /\ thread' = [thread EXCEPT ![t] = Firing(t)]
  /\ UNCHANGED <<activity, job, now, notified, edited>>

\* The transaction of t is over: it lets go of the lock.
Release(t) ==
  lock' = [a \in Activities |-> IF lock[a] = t THEN NoOne ELSE lock[a]]

\* Mutant of Due: the fence is not compared.
BugDueIgnoresFence(held) == Alive(held.seen)

\* The activity is still scheduled, and the job was made for the occurrence it is
\* waiting for.  A one-shot has no fence.
Due(held) ==
  /\ Alive(held.seen)
  /\ held.activity \in Recurring => held.seen.due = held.due

\* Mutant of Advanced: the chain ends with the first occurrence.
BugAdvancedWithoutSuccessor(a, d) == [job EXCEPT ![a][d] = Done(@)]

\* The run jobs after a notification: this one is done and a recurring activity
\* gets the next, for the first occurrence after now.
Advanced(a, d) ==
  IF a \in Recurring
  THEN [job EXCEPT ![a][d] = Done(@), ![a][now + 1] = Enqueued]
  ELSE [job EXCEPT ![a][d] = Done(@)]

\* Mutant of Fire: a one-shot stays scheduled.
BugFireKeepsScheduled(t) ==
  /\ thread[t].phase = "firing"
  /\ LET a == thread[t].activity IN
       /\ Due(thread[t])
       /\ notified' = [notified EXCEPT ![a][thread[t].seen.due] = @ + 1]
       /\ activity' = [activity EXCEPT ![a].due = IF a \in Recurring THEN now + 1 ELSE @]
       /\ job' = Advanced(a, thread[t].due)
  /\ Release(t)
  /\ thread' = [thread EXCEPT ![t] = Idle]
  /\ UNCHANGED <<now, edited>>

\* The notification, the activity's next state, its next job and the end of this
\* one commit together.
Fire(t) ==
  /\ thread[t].phase = "firing"
  /\ LET a == thread[t].activity IN
       /\ Due(thread[t])
       /\ notified' = [notified EXCEPT ![a][thread[t].seen.due] = @ + 1]
       /\ activity' = [activity EXCEPT ![a] =
            IF a \in Recurring THEN [@ EXCEPT !.due = now + 1]
            ELSE [@ EXCEPT !.status = "completed"]]
       /\ job' = Advanced(a, thread[t].due)
  /\ Release(t)
  /\ thread' = [thread EXCEPT ![t] = Idle]
  /\ UNCHANGED <<now, edited>>

\* Nothing to do for this job: it is done without effect.
Skip(t) ==
  /\ thread[t].phase = "firing"
  /\ ~Due(thread[t])
  /\ job' = [job EXCEPT ![thread[t].activity][thread[t].due] = Done(@)]
  /\ Release(t)
  /\ thread' = [thread EXCEPT ![t] = Idle]
  /\ UNCHANGED <<activity, now, notified, edited>>

\* The handler's transaction fails and is rolled back.
HandlerRaises(t) ==
  /\ thread[t].phase = "firing"
  /\ Release(t)
  /\ thread' = [thread EXCEPT ![t] = At("raised", @.activity, @.due)]
  /\ UNCHANGED <<activity, job, now, notified, edited>>

\* mark_retry, whatever has become of the row meanwhile.
RecordFailure(t) ==
  /\ thread[t].phase = "raised"
  /\ LET a == thread[t].activity
         d == thread[t].due
     IN  job' = [job EXCEPT ![a][d] = AfterFailure("ordinary", "retryable", @)]
  /\ thread' = [thread EXCEPT ![t] = Idle]
  /\ UNCHANGED <<activity, lock, now, notified, edited>>

\* The process dies: the database drops its transaction and its lock.
Die(t) ==
  /\ thread[t] # Idle
  /\ Release(t)
  /\ thread' = [thread EXCEPT ![t] = Idle]
  /\ UNCHANGED <<activity, job, now, notified, edited>>

ThreadStep(t) ==
  \/ \E a \in Activities, d \in Times : Claim(t, a, d)
  \/ LockActivity(t) \/ Fire(t) \/ Skip(t) \/ HandlerRaises(t) \/ RecordFailure(t)

Next ==
  \/ Tick
  \/ \E a \in Activities : Request(a)
  \/ \E a \in Activities, d \in Times : LeaseExpires(a, d)
  \/ \E t \in Threads : ThreadStep(t) \/ Die(t)

\* A row whose last claim was lost stays at the head of the lane (see JobQueue).
LaneJammed ==
  \E a \in Activities, d \in Times :
    job[a][d].lease = "stale" /\ OutOfAttempts(job[a][d])

\* Threads finish what they hold, a lock that is not refreshed goes stale, and the
\* threads together reach every job that stays due, unless the lane is jammed.
Fairness ==
  /\ \A t \in Threads : WF_vars(LockActivity(t) \/ Fire(t) \/ Skip(t))
  /\ \A t \in Threads : WF_vars(RecordFailure(t))
  /\ \A a \in Activities, d \in Times :
       /\ WF_vars(LeaseExpires(a, d))
       /\ SF_vars(~LaneJammed /\ \E t \in Threads : Claim(t, a, d))

Spec == Init /\ [][Next]_vars
FairSpec == Spec /\ Fairness

-----------------------------------------------------------------------------
(* Safety.                                                                 *)

\* Nobody gets the same reminder twice: not from two threads on one job, a job
\* retried after its occurrence was fired, or a claim repeated after a crash.
OncePerOccurrence ==
  \A a \in Activities \ edited, d \in Times : notified[a][d] <= 1

\* Once an activity is cancelled, deleted or completed, no thread notifies for it,
\* however far it had got.
NothingAfterEnd ==
  [][\A a \in Activities, d \in Times :
       ~Alive(activity[a]) => notified'[a][d] = notified[a][d]]_vars

\* The chain never breaks silently: an activity still scheduled has a run job
\* for the occurrence it waits for, unfinished or visibly failed.
ScheduledHasItsJob ==
  \A a \in Activities \ edited :
    Alive(activity[a]) =>
      job[a][activity[a].due].status \in {"pending", "running", "failed"}

\* The chain never forks, and a cancelled activity leaves nothing in the queue:
\* a job waiting for a later instant is the one its activity waits for.
FutureJobIsNext ==
  \A a \in Activities \ edited, d \in Times :
    d > now /\ job[a][d].status = "pending" =>
      activity[a].status = "scheduled" /\ activity[a].due = d

-----------------------------------------------------------------------------
(* Liveness.                                                               *)

\* An occurrence that comes is notified, unless its activity ends or is edited
\* first, its job fails for good or the lane is jammed.
OccurrenceIsNotified ==
  \A a \in Activities, d \in Times :
    Alive(activity[a]) /\ activity[a].due = d /\ d <= now
      ~> \/ notified[a][d] > 0
         \/ ~Alive(activity[a]) \/ a \in edited
         \/ job[a][d].status = "failed"
         \/ LaneJammed
=============================================================================
