----------------------- MODULE ScheduledActivityProofs -----------------------
(***************************************************************************)
(* Proofs about ScheduledActivity, for any activities, threads, horizon    *)
(* and attempts.                                                           *)
(***************************************************************************)
EXTENDS ScheduledActivity, TLAPS

\* What a busy thread may rely on.  The activity exists, the occurrence has come,
\* and a thread that fires holds the lock and has read what is still there.
ThreadHolds(t) ==
  LET a == thread[t].activity IN
    /\ activity[a].status # "absent"
    /\ thread[t].due <= now
    /\ a \notin Recurring \union edited => thread[t].due = activity[a].due
    /\ thread[t].phase = "firing" => lock[a] = t /\ thread[t].seen = activity[a]
ThreadsInv == \A t \in Threads : thread[t] # Idle => ThreadHolds(t)

\* A run job has an activity, and a one-shot has no job but the first.
JobsInv ==
  \A a \in Activities, d \in Times :
    job[a][d].status # "absent" =>
      /\ activity[a].status # "absent"
      /\ a \notin Recurring \union edited => d = activity[a].due

\* What a notification leaves behind: the occurrence is past, or the one-shot is
\* completed.
Past(a, d) ==
  /\ activity[a].status # "absent"
  /\ a \in Recurring => d < activity[a].due
  /\ a \notin Recurring => activity[a].status = "completed"
NotesInv ==
  \A a \in Activities \ edited, d \in Times :
    notified[a][d] <= 1 /\ (notified[a][d] > 0 => Past(a, d))

Inv ==
  /\ TypeOK
  /\ ThreadsInv
  /\ JobsInv
  /\ NotesInv
  /\ ScheduledHasItsJob
  /\ FutureJobIsNext

-----------------------------------------------------------------------------
(* Types.                                                                  *)

\* The transitions of a run job's row keep its type and its existence.
LEMMA RowTypes ==
  ASSUME NEW row \in JobRow
  PROVE  /\ NoRow \in JobRow /\ NoRow.status = "absent"
         /\ Enqueued \in JobRow /\ Enqueued.status = "pending"
         /\ Claimed(row) \in JobRow /\ Claimed(row).status = "running"
         /\ Done(row) \in JobRow /\ Done(row).status = "done"
         /\ AfterFailure("ordinary", "retryable", row) \in JobRow
         /\ AfterFailure("ordinary", "retryable", row).status \in {"pending", "failed"}
<1>1. Failed(row) \in JobRow /\ Failed(row).status = "failed"
  BY DEF JobRow, Failed, Row, Statuses
<1>2. /\ Requeued(row, row.attempts) \in JobRow
      /\ Requeued(row, row.attempts).status = "pending"
  BY DEF JobRow, Requeued, Row, Statuses
<1>3. AfterFailure("ordinary", "retryable", row)
        = IF row.attempts >= MaxAttempts THEN Failed(row)
          ELSE Requeued(row, row.attempts)
  BY DEF AfterFailure, Retried, SourceKinds
<1>4. /\ AfterFailure("ordinary", "retryable", row) \in JobRow
      /\ AfterFailure("ordinary", "retryable", row).status \in {"pending", "failed"}
  BY <1>1, <1>2, <1>3
<1>5. /\ NoRow \in JobRow /\ NoRow.status = "absent"
      /\ Enqueued \in JobRow /\ Enqueued.status = "pending"
      /\ Claimed(row) \in JobRow /\ Claimed(row).status = "running"
      /\ Done(row) \in JobRow /\ Done(row).status = "done"
  BY DEF JobRow, NoRow, Enqueued, Claimed, Done, Row, Statuses
<1> QED  BY <1>4, <1>5

LEMMA LeaseTypes ==
  ASSUME NEW row \in JobRow, NEW next, next = [row EXCEPT !.lease = "stale"]
  PROVE  next \in JobRow /\ next.status = row.status
BY DEF JobRow

\* A step that writes one run job leaves the others as they are.
OneJob(a, d, row) ==
  /\ job'[a][d] = row
  /\ \A b \in Activities, e \in Times : b # a \/ e # d => job'[b][e] = job[b][e]

LEMMA WriteJob ==
  ASSUME TypeOK, NEW a \in Activities, NEW d \in Times, NEW row \in JobRow,
         job' = [job EXCEPT ![a][d] = row]
  PROVE  /\ job' \in [Activities -> [Times -> JobRow]]
         /\ OneJob(a, d, row)
BY DEF TypeOK, OneJob

\* What a busy thread holds.
LEMMA ThreadTypes ==
  ASSUME TypeOK, NEW t \in Threads, thread[t] # Idle
  PROVE  /\ thread[t].activity \in Activities
         /\ thread[t].due \in Times
         /\ thread[t].phase = "firing" => thread[t].seen \in ActivityRow
BY DEF TypeOK, Busy, Idle

\* A phase tells that a thread is busy.
LEMMA IdlePhase ==
  ASSUME NEW t \in Threads, thread[t].phase \in {"claimed", "firing", "raised"}
  PROVE  thread[t] # Idle
BY DEF Idle

LEMMA ReleaseType ==
  ASSUME TypeOK, NEW t \in Threads, Release(t)
  PROVE  lock' \in [Activities -> Threads \union {NoOne}]
BY DEF TypeOK, Release

LEMMA ThreadStepTypes ==
  ASSUME TypeOK, NEW t \in Threads, ThreadStep(t) \/ Die(t)
  PROVE  TypeOK'
<1> USE ScheduleAssumption
<1>1. ASSUME NEW a \in Activities, NEW d \in Times, Claim(t, a, d)
      PROVE  TypeOK'
  <2>1. job' = [job EXCEPT ![a][d] = Claimed(job[a][d])]
    BY <1>1 DEF Claim
  <2>2. Claimed(job[a][d]) \in JobRow
    BY RowTypes DEF TypeOK
  <2>3. At("claimed", a, d) \in Busy
    BY DEF At, Busy
  <2> QED  BY <1>1, <2>1, <2>2, <2>3, WriteJob DEF Claim, TypeOK
<1>2. CASE LockActivity(t)
  <2>1. Firing(t) \in Busy
    BY <1>2, ThreadTypes, IdlePhase DEF LockActivity, Firing, Busy, TypeOK
  <2>2. thread[t].activity \in Activities
    BY <1>2, ThreadTypes, IdlePhase DEF LockActivity
  <2> QED  BY <1>2, <2>1, <2>2 DEF LockActivity, TypeOK
<1>3. CASE Fire(t)
  <2> DEFINE a == thread[t].activity
             d == thread[t].due
  <2>1. a \in Activities /\ d \in Times /\ thread[t].seen \in ActivityRow
    BY <1>3, ThreadTypes, IdlePhase DEF Fire
  <2>2. now + 1 \in Times /\ thread[t].seen.due \in Times
    BY <2>1 DEF TypeOK, Times, ActivityRow
  <2>3. job[a][d] \in JobRow
    BY <2>1 DEF TypeOK
  <2>7. Done(job[a][d]) \in JobRow /\ Enqueued \in JobRow
    BY <2>3, RowTypes
  <2>4. job' \in [Activities -> [Times -> JobRow]]
    BY <1>3, <2>1, <2>2, <2>7 DEF Fire, Advanced, TypeOK
  <2>5. notified' \in [Activities -> [Times -> Nat]]
    BY <1>3, <2>1, <2>2 DEF Fire, TypeOK
  <2>6. activity' \in [Activities -> ActivityRow]
    BY <1>3, <2>1, <2>2 DEF Fire, TypeOK, ActivityRow
  <2> QED  BY <1>3, <2>4, <2>5, <2>6, ReleaseType DEF Fire, TypeOK
<1>4. CASE Skip(t)
  <2> DEFINE a == thread[t].activity
             d == thread[t].due
  <2>1. a \in Activities /\ d \in Times
    BY <1>4, ThreadTypes, IdlePhase DEF Skip
  <2>2. Done(job[a][d]) \in JobRow
    BY <2>1, RowTypes DEF TypeOK
  <2> QED  BY <1>4, <2>1, <2>2, ReleaseType DEF Skip, TypeOK
<1>5. CASE HandlerRaises(t)
  <2>1. At("raised", thread[t].activity, thread[t].due) \in Busy
    BY <1>5, ThreadTypes, IdlePhase DEF HandlerRaises, At, Busy
  <2> QED  BY <1>5, <2>1, ReleaseType DEF HandlerRaises, TypeOK
<1>6. CASE RecordFailure(t)
  <2> DEFINE a == thread[t].activity
             d == thread[t].due
  <2>1. a \in Activities /\ d \in Times
    BY <1>6, ThreadTypes, IdlePhase DEF RecordFailure
  <2>2. AfterFailure("ordinary", "retryable", job[a][d]) \in JobRow
    BY <2>1, RowTypes DEF TypeOK
  <2> QED  BY <1>6, <2>1, <2>2 DEF RecordFailure, TypeOK
<1>7. CASE Die(t)
  BY <1>7, ReleaseType DEF Die, TypeOK
<1> QED  BY <1>1, <1>2, <1>3, <1>4, <1>5, <1>6, <1>7 DEF ThreadStep

LEMMA RequestTypes ==
  ASSUME TypeOK, NEW a \in Activities, Request(a)
  PROVE  TypeOK'
<1>1. CASE Cancel(a)
  <2>1. \A d \in Times : job[a][d] \in JobRow /\ Done(job[a][d]) \in JobRow
    BY RowTypes DEF TypeOK
  <2> QED  BY <1>1, <2>1 DEF Cancel, CompletePendingRunJob, TypeOK, ActivityRow
<1>2. CASE Delete(a)
  BY <1>2 DEF Delete, TypeOK, ActivityRow
<1>3. ASSUME NEW due \in Times, Create(a, due)
      PROVE  TypeOK'
  <2>1. Enqueued \in JobRow
    BY DEF Enqueued, Row, JobRow, Statuses
  <2> QED  BY <1>3, <2>1 DEF Create, TypeOK, ActivityRow
<1>5. ASSUME NEW due \in Times, MoveDue(a, due)
      PROVE  TypeOK'
  BY <1>5 DEF MoveDue, TypeOK, ActivityRow
<1>4. ASSUME NEW status \in {"scheduled", "completed", "cancelled"}, SetStatus(a, status)
      PROVE  TypeOK'
  BY <1>4 DEF SetStatus, TypeOK, ActivityRow
<1> QED  BY <1>1, <1>2, <1>3, <1>4, <1>5 DEF Request

LEMMA TypesStep ==
  ASSUME TypeOK, [Next]_vars
  PROVE  TypeOK'
<1>1. CASE Tick
  BY <1>1, ScheduleAssumption DEF Tick, TypeOK
<1>2. ASSUME NEW a \in Activities, NEW d \in Times, LeaseExpires(a, d)
      PROVE  TypeOK'
  <2> DEFINE next == [job[a][d] EXCEPT !.lease = "stale"]
  <2>1. next \in JobRow
    BY LeaseTypes DEF TypeOK
  <2>2. job' = [job EXCEPT ![a][d] = next]
    BY <1>2 DEF LeaseExpires
  <2> HIDE DEF next
  <2> QED  BY <1>2, <2>1, <2>2, WriteJob DEF LeaseExpires, TypeOK
<1>3. CASE UNCHANGED vars
  BY <1>3 DEF vars, TypeOK
<1> QED  BY <1>1, <1>2, <1>3, RequestTypes, ThreadStepTypes DEF Next

-----------------------------------------------------------------------------
(* The parts of the invariant, action by action.                           *)

\* A thread that fires keeps others from the lock.
LEMMA LockedOut ==
  ASSUME Inv, NEW a \in Activities, lock[a] = NoOne, NEW t \in Threads,
         thread[t].phase = "firing"
  PROVE  thread[t].activity # a
BY IdlePhase, ThreadsAssumption DEF Inv, ThreadsInv, ThreadHolds

\* Letting go of t's locks and leaving t idle disturbs no other thread.
LEMMA LetGo ==
  ASSUME Inv, NEW t \in Threads, Release(t),
         thread' = [thread EXCEPT ![t] = Idle], UNCHANGED <<activity, now, edited>>
  PROVE  ThreadsInv'
<1> SUFFICES ASSUME NEW u \in Threads, thread'[u] # Idle
             PROVE  ThreadHolds(u)'
  BY DEF ThreadsInv
<1>1. u # t /\ thread'[u] = thread[u]
  BY DEF Inv, TypeOK
<1>2. ThreadHolds(u) /\ thread[u].activity \in Activities
  BY <1>1, ThreadTypes DEF Inv, ThreadsInv
<1>3. thread[u].phase = "firing" => lock'[thread[u].activity] = u
  BY <1>1, <1>2 DEF Release, ThreadHolds
<1> QED  BY <1>1, <1>2, <1>3 DEF ThreadHolds

LEMMA ClockTypes ==
  ASSUME TypeOK
  PROVE  /\ now \in Nat /\ now + 1 \in Times
         /\ \A d \in Times : d \in Nat
BY ScheduleAssumption DEF TypeOK, Times

\* A step that leaves activities, notifications and the status of every run job
\* alone keeps what is said of them.
LEMMA SameRows ==
  ASSUME Inv, UNCHANGED <<activity, notified, edited>>, now' \in Nat, now <= now',
         \A a \in Activities, d \in Times : job'[a][d].status = job[a][d].status
  PROVE  JobsInv' /\ NotesInv' /\ ScheduledHasItsJob' /\ FutureJobIsNext'
<1>1. \A a \in Activities : activity[a].due \in Times
  BY DEF Inv, TypeOK, ActivityRow
<1>2. now \in Nat /\ \A d \in Times : d \in Nat
  BY ClockTypes DEF Inv
<1>3. JobsInv' /\ NotesInv'
  BY DEF Inv, JobsInv, NotesInv, Past
<1>4. ScheduledHasItsJob'
  BY <1>1 DEF Inv, ScheduledHasItsJob, Alive
<1>5. FutureJobIsNext'
  BY <1>2 DEF Inv, FutureJobIsNext
<1> QED  BY <1>3, <1>4, <1>5

LEMMA TimeStep ==
  ASSUME Inv, TypeOK',
         Tick \/ \E a \in Activities, d \in Times : LeaseExpires(a, d)
  PROVE  Inv'
<1> edited' = edited
  BY DEF Tick, LeaseExpires
<1>1. now \in Nat /\ now' \in Nat /\ \A t \in Threads : thread[t] # Idle => thread[t].due \in Nat
  BY ScheduleAssumption, ThreadTypes DEF Inv, TypeOK, Times
<1>2. CASE Tick
  <2>1. ThreadsInv'
    BY <1>1, <1>2 DEF Tick, Inv, ThreadsInv, ThreadHolds
  <2> QED  BY <1>1, <1>2, <2>1, SameRows DEF Tick, Inv
<1>3. ASSUME NEW a \in Activities, NEW d \in Times, LeaseExpires(a, d)
      PROVE  Inv'
  <2> DEFINE next == [job[a][d] EXCEPT !.lease = "stale"]
  <2>1. next \in JobRow /\ next.status = job[a][d].status
    BY LeaseTypes DEF Inv, TypeOK
  <2>2. job' = [job EXCEPT ![a][d] = next]
    BY <1>3 DEF LeaseExpires
  <2> HIDE DEF next
  <2>3. OneJob(a, d, next)
    BY <2>1, <2>2, WriteJob DEF Inv
  <2>4. \A b \in Activities, e \in Times : job'[b][e].status = job[b][e].status
    BY <2>1, <2>3 DEF OneJob
  <2>5. ThreadsInv'
    BY <1>3 DEF LeaseExpires, Inv, ThreadsInv, ThreadHolds
  <2> QED  BY <1>1, <1>3, <2>4, <2>5, SameRows DEF LeaseExpires, Inv
<1> QED  BY <1>2, <1>3

LEMMA CreateStep ==
  ASSUME Inv, TypeOK', NEW a \in Activities, NEW due \in Times, Create(a, due)
  PROVE  Inv'
<1> edited' = edited
  BY DEF Create
<1>1. OneJob(a, due, Enqueued) /\ Enqueued.status = "pending"
  <2>1. Enqueued \in JobRow /\ Enqueued.status = "pending"
    BY DEF Enqueued, Row, JobRow, Statuses
  <2> QED  BY <2>1, WriteJob DEF Create, Inv
<1>2. /\ activity'[a].status = "scheduled" /\ activity'[a].due = due
      /\ \A b \in Activities : b # a => activity'[b] = activity[b]
  BY DEF Create, Inv, TypeOK
<1>3. \A d \in Times : d # due => job'[a][d].status = "absent"
  BY <1>1 DEF OneJob, Inv, JobsInv, Create
<1>4. ThreadsInv'
  BY <1>2, ThreadTypes DEF Create, Inv, ThreadsInv, ThreadHolds
<1>5. JobsInv'
  BY <1>1, <1>2, <1>3 DEF OneJob, Inv, JobsInv
<1>6. NotesInv'
  BY <1>2 DEF Create, Inv, NotesInv, Past
<1>7. ScheduledHasItsJob'
  <2>1. \A b \in Activities : activity[b].due \in Times
    BY DEF Inv, TypeOK, ActivityRow
  <2>2. \A b \in Activities : b # a =>
          job'[b][activity[b].due] = job[b][activity[b].due]
    BY <1>1, <2>1 DEF OneJob
  <2> QED  BY <1>1, <1>2, <2>2 DEF OneJob, Inv, ScheduledHasItsJob, Alive
<1>8. FutureJobIsNext'
  BY <1>1, <1>2, <1>3 DEF Create, OneJob, Inv, FutureJobIsNext
<1> QED  BY <1>4, <1>5, <1>6, <1>7, <1>8 DEF Inv

LEMMA CancelStep ==
  ASSUME Inv, TypeOK', NEW a \in Activities, Cancel(a)
  PROVE  Inv'
<1> edited' = edited
  BY DEF Cancel
<1>1. /\ activity'[a].status = "cancelled" /\ activity'[a].due = activity[a].due
      /\ \A b \in Activities : b # a => activity'[b] = activity[b]
  BY DEF Cancel, Inv, TypeOK, ActivityRow
<1>2. \A d \in Times : /\ job'[a][d].status # "pending"
                       /\ job'[a][d].status # "absent" => job[a][d].status # "absent"
  BY DEF Cancel, CompletePendingRunJob, Done, Row, Inv, TypeOK
<1>3. \A b \in Activities : b # a => job'[b] = job[b]
  BY DEF Cancel, CompletePendingRunJob, Inv, TypeOK
<1>4. ThreadsInv'
  BY <1>1, LockedOut, ThreadTypes, IdlePhase
     DEF Cancel, Alive, Inv, ThreadsInv, ThreadHolds
<1>5. JobsInv'
  BY <1>1, <1>2, <1>3 DEF Inv, JobsInv, Cancel, Alive
<1>6. NotesInv'
  BY <1>1 DEF Cancel, Alive, Inv, NotesInv, Past
<1>7. ScheduledHasItsJob'
  BY <1>1, <1>3 DEF Inv, ScheduledHasItsJob, Alive
<1>8. FutureJobIsNext'
  BY <1>1, <1>2, <1>3 DEF Cancel, Inv, FutureJobIsNext
<1> QED  BY <1>4, <1>5, <1>6, <1>7, <1>8 DEF Inv

LEMMA DeleteStep ==
  ASSUME Inv, TypeOK', NEW a \in Activities, Delete(a)
  PROVE  Inv'
<1> edited' = edited
  BY DEF Delete
<1>1. /\ \A b \in Activities : /\ activity'[b].status = activity[b].status
                               /\ activity'[b].due = activity[b].due
                               /\ activity'[b].deleted \/ ~activity[b].deleted
      /\ \A b \in Activities : b # a => activity'[b] = activity[b]
  BY DEF Delete, Inv, TypeOK, ActivityRow
<1>2. ThreadsInv'
  BY <1>1, LockedOut, ThreadTypes, IdlePhase DEF Delete, Inv, ThreadsInv, ThreadHolds
<1>3. JobsInv' /\ NotesInv' /\ FutureJobIsNext'
  BY <1>1 DEF Delete, Inv, JobsInv, NotesInv, Past, FutureJobIsNext
<1>4. ScheduledHasItsJob'
  BY <1>1 DEF Delete, Inv, ScheduledHasItsJob, Alive
<1> QED  BY <1>2, <1>3, <1>4 DEF Inv

LEMMA EditStep ==
  ASSUME Inv, TypeOK', NEW a \in Activities,
         \/ \E due \in Times : MoveDue(a, due)
         \/ \E status \in {"scheduled", "completed", "cancelled"} : SetStatus(a, status)
  PROVE  Inv'
<1>1. /\ edited' = edited \union {a} /\ lock[a] = NoOne /\ activity'[a].status # "absent"
      /\ \A b \in Activities : b # a => activity'[b] = activity[b]
      /\ UNCHANGED <<job, lock, thread, now, notified>>
  BY DEF MoveDue, SetStatus, Inv, TypeOK, ActivityRow
<1>2. ThreadsInv'
  BY <1>1, LockedOut, ThreadTypes, IdlePhase DEF Inv, ThreadsInv, ThreadHolds
<1>3. JobsInv' /\ NotesInv' /\ FutureJobIsNext'
  BY <1>1 DEF Inv, JobsInv, NotesInv, Past, FutureJobIsNext
<1>4. ScheduledHasItsJob'
  BY <1>1 DEF Inv, ScheduledHasItsJob, Alive
<1> QED  BY <1>2, <1>3, <1>4 DEF Inv

LEMMA ClaimStep ==
  ASSUME Inv, TypeOK', NEW t \in Threads, NEW a \in Activities, NEW d \in Times,
         Claim(t, a, d)
  PROVE  Inv'
<1> edited' = edited
  BY DEF Claim
<1>1. /\ OneJob(a, d, Claimed(job[a][d])) /\ Claimed(job[a][d]).status = "running"
      /\ job[a][d].status \in {"pending", "running"} /\ d <= now
  <2>1. job[a][d] \in JobRow
    BY DEF Inv, TypeOK
  <2>2. Claimed(job[a][d]) \in JobRow /\ Claimed(job[a][d]).status = "running"
    BY <2>1, RowTypes
  <2>3. job' = [job EXCEPT ![a][d] = Claimed(job[a][d])]
    BY DEF Claim
  <2> QED  BY <2>2, <2>3, WriteJob DEF Claim, Claimable, Inv
<1>2. thread[t] = Idle /\ thread' = [thread EXCEPT ![t] = At("claimed", a, d)]
  BY DEF Claim
<1>3. ThreadsInv'
  <2> SUFFICES ASSUME NEW u \in Threads, thread'[u] # Idle
               PROVE  ThreadHolds(u)'
    BY DEF ThreadsInv
  <2>1. CASE u = t
    <3>1. thread'[u] = At("claimed", a, d)
      BY <1>2, <2>1 DEF Inv, TypeOK
    <3> QED  BY <1>1, <3>1 DEF Claim, At, ThreadHolds, Inv, JobsInv
  <2>2. CASE u # t
    <3>1. thread'[u] = thread[u]
      BY <1>2, <2>2 DEF Inv, TypeOK
    <3> QED  BY <3>1 DEF Claim, Inv, ThreadsInv, ThreadHolds
  <2> QED  BY <2>1, <2>2
<1>4. JobsInv' /\ NotesInv'
  BY <1>1 DEF Claim, OneJob, Inv, JobsInv, NotesInv, Past
<1>5. ScheduledHasItsJob'
  BY <1>1 DEF Claim, OneJob, Inv, TypeOK, ActivityRow, ScheduledHasItsJob, Alive
<1>6. FutureJobIsNext'
  BY <1>1 DEF Claim, OneJob, Inv, FutureJobIsNext
<1> QED  BY <1>3, <1>4, <1>5, <1>6 DEF Inv

LEMMA LockStep ==
  ASSUME Inv, TypeOK', NEW t \in Threads, LockActivity(t)
  PROVE  Inv'
<1> edited' = edited
  BY DEF LockActivity
<1> DEFINE a == thread[t].activity
<1>1. thread[t] # Idle /\ ThreadHolds(t) /\ a \in Activities
  BY IdlePhase, ThreadTypes DEF LockActivity, Inv, ThreadsInv
<1>2. ThreadsInv'
  <2> SUFFICES ASSUME NEW u \in Threads, thread'[u] # Idle
               PROVE  ThreadHolds(u)'
    BY DEF ThreadsInv
  <2>1. CASE u = t
    <3>1. thread'[u] = Firing(t) /\ lock'[a] = t
      BY <1>1, <2>1 DEF LockActivity, Inv, TypeOK
    <3> QED  BY <1>1, <2>1, <3>1 DEF LockActivity, Firing, ThreadHolds
  <2>2. CASE u # t
    <3>1. thread'[u] = thread[u]
      BY <2>2 DEF LockActivity, Inv, TypeOK
    <3>2. thread[u].phase = "firing" => thread[u].activity # a
      BY <1>1, LockedOut DEF LockActivity
    <3> QED  BY <3>1, <3>2, ThreadTypes
             DEF LockActivity, Inv, TypeOK, ThreadsInv, ThreadHolds
  <2> QED  BY <2>1, <2>2
<1>3. JobsInv' /\ NotesInv' /\ ScheduledHasItsJob' /\ FutureJobIsNext'
  BY DEF LockActivity, Inv, JobsInv, NotesInv, Past, ScheduledHasItsJob, Alive,
         FutureJobIsNext
<1> QED  BY <1>2, <1>3 DEF Inv

\* What a thread that fires has before it.
LEMMA FireFacts ==
  ASSUME Inv, NEW t \in Threads, thread[t].phase = "firing"
  PROVE  /\ thread[t].activity \in Activities /\ thread[t].due \in Times
         /\ thread[t].seen = activity[thread[t].activity]
         /\ ThreadHolds(t)
         /\ thread[t].due <= now
BY IdlePhase, ThreadTypes DEF Inv, ThreadsInv, ThreadHolds

LEMMA SkipStep ==
  ASSUME Inv, TypeOK', NEW t \in Threads, Skip(t)
  PROVE  Inv'
<1> edited' = edited
  BY DEF Skip
<1> DEFINE a == thread[t].activity
           d == thread[t].due
<1>1. /\ a \in Activities /\ d \in Times /\ ThreadHolds(t) /\ d <= now
      /\ thread[t].seen = activity[a]
  BY FireFacts DEF Skip
<1>2. OneJob(a, d, Done(job[a][d])) /\ Done(job[a][d]).status = "done"
  <2>1. job[a][d] \in JobRow
    BY <1>1 DEF Inv, TypeOK
  <2>2. Done(job[a][d]) \in JobRow /\ Done(job[a][d]).status = "done"
    BY <2>1, RowTypes
  <2>3. job' = [job EXCEPT ![a][d] = Done(job[a][d])]
    BY DEF Skip
  <2> QED  BY <1>1, <2>2, <2>3, WriteJob DEF Inv
<1>3. ThreadsInv'
  BY LetGo DEF Skip
<1>4. JobsInv' /\ NotesInv'
  BY <1>1, <1>2 DEF Skip, OneJob, ThreadHolds, Inv, JobsInv, NotesInv, Past
<1>5. a \notin edited => ~Alive(activity[a]) \/ activity[a].due # d
  BY <1>1 DEF Skip, Due, ThreadHolds
<1>6. ScheduledHasItsJob'
  BY <1>1, <1>2, <1>5 DEF Skip, OneJob, Inv, TypeOK, ActivityRow, ScheduledHasItsJob
<1>7. FutureJobIsNext'
  BY <1>1, <1>2 DEF Skip, OneJob, Inv, FutureJobIsNext
<1> QED  BY <1>3, <1>4, <1>6, <1>7 DEF Inv

LEMMA FailureStep ==
  ASSUME Inv, TypeOK', NEW t \in Threads, RecordFailure(t)
  PROVE  Inv'
<1> edited' = edited
  BY DEF RecordFailure
<1> DEFINE a   == thread[t].activity
           d   == thread[t].due
           row == AfterFailure("ordinary", "retryable", job[a][d])
<1>1. /\ thread[t] # Idle /\ ThreadHolds(t) /\ a \in Activities /\ d \in Times
      /\ d <= now
  BY IdlePhase, ThreadTypes DEF RecordFailure, Inv, ThreadsInv, ThreadHolds
<1>2. OneJob(a, d, row) /\ row.status \in {"pending", "failed"}
  <2>1. job[a][d] \in JobRow
    BY <1>1 DEF Inv, TypeOK
  <2>2. row \in JobRow /\ row.status \in {"pending", "failed"}
    BY <2>1, RowTypes
  <2>3. job' = [job EXCEPT ![a][d] = row]
    BY DEF RecordFailure
  <2> HIDE DEF row
  <2> QED  BY <1>1, <2>2, <2>3, WriteJob DEF Inv
<1> HIDE DEF row
<1>3. ThreadsInv'
  <2> SUFFICES ASSUME NEW u \in Threads, thread'[u] # Idle
               PROVE  ThreadHolds(u)'
    BY DEF ThreadsInv
  <2>1. u # t /\ thread'[u] = thread[u]
    BY DEF RecordFailure, Inv, TypeOK
  <2> QED  BY <2>1 DEF RecordFailure, Inv, ThreadsInv, ThreadHolds
<1>4. JobsInv' /\ NotesInv'
  BY <1>1, <1>2 DEF RecordFailure, OneJob, ThreadHolds, Inv, JobsInv, NotesInv, Past
<1>5. ScheduledHasItsJob'
  BY <1>1, <1>2 DEF RecordFailure, OneJob, Inv, TypeOK, ActivityRow, ScheduledHasItsJob,
                    Alive
<1>6. FutureJobIsNext'
  <2>1. \A e \in Times : e > now => e # d
    BY <1>1, ClockTypes DEF Inv
  <2> QED  BY <1>1, <1>2, <2>1 DEF RecordFailure, OneJob, Inv, FutureJobIsNext
<1> QED  BY <1>3, <1>4, <1>5, <1>6 DEF Inv

\* The run jobs after a notification.
LEMMA AdvancedJobs ==
  ASSUME TypeOK, NEW a \in Activities, NEW d \in Times, d <= now,
         job' = Advanced(a, d)
  PROVE  /\ job'[a][d].status = "done"
         /\ a \in Recurring => job'[a][now + 1].status = "pending"
         /\ \A b \in Activities, e \in Times :
              b # a \/ (e # d /\ (a \in Recurring => e # now + 1))
                => job'[b][e] = job[b][e]
<1>1. now \in Nat /\ d \in Nat /\ now + 1 \in Times /\ now + 1 # d
  BY ClockTypes
<1>2. job[a][d] \in JobRow
  BY DEF TypeOK
<1>3. Done(job[a][d]).status = "done" /\ Enqueued.status = "pending"
  BY <1>2, RowTypes
<1>4. CASE a \in Recurring
  <2>1. job' = [job EXCEPT ![a][d] = Done(job[a][d]), ![a][now + 1] = Enqueued]
    BY <1>4, <1>1 DEF Advanced
  <2> QED  BY <1>1, <1>3, <1>4, <2>1 DEF TypeOK
<1>5. CASE a \notin Recurring
  <2>1. job' = [job EXCEPT ![a][d] = Done(job[a][d])]
    BY <1>5 DEF Advanced
  <2> QED  BY <1>3, <1>5, <2>1 DEF TypeOK
<1> QED  BY <1>4, <1>5

LEMMA FireStep ==
  ASSUME Inv, TypeOK', NEW t \in Threads, Fire(t)
  PROVE  Inv'
<1> edited' = edited
  BY DEF Fire
<1> DEFINE a == thread[t].activity
           d == thread[t].due
<1>1. /\ a \in Activities /\ d \in Times /\ ThreadHolds(t) /\ d <= now
      /\ thread[t].seen = activity[a] /\ Alive(activity[a])
      /\ a \in Recurring => activity[a].due = d
      /\ a \notin edited => activity[a].due = d
  BY FireFacts DEF Fire, Due, ThreadHolds
<1>2. /\ now \in Nat /\ now + 1 \in Times /\ activity[a].due \in Times
      /\ \A e \in Times : e \in Nat
  BY <1>1, ClockTypes DEF Inv, TypeOK, ActivityRow
<1>3. /\ \A b \in Activities : b # a => activity'[b] = activity[b]
      /\ a \in Recurring => activity'[a].status = "scheduled" /\ activity'[a].due = now + 1
      /\ a \notin Recurring =>
           activity'[a].status = "completed" /\ activity'[a].due = activity[a].due
  BY <1>1, <1>2 DEF Fire, Alive, Inv, TypeOK, ActivityRow
<1>4. /\ notified'[a][activity[a].due] = notified[a][activity[a].due] + 1
      /\ \A b \in Activities, e \in Times :
           b # a \/ e # activity[a].due => notified'[b][e] = notified[b][e]
  BY <1>1, <1>2 DEF Fire, Inv, TypeOK
<1>5. /\ job'[a][d].status = "done"
      /\ a \in Recurring => job'[a][now + 1].status = "pending"
      /\ \A b \in Activities, e \in Times :
           b # a \/ (e # d /\ (a \in Recurring => e # now + 1))
             => job'[b][e] = job[b][e]
  BY <1>1, AdvancedJobs DEF Fire, Inv
<1>6. ThreadsInv'
  <2> SUFFICES ASSUME NEW u \in Threads, thread'[u] # Idle
               PROVE  ThreadHolds(u)'
    BY DEF ThreadsInv
  <2>1. u # t /\ thread'[u] = thread[u] /\ now' = now
    BY DEF Fire, Inv, TypeOK
  <2>2. ThreadHolds(u) /\ thread[u].activity \in Activities
    BY <2>1, ThreadTypes DEF Inv, ThreadsInv
  <2>3. CASE thread[u].phase = "firing"
    <3>1. lock[thread[u].activity] = u /\ lock[a] = t
      BY <1>1, <2>2, <2>3 DEF ThreadHolds, Fire
    <3>2. thread[u].activity # a /\ lock'[thread[u].activity] = u
      BY <2>1, <2>2, <3>1 DEF Fire, Release
    <3> QED  BY <1>3, <2>1, <2>2, <3>2 DEF ThreadHolds
  <2>4. CASE thread[u].phase # "firing"
    BY <1>3, <2>1, <2>2, <2>4 DEF ThreadHolds
  <2> QED  BY <2>3, <2>4
<1>7. JobsInv'
  <2> SUFFICES ASSUME NEW b \in Activities, NEW e \in Times,
                      job'[b][e].status # "absent"
               PROVE  /\ activity'[b].status # "absent"
                      /\ b \notin Recurring \union edited => e = activity'[b].due
    BY DEF JobsInv
  <2>1. CASE b # a
    BY <1>3, <1>5, <2>1 DEF Inv, JobsInv
  <2>2. CASE b = a
    BY <1>1, <1>3, <1>5, <2>2 DEF Inv, JobsInv
  <2> QED  BY <2>1, <2>2
<1>8. NotesInv'
  <2> SUFFICES ASSUME NEW b \in Activities \ edited, NEW e \in Times
               PROVE  notified'[b][e] <= 1 /\ (notified'[b][e] > 0 => Past(b, e)')
    BY DEF NotesInv
  <2>1. CASE b # a
    BY <1>3, <1>4, <2>1 DEF Inv, NotesInv, Past
  <2>2. CASE b = a
    <3>1. notified[a][e] \in Nat /\ notified'[a][e] \in Nat
      BY <1>1 DEF Inv, TypeOK
    <3>5. a \notin edited /\ activity[a].due = d
      BY <1>1, <2>2
    <3>6. e <= d => Past(b, e)'
      <4>1. b \in Recurring /\ e <= d => e < activity'[b].due
        BY <1>1, <1>2, <1>3, <2>2
      <4>2. activity'[b].status # "absent"
        BY <1>3, <2>2
      <4>3. b \notin Recurring => activity'[b].status = "completed"
        BY <1>3, <2>2
      <4> QED  BY <4>1, <4>2, <4>3 DEF Past
    <3>2. notified[a][e] > 0 => a \in Recurring /\ e < d
      BY <1>1, <2>2 DEF Inv, NotesInv, Past, Alive
    <3>3. CASE e = d
      <4>1. notified[a][e] = 0
        BY <1>1, <1>2, <3>1, <3>2, <3>3
      <4>2. notified'[a][e] = 1
        BY <1>4, <3>3, <3>5, <4>1
      <4>3. Past(b, e)'
        BY <1>2, <3>3, <3>6
      <4> QED  BY <2>2, <4>2, <4>3
    <3>4. CASE e # d
      <4>1. notified'[a][e] = notified[a][e]
        BY <1>1, <1>4, <3>4, <3>5
      <4>2. notified[a][e] <= 1
        BY <2>2 DEF Inv, NotesInv
      <4>3. notified'[a][e] > 0 => e <= d /\ a \in Recurring
        BY <1>1, <1>2, <3>1, <3>2, <4>1
      <4> QED  BY <2>2, <3>6, <4>1, <4>2, <4>3
    <3> QED  BY <3>3, <3>4
  <2> QED  BY <2>1, <2>2
<1>9. ScheduledHasItsJob'
  <2> SUFFICES ASSUME NEW b \in Activities \ edited, Alive(activity'[b])
               PROVE  job'[b][activity'[b].due].status \in {"pending", "running", "failed"}
    BY DEF ScheduledHasItsJob
  <2>1. CASE b # a
    <3>1. activity[b].due \in Times
      BY DEF Inv, TypeOK, ActivityRow
    <3> QED  BY <1>3, <1>5, <2>1, <3>1 DEF Inv, ScheduledHasItsJob
  <2>2. CASE b = a
    BY <1>3, <1>5, <2>2 DEF Alive
  <2> QED  BY <2>1, <2>2
<1>10. FutureJobIsNext'
  <2> SUFFICES ASSUME NEW b \in Activities \ edited, NEW e \in Times,
                      e > now, job'[b][e].status = "pending"
               PROVE  activity'[b].status = "scheduled" /\ activity'[b].due = e
    BY DEF FutureJobIsNext, Fire
  <2>1. CASE b # a
    BY <1>3, <1>5, <2>1 DEF Inv, FutureJobIsNext
  <2>2. CASE b = a
    <3>1. e # d
      BY <1>1, <1>2
    <3>2. job[a][e].status # "pending"
      BY <1>1, <1>2, <2>2, <3>1 DEF Inv, FutureJobIsNext
    <3> QED  BY <1>3, <1>5, <2>2, <3>1, <3>2
  <2> QED  BY <2>1, <2>2
<1> QED  BY <1>6, <1>7, <1>8, <1>9, <1>10 DEF Inv

LEMMA GiveUpStep ==
  ASSUME Inv, TypeOK', NEW t \in Threads, HandlerRaises(t) \/ Die(t)
  PROVE  Inv'
<1> edited' = edited
  BY DEF HandlerRaises, Die
<1>1. JobsInv' /\ NotesInv' /\ ScheduledHasItsJob' /\ FutureJobIsNext'
  BY DEF HandlerRaises, Die, Inv, JobsInv, NotesInv, Past, ScheduledHasItsJob, Alive,
         FutureJobIsNext
<1>2. CASE Die(t)
  BY <1>1, <1>2, LetGo DEF Die, Inv
<1>3. CASE HandlerRaises(t)
  <2> SUFFICES ASSUME NEW u \in Threads, thread'[u] # Idle
               PROVE  ThreadHolds(u)'
    BY <1>1 DEF ThreadsInv, Inv
  <2>1. CASE u = t
    <3>1. thread'[u] = At("raised", thread[t].activity, thread[t].due)
      BY <1>3, <2>1 DEF HandlerRaises, Inv, TypeOK
    <3> QED  BY <1>3, <3>1, FireFacts DEF HandlerRaises, At, ThreadHolds
  <2>2. CASE u # t
    <3>1. thread'[u] = thread[u] /\ ThreadHolds(u) /\ thread[u].activity \in Activities
      BY <1>3, <2>2, ThreadTypes DEF HandlerRaises, Inv, TypeOK, ThreadsInv
    <3>2. thread[u].phase = "firing" => lock'[thread[u].activity] = u
      BY <1>3, <2>2, <3>1 DEF HandlerRaises, Release, ThreadHolds
    <3> QED  BY <1>3, <3>1, <3>2 DEF HandlerRaises, ThreadHolds
  <2> QED  BY <2>1, <2>2
<1> QED  BY <1>2, <1>3

-----------------------------------------------------------------------------
(* The theorems.                                                           *)

LEMMA InvInit == Init => Inv
<1> SUFFICES ASSUME Init PROVE Inv
  OBVIOUS
<1>1. NoRow \in JobRow /\ NoRow.status = "absent"
  BY DEF NoRow, Row, JobRow, Statuses
<1>2. TypeOK
  BY <1>1, ScheduleAssumption DEF Init, TypeOK, ActivityRow, Times
<1>3. ThreadsInv /\ NotesInv /\ ScheduledHasItsJob
  BY DEF Init, ThreadsInv, NotesInv, ScheduledHasItsJob, Alive
<1>4. JobsInv /\ FutureJobIsNext
  BY <1>1 DEF Init, JobsInv, FutureJobIsNext
<1> QED  BY <1>2, <1>3, <1>4 DEF Inv

LEMMA InvStep == Inv /\ [Next]_vars => Inv'
<1> SUFFICES ASSUME Inv, [Next]_vars PROVE Inv'
  OBVIOUS
<1>1. TypeOK'
  BY TypesStep DEF Inv
<1>2. ASSUME NEW a \in Activities, Request(a) PROVE Inv'
  BY <1>1, <1>2, CreateStep, CancelStep, DeleteStep, EditStep DEF Request
<1>3. ASSUME NEW t \in Threads, ThreadStep(t) \/ Die(t) PROVE Inv'
  BY <1>1, <1>3, ClaimStep, LockStep, FireStep, SkipStep, GiveUpStep, FailureStep
     DEF ThreadStep
<1>4. CASE UNCHANGED vars
  BY <1>4 DEF vars, Inv, TypeOK, ThreadsInv, ThreadHolds, JobsInv, NotesInv, Past,
              ScheduledHasItsJob, Alive, FutureJobIsNext
<1> QED  BY <1>1, <1>2, <1>3, <1>4, TimeStep DEF Next

THEOREM InvAlways == Spec => []Inv
BY InvInit, InvStep, PTL DEF Spec

\* Every reachable state is well typed.
THEOREM ReminderTypes == Spec => []TypeOK
<1>1. Inv => TypeOK
  BY DEF Inv
<1> QED  BY <1>1, InvAlways, PTL

\* Whatever overlaps, dies or is retried, an occurrence is notified once.
THEOREM RemindersOncePerOccurrence == Spec => []OncePerOccurrence
<1>1. Inv => OncePerOccurrence
  BY DEF Inv, NotesInv, OncePerOccurrence
<1> QED  BY <1>1, InvAlways, PTL

\* The chain of run jobs does not break silently: what is scheduled has its job.
THEOREM ReminderChain == Spec => []ScheduledHasItsJob
<1>1. Inv => ScheduledHasItsJob
  BY DEF Inv
<1> QED  BY <1>1, InvAlways, PTL

\* Nor does it fork: a run job of a later instant is the one its activity waits for.
THEOREM RemindersDoNotFork == Spec => []FutureJobIsNext
<1>1. Inv => FutureJobIsNext
  BY DEF Inv
<1> QED  BY <1>1, InvAlways, PTL

\* An activity that is over is not notified, edits or not.
THEOREM RemindersStopAtEnd == Spec => NothingAfterEnd
<1> DEFINE Quiet == \A a \in Activities, d \in Times :
                      ~Alive(activity[a]) => notified'[a][d] = notified[a][d]
<1>1. Inv /\ [Next]_vars => [Quiet]_vars
  <2> SUFFICES ASSUME Inv, [Next]_vars, NEW a \in Activities, NEW d \in Times,
                      ~Alive(activity[a])
               PROVE  notified'[a][d] = notified[a][d]
    OBVIOUS
  <2>1. ASSUME NEW t \in Threads, Fire(t)
        PROVE  notified'[a][d] = notified[a][d]
    <3>1. thread[t].seen = activity[thread[t].activity] /\ thread[t].activity \in Activities
      BY <2>1, FireFacts DEF Fire
    <3>2. thread[t].activity # a
      BY <2>1, <3>1 DEF Fire, Due
    <3> QED  BY <2>1, <3>1, <3>2 DEF Fire, Inv, TypeOK
  <2>2. CASE ~\E t \in Threads : Fire(t)
    BY <2>2 DEF Next, Tick, Request, Cancel, Delete, Create, MoveDue, SetStatus,
                LeaseExpires, ThreadStep, Claim, LockActivity, Skip, HandlerRaises,
                RecordFailure, Die, vars
  <2> QED  BY <2>1, <2>2
<1> QED  BY <1>1, InvAlways, PTL DEF Spec, NothingAfterEnd
=============================================================================
