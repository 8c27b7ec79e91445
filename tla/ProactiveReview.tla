--------------------------- MODULE ProactiveReview ---------------------------
(***************************************************************************)
(* The proactive review of one user: the scheduler that keeps a review job *)
(* in the queue (backend/app/services/proactive_scheduler.py), the review  *)
(* that asks the language model and may leave a notification               *)
(* (proactive_review_service.py), and the user who opts in and out         *)
(* meanwhile.                                                              *)
(*                                                                         *)
(* The user's settings row is the lock of all three: a request that        *)
(* changes it, a scheduler pass and the end of a review each hold it to    *)
(* their commit.  Claims and recorded failures do not take it, so they     *)
(* fall between what a pass reads and what it writes.  The order in which  *)
(* due jobs are claimed is JobQueue's matter.                              *)
(***************************************************************************)
EXTENDS JobRows, Sequences, FiniteSets, Functions

CONSTANTS
  Slots,          \* bound: review rows of the user that matter at one time
  Threads,        \* threads of the general lane, over all processes
  Sources,        \* objects a review may notify about
  Insights,       \* what can be said of a version: the kind, what it relates to, dates
  MaxUnresolved   \* PROACTIVE_MAX_UNRESOLVED

Nobody == "nobody"
Request == "request"

ASSUME ReviewAssumption ==
  /\ IsFiniteSet(Threads) /\ IsFiniteSet(Sources)
  /\ MaxUnresolved \in Nat \ {0}
  /\ {Nobody, Request} \cap (Threads \union Sources) = {}

VARIABLES
  enabled,     \* proactive_enabled of the user's settings
  job,         \* job[s] is a review row
  waiting,     \* rows whose run_after lies in the future
  order,       \* the rows by created_at
  sync,        \* the sync_user under way: who runs it and what it has read
  thread,      \* thread[t] is what t holds
  unresolved,  \* unresolved[o] counts the new and read notifications about o
  recent       \* recent[o][i] counts those created within the cooldown that say i
               \*   of the present version of o: they have one signature

queue == <<job, waiting, order>>
notes == <<unresolved, recent>>
vars == <<enabled, queue, sync, thread, notes>>

Idle == [phase |-> "idle"]
Maintaining == [phase |-> "maintaining"]
At(phase, s) == [phase |-> phase, id |-> s]
NoSync == [by |-> Nobody]

\* What a review has decided: an object to notify about, or nothing.  What it has decided
\* to say of it matters to nobody before Conclude, and is chosen there.
Decisions == Sources \union {Nobody}
NothingSaid == [i \in Insights |-> 0]

Plans == [retire : SUBSET Slots, rearm : SUBSET Slots, add : BOOLEAN]

Held(row) == row.status \in {"pending", "running", "failed"}
Active(row) == row.status \in {"pending", "running"}
HeldJobs == {s \in Slots : Held(job[s])}

TypeOK ==
  /\ enabled \in BOOLEAN
  /\ job \in [Slots -> JobRow]
  /\ waiting \subseteq Slots
  /\ order \in Seq(Slots)
  /\ sync \in {NoSync}
        \union [by : Threads \union {Request}, enabled : BOOLEAN, plan : Plans,
                seen : [Slots -> JobRow]]
  /\ thread \in [Threads ->
        {Idle, Maintaining}
        \union [phase : {"claimed", "gated", "stopping"}, id : Slots]
        \union [phase : {"decided"}, id : Slots, about : Decisions]
        \union [phase : {"holding"}, id : Slots, about : Decisions, enabled : BOOLEAN]]
  /\ unresolved \in [Sources -> Nat]
  /\ recent \in [Sources -> [Insights -> Nat]]

Init ==
  /\ enabled = FALSE
  /\ job = [s \in Slots |-> NoRow]
  /\ waiting = {}
  /\ order = <<>>
  /\ sync = NoSync
  /\ thread = [t \in Threads |-> Idle]
  /\ unresolved = [o \in Sources |-> 0]
  /\ recent = [o \in Sources |-> NothingSaid]

\* Mutant of SettingsFree: a review reads the settings without FOR UPDATE.
BugSettingsReadUnlocked == sync = NoSync

\* The settings row is locked by a sync_user or by a review about to commit.
SettingsFree ==
  sync = NoSync /\ \A t \in Threads : thread[t].phase # "holding"

Unresolved == SumFunction(unresolved)

-----------------------------------------------------------------------------
(* Rows.                                                                   *)

\* A row that is done leaves the model once no thread and no pass refers to it, and
\* its slot can be given to a new row.
Kept(rows, held, pass) ==
  {s \in Slots :
     \/ Held(rows[s])
     \/ \E t \in Threads : held[t] \notin {Idle, Maintaining} /\ held[t].id = s
     \/ pass # NoSync /\ s \in pass.plan.retire \union pass.plan.rearm}

Free(rows, held, pass) == Slots \ Kept(rows, held, pass)

\* The rows of line that are kept.
Only(line, kept) ==
  LET upto[n \in 0 .. Len(line)] ==
        IF n = 0 THEN <<>>
        ELSE IF line[n] \in kept THEN Append(upto[n - 1], line[n]) ELSE upto[n - 1]
  IN  upto[Len(line)]

Update(rows, line, later, held, pass) ==
  LET kept == Kept(rows, held, pass)
  IN  /\ job' = [s \in Slots |-> IF s \in kept THEN rows[s] ELSE NoRow]
      /\ order' = Only(line, kept)
      /\ waiting' = later \intersect kept
      /\ thread' = held
      /\ sync' = pass

\* The held row created first: what min(created_at, id) keeps.
Oldest(S) ==
  LET i == CHOOSE i \in 1 .. Len(order) :
             order[i] \in S /\ \A k \in 1 .. i - 1 : order[k] \notin S
  IN  order[i]

\* Only a changed column is sent: what a pass leaves as it has read it keeps a
\* newer value.
Written(now, seen, want) ==
  [f \in DOMAIN now |-> IF want[f] = seen[f] THEN now[f] ELSE want[f]]

-----------------------------------------------------------------------------
(* sync_user, from a settings request or a scheduler pass.                 *)

\* Mutant of PlanFor: failed rows are left alone.
BugPlanNeverRearms(on) ==
  [retire |-> IF on THEN {} ELSE {s \in HeldJobs : job[s].status # "running"},
   rearm |-> {}, add |-> on /\ HeldJobs = {}]

\* What a pass does about the rows it reads: it retires some, rearms at most one,
\* or finds that a new one is wanted.
PlanFor(on) ==
  LET active == {s \in HeldJobs : Active(job[s])}
      ready  == HeldJobs \ (active \union waiting)
      idle   == {s \in HeldJobs : job[s].status # "running"}
      retire == CASE ~on -> idle
                  [] on /\ active # {} -> (active \ {Oldest(active)}) \intersect idle
                  [] on /\ active = {} /\ ready # {} -> ready \ {Oldest(ready)}
                  [] OTHER -> {}
  IN  [retire |-> retire,
       rearm |-> IF on /\ active = {} /\ ready # {} THEN {Oldest(ready)} ELSE {},
       add |-> on /\ HeldJobs = {}]

\* The settings row is locked and the rows are read; what was read of the rows the
\* plan does not touch is of no use.
Begun(who, on) ==
  LET plan == PlanFor(on)
  IN  [by |-> who, enabled |-> on, plan |-> plan,
       seen |-> [s \in Slots |->
                   IF s \in plan.retire \union plan.rearm THEN job[s] ELSE NoRow]]

\* Bound: a pass that would insert a row waits until a slot is free.
Room(on) == PlanFor(on).add => Free(job, thread, sync) # {}

\* PATCH /me/settings sets the opt-in or the interval; its UPDATE locks the row.
RequestBegins(value) ==
  /\ SettingsFree /\ Room(value)
  /\ sync' = Begun(Request, value)
  /\ UNCHANGED <<enabled, queue, thread, notes>>

\* Mutant of MaintenanceBegins: users who have opted out are not visited.
BugMaintenanceOfEnabled(t) ==
  /\ thread[t] = Idle
  /\ enabled
  /\ thread' = [thread EXCEPT ![t] = Maintaining]
  /\ UNCHANGED <<enabled, queue, sync, notes>>

\* run_maintenance comes to this user when it is opted in or has held jobs, and
\* waits for the lock.
MaintenanceBegins(t) ==
  /\ thread[t] = Idle
  /\ enabled \/ HeldJobs # {}
  /\ thread' = [thread EXCEPT ![t] = Maintaining]
  /\ UNCHANGED <<enabled, queue, sync, notes>>

MaintenanceLocks(t) ==
  /\ thread[t] = Maintaining
  /\ SettingsFree /\ Room(enabled)
  /\ sync' = Begun(t, enabled)
  /\ UNCHANGED <<enabled, queue, thread, notes>>

\* The row s after the writes of the pass.
Carried(s) ==
  LET seen == sync.seen[s]
  IN  CASE s \in sync.plan.retire -> Written(job[s], seen, Retired(seen))
        [] s \in sync.plan.rearm -> Written(job[s], seen, Rearmed(seen))
        [] OTHER -> job[s]

SyncUser ==
  /\ sync # NoSync
  /\ LET rows == [s \in Slots |-> Carried(s)]
         held == [t \in Threads |-> IF sync.by = t THEN Idle ELSE thread[t]]
     IN  \/ /\ sync.plan.add
            /\ \E s \in Free(rows, held, NoSync) :
                 Update([rows EXCEPT ![s] = Enqueued], Append(order, s), waiting, held,
                        NoSync)
         \/ ~sync.plan.add /\ Update(rows, order, waiting, held, NoSync)
  /\ enabled' = sync.enabled
  /\ UNCHANGED notes

-----------------------------------------------------------------------------
(* A review.                                                               *)

Claim(t, s) ==
  /\ thread[t] = Idle
  /\ s \notin waiting
  /\ \/ job[s].status = "pending"
     \/ job[s].status = "running" /\ job[s].lease = "stale"
  /\ ~OutOfAttempts(job[s])
  /\ job' = [job EXCEPT ![s] = Claimed(@)]
  /\ thread' = [thread EXCEPT ![t] = At("claimed", s)]
  /\ UNCHANGED <<enabled, waiting, order, sync, notes>>

Move(t, held) ==
  /\ thread' = [thread EXCEPT ![t] = held]
  /\ UNCHANGED <<enabled, queue, sync, notes>>

Decided(s, about) == [phase |-> "decided", id |-> s, about |-> about]

\* Mutant of ReadControl: nobody counts what is unresolved.
BugReadControlNoCap(t) ==
  /\ thread[t].phase = "claimed"
  /\ LET s == thread[t].id IN
       \/ ~enabled /\ Move(t, At("stopping", s))
       \/ enabled /\ Move(t, Decided(s, Nobody))
       \/ enabled /\ Move(t, At("gated", s))

\* run first reads the opt-in, without a lock, and counts what the user has not
\* resolved yet.  A full inbox or a quiet window decides for nothing.
ReadControl(t) ==
  /\ thread[t].phase = "claimed"
  /\ LET s == thread[t].id IN
       \/ ~enabled /\ Move(t, At("stopping", s))
       \/ enabled /\ Move(t, Decided(s, Nobody))
       \/ enabled /\ Unresolved < MaxUnresolved /\ Move(t, At("gated", s))

\* The opt-in is read again, twice, before the model is asked; only the first of
\* the two reads ends the review.  An answer that cannot be used counts for nothing.
AskModel(t, about) ==
  /\ thread[t].phase = "gated"
  /\ LET s == thread[t].id IN
       \/ enabled /\ Move(t, Decided(s, about))
       \/ ~enabled /\ (Move(t, At("stopping", s)) \/ Move(t, Decided(s, Nobody)))

\* Whatever was decided, the settings row is locked and the opt-in read once more.
LockSettings(t) ==
  /\ thread[t].phase = "decided"
  /\ SettingsFree
  /\ Move(t, [phase |-> "holding", id |-> thread[t].id, about |-> thread[t].about,
              enabled |-> enabled])

\* Mutant of MayNotify: the cooldown alone is looked at.
BugMayNotifyUnresolved(o, i) == recent[o][i] = 0

\* _maybe_notify: nothing for an object that has an unresolved notification, and
\* nothing that was said of its present version in the cooldown.
MayNotify(o, i) == unresolved[o] = 0 /\ recent[o][i] = 0

Notify(o, i) ==
  /\ unresolved' = [unresolved EXCEPT ![o] = @ + 1]
  /\ recent' = [recent EXCEPT ![o][i] = @ + 1]

\* The review is over for a user who is still opted in: the notification, unless
\* its evidence has changed meanwhile, the successor and the end of the job
\* commit together.
Conclude(t) ==
  /\ thread[t].phase = "holding" /\ thread[t].enabled
  /\ LET s == thread[t].id
         o == thread[t].about
     IN  /\ \/ o # Nobody /\ \E i \in Insights : MayNotify(o, i) /\ Notify(o, i)
            \/ UNCHANGED notes
         /\ LET rows == [job EXCEPT ![s] = Done(@)]
                held == [thread EXCEPT ![t] = Idle]
            IN  \E new \in Free(rows, held, sync) :
                  Update([rows EXCEPT ![new] = Enqueued],
                         Append(Only(order, Slots \ {new}), new),
                         waiting \union {new}, held, sync)
  /\ UNCHANGED enabled

\* The user has opted out: the job is done without effect.
Stop(t) ==
  /\ \/ thread[t].phase = "stopping"
     \/ thread[t].phase = "holding" /\ ~thread[t].enabled
  /\ Update([job EXCEPT ![thread[t].id] = Done(@)], order, waiting,
            [thread EXCEPT ![t] = Idle], sync)
  /\ UNCHANGED <<enabled, notes>>

\* The handler raises; its transaction is rolled back, and the failure is recorded
\* in one of its own, which takes no lock on the settings.  Only asking the model
\* meets the daily budget, or a configuration that is wrong.
HandlerRaises(t, error) ==
  /\ thread[t].phase \in {"claimed", "gated", "decided", "stopping"}
  /\ error # "transient"
  /\ error \in {"budget", "fatal"} => thread[t].phase = "gated"
  /\ LET s     == thread[t].id
         row   == IF error = "budget" THEN Parked(job[s])
                  ELSE AfterFailure("proactive", error, job[s])
         later == error = "budget" \/ FailureDelays("proactive", error, job[s])
     IN  Update([job EXCEPT ![s] = row], order,
                IF later THEN waiting \union {s} ELSE waiting,
                [thread EXCEPT ![t] = Idle], sync)
  /\ UNCHANGED <<enabled, notes>>

\* The process dies in a review: its transaction is rolled back, the job keeps its
\* lock.  One that dies in a pass, or a request that dies, leaves nothing: it is as
\* if it had not begun.
Die(t) ==
  /\ thread[t] \notin {Idle, Maintaining}
  /\ Update(job, order, waiting, [thread EXCEPT ![t] = Idle], sync)
  /\ UNCHANGED <<enabled, notes>>

-----------------------------------------------------------------------------
(* Time and the user.                                                      *)

BecomeDue(s) ==
  /\ s \in waiting
  /\ waiting' = waiting \ {s}
  /\ UNCHANGED <<enabled, job, order, sync, thread, notes>>

LeaseExpires(s) ==
  /\ job[s].status = "running" /\ job[s].lease = "held"
  /\ job' = [job EXCEPT ![s].lease = "stale"]
  /\ UNCHANGED <<enabled, waiting, order, sync, thread, notes>>

\* Mutant of Resolve: a notification that is resolved already counts again.
BugResolveTwice(o) ==
  /\ unresolved' = [unresolved EXCEPT ![o] = @ - 1]
  /\ UNCHANGED <<enabled, queue, sync, thread, recent>>

\* The user accepts, ignores or resolves a notification.
Resolve(o) ==
  /\ unresolved[o] > 0
  /\ unresolved' = [unresolved EXCEPT ![o] = @ - 1]
  /\ UNCHANGED <<enabled, queue, sync, thread, recent>>

\* The object gets a new version, of which nothing has been said.
Revise(o) ==
  /\ recent[o] # NothingSaid
  /\ recent' = [recent EXCEPT ![o] = NothingSaid]
  /\ UNCHANGED <<enabled, queue, sync, thread, unresolved>>

\* The cooldown of a signature ends.
Forget(o, i) ==
  /\ recent[o][i] > 0
  /\ recent' = [recent EXCEPT ![o][i] = 0]
  /\ UNCHANGED <<enabled, queue, sync, thread, unresolved>>

-----------------------------------------------------------------------------

ReviewStep(t) ==
  \/ ReadControl(t) \/ LockSettings(t) \/ Conclude(t) \/ Stop(t)
  \/ \E about \in Decisions : AskModel(t, about)

Next ==
  \/ \E value \in BOOLEAN : RequestBegins(value)
  \/ SyncUser
  \/ \E t \in Threads :
       \/ MaintenanceBegins(t) \/ MaintenanceLocks(t)
       \/ \E s \in Slots : Claim(t, s)
       \/ ReviewStep(t) \/ Die(t)
       \/ \E error \in Errors : HandlerRaises(t, error)
  \/ \E s \in Slots : BecomeDue(s) \/ LeaseExpires(s)
  \/ \E o \in Sources : Resolve(o) \/ Revise(o) \/ \E i \in Insights : Forget(o, i)

\* A row whose last claim was lost stays at the head of the lane (see JobQueue).
LaneJammed ==
  \E s \in Slots : job[s].lease = "stale" /\ OutOfAttempts(job[s])

\* A thread finishes what it holds; a row is due some day and a lock not refreshed
\* goes stale; the general lane alternates between passes and jobs, so that both
\* come again, unless the lane is jammed.
Fairness ==
  /\ WF_vars(SyncUser)
  /\ \A t \in Threads :
       /\ WF_vars(ReadControl(t) \/ Conclude(t) \/ Stop(t)
                  \/ \E about \in Decisions : AskModel(t, about))
       /\ SF_vars(LockSettings(t))
       /\ SF_vars(MaintenanceBegins(t)) /\ SF_vars(MaintenanceLocks(t))
  /\ \A s \in Slots :
       /\ WF_vars(BecomeDue(s))
       /\ WF_vars(LeaseExpires(s))
       /\ SF_vars(~LaneJammed /\ \E t \in Threads : Claim(t, s))

Spec == Init /\ [][Next]_vars
FairSpec == Spec /\ Fairness

-----------------------------------------------------------------------------
(* Safety.                                                                 *)

\* Once the user has opted out, no review notifies or makes itself a successor,
\* wherever it was when the request committed, and no pass inserts one.  Only a
\* failure brings back the row of the review that met it.
NothingAfterOptOut ==
  [][~enabled' =>
       /\ \A o \in Sources : unresolved'[o] <= unresolved[o]
       /\ \A s \in Slots :
            job'[s] = Enqueued =>
              \/ job[s] = Enqueued
              \/ \E t \in Threads : /\ thread[t].phase \notin {"idle", "maintaining", "holding"}
                                    /\ thread[t].id = s]_vars

\* The user is not told the same thing twice, by overlapping or repeated reviews: an
\* object with an unresolved notification gets no other, whatever it would say, and
\* in the cooldown nothing is said again of the same version.
NoRepeat ==
  \A o \in Sources : unresolved[o] <= 1 /\ \A i \in Insights : recent[o][i] <= 1

\* The count of unresolved notifications is checked before the model is asked: it
\* is exceeded by the reviews in flight at most.
AttentionNearCap == Unresolved <= MaxUnresolved + Cardinality(Threads) - 1

-----------------------------------------------------------------------------
(* Liveness.                                                               *)

\* A user who stays opted in is reviewed again and again, whatever failed before.
ReviewsGoOn ==
  enabled ~> ~enabled \/ LaneJammed
             \/ \E t \in Threads : thread[t].phase = "claimed"

\* A user who stays opted out has no review in the queue after a while.
OptOutEmptiesQueue == ~enabled ~> enabled \/ LaneJammed \/ HeldJobs = {}

\* Two reviews made for one user, by a pass that has read stale rows, become one.
OneReviewInTheEnd ==
  Cardinality(HeldJobs) > 1 ~> LaneJammed \/ Cardinality(HeldJobs) <= 1
=============================================================================
