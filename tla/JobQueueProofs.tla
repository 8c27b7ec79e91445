--------------------------- MODULE JobQueueProofs ---------------------------
(***************************************************************************)
(* Proofs about JobQueue for any number of jobs, threads, lanes and        *)
(* overlapping requests: types and the bound on attempts (AttemptsInv);    *)
(* who may take a running row and when its effects commit (ExclusiveInv);  *)
(* the order of run_after and the budget's marker (OrderInv); what         *)
(* attempts count (SpentInv).                                              *)
(***************************************************************************)
EXTENDS JobQueue, SequenceTheorems, TLAPS

\* A row claim_next may pick up again without passing the bound.
GoodRow(row) ==
  /\ row \in JobRow
  /\ row.attempts <= MaxAttempts
  /\ row.status = "pending" => row.attempts < MaxAttempts

LEMMA GoodRowFields ==
  ASSUME NEW row, GoodRow(row)
  PROVE  /\ row.status \in Statuses
         /\ row.attempts \in Nat /\ row.attempts <= MaxAttempts
         /\ row.lease \in {"none", "held", "stale"}
         /\ row.parked \in BOOLEAN /\ row.transient \in BOOLEAN
         /\ row.status = "pending" => row.attempts < MaxAttempts
BY DEF GoodRow, JobRow

LEMMA Bounds ==
  /\ MaxAttempts \in Nat /\ 0 < MaxAttempts
  /\ TransientTiers - 1 \in Nat /\ TransientTiers - 1 < MaxAttempts
BY AttemptsAssumption

\* Every transition that ends a claim, or starts a row over, keeps it good.
LEMMA FreshRows == GoodRow(NoRow) /\ GoodRow(Enqueued)
<1>1. 0 \in Nat /\ 0 <= MaxAttempts /\ 0 < MaxAttempts
  BY Bounds
<1>2. "absent" \in Statuses /\ "pending" \in Statuses
  BY DEF Statuses
<1> QED  BY <1>1, <1>2 DEF GoodRow, JobRow, NoRow, Enqueued, Row

LEMMA SettledRows ==
  ASSUME NEW row, GoodRow(row)
  PROVE  /\ GoodRow(Done(row))
         /\ GoodRow(Failed(row))
         /\ GoodRow(Parked(row))
         /\ GoodRow(Retired(row))
         /\ GoodRow(Rearmed(row))
         /\ GoodRow(Released(row))
         /\ GoodRow(Triggered(row))
         /\ GoodRow(RecurringFailed(row))
<1>1. GoodRow(Done(row)) /\ GoodRow(Failed(row))
  BY GoodRowFields DEF Done, Failed, GoodRow, JobRow, Row, Statuses
<1>2. GoodRow(Parked(row))
  <2> DEFINE left == IF row.attempts > 0 THEN row.attempts - 1 ELSE 0
  <2>1. left \in Nat /\ left < MaxAttempts
    BY GoodRowFields, Bounds
  <2> HIDE DEF left
  <2>2. Parked(row) = Row("pending", left, "none", TRUE, row.transient)
    BY DEF Parked, left
  <2> QED  BY <2>1, <2>2, GoodRowFields, Bounds DEF GoodRow, JobRow, Row, Statuses
<1>3. GoodRow(Retired(row)) /\ GoodRow(Rearmed(row)) /\ GoodRow(RecurringFailed(row))
  BY GoodRowFields, Bounds
  DEF Retired, Rearmed, RecurringFailed, GoodRow, JobRow, Row, Statuses
<1>4. GoodRow(Released(row))
  BY GoodRowFields DEF Released, GoodRow, JobRow, Row
<1>5. GoodRow(Triggered(row))
  BY GoodRowFields, Bounds DEF Triggered, GoodRow, JobRow, Row, Statuses
<1> QED  BY <1>1, <1>2, <1>3, <1>4, <1>5

LEMMA RetryRows ==
  ASSUME NEW row, GoodRow(row), NEW kind, NEW error
  PROVE  /\ GoodRow(AfterFailure(kind, error, row))
         /\ AfterFailure(kind, error, row).attempts <= row.attempts
<1> DEFINE Fine(r) == GoodRow(r) /\ r.attempts <= row.attempts
<1>1. Fine(TransientRetried(row))
  <2> DEFINE kept == IF row.attempts < TransientTiers - 1
                     THEN row.attempts ELSE TransientTiers - 1
  <2>1. kept \in Nat /\ kept < MaxAttempts /\ kept <= row.attempts
    BY GoodRowFields, Bounds
  <2> HIDE DEF kept
  <2>2. TransientRetried(row) = Row("pending", kept, "none", FALSE, TRUE)
    BY DEF TransientRetried, kept
  <2> QED  BY <2>1, <2>2, Bounds DEF GoodRow, JobRow, Row, Statuses
<1>2. Fine(FloodRetried(row))
  BY GoodRowFields, Bounds DEF FloodRetried, GoodRow, JobRow, Row, Statuses
<1>3. Fine(Failed(row)) /\ Fine(RecurringFailed(row))
  <2>1. Failed(row).attempts = row.attempts /\ RecurringFailed(row).attempts = row.attempts
    BY DEF Failed, RecurringFailed, Row
  <2> QED  BY <2>1, SettledRows, GoodRowFields
<1>4. \A n \in Nat : n < MaxAttempts /\ n <= row.attempts => Fine(Requeued(row, n))
  BY GoodRowFields, Bounds DEF Requeued, GoodRow, JobRow, Row, Statuses
<1>5. /\ row.attempts < MaxAttempts \/ row.attempts >= MaxAttempts
      /\ row.attempts \in Nat /\ row.attempts <= row.attempts
      /\ 0 \in Nat /\ 0 < MaxAttempts /\ 0 <= row.attempts
  BY GoodRowFields, Bounds
<1> HIDE DEF Fine
<1>6. Fine(Retried(kind, error, row))
  BY <1>3, <1>4, <1>5 DEF Retried
<1>7. Fine(AfterFailure(kind, error, row))
  BY <1>1, <1>2, <1>3, <1>6 DEF AfterFailure
<1> QED  BY <1>7 DEF Fine

LEMMA SettledAttempts ==
  ASSUME NEW row, GoodRow(row)
  PROVE  /\ Done(row).attempts = row.attempts
         /\ Failed(row).attempts = row.attempts
         /\ Retired(row).attempts = row.attempts
         /\ Released(row).attempts = row.attempts
         /\ Parked(row).attempts <= row.attempts
         /\ Enqueued.attempts = 0 /\ 0 <= row.attempts
         /\ row.attempts <= row.attempts
BY GoodRowFields DEF Done, Failed, Retired, Released, Parked, Enqueued, Row

\* A row handed to a worker had an attempt left.
LEMMA ClaimedRow ==
  ASSUME NEW row, GoodRow(row), row.status \in {"pending", "running"},
         ~OutOfAttempts(row)
  PROVE  GoodRow(Claimed(row))
<1>1. row.attempts + 1 \in Nat /\ row.attempts + 1 <= MaxAttempts
  BY GoodRowFields, Bounds DEF OutOfAttempts
<1> QED  BY <1>1, GoodRowFields DEF Claimed, GoodRow, JobRow, Row, Statuses

\* Taking a job out of the order of run_after leaves a sequence of jobs.
LEMMA WithoutType ==
  ASSUME ready \in Seq(Jobs), NEW j \in Jobs
  PROVE  Without(j) \in Seq(Jobs)
<1>1. CASE IsReady(j)
  <2> DEFINE i == CHOOSE i \in 1 .. Len(ready) : ready[i] = j
  <2>1. i \in 1 .. Len(ready)
    BY <1>1 DEF IsReady
  <2> HIDE DEF i
  <2>2. \A m, n \in Int : 1 <= m /\ n <= Len(ready) => SubSeq(ready, m, n) \in Seq(Jobs)
    BY SubSeqProperties, ElementOfSeq
  <2>3. /\ SubSeq(ready, 1, i - 1) \in Seq(Jobs)
        /\ SubSeq(ready, i + 1, Len(ready)) \in Seq(Jobs)
    BY <2>1, <2>2, LenProperties
  <2> QED  BY <1>1, <2>3, ConcatProperties DEF Without, i
<1>2. CASE ~IsReady(j)
  BY <1>2 DEF Without
<1> QED  BY <1>1, <1>2

-----------------------------------------------------------------------------
(* Types and attempts.                                                     *)

\* A look that puts its row back into the queue with the attempts it has by then;
\* and what every look keeps to: unless it makes the row due, it ends it or lets it be.
PutsBack(l) == l.status = "pending" /\ "attempts" \notin l.clears
WellFormed(l) == l.due \/ l.status = "done" \/ (l.status = "kept" /\ l.clears = {})

\* Every row is good, the rest of the state has its type, and no look is so old that
\* the row it puts back has no attempt left.
AttemptsInv ==
  /\ TypeOK
  /\ \A j \in Jobs : GoodRow(job[j])
  /\ \A l \in looks :
       /\ l.claims < MaxAttempts /\ WellFormed(l)
       /\ PutsBack(l) => job[l.id].attempts <= l.claims

\* Only a source can be switched off.
DisabledAreSources ==
  /\ \A j \in disabled : IsSource(j)
  /\ \A l \in looks : l.sets = "disabled" => IsSource(l.id)

\* A look that was taken just now.
FreshLook(l) ==
  /\ l \in LookType /\ l.claims = 0 /\ WellFormed(l)
  /\ PutsBack(l) => job[l.id].attempts = 0

\* What a step may do to the table and to the order of run_after, and to the rest.
GoodWrite ==
  /\ \/ UNCHANGED job
     \/ \E j \in Jobs : \E row : /\ GoodRow(row) /\ row.attempts <= job[j].attempts
                                /\ job' = [job EXCEPT ![j] = row]
  /\ ready' \in Seq(Jobs)
  /\ budgetHeld' \subseteq Jobs

GoodRest ==
  /\ disabled' \subseteq Jobs
  /\ offline' \subseteq Jobs
  /\ worker' \in [Workers -> {Idle} \union Busy]
  /\ effects' \in [Jobs -> Nat]
  /\ dropped' \subseteq Jobs
  /\ spent' \in [Jobs -> Nat]
  /\ \A l \in looks' : l \in looks \/ FreshLook(l)

LEMMA WriteIsGood ==
  ASSUME TypeOK, NEW j \in Jobs, NEW row, GoodRow(row), row.attempts <= job[j].attempts,
         Write(j, row) \/ WriteLater(j, row) \/ WriteNow(j, row)
  PROVE  GoodWrite
<1>1. Without(j) \in Seq(Jobs)
  BY WithoutType DEF TypeOK
<1>2. ready \in Seq(Jobs) /\ Append(Without(j), j) \in Seq(Jobs)
  BY <1>1, AppendProperties DEF TypeOK
<1>3. ready' \in Seq(Jobs)
  BY <1>1, <1>2 DEF Write, WriteLater, WriteNow
<1> QED  BY <1>3 DEF GoodWrite, TypeOK, Write, WriteLater, WriteNow

LEMMA NoWriteIsGood ==
  ASSUME TypeOK, UNCHANGED <<job, ready, budgetHeld>>
  PROVE  GoodWrite
BY DEF GoodWrite, TypeOK

LEMMA GoodStep ==
  ASSUME AttemptsInv, GoodWrite, GoodRest
  PROVE  AttemptsInv'
<1>1. /\ job' \in [Jobs -> JobRow]
      /\ \A j \in Jobs : GoodRow(job'[j]) /\ job'[j].attempts <= job[j].attempts
  <2>1. \A j \in Jobs : job[j] \in JobRow /\ GoodRow(job[j])
                        /\ job[j].attempts <= job[j].attempts
    BY SettledAttempts DEF AttemptsInv, TypeOK
  <2>2. CASE UNCHANGED job
    BY <2>1, <2>2 DEF AttemptsInv, TypeOK
  <2>3. CASE \E j \in Jobs : \E row : /\ GoodRow(row) /\ row.attempts <= job[j].attempts
                                     /\ job' = [job EXCEPT ![j] = row]
    <3>1. PICK j \in Jobs : \E row : /\ GoodRow(row) /\ row.attempts <= job[j].attempts
                                    /\ job' = [job EXCEPT ![j] = row]
      BY <2>3
    <3>2. PICK row : /\ GoodRow(row) /\ row.attempts <= job[j].attempts
                     /\ job' = [job EXCEPT ![j] = row]
      BY <3>1
    <3>3. row \in JobRow
      BY <3>2 DEF GoodRow
    <3> QED  BY <2>1, <3>2, <3>3 DEF AttemptsInv, TypeOK
  <2> QED  BY <2>2, <2>3 DEF GoodWrite
<1>2. ASSUME NEW l \in looks'
      PROVE  /\ l \in LookType /\ l.claims < MaxAttempts /\ WellFormed(l)
             /\ PutsBack(l) => job'[l.id].attempts <= l.claims
  <2>1. l \in looks \/ FreshLook(l)
    BY DEF GoodRest
  <2>2. /\ l \in LookType /\ l.claims < MaxAttempts /\ WellFormed(l)
        /\ PutsBack(l) => job[l.id].attempts <= l.claims
    <3>1. CASE l \in looks
      BY <3>1 DEF AttemptsInv, TypeOK
    <3>2. CASE FreshLook(l)
      BY <3>2, Bounds DEF FreshLook
    <3> QED  BY <2>1, <3>1, <3>2
  <2>3. l.id \in Jobs /\ l.claims \in Nat
    BY <2>2 DEF LookType
  <2>4. job'[l.id].attempts \in Nat /\ job[l.id].attempts \in Nat
    BY <1>1, <2>3, GoodRowFields DEF AttemptsInv
  <2>5. job'[l.id].attempts <= job[l.id].attempts
    BY <1>1, <2>3
  <2> HIDE DEF PutsBack
  <2> QED  BY <2>2, <2>3, <2>4, <2>5
<1>3. TypeOK'
  BY <1>1, <1>2 DEF TypeOK, GoodWrite, GoodRest
<1> QED  BY <1>1, <1>2, <1>3 DEF AttemptsInv, PutsBack, WellFormed

\* What a thread holds, by its phase.
LEMMA WorkerPhases ==
  ASSUME TypeOK, NEW w \in Workers
  PROVE  /\ worker[w] # Idle => worker[w].id \in Jobs
         /\ worker[w].phase # "idle" => worker[w] # Idle
         /\ worker[w].phase = "claimed" =>
              worker[w] \in [phase : {"claimed", "running"}, id : Jobs]
         /\ worker[w].phase = "raised" =>
              worker[w].error \in Errors
BY DEF TypeOK, Idle, Busy

\* A thread that goes idle, or whose phase moves on, keeps the type.
LEMMA WorkerMoves ==
  ASSUME TypeOK, NEW w \in Workers, NEW held \in {Idle} \union Busy
  PROVE  [worker EXCEPT ![w] = held] \in [Workers -> {Idle} \union Busy]
BY DEF TypeOK

LEMMA OlderLook ==
  ASSUME NEW l \in LookType, NEW j
  PROVE  /\ Older(l, j) \in LookType
         /\ Older(l, j).id = l.id /\ Older(l, j).by = l.by
         /\ Older(l, j).status = l.status /\ Older(l, j).clears = l.clears
         /\ Older(l, j).due = l.due /\ Older(l, j).sets = l.sets
         /\ Older(l, j).claims = IF l.id = j THEN l.claims + 1 ELSE l.claims
BY DEF Older, LookType

LEMMA ClaimKeepsAttempts ==
  ASSUME AttemptsInv, NEW w \in Workers, NEW j \in Jobs, Claim(w, j)
  PROVE  AttemptsInv'
<1>1. job[j].status \in {"pending", "running"}
  BY DEF Claim, IsHead, Claimable
<1>2. GoodRow(Claimed(job[j])) /\ Claimed(job[j]).attempts = job[j].attempts + 1
  BY <1>1, ClaimedRow DEF Claim, AttemptsInv, Claimed, Row
<1>3. /\ job' = [job EXCEPT ![j] = Claimed(job[j])] /\ UNCHANGED <<ready, budgetHeld>>
      /\ looks' = {Older(l, j) : l \in looks} /\ Brief(j)
      /\ UNCHANGED <<disabled, offline, effects, dropped>>
  BY DEF Claim, Write
<1>4. [phase |-> "claimed", id |-> j] \in {Idle} \union Busy
  BY DEF Busy
<1>5. worker' \in [Workers -> {Idle} \union Busy]
  BY <1>4, WorkerMoves DEF Claim, AttemptsInv
<1>6. /\ job' \in [Jobs -> JobRow] /\ \A i \in Jobs : GoodRow(job'[i])
      /\ job'[j].attempts = job[j].attempts + 1
      /\ \A i \in Jobs : i # j => job'[i] = job[i]
  BY <1>2, <1>3 DEF AttemptsInv, TypeOK, GoodRow
<1>7. ASSUME NEW m \in looks'
      PROVE  /\ m \in LookType /\ m.claims < MaxAttempts /\ WellFormed(m)
             /\ PutsBack(m) => job'[m.id].attempts <= m.claims
  <2>1. PICK l \in looks : m = Older(l, j)
    BY <1>3
  <2>2. /\ l \in LookType /\ l.claims < MaxAttempts /\ WellFormed(l)
        /\ PutsBack(l) => job[l.id].attempts <= l.claims
        /\ l.id \in Jobs /\ l.claims \in Nat
    BY DEF AttemptsInv, TypeOK, LookType
  <2>3. m \in LookType /\ (WellFormed(l) <=> WellFormed(m)) /\ (PutsBack(l) <=> PutsBack(m))
    BY <2>1, <2>2, OlderLook DEF WellFormed, PutsBack
  <2>4. m.claims < MaxAttempts
    BY <1>3, <2>1, <2>2, OlderLook DEF Brief
  <2>5. job[l.id].attempts \in Nat
    BY <2>2, GoodRowFields DEF AttemptsInv
  <2>6. PutsBack(l) => job'[m.id].attempts <= m.claims
    BY <1>6, <2>1, <2>2, <2>5, OlderLook
  <2> QED  BY <2>2, <2>3, <2>4, <2>6
<1>8. spent' \in [Jobs -> Nat]
  BY DEF Claim, AttemptsInv, TypeOK
<1>9. TypeOK'
  BY <1>3, <1>5, <1>6, <1>7, <1>8 DEF AttemptsInv, TypeOK
<1> QED  BY <1>6, <1>7, <1>9 DEF AttemptsInv, PutsBack, WellFormed

LEMMA EndOfClaimKeepsAttempts ==
  ASSUME AttemptsInv, NEW w \in Workers,
         UnknownType(w) \/ RetireInsteadOfRun(w) \/ HandlerSucceeds(w)
  PROVE  AttemptsInv'
<1> DEFINE j == worker[w].id
<1>1. j \in Jobs /\ GoodRow(job[j])
  BY WorkerPhases DEF AttemptsInv, UnknownType, RetireInsteadOfRun, HandlerSucceeds
<1>2. /\ GoodRow(Failed(job[j])) /\ GoodRow(Retired(job[j])) /\ GoodRow(Done(job[j]))
      /\ GoodRow(RecurringSucceeded(job[j]))
      /\ Failed(job[j]).attempts <= job[j].attempts
      /\ Retired(job[j]).attempts <= job[j].attempts
      /\ Done(job[j]).attempts <= job[j].attempts
      /\ RecurringSucceeded(job[j]).attempts <= job[j].attempts
  BY <1>1, SettledRows, SettledAttempts, FreshRows DEF RecurringSucceeded
<1>3. worker' \in [Workers -> {Idle} \union Busy]
  BY WorkerMoves DEF AttemptsInv, UnknownType, RetireInsteadOfRun, HandlerSucceeds
<1>4. CASE UnknownType(w)
  <2>1. GoodWrite
    BY <1>1, <1>2, <1>4, WriteIsGood DEF UnknownType, AttemptsInv
  <2>2. GoodRest
    BY <1>1, <1>3, <1>4 DEF UnknownType, GoodRest, AttemptsInv, TypeOK
  <2> QED  BY <2>1, <2>2, GoodStep
<1>5. CASE RetireInsteadOfRun(w)
  <2>1. GoodWrite
    BY <1>1, <1>2, <1>5, WriteIsGood DEF RetireInsteadOfRun, AttemptsInv
  <2>2. GoodRest
    BY <1>3, <1>5 DEF RetireInsteadOfRun, GoodRest, AttemptsInv, TypeOK
  <2> QED  BY <2>1, <2>2, GoodStep
<1>6. CASE HandlerSucceeds(w)
  <2>1. GoodWrite
    BY <1>1, <1>2, <1>6, WriteIsGood DEF HandlerSucceeds, AttemptsInv
  <2>2. GoodRest
    BY <1>1, <1>3, <1>6 DEF HandlerSucceeds, GoodRest, AttemptsInv, TypeOK
  <2> QED  BY <2>1, <2>2, GoodStep
<1> QED  BY <1>4, <1>5, <1>6

LEMMA HandlerPhasesKeepAttempts ==
  ASSUME AttemptsInv, NEW w \in Workers, NEW error \in Errors,
         StartHandler(w) \/ HandlerRaises(w, error) \/ LoseOutcome(w)
  PROVE  AttemptsInv'
<1>1. GoodWrite
  BY NoWriteIsGood DEF AttemptsInv, StartHandler, HandlerRaises, LoseOutcome
<1>2. worker' \in [Workers -> {Idle} \union Busy]
  <2>1. CASE StartHandler(w)
    <3>1. [worker[w] EXCEPT !.phase = "running"] \in Busy
      BY <2>1, WorkerPhases DEF StartHandler, AttemptsInv, Busy
    <3>2. worker' = [worker EXCEPT ![w] = [worker[w] EXCEPT !.phase = "running"]]
      BY <2>1 DEF StartHandler
    <3> QED  BY <3>1, <3>2, WorkerMoves DEF AttemptsInv
  <2>2. CASE HandlerRaises(w, error)
    <3>1. [phase |-> "raised", id |-> worker[w].id, error |-> error] \in Busy
      BY <2>2, WorkerPhases DEF HandlerRaises, AttemptsInv, Busy
    <3> QED  BY <2>2, <3>1, WorkerMoves DEF HandlerRaises, AttemptsInv
  <2>3. CASE LoseOutcome(w)
    BY <2>3, WorkerMoves DEF LoseOutcome, AttemptsInv
  <2> QED  BY <2>1, <2>2, <2>3
<1>3. GoodRest
  BY <1>2 DEF GoodRest, AttemptsInv, TypeOK, StartHandler, HandlerRaises, LoseOutcome
<1> QED  BY <1>1, <1>3, GoodStep

LEMMA ParkKeepsAttempts ==
  ASSUME AttemptsInv, NEW w \in Workers, ParkUntilBudgetReset(w)
  PROVE  AttemptsInv'
<1> DEFINE j == worker[w].id
<1>1. j \in Jobs /\ GoodRow(job[j])
  BY WorkerPhases DEF AttemptsInv, ParkUntilBudgetReset
<1>2. /\ GoodRow(Parked(job[j])) /\ Parked(job[j]).attempts <= job[j].attempts
      /\ Without(j) \in Seq(Jobs)
  BY <1>1, SettledRows, SettledAttempts, WithoutType DEF AttemptsInv, TypeOK
<1>3. job' = [job EXCEPT ![j] = Parked(job[j])]
  BY DEF ParkUntilBudgetReset
<1>4. GoodWrite
  BY <1>1, <1>2, <1>3 DEF ParkUntilBudgetReset, GoodWrite, AttemptsInv, TypeOK
<1>5. GoodRest
  BY WorkerMoves DEF ParkUntilBudgetReset, GoodRest, AttemptsInv, TypeOK
<1> QED  BY <1>4, <1>5, GoodStep

LEMMA RecordFailureKeepsAttempts ==
  ASSUME AttemptsInv, NEW w \in Workers, RecordFailure(w)
  PROVE  AttemptsInv'
<1> DEFINE j   == worker[w].id
           row == AfterFailure(Kind[j], worker[w].error, job[j])
<1>1. j \in Jobs /\ GoodRow(job[j])
  BY WorkerPhases DEF AttemptsInv, RecordFailure
<1>2. /\ GoodRow(row) /\ GoodRow(Retired(job[j]))
      /\ row.attempts <= job[j].attempts /\ Retired(job[j]).attempts <= job[j].attempts
  BY <1>1, RetryRows, SettledRows, SettledAttempts
<1>3. /\ Write(j, Retired(job[j])) \/ WriteLater(j, row) \/ Write(j, row)
      /\ spent' = spent \/ spent' = SpentAfter(j, row)
      /\ worker' = [worker EXCEPT ![w] = Idle]
      /\ UNCHANGED <<disabled, offline, looks, effects, dropped>>
  BY DEF RecordFailure
<1> HIDE DEF row, j
<1>4. GoodWrite
  BY <1>1, <1>2, <1>3, WriteIsGood DEF AttemptsInv
<1>5. spent' \in [Jobs -> Nat]
  <2> DEFINE left == IF row.attempts = 0 \/ IsSource(j) THEN 0 ELSE spent[j] + 1
  <2>1. spent \in [Jobs -> Nat] /\ spent[j] \in Nat
    BY <1>1 DEF AttemptsInv, TypeOK
  <2>2. left \in Nat
    BY <2>1
  <2>3. SpentAfter(j, row) = [spent EXCEPT ![j] = left]
    BY DEF SpentAfter
  <2> HIDE DEF left
  <2>4. SpentAfter(j, row) \in [Jobs -> Nat]
    BY <2>1, <2>2, <2>3
  <2> QED  BY <1>3, <2>1, <2>4
<1>6. GoodRest
  BY <1>3, <1>5, WorkerMoves DEF GoodRest, AttemptsInv, TypeOK
<1> QED  BY <1>4, <1>6, GoodStep

LEMMA TimeKeepsAttempts ==
  ASSUME AttemptsInv, NEW j \in Jobs, BecomeDue(j) \/ LeaseExpires(j)
  PROVE  AttemptsInv'
<1>1. GoodRow(job[j])
  BY DEF AttemptsInv
<1>2. /\ GoodRow([job[j] EXCEPT !.lease = "stale"])
      /\ [job[j] EXCEPT !.lease = "stale"].attempts <= job[j].attempts
  BY <1>1, GoodRowFields DEF GoodRow, JobRow
<1>3. CASE BecomeDue(j)
  <2>1. ready' \in Seq(Jobs)
    BY <1>3, AppendProperties DEF BecomeDue, AttemptsInv, TypeOK
  <2>2. GoodWrite /\ GoodRest
    BY <1>3, <2>1 DEF BecomeDue, GoodWrite, GoodRest, AttemptsInv, TypeOK
  <2> QED  BY <2>2, GoodStep
<1>4. CASE LeaseExpires(j)
  <2>1. job' = [job EXCEPT ![j] = [job[j] EXCEPT !.lease = "stale"]]
    BY <1>4 DEF LeaseExpires
  <2>2. GoodWrite /\ GoodRest
    BY <1>2, <1>4, <2>1 DEF LeaseExpires, GoodWrite, GoodRest, AttemptsInv, TypeOK
  <2> QED  BY <2>2, GoodStep
<1> QED  BY <1>3, <1>4

\* What a look may want of a row: to keep its status, to put it back with no attempts
\* or to end it; of a running row, nothing but a sign-out's end; of a job that is not
\* a source, the columns' clearing only, unless a pass ends or rearms a review.
Allowed(j, by, want, due, sets) ==
  /\ by \in {"pass", "request"} /\ due \in BOOLEAN
  /\ sets \in {"nothing", "disabled", "enabled", "offline"}
  /\ want.status \in {job[j].status, "pending", "done"}
  /\ want.status = "pending" => job[j].status = "pending" \/ want.attempts = 0
  /\ due \/ want = job[j] \/ (want.status = "done" /\ job[j].status # "done")
  /\ sets # "nothing" => IsSource(j)
  /\ job[j].status = "running" => want.status = "running" \/ sets = "offline"
  /\ \/ IsSource(j)
     \/ want.status = job[j].status /\ want.attempts = job[j].attempts
     \/ /\ Kind[j] = "proactive" /\ by = "pass"
        /\ \/ want.status = "done" /\ want.attempts = job[j].attempts
           \/ want.status = "pending" /\ job[j].status = "failed"

ReadStep(j) == MaintenanceStep(j) \/ ReleaseParked(j) \/ SourceRequest(j)

OnlyReads(j) ==
  /\ \E by, want, due, sets : Allowed(j, by, want, due, sets) /\ Look(j, by, want, due, sets)
  /\ offline' \subseteq offline
  /\ UNCHANGED <<job, ready, disabled, worker, effects, dropped, spent, budgetHeld>>

LEMMA RowsWanted ==
  ASSUME NEW row, GoodRow(row)
  PROVE  /\ Ensured(row) = IF row.status \in {"absent", "done"} THEN Enqueued ELSE row
         /\ Enqueued.status = "pending" /\ Enqueued.attempts = 0
         /\ Unscheduled(row) = IF row.status \in {"pending", "failed"} THEN Retired(row) ELSE row
         /\ Retired(row).status = "done" /\ Retired(row).attempts = row.attempts
         /\ Released(row).status = row.status /\ Released(row).attempts = row.attempts
         /\ Rearmed(row).status = "pending" /\ Rearmed(row).attempts = 0
         /\ row.status \in {"absent", "done"} => TriggeredNow(row) = Enqueued
         /\ row.status \in {"pending", "running"} => TriggeredNow(row) = row
         /\ row.status = "failed" =>
              TriggeredNow(row).status = "pending" /\ TriggeredNow(row).attempts = 0
         /\ row.status \in {"absent", "done", "pending", "running", "failed"}
BY DEF Ensured, Reactivated, Unscheduled, Released, Rearmed, TriggeredNow, Triggered,
       Enqueued, Retired, Row, GoodRow, JobRow, Statuses

LEMMA LooksOnlyRead ==
  ASSUME AttemptsInv, DisabledAreSources, NEW j \in Jobs, ReadStep(j)
  PROVE  OnlyReads(j)
<1>1. GoodRow(job[j])
  BY DEF AttemptsInv
<1>2. /\ Unscheduled(job[j]) = IF job[j].status \in {"pending", "failed"}
                               THEN Retired(job[j]) ELSE job[j]
      /\ Ensured(job[j]) = IF job[j].status \in {"absent", "done"} THEN Enqueued ELSE job[j]
  BY <1>1, RowsWanted
<1>3. ASSUME NEW by, NEW want, NEW due, NEW sets, Allowed(j, by, want, due, sets),
             OnlyLooks(j, by, want, due, sets)
      PROVE  OnlyReads(j)
  BY <1>3 DEF OnlyLooks, OnlyReads
<1>4. CASE MaintenanceStep(j) \/ ReleaseParked(j)
  <2>1. CASE EnsureRecurring(j)
    <3>1. Allowed(j, "pass", Ensured(job[j]), TRUE, "nothing")
      BY <1>1, <2>1, RowsWanted DEF EnsureRecurring, Expected, Allowed
    <3> QED  BY <1>3, <2>1, <3>1 DEF EnsureRecurring
  <2>2. CASE RetireUnexpected(j) \/ DropReview(j)
    <3>1. job[j].status \in {"pending", "failed"} /\ Unscheduled(job[j]) = Retired(job[j])
      BY <1>2, <2>2 DEF RetireUnexpected, DropReview
    <3>2. IsSource(j) \/ Kind[j] = "proactive"
      BY <2>2 DEF RetireUnexpected, DropReview
    <3>3. Allowed(j, "pass", Unscheduled(job[j]), FALSE, "nothing")
      BY <1>1, <3>1, <3>2, RowsWanted DEF Allowed
    <3> QED  BY <1>3, <2>2, <3>3 DEF RetireUnexpected, DropReview
  <2>3. CASE RearmFailed(j)
    <3>1. Allowed(j, "pass", Rearmed(job[j]), TRUE, "nothing")
      BY <1>1, <2>3, RowsWanted DEF RearmFailed, Expected, Allowed
    <3> QED  BY <1>3, <2>3, <3>1 DEF RearmFailed
  <2>4. CASE ReleaseParked(j)
    <3>1. Allowed(j, "request", Released(job[j]), TRUE, "nothing")
      BY <1>1, <2>4, RowsWanted DEF ReleaseParked, Allowed
    <3> QED  BY <1>3, <2>4, <3>1 DEF ReleaseParked
  <2> QED  BY <1>4, <2>1, <2>2, <2>3, <2>4 DEF MaintenanceStep
<1>5. CASE SourceRequest(j)
  <2>1. CASE DisableSource(j)
    <3> DEFINE want == IF j \in offline THEN job[j] ELSE Unscheduled(job[j])
    <3>1. \/ want = job[j]
          \/ want = Retired(job[j]) /\ job[j].status \in {"pending", "failed"}
      BY <1>2
    <3>2. IsSource(j) /\ OnlyLooks(j, "request", want, FALSE, "disabled")
      BY <2>1 DEF DisableSource
    <3> HIDE DEF want
    <3>3. Allowed(j, "request", want, FALSE, "disabled")
      BY <1>1, <3>1, <3>2, RowsWanted DEF Allowed
    <3> QED  BY <1>3, <3>2, <3>3
  <2>2. CASE EnableSource(j)
    <3> DEFINE want == IF j \in offline THEN job[j] ELSE Ensured(job[j])
               due  == want # job[j]
    <3>1. \/ want = job[j]
          \/ want = Enqueued /\ job[j].status \in {"absent", "done"}
      BY <1>2
    <3>2. IsSource(j) /\ OnlyLooks(j, "request", want, due, "enabled")
      BY <2>2 DEF EnableSource, DisabledAreSources
    <3>3. due \in BOOLEAN /\ (due \/ want = job[j])
      OBVIOUS
    <3> HIDE DEF want, due
    <3>4. Allowed(j, "request", want, due, "enabled")
      BY <1>1, <3>1, <3>2, <3>3, RowsWanted DEF Allowed
    <3> QED  BY <1>3, <3>2, <3>4
  <2>3. CASE TriggerSource(j) \/ ConnectSource(j)
    <3>1. IsSource(j)
      BY <2>3 DEF TriggerSource, ConnectSource, Expected, IsSource, SourceKinds
    <3>2. Allowed(j, "request", TriggeredNow(job[j]), TRUE, "nothing")
      BY <1>1, <3>1, RowsWanted DEF Allowed
    <3>3. CASE TriggerSource(j)
      BY <1>3, <3>2, <3>3 DEF TriggerSource
    <3>4. CASE ConnectSource(j)
      BY <3>2, <3>4 DEF ConnectSource, OnlyReads
    <3> QED  BY <2>3, <3>3, <3>4
  <2>4. CASE DisconnectTeams(j)
    <3> DEFINE want == IF job[j].status \in {"pending", "running", "failed"}
                       THEN Retired(job[j]) ELSE job[j]
    <3>1. \/ want = job[j] /\ job[j].status \notin {"pending", "running", "failed"}
          \/ want = Retired(job[j]) /\ job[j].status \in {"pending", "running", "failed"}
      OBVIOUS
    <3>2. IsSource(j) /\ OnlyLooks(j, "request", want, FALSE, "offline")
      BY <2>4 DEF DisconnectTeams, IsSource, SourceKinds
    <3> HIDE DEF want
    <3>3. Allowed(j, "request", want, FALSE, "offline")
      BY <1>1, <3>1, <3>2, RowsWanted DEF Allowed
    <3> QED  BY <1>3, <3>2, <3>3
  <2> QED  BY <1>5, <2>1, <2>2, <2>3, <2>4 DEF SourceRequest
<1> QED  BY <1>4, <1>5 DEF ReadStep

\* The look that a read adds.
NewLook(j, by, want, due, sets) ==
  [id |-> j, by |-> by, status |-> Changes(job[j], want).status,
   clears |-> Changes(job[j], want).clears, due |-> due, sets |-> sets, claims |-> 0]

LEMMA LookIsFresh ==
  ASSUME NEW j \in Jobs, GoodRow(job[j]), NEW by, NEW want, NEW due, NEW sets,
         Allowed(j, by, want, due, sets), NEW l, l = NewLook(j, by, want, due, sets)
  PROVE  /\ FreshLook(l)
         /\ l.id = j /\ l.by = by /\ l.sets = sets
         /\ l.status = IF want.status = job[j].status THEN "kept" ELSE want.status
         /\ "attempts" \in l.clears <=> want.attempts # job[j].attempts
<1>1. /\ l.id = j /\ l.by = by /\ l.sets = sets /\ l.due = due /\ l.claims = 0
      /\ l.status = IF want.status = job[j].status THEN "kept" ELSE want.status
      /\ l.clears = {c \in Columns : want[c] # job[j][c]}
  BY DEF NewLook, Changes
<1>2. l \in LookType
  <2>1. l.clears \in SUBSET Columns /\ l.status \in {"kept", "pending", "done"}
    BY <1>1 DEF Allowed
  <2>2. l = [id |-> l.id, by |-> l.by, status |-> l.status, clears |-> l.clears,
             due |-> l.due, sets |-> l.sets, claims |-> l.claims]
    BY DEF NewLook
  <2> QED  BY <1>1, <2>1, <2>2 DEF LookType, Allowed
<1>3. "attempts" \in l.clears <=> want.attempts # job[j].attempts
  BY <1>1 DEF Columns
<1>4. WellFormed(l)
  <2>1. want = job[j] => l.status = "kept" /\ l.clears = {}
    BY <1>1
  <2> QED  BY <1>1, <2>1 DEF WellFormed, Allowed
<1>5. PutsBack(l) => job[l.id].attempts = 0
  BY <1>1, <1>3 DEF PutsBack, Allowed
<1> QED  BY <1>1, <1>2, <1>3, <1>4, <1>5 DEF FreshLook

LEMMA ReadsKeepAttempts ==
  ASSUME AttemptsInv, NEW j \in Jobs, OnlyReads(j)
  PROVE  AttemptsInv'
<1>1. PICK by, want, due, sets :
        Allowed(j, by, want, due, sets) /\ Look(j, by, want, due, sets)
  BY DEF OnlyReads
<1>2. looks' = looks \union {NewLook(j, by, want, due, sets)}
  BY <1>1 DEF Look, NewLook
<1>3. FreshLook(NewLook(j, by, want, due, sets))
  BY <1>1, LookIsFresh DEF AttemptsInv
<1>4. GoodRest
  BY <1>2, <1>3 DEF GoodRest, OnlyReads, AttemptsInv, TypeOK
<1>5. GoodWrite
  BY NoWriteIsGood DEF OnlyReads, AttemptsInv
<1> QED  BY <1>4, <1>5, GoodStep

\* What an UPDATE leaves of the row, over whatever the row has become.
LEMMA WrittenRow ==
  ASSUME NEW row, GoodRow(row), NEW l \in LookType, l.claims < MaxAttempts,
         PutsBack(l) => row.attempts <= l.claims
  PROVE  /\ GoodRow(Written(row, l)) /\ Written(row, l).attempts <= row.attempts
         /\ Written(row, l).status = IF l.status = "kept" THEN row.status ELSE l.status
         /\ Written(row, l).attempts = IF "attempts" \in l.clears THEN 0 ELSE row.attempts
         /\ l.clears = {} => Written(row, l).parked = row.parked
<1> DEFINE status == IF l.status = "kept" THEN row.status ELSE l.status
           attempts == IF "attempts" \in l.clears THEN 0 ELSE row.attempts
           lease == IF "lease" \in l.clears THEN "none" ELSE row.lease
           parked == row.parked /\ "parked" \notin l.clears
           transient == row.transient /\ "transient" \notin l.clears
<1>1. Written(row, l) = Row(status, attempts, lease, parked, transient)
  BY DEF Written
<1>2. /\ row.status \in Statuses /\ row.attempts \in Nat /\ row.attempts <= MaxAttempts
      /\ row.lease \in {"none", "held", "stale"}
      /\ row.parked \in BOOLEAN /\ row.transient \in BOOLEAN
      /\ row.status = "pending" => row.attempts < MaxAttempts
      /\ l.status \in {"kept", "pending", "done"} /\ l.claims \in Nat
      /\ MaxAttempts \in Nat /\ 0 < MaxAttempts
  BY GoodRowFields, Bounds DEF LookType
<1>3. status \in Statuses /\ lease \in {"none", "held", "stale"}
  BY <1>2 DEF Statuses
<1>4. attempts \in Nat /\ attempts <= MaxAttempts /\ attempts <= row.attempts
  BY <1>2
<1>5. status = "pending" => attempts < MaxAttempts
  BY <1>2 DEF PutsBack
<1>6. parked \in BOOLEAN /\ transient \in BOOLEAN /\ (l.clears = {} => parked = row.parked)
  BY <1>2
<1> HIDE DEF status, attempts, lease, parked, transient
<1>7. GoodRow(Row(status, attempts, lease, parked, transient))
  BY <1>3, <1>4, <1>5, <1>6 DEF GoodRow, JobRow, Row
<1>8. /\ Written(row, l).status = status /\ Written(row, l).attempts = attempts
      /\ Written(row, l).parked = parked
  BY <1>1 DEF Row
<1> QED  BY <1>1, <1>4, <1>6, <1>7, <1>8 DEF status, attempts

\* A commit: which row it writes, and that the row is good.
LEMMA LandWrites ==
  ASSUME AttemptsInv, NEW l \in looks, Land(l)
  PROVE  /\ l \in LookType /\ l.id \in Jobs /\ GoodRow(Written(job[l.id], l))
         /\ Written(job[l.id], l).attempts <= job[l.id].attempts
         /\ Written(job[l.id], l).status =
              IF l.status = "kept" THEN job[l.id].status ELSE l.status
         /\ Written(job[l.id], l).attempts =
              IF "attempts" \in l.clears THEN 0 ELSE job[l.id].attempts
         /\ l.clears = {} => Written(job[l.id], l).parked = job[l.id].parked
         /\ \/ l.due /\ WriteNow(l.id, Written(job[l.id], l))
            \/ ~l.due /\ Write(l.id, Written(job[l.id], l))
         /\ looks' = looks \ {l} /\ UNCHANGED <<worker, effects>>
<1>1. /\ l \in LookType /\ l.id \in Jobs /\ l.claims < MaxAttempts
      /\ GoodRow(job[l.id])
      /\ PutsBack(l) => job[l.id].attempts <= l.claims
  BY DEF AttemptsInv, TypeOK, LookType
<1>2. /\ \/ l.due /\ WriteNow(l.id, Written(job[l.id], l))
         \/ ~l.due /\ Write(l.id, Written(job[l.id], l))
      /\ looks' = looks \ {l} /\ UNCHANGED <<worker, effects>>
  BY DEF Land
<1> HIDE DEF Land
<1> QED  BY <1>1, <1>2, WrittenRow

LEMMA LandKeepsAttempts ==
  ASSUME AttemptsInv, NEW l \in looks, Land(l)
  PROVE  AttemptsInv'
<1>1. /\ l.id \in Jobs /\ GoodRow(Written(job[l.id], l))
      /\ Written(job[l.id], l).attempts <= job[l.id].attempts
      /\ WriteNow(l.id, Written(job[l.id], l)) \/ Write(l.id, Written(job[l.id], l))
      /\ looks' = looks \ {l} /\ UNCHANGED <<worker, effects>>
  BY LandWrites
<1>2. GoodWrite
  BY <1>1, WriteIsGood DEF AttemptsInv
<1>3. /\ disabled' \subseteq Jobs /\ offline' \subseteq Jobs /\ dropped' \subseteq Jobs
      /\ spent' \in [Jobs -> Nat]
  BY <1>1 DEF Land, AttemptsInv, TypeOK
<1>4. GoodRest
  BY <1>1, <1>3 DEF GoodRest, AttemptsInv, TypeOK
<1> QED  BY <1>2, <1>4, GoodStep

LEMMA EnqueueKeepsAttempts ==
  ASSUME AttemptsInv, NEW j \in Jobs, Enqueue(j) \/ Cancel(j)
  PROVE  AttemptsInv'
<1>1. /\ TypeOK /\ GoodRow(Enqueued) /\ GoodRow(Done(job[j]))
      /\ Enqueued.attempts <= job[j].attempts /\ Done(job[j]).attempts <= job[j].attempts
  BY SettledRows, SettledAttempts, FreshRows DEF AttemptsInv
<1>2. GoodWrite
  BY <1>1, WriteIsGood DEF Enqueue, Cancel
<1>3. GoodRest
  BY <1>1 DEF Enqueue, Cancel, GoodRest, TypeOK
<1> QED  BY <1>2, <1>3, GoodStep

LEMMA NextKeepsAttempts ==
  ASSUME AttemptsInv, DisabledAreSources, [Next]_vars
  PROVE  AttemptsInv'
<1>1. CASE UNCHANGED vars
  BY <1>1 DEF vars, AttemptsInv, TypeOK, WellFormed, PutsBack
<1>2. ASSUME NEW j \in Jobs,
             BecomeDue(j) \/ LeaseExpires(j) \/ MaintenanceStep(j) \/ RequestStep(j)
      PROVE  AttemptsInv'
  BY <1>2, TimeKeepsAttempts, LooksOnlyRead, ReadsKeepAttempts, EnqueueKeepsAttempts
  DEF RequestStep, ReadStep
<1>3. ASSUME NEW w \in Workers, WorkerStep(w) \/ LoseOutcome(w)
      PROVE  AttemptsInv'
  <2>1. "fatal" \in Errors
    BY DEF Errors
  <2> QED
    BY <1>3, <2>1, ClaimKeepsAttempts, EndOfClaimKeepsAttempts,
       HandlerPhasesKeepAttempts, ParkKeepsAttempts, RecordFailureKeepsAttempts
    DEF WorkerStep
<1>4. ASSUME NEW w \in Workers, NEW j \in Jobs, ClaimOutOfAttempts(w, j)
      PROVE  AttemptsInv'
  BY <1>1, <1>4 DEF ClaimOutOfAttempts
<1>5. ASSUME NEW l \in looks, Land(l)
      PROVE  AttemptsInv'
  BY <1>5, LandKeepsAttempts
<1> QED  BY <1>1, <1>2, <1>3, <1>4, <1>5 DEF Next

LEMMA DisabledStaySources ==
  ASSUME AttemptsInv, DisabledAreSources, [Next]_vars
  PROVE  DisabledAreSources'
<1>1. CASE UNCHANGED <<disabled, looks>>
  BY <1>1 DEF DisabledAreSources, IsSource
<1>2. ASSUME NEW j \in Jobs, ReadStep(j)
      PROVE  DisabledAreSources'
  <2>1. OnlyReads(j)
    BY <1>2, LooksOnlyRead
  <2>2. PICK by, want, due, sets :
          Allowed(j, by, want, due, sets) /\ Look(j, by, want, due, sets)
    BY <2>1 DEF OnlyReads
  <2>3. looks' = looks \union {NewLook(j, by, want, due, sets)} /\ disabled' = disabled
    BY <2>1, <2>2 DEF Look, NewLook, OnlyReads
  <2>4. /\ NewLook(j, by, want, due, sets).id = j
        /\ NewLook(j, by, want, due, sets).sets = sets
    BY DEF NewLook
  <2>5. sets # "nothing" => IsSource(j)
    BY <2>2 DEF Allowed
  <2> QED  BY <2>3, <2>4, <2>5 DEF DisabledAreSources, IsSource
<1>3. ASSUME NEW l \in looks, Land(l)
      PROVE  DisabledAreSources'
  <2>1. /\ looks' = looks \ {l}
        /\ \A j \in disabled' : j \in disabled \/ (l.sets = "disabled" /\ j = l.id)
    BY <1>3 DEF Land
  <2> QED  BY <2>1 DEF DisabledAreSources, IsSource
<1>4. ASSUME NEW w \in Workers, NEW j \in Jobs, Claim(w, j)
      PROVE  DisabledAreSources'
  <2>1. disabled' = disabled /\ looks' = {Older(l, j) : l \in looks}
    BY <1>4 DEF Claim
  <2>2. \A l \in looks : Older(l, j).id = l.id /\ Older(l, j).sets = l.sets
    BY OlderLook DEF AttemptsInv, TypeOK
  <2> QED  BY <2>1, <2>2 DEF DisabledAreSources, IsSource
<1>5. ASSUME NEW j \in Jobs, BecomeDue(j) \/ LeaseExpires(j) \/ Enqueue(j) \/ Cancel(j)
      PROVE  UNCHANGED <<disabled, looks>>
  BY <1>5 DEF BecomeDue, LeaseExpires, Enqueue, Cancel
<1>6. ASSUME NEW w \in Workers, NEW error \in Errors,
             \/ UnknownType(w) \/ RetireInsteadOfRun(w) \/ StartHandler(w)
             \/ HandlerSucceeds(w) \/ HandlerRaises(w, error) \/ ParkUntilBudgetReset(w)
             \/ RecordFailure(w) \/ LoseOutcome(w)
      PROVE  UNCHANGED <<disabled, looks>>
  BY <1>6 DEF UnknownType, RetireInsteadOfRun, StartHandler, HandlerSucceeds,
     HandlerRaises, ParkUntilBudgetReset, RecordFailure, LoseOutcome
<1>7. ASSUME NEW w \in Workers, NEW j \in Jobs, ClaimOutOfAttempts(w, j)
      PROVE  UNCHANGED <<disabled, looks>>
  BY <1>7 DEF ClaimOutOfAttempts, vars
<1>8. CASE UNCHANGED vars
  BY <1>1, <1>8 DEF vars
<1>9. "fatal" \in Errors
  BY DEF Errors
<1>10. \A j \in Jobs : RequestStep(j) => Enqueue(j) \/ Cancel(j) \/ ReadStep(j)
  BY DEF RequestStep, ReadStep
<1>11. \A j \in Jobs : MaintenanceStep(j) => ReadStep(j)
  BY DEF ReadStep
<1> QED
  BY <1>1, <1>2, <1>3, <1>4, <1>5, <1>6, <1>7, <1>8, <1>9, <1>10, <1>11
  DEF Next, WorkerStep

TypedInv == AttemptsInv /\ DisabledAreSources

LEMMA InitAttempts == Init => TypedInv
<1> SUFFICES ASSUME Init PROVE TypedInv
  OBVIOUS
<1>1. \A j \in Jobs : GoodRow(job[j])
  BY FreshRows DEF Init
<1>2. looks = {}
  BY DEF Init
<1>3. TypeOK
  BY <1>2, FreshRows, EmptySeq DEF Init, TypeOK, GoodRow
<1>4. DisabledAreSources
  BY <1>2 DEF Init, DisabledAreSources
<1> QED  BY <1>1, <1>2, <1>3, <1>4 DEF AttemptsInv, TypedInv

LEMMA AttemptsInvariant == Spec => []TypedInv
<1>1. TypedInv /\ [Next]_vars => TypedInv'
  BY NextKeepsAttempts, DisabledStaySources DEF TypedInv
<1> QED  BY <1>1, InitAttempts, PTL DEF Spec

\* Every row, thread and history keeps its type, for any jobs, threads, lanes and
\* attempt limit: attempts never fall below zero, whatever parks a job.
THEOREM JobQueueTypes == Spec => []TypeOK
<1>1. TypedInv => TypeOK
  BY DEF TypedInv, AttemptsInv
<1> QED  BY <1>1, AttemptsInvariant, PTL

\* No path through retries, parking, stale takeovers and rearming gives a row more
\* than MAX_JOB_ATTEMPTS claims, with any number of threads, lanes and
\* overlapping requests.
THEOREM JobAttemptsBounded == Spec => []AttemptsBounded
<1>1. TypedInv => AttemptsBounded
  BY DEF TypedInv, AttemptsInv, GoodRow, AttemptsBounded
<1> QED  BY <1>1, AttemptsInvariant, PTL

-----------------------------------------------------------------------------
(* One thread for each lane, the deployment of worker/run.py: the threads  *)
(* poll disjoint sets of job types in a single process.                    *)

OneThreadPerLane == \A v, w \in Workers : Polls[v] = Polls[w] => v = w

\* What has been read and is to be written.  A row was not running when it was read,
\* unless a sign-out read it; of a job that is not a source only a pass changes the
\* status, of a review, and puts it back only where it has failed; and one pass at a
\* time reads a row.
LookRule(l) ==
  /\ (l.claims = 0 /\ l.status # "kept" /\ l.sets # "offline") =>
       job[l.id].status # "running"
  /\ ~IsSource(l.id) =>
       /\ l.status # "kept" => Kind[l.id] = "proactive" /\ l.by = "pass"
       /\ l.status = "pending" => job[l.id].status = "failed"
       /\ "attempts" \in l.clears => l.status = "pending"

LookRules ==
  /\ \A l \in looks : LookRule(l)
  /\ \A l, m \in looks : l.id = m.id /\ l.by = "pass" /\ m.by = "pass" => l = m

\* A thread's job has no effects yet.  Its row is running, but a review's may be done.
HeldInv ==
  \A w \in Workers :
    worker[w] # Idle /\ ~IsSource(worker[w].id) =>
      /\ effects[worker[w].id] = 0
      /\ \/ job[worker[w].id].status = "running"
         \/ job[worker[w].id].status = "done" /\ Kind[worker[w].id] = "proactive"

\* A dropped job that is not a review stays done.
DroppedStay ==
  \A j \in dropped : ~IsSource(j) /\ Kind[j] # "proactive" => job[j].status = "done"

\* Threads hold jobs of their own lane, so that a job has one thread at most.
ExclusiveInv ==
  /\ TypedInv
  /\ \A w \in Workers : worker[w] # Idle => LaneOf[worker[w].id] = Polls[w]
  /\ LookRules
  /\ HeldInv
  /\ DroppedStay
  /\ DoneIffEffects

LEMMA ExclusiveTypes ==
  ASSUME ExclusiveInv
  PROVE  /\ AttemptsInv /\ DisabledAreSources
         /\ job \in [Jobs -> JobRow] /\ spent \in [Jobs -> Nat] /\ effects \in [Jobs -> Nat]
         /\ worker \in [Workers -> {Idle} \union Busy] /\ dropped \subseteq Jobs
         /\ \A j \in Jobs : GoodRow(job[j]) /\ job[j].attempts \in Nat
         /\ \A w \in Workers : worker[w] # Idle => worker[w].id \in Jobs
         /\ \A l \in looks : l \in LookType /\ l.id \in Jobs /\ l.claims \in Nat
BY WorkerPhases, GoodRowFields DEF ExclusiveInv, TypedInv, AttemptsInv, TypeOK, LookType

LEMMA OneThreadPerJob ==
  ASSUME OneThreadPerLane, ExclusiveInv, NEW v \in Workers, NEW w \in Workers,
         worker[v] # Idle, worker[w] # Idle, worker[v].id = worker[w].id
  PROVE  v = w
BY DEF ExclusiveInv, OneThreadPerLane

\* What the transitions do to the status.
LEMMA RowStatuses ==
  ASSUME NEW row
  PROVE  /\ Enqueued.status = "pending"
         /\ Claimed(row).status = "running"
         /\ Done(row).status = "done"
         /\ Retired(row).status = "done"
         /\ Failed(row).status = "failed"
         /\ Parked(row).status = "pending"
         /\ RecurringFailed(row).status = "failed"
BY DEF Enqueued, Claimed, Done, Retired, Failed, Parked, RecurringFailed, Row

LEMMA FailureIsNotDone ==
  ASSUME NEW kind, NEW error, NEW row
  PROVE  AfterFailure(kind, error, row).status \in {"pending", "failed"}
<1>1. Retried(kind, error, row).status \in {"pending", "failed"}
  BY RowStatuses DEF Retried, Requeued, Failed, Row
<1>2. /\ TransientRetried(row).status = "pending"
      /\ FloodRetried(row).status = "pending"
  BY DEF TransientRetried, FloodRetried, Row
<1> QED  BY <1>1, <1>2, RowStatuses DEF AfterFailure

\* A write that leaves no row running that was not, and no look at a row that it is to
\* put back but that is no longer failed.
LEMMA WriteKeepsLooks ==
  ASSUME LookRules, NEW j \in Jobs, job \in [Jobs -> JobRow], NEW row,
         job' = [job EXCEPT ![j] = row], looks' \subseteq looks,
         \A l \in looks : l.id \in Jobs,
         row.status = "running" => job[j].status = "running",
         (~IsSource(j) /\ job[j].status = "failed" /\ row.status # "failed") =>
            \A l \in looks' : l.id = j => l.status # "pending"
  PROVE  LookRules'
<1>1. job'[j] = row /\ \A i \in Jobs : i # j => job'[i] = job[i]
  OBVIOUS
<1>2. ASSUME NEW l \in looks'
      PROVE  LookRule(l)'
  <2>1. l \in looks /\ l.id \in Jobs /\ LookRule(l)
    BY DEF LookRules
  <2>2. CASE l.id = j
    BY <1>1, <2>1, <2>2 DEF LookRule, IsSource
  <2>3. CASE l.id # j
    BY <1>1, <2>1, <2>3 DEF LookRule, IsSource
  <2> QED  BY <2>2, <2>3
<1> QED  BY <1>2 DEF LookRules

LEMMA ReadKeepsLooks ==
  ASSUME TypedInv, LookRules, NEW j \in Jobs, OnlyReads(j)
  PROVE  LookRules'
<1>1. PICK by, want, due, sets :
        Allowed(j, by, want, due, sets) /\ Look(j, by, want, due, sets)
  BY DEF OnlyReads
<1> DEFINE new == NewLook(j, by, want, due, sets)
<1>2. looks' = looks \union {new} /\ job' = job
  BY <1>1 DEF Look, NewLook, OnlyReads
<1>3. /\ new.id = j /\ new.by = by /\ new.sets = sets
      /\ new.status = IF want.status = job[j].status THEN "kept" ELSE want.status
      /\ "attempts" \in new.clears <=> want.attempts # job[j].attempts
  BY <1>1, LookIsFresh DEF TypedInv, AttemptsInv
<1>4. by = "pass" => \A l \in looks : l.by = "pass" => l.id # j
  BY <1>1 DEF Look
<1> HIDE DEF new
<1>5. LookRule(new)
  <2>1. (new.status # "kept" /\ new.sets # "offline") => job[j].status # "running"
    BY <1>1, <1>3 DEF Allowed
  <2>2. CASE ~IsSource(j)
    <3>1. \/ want.status = job[j].status /\ want.attempts = job[j].attempts
          \/ /\ Kind[j] = "proactive" /\ by = "pass"
             /\ \/ want.status = "done" /\ want.attempts = job[j].attempts
                \/ want.status = "pending" /\ job[j].status = "failed"
      BY <1>1, <2>2 DEF Allowed
    <3> QED  BY <1>3, <2>1, <3>1 DEF LookRule
  <2> QED  BY <1>3, <2>1, <2>2 DEF LookRule
<1>6. \A l \in looks' : LookRule(l)'
  BY <1>2, <1>5 DEF LookRules, LookRule, IsSource
<1>7. \A l, m \in looks' : l.id = m.id /\ l.by = "pass" /\ m.by = "pass" => l = m
  BY <1>2, <1>3, <1>4 DEF LookRules
<1> QED  BY <1>6, <1>7 DEF LookRules

LEMMA ClaimKeepsLooks ==
  ASSUME ExclusiveInv, NEW w \in Workers, NEW j \in Jobs, Claim(w, j)
  PROVE  LookRules'
<1>1. /\ job[j].status \in {"pending", "running"}
      /\ \A i \in Jobs : i # j => job'[i] = job[i]
      /\ looks' = {Older(l, j) : l \in looks}
  BY ExclusiveTypes DEF Claim, IsHead, Claimable, Write
<1>2. ASSUME NEW l \in looks
      PROVE  LookRule(Older(l, j))'
  <2>1. l \in LookType /\ l.id \in Jobs /\ l.claims \in Nat /\ LookRule(l)
    BY ExclusiveTypes DEF ExclusiveInv, LookRules
  <2> DEFINE m == Older(l, j)
  <2>2. /\ m.id = l.id /\ m.by = l.by /\ m.status = l.status
        /\ m.clears = l.clears /\ m.sets = l.sets
        /\ m.claims = IF l.id = j THEN l.claims + 1 ELSE l.claims
    BY <2>1, OlderLook
  <2> HIDE DEF m
  <2>3. CASE l.id = j
    <3>1. m.claims # 0
      BY <2>1, <2>2, <2>3
    <3>2. ~IsSource(j) => l.status # "pending"
      BY <1>1, <2>1, <2>3 DEF LookRule
    <3>3. LookRule(m)'
      BY <2>1, <2>2, <2>3, <3>1, <3>2 DEF LookRule, IsSource
    <3> QED  BY <3>3 DEF m
  <2>4. CASE l.id # j
    <3>1. LookRule(m)'
      BY <1>1, <2>1, <2>2, <2>4 DEF LookRule, IsSource
    <3> QED  BY <3>1 DEF m
  <2> QED  BY <2>3, <2>4
<1>3. ASSUME NEW l \in looks, NEW m \in looks,
             Older(l, j).id = Older(m, j).id,
             Older(l, j).by = "pass", Older(m, j).by = "pass"
      PROVE  Older(l, j) = Older(m, j)
  <2>1. l.id = m.id /\ l.by = "pass" /\ m.by = "pass"
    BY <1>3, OlderLook, ExclusiveTypes
  <2> QED  BY <2>1 DEF ExclusiveInv, LookRules
<1> QED  BY <1>1, <1>2, <1>3 DEF LookRules

\* The writes of a request, a pass or a clock.  A job that is not a source keeps its
\* status, is dropped, or enters the queue where it has failed or was never in it.
LEMMA OutsideWrite ==
  ASSUME ExclusiveInv, TypedInv', LookRules', NEW j \in Jobs, UNCHANGED <<worker, effects>>,
         NEW row, job' = [job EXCEPT ![j] = row],
         \A i \in Jobs : i # j => (i \in dropped' <=> i \in dropped),
         ~IsSource(j) =>
           \/ row.status = job[j].status /\ dropped' = dropped
           \/ /\ row.status = "done" /\ dropped' = dropped \union {j}
              /\ Kind[j] = "proactive" \/ job[j].status = "pending"
           \/ /\ row.status = "pending" /\ dropped' = dropped
              /\ job[j].status \in {"absent", "failed"}
  PROVE  ExclusiveInv'
<1>1. /\ job'[j] = row
      /\ \A i \in Jobs : i # j => job'[i] = job[i]
  BY ExclusiveTypes
<1>2. \A w \in Workers : worker[w] # Idle => worker[w].id \in Jobs
  BY ExclusiveTypes
<1>3. ASSUME NEW w \in Workers, worker[w] # Idle, ~IsSource(worker[w].id)
      PROVE  /\ effects[worker[w].id] = 0
             /\ \/ job'[worker[w].id].status = "running"
                \/ job'[worker[w].id].status = "done" /\ Kind[worker[w].id] = "proactive"
  <2>1. /\ effects[worker[w].id] = 0
        /\ \/ job[worker[w].id].status = "running"
           \/ job[worker[w].id].status = "done" /\ Kind[worker[w].id] = "proactive"
    BY <1>3 DEF ExclusiveInv, HeldInv
  <2>2. CASE worker[w].id = j
    BY <1>1, <1>3, <2>1, <2>2
  <2>3. CASE worker[w].id # j
    BY <1>1, <1>2, <1>3, <2>1, <2>3
  <2> QED  BY <2>2, <2>3
<1>4. HeldInv'
  BY <1>3 DEF HeldInv, IsSource
<1>5. ASSUME NEW i \in Jobs, ~IsSource(i)
      PROVE  /\ effects[i] \in {0, 1}
             /\ effects[i] = 1 => job'[i].status = "done"
             /\ job'[i].status = "done" => effects[i] = 1 \/ i \in dropped'
             /\ (i \in dropped' /\ Kind[i] # "proactive") =>
                  effects[i] = 0 /\ job'[i].status = "done"
  <2>1. /\ effects[i] \in {0, 1}
        /\ effects[i] = 1 => job[i].status = "done"
        /\ job[i].status = "done" => effects[i] = 1 \/ i \in dropped
        /\ (i \in dropped /\ Kind[i] # "proactive") =>
             effects[i] = 0 /\ job[i].status = "done"
    BY <1>5 DEF ExclusiveInv, DoneIffEffects, DroppedStay
  <2>2. CASE i = j
    BY <1>1, <1>5, <2>1, <2>2
  <2>3. CASE i # j
    BY <1>1, <2>1, <2>3
  <2> QED  BY <2>2, <2>3
<1>6. dropped' \subseteq Jobs
  BY DEF TypedInv, AttemptsInv, TypeOK
<1>7. DoneIffEffects' /\ DroppedStay'
  BY <1>5, <1>6 DEF DoneIffEffects, DroppedStay, IsSource
<1> QED  BY <1>4, <1>7 DEF ExclusiveInv

LEMMA NoOutsideWrite ==
  ASSUME ExclusiveInv, TypedInv', LookRules', UNCHANGED <<job, worker, effects, dropped>>
  PROVE  ExclusiveInv'
BY DEF ExclusiveInv, HeldInv, DroppedStay, DoneIffEffects, IsSource

LEMMA SameLooks ==
  ASSUME LookRules, UNCHANGED <<job, looks>>
  PROVE  LookRules'
BY DEF LookRules, LookRule, IsSource

\* The thread gives its job up with its row in a final state, or back in the queue.
LEMMA ThreadFinishes ==
  ASSUME OneThreadPerLane, ExclusiveInv, TypedInv', UNCHANGED <<looks, dropped>>,
         NEW w \in Workers, worker[w] # Idle, worker' = [worker EXCEPT ![w] = Idle],
         NEW row, job' = [job EXCEPT ![worker[w].id] = row], row.status # "running",
         \A i \in Jobs : i # worker[w].id => effects'[i] = effects[i],
         ~IsSource(worker[w].id) =>
           effects'[worker[w].id] = IF row.status = "done" THEN 1 ELSE 0
  PROVE  ExclusiveInv'
<1> DEFINE j == worker[w].id
<1>1. j \in Jobs
  BY ExclusiveTypes
<1>2. /\ job'[j] = row
      /\ \A i \in Jobs : i # j => job'[i] = job[i]
  BY <1>1, ExclusiveTypes
<1>3. \A v \in Workers : worker'[v] # Idle =>
        worker'[v] = worker[v] /\ worker[v].id \in Jobs /\ worker[v].id # j
  <2> SUFFICES ASSUME NEW v \in Workers, worker'[v] # Idle
               PROVE  worker'[v] = worker[v] /\ worker[v].id \in Jobs /\ worker[v].id # j
    OBVIOUS
  <2>1. v # w /\ worker'[v] = worker[v]
    BY ExclusiveTypes
  <2>2. worker[v].id \in Jobs
    BY <2>1, ExclusiveTypes
  <2>3. worker[v].id # j
    BY <2>1, OneThreadPerJob
  <2> QED  BY <2>1, <2>2, <2>3
<1>4. ~IsSource(j) =>
        /\ job[j].status \in {"running", "done"}
        /\ j \notin dropped \/ Kind[j] = "proactive"
  BY <1>1 DEF ExclusiveInv, HeldInv, DroppedStay
<1>5. LookRules'
  <2>1. /\ LookRules /\ job \in [Jobs -> JobRow] /\ looks' \subseteq looks
        /\ \A l \in looks : l.id \in Jobs
    BY ExclusiveTypes DEF ExclusiveInv
  <2>2. ~IsSource(j) => job[j].status # "failed"
    BY <1>4
  <2> QED  BY <1>1, <2>1, <2>2, WriteKeepsLooks
<1>6. HeldInv'
  <2> SUFFICES ASSUME NEW v \in Workers, worker'[v] # Idle, ~IsSource(worker'[v].id)
               PROVE  /\ effects'[worker'[v].id] = 0
                      /\ \/ job'[worker'[v].id].status = "running"
                         \/ /\ job'[worker'[v].id].status = "done"
                            /\ Kind[worker'[v].id] = "proactive"
    BY DEF HeldInv, IsSource
  <2>1. worker'[v] = worker[v] /\ worker[v].id \in Jobs /\ worker[v].id # j
    BY <1>3
  <2>2. /\ effects[worker[v].id] = 0
        /\ \/ job[worker[v].id].status = "running"
           \/ job[worker[v].id].status = "done" /\ Kind[worker[v].id] = "proactive"
    BY <2>1 DEF ExclusiveInv, HeldInv
  <2> QED  BY <1>2, <2>1, <2>2
<1>7. ASSUME NEW i \in Jobs, ~IsSource(i)
      PROVE  /\ effects'[i] \in {0, 1}
             /\ effects'[i] = 1 => job'[i].status = "done"
             /\ job'[i].status = "done" => effects'[i] = 1 \/ i \in dropped
             /\ (i \in dropped /\ Kind[i] # "proactive") =>
                  effects'[i] = 0 /\ job'[i].status = "done"
  <2>1. CASE i = j
    BY <1>2, <1>4, <1>7, <2>1
  <2>2. CASE i # j
    <3>1. effects'[i] = effects[i] /\ job'[i] = job[i]
      BY <1>2, <2>2
    <3> QED  BY <1>7, <3>1 DEF ExclusiveInv, DoneIffEffects, DroppedStay
  <2> QED  BY <2>1, <2>2
<1>8. dropped \subseteq Jobs
  BY ExclusiveTypes
<1>9. DoneIffEffects' /\ DroppedStay'
  BY <1>7, <1>8 DEF DoneIffEffects, DroppedStay, IsSource
<1>10. \A v \in Workers : worker'[v] # Idle => LaneOf[worker'[v].id] = Polls[v]
  BY <1>3 DEF ExclusiveInv
<1> QED  BY <1>5, <1>6, <1>9, <1>10 DEF ExclusiveInv

\* The thread keeps its job and moves on, or loses it without writing the row.
LEMMA ThreadMoves ==
  ASSUME ExclusiveInv, TypedInv', NEW w \in Workers, worker[w] # Idle, NEW held,
         held = Idle \/ held.id = worker[w].id,
         worker' = [worker EXCEPT ![w] = held], UNCHANGED <<job, looks, effects, dropped>>
  PROVE  ExclusiveInv'
<1>1. worker'[w] = held /\ \A v \in Workers : v # w => worker'[v] = worker[v]
  BY ExclusiveTypes
<1>2. HeldInv'
  BY <1>1 DEF ExclusiveInv, HeldInv, IsSource
<1>3. \A v \in Workers : worker'[v] # Idle => LaneOf[worker'[v].id] = Polls[v]
  BY <1>1 DEF ExclusiveInv
<1>4. DoneIffEffects' /\ DroppedStay'
  BY DEF ExclusiveInv, DoneIffEffects, DroppedStay, IsSource
<1>5. LookRules'
  BY SameLooks DEF ExclusiveInv
<1> QED  BY <1>2, <1>3, <1>4, <1>5 DEF ExclusiveInv

LEMMA ClaimKeepsExclusive ==
  ASSUME ExclusiveInv, TypedInv', NEW w \in Workers, NEW j \in Jobs, Claim(w, j)
  PROVE  ExclusiveInv'
<1>1. /\ job[j].status \in {"pending", "running"}
      /\ LaneOf[j] = Polls[w]
  BY DEF Claim, IsHead, Claimable
<1>2. /\ job'[j].status = "running"
      /\ \A i \in Jobs : i # j => job'[i] = job[i]
      /\ effects' = effects /\ dropped' = dropped
  BY RowStatuses, ExclusiveTypes DEF Claim, Write
<1>3. /\ worker'[w].id = j
      /\ \A v \in Workers : v # w => worker'[v] = worker[v]
  BY ExclusiveTypes DEF Claim
<1>4. \A v \in Workers : worker[v] # Idle => worker[v].id \in Jobs
  BY ExclusiveTypes
<1>5. ~IsSource(j) => effects[j] = 0 /\ (j \in dropped => Kind[j] = "proactive")
  BY <1>1 DEF ExclusiveInv, DoneIffEffects, DroppedStay
<1>6. HeldInv'
  <2> SUFFICES ASSUME NEW v \in Workers, worker'[v] # Idle, ~IsSource(worker'[v].id)
               PROVE  /\ effects[worker'[v].id] = 0
                      /\ \/ job'[worker'[v].id].status = "running"
                         \/ /\ job'[worker'[v].id].status = "done"
                            /\ Kind[worker'[v].id] = "proactive"
    BY <1>2 DEF HeldInv, IsSource
  <2>1. CASE worker'[v].id = j
    BY <1>2, <1>5, <2>1
  <2>2. CASE worker'[v].id # j
    <3>1. worker'[v] = worker[v] /\ worker[v].id \in Jobs
      BY <1>3, <1>4, <2>2
    <3> QED  BY <1>2, <2>2, <3>1 DEF ExclusiveInv, HeldInv
  <2> QED  BY <2>1, <2>2
<1>7. DoneIffEffects'
  BY <1>2, <1>5 DEF ExclusiveInv, DoneIffEffects, IsSource
<1>8. DroppedStay'
  <2>1. dropped \subseteq Jobs
    BY ExclusiveTypes
  <2> QED  BY <1>2, <1>5, <2>1 DEF ExclusiveInv, DroppedStay, IsSource
<1>9. \A v \in Workers : worker'[v] # Idle => LaneOf[worker'[v].id] = Polls[v]
  BY <1>1, <1>3 DEF ExclusiveInv
<1>10. LookRules'
  BY ClaimKeepsLooks
<1> QED  BY <1>6, <1>7, <1>8, <1>9, <1>10 DEF ExclusiveInv

LEMMA FinishKeepsExclusive ==
  ASSUME OneThreadPerLane, ExclusiveInv, TypedInv', NEW w \in Workers,
         \/ UnknownType(w) \/ RetireInsteadOfRun(w) \/ HandlerSucceeds(w)
         \/ ParkUntilBudgetReset(w) \/ RecordFailure(w)
  PROVE  ExclusiveInv'
<1> DEFINE j == worker[w].id
<1>1. worker[w] # Idle /\ j \in Jobs
  BY ExclusiveTypes, WorkerPhases
  DEF AttemptsInv, UnknownType, RetireInsteadOfRun, HandlerSucceeds,
      ParkUntilBudgetReset, RecordFailure
<1>2. worker' = [worker EXCEPT ![w] = Idle] /\ UNCHANGED <<looks, dropped>>
  BY DEF UnknownType, RetireInsteadOfRun, HandlerSucceeds, ParkUntilBudgetReset,
         RecordFailure
<1>3. ~IsSource(j) => effects[j] = 0
  BY <1>1 DEF ExclusiveInv, HeldInv
<1>4. CASE HandlerSucceeds(w) /\ ~IsSource(j)
  <2>1. /\ job' = [job EXCEPT ![j] = Done(job[j])]
        /\ effects' = [effects EXCEPT ![j] = @ + 1]
    BY <1>4 DEF HandlerSucceeds, Write, SwitchedOff
  <2>2. \A i \in Jobs : i # j => effects'[i] = effects[i]
    BY <2>1, ExclusiveTypes
  <2>3. effects'[j] = 1
    BY <1>1, <1>3, <1>4, <2>1, ExclusiveTypes
  <2>4. Done(job[j]).status = "done"
    BY RowStatuses
  <2> HIDE DEF j
  <2>5. effects'[j] = IF Done(job[j]).status = "done" THEN 1 ELSE 0
    BY <2>3, <2>4
  <2> QED  BY <1>1, <1>2, <2>1, <2>2, <2>4, <2>5, ThreadFinishes DEF j
<1>5. CASE ~(HandlerSucceeds(w) /\ ~IsSource(j))
  <2>1. /\ effects' = effects
        /\ \E r : /\ job' = [job EXCEPT ![j] = r] /\ r.status # "running"
                  /\ ~IsSource(j) => r.status # "done"
    <3>1. CASE UnknownType(w)
      <4>1. /\ effects' = effects /\ job' = [job EXCEPT ![j] = Failed(job[j])]
            /\ Failed(job[j]).status = "failed"
        BY <3>1, RowStatuses DEF UnknownType, Write
      <4> QED  BY <4>1
    <3>2. CASE RetireInsteadOfRun(w)
      <4>1. /\ effects' = effects /\ job' = [job EXCEPT ![j] = Retired(job[j])]
            /\ Retired(job[j]).status = "done" /\ IsSource(j)
        BY <3>2, RowStatuses DEF RetireInsteadOfRun, Write, SwitchedOff
      <4> QED  BY <4>1
    <3>3. CASE HandlerSucceeds(w)
      <4>1. /\ effects' = effects /\ IsSource(j)
            /\ \/ job' = [job EXCEPT ![j] = Retired(job[j])]
               \/ job' = [job EXCEPT ![j] = Enqueued]
        BY <1>5, <3>3
        DEF HandlerSucceeds, Write, WriteLater, SwitchedOff, RecurringSucceeded
      <4>2. Retired(job[j]).status = "done" /\ Enqueued.status = "pending"
        BY RowStatuses
      <4> QED  BY <4>1, <4>2
    <3>4. CASE ParkUntilBudgetReset(w)
      <4>1. /\ effects' = effects /\ job' = [job EXCEPT ![j] = Parked(job[j])]
            /\ Parked(job[j]).status = "pending"
        BY <3>4, RowStatuses DEF ParkUntilBudgetReset
      <4> QED  BY <4>1
    <3>5. CASE RecordFailure(w)
      <4> DEFINE row == AfterFailure(Kind[j], worker[w].error, job[j])
      <4>1. /\ effects' = effects
            /\ \/ job' = [job EXCEPT ![j] = Retired(job[j])] /\ IsSource(j)
               \/ job' = [job EXCEPT ![j] = row]
        BY <3>5 DEF RecordFailure, Write, WriteLater, SwitchedOff
      <4>2. Retired(job[j]).status = "done" /\ row.status \in {"pending", "failed"}
        BY RowStatuses, FailureIsNotDone
      <4> HIDE DEF row
      <4> QED  BY <4>1, <4>2
    <3> QED  BY <3>1, <3>2, <3>3, <3>4, <3>5
  <2>2. PICK r : /\ job' = [job EXCEPT ![j] = r] /\ r.status # "running"
                 /\ ~IsSource(j) => r.status # "done"
    BY <2>1
  <2> QED  BY <1>1, <1>2, <1>3, <2>1, <2>2, ThreadFinishes
<1> QED  BY <1>4, <1>5

LEMMA TimeKeepsExclusive ==
  ASSUME ExclusiveInv, TypedInv', NEW j \in Jobs,
         BecomeDue(j) \/ LeaseExpires(j) \/ Enqueue(j) \/ Cancel(j)
  PROVE  ExclusiveInv'
<1>1. UNCHANGED <<worker, effects, looks>> /\ LookRules /\ \A l \in looks : l.id \in Jobs
  BY ExclusiveTypes DEF BecomeDue, LeaseExpires, Enqueue, Cancel, ExclusiveInv
<1>2. CASE BecomeDue(j)
  BY <1>1, <1>2, SameLooks, NoOutsideWrite DEF BecomeDue
<1>3. CASE LeaseExpires(j)
  <2> DEFINE row == [job[j] EXCEPT !.lease = "stale"]
  <2>1. job' = [job EXCEPT ![j] = row] /\ row.status = job[j].status /\ dropped' = dropped
    BY <1>3, ExclusiveTypes DEF LeaseExpires, JobRow
  <2> HIDE DEF row
  <2>2. LookRules'
    BY <1>1, <2>1, WriteKeepsLooks, ExclusiveTypes
  <2> QED  BY <1>1, <2>1, <2>2, OutsideWrite
<1>4. CASE Enqueue(j)
  <2>1. /\ job' = [job EXCEPT ![j] = Enqueued] /\ Enqueued.status = "pending"
        /\ job[j].status = "absent" /\ dropped' = dropped
    BY <1>4, RowStatuses DEF Enqueue, WriteNow, WriteLater
  <2>2. LookRules'
    BY <1>1, <2>1, WriteKeepsLooks, ExclusiveTypes
  <2> QED  BY <1>1, <2>1, <2>2, OutsideWrite
<1>5. CASE Cancel(j)
  <2> DEFINE row == Done(job[j])
  <2>1. /\ job' = [job EXCEPT ![j] = row] /\ row.status = "done"
        /\ job[j].status = "pending" /\ dropped' = dropped \union {j}
    BY <1>5, RowStatuses DEF Cancel, Write
  <2> HIDE DEF row
  <2>2. LookRules'
    BY <1>1, <2>1, WriteKeepsLooks, ExclusiveTypes
  <2> QED  BY <1>1, <2>1, <2>2, OutsideWrite
<1> QED  BY <1>2, <1>3, <1>4, <1>5

LEMMA LandKeepsExclusive ==
  ASSUME ExclusiveInv, TypedInv', NEW l \in looks, Land(l)
  PROVE  ExclusiveInv'
<1> DEFINE j   == l.id
           row == Written(job[j], l)
<1>1. /\ j \in Jobs /\ l \in LookType
      /\ row.status = IF l.status = "kept" THEN job[j].status ELSE l.status
      /\ WriteNow(j, row) \/ Write(j, row)
      /\ looks' = looks \ {l} /\ UNCHANGED <<worker, effects>>
  BY ExclusiveTypes, LandWrites
<1>2. job' = [job EXCEPT ![j] = row]
  BY <1>1 DEF WriteNow, Write
<1>3. /\ dropped' = IF l.status = "done" /\ ~IsSource(j) THEN dropped \union {j} ELSE dropped
      /\ LookRule(l) /\ LookRules
  BY DEF Land, ExclusiveInv, LookRules
<1>4. l.status \in {"kept", "pending", "done"}
  BY <1>1 DEF LookType
<1> HIDE DEF row
<1>5. LookRules'
  <2>1. row.status = "running" => job[j].status = "running"
    BY <1>1, <1>4
  <2>2. ASSUME ~IsSource(j), job[j].status = "failed", row.status # "failed",
               NEW m \in looks', m.id = j
        PROVE  m.status # "pending"
    <3>1. l.status # "kept" /\ m \in looks /\ m # l
      BY <1>1, <2>2
    <3>2. l.by = "pass" /\ m.by # "pass"
      BY <1>3, <2>2, <3>1 DEF LookRule, LookRules
    <3>3. m.status = "kept"
      BY <1>3, <2>2, <3>1, <3>2 DEF LookRule, LookRules
    <3> QED  BY <3>3
  <2>3. job \in [Jobs -> JobRow] /\ looks' \subseteq looks /\ \A m \in looks : m.id \in Jobs
    BY <1>1, ExclusiveTypes
  <2> HIDE DEF j
  <2> QED  BY <1>1, <1>2, <1>3, <2>1, <2>2, <2>3, WriteKeepsLooks
<1>6. ~IsSource(j) =>
        \/ row.status = job[j].status /\ dropped' = dropped
        \/ /\ row.status = "done" /\ dropped' = dropped \union {j}
           /\ Kind[j] = "proactive" \/ job[j].status = "pending"
        \/ /\ row.status = "pending" /\ dropped' = dropped
           /\ job[j].status \in {"absent", "failed"}
  BY <1>1, <1>3, <1>4 DEF LookRule
<1>7. \A i \in Jobs : i # j => (i \in dropped' <=> i \in dropped)
  BY <1>3
<1> HIDE DEF j
<1> QED  BY <1>1, <1>2, <1>5, <1>6, <1>7, OutsideWrite

\* What a thread at work may do without ending its job.
LEMMA ThreadMovesOn ==
  ASSUME ExclusiveInv, NEW w \in Workers, NEW error \in Errors,
         StartHandler(w) \/ HandlerRaises(w, error) \/ LoseOutcome(w)
  PROVE  /\ worker[w] # Idle /\ UNCHANGED <<job, looks, spent, effects, dropped>>
         /\ \E held : /\ held = Idle \/ held.id = worker[w].id
                      /\ worker' = [worker EXCEPT ![w] = held]
<1>1. worker[w] # Idle
  BY WorkerPhases, ExclusiveTypes
  DEF StartHandler, HandlerRaises, LoseOutcome, AttemptsInv
<1>2. UNCHANGED <<job, looks, spent, effects, dropped>>
  BY DEF StartHandler, HandlerRaises, LoseOutcome
<1>3. CASE StartHandler(w)
  <2>1. /\ worker' = [worker EXCEPT ![w] = [worker[w] EXCEPT !.phase = "running"]]
        /\ worker[w] \in [phase : {"claimed", "running"}, id : Jobs]
    BY <1>3, WorkerPhases, ExclusiveTypes DEF StartHandler, AttemptsInv
  <2>2. [worker[w] EXCEPT !.phase = "running"].id = worker[w].id
    BY <2>1
  <2> QED  BY <1>1, <1>2, <2>1, <2>2
<1>4. CASE HandlerRaises(w, error)
  BY <1>1, <1>2, <1>4 DEF HandlerRaises
<1>5. CASE LoseOutcome(w)
  BY <1>1, <1>2, <1>5 DEF LoseOutcome
<1> QED  BY <1>3, <1>4, <1>5

\* The steps of the system, for the proofs of its invariants.
LEMMA StepCases ==
  ASSUME [Next]_vars
  PROVE  \/ UNCHANGED vars
         \/ \E j \in Jobs : BecomeDue(j) \/ LeaseExpires(j) \/ Enqueue(j) \/ Cancel(j)
         \/ \E j \in Jobs : ReadStep(j)
         \/ \E l \in looks : Land(l)
         \/ \E w \in Workers, j \in Jobs : Claim(w, j)
         \/ \E w \in Workers : \/ UnknownType(w) \/ RetireInsteadOfRun(w)
                               \/ HandlerSucceeds(w) \/ ParkUntilBudgetReset(w)
                               \/ RecordFailure(w)
         \/ \E w \in Workers, error \in Errors :
              StartHandler(w) \/ HandlerRaises(w, error) \/ LoseOutcome(w)
<1>1. "fatal" \in Errors
  BY DEF Errors
<1>2. \A j \in Jobs : MaintenanceStep(j) \/ RequestStep(j) =>
        Enqueue(j) \/ Cancel(j) \/ ReadStep(j)
  BY DEF RequestStep, ReadStep
<1>3. \A w \in Workers, j \in Jobs : ClaimOutOfAttempts(w, j) => UNCHANGED vars
  BY DEF ClaimOutOfAttempts
<1>4. \A w \in Workers : WorkerStep(w) \/ LoseOutcome(w) =>
        \/ \E j \in Jobs : Claim(w, j)
        \/ UnknownType(w) \/ RetireInsteadOfRun(w) \/ HandlerSucceeds(w)
        \/ ParkUntilBudgetReset(w) \/ RecordFailure(w)
        \/ \E error \in Errors : StartHandler(w) \/ HandlerRaises(w, error) \/ LoseOutcome(w)
  BY <1>1 DEF WorkerStep
<1> QED  BY <1>2, <1>3, <1>4 DEF Next

LEMMA NextKeepsTypes ==
  ASSUME TypedInv, [Next]_vars
  PROVE  TypedInv'
BY NextKeepsAttempts, DisabledStaySources DEF TypedInv

LEMMA NextKeepsExclusive ==
  ASSUME OneThreadPerLane, ExclusiveInv, [Next]_vars
  PROVE  ExclusiveInv'
<1>1. TypedInv'
  BY NextKeepsTypes DEF ExclusiveInv
<1>2. CASE UNCHANGED vars
  BY <1>1, <1>2, SameLooks, NoOutsideWrite DEF vars, ExclusiveInv
<1>3. ASSUME NEW j \in Jobs, BecomeDue(j) \/ LeaseExpires(j) \/ Enqueue(j) \/ Cancel(j)
      PROVE  ExclusiveInv'
  BY <1>1, <1>3, TimeKeepsExclusive
<1>4. ASSUME NEW j \in Jobs, ReadStep(j)
      PROVE  ExclusiveInv'
  <2>1. OnlyReads(j)
    BY <1>4, LooksOnlyRead, ExclusiveTypes
  <2>2. LookRules'
    BY <2>1, ReadKeepsLooks DEF ExclusiveInv
  <2> QED  BY <1>1, <2>1, <2>2, NoOutsideWrite DEF OnlyReads
<1>5. ASSUME NEW l \in looks, Land(l)
      PROVE  ExclusiveInv'
  BY <1>1, <1>5, LandKeepsExclusive
<1>6. ASSUME NEW w \in Workers, NEW j \in Jobs, Claim(w, j)
      PROVE  ExclusiveInv'
  BY <1>1, <1>6, ClaimKeepsExclusive
<1>7. ASSUME NEW w \in Workers,
             \/ UnknownType(w) \/ RetireInsteadOfRun(w) \/ HandlerSucceeds(w)
             \/ ParkUntilBudgetReset(w) \/ RecordFailure(w)
      PROVE  ExclusiveInv'
  BY <1>1, <1>7, FinishKeepsExclusive
<1>8. ASSUME NEW w \in Workers, NEW error \in Errors,
             StartHandler(w) \/ HandlerRaises(w, error) \/ LoseOutcome(w)
      PROVE  ExclusiveInv'
  <2>1. PICK held : /\ held = Idle \/ held.id = worker[w].id
                    /\ worker' = [worker EXCEPT ![w] = held]
    BY <1>8, ThreadMovesOn
  <2>2. worker[w] # Idle /\ UNCHANGED <<job, looks, effects, dropped>>
    BY <1>8, ThreadMovesOn
  <2> QED  BY <1>1, <2>1, <2>2, ThreadMoves
<1> QED  BY <1>2, <1>3, <1>4, <1>5, <1>6, <1>7, <1>8, StepCases

LEMMA InitExclusive == Init => ExclusiveInv
<1> SUFFICES ASSUME Init PROVE ExclusiveInv
  OBVIOUS
<1>1. \A w \in Workers : worker[w] = Idle
  BY DEF Init
<1>2. \A j \in Jobs : job[j].status = "absent" /\ effects[j] = 0
  BY DEF Init, NoRow, Row
<1>3. looks = {} /\ dropped = {}
  BY DEF Init
<1> QED
  BY <1>1, <1>2, <1>3, InitAttempts
  DEF ExclusiveInv, LookRules, HeldInv, DroppedStay, DoneIffEffects

LEMMA ExclusiveInvariant == ASSUME OneThreadPerLane PROVE Spec => []ExclusiveInv
<1>1. ExclusiveInv /\ [Next]_vars => ExclusiveInv'
  BY NextKeepsExclusive
<1> QED  BY <1>1, InitExclusive, PTL DEF Spec

\* The writes that take a running row, commits aside, are those of its own thread as it
\* gives the job up.
LEMMA RunningRowsOfOthers ==
  ASSUME OneThreadPerLane, ExclusiveInv, [Next]_vars, \A l \in looks : ~Land(l),
         NEW w \in Workers, worker[w] # Idle, worker'[w] # Idle,
         worker'[w].id = worker[w].id, job[worker[w].id].status = "running"
  PROVE  job'[worker[w].id].status = "running"
<1> DEFINE j == worker[w].id
<1>1. j \in Jobs /\ job \in [Jobs -> JobRow]
  BY ExclusiveTypes
<1>2. UNCHANGED job => job'[j].status = "running"
  OBVIOUS
<1>3. CASE UNCHANGED vars
  BY <1>2, <1>3 DEF vars
<1>4. ASSUME NEW i \in Jobs, BecomeDue(i) \/ LeaseExpires(i) \/ Enqueue(i) \/ Cancel(i)
      PROVE  job'[j].status = "running"
  <2>1. CASE BecomeDue(i)
    BY <1>2, <2>1 DEF BecomeDue
  <2>2. CASE LeaseExpires(i)
    <3>1. [job[i] EXCEPT !.lease = "stale"].status = job[i].status
      BY <1>1 DEF JobRow
    <3> QED  BY <1>1, <2>2, <3>1 DEF LeaseExpires
  <2>3. CASE Enqueue(i)
    BY <1>1, <2>3 DEF Enqueue, WriteNow, WriteLater
  <2>4. CASE Cancel(i)
    BY <1>1, <2>4 DEF Cancel, Write
  <2> QED  BY <1>4, <2>1, <2>2, <2>3, <2>4
<1>5. ASSUME NEW i \in Jobs, ReadStep(i)
      PROVE  job'[j].status = "running"
  <2>1. OnlyReads(i)
    BY <1>5, LooksOnlyRead, ExclusiveTypes
  <2> QED  BY <1>2, <2>1 DEF OnlyReads
<1>6. ASSUME NEW v \in Workers, NEW i \in Jobs, Claim(v, i)
      PROVE  job'[j].status = "running"
  BY <1>1, <1>6, RowStatuses DEF Claim, Write
<1>7. ASSUME NEW v \in Workers,
             \/ UnknownType(v) \/ RetireInsteadOfRun(v) \/ HandlerSucceeds(v)
             \/ ParkUntilBudgetReset(v) \/ RecordFailure(v)
      PROVE  job'[j].status = "running"
  <2>1. /\ worker' = [worker EXCEPT ![v] = Idle] /\ worker[v] # Idle
        /\ \E row : job' = [job EXCEPT ![worker[v].id] = row]
    BY <1>7, ExclusiveTypes, WorkerPhases
    DEF AttemptsInv, UnknownType, RetireInsteadOfRun, HandlerSucceeds,
        ParkUntilBudgetReset, RecordFailure, Write, WriteLater
  <2>2. v # w
    BY <2>1, ExclusiveTypes
  <2>3. worker[v].id # j
    BY <2>1, <2>2, OneThreadPerJob
  <2> QED  BY <1>1, <2>1, <2>3
<1>8. ASSUME NEW v \in Workers, NEW error \in Errors,
             StartHandler(v) \/ HandlerRaises(v, error) \/ LoseOutcome(v)
      PROVE  job'[j].status = "running"
  BY <1>2, <1>8, ThreadMovesOn
<1> QED  BY <1>3, <1>4, <1>5, <1>6, <1>7, <1>8, StepCases

LEMMA CommitsAreOlder ==
  ASSUME ExclusiveInv, NEW l \in looks, Land(l), NEW j \in Jobs,
         job[j].status = "running", job'[j].status # "running"
  PROVE  l \notin looks' /\ l.id = j /\ (l.claims > 0 \/ l.sets = "offline")
<1>1. /\ l.id \in Jobs /\ looks' = looks \ {l}
      /\ Written(job[l.id], l).status = IF l.status = "kept" THEN job[l.id].status ELSE l.status
      /\ job' = [job EXCEPT ![l.id] = Written(job[l.id], l)]
  BY ExclusiveTypes, LandWrites DEF WriteNow, Write
<1>2. job \in [Jobs -> JobRow] /\ l.claims \in Nat /\ LookRule(l)
  BY ExclusiveTypes DEF ExclusiveInv, LookRules
<1>3. l.id = j /\ l.status # "kept"
  BY <1>1, <1>2
<1>4. l.claims # 0 \/ l.sets = "offline"
  BY <1>2, <1>3 DEF LookRule
<1> QED  BY <1>1, <1>2, <1>3, <1>4

\* With one thread for each lane, whoever takes the row of a thread at work had read it
\* before it was claimed, or signs Teams out: a read after the claim leaves it alone.
THEOREM LaterReadsRespectClaims ==
  ASSUME OneThreadPerLane PROVE Spec => ClaimsOutlastLaterReads
<1> DEFINE Taken(w) ==
      /\ worker[w] # Idle /\ worker'[w] # Idle /\ worker'[w].id = worker[w].id
      /\ job[worker[w].id].status = "running" /\ job'[worker[w].id].status # "running"
           Earlier(w) ==
      \E l \in looks \ looks' :
        l.id = worker[w].id /\ (l.claims > 0 \/ l.sets = "offline")
<1>1. ASSUME ExclusiveInv, [Next]_vars, NEW w \in Workers, Taken(w)
      PROVE  Earlier(w)
  <2>1. worker[w].id \in Jobs
    BY <1>1, ExclusiveTypes
  <2>2. PICK l \in looks : Land(l)
    BY <1>1, RunningRowsOfOthers
  <2>3. l \notin looks' /\ l.id = worker[w].id /\ (l.claims > 0 \/ l.sets = "offline")
    BY <1>1, <2>1, <2>2, CommitsAreOlder
  <2> QED  BY <2>3
<1>2. ExclusiveInv /\ [Next]_vars =>
        [\A w \in Workers :
           LET j == worker[w].id
           IN  (/\ worker[w] # Idle /\ worker'[w] # Idle /\ worker'[w].id = j
                /\ job[j].status = "running" /\ job'[j].status # "running") =>
                 \E l \in looks \ looks' :
                   l.id = j /\ (l.claims > 0 \/ l.sets = "offline")]_vars
  BY <1>1
<1> QED  BY <1>2, ExclusiveInvariant, PTL DEF Spec, ClaimsOutlastLaterReads

\* With one thread for each lane, a handler's effects commit at most once and only with
\* a row that says done, and such a row has them unless its job was dropped: over
\* crashes, lost outcomes, retries, stale takeovers, cancellations and reviews that a
\* pass ends while a thread runs them.
THEOREM EffectsCommitOnce ==
  ASSUME OneThreadPerLane PROVE Spec => []DoneIffEffects
<1>1. ExclusiveInv => DoneIffEffects
  BY DEF ExclusiveInv
<1> QED  BY <1>1, ExclusiveInvariant, PTL

-----------------------------------------------------------------------------
(* The order of run_after, and the daily budget's marker.                  *)

\* No job is in a sequence twice, and what is in it.
Once(s) == \A i, k \in 1 .. Len(s) : s[i] = s[k] => i = k
In(s, j) == \E i \in 1 .. Len(s) : s[i] = j

\* Without(j) is the order with one place less, from j's on.
LEMMA WithoutPlaces ==
  ASSUME ready \in Seq(Jobs), NEW j \in Jobs, NEW p \in 1 .. Len(ready), ready[p] = j,
         Once(ready)
  PROVE  /\ Len(Without(j)) = Len(ready) - 1
         /\ \A k \in 1 .. Len(ready) - 1 :
              Without(j)[k] = IF k < p THEN ready[k] ELSE ready[k + 1]
<1> DEFINE i == CHOOSE i \in 1 .. Len(ready) : ready[i] = j
<1>1. i \in 1 .. Len(ready) /\ ready[i] = j
  OBVIOUS
<1>2. i = p
  BY <1>1 DEF Once
<1>3. Without(j) = SubSeq(ready, 1, i - 1) \o SubSeq(ready, i + 1, Len(ready))
  BY DEF Without, IsReady
<1> HIDE DEF i
<1> DEFINE a == SubSeq(ready, 1, p - 1)
           b == SubSeq(ready, p + 1, Len(ready))
<1>4. Len(ready) \in Nat
  BY LenProperties
<1>5. /\ a \in Seq(Jobs) /\ Len(a) = p - 1
      /\ \A k \in 1 .. p - 1 : a[k] = ready[k]
  BY <1>4, SubSeqProperties, ElementOfSeq
<1>6. /\ b \in Seq(Jobs) /\ Len(b) = Len(ready) - p
      /\ \A k \in 1 .. Len(ready) - p : b[k] = ready[p + k]
  BY <1>4, SubSeqProperties, ElementOfSeq
<1> HIDE DEF a, b
<1>7. /\ Len(a \o b) = Len(a) + Len(b)
      /\ \A k \in 1 .. Len(a) + Len(b) :
           (a \o b)[k] = IF k <= Len(a) THEN a[k] ELSE b[k - Len(a)]
  BY <1>5, <1>6, ConcatProperties
<1>8. Without(j) = a \o b
  BY <1>2, <1>3 DEF a, b
<1>9. Len(a \o b) = Len(ready) - 1
  BY <1>4, <1>5, <1>6, <1>7
<1>10. ASSUME NEW k \in 1 .. Len(ready) - 1
       PROVE  (a \o b)[k] = IF k < p THEN ready[k] ELSE ready[k + 1]
  <2>1. (a \o b)[k] = IF k <= p - 1 THEN a[k] ELSE b[k - (p - 1)]
    BY <1>4, <1>5, <1>6, <1>7
  <2>2. CASE k < p
    BY <1>4, <1>5, <2>1, <2>2
  <2>3. CASE ~(k < p)
    <3>1. k - (p - 1) \in 1 .. Len(ready) - p /\ p + (k - (p - 1)) = k + 1
      BY <1>4, <2>3
    <3>2. b[k - (p - 1)] = ready[p + (k - (p - 1))]
      BY <1>6, <3>1
    <3>3. ~(k <= p - 1)
      BY <1>4, <2>3
    <3> QED  BY <2>1, <2>3, <3>1, <3>2, <3>3
  <2> QED  BY <2>2, <2>3
<1> QED  BY <1>8, <1>9, <1>10

LEMMA WithoutOrder ==
  ASSUME ready \in Seq(Jobs), Once(ready), NEW j \in Jobs
  PROVE  /\ Once(Without(j)) /\ ~In(Without(j), j)
         /\ \A i \in Jobs : i # j => (In(Without(j), i) <=> In(ready, i))
<1>1. CASE ~IsReady(j)
  BY <1>1 DEF Without, IsReady, In
<1>2. CASE IsReady(j)
  <2>1. PICK p \in 1 .. Len(ready) : ready[p] = j
    BY <1>2 DEF IsReady
  <2>2. Len(ready) \in Nat
    BY LenProperties
  <2> DEFINE s == Without(j)
             n == Len(ready)
  <2>3. /\ Len(s) = n - 1
        /\ \A k \in 1 .. n - 1 : s[k] = IF k < p THEN ready[k] ELSE ready[k + 1]
    BY <2>1, WithoutPlaces
  <2> HIDE DEF s
  <2>4. ASSUME NEW k \in 1 .. Len(s), NEW l \in 1 .. Len(s), s[k] = s[l]
        PROVE  k = l
    <3> DEFINE place(m) == IF m < p THEN m ELSE m + 1
    <3>1. k \in 1 .. n - 1 /\ l \in 1 .. n - 1
      BY <2>3
    <3>2. s[k] = ready[place(k)] /\ s[l] = ready[place(l)]
      BY <2>3, <3>1
    <3>3. place(k) \in 1 .. n /\ place(l) \in 1 .. n
      BY <2>2, <3>1
    <3>4. place(k) = place(l)
      BY <2>4, <3>2, <3>3 DEF Once
    <3> QED  BY <2>2, <3>1, <3>4
  <2>5. ~In(s, j)
    BY <2>1, <2>2, <2>3 DEF Once, In
  <2>6. \A i \in Jobs : i # j => (In(s, i) => In(ready, i))
    BY <2>2, <2>3 DEF In
  <2>7. ASSUME NEW i \in Jobs, i # j, In(ready, i)
        PROVE  In(s, i)
    <3>1. PICK q \in 1 .. n : ready[q] = i
      BY <2>7 DEF In
    <3>2. q # p
      BY <2>1, <2>7, <3>1
    <3>3. CASE q < p
      <4>1. q \in 1 .. n - 1 /\ s[q] = i
        BY <2>2, <2>3, <3>1, <3>3
      <4> QED  BY <2>3, <4>1 DEF In
    <3>4. CASE q > p
      <4>1. q - 1 \in 1 .. n - 1 /\ s[q - 1] = i
        BY <2>2, <2>3, <3>1, <3>4
      <4> QED  BY <2>3, <4>1 DEF In
    <3> QED  BY <2>2, <3>2, <3>3, <3>4
  <2> QED  BY <2>4, <2>5, <2>6, <2>7 DEF s, Once
<1> QED  BY <1>1, <1>2

LEMMA AppendOrder ==
  ASSUME NEW s \in Seq(Jobs), Once(s), NEW j \in Jobs, ~In(s, j)
  PROVE  /\ Once(Append(s, j)) /\ In(Append(s, j), j)
         /\ \A i \in Jobs : i # j => (In(Append(s, j), i) <=> In(s, i))
<1> DEFINE t == Append(s, j)
<1>1. Len(s) \in Nat
  BY LenProperties
<1>2. /\ Len(t) = Len(s) + 1 /\ t[Len(s) + 1] = j
      /\ \A k \in 1 .. Len(s) : t[k] = s[k]
  BY AppendProperties
<1> HIDE DEF t
<1>3. \A k \in 1 .. Len(t) : k \in 1 .. Len(s) \/ k = Len(s) + 1
  BY <1>1, <1>2
<1>4. Once(t)
  BY <1>1, <1>2, <1>3 DEF Once, In
<1>5. In(t, j)
  BY <1>1, <1>2 DEF In
<1>6. \A i \in Jobs : i # j => (In(t, i) <=> In(s, i))
  BY <1>1, <1>2, <1>3 DEF In
<1> QED  BY <1>4, <1>5, <1>6 DEF t

-----------------------------------------------------------------------------

\* The ways a step changes a row and its place in the order: it keeps the place, it
\* puts the row off, for whatever reason or for the budget, or it makes it due.
KeepsPlace(j, row) ==
  /\ UNCHANGED <<ready, budgetHeld>>
  /\ row.status = "running" => IsReady(j)
  /\ row.status = "pending" => job[j].status = "pending" /\ row.parked = job[j].parked
PutsOff(j, row) ==
  /\ ready' = Without(j) /\ budgetHeld' = budgetHeld \ {j}
  /\ row.status # "running"
  /\ row.status = "pending" => row.parked = FALSE
PutsOffForBudget(j, row) ==
  /\ ready' = Without(j) /\ budgetHeld' = budgetHeld \union {j}
  /\ row.status # "running" /\ row.parked = TRUE
MakesDue(j) == ready' = Append(Without(j), j) /\ budgetHeld' = budgetHeld \ {j}

QueueStep(j) ==
  \E row : /\ job' = [job EXCEPT ![j] = row]
           /\ \/ KeepsPlace(j, row) \/ PutsOff(j, row) \/ PutsOffForBudget(j, row)
              \/ MakesDue(j)

OrderInv == TypedInv /\ RunningStaysInOrder /\ MarkerMeansBudget

LEMMA OrderIsOnce == RunningStaysInOrder => Once(ready)
BY DEF RunningStaysInOrder, Once

LEMMA PlacesAfter ==
  ASSUME OrderInv, NEW j \in Jobs,
         \/ ready' = ready \/ ready' = Without(j) \/ ready' = Append(Without(j), j)
  PROVE  /\ Once(ready')
         /\ \A i \in Jobs : i # j => (In(ready', i) <=> In(ready, i))
         /\ ready' = Without(j) => ~In(ready', j)
         /\ ready' = Append(Without(j), j) => In(ready', j)
<1>1. ready \in Seq(Jobs) /\ Once(ready) /\ Without(j) \in Seq(Jobs)
  BY OrderIsOnce, WithoutType DEF OrderInv, TypedInv, AttemptsInv, TypeOK
<1>2. /\ Once(Without(j)) /\ ~In(Without(j), j)
      /\ \A i \in Jobs : i # j => (In(Without(j), i) <=> In(ready, i))
  BY <1>1, WithoutOrder
<1>3. /\ Once(Append(Without(j), j)) /\ In(Append(Without(j), j), j)
      /\ \A i \in Jobs : i # j => (In(Append(Without(j), j), i) <=> In(Without(j), i))
  BY <1>1, <1>2, AppendOrder
<1>4. ready' = ready \/ ready' = Without(j) \/ ready' = Append(Without(j), j)
  OBVIOUS
<1>5. ready' = Without(j) => ~In(ready', j)
  BY <1>2
<1>6. ready' = Append(Without(j), j) => In(ready', j)
  BY <1>3
<1>7. Once(ready')
  BY <1>1, <1>2, <1>3, <1>4
<1>8. \A i \in Jobs : i # j => (In(ready', i) <=> In(ready, i))
  BY <1>2, <1>3, <1>4
<1> QED  BY <1>5, <1>6, <1>7, <1>8

LEMMA QueueStepKeepsOrder ==
  ASSUME OrderInv, TypedInv', NEW j \in Jobs, QueueStep(j)
  PROVE  OrderInv'
<1>1. PICK row : /\ job' = [job EXCEPT ![j] = row]
                 /\ \/ KeepsPlace(j, row) \/ PutsOff(j, row) \/ PutsOffForBudget(j, row)
                    \/ MakesDue(j)
  BY DEF QueueStep
<1>2. job'[j] = row /\ \A i \in Jobs : i # j => job'[i] = job[i]
  BY <1>1 DEF OrderInv, TypedInv, AttemptsInv, TypeOK
<1>3. /\ Once(ready')
      /\ \A i \in Jobs : i # j => (In(ready', i) <=> In(ready, i))
      /\ ready' = Without(j) => ~In(ready', j)
      /\ ready' = Append(Without(j), j) => In(ready', j)
  <2>1. ready' = ready \/ ready' = Without(j) \/ ready' = Append(Without(j), j)
    BY <1>1 DEF KeepsPlace, PutsOff, PutsOffForBudget, MakesDue
  <2> QED  BY <2>1, PlacesAfter
<1>4. \A i \in Jobs : i # j => (i \in budgetHeld' <=> i \in budgetHeld)
  BY <1>1 DEF KeepsPlace, PutsOff, PutsOffForBudget, MakesDue
<1>5. \A i \in Jobs : job[i].status = "running" => In(ready, i)
  BY DEF OrderInv, RunningStaysInOrder, IsReady, In
<1>6. \A i \in Jobs : job[i].status = "pending" /\ ~In(ready, i) =>
        (job[i].parked <=> i \in budgetHeld)
  BY DEF OrderInv, MarkerMeansBudget, IsReady, In
<1>7. row.status = "running" => In(ready', j)
  BY <1>1, <1>3 DEF KeepsPlace, PutsOff, PutsOffForBudget, MakesDue, IsReady, In
<1>8. row.status = "pending" /\ ~In(ready', j) => (row.parked <=> j \in budgetHeld')
  <2>1. CASE KeepsPlace(j, row)
    BY <1>6, <2>1 DEF KeepsPlace
  <2>2. CASE PutsOff(j, row)
    BY <2>2 DEF PutsOff
  <2>3. CASE PutsOffForBudget(j, row)
    BY <2>3 DEF PutsOffForBudget
  <2>4. CASE MakesDue(j)
    BY <1>3, <2>4 DEF MakesDue
  <2> QED  BY <1>1, <2>1, <2>2, <2>3, <2>4
<1>9. RunningStaysInOrder'
  <2>1. \A i \in Jobs : job'[i].status = "running" => In(ready', i)
    BY <1>2, <1>3, <1>5, <1>7
  <2> QED  BY <1>3, <2>1 DEF RunningStaysInOrder, IsReady, In, Once
<1>10. MarkerMeansBudget'
  <2>1. \A i \in Jobs : job'[i].status = "pending" /\ ~In(ready', i) =>
          (job'[i].parked <=> i \in budgetHeld')
    BY <1>2, <1>3, <1>4, <1>6, <1>8
  <2> QED  BY <2>1 DEF MarkerMeansBudget, IsReady, In
<1> QED  BY <1>9, <1>10 DEF OrderInv

LEMMA SameQueueKeepsOrder ==
  ASSUME OrderInv, TypedInv', UNCHANGED <<job, ready, budgetHeld>>
  PROVE  OrderInv'
BY DEF OrderInv, RunningStaysInOrder, MarkerMeansBudget, IsReady

LEMMA DueKeepsOrder ==
  ASSUME OrderInv, TypedInv', NEW j \in Jobs, BecomeDue(j)
  PROVE  OrderInv'
<1>1. ready \in Seq(Jobs) /\ Once(ready) /\ ~In(ready, j)
  BY OrderIsOnce DEF OrderInv, TypedInv, AttemptsInv, TypeOK, BecomeDue, IsReady, In
<1>2. /\ Once(ready') /\ In(ready', j)
      /\ \A i \in Jobs : i # j => (In(ready', i) <=> In(ready, i))
  BY <1>1, AppendOrder DEF BecomeDue
<1>3. job' = job /\ budgetHeld' = budgetHeld
  BY DEF BecomeDue
<1>4. RunningStaysInOrder'
  <2>1. \A i \in Jobs : job[i].status = "running" => In(ready', i)
    BY <1>2 DEF OrderInv, RunningStaysInOrder, IsReady, In
  <2> QED  BY <1>2, <1>3, <2>1 DEF RunningStaysInOrder, IsReady, In, Once
<1>5. MarkerMeansBudget'
  <2>1. \A i \in Jobs : job[i].status = "pending" /\ ~In(ready', i) =>
          (job[i].parked <=> i \in budgetHeld)
    BY <1>2 DEF OrderInv, MarkerMeansBudget, IsReady, In
  <2> QED  BY <1>3, <2>1 DEF MarkerMeansBudget, IsReady, In
<1> QED  BY <1>4, <1>5 DEF OrderInv

\* What a failed handler leaves is not running, waits without the budget's marker, and
\* is not put back in the queue when its run_after is kept.
LEMMA RowsAfterFailure ==
  ASSUME NEW kind, NEW error, NEW row, GoodRow(row)
  PROVE  /\ AfterFailure(kind, error, row).status \in {"pending", "failed"}
         /\ AfterFailure(kind, error, row).status = "pending" =>
              AfterFailure(kind, error, row).parked = FALSE
         /\ ~FailureDelays(kind, error, row) =>
              AfterFailure(kind, error, row).status = "failed"
<1>1. /\ TransientRetried(row).status = "pending" /\ TransientRetried(row).parked = FALSE
      /\ FloodRetried(row).status = "pending" /\ FloodRetried(row).parked = FALSE
      /\ RecurringFailed(row).status = "failed"
      /\ Failed(row).status = "failed"
      /\ \A n : Requeued(row, n).status = "pending" /\ Requeued(row, n).parked = FALSE
  BY DEF TransientRetried, FloodRetried, RecurringFailed, Failed, Requeued, Row
<1>2. row.attempts >= MaxAttempts \/ row.attempts < MaxAttempts
  BY GoodRowFields, Bounds
<1>3. /\ Retried(kind, error, row).status \in {"pending", "failed"}
      /\ Retried(kind, error, row).status = "pending" =>
           Retried(kind, error, row).parked = FALSE
  BY <1>1 DEF Retried
<1>4. ASSUME ~FailureDelays(kind, error, row)
      PROVE  /\ Retried(kind, error, row).status = "failed"
             /\ kind \notin {"tiered", "flood"}
  BY <1>1, <1>2, <1>4 DEF Retried, FailureDelays, SourceKinds
<1> QED  BY <1>1, <1>3, <1>4 DEF AfterFailure

LEMMA WorkerQueueSteps ==
  ASSUME OrderInv, NEW w \in Workers,
         \/ \E j \in Jobs : Claim(w, j)
         \/ UnknownType(w) \/ RetireInsteadOfRun(w) \/ HandlerSucceeds(w)
         \/ ParkUntilBudgetReset(w) \/ RecordFailure(w)
  PROVE  \E j \in Jobs : QueueStep(j)
<1> DEFINE h == worker[w].id
<1>1. CASE \E j \in Jobs : Claim(w, j)
  <2>1. PICK j \in Jobs : Claim(w, j)
    BY <1>1
  <2>2. IsReady(j)
    BY <2>1 DEF Claim, IsHead, IsReady
  <2>3. Claimed(job[j]).status = "running"
    BY RowStatuses
  <2>4. KeepsPlace(j, Claimed(job[j])) /\ job' = [job EXCEPT ![j] = Claimed(job[j])]
    BY <2>1, <2>2, <2>3 DEF Claim, Write, KeepsPlace
  <2> QED  BY <2>4 DEF QueueStep
<1>2. CASE ~ \E j \in Jobs : Claim(w, j)
  <2>1. h \in Jobs /\ GoodRow(job[h])
    BY <1>2, WorkerPhases
    DEF OrderInv, TypedInv, AttemptsInv, UnknownType, RetireInsteadOfRun, HandlerSucceeds,
        ParkUntilBudgetReset, RecordFailure
  <2> HIDE DEF h
  <2>2. \A r : Write(h, r) /\ r.status \in {"failed", "done"} => QueueStep(h)
    BY DEF Write, QueueStep, KeepsPlace
  <2>3. \A r : /\ WriteLater(h, r) /\ r.status \in {"pending", "failed"}
               /\ r.status = "pending" => r.parked = FALSE
               => QueueStep(h)
    BY DEF WriteLater, QueueStep, PutsOff
  <2>4. /\ Failed(job[h]).status = "failed" /\ Done(job[h]).status = "done"
        /\ Retired(job[h]).status = "done"
        /\ Enqueued.status = "pending" /\ Enqueued.parked = FALSE
        /\ Parked(job[h]).status = "pending" /\ Parked(job[h]).parked = TRUE
    BY DEF Failed, Done, Retired, Enqueued, Parked, Row
  <2>5. CASE UnknownType(w) \/ RetireInsteadOfRun(w)
    BY <2>1, <2>2, <2>4, <2>5 DEF UnknownType, RetireInsteadOfRun, h
  <2>6. CASE HandlerSucceeds(w)
    BY <2>1, <2>2, <2>3, <2>4, <2>6 DEF HandlerSucceeds, RecurringSucceeded, h
  <2>7. CASE ParkUntilBudgetReset(w)
    <3>1. /\ job' = [job EXCEPT ![h] = Parked(job[h])]
          /\ ready' = Without(h) /\ budgetHeld' = budgetHeld \union {h}
      BY <2>7 DEF ParkUntilBudgetReset, h
    <3>2. PutsOffForBudget(h, Parked(job[h]))
      BY <2>4, <3>1 DEF PutsOffForBudget
    <3> QED  BY <2>1, <3>1, <3>2 DEF QueueStep
  <2>8. CASE RecordFailure(w)
    <3>1. PICK kind, error : kind = Kind[h] /\ error = worker[w].error
      OBVIOUS
    <3> DEFINE left == AfterFailure(kind, error, job[h])
    <3>2. left.status \in {"pending", "failed"}
      BY <2>1, RowsAfterFailure
    <3>3. left.status = "pending" => left.parked = FALSE
      BY <2>1, RowsAfterFailure
    <3>4. ~FailureDelays(kind, error, job[h]) => left.status = "failed"
      BY <2>1, RowsAfterFailure DEF FailureDelays, UsesFailedRearm
    <3>5. \/ Write(h, Retired(job[h]))
          \/ WriteLater(h, left)
          \/ ~FailureDelays(kind, error, job[h]) /\ Write(h, left)
      BY <2>8, <3>1 DEF RecordFailure, h
    <3> HIDE DEF left
    <3> QED  BY <2>1, <2>2, <2>3, <2>4, <3>2, <3>3, <3>4, <3>5
  <2> QED  BY <1>2, <2>5, <2>6, <2>7, <2>8
<1> QED  BY <1>1, <1>2

LEMMA OutsideQueueSteps ==
  ASSUME OrderInv, NEW j \in Jobs, LeaseExpires(j) \/ Enqueue(j) \/ Cancel(j)
  PROVE  QueueStep(j)
<1>1. CASE LeaseExpires(j)
  <2> DEFINE row == [job[j] EXCEPT !.lease = "stale"]
  <2>1. job' = [job EXCEPT ![j] = row] /\ UNCHANGED <<ready, budgetHeld>>
    BY <1>1 DEF LeaseExpires
  <2>2. row.status = job[j].status /\ row.parked = job[j].parked
    BY DEF OrderInv, TypedInv, AttemptsInv, TypeOK, JobRow
  <2> HIDE DEF row
  <2>3. job[j].status = "running" => IsReady(j)
    BY DEF OrderInv, RunningStaysInOrder
  <2> QED  BY <2>1, <2>2, <2>3 DEF QueueStep, KeepsPlace
<1>2. CASE Enqueue(j)
  <2>1. Enqueued.status = "pending" /\ Enqueued.parked = FALSE
    BY DEF Enqueued, Row
  <2>2. WriteLater(j, Enqueued) => QueueStep(j)
    BY <2>1 DEF WriteLater, QueueStep, PutsOff
  <2>3. WriteNow(j, Enqueued) => QueueStep(j)
    BY DEF WriteNow, QueueStep, MakesDue
  <2> QED  BY <1>2, <2>2, <2>3 DEF Enqueue
<1>3. CASE Cancel(j)
  <2>1. Done(job[j]).status = "done"
    BY RowStatuses
  <2>2. KeepsPlace(j, Done(job[j])) /\ job' = [job EXCEPT ![j] = Done(job[j])]
    BY <1>3, <2>1 DEF Cancel, Write, KeepsPlace
  <2> QED  BY <2>2 DEF QueueStep
<1> QED  BY <1>1, <1>2, <1>3

\* A commit makes the row due, or ends it, or changes nothing of it.
LEMMA LandQueueStep ==
  ASSUME OrderInv, NEW l \in looks, Land(l)
  PROVE  QueueStep(l.id)
<1> DEFINE j   == l.id
           row == Written(job[j], l)
<1>1. /\ j \in Jobs
      /\ row.status = IF l.status = "kept" THEN job[j].status ELSE l.status
      /\ l.clears = {} => row.parked = job[j].parked
      /\ \/ l.due /\ WriteNow(j, row)
         \/ ~l.due /\ Write(j, row)
  BY LandWrites DEF OrderInv, TypedInv
<1>2. WellFormed(l)
  BY DEF OrderInv, TypedInv, AttemptsInv
<1> HIDE DEF row
<1>3. CASE l.due
  BY <1>1, <1>3 DEF WriteNow, QueueStep, MakesDue
<1>4. CASE ~l.due
  <2>1. job' = [job EXCEPT ![j] = row] /\ UNCHANGED <<ready, budgetHeld>>
    BY <1>1, <1>4 DEF Write
  <2>2. \/ row.status = "done"
        \/ row.status = job[j].status /\ row.parked = job[j].parked
    BY <1>1, <1>2, <1>4 DEF WellFormed
  <2>3. job[j].status = "running" => IsReady(j)
    BY <1>1 DEF OrderInv, RunningStaysInOrder
  <2>4. KeepsPlace(j, row)
    BY <2>1, <2>2, <2>3 DEF KeepsPlace
  <2> QED  BY <2>1, <2>4 DEF QueueStep
<1> QED  BY <1>3, <1>4

LEMMA NextKeepsOrder == OrderInv /\ [Next]_vars => OrderInv'
<1> SUFFICES ASSUME OrderInv, [Next]_vars PROVE OrderInv'
  OBVIOUS
<1>1. TypedInv'
  BY NextKeepsTypes DEF OrderInv
<1>2. CASE UNCHANGED <<job, ready, budgetHeld>>
  BY <1>1, <1>2, SameQueueKeepsOrder
<1>3. ASSUME NEW j \in Jobs, BecomeDue(j) \/ LeaseExpires(j) \/ Enqueue(j) \/ Cancel(j)
      PROVE  OrderInv'
  BY <1>1, <1>3, DueKeepsOrder, OutsideQueueSteps, QueueStepKeepsOrder
<1>4. ASSUME NEW j \in Jobs, ReadStep(j)
      PROVE  OrderInv'
  <2>1. OnlyReads(j)
    BY <1>4, LooksOnlyRead DEF OrderInv, TypedInv
  <2> QED  BY <1>2, <2>1 DEF OnlyReads
<1>5. ASSUME NEW l \in looks, Land(l)
      PROVE  OrderInv'
  <2>1. l.id \in Jobs
    BY DEF OrderInv, TypedInv, AttemptsInv, TypeOK, LookType
  <2> QED  BY <1>1, <1>5, <2>1, LandQueueStep, QueueStepKeepsOrder
<1>6. ASSUME NEW w \in Workers,
             \/ \E j \in Jobs : Claim(w, j)
             \/ UnknownType(w) \/ RetireInsteadOfRun(w) \/ HandlerSucceeds(w)
             \/ ParkUntilBudgetReset(w) \/ RecordFailure(w)
      PROVE  OrderInv'
  BY <1>1, <1>6, WorkerQueueSteps, QueueStepKeepsOrder
<1>7. ASSUME NEW w \in Workers, NEW error \in Errors,
             StartHandler(w) \/ HandlerRaises(w, error) \/ LoseOutcome(w)
      PROVE  OrderInv'
  BY <1>2, <1>7 DEF StartHandler, HandlerRaises, LoseOutcome
<1>8. CASE UNCHANGED vars
  BY <1>2, <1>8 DEF vars
<1> QED  BY <1>3, <1>4, <1>5, <1>6, <1>7, <1>8, StepCases

LEMMA InitOrder == Init => OrderInv
<1> SUFFICES ASSUME Init PROVE OrderInv
  OBVIOUS
<1>1. \A j \in Jobs : job[j].status = "absent"
  BY DEF Init, NoRow, Row
<1>2. Len(ready) = 0
  BY EmptySeq DEF Init
<1> QED
  BY <1>1, <1>2, InitAttempts DEF OrderInv, RunningStaysInOrder, MarkerMeansBudget

LEMMA OrderInvariant == Spec => []OrderInv
BY InitOrder, NextKeepsOrder, PTL DEF Spec

\* A running row keeps its place in the order of run_after, where the poll finds it
\* again once its lock is stale, and no request or pass puts a job there twice
\* (claim_next and every write of run_after).
THEOREM RunningRowsAreFound == Spec => []RunningStaysInOrder
<1>1. OrderInv => RunningStaysInOrder
  BY DEF OrderInv
<1> QED  BY <1>1, OrderInvariant, PTL

\* A job that waits carries the marker of the daily budget exactly when the budget
\* put it off, so that raising the limit wakes those and no others
\* (park_until_openai_budget_reset and release_budget_parked_jobs).
THEOREM MarkerIsTheBudgets == Spec => []MarkerMeansBudget
<1>1. OrderInv => MarkerMeansBudget
  BY DEF OrderInv
<1> QED  BY <1>1, OrderInvariant, PTL

-----------------------------------------------------------------------------
(* Attempts and the claims they stand for.                                 *)

\* A row with n claims spent.
Account(row, n) ==
  /\ row.status = "absent" => n = 0
  /\ row.status \in {"pending", "failed"} => row.attempts = n
  /\ row.status = "running" => row.attempts = n + 1

\* The job of a thread has one claim more, even where a pass has ended its row.
SpentInv ==
  /\ ExclusiveInv
  /\ \A j \in Jobs : ~IsSource(j) => Account(job[j], spent[j])
  /\ \A w \in Workers :
       worker[w] # Idle /\ ~IsSource(worker[w].id) =>
         job[worker[w].id].attempts = spent[worker[w].id] + 1

LEMMA SpentTypes ==
  ASSUME ExclusiveInv
  PROVE  /\ job \in [Jobs -> JobRow] /\ spent \in [Jobs -> Nat]
         /\ worker \in [Workers -> {Idle} \union Busy]
         /\ \A j \in Jobs : GoodRow(job[j]) /\ job[j].attempts \in Nat /\ spent[j] \in Nat
         /\ \A w \in Workers : worker[w] # Idle => worker[w].id \in Jobs
BY ExclusiveTypes

\* What a request, a pass or a clock writes: a job that is not a source keeps its place
\* in the account, and the count of a thread's claim as long as the thread has it.
LEMMA OutsideSpent ==
  ASSUME SpentInv, ExclusiveInv', NEW j \in Jobs, UNCHANGED worker,
         NEW row, job' = [job EXCEPT ![j] = row],
         NEW n \in Nat, spent' = [spent EXCEPT ![j] = n],
         ~IsSource(j) => Account(row, n),
         ~IsSource(j) /\ job[j].status \in {"running", "done"} =>
           row.attempts = job[j].attempts /\ n = spent[j]
  PROVE  SpentInv'
<1>1. /\ job'[j] = row /\ spent'[j] = n
      /\ \A i \in Jobs : i # j => job'[i] = job[i] /\ spent'[i] = spent[i]
  BY SpentTypes DEF SpentInv
<1>2. \A i \in Jobs : ~IsSource(i) => Account(job'[i], spent'[i])
  BY <1>1 DEF SpentInv
<1>3. ASSUME NEW w \in Workers, worker[w] # Idle, ~IsSource(worker[w].id)
      PROVE  job'[worker[w].id].attempts = spent'[worker[w].id] + 1
  <2>1. /\ worker[w].id \in Jobs
        /\ job[worker[w].id].attempts = spent[worker[w].id] + 1
        /\ job[worker[w].id].status \in {"running", "done"}
    BY <1>3, SpentTypes DEF SpentInv, ExclusiveInv, HeldInv
  <2>2. CASE worker[w].id = j
    BY <1>1, <1>3, <2>1, <2>2
  <2>3. CASE worker[w].id # j
    BY <1>1, <2>1, <2>3
  <2> QED  BY <2>2, <2>3
<1> QED  BY <1>2, <1>3 DEF SpentInv, IsSource

LEMMA SameSpent ==
  ASSUME SpentInv, ExclusiveInv', UNCHANGED <<job, spent, worker>>
  PROVE  SpentInv'
BY DEF SpentInv, IsSource

\* A thread moves on with its job, or loses it.
LEMMA MoveKeepsSpent ==
  ASSUME SpentInv, ExclusiveInv', NEW w \in Workers, worker[w] # Idle, NEW held,
         held = Idle \/ held.id = worker[w].id,
         worker' = [worker EXCEPT ![w] = held], UNCHANGED <<job, spent>>
  PROVE  SpentInv'
<1>1. worker'[w] = held /\ \A v \in Workers : v # w => worker'[v] = worker[v]
  BY SpentTypes DEF SpentInv
<1>2. ASSUME NEW v \in Workers, worker'[v] # Idle, ~IsSource(worker'[v].id)
      PROVE  job[worker'[v].id].attempts = spent[worker'[v].id] + 1
  BY <1>1, <1>2 DEF SpentInv
<1> QED  BY <1>2 DEF SpentInv, IsSource

\* A thread is done with its job, which no other thread has.
LEMMA FinishSpent ==
  ASSUME OneThreadPerLane, SpentInv, ExclusiveInv', NEW w \in Workers, worker[w] # Idle,
         worker' = [worker EXCEPT ![w] = Idle],
         NEW row, job' = [job EXCEPT ![worker[w].id] = row],
         NEW n \in Nat, spent' = [spent EXCEPT ![worker[w].id] = n],
         ~IsSource(worker[w].id) => Account(row, n)
  PROVE  SpentInv'
<1> DEFINE j == worker[w].id
<1>1. j \in Jobs
  BY SpentTypes DEF SpentInv
<1>2. /\ job'[j] = row /\ spent'[j] = n
      /\ \A i \in Jobs : i # j => job'[i] = job[i] /\ spent'[i] = spent[i]
  BY <1>1, SpentTypes DEF SpentInv
<1>3. \A i \in Jobs : ~IsSource(i) => Account(job'[i], spent'[i])
  BY <1>2 DEF SpentInv
<1>4. ASSUME NEW v \in Workers, worker'[v] # Idle, ~IsSource(worker'[v].id)
      PROVE  job'[worker'[v].id].attempts = spent'[worker'[v].id] + 1
  <2>1. v # w /\ worker'[v] = worker[v]
    BY <1>4, SpentTypes DEF SpentInv
  <2>2. worker[v].id \in Jobs /\ worker[v].id # j
    BY <1>4, <2>1, OneThreadPerJob, SpentTypes DEF SpentInv
  <2>3. job[worker[v].id].attempts = spent[worker[v].id] + 1
    BY <1>4, <2>1 DEF SpentInv
  <2> QED  BY <1>2, <2>1, <2>2, <2>3
<1> QED  BY <1>3, <1>4 DEF SpentInv, IsSource

LEMMA ClaimKeepsSpent ==
  ASSUME SpentInv, ExclusiveInv', NEW w \in Workers, NEW j \in Jobs, Claim(w, j)
  PROVE  SpentInv'
<1> DEFINE n == IF job[j].status = "running" /\ ~IsSource(j) THEN spent[j] + 1 ELSE spent[j]
<1>1. /\ job'[j] = Claimed(job[j]) /\ spent'[j] = n
      /\ \A i \in Jobs : i # j => job'[i] = job[i] /\ spent'[i] = spent[i]
  BY SpentTypes DEF Claim, Write, SpentInv
<1>2. /\ Claimed(job[j]).status = "running"
      /\ Claimed(job[j]).attempts = job[j].attempts + 1
  BY DEF Claimed, Row
<1>3. ~IsSource(j) => Account(Claimed(job[j]), n) /\ Claimed(job[j]).attempts = n + 1
  <2>1. job[j].status \in {"pending", "running"}
    BY DEF Claim, IsHead, Claimable
  <2>2. ~IsSource(j) => job[j].attempts + 1 = n + 1
    BY <2>1, SpentTypes DEF SpentInv, Account
  <2> HIDE DEF n
  <2> QED  BY <1>2, <2>2 DEF Account
<1> HIDE DEF n
<1>4. \A i \in Jobs : ~IsSource(i) => Account(job'[i], spent'[i])
  BY <1>1, <1>3 DEF SpentInv
<1>5. ASSUME NEW v \in Workers, worker'[v] # Idle, ~IsSource(worker'[v].id)
      PROVE  job'[worker'[v].id].attempts = spent'[worker'[v].id] + 1
  <2>1. CASE worker'[v].id = j
    BY <1>1, <1>3, <1>5, <2>1
  <2>2. CASE worker'[v].id # j
    <3>1. worker'[v] = worker[v]
      BY <2>2, SpentTypes DEF Claim, SpentInv
    <3>2. worker[v].id \in Jobs /\ job[worker[v].id].attempts = spent[worker[v].id] + 1
      BY <1>5, <3>1, SpentTypes DEF SpentInv
    <3> QED  BY <1>1, <2>2, <3>1, <3>2
  <2> QED  BY <2>1, <2>2
<1> QED  BY <1>4, <1>5 DEF SpentInv, IsSource

\* The attempts left by a failure the tiers do not cap, and by parking.
LEMMA FailureAttempts ==
  ASSUME NEW kind, NEW error, NEW row, kind \notin {"tiered", "flood"}
  PROVE  /\ AfterFailure(kind, error, row).status \in {"pending", "failed"}
         /\ AfterFailure(kind, error, row).attempts \in {0, row.attempts}
<1>1. AfterFailure(kind, error, row) = Retried(kind, error, row)
  BY DEF AfterFailure
<1>2. /\ Failed(row).status = "failed" /\ Failed(row).attempts = row.attempts
      /\ \A n : Requeued(row, n).status = "pending" /\ Requeued(row, n).attempts = n
  BY DEF Failed, Requeued, Row
<1> QED  BY <1>1, <1>2 DEF Retried

LEMMA ParkedAccount ==
  ASSUME NEW row, NEW n \in Nat, row.attempts = n + 1
  PROVE  Account(Parked(row), n)
<1> DEFINE left == IF row.attempts > 0 THEN row.attempts - 1 ELSE 0
<1>1. left = n
  OBVIOUS
<1> HIDE DEF left
<1>2. Parked(row) = Row("pending", left, "none", TRUE, row.transient)
  BY DEF Parked, left
<1> QED  BY <1>1, <1>2 DEF Account, Row

LEMMA FinishKeepsSpent ==
  ASSUME OneThreadPerLane, SpentInv, ExclusiveInv', NEW w \in Workers,
         \/ UnknownType(w) \/ RetireInsteadOfRun(w) \/ HandlerSucceeds(w)
         \/ ParkUntilBudgetReset(w) \/ RecordFailure(w)
  PROVE  SpentInv'
<1> DEFINE j == worker[w].id
           n == spent[worker[w].id]
<1>1. worker[w] # Idle /\ worker' = [worker EXCEPT ![w] = Idle]
  BY WorkerPhases
  DEF SpentInv, ExclusiveInv, TypedInv, AttemptsInv, UnknownType, RetireInsteadOfRun,
      HandlerSucceeds, ParkUntilBudgetReset, RecordFailure
<1>2. /\ j \in Jobs /\ n \in Nat /\ spent = [spent EXCEPT ![j] = n]
  BY <1>1, SpentTypes DEF SpentInv
<1>3. ~IsSource(j) => job[j].attempts = n + 1
  BY <1>1 DEF SpentInv
<1>4. ASSUME NEW row, NEW m \in Nat, ~IsSource(j) => Account(row, m),
             job' = [job EXCEPT ![j] = row], spent' = [spent EXCEPT ![j] = m]
      PROVE  SpentInv'
  BY <1>1, <1>4, FinishSpent
<1> HIDE DEF j, n
<1>5. /\ Account(Done(job[j]), n) /\ Account(Retired(job[j]), n)
      /\ Account(Enqueued, 0)
  BY DEF Account, Done, Retired, Enqueued, Row
<1>6. ASSUME job' = [job EXCEPT ![j] = Retired(job[j])], spent' = spent
      PROVE  SpentInv'
  <2>1. spent' = [spent EXCEPT ![j] = n]
    BY <1>2, <1>6
  <2> QED  BY <1>2, <1>4, <1>5, <1>6, <2>1
<1>7. CASE UnknownType(w)
  <2>1. /\ job' = [job EXCEPT ![j] = Failed(job[j])]
        /\ spent' = [spent EXCEPT ![j] = n + 1]
    BY <1>7 DEF UnknownType, Write, j, n
  <2>2. ~IsSource(j) => Account(Failed(job[j]), n + 1)
    BY <1>3 DEF Account, Failed, Row
  <2>3. n + 1 \in Nat
    BY <1>2
  <2> QED  BY <1>4, <2>1, <2>2, <2>3
<1>8. CASE RetireInsteadOfRun(w)
  BY <1>6, <1>8 DEF RetireInsteadOfRun, Write, j
<1>9. CASE HandlerSucceeds(w)
  <2>1. /\ spent' = spent
        /\ \/ job' = [job EXCEPT ![j] = Done(job[j])]
           \/ job' = [job EXCEPT ![j] = Retired(job[j])]
           \/ job' = [job EXCEPT ![j] = Enqueued] /\ IsSource(j)
    BY <1>9 DEF HandlerSucceeds, Write, WriteLater, RecurringSucceeded, j
  <2>2. spent' = [spent EXCEPT ![j] = n]
    BY <1>2, <2>1
  <2> QED  BY <1>2, <1>4, <1>5, <2>1, <2>2
<1>10. CASE ParkUntilBudgetReset(w)
  <2>1. job' = [job EXCEPT ![j] = Parked(job[j])] /\ spent' = spent
    BY <1>10 DEF ParkUntilBudgetReset, j
  <2>2. spent' = [spent EXCEPT ![j] = n]
    BY <1>2, <2>1
  <2>3. ~IsSource(j) => Account(Parked(job[j]), n)
    BY <1>2, <1>3, ParkedAccount
  <2> QED  BY <1>2, <1>4, <2>1, <2>2, <2>3
<1>11. CASE RecordFailure(w)
  <2>1. PICK kind, error : kind = Kind[j] /\ error = worker[w].error
    OBVIOUS
  <2> DEFINE row == AfterFailure(kind, error, job[j])
             m   == IF row.attempts = 0 \/ IsSource(j) THEN 0 ELSE n + 1
  <2>2. \/ job' = [job EXCEPT ![j] = Retired(job[j])] /\ spent' = spent
        \/ job' = [job EXCEPT ![j] = row] /\ spent' = [spent EXCEPT ![j] = m]
    BY <1>11, <2>1 DEF RecordFailure, Write, WriteLater, SpentAfter, j, n
  <2>3. m \in Nat
    BY <1>2
  <2>4. ASSUME ~IsSource(j)
        PROVE  Account(row, m)
    <3>1. row.status \in {"pending", "failed"} /\ row.attempts \in {0, job[j].attempts}
      BY <2>1, <2>4, FailureAttempts DEF IsSource, SourceKinds
    <3>2. job[j].attempts = n + 1
      BY <1>3, <2>4
    <3> HIDE DEF row
    <3> QED  BY <2>4, <3>1, <3>2 DEF Account
  <2> HIDE DEF row, m
  <2> QED  BY <1>4, <1>6, <2>2, <2>3, <2>4
<1> QED  BY <1>7, <1>8, <1>9, <1>10, <1>11

LEMMA TimeKeepsSpent ==
  ASSUME SpentInv, ExclusiveInv', NEW j \in Jobs,
         BecomeDue(j) \/ LeaseExpires(j) \/ Enqueue(j) \/ Cancel(j)
  PROVE  SpentInv'
<1> DEFINE row == job[j]
           n   == spent[j]
<1>1. UNCHANGED <<worker, spent>>
  BY DEF BecomeDue, LeaseExpires, Enqueue, Cancel
<1>2. row \in JobRow /\ n \in Nat /\ spent' = [spent EXCEPT ![j] = n]
  BY <1>1, SpentTypes DEF SpentInv
<1>3. ~IsSource(j) => Account(row, n)
  BY DEF SpentInv
<1>4. ASSUME NEW r, job' = [job EXCEPT ![j] = r], ~IsSource(j) => Account(r, n),
             row.status \in {"running", "done"} => r.attempts = row.attempts
      PROVE  SpentInv'
  BY <1>1, <1>2, <1>4, OutsideSpent
<1>5. CASE BecomeDue(j)
  BY <1>1, <1>5, SameSpent DEF BecomeDue
<1>6. CASE LeaseExpires(j)
  <2> DEFINE r == [row EXCEPT !.lease = "stale"]
  <2>1. job' = [job EXCEPT ![j] = r]
    BY <1>6 DEF LeaseExpires
  <2> HIDE DEF row
  <2>2. r.status = row.status /\ r.attempts = row.attempts
    BY <1>2 DEF JobRow
  <2> HIDE DEF r
  <2>3. ~IsSource(j) => Account(r, n)
    BY <1>3, <2>2 DEF Account
  <2> QED  BY <1>4, <2>1, <2>2, <2>3 DEF row
<1>7. CASE Enqueue(j)
  <2>1. job' = [job EXCEPT ![j] = Enqueued] /\ row.status = "absent"
    BY <1>7 DEF Enqueue, WriteNow, WriteLater
  <2>2. ~IsSource(j) => Account(Enqueued, n)
    BY <1>3, <2>1 DEF Account, Enqueued, Row
  <2> QED  BY <1>4, <2>1, <2>2
<1>8. CASE Cancel(j)
  <2>1. job' = [job EXCEPT ![j] = Done(row)]
    BY <1>8 DEF Cancel, Write
  <2>2. Account(Done(row), n) /\ Done(row).attempts = row.attempts
    BY DEF Account, Done, Row
  <2> QED  BY <1>4, <2>1, <2>2
<1> QED  BY <1>5, <1>6, <1>7, <1>8

LEMMA LandKeepsSpent ==
  ASSUME SpentInv, ExclusiveInv', NEW l \in looks, Land(l)
  PROVE  SpentInv'
<1> DEFINE j   == l.id
           row == Written(job[j], l)
           n   == IF "attempts" \in l.clears THEN 0 ELSE spent[j]
<1>1. /\ j \in Jobs /\ l \in LookType
      /\ row.status = IF l.status = "kept" THEN job[j].status ELSE l.status
      /\ row.attempts = IF "attempts" \in l.clears THEN 0 ELSE job[j].attempts
      /\ WriteNow(j, row) \/ Write(j, row)
      /\ UNCHANGED worker
  BY ExclusiveTypes, LandWrites DEF SpentInv
<1>2. job' = [job EXCEPT ![j] = row]
  BY <1>1 DEF WriteNow, Write
<1>3. spent \in [Jobs -> Nat] /\ n \in Nat
  BY <1>1, SpentTypes DEF SpentInv
<1>4. spent' = [spent EXCEPT ![j] = n]
  <2>1. spent' = IF "attempts" \in l.clears THEN [spent EXCEPT ![j] = 0] ELSE spent
    BY DEF Land
  <2> QED  BY <1>1, <1>3, <2>1
<1>5. ~IsSource(j) =>
        /\ l.status = "pending" => job[j].status = "failed"
        /\ "attempts" \in l.clears => l.status = "pending"
        /\ Account(job[j], spent[j])
  BY <1>1 DEF SpentInv, ExclusiveInv, LookRules, LookRule
<1>6. l.status \in {"kept", "pending", "done"}
  BY <1>1 DEF LookType
<1>7. ASSUME ~IsSource(j)
      PROVE  /\ Account(row, n)
             /\ job[j].status \in {"running", "done"} =>
                  row.attempts = job[j].attempts /\ n = spent[j]
  <2> HIDE DEF row
  <2>1. CASE l.status = "pending"
    BY <1>1, <1>5, <1>7, <2>1 DEF Account
  <2>2. CASE l.status # "pending"
    BY <1>1, <1>5, <1>6, <1>7, <2>2 DEF Account
  <2> QED  BY <2>1, <2>2
<1> HIDE DEF j, row, n
<1> QED  BY <1>1, <1>2, <1>3, <1>4, <1>7, OutsideSpent

LEMMA NextKeepsSpent ==
  ASSUME OneThreadPerLane, SpentInv, [Next]_vars
  PROVE  SpentInv'
<1>1. ExclusiveInv'
  BY NextKeepsExclusive DEF SpentInv
<1>2. CASE UNCHANGED <<job, spent, worker>>
  BY <1>1, <1>2, SameSpent
<1>3. ASSUME NEW j \in Jobs, BecomeDue(j) \/ LeaseExpires(j) \/ Enqueue(j) \/ Cancel(j)
      PROVE  SpentInv'
  BY <1>1, <1>3, TimeKeepsSpent
<1>4. ASSUME NEW j \in Jobs, ReadStep(j)
      PROVE  SpentInv'
  <2>1. OnlyReads(j)
    BY <1>4, LooksOnlyRead, ExclusiveTypes DEF SpentInv
  <2> QED  BY <1>2, <2>1 DEF OnlyReads
<1>5. ASSUME NEW l \in looks, Land(l)
      PROVE  SpentInv'
  BY <1>1, <1>5, LandKeepsSpent
<1>6. ASSUME NEW w \in Workers, NEW j \in Jobs, Claim(w, j)
      PROVE  SpentInv'
  BY <1>1, <1>6, ClaimKeepsSpent
<1>7. ASSUME NEW w \in Workers,
             \/ UnknownType(w) \/ RetireInsteadOfRun(w) \/ HandlerSucceeds(w)
             \/ ParkUntilBudgetReset(w) \/ RecordFailure(w)
      PROVE  SpentInv'
  BY <1>1, <1>7, FinishKeepsSpent
<1>8. ASSUME NEW w \in Workers, NEW error \in Errors,
             StartHandler(w) \/ HandlerRaises(w, error) \/ LoseOutcome(w)
      PROVE  SpentInv'
  <2>1. /\ worker[w] # Idle /\ UNCHANGED <<job, spent>>
        /\ \E held : /\ held = Idle \/ held.id = worker[w].id
                     /\ worker' = [worker EXCEPT ![w] = held]
    BY <1>8, ThreadMovesOn DEF SpentInv
  <2> QED  BY <1>1, <2>1, MoveKeepsSpent
<1>9. CASE UNCHANGED vars
  BY <1>2, <1>9 DEF vars
<1> QED  BY <1>3, <1>4, <1>5, <1>6, <1>7, <1>8, <1>9, StepCases

LEMMA InitSpent == Init => SpentInv
<1> SUFFICES ASSUME Init PROVE SpentInv
  OBVIOUS
<1>1. \A j \in Jobs : job[j].status = "absent" /\ spent[j] = 0
  BY DEF Init, NoRow, Row
<1>2. \A w \in Workers : worker[w] = Idle
  BY DEF Init
<1> QED  BY <1>1, <1>2, InitExclusive DEF SpentInv, Account

LEMMA SpentInvariant == ASSUME OneThreadPerLane PROVE Spec => []SpentInv
<1>1. SpentInv /\ [Next]_vars => SpentInv'
  BY NextKeepsSpent
<1> QED  BY <1>1, InitSpent, PTL DEF Spec

\* With one thread for each lane, the attempts of a row count the claims it has spent
\* and no others: the daily budget gives its claim back, a lost one stays counted, and a
\* fresh start forgets them all, whatever requests and passes write meanwhile.
THEOREM AttemptsCountClaims ==
  ASSUME OneThreadPerLane PROVE Spec => []AttemptsAreSpentClaims
<1>1. SpentInv => AttemptsAreSpentClaims
  BY DEF SpentInv, Account, AttemptsAreSpentClaims
<1> QED  BY <1>1, SpentInvariant, PTL
=============================================================================
