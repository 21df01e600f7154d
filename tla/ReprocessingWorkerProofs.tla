----------------------- MODULE ReprocessingWorkerProofs -----------------------
(***************************************************************************)
(* Proofs about ReprocessingWorker, for every set of jobs and every bound. *)
(*                                                                         *)
(* CompletedIsAdmitted is not inductive by itself: it needs to know what a *)
(* worker about to report success has done.  Reported says it: while its   *)
(* row is still leased, the result it committed is still there, because    *)
(* the only step that drops a result also takes the row out of the leased  *)
(* state, and only the worker itself, which is busy, leases it again.      *)
(***************************************************************************)
EXTENDS ReprocessingWorker, WellFoundedInduction, TLAPS

Reported ==
  (/\ worker.pc = "finish"
   /\ worker.outcome = "completed"
   /\ job[worker.job].status = "leased") => admission[worker.job] = "committed"


-----------------------------------------------------------------------------

\* A few facts on the set of times the model uses.
LEMMA TimesFacts ==
  /\ Times \subseteq Int
  /\ NoTime \in Times
  /\ Past \in Times
  /\ 0 \in Times
  /\ OperationalDelay \in Times
  /\ LeaseTime \in Times
  /\ RetryDelays \subseteq Times
  /\ \A t \in Times : t >= -2 /\ Elapse(t) \in Times
  /\ \A t \in Times : t = NoTime <=> Elapse(t) = NoTime
<1> USE WorkerAssumption DEF NoTime, Past
<1>1. Times \subseteq Int /\ \A t \in Times : t >= -2
  BY DEF Times
<1>2. NoTime \in Times /\ Past \in Times /\ 0 \in Times /\ OperationalDelay \in Times /\ LeaseTime \in Times
  BY DEF Times, OperationalDelay
<1>3. RetryDelays \subseteq Times
  <2> SUFFICES ASSUME NEW d \in RetryDelays PROVE d \in Times
    OBVIOUS
  <2>1. d \in 0..d
    OBVIOUS
  <2> QED BY <2>1 DEF Times
<1>4. ASSUME NEW t \in Times PROVE Elapse(t) \in Times
  <2>1. CASE t < 0
    BY <2>1, <1>1 DEF Elapse
  <2>2. CASE t >= 0
    <3>1. Elapse(t) = t - 1
      BY <2>2 DEF Elapse
    <3>2. CASE t = 0
      BY <3>1, <3>2, <1>2
    <3>3. CASE t > 0
      <4>1. t \in 0..LeaseTime \/ \E d \in RetryDelays : t \in 0..d
        BY <3>3 DEF Times
      <4>2. t - 1 \in 0..LeaseTime \/ \E d \in RetryDelays : t - 1 \in 0..d
        BY <4>1, <3>3
      <4> QED BY <4>2, <3>1 DEF Times
    <3> QED BY <3>2, <3>3, <2>2, <1>1
  <2> QED BY <2>1, <2>2, <1>1
<1>5. ASSUME NEW t \in Times PROVE t = NoTime <=> Elapse(t) = NoTime
  BY <1>1 DEF Elapse
<1> QED BY <1>1, <1>2, <1>3, <1>4, <1>5

\* A set of numbers that is not empty has a smallest element.
LEMMA SmallestExists ==
  ASSUME NEW T \in SUBSET Nat, T # {}
  PROVE  \E x \in T : \A y \in T : x <= y
<1> DEFINE R == OpToRel(<, Nat)
<1>1. PICK x \in T : \A y \in T : ~(<<y, x>> \in R)
  BY NatLessThanWellFounded, WFMin
<1>2. ASSUME NEW y \in T PROVE x <= y
  <2>1. <<y, x>> \notin R
    BY <1>1
  <2>2. ~(y < x)
    BY <2>1 DEF OpToRel
  <2> QED BY <2>2
<1> QED BY <1>2

\* The earliest of some times is one of them, or none.
LEMMA EarliestTime ==
  ASSUME NEW S \in SUBSET Times
  PROVE  Earliest(S) \in Times
<1> DEFINE T == S \ {NoTime}
           U == {t + 2 : t \in T}
<1>1. CASE T = {}
  BY <1>1, TimesFacts DEF Earliest
<1>2. CASE T # {}
  <2>0. \A t \in T : t \in Int /\ t >= -2
    BY TimesFacts
  <2>1. U \in SUBSET Nat /\ U # {}
    <3>1. \A t \in T : t + 2 \in Nat
      BY <2>0
    <3>2. PICK t \in T : TRUE
      BY <1>2
    <3> QED BY <3>1, <3>2
  <2>2. PICK u \in U : \A v \in U : u <= v
    BY <2>1, SmallestExists
  <2>3. PICK t \in T : u = t + 2
    OBVIOUS
  <2>4. ASSUME NEW w \in T PROVE t <= w
    <3>1. w + 2 \in U
      OBVIOUS
    <3>2. t + 2 <= w + 2
      BY <2>2, <2>3, <3>1
    <3> QED BY <3>2, <2>0
  <2>5. (CHOOSE r \in T : \A w \in T : r <= w) \in T
    BY <2>4
  <2> QED BY <2>5, <1>2 DEF Earliest
<1> QED BY <1>1, <1>2

\* The job a claim takes.
LEMMA FirstJob ==
  ASSUME NEW S \in SUBSET Jobs, S # {}
  PROVE  (CHOOSE j \in S : \A k \in S : j <= k) \in S
<1>1. \E j \in S : \A k \in S : j <= k
  BY SmallestExists, WorkerAssumption
<1> QED BY <1>1

-----------------------------------------------------------------------------
(* Rows.                                                                     *)

RowOK(row) == row \in JobRow /\ (row.status = "leased" <=> row.lease # NoTime)

\* A settled or fresh row is well formed.
LEMMA EndedRow ==
  ASSUME NEW status \in Settled \cup {"none", "pending"}
  PROVE  RowOK(Ended(status)) /\ Ended(status).status = status
BY TimesFacts, WorkerAssumption DEF RowOK, Ended, NoJob, JobRow, Settled, Queued

\* A claim leaves a well-formed leased row.
LEMMA LeasedRowOK ==
  ASSUME NEW row, RowOK(row)
  PROVE  RowOK(LeasedRow(row)) /\ LeasedRow(row).status = "leased"
<1>1. LeaseTime # NoTime /\ LeaseTime \in Times
  BY TimesFacts, WorkerAssumption DEF NoTime
<1>2. LeasedRow(row) \in JobRow
  <2> DEFINE n == IF row.attempts < MaxAttempts THEN row.attempts + 1 ELSE row.attempts
  <2>1. row.attempts \in 0..MaxAttempts
    BY DEF RowOK, JobRow
  <2>2. n \in 0..MaxAttempts
    BY <2>1, WorkerAssumption
  <2> HIDE DEF n
  <2>3. LeasedRow(row) = [row EXCEPT !.status = "leased", !.lease = LeaseTime, !.attempts = n]
    BY DEF LeasedRow, n
  <2> QED BY <2>2, <2>3, <1>1 DEF RowOK, JobRow
<1>3. LeasedRow(row).status = "leased" /\ LeasedRow(row).lease = LeaseTime
  BY DEF RowOK, LeasedRow, JobRow
<1> QED BY <1>1, <1>2, <1>3 DEF RowOK

\* Finishing a job leaves a well-formed row, completed only by a success.
LEMMA FinishedRowOK ==
  ASSUME NEW row, RowOK(row), NEW outcome, NEW delay \in Times
  PROVE  /\ RowOK(FinishedRow(row, outcome, delay))
         /\ FinishedRow(row, outcome, delay).status = "completed" <=> outcome = "completed"
<1>1. CASE outcome = "completed"
  <2>1. FinishedRow(row, outcome, delay) = Ended("completed")
    BY <1>1 DEF FinishedRow, GivesUp
  <2> QED BY <1>1, <2>1, EndedRow DEF Settled
<1>2. CASE outcome # "completed" /\ GivesUp(row, outcome)
  <2>1. FinishedRow(row, outcome, delay) = Ended("permanent")
    BY <1>2 DEF FinishedRow
  <2> QED BY <1>2, <2>1, EndedRow DEF Settled
<1>3. CASE outcome # "completed" /\ ~GivesUp(row, outcome)
  <2> DEFINE r == [row EXCEPT !.status = "retryable", !.retry = delay, !.lease = NoTime]
  <2>1. FinishedRow(row, outcome, delay) = r
    BY <1>3 DEF FinishedRow
  <2>2. r \in JobRow /\ r.status = "retryable" /\ r.lease = NoTime
    BY TimesFacts DEF RowOK, JobRow, Queued
  <2> QED BY <2>1, <2>2, <1>3 DEF RowOK
<1> QED BY <1>1, <1>2, <1>3

\* Time passing keeps a row well formed and its status as it is.
LEMMA ElapsedRowOK ==
  ASSUME NEW row, RowOK(row)
  PROVE  LET r == [row EXCEPT !.retry = Elapse(@), !.lease = Elapse(@)]
         IN  RowOK(r) /\ r.status = row.status
<1> DEFINE r == [row EXCEPT !.retry = Elapse(@), !.lease = Elapse(@)]
<1>1. row.retry \in Times /\ row.lease \in Times
  BY DEF RowOK, JobRow
<1>2. Elapse(row.retry) \in Times /\ Elapse(row.lease) \in Times
      /\ (row.lease = NoTime <=> Elapse(row.lease) = NoTime)
  BY <1>1, TimesFacts
<1>3. r \in JobRow /\ r.status = row.status /\ r.lease = Elapse(row.lease)
  BY <1>2 DEF RowOK, JobRow
<1> QED BY <1>2, <1>3 DEF RowOK

-----------------------------------------------------------------------------
(* The type invariant, with the rows and the worker as members of a set.  A  *)
(* worker that holds a job has not used up its share of the wake.            *)

Rows == {row \in JobRow : row.status = "leased" <=> row.lease # NoTime}

Outcomes == {"none", "completed", "superseded", "terminal", "retryable"}
Delays == RetryDelays \cup {OperationalDelay}

Workers ==
  {w \in [pc : {"idle", "drain", "schedule"} \cup Busy, job : Jobs \cup {0},
          count : 0..PerWake, next : Times, outcome : Outcomes, delay : Delays,
          cancelled : BOOLEAN] :
     w.pc \in Busy => w.job \in Jobs /\ w.count < PerWake}

Types ==
  /\ source \in [Jobs -> {"active", "inactive"}]
  /\ locked \in [Jobs -> BOOLEAN]
  /\ admission \in [Jobs -> {"none", "staged", "committed"}]
  /\ job \in [Jobs -> Rows]
  /\ worker \in Workers
  /\ wake \in BOOLEAN
  /\ timer \in Times
  /\ synced \in BOOLEAN
  /\ owing \subseteq Jobs
  /\ budget \in [Disturbances -> Nat]

\* The set and the predicate of well-formed rows agree.
LEMMA RowsAreOK == \A row : row \in Rows <=> RowOK(row)
BY DEF Rows, RowOK

\* Types is at least as strong as the type invariant the runs check.
LEMMA TypeOKOfTypes == (Types => TypeOK) /\ (Types' => TypeOK')
<1>1. Types => TypeOK
  <2> SUFFICES ASSUME Types PROVE TypeOK
    OBVIOUS
  <2>1. job \in [Jobs -> JobRow] /\ \A j \in Jobs : job[j].status = "leased" <=> job[j].lease # NoTime
    BY DEF Types, Rows
  <2> QED BY <2>1 DEF TypeOK, Types, Workers, Outcomes, Delays
<1>2. Types' => TypeOK'
  <2> SUFFICES ASSUME Types' PROVE TypeOK'
    OBVIOUS
  <2>1. job' \in [Jobs -> JobRow] /\ \A j \in Jobs : job'[j].status = "leased" <=> job'[j].lease # NoTime
    BY DEF Types, Rows
  <2> QED BY <2>1 DEF TypeOK, Types, Workers, Outcomes, Delays
<1> QED BY <1>1, <1>2

\* What the worker's steps write keeps it well formed.
LEMMA IdleWorker ==
  ASSUME NEW pc \in {"idle", "drain", "schedule"}, NEW count \in 0..PerWake,
         NEW next \in Times
  PROVE  /\ Idle \in Workers
         /\ [Idle EXCEPT !.pc = pc] \in Workers
         /\ [Idle EXCEPT !.pc = pc, !.count = count, !.next = next] \in Workers
<1>1. 0 \in 0..PerWake /\ 1 \in Delays /\ NoTime \in Times
  BY TimesFacts, WorkerAssumption DEF Delays, OperationalDelay
<1>2. Idle \in Workers
  BY <1>1 DEF Idle, Workers, Outcomes, Busy
<1>3. [Idle EXCEPT !.pc = pc] \in Workers
  BY <1>1 DEF Idle, Workers, Outcomes, Busy
<1>4. [Idle EXCEPT !.pc = pc, !.count = count, !.next = next] \in Workers
  BY <1>1 DEF Idle, Workers, Outcomes, Busy
<1> QED BY <1>2, <1>3, <1>4

\* A budget that is spent from stays a budget.
LEMMA SpendType ==
  ASSUME budget \in [Disturbances -> Nat], NEW kind \in Disturbances, Spend(kind)
  PROVE  budget' \in [Disturbances -> Nat]
BY DEF Spend

-----------------------------------------------------------------------------
(* The inductive invariant, action by action.                                *)

IInv == Types /\ Reported /\ CompletedIsAdmitted

\* The invariant holds when the process starts.
LEMMA InitIInv == Init => IInv
<1> SUFFICES ASSUME Init PROVE IInv
  OBVIOUS
<1>1. NoJob \in Rows /\ NoJob.status = "none"
  BY EndedRow, RowsAreOK, TimesFacts, WorkerAssumption DEF NoJob, Rows, JobRow
<1>2. job \in [Jobs -> Rows] /\ \A j \in Jobs : job[j].status = "none"
  BY <1>1 DEF Init
<1>3. worker \in Workers /\ worker.pc = "idle"
  <2>1. 0 \in 0..PerWake /\ NoTime \in Times
    BY TimesFacts, WorkerAssumption
  <2>2. Idle \in Workers
    BY <2>1, IdleWorker
  <2> QED BY <2>2 DEF Init, Idle
<1>4. Types
  BY <1>2, <1>3, TimesFacts, WorkerAssumption DEF Init, Types
<1> QED BY <1>2, <1>3, <1>4 DEF IInv, Reported, CompletedIsAdmitted

\* Steps that leave the rows, the admissions and the worker alone.
LEMMA QuietSteps ==
  ASSUME IInv,
         \/ \E j \in Jobs : \/ HandlerWake(j) \/ HandlerDropsWake(j)
                            \/ LockSession(j) \/ UnlockSession(j)
         \/ OtherWake \/ UpdateRuntimeConfig \/ UNCHANGED vars
  PROVE  IInv'
<1>1. /\ job' = job /\ admission' = admission /\ worker' = worker /\ source' = source
      /\ timer' = timer
  BY DEF HandlerWake, HandlerDropsWake, LockSession, UnlockSession, OtherWake,
         UpdateRuntimeConfig, vars, queue
<1>2. budget' \in [Disturbances -> Nat]
  <2>1. CASE budget' = budget
    BY <2>1 DEF IInv, Types
  <2>2. CASE Spend("drop") \/ Spend("lock")
    BY <2>2, SpendType DEF IInv, Types, Disturbances
  <2> QED BY <2>1, <2>2 DEF HandlerWake, HandlerDropsWake, LockSession, UnlockSession, OtherWake,
         UpdateRuntimeConfig, vars, queue
<1>3. locked' \in [Jobs -> BOOLEAN] /\ wake' \in BOOLEAN /\ synced' \in BOOLEAN /\ owing' \subseteq Jobs
  BY DEF IInv, Types, HandlerWake, HandlerDropsWake, LockSession, UnlockSession, OtherWake,
         UpdateRuntimeConfig, vars, queue
<1>4. Types'
  BY <1>1, <1>2, <1>3 DEF IInv, Types
<1> QED BY <1>1, <1>4 DEF IInv, Reported, CompletedIsAdmitted

\* A new row is never completed or leased.
LEMMA EnqueueStep ==
  ASSUME IInv, NEW j \in Jobs, Enqueue(j)
  PROVE  IInv'
<1> USE DEF IInv
<1>1. PICK row \in Rows : /\ Insert(j, row)
                          /\ row.status \in {"pending", "permanent"}
  <2>1. CASE Insert(j, Ended("permanent"))
    BY <2>1, EndedRow, RowsAreOK DEF Settled
  <2>2. ASSUME NEW retry \in {NoTime, 0} \cup RetryDelays,
               Insert(j, [NoJob EXCEPT !.status = "pending", !.retry = retry])
        PROVE  \E row \in Rows : Insert(j, row) /\ row.status \in {"pending", "permanent"}
    <3>1. retry \in Times /\ NoTime \in Times /\ 0 \in 0..MaxAttempts
      BY TimesFacts, WorkerAssumption
    <3>2. [NoJob EXCEPT !.status = "pending", !.retry = retry] \in Rows
      BY <3>1 DEF NoJob, Rows, JobRow, Queued
    <3> QED BY <2>2, <3>2 DEF NoJob
  <2> QED BY <2>1, <2>2 DEF Enqueue
<1>2. /\ job' = [job EXCEPT ![j] = row]
      /\ UNCHANGED <<source, locked, admission, worker, wake, timer, synced, budget>>
      /\ owing' \subseteq Jobs
  BY <1>1 DEF Enqueue, Insert, Types
<1>3. Types'
  BY <1>1, <1>2 DEF Types
<1>4. Reported'
  BY <1>1, <1>2 DEF Reported, Types
<1>5. CompletedIsAdmitted'
  BY <1>1, <1>2 DEF CompletedIsAdmitted, Types
<1> QED BY <1>3, <1>4, <1>5

\* A reopened job loses its result and its lease in one transaction.
LEMMA ReopenStep ==
  ASSUME IInv, NEW j \in Jobs, Reopen(j)
  PROVE  IInv'
<1> USE DEF IInv
<1>1. PICK row \in Rows : job' = [job EXCEPT ![j] = row] /\ row.status = "pending"
  <2>1. Ended("pending") \in Rows /\ Ended("pending").status = "pending"
    BY EndedRow, RowsAreOK
  <2> QED BY <2>1 DEF Reopen, Ended
<1>2. /\ UNCHANGED <<source, locked, worker, wake, timer, synced>>
      /\ admission' = [admission EXCEPT ![j] = "none"]
      /\ owing' \subseteq Jobs
  BY DEF Reopen, Types
<1>3. budget' \in [Disturbances -> Nat]
  BY SpendType DEF Reopen, Types, Disturbances
<1>4. Types'
  BY <1>1, <1>2, <1>3 DEF Types
<1>5. Reported'
  BY <1>1, <1>2 DEF Reported, Types
<1>6. CompletedIsAdmitted'
  BY <1>1, <1>2 DEF CompletedIsAdmitted, Types
<1> QED BY <1>4, <1>5, <1>6

\* Invalidation touches no admission and makes no row leased or completed.
LEMMA InvalidateStep ==
  ASSUME IInv, NEW j \in Jobs, Invalidate(j)
  PROVE  IInv'
<1> USE DEF IInv
<1>1. PICK row \in Rows : /\ job' = [job EXCEPT ![j] = row]
                          /\ row = job[j] \/ row.status = "stale_rejected"
  <2>1. Ended("stale_rejected") \in Rows /\ Ended("stale_rejected").status = "stale_rejected"
    BY EndedRow, RowsAreOK DEF Settled
  <2>2. job[j] \in Rows
    BY DEF Types
  <2> QED BY <2>1, <2>2 DEF Invalidate
<1>2. /\ UNCHANGED <<locked, admission, worker, wake, timer, synced, budget>>
      /\ source' = [source EXCEPT ![j] = "inactive"]
      /\ owing' \subseteq Jobs
  BY DEF Invalidate, Types
<1>3. Types'
  BY <1>1, <1>2 DEF Types
<1>4. Reported'
  BY <1>1, <1>2 DEF Reported, Types
<1>5. CompletedIsAdmitted'
  BY <1>1, <1>2 DEF CompletedIsAdmitted, Types
<1> QED BY <1>3, <1>4, <1>5

\* An inline commit can only add an admission.
LEMMA InlineCommitStep ==
  ASSUME IInv, NEW j \in Jobs, InlineCommit(j)
  PROVE  IInv'
<1> USE DEF IInv
<1>1. /\ UNCHANGED <<source, locked, job, worker, wake, timer, synced, owing, budget>>
      /\ admission' = [admission EXCEPT ![j] = "committed"]
  BY DEF InlineCommit
<1>2. Types'
  BY <1>1 DEF Types
<1>3. Reported'
  BY <1>1 DEF Reported, Types
<1>4. CompletedIsAdmitted'
  BY <1>1 DEF CompletedIsAdmitted, Types
<1> QED BY <1>2, <1>3, <1>4

\* The steps that change only the worker's place, its wake and its timer; none
\* of them makes it report a success.
LEMMA ControlSteps ==
  ASSUME IInv,
         CancelDerivation \/ TakeWake \/ NothingDue \/ ClaimFails \/ DrainLimit \/ FinishFails
           \/ Schedule \/ Crash
  PROVE  IInv'
<1> USE DEF IInv
<1>1. UNCHANGED <<source, locked, admission, job>>
  BY DEF CancelDerivation, TakeWake, NothingDue, ClaimFails, DrainLimit, FinishFails,
         Schedule, Crash, queue
<1>2. worker' \in Workers /\ worker'.pc # "finish"
  <2>1. worker \in Workers /\ worker.count \in 0..PerWake /\ worker.next \in Times
    BY DEF Types, Workers
  <2>2. CASE CancelDerivation
    <3>1. worker' = [worker EXCEPT !.cancelled = TRUE]
      BY <2>2 DEF CancelDerivation
    <3>2. worker' \in Workers
      BY <3>1, <2>1 DEF Workers
    <3> QED BY <2>2, <3>1, <3>2, <2>1 DEF Workers, CancelDerivation
  <2>3. CASE TakeWake
    <3>1. PICK pc \in {"idle", "drain"} : worker' = [Idle EXCEPT !.pc = pc]
      BY <2>3 DEF TakeWake
    <3>2. worker' \in Workers
      BY <3>1, <2>1, IdleWorker
    <3> QED BY <3>1, <3>2 DEF Idle
  <2>4. CASE NothingDue \/ ClaimFails \/ DrainLimit
    <3>1. worker' = [worker EXCEPT !.pc = "schedule"]
      BY <2>4 DEF NothingDue, ClaimFails, DrainLimit
    <3>2. worker' \in Workers
      BY <3>1, <2>1 DEF Workers, Busy
    <3> QED BY <3>1, <3>2, <2>1 DEF Workers
  <2>5. CASE FinishFails
    <3>1. worker' = [Idle EXCEPT !.pc = "schedule", !.count = worker.count, !.next = worker.next]
      BY <2>5 DEF FinishFails
    <3>2. worker' \in Workers
      BY <3>1, <2>1, IdleWorker
    <3> QED BY <3>1, <3>2 DEF Idle
  <2>6. CASE Schedule \/ Crash
    <3>1. worker' = Idle
      BY <2>6 DEF Schedule, Crash
    <3>2. worker' \in Workers
      BY <3>1, <2>1, IdleWorker
    <3> QED BY <3>1, <3>2 DEF Idle
  <2> QED BY <2>2, <2>3, <2>4, <2>5, <2>6
<1>3. timer' \in Times
  <2>1. CASE Schedule
    <3>1. {worker.next, NextWakeAt} \subseteq Times
      <4>1. worker.next \in Times
        BY DEF Types, Workers
      <4>2. NextWakeAt \in Times
        <5> DEFINE S == {IF job[j].status = "leased" THEN job[j].lease ELSE job[j].retry :
                          j \in {k \in Jobs : Eligible(k) /\ job[k].status \in Queued \cup {"leased"}}}
        <5>1. \A j \in Jobs : job[j].lease \in Times /\ job[j].retry \in Times
          BY DEF Types, Rows, JobRow
        <5>2. S \in SUBSET Times
          BY <5>1
        <5> QED BY <5>2, EarliestTime DEF NextWakeAt
      <4> QED BY <4>1, <4>2
    <3>2. Earliest({worker.next, NextWakeAt}) \in Times /\ worker.next \in Times
      BY <3>1, EarliestTime
    <3>3. \A at \in Times : ScheduledTimer(at) \in Times
      BY DEF ScheduledTimer, Types
    <3> QED BY <2>1, <3>2, <3>3 DEF Schedule
  <2>2. CASE ~Schedule
    BY <2>2, TimesFacts DEF Types, CancelDerivation, TakeWake, NothingDue, ClaimFails,
         DrainLimit, FinishFails, Crash
  <2> QED BY <2>1, <2>2
<1>4. budget' \in [Disturbances -> Nat]
  <2>1. CASE budget' = budget
    BY <2>1 DEF Types
  <2>2. CASE Spend("store") \/ Spend("cancel") \/ Spend("crash")
    BY <2>2, SpendType DEF Types, Disturbances
  <2> QED BY <2>1, <2>2 DEF CancelDerivation, TakeWake, NothingDue, ClaimFails, DrainLimit,
         FinishFails, Schedule, Crash
<1>5. wake' \in BOOLEAN /\ synced' \in BOOLEAN /\ owing' \subseteq Jobs
  BY DEF Types, CancelDerivation, TakeWake, NothingDue, ClaimFails, DrainLimit,
         FinishFails, Schedule, Crash
<1>6. Types'
  BY <1>1, <1>2, <1>3, <1>4, <1>5 DEF Types
<1>7. Reported'
  BY <1>1, <1>2 DEF Reported
<1>8. CompletedIsAdmitted'
  BY <1>1 DEF CompletedIsAdmitted
<1> QED BY <1>6, <1>7, <1>8

\* A claim leases the job it takes and only rejects others.
LEMMA ClaimStep ==
  ASSUME IInv, Claim
  PROVE  IInv'
<1> USE DEF IInv
<1> DEFINE first == CHOOSE j \in Claimable : \A k \in Claimable : j <= k
           rejected(j) == job[j].status \in Queued \cup {"leased"} /\ source[j] # "active"
           row(j) == IF j = first THEN LeasedRow(job[j])
                     ELSE IF rejected(j) THEN Ended("stale_rejected") ELSE job[j]
<1>1. first \in Jobs
  <2>1. Claimable \in SUBSET Jobs /\ Claimable # {}
    BY DEF Claim, Claimable
  <2> QED BY <2>1, FirstJob
<1>2. job' = [j \in Jobs |-> row(j)] /\ worker' = [worker EXCEPT !.pc = "begin", !.job = first]
  BY DEF Claim
<1>3. UNCHANGED <<source, locked, admission, wake, timer, synced, owing, budget>>
  BY DEF Claim
<1> HIDE DEF first
<1>4. ASSUME NEW j \in Jobs
      PROVE  row(j) \in Rows /\ (row(j).status = "completed" => job[j].status = "completed")
  <2>1. job[j] \in Rows
    BY DEF Types
  <2>2. LeasedRow(job[j]) \in Rows /\ LeasedRow(job[j]).status = "leased"
    BY <2>1, LeasedRowOK, RowsAreOK
  <2>3. Ended("stale_rejected") \in Rows /\ Ended("stale_rejected").status = "stale_rejected"
    BY EndedRow, RowsAreOK DEF Settled
  <2> HIDE DEF rejected
  <2> QED BY <2>1, <2>2, <2>3
<1> HIDE DEF row
<1>5. worker' \in Workers /\ worker'.pc = "begin"
  <2>1. worker \in Workers
    BY DEF Types
  <2>2. worker' \in Workers
    BY <2>1, <1>1, <1>2 DEF Workers, Busy, Claim
  <2> QED BY <2>1, <2>2, <1>2 DEF Workers
<1>6. Types'
  BY <1>2, <1>3, <1>4, <1>5 DEF Types
<1>7. Reported'
  BY <1>5 DEF Reported
<1>8. CompletedIsAdmitted'
  BY <1>2, <1>3, <1>4 DEF CompletedIsAdmitted
<1> QED BY <1>6, <1>7, <1>8

\* What Begin, Critic and Save leave alone, and what they make of the worker.
LEMMA OutcomeWorker ==
  ASSUME Types, worker.pc \in Busy, NEW outcome \in Outcomes, NEW delay \in Delays,
         Outcome(outcome, delay)
  PROVE  worker' \in Workers /\ worker'.outcome = outcome /\ worker'.job = worker.job
<1>1. worker \in Workers
  BY DEF Types
<1>2. worker' = [worker EXCEPT !.pc = "finish", !.outcome = outcome, !.delay = delay]
  BY DEF Outcome
<1> QED BY <1>1, <1>2 DEF Workers, Busy

\* The checks before the Critic report no success.
LEMMA BeginStep ==
  ASSUME IInv, Begin
  PROVE  IInv'
<1> USE DEF IInv
<1>1. UNCHANGED <<source, locked, admission, job, wake, timer, synced, owing>>
  BY DEF Begin, queue
<1>2. worker.pc \in Busy /\ worker \in Workers
  BY DEF Begin, Busy, Types
<1>3. worker' \in Workers /\ (worker'.pc # "finish" \/ worker'.outcome # "completed")
  <2>1. CASE \E outcome \in {"superseded", "retryable"} : Outcome(outcome, OperationalDelay)
    BY <2>1, <1>2, OutcomeWorker DEF Outcomes, Delays
  <2>2. CASE \E pc \in {"save", "critic"} : worker' = [worker EXCEPT !.pc = pc]
    BY <2>2, <1>2 DEF Workers, Busy
  <2> QED BY <2>1, <2>2 DEF Begin
<1>4. budget' \in [Disturbances -> Nat]
  <2>1. CASE budget' = budget
    BY <2>1 DEF Types
  <2>2. CASE Spend("store")
    BY <2>2, SpendType DEF Types, Disturbances
  <2> QED BY <2>1, <2>2 DEF Begin
<1>5. Types'
  BY <1>1, <1>3, <1>4 DEF Types
<1> QED BY <1>1, <1>3, <1>5 DEF Reported, CompletedIsAdmitted

\* Neither does the Critic.
LEMMA CriticStep ==
  ASSUME IInv, Critic
  PROVE  IInv'
<1> USE DEF IInv
<1>1. UNCHANGED <<source, locked, admission, job, wake, timer, synced, owing, budget>>
  BY DEF Critic, queue
<1>2. worker.pc \in Busy /\ worker \in Workers
  BY DEF Critic, Busy, Types
<1>3. worker' \in Workers /\ (worker'.pc # "finish" \/ worker'.outcome # "completed")
  <2>1. CASE \E outcome \in {"superseded", "retryable", "terminal"}, delay \in Delays :
               Outcome(outcome, delay)
    BY <2>1, <1>2, OutcomeWorker DEF Outcomes
  <2>2. CASE worker' = [worker EXCEPT !.pc = "save"]
    BY <2>2, <1>2 DEF Workers, Busy
  <2> QED BY <2>1, <2>2 DEF Critic, Delays
<1>4. Types'
  BY <1>1, <1>3 DEF Types
<1> QED BY <1>1, <1>3, <1>4 DEF Reported, CompletedIsAdmitted

\* A commit reports success only for the job it admitted, and no attempt takes
\* an admission away.
LEMMA SaveStep ==
  ASSUME IInv, Save
  PROVE  IInv'
<1> USE DEF IInv
<1> DEFINE j == worker.job
<1>1. UNCHANGED <<source, locked, job, wake, timer, synced, owing>>
  BY DEF Save
<1>2. worker.pc \in Busy /\ worker \in Workers /\ j \in Jobs
  BY DEF Save, Busy, Types, Workers
<1>3. /\ worker' \in Workers /\ worker'.job = j
      /\ worker'.outcome = "completed" => admission' = [admission EXCEPT ![j] = "committed"]
  <2>1. CASE \E outcome \in {"superseded", "retryable"} : Outcome(outcome, OperationalDelay)
    BY <2>1, <1>2, OutcomeWorker DEF Outcomes, Delays
  <2>2. CASE /\ Outcome("completed", OperationalDelay)
             /\ admission' = [admission EXCEPT ![j] = "committed"]
    BY <2>2, <1>2, OutcomeWorker DEF Outcomes, Delays
  <2> QED BY <2>1, <2>2 DEF Save
<1>4. PICK state \in {"none", "staged", "committed"} :
        /\ admission' = [admission EXCEPT ![j] = state]
        /\ admission[j] = "committed" => state = "committed"
  <2>1. admission[j] \in {"none", "staged", "committed"}
    BY <1>2 DEF Types
  <2>2. CASE UNCHANGED admission
    BY <2>1, <2>2, <1>2 DEF Types
  <2>3. CASE \E state \in AfterFailedSave(admission[j]) :
               admission' = [admission EXCEPT ![j] = state]
    BY <2>1, <2>3 DEF AfterFailedSave
  <2>4. CASE \E state \in {admission[j], "committed"} :
               admission' = [admission EXCEPT ![j] = state]
    BY <2>1, <2>4
  <2> QED BY <2>2, <2>3, <2>4 DEF Save
<1>5. budget' \in [Disturbances -> Nat]
  <2>1. CASE budget' = budget
    BY <2>1 DEF Types
  <2>2. CASE Spend("store")
    BY <2>2, SpendType DEF Types, Disturbances
  <2> QED BY <2>1, <2>2 DEF Save
<1>6. Types'
  BY <1>1, <1>2, <1>3, <1>4, <1>5 DEF Types
<1>7. Reported'
  BY <1>1, <1>2, <1>3 DEF Reported, Types
<1>8. CompletedIsAdmitted'
  BY <1>1, <1>2, <1>4 DEF CompletedIsAdmitted, Types
<1> QED BY <1>6, <1>7, <1>8

\* The job is completed only while its lease is held, which is when Reported
\* speaks of it.
LEMMA FinishStep ==
  ASSUME IInv, Finish
  PROVE  IInv'
<1> USE DEF IInv
<1> DEFINE j == worker.job
           row == FinishedRow(job[j], worker.outcome, worker.delay)
           written == IF source[j] # "active" THEN Ended("stale_rejected") ELSE row
           times == {worker.next, IF written.status = "retryable" THEN written.retry ELSE NoTime}
<1>1. /\ worker.pc = "finish" /\ j \in Jobs /\ worker \in Workers
      /\ job[j].status = "leased" /\ job[j] \in Rows
  BY DEF Finish, LeaseHeld, Types, Workers, Busy
<1>2. UNCHANGED <<source, locked, admission, wake, timer, synced, owing, budget>>
  BY DEF Finish
<1>3. /\ job' = [job EXCEPT ![j] = written]
      /\ \E pc \in {"drain", "schedule"}, count \in {worker.count, worker.count + 1} :
           worker' = [Idle EXCEPT !.pc = pc, !.count = count, !.next = Earliest(times)]
  BY DEF Finish
<1>4. row \in Rows /\ (row.status = "completed" <=> worker.outcome = "completed")
  <2>1. worker.delay \in Times
    BY <1>1, TimesFacts DEF Workers, Delays
  <2> QED BY <2>1, <1>1, FinishedRowOK, RowsAreOK
<1> HIDE DEF row
<1>5. written \in Rows /\ (written.status = "completed" => worker.outcome = "completed")
  BY <1>4, EndedRow, RowsAreOK DEF Settled
<1>6. worker' \in Workers /\ worker'.pc \in {"drain", "schedule"}
  <2>1. Earliest(times) \in Times
    <3>1. worker.next \in Times /\ written.retry \in Times /\ NoTime \in Times
      BY <1>1, <1>5, TimesFacts DEF Workers, Rows, JobRow
    <3>2. times \in SUBSET Times
      BY <3>1
    <3> QED BY <3>2, EarliestTime
  <2>2. worker.count \in 0..PerWake /\ worker.count + 1 \in 0..PerWake
    <3>1. worker.count \in 0..PerWake /\ worker.count < PerWake
      BY <1>1 DEF Workers, Busy
    <3> QED BY <3>1, WorkerAssumption
  <2> HIDE DEF times
  <2>3. PICK pc \in {"drain", "schedule"}, count \in {worker.count, worker.count + 1} :
          worker' = [Idle EXCEPT !.pc = pc, !.count = count, !.next = Earliest(times)]
    BY <1>3
  <2>4. pc \in {"idle", "drain", "schedule"} /\ count \in 0..PerWake
    BY <2>2, <2>3
  <2>5. worker' \in Workers
    BY <2>1, <2>3, <2>4, IdleWorker
  <2> QED BY <2>3, <2>5 DEF Idle
<1> HIDE DEF written
<1>7. Types'
  BY <1>1, <1>2, <1>3, <1>5, <1>6 DEF Types
<1>8. Reported'
  BY <1>6 DEF Reported
<1>9. CompletedIsAdmitted'
  BY <1>1, <1>2, <1>3, <1>5 DEF CompletedIsAdmitted, Reported, Types
<1> QED BY <1>7, <1>8, <1>9

\* Time changes no status.
LEMMA TickStep ==
  ASSUME IInv, Tick
  PROVE  IInv'
<1> USE DEF IInv
<1> DEFINE later(j) == [job[j] EXCEPT !.retry = Elapse(@), !.lease = Elapse(@)]
<1>1. /\ UNCHANGED <<source, locked, admission, wake, synced, owing>>
      /\ job' = [j \in Jobs |-> later(j)]
      /\ timer' = Elapse(timer)
      /\ worker' = [worker EXCEPT !.next = Elapse(@)]
  BY DEF Tick
<1>2. ASSUME NEW j \in Jobs PROVE later(j) \in Rows /\ later(j).status = job[j].status
  <2>1. job[j] \in Rows
    BY DEF Types
  <2> QED BY <2>1, ElapsedRowOK, RowsAreOK
<1> HIDE DEF later
<1>3. timer' \in Times
  BY <1>1, TimesFacts DEF Types
<1>4. /\ worker' \in Workers /\ worker'.pc = worker.pc
      /\ worker'.outcome = worker.outcome /\ worker'.job = worker.job
  <2>1. worker \in Workers /\ Elapse(worker.next) \in Times
    BY TimesFacts DEF Types, Workers
  <2>2. worker' = [worker EXCEPT !.next = Elapse(worker.next)]
    BY <1>1
  <2> QED BY <2>1, <2>2 DEF Workers
<1>5. budget' \in [Disturbances -> Nat]
  <2>1. CASE budget' = budget
    BY <2>1 DEF Types
  <2>2. CASE Spend("overrun")
    BY <2>2, SpendType DEF Types, Disturbances
  <2> QED BY <2>1, <2>2 DEF Tick
<1>6. Types'
  BY <1>1, <1>2, <1>3, <1>4, <1>5 DEF Types
<1>7. Reported'
  <2>1. CASE worker.pc = "finish"
    <3>1. worker.job \in Jobs
      BY <2>1 DEF Types, Workers, Busy
    <3> QED BY <3>1, <1>1, <1>2, <1>4 DEF Reported
  <2>2. CASE worker.pc # "finish"
    BY <2>2, <1>4 DEF Reported
  <2> QED BY <2>1, <2>2
<1>8. CompletedIsAdmitted'
  BY <1>1, <1>2 DEF CompletedIsAdmitted
<1> QED BY <1>6, <1>7, <1>8

-----------------------------------------------------------------------------

\* Every step keeps the invariant.
LEMMA NextIInv == IInv /\ [Next]_vars => IInv'
<1> SUFFICES ASSUME IInv, [Next]_vars PROVE IInv'
  OBVIOUS
<1>1. CASE WorkerStep
  <2>1. CASE TakeWake \/ NothingDue \/ ClaimFails \/ DrainLimit \/ FinishFails \/ Schedule
    BY <2>1, ControlSteps
  <2>2. CASE Claim
    BY <2>2, ClaimStep
  <2>3. CASE Begin
    BY <2>3, BeginStep
  <2>4. CASE Critic
    BY <2>4, CriticStep
  <2>5. CASE Save
    BY <2>5, SaveStep
  <2>6. CASE Finish
    BY <2>6, FinishStep
  <2> QED BY <1>1, <2>1, <2>2, <2>3, <2>4, <2>5, <2>6 DEF WorkerStep
<1>2. CASE Tick
  BY <1>2, TickStep
<1>3. CASE Crash \/ CancelDerivation
  BY <1>3, ControlSteps
<1>4. CASE OtherWake \/ UpdateRuntimeConfig \/ UNCHANGED vars
  BY <1>4, QuietSteps
<1>5. ASSUME NEW j \in Jobs,
             \/ Enqueue(j) \/ Reopen(j) \/ Invalidate(j)
             \/ HandlerWake(j) \/ HandlerDropsWake(j)
             \/ InlineCommit(j) \/ LockSession(j) \/ UnlockSession(j)
      PROVE  IInv'
  <2>1. CASE Enqueue(j)
    BY <2>1, EnqueueStep
  <2>2. CASE Reopen(j)
    BY <2>2, ReopenStep
  <2>3. CASE Invalidate(j)
    BY <2>3, InvalidateStep
  <2>4. CASE InlineCommit(j)
    BY <2>4, InlineCommitStep
  <2>5. CASE HandlerWake(j) \/ HandlerDropsWake(j) \/ LockSession(j) \/ UnlockSession(j)
    BY <2>5, QuietSteps
  <2> QED BY <1>5, <2>1, <2>2, <2>3, <2>4, <2>5
<1> QED BY <1>1, <1>2, <1>3, <1>4, <1>5 DEF Next

\* The invariant holds in every state of the specification.
THEOREM WorkerInvariant == Spec => []IInv
BY InitIInv, NextIInv, PTL DEF Spec

\* Type correctness: every row and the worker of runMemoryWorkers keep the shape
\* the code gives them, and a row carries a lease exactly while it is leased.
THEOREM WorkerTypeCorrect == Spec => []TypeOK
<1>1. IInv => TypeOK
  BY TypeOKOfTypes DEF IInv
<1> QED BY <1>1, WorkerInvariant, PTL

\* Fencing: finishMemoryReprocessingJob completes a job only if the memories of
\* its source are committed, whatever leases run out, restarts and reopens happen
\* while a worker is at work on it.
THEOREM CompletedOnlyIfAdmitted == Spec => []CompletedIsAdmitted
<1>1. IInv => CompletedIsAdmitted
  BY DEF IInv
<1> QED BY <1>1, WorkerInvariant, PTL

\* What one step may do to a settled job.
SettledStep ==
  \A j \in Jobs :
    job[j].status \in Settled =>
      \/ job'[j].status = job[j].status
      \/ job'[j].status = "pending" /\ admission'[j] = "none"

\* Only a reopen touches a settled row: a claim and a finish find it neither
\* queued nor leased, and the insert of an existing key is ignored.
LEMMA SettledStepHolds == IInv /\ [Next]_vars => SettledStep
<1> SUFFICES ASSUME IInv, [Next]_vars, NEW k \in Jobs, job[k].status \in Settled
             PROVE  \/ job'[k].status = job[k].status
                    \/ job'[k].status = "pending" /\ admission'[k] = "none"
  BY DEF SettledStep
<1> USE DEF IInv
<1>0. /\ job \in [Jobs -> Rows] /\ admission \in [Jobs -> {"none", "staged", "committed"}]
      /\ job[k].status \notin Queued \cup {"leased", "none"}
  BY DEF Types, Settled, Queued
<1>1. CASE job' = job
  BY <1>1
<1>2. CASE Claim
  <2>1. (CHOOSE j \in Claimable : \A i \in Claimable : j <= i) \in Claimable
    BY <1>2, FirstJob DEF Claim, Claimable
  <2>2. k \notin Claimable
    BY <1>0 DEF Claimable, Due
  <2> QED BY <1>2, <2>1, <2>2, <1>0 DEF Claim
<1>3. CASE Finish
  <2>1. worker.job # k
    BY <1>3, <1>0 DEF Finish, LeaseHeld
  <2> QED BY <1>3, <2>1, <1>0 DEF Finish
<1>4. CASE Tick
  <2>1. job[k] \in Rows
    BY <1>0
  <2>2. [job[k] EXCEPT !.retry = Elapse(@), !.lease = Elapse(@)].status = job[k].status
    BY <2>1, ElapsedRowOK, RowsAreOK
  <2> QED BY <1>4, <2>2 DEF Tick
<1>5. ASSUME NEW j \in Jobs, Enqueue(j) \/ Invalidate(j)
      PROVE  job'[k].status = job[k].status
  BY <1>5, <1>0 DEF Enqueue, Insert, Invalidate
<1>6. ASSUME NEW j \in Jobs, Reopen(j)
      PROVE  \/ job'[k].status = job[k].status
             \/ job'[k].status = "pending" /\ admission'[k] = "none"
  <2>1. CASE j # k
    BY <1>6, <2>1, <1>0 DEF Reopen
  <2>2. CASE j = k
    BY <1>6, <2>2, <1>0 DEF Reopen, NoJob
  <2> QED BY <2>1, <2>2
<1>7. CASE /\ ~(Claim \/ Finish \/ Tick)
           /\ ~\E j \in Jobs : Enqueue(j) \/ Invalidate(j) \/ Reopen(j)
  <2>1. job' = job
    BY <1>7 DEF Next, WorkerStep, TakeWake, NothingDue, DrainLimit, ClaimFails, Begin, Critic,
         Save, FinishFails, Schedule, Crash, OtherWake, UpdateRuntimeConfig,
         CancelDerivation, HandlerWake, HandlerDropsWake, InlineCommit, LockSession,
         UnlockSession, vars, queue
  <2> QED BY <2>1
<1> QED BY <1>2, <1>3, <1>4, <1>5, <1>6, <1>7

\* A settled job changes only by an explicit reopen, which drops its stored
\* result: no late worker, claim, replayed enqueue or invalidation rewrites it.
THEOREM SettledJobsStaySettled == Spec => SettledStaysSettled
<1>1. IInv /\ [Next]_vars => [SettledStep]_vars
  BY SettledStepHolds
<1>2. SettledStaysSettled <=> [][SettledStep]_vars
  BY DEF SettledStaysSettled, SettledStep
<1> QED BY <1>1, <1>2, WorkerInvariant, PTL DEF Spec

-----------------------------------------------------------------------------
(***************************************************************************)
(* No wake-up is lost, as long as the store answers, no session is locked  *)
(* by a migration and every handler sends its wake.                        *)
(*                                                                         *)
(* NoStrandedJob speaks of a sleeping worker only.  Watch says, for every  *)
(* place the worker can be at, why the jobs it could do will be seen: a    *)
(* wake is on its way, the drain will look at them, the job at hand comes  *)
(* back with the end of its lease, or the timer is early enough.           *)
(***************************************************************************)

\* The disturbances after which the code itself leaves a job without a timer.
Reliable == Budget["store"] = 0 /\ Budget["lock"] = 0 /\ Budget["drop"] = 0

Undisturbed ==
  /\ budget["store"] = 0 /\ budget["lock"] = 0 /\ budget["drop"] = 0
  /\ locked = [j \in Jobs |-> FALSE]

\* A wake will reach the worker whatever the timer is: its token is there, a
\* handler still has to send it, or the configuration sync will.
Alert == wake \/ owing # {} \/ ~synced

Live(j) == source[j] = "active" /\ job[j].status \in Queued \cup {"leased"}

DueAt(j) == IF job[j].status = "leased" THEN job[j].lease ELSE job[j].retry

Holding ==
  worker.pc \in Busy /\ source[worker.job] = "active" /\ job[worker.job].status = "leased"

\* The schedule query will find a time, and one that has passed already if
\* there is a job it does not see because it has none.
Schedulable ==
  worker.pc = "schedule" /\ \A j \in Jobs :
    Live(j) => DueAt(j) # NoTime \/ \E k \in Jobs : Live(k) /\ DueAt(k) = Past

TimerArmed ==
  worker.pc = "idle" /\ \A j \in Jobs : Live(j) => timer # NoTime /\ timer <= WakeTime(j)

Watch == Alert \/ worker.pc = "drain" \/ Holding \/ Schedulable \/ TimerArmed

WakeInv == IInv /\ Undisturbed /\ Watch

-----------------------------------------------------------------------------
(* Times.                                                                    *)

\* The earliest of some times is no later than any of them.
LEMMA EarliestIsLeast ==
  ASSUME NEW S \in SUBSET Times, NEW t \in S, t # NoTime
  PROVE  Earliest(S) # NoTime /\ Earliest(S) <= t
<1> DEFINE T == S \ {NoTime}
           U == {x + 2 : x \in T}
<1>1. \A x \in T : x \in Int /\ x >= -2
  BY TimesFacts
<1>2. U \in SUBSET Nat /\ U # {}
  <2>1. \A x \in T : x + 2 \in Nat
    BY <1>1
  <2> QED BY <2>1
<1>3. PICK u \in U : \A v \in U : u <= v
  BY <1>2, SmallestExists
<1>4. PICK x \in T : u = x + 2
  OBVIOUS
<1>5. ASSUME NEW w \in T PROVE x <= w
  <2>1. w + 2 \in U
    OBVIOUS
  <2>2. x + 2 <= w + 2
    BY <1>3, <1>4, <2>1
  <2> QED BY <2>2, <1>1
<1>6. LET c == CHOOSE r \in T : \A w \in T : r <= w IN c \in T /\ \A w \in T : c <= w
  BY <1>5
<1>7. Earliest(S) \in T /\ \A w \in T : Earliest(S) <= w
  BY <1>6 DEF Earliest
<1> QED BY <1>7

\* What time does to a time; one that is not past stays ordered.
LEMMA ElapseFacts ==
  /\ Elapse(NoTime) = NoTime /\ Elapse(Past) = Past
  /\ \A t \in Times : t # NoTime => Elapse(t) # NoTime /\ Elapse(t) >= Past
BY TimesFacts DEF Elapse, NoTime, Past

\* A row is due at a time of the model, and a leased one has one.
LEMMA DueAtTime ==
  ASSUME Types, NEW j \in Jobs
  PROVE  /\ DueAt(j) \in Times
         /\ job[j].status = "leased" => DueAt(j) # NoTime
         /\ DueAt(j) <= WakeTime(j) /\ 0 <= WakeTime(j)
<1>1. job[j] \in Rows /\ job[j].retry \in Times /\ job[j].lease \in Times
  BY DEF Types, Rows, JobRow
<1>2. DueAt(j) \in Times /\ DueAt(j) \in Int
  BY <1>1, TimesFacts DEF DueAt
<1>3. WakeTime(j) = IF DueAt(j) < 0 THEN 0 ELSE DueAt(j)
  BY DEF WakeTime, DueAt
<1>4. job[j].status = "leased" => DueAt(j) # NoTime
  BY <1>1 DEF DueAt, Rows
<1> QED BY <1>2, <1>3, <1>4

-----------------------------------------------------------------------------
(* The disturbances that are ruled out stay ruled out.                       *)

LEMMA SpendKeeps ==
  ASSUME IInv, Undisturbed, NEW kind \in Disturbances, Spend(kind)
  PROVE  /\ kind \notin {"store", "lock", "drop"}
         /\ budget'["store"] = 0 /\ budget'["lock"] = 0 /\ budget'["drop"] = 0
<1>1. budget \in [Disturbances -> Nat]
  BY DEF IInv, Types
<1>2. kind \notin {"store", "lock", "drop"}
  BY <1>1 DEF Spend, Undisturbed
<1>3. {"store", "lock", "drop"} \subseteq Disturbances
  BY DEF Disturbances
<1> QED BY <1>1, <1>2, <1>3 DEF Spend, Undisturbed

\* The steps that need one of them cannot happen.
LEMMA RuledOut ==
  ASSUME IInv, Undisturbed
  PROVE  /\ ~Spend("store")
         /\ ~ClaimFails
         /\ \A j \in Jobs : ~LockSession(j) /\ ~UnlockSession(j) /\ ~HandlerDropsWake(j)
<1>1. ~Spend("store") /\ ~Spend("lock") /\ ~Spend("drop")
  BY SpendKeeps DEF Disturbances
<1> QED BY <1>1 DEF ClaimFails, LockSession, UnlockSession, HandlerDropsWake, Undisturbed

LEMMA KeepsUndisturbed ==
  ASSUME IInv, Undisturbed, [Next]_vars
  PROVE  Undisturbed'
<1> USE RuledOut
<1>1. locked' = locked
  <2>1. CASE WorkerStep
    BY <2>1 DEF WorkerStep, TakeWake, Claim, NothingDue, DrainLimit, Begin, Critic, Save,
               Finish, FinishFails, Schedule, queue
  <2>2. CASE Tick \/ Crash \/ OtherWake \/ UpdateRuntimeConfig \/ CancelDerivation
    BY <2>2 DEF Tick, Crash, OtherWake, UpdateRuntimeConfig, CancelDerivation, queue
  <2>3. ASSUME NEW j \in Jobs,
               Enqueue(j) \/ Reopen(j) \/ Invalidate(j) \/ HandlerWake(j) \/ InlineCommit(j)
        PROVE  locked' = locked
    BY <2>3 DEF Enqueue, Reopen, Invalidate, HandlerWake, InlineCommit, queue
  <2>4. CASE UNCHANGED vars
    BY <2>4 DEF vars
  <2> QED BY <2>1, <2>2, <2>3, <2>4 DEF Next
<1>2. UNCHANGED budget \/ \E kind \in Disturbances : Spend(kind)
  <2> USE DEF Disturbances
  <2>1. CASE WorkerStep
    <3>1. CASE TakeWake \/ Claim \/ NothingDue \/ DrainLimit \/ Critic \/ Finish
      BY <3>1 DEF TakeWake, Claim, NothingDue, DrainLimit, Critic, Finish
    <3>2. CASE Begin \/ Save \/ FinishFails \/ Schedule
      BY <3>2 DEF Begin, Save, FinishFails, Schedule
    <3> QED BY <2>1, <3>1, <3>2 DEF WorkerStep
  <2>2. CASE Tick \/ Crash \/ OtherWake \/ UpdateRuntimeConfig \/ CancelDerivation
    BY <2>2 DEF Tick, Crash, OtherWake, UpdateRuntimeConfig, CancelDerivation
  <2>3. ASSUME NEW j \in Jobs,
               Enqueue(j) \/ Reopen(j) \/ Invalidate(j) \/ HandlerWake(j) \/ InlineCommit(j)
        PROVE  UNCHANGED budget \/ \E kind \in Disturbances : Spend(kind)
    BY <2>3 DEF Enqueue, Reopen, Invalidate, HandlerWake, InlineCommit
  <2>4. CASE UNCHANGED vars
    BY <2>4 DEF vars
  <2> QED BY <2>1, <2>2, <2>3, <2>4 DEF Next
<1> QED BY <1>1, <1>2, SpendKeeps DEF Undisturbed

-----------------------------------------------------------------------------
(* Watch, action by action.                                                  *)

\* Steps that leave a wake for the worker.
LEMMA AlertingSteps ==
  ASSUME IInv,
         \/ DrainLimit \/ Crash \/ OtherWake \/ UpdateRuntimeConfig
         \/ \E j \in Jobs : Enqueue(j) \/ Reopen(j) \/ Invalidate(j) \/ HandlerWake(j)
  PROVE  Watch'
<1>1. Alert'
  BY DEF DrainLimit, Crash, OtherWake, UpdateRuntimeConfig, Enqueue, Reopen, Invalidate,
         HandlerWake, Alert
<1> QED BY <1>1 DEF Watch

\* Steps that change neither the jobs nor where the worker stands, and those
\* that move it on with the job it holds.
LEMMA HoldingSteps ==
  ASSUME IInv, Watch,
         \/ UNCHANGED vars \/ CancelDerivation \/ Begin \/ Critic \/ Save
         \/ \E j \in Jobs : InlineCommit(j)
  PROVE  Watch'
<1>1. UNCHANGED <<source, job, wake, timer, synced, owing>>
  BY DEF vars, CancelDerivation, Begin, Critic, Save, InlineCommit, queue
<1>2. Alert => Alert'
  BY <1>1 DEF Alert
<1>3. worker \in Workers
  BY DEF IInv, Types
<1>4. CASE UNCHANGED vars \/ CancelDerivation \/ \E j \in Jobs : InlineCommit(j)
  <2>1. worker'.pc = worker.pc /\ worker'.job = worker.job
    BY <1>3, <1>4 DEF vars, CancelDerivation, InlineCommit, Workers
  <2>2. (Holding => Holding') /\ (Schedulable => Schedulable') /\ (TimerArmed => TimerArmed')
    BY <1>1, <2>1 DEF Holding, Schedulable, TimerArmed, Live, DueAt, WakeTime
  <2> QED BY <1>2, <2>1, <2>2 DEF Watch
<1>5. CASE Begin \/ Critic \/ Save
  <2>1. worker.pc \in {"begin", "critic", "save"}
    BY <1>5 DEF Begin, Critic, Save
  <2>2. worker'.pc \in Busy /\ worker'.job = worker.job
    BY <1>3, <1>5 DEF Begin, Critic, Save, Outcome, Workers, Busy
  <2>3. Alert \/ Holding
    BY <2>1 DEF Watch, Schedulable, TimerArmed
  <2>4. Holding => Holding'
    BY <1>1, <2>2 DEF Holding
  <2> QED BY <1>2, <2>3, <2>4 DEF Watch
<1> QED BY <1>4, <1>5

\* The worker takes a wake, or the timer, and starts a drain.
LEMMA TakeWakeStep ==
  ASSUME IInv, TakeWake
  PROVE  Watch'
<1>1. worker' = [Idle EXCEPT !.pc = IF synced THEN "drain" ELSE "idle"] /\ synced' = synced
  BY DEF TakeWake
<1>2. CASE synced
  <2>1. worker'.pc = "drain"
    BY <1>1, <1>2 DEF Idle
  <2> QED BY <2>1 DEF Watch
<1>3. CASE ~synced
  BY <1>1, <1>3 DEF Watch, Alert
<1> QED BY <1>2, <1>3

\* The worker leases a job and holds it.
LEMMA ClaimHolds ==
  ASSUME IInv, Claim
  PROVE  Watch'
<1> DEFINE first == CHOOSE j \in Claimable : \A k \in Claimable : j <= k
<1>1. first \in Claimable
  BY FirstJob DEF Claim, Claimable
<1>2. first \in Jobs /\ source[first] = "active"
  BY <1>1 DEF Claimable, Eligible
<1>3. job'[first] = LeasedRow(job[first])
  BY <1>2 DEF Claim
<1>4. RowOK(job[first])
  BY <1>2, RowsAreOK DEF IInv, Types
<1>5. job'[first].status = "leased"
  BY <1>3, <1>4, LeasedRowOK
<1>6. worker' = [worker EXCEPT !.pc = "begin", !.job = first] /\ source' = source
  BY DEF Claim
<1> HIDE DEF first
<1>7. worker'.pc = "begin" /\ worker'.job = first
  BY <1>6 DEF IInv, Types, Workers
<1> QED BY <1>2, <1>5, <1>6, <1>7 DEF Watch, Holding, Busy

\* Nothing is due: every live job has a time that lies ahead.
LEMMA NothingDueStep ==
  ASSUME IInv, Undisturbed, NothingDue
  PROVE  Watch'
<1>1. UNCHANGED <<source, job>> /\ worker'.pc = "schedule"
  BY DEF NothingDue, queue, IInv, Types, Workers
<1>2. ASSUME NEW j \in Jobs, Live(j) PROVE DueAt(j) # NoTime
  <2>1. Eligible(j)
    BY <1>2 DEF Live, Eligible, Undisturbed
  <2>2. ~Due(j)
    BY <2>1 DEF NothingDue, Claimable
  <2>3. CASE job[j].status = "leased"
    BY <2>3, DueAtTime DEF IInv
  <2>4. CASE job[j].status \in Queued
    BY <2>2, <2>4 DEF Due, DueAt, Queued
  <2> QED BY <1>2, <2>3, <2>4 DEF Live
<1>3. Schedulable'
  BY <1>1, <1>2 DEF Schedulable, Live, DueAt
<1> QED BY <1>3 DEF Watch

\* A finished job's drain goes on, or its source was taken away by a handler
\* that still has to send a wake.
LEMMA FinishGoesOn ==
  ASSUME IInv, Watch, Finish
  PROVE  Watch'
<1>1. CASE source[worker.job] = "active"
  <2>1. worker'.pc = "drain"
    BY <1>1 DEF Finish, Idle
  <2> QED BY <2>1 DEF Watch
<1>2. CASE source[worker.job] # "active"
  <2>1. Alert
    BY <1>2 DEF Finish, Watch, Holding, Schedulable, TimerArmed
  <2>2. UNCHANGED <<wake, owing, synced>>
    BY DEF Finish
  <2> QED BY <2>1, <2>2 DEF Watch, Alert
<1> QED BY <1>1, <1>2

\* The lease was lost.  Whoever took the row away still has to send a wake, or
\* the lease ran out and the row's own time is past.
LEMMA FinishFailsStep ==
  ASSUME IInv, Undisturbed, Watch, FinishFails
  PROVE  Watch'
<1>1. /\ UNCHANGED <<source, job, wake, synced, owing>>
      /\ worker.pc = "finish" /\ worker'.pc = "schedule"
      /\ ~LeaseHeld(worker.job)
  BY RuledOut DEF FinishFails, queue, Idle
<1>2. Alert \/ Holding
  BY <1>1 DEF Watch, Schedulable, TimerArmed
<1>3. CASE Alert
  BY <1>1, <1>3 DEF Watch, Alert
<1>4. CASE Holding
  <2>1. worker.job \in Jobs
    BY <1>4 DEF Holding, IInv, Types, Workers
  <2>2. Live(worker.job) /\ DueAt(worker.job) = Past
    BY <1>1, <1>4 DEF Holding, LeaseHeld, Live, DueAt
  <2>3. Schedulable'
    BY <1>1, <2>1, <2>2 DEF Schedulable, Live, DueAt
  <2> QED BY <2>3 DEF Watch
<1> QED BY <1>2, <1>3, <1>4

\* scheduleRetryWake: the timer is no later than the time asked for.
LEMMA ScheduledTimerIsEarly ==
  ASSUME Types, NEW at \in Times, at # NoTime
  PROVE  ScheduledTimer(at) # NoTime /\ ScheduledTimer(at) <= at /\ ScheduledTimer(at) \in Times
<1>1. timer \in Times /\ timer \in Int /\ at \in Int
  BY TimesFacts DEF Types
<1> QED BY <1>1 DEF ScheduledTimer

\* The timer covers every live job that has a time.
LEMMA ScheduleCovers ==
  ASSUME IInv, Undisturbed, Schedule, NEW j \in Jobs, Live(j), DueAt(j) # NoTime
  PROVE  timer' \in Times /\ timer' # NoTime /\ timer' <= DueAt(j)
<1> DEFINE due == {IF job[k].status = "leased" THEN job[k].lease ELSE job[k].retry :
                     k \in {m \in Jobs : Eligible(m) /\ job[m].status \in Queued \cup {"leased"}}}
           both == {worker.next, NextWakeAt}
<1> USE DEF IInv
<1>1. due \in SUBSET Times
  BY DueAtTime DEF DueAt
<1>2. DueAt(j) \in due
  BY DEF DueAt, Live, Eligible, Undisturbed
<1>3. NextWakeAt = Earliest(due)
  BY DEF NextWakeAt
<1> HIDE DEF due
<1>4. NextWakeAt \in Times /\ NextWakeAt # NoTime /\ NextWakeAt <= DueAt(j)
  BY <1>1, <1>2, <1>3, EarliestIsLeast, EarliestTime
<1>5. both \in SUBSET Times
  BY <1>4 DEF Types, Workers
<1>6. Earliest(both) \in Times /\ Earliest(both) # NoTime /\ Earliest(both) <= NextWakeAt
  BY <1>4, <1>5, EarliestIsLeast, EarliestTime
<1>7. timer' = ScheduledTimer(Earliest(both))
  BY RuledOut DEF Schedule
<1> HIDE DEF both
<1>8. timer' \in Times /\ timer' # NoTime /\ timer' <= Earliest(both)
  BY <1>6, <1>7, ScheduledTimerIsEarly
<1>9. timer' \in Int /\ Earliest(both) \in Int /\ NextWakeAt \in Int /\ DueAt(j) \in Int
  BY <1>4, <1>6, <1>8, TimesFacts, DueAtTime
<1> QED BY <1>4, <1>6, <1>8, <1>9

\* After the schedule query the worker sleeps with a timer.
LEMMA ScheduleArms ==
  ASSUME IInv, Undisturbed, Watch, Schedule
  PROVE  Watch'
<1> USE DEF IInv
<1>1. /\ UNCHANGED <<source, job, wake, synced, owing>>
      /\ worker.pc = "schedule" /\ worker'.pc = "idle"
  BY DEF Schedule, queue, Idle
<1>2. Alert \/ Schedulable
  BY <1>1 DEF Watch, Holding, TimerArmed, Busy
<1>3. CASE Alert
  BY <1>1, <1>3 DEF Watch, Alert
<1>4. CASE Schedulable
  <2>1. ASSUME NEW j \in Jobs, Live(j)
        PROVE  timer' # NoTime /\ timer' <= WakeTime(j)
    <3>1. DueAt(j) <= WakeTime(j) /\ 0 <= WakeTime(j) /\ DueAt(j) \in Int /\ WakeTime(j) \in Int
      <4>1. DueAt(j) \in Int
        BY DueAtTime, TimesFacts
      <4>2. WakeTime(j) = IF DueAt(j) < 0 THEN 0 ELSE DueAt(j)
        BY DEF WakeTime, DueAt
      <4> QED BY <4>1, <4>2
    <3>2. CASE DueAt(j) # NoTime
      <4>1. timer' \in Times /\ timer' # NoTime /\ timer' <= DueAt(j)
        BY <2>1, <3>2, ScheduleCovers
      <4> QED BY <3>1, <4>1, TimesFacts
    <3>3. CASE DueAt(j) = NoTime
      <4>1. PICK k \in Jobs : Live(k) /\ DueAt(k) = Past
        BY <1>4, <2>1, <3>3 DEF Schedulable
      <4>2. timer' \in Times /\ timer' # NoTime /\ timer' <= Past
        BY <4>1, ScheduleCovers DEF Past, NoTime
      <4> QED BY <3>1, <4>2, TimesFacts DEF Past
    <3> QED BY <3>2, <3>3
  <2>2. TimerArmed'
    BY <1>1, <2>1 DEF TimerArmed, Live, WakeTime
  <2> QED BY <2>2 DEF Watch
<1> QED BY <1>2, <1>3, <1>4

\* Time passes alike for the rows and the timer.
LEMMA TickWatch ==
  ASSUME IInv, Watch, Tick
  PROVE  Watch'
<1> USE DEF IInv
<1>1. /\ UNCHANGED <<source, wake, synced, owing>>
      /\ timer' = Elapse(timer)
      /\ worker' = [worker EXCEPT !.next = Elapse(worker.next)]
      /\ job' = [j \in Jobs |-> [job[j] EXCEPT !.retry = Elapse(job[j].retry),
                                               !.lease = Elapse(job[j].lease)]]
  BY DEF Tick
<1>2. worker'.pc = worker.pc /\ worker'.job = worker.job
  BY <1>1 DEF Types, Workers
<1>3. ASSUME NEW j \in Jobs
      PROVE  /\ job'[j].status = job[j].status
             /\ job'[j].retry = Elapse(job[j].retry) /\ job'[j].lease = Elapse(job[j].lease)
  BY <1>1 DEF Types, Rows, JobRow
<1>4. ASSUME NEW j \in Jobs
      PROVE  (Live(j)' <=> Live(j)) /\ DueAt(j)' = Elapse(DueAt(j))
  BY <1>1, <1>3 DEF Live, DueAt
<1>5. Alert => Alert'
  BY <1>1 DEF Alert
<1>6. Holding => Holding'
  <2> SUFFICES ASSUME Holding PROVE Holding'
    OBVIOUS
  <2>1. worker.job \in Jobs
    BY DEF Holding, Types, Workers
  <2> QED BY <1>1, <1>2, <1>3, <2>1 DEF Holding
<1>7. Schedulable => Schedulable'
  <2> SUFFICES ASSUME Schedulable, NEW j \in Jobs, Live(j)'
               PROVE  DueAt(j)' # NoTime \/ \E k \in Jobs : Live(k)' /\ DueAt(k)' = Past
    BY <1>2 DEF Schedulable
  <2>1. CASE DueAt(j) # NoTime
    <3>1. DueAt(j)' # NoTime
      BY <1>4, <2>1, ElapseFacts, DueAtTime
    <3> QED BY <3>1
  <2>2. CASE \E k \in Jobs : Live(k) /\ DueAt(k) = Past
    <3>1. PICK k \in Jobs : Live(k) /\ DueAt(k) = Past
      BY <2>2
    <3>2. Live(k)' /\ DueAt(k)' = Past
      BY <1>4, <3>1, ElapseFacts
    <3> QED BY <3>2
  <2> QED BY <1>4, <2>1, <2>2 DEF Schedulable
<1>8. TimerArmed => TimerArmed'
  <2> SUFFICES ASSUME TimerArmed, NEW j \in Jobs, Live(j)'
               PROVE  timer' # NoTime /\ timer' <= WakeTime(j)'
    BY <1>2 DEF TimerArmed
  <2>1. timer # NoTime /\ timer <= WakeTime(j) /\ timer \in Times
    BY <1>4 DEF TimerArmed, Types
  <2>2. timer \in Int /\ DueAt(j) \in Int /\ DueAt(j) >= -2 /\ timer >= -2
    BY <2>1, DueAtTime, TimesFacts
  <2>3. WakeTime(j) = IF DueAt(j) < 0 THEN 0 ELSE DueAt(j)
    BY DEF WakeTime, DueAt
  <2>4. WakeTime(j)' = IF Elapse(DueAt(j)) < 0 THEN 0 ELSE Elapse(DueAt(j))
    BY <1>4 DEF WakeTime, DueAt
  <2>5. Elapse(timer) <= WakeTime(j)'
    BY <2>1, <2>2, <2>3, <2>4 DEF Elapse
  <2>6. Elapse(timer) # NoTime
    BY <2>1, ElapseFacts
  <2> QED BY <1>1, <2>5, <2>6
<1> QED BY <1>2, <1>5, <1>6, <1>7, <1>8 DEF Watch

-----------------------------------------------------------------------------

LEMMA InitWatch == Reliable /\ Init => WakeInv
<1> SUFFICES ASSUME Reliable, Init PROVE WakeInv
  OBVIOUS
<1>1. IInv
  BY InitIInv
<1>2. Undisturbed /\ Watch
  BY DEF Reliable, Init, Undisturbed, Watch, Alert
<1> QED BY <1>1, <1>2 DEF WakeInv

LEMMA NextWatch == WakeInv /\ [Next]_vars => WakeInv'
<1> SUFFICES ASSUME WakeInv, [Next]_vars PROVE WakeInv'
  OBVIOUS
<1> USE DEF WakeInv
<1>1. IInv' /\ Undisturbed'
  BY NextIInv, KeepsUndisturbed
<1> SUFFICES Watch'
  BY <1>1
<1>2. CASE WorkerStep
  BY <1>2, RuledOut, AlertingSteps, HoldingSteps, TakeWakeStep, ClaimHolds, NothingDueStep,
     FinishGoesOn, FinishFailsStep, ScheduleArms DEF WorkerStep
<1>3. CASE Tick
  BY <1>3, TickWatch
<1>4. CASE Crash \/ OtherWake \/ UpdateRuntimeConfig
  BY <1>4, AlertingSteps
<1>5. CASE CancelDerivation \/ UNCHANGED vars
  BY <1>5, HoldingSteps
<1>6. ASSUME NEW j \in Jobs,
             \/ Enqueue(j) \/ Reopen(j) \/ Invalidate(j)
             \/ HandlerWake(j) \/ HandlerDropsWake(j)
             \/ InlineCommit(j) \/ LockSession(j) \/ UnlockSession(j)
      PROVE  Watch'
  BY <1>6, RuledOut, AlertingSteps, HoldingSteps
<1> QED BY <1>2, <1>3, <1>4, <1>5, <1>6 DEF Next

\* No lost wake-up: as long as the store answers, no migration locks a session
\* and no handler keeps its wake back, a sleeping worker of runMemoryWorkers has
\* a wake or an early enough timer for every job it could do, through overrun
\* leases, reopened and invalidated jobs, cancelled derivations and restarts.
THEOREM NoWakeupIsLost ==
  ASSUME Reliable
  PROVE  Spec => []NoStrandedJob
<1>1. Init => WakeInv
  BY InitWatch
<1>2. WakeInv => NoStrandedJob
  <2> SUFFICES ASSUME WakeInv, Asleep, NEW j \in Jobs, Eligible(j),
                      job[j].status \in Queued \cup {"leased"}
               PROVE  Covered(j)
    BY DEF NoStrandedJob
  <2>1. owing # {} \/ TimerArmed
    BY DEF WakeInv, Watch, Alert, Asleep, Holding, Schedulable, Busy
  <2>2. Live(j)
    BY DEF Eligible, Live
  <2> QED BY <2>1, <2>2 DEF TimerArmed, Covered
<1> QED BY <1>1, <1>2, NextWatch, PTL DEF Spec
===============================================================================
