-------------------------- MODULE ReprocessingWorker --------------------------
(***************************************************************************)
(* The reprocessing queue (memory_reprocessing_jobs) and the background    *)
(* worker that drains it: go-service/internal/httpapi/                     *)
(* memory_reprocessing_worker.go on top of the queue operations of         *)
(* internal/store/mariadb_memory_derivation.go.                            *)
(*                                                                         *)
(* A job asks for the memories of one accepted source revision to be       *)
(* derived again.  There is no polling: the one worker goroutine sleeps    *)
(* on a wake channel of capacity one and on a timer that it re-arms after  *)
(* every drain, so whether a job is ever tried depends on every path       *)
(* leaving a wake or a timer behind.                                       *)
(*                                                                         *)
(* Time is relative: retry_after, lease_until and the timer are the number *)
(* of ticks until they are reached, Past once they lie strictly before     *)
(* now, and NoTime when the column is NULL or the timer is not armed.      *)
(* The job numbers are the order of created_at.  One job belongs to one    *)
(* source revision, so a job stands for its source too.                    *)
(***************************************************************************)
EXTENDS Integers, FiniteSets

CONSTANTS
  Jobs,         \* the jobs, numbered in the order of created_at
  PerWake,      \* memoryReprocessingPerWake
  MaxAttempts,  \* FailedQueueMaxAttempts of the runtime configuration
  RetryDelays,  \* the delays a failed attempt may ask for, in ticks
  LeaseTime,    \* memoryWorkerLeaseDuration, in ticks
  Budget        \* bound on each kind of disturbance, see Disturbances

Disturbances == {"store", "overrun", "crash", "reopen", "cancel", "lock", "drop"}

ASSUME WorkerAssumption ==
  /\ Jobs \subseteq Nat \ {0}
  /\ PerWake \in Nat \ {0}
  /\ MaxAttempts \in 1..11
  /\ RetryDelays \subseteq Nat \ {0}
  /\ RetryDelays # {}
  /\ LeaseTime \in Nat \ {0}
  /\ Budget \in [Disturbances -> Nat]

VARIABLES
  source,     \* lifecycle_state of the job's source revision
  locked,     \* the job's session is locked by a session migration
  admission,  \* derived_admission_state and whether a result is stored
  job,        \* memory_reprocessing_jobs
  worker,     \* the goroutine of runMemoryWorkers
  wake,       \* the wake channel holds its one token
  timer,      \* retryScheduledAt
  synced,     \* the runtime configuration is synced and has timeouts
  owing,      \* jobs whose handler has written but not yet called wakeMemoryWorkers
  budget      \* how many disturbances of each kind are left

vars == <<source, locked, admission, job, worker, wake, timer, synced, owing, budget>>
queue == <<source, locked, admission, job>>

NoTime == -2
Past == -1

\* A job may be delayed by the retry delay or by the lease, whichever is longer.
Times == {NoTime, Past} \cup 0..LeaseTime \cup UNION {0..d : d \in RetryDelays}

Queued == {"pending", "retryable"}
Settled == {"completed", "permanent", "stale_rejected"}
Busy == {"begin", "critic", "save", "finish"}

NoJob == [status |-> "none", attempts |-> 0, retry |-> NoTime, lease |-> NoTime]

\* A settled row.  Its attempts and retry time are not read again: only
\* ReopenMemoryReprocessingJob touches it, and resets them.
Ended(status) == [NoJob EXCEPT !.status = status]

Idle == [pc |-> "idle", job |-> 0, count |-> 0, next |-> NoTime, outcome |-> "none",
         delay |-> 1, cancelled |-> FALSE]

Init ==
  /\ source = [j \in Jobs |-> "active"]
  /\ locked = [j \in Jobs |-> FALSE]
  /\ admission = [j \in Jobs |-> "none"]
  /\ job = [j \in Jobs |-> NoJob]
  /\ worker = Idle
  /\ wake = TRUE          \* StartMemoryWorkers wakes once
  /\ timer = NoTime
  /\ synced = FALSE
  /\ owing = {}
  /\ budget = Budget

Spend(kind) == /\ budget[kind] > 0
               /\ budget' = [budget EXCEPT ![kind] = @ - 1]

Earliest(times) ==
  LET set == times \ {NoTime}
  IN  IF set = {} THEN NoTime ELSE CHOOSE t \in set : \A u \in set : t <= u

-----------------------------------------------------------------------------
(* The handlers.  Each writes to MariaDB and then calls wakeMemoryWorkers.   *)

\* The idempotency key is unique: a job that exists already is left as it is,
\* whatever its status.
Insert(j, row) ==
  /\ job[j].status = "none"
  /\ job' = [job EXCEPT ![j] = row]

\* A Critic result with an invalid schema is recorded as permanent at once.
Enqueue(j) ==
  /\ \/ Insert(j, Ended("permanent"))
     \/ \E retry \in {NoTime, 0} \cup RetryDelays :
          Insert(j, [NoJob EXCEPT !.status = "pending", !.retry = retry])
  /\ owing' = owing \cup {j}
  /\ UNCHANGED <<source, locked, admission, worker, wake, timer, synced, budget>>

\* Refused while a live lease holds the job; otherwise the stored result is
\* dropped and the job starts over.
Reopen(j) ==
  /\ Spend("reopen")
  /\ job[j].status # "none"
  /\ source[j] = "active"
  /\ ~(job[j].status = "leased" /\ job[j].lease > 0)
  /\ admission' = [admission EXCEPT ![j] = "none"]
  /\ job' = [job EXCEPT ![j] = [NoJob EXCEPT !.status = "pending"]]
  /\ owing' = owing \cup {j}
  /\ UNCHANGED <<source, locked, worker, wake, timer, synced>>

\* Mutant: the status filter of the update is missing.
Invalidate_EveryStatus(j) ==
  /\ source[j] = "active"
  /\ source' = [source EXCEPT ![j] = "inactive"]
  /\ job' = [job EXCEPT ![j] = IF @.status = "none" THEN @ ELSE Ended("stale_rejected")]
  /\ owing' = owing \cup {j}
  /\ UNCHANGED <<locked, admission, worker, wake, timer, synced, budget>>

\* Rollback, replacement or deletion of the turn.
Invalidate(j) ==
  /\ source[j] = "active"
  /\ source' = [source EXCEPT ![j] = "inactive"]
  /\ job' = [job EXCEPT ![j] =
               IF @.status \in Queued \cup {"leased"}
               THEN Ended("stale_rejected")
               ELSE @]
  /\ owing' = owing \cup {j}
  /\ UNCHANGED <<locked, admission, worker, wake, timer, synced, budget>>

\* wakeMemoryWorkers: a non-blocking send on a channel of capacity one.
HandlerWake(j) ==
  /\ j \in owing
  /\ owing' = owing \ {j}
  /\ wake' = TRUE
  /\ UNCHANGED <<queue, worker, timer, synced, budget>>

\* The recovery handler of the turn HUD answers 409 without waking the worker
\* when its action has gone stale since the job was reopened.
HandlerDropsWake(j) ==
  /\ Spend("drop")
  /\ j \in owing
  /\ owing' = owing \ {j}
  /\ UNCHANGED <<queue, worker, wake, timer, synced>>

\* Any other caller of wakeMemoryWorkers, and the drain's own wake when its
\* vector part reached its limit.
OtherWake ==
  /\ ~wake
  /\ wake' = TRUE
  /\ UNCHANGED <<queue, worker, timer, synced, owing, budget>>

\* The plugin pushes its configuration.
UpdateRuntimeConfig ==
  /\ ~synced
  /\ synced' = TRUE
  /\ wake' = TRUE
  /\ UNCHANGED <<queue, worker, timer, owing, budget>>

\* The derivation a complete-turn request or an admin replay runs itself.
InlineCommit(j) ==
  /\ source[j] = "active"
  /\ admission[j] # "committed"
  /\ admission' = [admission EXCEPT ![j] = "committed"]
  /\ UNCHANGED <<source, locked, job, worker, wake, timer, synced, owing, budget>>

\* A session migration fences its source session, and releases the fence when
\* verification fails or the migration is rolled back.  Neither wakes the worker.
LockSession(j) ==
  /\ Spend("lock")
  /\ ~locked[j]
  /\ locked' = [locked EXCEPT ![j] = TRUE]
  /\ UNCHANGED <<source, admission, job, worker, wake, timer, synced, owing>>

UnlockSession(j) ==
  /\ locked[j]
  /\ locked' = [locked EXCEPT ![j] = FALSE]
  /\ UNCHANGED <<source, admission, job, worker, wake, timer, synced, owing, budget>>

\* A rollback, a migration lock or a second derivation of the same revision
\* cancels the context of the derivation in flight, before it is known whether
\* the source really becomes inactive.
CancelDerivation ==
  /\ Spend("cancel")
  /\ worker.pc \in {"critic", "save"}
  /\ ~worker.cancelled
  /\ worker' = [worker EXCEPT !.cancelled = TRUE]
  /\ UNCHANGED <<queue, wake, timer, synced, owing>>

-----------------------------------------------------------------------------
(* The worker.                                                               *)

\* The select of runMemoryWorkers.  Before the first configuration sync the
\* drain returns at once and arms no timer.
TakeWake ==
  /\ worker.pc = "idle"
  /\ \/ wake /\ wake' = FALSE /\ UNCHANGED timer
     \/ timer \in {Past, 0} /\ timer' = NoTime /\ UNCHANGED wake
  /\ worker' = [Idle EXCEPT !.pc = IF synced THEN "drain" ELSE "idle"]
  /\ UNCHANGED <<queue, synced, owing, budget>>

Eligible(j) == source[j] = "active" /\ ~locked[j]

\* retry_after is compared exclusively, so a NULL or a past time is due.
Due(j) == \/ job[j].status \in Queued /\ job[j].retry \in {NoTime, Past}
          \/ job[j].status = "leased" /\ job[j].lease = Past

Claimable == {j \in Jobs : Eligible(j) /\ Due(j)}

\* Attempts beyond the limit are not told apart: they are only compared with it.
LeasedRow(row) ==
  [row EXCEPT !.status = "leased", !.lease = LeaseTime,
              !.attempts = IF @ < MaxAttempts THEN @ + 1 ELSE @]

\* The rejection of jobs whose source is gone shares the claim's transaction:
\* when there is nothing to claim it is rolled back.
Claim ==
  /\ worker.pc = "drain"
  /\ worker.count < PerWake
  /\ Claimable # {}
  /\ LET first == CHOOSE j \in Claimable : \A k \in Claimable : j <= k
     IN  /\ job' = [j \in Jobs |->
                      IF j = first THEN LeasedRow(job[j])
                      ELSE IF job[j].status \in Queued \cup {"leased"} /\ source[j] # "active"
                      THEN Ended("stale_rejected")
                      ELSE job[j]]
         /\ worker' = [worker EXCEPT !.pc = "begin", !.job = first]
  /\ UNCHANGED <<source, locked, admission, wake, timer, synced, owing, budget>>

NothingDue ==
  /\ worker.pc = "drain"
  /\ worker.count < PerWake
  /\ Claimable = {}
  /\ worker' = [worker EXCEPT !.pc = "schedule"]
  /\ UNCHANGED <<queue, wake, timer, synced, owing, budget>>

ClaimFails ==
  /\ Spend("store")
  /\ worker.pc = "drain"
  /\ worker.count < PerWake
  /\ worker' = [worker EXCEPT !.pc = "schedule"]
  /\ UNCHANGED <<queue, wake, timer, synced, owing>>

\* Mutant: the drain stops at its limit and does not wake itself.
DrainLimit_NoWake ==
  /\ worker.pc = "drain"
  /\ worker.count = PerWake
  /\ worker' = [worker EXCEPT !.pc = "schedule"]
  /\ UNCHANGED <<queue, wake, timer, synced, owing, budget>>

\* A drain that used up its share wakes itself again.
DrainLimit ==
  /\ worker.pc = "drain"
  /\ worker.count = PerWake
  /\ worker' = [worker EXCEPT !.pc = "schedule"]
  /\ wake' = TRUE
  /\ UNCHANGED <<queue, timer, synced, owing, budget>>

OperationalDelay == 1    \* memoryWorkerOperationalRetryDelay

Outcome(outcome, delay) ==
  worker' = [worker EXCEPT !.pc = "finish", !.outcome = outcome, !.delay = delay]

\* A result that is committed, or that a failed commit staged.
HasStoredResult(j) == admission[j] # "none"

\* The checks before the Critic.  A stored result, committed or staged by an
\* earlier failed commit, is replayed without asking the Critic again.
Begin ==
  /\ worker.pc = "begin"
  /\ LET j == worker.job
     IN  \/ /\ source[j] # "active"
            /\ Outcome("superseded", OperationalDelay)
            /\ UNCHANGED budget
         \/ /\ source[j] = "active" /\ locked[j]
            /\ Outcome("retryable", OperationalDelay)
            /\ UNCHANGED budget
         \/ /\ Spend("store")
            /\ Outcome("retryable", OperationalDelay)
         \/ /\ Eligible(j)
            /\ worker' = [worker EXCEPT !.pc = IF HasStoredResult(j) THEN "save" ELSE "critic"]
            /\ UNCHANGED budget
  /\ UNCHANGED <<queue, wake, timer, synced, owing>>

Critic ==
  /\ worker.pc = "critic"
  /\ LET gone == source[worker.job] # "active"
     IN  \/ ~gone /\ worker' = [worker EXCEPT !.pc = "save"]
         \/ (gone \/ worker.cancelled) /\ Outcome("superseded", OperationalDelay)
         \/ /\ ~gone /\ ~worker.cancelled
            /\ \/ Outcome("terminal", OperationalDelay)
               \/ \E d \in RetryDelays \cup {OperationalDelay} : Outcome("retryable", d)
  /\ UNCHANGED <<queue, wake, timer, synced, owing, budget>>

\* What a failed commit may leave behind: nothing, the staged Critic result, or
\* the committed result when a secondary projection failed after it.
AfterFailedSave(state) ==
  {state, "committed", IF state = "committed" THEN state ELSE "staged"}

\* The source is read once more before the commit and again in its transaction;
\* the commit does not look at the lease.
Save ==
  /\ worker.pc = "save"
  /\ LET j == worker.job
         admit(state) == admission' = [admission EXCEPT ![j] = state]
     IN  \/ /\ ~worker.cancelled /\ source[j] = "active"
            /\ admit("committed")
            /\ Outcome("completed", OperationalDelay)
            /\ UNCHANGED budget
         \/ /\ ~worker.cancelled /\ source[j] = "active"
            /\ Spend("store")
            /\ \E state \in AfterFailedSave(admission[j]) : admit(state)
            /\ Outcome("retryable", OperationalDelay)
         \/ /\ ~worker.cancelled /\ source[j] # "active"
            /\ \/ Outcome("superseded", OperationalDelay)
               \/ Outcome("retryable", OperationalDelay)
            /\ UNCHANGED <<admission, budget>>
         \/ /\ worker.cancelled
            /\ \E state \in {admission[j]} \cup (IF source[j] = "active" THEN {"committed"} ELSE {}) :
                 admit(state)
            /\ Outcome("superseded", OperationalDelay)
            /\ UNCHANGED budget
  /\ UNCHANGED <<source, locked, job, wake, timer, synced, owing>>

\* Mutant: the row is updated by its id alone.
LeaseHeld_Unfenced(j) == job[j].status # "none"

\* The fence of finishMemoryReprocessingJob.  There is one worker, so the lease
\* is its own unless it has run out or been taken away.
LeaseHeld(j) == job[j].status = "leased" /\ job[j].lease # Past

GivesUp(row, outcome) ==
  \/ outcome \in {"superseded", "terminal"}
  \/ outcome = "retryable" /\ row.attempts >= MaxAttempts

\* Mutant: the lease columns are not cleared for a retry.
FinishedRow_KeepsLease(row, outcome, delay) ==
  CASE outcome = "completed" -> Ended("completed")
    [] GivesUp(row, outcome) -> Ended("permanent")
    [] OTHER -> [row EXCEPT !.status = "retryable", !.retry = delay]

FinishedRow(row, outcome, delay) ==
  CASE outcome = "completed" -> Ended("completed")
    [] GivesUp(row, outcome) -> Ended("permanent")
    [] OTHER -> [row EXCEPT !.status = "retryable", !.retry = delay, !.lease = NoTime]

\* CompleteMemoryReprocessingJob, FailMemoryReprocessingJob and the retry rule.
\* A stale source rejects the job; only after a terminal outcome is that an
\* error, which ends the drain.
Finish ==
  /\ worker.pc = "finish"
  /\ LeaseHeld(worker.job)
  /\ LET j == worker.job
         stale == source[j] # "active"
         row == IF stale THEN Ended("stale_rejected")
                ELSE FinishedRow(job[j], worker.outcome, worker.delay)
         goesOn == ~(stale /\ worker.outcome = "terminal")
     IN  /\ job' = [job EXCEPT ![j] = row]
         /\ worker' = [Idle EXCEPT
                         !.pc = IF goesOn THEN "drain" ELSE "schedule",
                         !.count = IF goesOn THEN worker.count + 1 ELSE worker.count,
                         !.next = Earliest({worker.next,
                                            IF row.status = "retryable" THEN row.retry ELSE NoTime})]
  /\ UNCHANGED <<source, locked, admission, wake, timer, synced, owing, budget>>

\* The lease is lost, or the store fails: the error ends the drain.
FinishFails ==
  /\ worker.pc = "finish"
  /\ \/ ~LeaseHeld(worker.job) /\ UNCHANGED budget
     \/ LeaseHeld(worker.job) /\ Spend("store")
  /\ worker' = [Idle EXCEPT !.pc = "schedule", !.count = worker.count, !.next = worker.next]
  /\ UNCHANGED <<queue, wake, timer, synced, owing>>

\* Mutant: the schedule query forgets the leased jobs.
NextWakeAt_QueuedOnly ==
  Earliest({job[j].retry : j \in {k \in Jobs : Eligible(k) /\ job[k].status \in Queued}})

NextWakeAt ==
  Earliest({IF job[j].status = "leased" THEN job[j].lease ELSE job[j].retry :
              j \in {k \in Jobs : Eligible(k) /\ job[k].status \in Queued \cup {"leased"}}})

\* scheduleRetryWake keeps the earlier of the armed and the new time.
ScheduledTimer(at) ==
  IF at = NoTime \/ (timer # NoTime /\ at >= timer) THEN timer ELSE at

Schedule ==
  /\ worker.pc = "schedule"
  /\ \/ timer' = ScheduledTimer(Earliest({worker.next, NextWakeAt})) /\ UNCHANGED budget
     \/ timer' = ScheduledTimer(worker.next) /\ Spend("store")
  /\ worker' = Idle
  /\ UNCHANGED <<queue, wake, synced, owing>>

WorkerStep == \/ TakeWake \/ Claim \/ NothingDue \/ DrainLimit \/ ClaimFails \/ Begin
              \/ Critic \/ Save \/ Finish \/ FinishFails \/ Schedule

-----------------------------------------------------------------------------
(* Time and the process.                                                     *)

Elapse(t) == IF t >= 0 THEN t - 1 ELSE t

\* Work normally ends within its lease, which is the sum of the provider
\* timeouts; that it does not is a disturbance.
Overrun == /\ worker.pc \in Busy
           /\ job[worker.job].status = "leased" /\ job[worker.job].lease = 0

Tick ==
  /\ \/ timer >= 0 \/ worker.next >= 0
     \/ \E j \in Jobs : job[j].retry >= 0 \/ job[j].lease >= 0
  /\ IF Overrun THEN Spend("overrun") ELSE UNCHANGED budget
  /\ timer' = Elapse(timer)
  /\ worker' = [worker EXCEPT !.next = Elapse(@)]
  /\ job' = [j \in Jobs |-> [job[j] EXCEPT !.retry = Elapse(@), !.lease = Elapse(@)]]
  /\ UNCHANGED <<source, locked, admission, wake, synced, owing>>

\* The process ends and starts again: StartMemoryWorkers wakes the new worker,
\* and the configuration has to be pushed again.
Crash ==
  /\ Spend("crash")
  /\ worker' = Idle
  /\ wake' = TRUE
  /\ timer' = NoTime
  /\ synced' = FALSE
  /\ owing' = {}
  /\ UNCHANGED queue

Next ==
  \/ WorkerStep
  \/ Tick
  \/ Crash
  \/ OtherWake
  \/ UpdateRuntimeConfig
  \/ CancelDerivation
  \/ \E j \in Jobs : \/ Enqueue(j) \/ Reopen(j) \/ Invalidate(j)
                     \/ HandlerWake(j) \/ HandlerDropsWake(j)
                     \/ InlineCommit(j) \/ LockSession(j) \/ UnlockSession(j)

Spec == Init /\ [][Next]_vars

\* The goroutine and the handlers keep running, and time passes.
Fairness == /\ WF_vars(WorkerStep)
            /\ WF_vars(Tick)
            /\ \A j \in Jobs : WF_vars(HandlerWake(j))

FairSpec == Spec /\ Fairness

-----------------------------------------------------------------------------
(* Properties.                                                               *)

JobRow == [status : {"none", "leased"} \cup Queued \cup Settled,
           attempts : 0..MaxAttempts, retry : Times, lease : Times]

\* Every row and the worker have the shape the code gives them; a row carries a
\* lease exactly while it is leased (the columns finishMemoryReprocessingJob
\* and ReopenMemoryReprocessingJob reset).
TypeOK ==
  /\ source \in [Jobs -> {"active", "inactive"}]
  /\ locked \in [Jobs -> BOOLEAN]
  /\ admission \in [Jobs -> {"none", "staged", "committed"}]
  /\ job \in [Jobs -> JobRow]
  /\ \A j \in Jobs : job[j].status = "leased" <=> job[j].lease # NoTime
  /\ worker \in [pc : {"idle", "drain", "schedule"} \cup Busy, job : Jobs \cup {0},
                 count : 0..PerWake, next : Times,
                 outcome : {"none", "completed", "superseded", "terminal", "retryable"},
                 delay : RetryDelays \cup {OperationalDelay}, cancelled : BOOLEAN]
  /\ worker.pc \in Busy => worker.job \in Jobs
  /\ wake \in BOOLEAN
  /\ timer \in Times
  /\ synced \in BOOLEAN
  /\ owing \subseteq Jobs
  /\ budget \in [Disturbances -> Nat]

\* A job is completed only if the memories of its source are committed: no late
\* worker can complete a job that was reopened, and its stored result dropped,
\* while that worker was running past its lease.
CompletedIsAdmitted ==
  \A j \in Jobs : job[j].status = "completed" => admission[j] = "committed"

\* A settled job changes only by an explicit reopen, which drops the stored
\* result: a worker that lost its lease to an invalidation, or to a claim after
\* the lease ran out, cannot bring the job back or overwrite its end.
SettledStaysSettled ==
  [][\A j \in Jobs :
       job[j].status \in Settled =>
         \/ job'[j].status = job[j].status
         \/ job'[j].status = "pending" /\ admission'[j] = "none"]_vars

\* When the job can be claimed; one without a retry time can be claimed now.
WakeTime(j) == LET at == IF job[j].status = "leased" THEN job[j].lease ELSE job[j].retry
               IN  IF at < 0 THEN 0 ELSE at

\* The worker is asleep and nothing but its timer will wake it.
Asleep == worker.pc = "idle" /\ synced /\ ~wake

Covered(j) == owing # {} \/ (timer # NoTime /\ timer <= WakeTime(j))

\* No lost wake-up: when the worker sleeps, every job it could ever be asked to
\* do is covered by a handler that is about to wake it or by a timer that fires
\* no later than the job's retry time or the end of its lease.
NoStrandedJob ==
  Asleep => \A j \in Jobs :
    Eligible(j) /\ job[j].status \in Queued \cup {"leased"} => Covered(j)

\* Every queued or leased job of a live source is settled in the end, through
\* retries, leases that run out and restarts, provided the configuration stays
\* synced from some point on.
JobsSettle ==
  <>[]synced =>
    \A j \in Jobs : job[j].status \in Queued \cup {"leased"}
                      ~> (job[j].status \in Settled \/ source[j] # "active")

=============================================================================
