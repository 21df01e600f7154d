# A verification project for Archive Center

Archive Center is a memory service for RisuAI: a Go HTTP service
(`src/go-service`) that stores the turns of a chat in MariaDB, has a "Critic"
model extract memories from them, keeps a Chroma vector index of those memories,
and selects what goes into the next prompt. A JavaScript plugin in the chat host
talks to it. MariaDB is canonical; Chroma can be deleted and rebuilt
(`src/README.md`).

This directory holds TLA+ models of the parts in which state outlives a request
or is shared between threads, TLC configurations for small instances, and proofs
checked by TLAPS. `PROJECT.json` maps every definition to the source lines it
stands for.

## 1. Inventory

### The stateful core

| Part | State | Operations | What is hard | What makes it correct |
|---|---|---|---|---|
| Complete-turn idempotency ledger, `httpapi/complete_turn_idempotency.go` | in memory: key -> entry (fingerprint, sequence, response, done channel), at most 1024 | begin (own, wait, conflict, at capacity), finish, finish-if-current (context watcher), eviction | requests with one key overlap; disconnects and panics; the watcher races the owner; waiters read the entry under a second lock | a key is run again only after an answer that allows it, never once the turn is registered; a settled outcome is not overwritten; retry advice is sound; every waiter is answered |
| Source revisions and memory admission, `store/mariadb_memory_derivation.go`, `mariadb_memory_admission.go`, `mariadb_logical_turn_replace.go` | MariaDB: revisions with lifecycle, the admitted result, derived rows | accept, replace, roll back, invalidate, admit, reopen, refresh | each is one transaction, but the work they queue runs later | what was derived from a revision that is gone disappears |
| Vector outbox and its processor, `mariadb_memory_derivation.go`, `httpapi/memory_vector_outbox_processor.go` | MariaDB: outbox rows with status, lease, attempts, unique operation key; Chroma's documents | enqueue, claim (alone or with siblings), vector call, complete, retry, give up, compensate | calls that fail after taking effect; crash between call and commit; leases that run out; rows of a document overtaking each other | no orphan vectors; one row per document at a time; Chroma converges to MariaDB |
| Reprocessing queue and worker, `httpapi/memory_reprocessing_worker.go` | MariaDB: jobs; in memory: wake channel of capacity 1, one timer | enqueue, reopen, invalidate, claim, derive, finish, schedule | no polling: progress depends on every path leaving a wake or a timer; overrun leases; cancelled derivations; migration locks | no lost wake-up; jobs settle; completed means committed |
| Chroma index recovery, `vector/chroma_recovery.go`, `httpapi/startup_vector_recovery.go`, `vector/mutation_fence.go` | collections and their names; a journal file; recovery state 0-3; cached collection id | preflight, resume, snapshot, rebuild, journal, two renames, retry on config sync | crash or lost answer between any two calls; syncs racing the state word; requests that go on meanwhile | nothing is lost; only complete copies are promoted; always resumable |
| Source acceptance ledger, `httpapi/complete_turn_source_acceptance.go` | in memory and in the audit log: the accepted answer of each turn, pending replacements, failures, invalidations, processing contexts | accept, reject, repeat, supersede, replacement completed, failed or unknown, reload after a restart, join, leave, drain, look before and after the Critic | answers overtaking one another; a replacement whose outcome is unknown; the reload that puts the state together from three records; a rollback between any two steps | the active source row and the raw row are of the same answer; an answer that was discarded stays discarded; what is derived is derived from an answer on record |
| Turn rollback, `httpapi/group_turn_rollback.go`, and decision tokens, `group_turn_range_decision.go` | MariaDB rows; in memory: one-use tokens | issue, evict, consume, cancel and drain, transaction, invalidate | failure or crash in the middle; requests that join while it runs | the order of its steps is part of `SourceAcceptance`; the tokens are not modelled |
| Background admin jobs, `httpapi/admin_jobs.go` | in memory: jobs, revision, change channel | start or reuse, report, finish, cancel, prune, stream events | a cancelled job still runs when its successor starts; pruning under a stream; the channel taken before or after the revision | a stream never sleeps through a change and ends; two jobs of one key overlap only after a cancellation; a running job is not pruned |
| Package updater, `packageupdate/update.go`, with its launcher `ops/full-package-posix/start-full-posix.sh` and the handler that stages an update | managed files, one backup, `pending-update.json`, `update-state.json` and its predecessor | stage, apply, health check, commit, roll back | a crash or a failing operation between any two file operations; a request of the candidate that stages the next update | the backend runs from one version; a rollback is possible until the commit; a commit is final; restarts resolve the update |
| Session migration, `httpapi/group_session_migration.go`, `store/mariadb_migration.go` | locks, manifests, copied rows | lock, copy, check parity, release | requests and workers during the migration | its lock is in ReprocessingWorker |
| Dual-write store, `store/dualwrite.go` | two stores | write both, count shadow failures | drift of the shadow | not modelled |

### Interactions

A completed turn enters through the idempotency ledger. The source acceptance ledger
then decides whether its answer is the final one of the turn, cancels the request of the
answer that lost, and is asked again before and after the Critic. The handler registers
a source revision, admits the extracted memories and queues vector rows in one
transaction, or queues a reprocessing job when the extraction failed; then it
calls `wakeMemoryWorkers`. One goroutine per process (`StartMemoryWorkers`) takes
the wake, drains the vector outbox and then the reprocessing queue, and re-arms its
timer from `NextMemoryReprocessingWakeAt`. Rollbacks and replacements invalidate
revisions, which rejects queued upserts, queues deletes, rejects jobs and cancels
running derivations. At startup `ValidateRuntimeDependencies` resumes or starts
index recovery; while it is unfinished the worker is not started. All Chroma
operations pass a fence that the recovery holds exclusively for its renames.

The launcher starts the backend, with the candidate of an update under a health
check first; the backend only stages an update and asks for a restart. Admin jobs
are started, cancelled and followed by HTTP requests and share nothing with the rest.

### The rest

Turn preparation and memory selection, the Critic's prompts and the validation of
its answers, the HUD projection, the provider proxy, the reference library, row
readers and writers of the store, diagnostics, bench and compare packages, the
plugin and the scripts are listed in `PROJECT.json` with the reason they are not
modelled: they change no state that outlives a request, write single rows, or only
format data. The `concurrency` package (rate limiter, caches) is imported by nothing.


## 2. Modules

| Module | Models | Depends on |
|---|---|---|
| `CompleteTurnLedger` | the idempotency ledger, its requests and watchers | |
| `CompleteTurnLedgerProofs` | theorems about it | `CompleteTurnLedger`, TLAPS |
| `VectorOutbox` | revision lifecycle, admission, outbox, worker's vector side, Chroma's documents | |
| `VectorOutboxProofs` | theorems about it | `VectorOutbox`, TLAPS |
| `ReprocessingWorker` | jobs, derivations, wake channel, timer, locks | |
| `ReprocessingWorkerProofs` | theorems about it | `ReprocessingWorker`, TLAPS |
| `IndexMirror` | abstract specification: an index that mirrors the canonical rows | implemented by `VectorOutbox` |
| `CollectionSwap` | abstract specification: how the collection's name may change hands | implemented by `IndexRecovery` |
| `IndexRecovery` | preflight, recovery, fence, reset, config sync | `CollectionSwap` (refinement mapping) |
| `IndexRecoveryProofs` | theorems about it | `IndexRecovery`, TLAPS |
| `SourceAcceptance` | acceptance of observed answers, replacement, raw rows, processing contexts, rollback | |
| `SourceAcceptanceProofs` | theorems about it | `SourceAcceptance`, `LoopTheorems` |
| `AdminJobs` | the job manager, its goroutines and event streams | |
| `AdminJobsProofs` | theorems about it | `AdminJobs`, `LoopTheorems` |
| `PackageUpdate` | the updater's file operations, the launcher, the staging request | |
| `PackageUpdateProofs` | theorems about it | `PackageUpdate`, TLAPS |
| `LoopTheorems` | induction over the passes of a loop, for the two modules that read a list | TLAPS |
| `MC_*` | instances for TLC | the module each is named after |

Definitions whose name has a suffix after an underscore (`Record_AlwaysDrop`), and those
under a comment that begins with "Mutant", are plausible bugs that a property must notice. No
specification uses them.

### CompleteTurnLedger

`entries` is the map, `entry` the struct an owner allocated (a pointer stays valid
after the map forgot it, so waiters holding it still read it), `watcher` the
goroutine that waits for the request context. `durable` says how much of the turn the
handler has written: nothing, the raw rows ("stored", by `ReplaceLogicalTurn` or by
`persistCompleteTurnRaw`), or the rows and the accepted source ("registered"). A response keeps only the six fields that the retry and
pinning rules look at; `HandlerResponses` are the answers `handleCompleteTurnDecoded` can give
in each stage. With the raw rows durable and the source not registered these still include
retryable failures (the migration lock cannot be read, `save_ok=false` with `not_committed`): they drop
the key and invite another run of the request. No retryable answer follows the registration. `Begin*` are the four outcomes of
`beginWithFingerprint`, `Finish` is the rest of the owner, `Watch` the watcher,
`WaiterAnswered`/`WaiterCancelled` the select of a waiter. net/http cancels the
context when a handler returns, so a watcher runs after every request too.

### VectorOutbox

Every canonical write is one action, because the code makes it one transaction
under a mutex. The worker's claim, the vector call and each completion are separate
actions and the process may crash between them. Rows are identified by their
operation key, which is unique in the table: enqueueing a used key does nothing,
whatever the status of its row. `FenceHolds` is the join that lets an upsert be
claimed only for an active revision. `CallUpsert`
and `CallDelete` may fail and still have taken effect, in part or whole. `undo` is
the compensating delete after a rejected completion. `Admit` may keep the rows of a document and not
show it: that of the memory is `hidden`, with a delete queued; evidence that is `kept` and made private has its row
updated and nothing queued. `Refresh` replays an admission and, with `reconcile` (`ReconcileEligibility`), hides
everything of it that is not to be shown. `skipped` remembers documents whose last change queued no row:
the enqueue met a used key, or kept evidence was made private.

`IndexMirror` says what all this is for: a document is *owed* while its index entry may differ from
its canonical row; every step changes the database or the index, never both; a transaction writes
off only documents that agree; a call touches owed documents only. `ImplementsMirror` maps `owed`
to the documents with a row that is queued, leased, retryable or given up, and those whose last
change queued nothing.

### ReprocessingWorker

Times are ticks until they are reached, so the state space stays finite without a
bound on time. `wake` is the channel, `timer` the armed retry time, `owing` the
handlers that have written and not yet called `wakeMemoryWorkers`. A derivation is four
steps: `Begin` (reload and check the source, replay a stored result), `Critic` (the
provider call, cancellable), `Save` (check again and commit) and `Finish` (report under the
lease; the row of a source that is no longer active is rejected whatever the report says, and a terminal report ends the drain). `Schedule` ends a drain with the schedule query. Disturbances - failing
store calls, attempts that outlive their lease, crashes, reopens, cancelled
derivations, locks, the HUD handler that answers 409 without a wake - each have a
budget.

### IndexRecovery and CollectionSwap

`name` says what a collection is called (other names carry a time stamp and never
clash, so only their kind is kept). `run` is the thread that executes the preflight
or the attempt; there is one, which `WorkersWaitForIndex` checks. A rename that
reports an error may have happened. `threads` counts the callers of
`retryIndexRecoveryAfterConfigSync` between the load of the state, the
compare-and-swap and the second look at the settings. While no exclusive section is
active, requests search, write and delete through the cached id, also when that
collection has been renamed under them.

`CollectionSwap` states what this is for: the holder of the name is retired only
after a successor has been decided durably, only that successor follows, a retired
collection never serves again. `ImplementsSwap` maps `holder` to the collection with
the configured name, `successor` to the journal's candidate and `retired` to the
backups.

### SourceAcceptance

One session and the turn at its tail; a revision is the time of an observed answer, and each answer has a text of its
own. `req[q]` is a request with its program counter, the revision it carries, what it remembers across calls and whether its
context is cancelled. Requests of one revision may overlap: those without an idempotency key, or with two, are not joined by the
other ledger. `current`, `fence`, `terminal` and `worker` are the ledger's memory, the audit
log is `transitions`, `failures` and `savedFence`, and the canonical rows are `rows`, `active`,
`raw` (at most one row per role: `chat_logs` has a unique key) and `derived`.

`Begin` is one submission: `Loaded` puts the ledger's state together from the
log and the rows as `loadDurableStateLocked` does (`ReplayedFrom` and `RevertedBy` are its loops), then the submission is rejected, a repetition or accepted.
`lost` is the set of store calls that fail during it: a read that fails is passed over, an audit row that is not saved is
gone, and nobody is told. `Replacement` is
the canonical transaction with its completed, failed and unknown ends, `Turn` the rest of the handler:
joining and leaving the processing context, the raw rows of a first answer as two inserts, registration, the looks before
and after the Critic, and the derived rows outside the admission fence. An insert of a role that is there already succeeds if the
content is the same and is an error otherwise; errors are noted and the request goes on without the Critic. The look at the raw rows before the context (`Preflight`)
goes on as if the turn were empty when it fails. Joining takes the entry of the turn over from a request of the same revision without cancelling
it, and leaving drops the entry of the revision whoever's it is. `Rollback` cancels and drains, runs
its transaction, whose commit may fail and have happened, and only then invalidates the ledger. Every audit row may be lost.
Three parts of the state are history: `closed` (answers whose discard was answered and saved), and of a request `partial` (it was accepted by a load
that could not read the discards) and `shared` (it was registered at the same time as another of its revision).

### AdminJobs

A job's change channel is replaced at each change, so `channel[i]` counts them, and a stream that
holds an older number finds its channel closed. Pruned jobs leave the table while goroutines and streams still
know their ids. `CallCancel` is apart from `CancelJob` because `cancel` calls the context's function after
it has released the lock. `StreamObserve`, `StreamSend` and `StreamWake` are the loop of an event stream:
snapshot and channel under one lock, send without it, wait.

### PackageUpdate

A step is one durable file operation of the updater, so `Crash` may fall between any two.
`files` and `backup` hold for each managed path the version it belongs to. `writeJSONAtomic` renames the
state file to its predecessor and then the new one into place (`WriteShift`, `WriteLand`); `Readable` is what
`readState` makes of the two. `replaceFile` removes and then renames (`InstallFile`, `SwapFile`). The
launcher (`StartLauncher` to `CommitFailed`) first looks whether the files that make a package root are there (`RequiredPresent`, for
`is_package_root` and the check of the helpers) and stops otherwise, before it asks the updater. Then it runs the updater's commands, judges their answers by
`SafeBaseline`, checks the candidate's health, which is nondeterministic, and serves. While the
backend runs, `StageUpdate` and `StageLand` are the request that stages a newer package,
also on the candidate that is under test. That the target must be newer applies from
`DirectBaseline` on only (`Acceptable`).

## 3. Runs

With two TLC workers the runs take between a few seconds and about four minutes each.

| Run | Instance | Checks |
|---|---|---|
| `ledger` | 3 requests, 2 keys, 2 bodies, 1 entry | `TypeOK`, `SingleOwnerPerKey`, `RerunNeedsRetryAnswer`, `SettledOutcomeKept`, `RetryAdviceSound`, `EveryRequestAnswered`, `PanicLeavesUnknown` |
| `outbox_rescan` | 1 revision, 2 documents, 2 results, 1 attempt | `TypeOK`, `OneLeasePerDocument`, `IndexConverges` |
| `outbox_tail` | 2 turns, 3 revisions, 1 document, 2 results, 2 attempts | `NoOrphanVector`, `ImplementsMirror` |
| `worker_live` | 2 jobs, 1 per wake, 2 attempts; a crash | `NoStrandedJob`, `JobsSettle` |
| `worker_faults` | 1 job; every disturbance once, reopen, overrun and cancel twice | `TypeOK`, `CompletedIsAdmitted`, `SettledStaysSettled` |
| `recovery_faults` | 3 collections, 2 documents; 2 failed calls, 2 crashes, damage, reset, sync | `TypeOK`, `NothingLost`, `WorkersWaitForIndex`, `OnlyCompletePromoted` |
| `recovery_resume` | 3 collections, 1 document; 2 failed calls, 3 crashes, damage twice, sync | `JournalResumable`, `ImplementsSwap`, `WaitingEnds` |
| `update_faults` | 3 versions, 5 files; 2 crashes, 2 failing operations, 2 stagings | `TypeOK`, `RunsWholePackage`, `RollbackPossible`, `CommitIsFinal`, `UpdateResolves`, `ServesAgain` |
| `admin_jobs` | 2 keys, 1 job kept, 3 starts, 1 progress report, 1 stream | `TypeOK`, `NoMissedChange`, `OverlapOnlyAfterCancel`, `RunningJobsStay`, `EndIsFinal`, `StreamsEnd` |
| `source_acceptance` | 2 answers; 2 requests with a crash, a rollback and a failing call, or 3 requests with a crash or a failing call | `TypeOK`, `ActiveSourceMatchesRaw`, `LiveContextOnRecord`, `DiscardedStaysDiscarded` |
| `update_torn`, `source_superseded` | see section 4 | violated |

### Why the bounds are enough

*Ledger.* Two requests on a key are what every rule is about; a third evicts,
conflicts or waits. With one entry every foreign key meets the capacity path. As
liveness excludes symmetry sets, `MCInit` keeps one start of each class that a
renaming of requests, keys or bodies turns into one another.

*Outbox.* The rules relate rows of one document, or of one claimed group. The rescan
instance has a group of two and a document that is changed, dropped and restored;
one attempt makes the first failure final, so there the retry status is left to the tail
instance. There a document is hidden, and kept out of sight and later reconciled, as well. The tail instance has a turn that is replaced, and rolled back alone and
with an earlier turn (whose delete row then carries another revision).

*Worker.* A lost wake-up needs a job behind the one in progress: two jobs with a
share of one give that, and the drain limit is reached at once. Two attempts give a
retry and a last attempt.

*Recovery.* Three collections are an original and two generations of copies. Noticing
damage costs a restart, so three crashes are two damages and one crash anywhere in
between. Symmetry of collections and documents is used in the safety runs only.

*Updater.* The second version adds a file and drops one, the third brings it back, so every kind of journal entry
occurs and a second update starts from a state the first one left. Two crashes interrupt a recovery that
is itself the consequence of a crash; two failing operations fail an installation and its rollback.

*Admin jobs.* With one job kept, the third start prunes one that a stream still follows. A request
follows its job from the beginning or from revision 3, which the job may not have reached yet.

*Source acceptance.* Every rule is about an answer and the one that follows it, and about two requests of one answer: two or three
requests, each with either answer, are a request with its repetition and the request of the other answer. A "failing call" is one write or read that
fails, or all reads of one acceptance, or of one load. A rollback either carries no time or one between
the two answers, so that it invalidates the first and not the second. Requests differ by name only, which the run uses as a symmetry.

### Fairness

*Ledger*: weak fairness for each request's own steps and its watcher. Go schedules
every goroutine, and handlers' store and provider calls have timeouts. Disconnects,
panics and writes are not forced. *Worker*: the goroutine, each handler's pending
wake, and time. No fairness for enqueueing, config sync or the end of a disturbance;
`JobsSettle` assumes that the configuration is synced from some point on, without which
the worker does not take jobs. *Recovery*: the recovery thread and the retry threads run on;
restarts, syncs and requests are not assumed. *Admin jobs*: a stream request that can take a step does; nothing is assumed about the work of a job.
*Updater*: somebody starts the launcher again, the launcher and a staging request run on, except that nothing is assumed of a candidate under
test: `wait_candidate_backend_ready` renews its deadline as long as the candidate's index recovery runs or waits. `UpdateResolves` and `ServesAgain` are therefore
conditioned on `CandidateWaitEnds`, that no candidate is waited for, for ever. Crashes, faults, exits and requests are not forced.

### What the runs do not show

`NoStrandedJob` and `JobsSettle` hold without store errors, locks and handlers that drop
their wake: a failing claim or schedule query leaves jobs to the next unrelated wake, which
no comment or test excludes. Without a bound on overruns `JobsSettle` fails, since
attempts are only limited when an attempt reports a failure. Retryable vector rows wait for the next
real wake by design (`TestMemoryWorkerRetryWaitsForNextRealWake`), so
the outbox has no liveness property. `IndexConverges` excludes documents whose last change queued no row: it was
swallowed by a used operation key (the repository's tests pin one delete per revision, document
and fence), or it made kept evidence private, until a reconciling refresh. `NothingLost` counts backups. `JournalResumable` and `ImplementsSwap` are claimed without admin resets. A vector call that fails takes effect
before it returns or never. Chroma's deletion of a collection is the v2 API's, by name.

The updater's properties except `TypeOK` make exceptions, each named by a definition. `torn` marks the rollback of
a fully applied update that was cut short, which is the finding below. `DeadEnd` lists the states from which
restarts do not recover: a file that the launcher requires, the server's binary for one, was lost between `replaceFile`'s remove and its rename, in
whatever status, and every later start stops before the updater runs; the updater binary was lost that way; or a request that the candidate served replaced the pending record of the
update under test, after which the health check's result is refused for ever. `Overlooked` is a state file that exists only as its
predecessor with nothing pending: `prepare_updater_runner` does not look at it. The single `backup` is the directory
that the current journal names. Power loss without an fsync and damaged JSON are outside the model.

`ActiveSourceMatchesRaw` is claimed without exception. `LiveContextOnRecord` excepts a request that was registered at the same time as
another of its revision (`shared`): the other takes its entry over or drops it. `DiscardedStaysDiscarded` is about discards
whose client was told and whose audit row was saved, and excepts an acceptance whose own load failed to read the discards (`partial`): a discard whose
row was lost is forgotten by a restart, because the code ignores the error of `SaveAuditLog`.

`RerunNeedsRetryAnswer` and `RetryAdviceSound` do not say that a turn whose raw rows are durable is not run again: a retryable answer may
follow them, and the second run then meets the rows of the first. They say that nothing but such an answer, or eviction, re-opens a key, and
that none follows the registration of the source.

## 4. Findings

Each is a run that TLC must find violated; `PROJECT.json` quotes the text that the code departs from.

* `update_torn`: the package documentation says that startup stops rather than run a mixed package. A
  rollback of an applied update restores its files one by one under the durable status
  `applied_pending_health`; when it is cut short, the next start takes that status at its word, runs
  the mixture as the candidate and may commit it.
* `source_superseded`: a test says that an older answer that is submitted after a newer one was accepted is
  rejected for good. When the older one has an active canonical row, the reload lets that row override the pending newer answer: the
  older request is accepted again, and the newer one is told to discard.

Also seen while modelling, kept as hazards with a note or as exceptions in a property, without a run:

* the drain reads the clock before each claim, so a job that failed in a wake and whose delay has passed is claimed again
  by the same drain, which the queue's comment rules out;
* unlocking a migrated session wakes nobody, so a retry that came due meanwhile has no timer;
* an admin reset with an open recovery journal deletes the candidate or lets a third collection take the name, and every later preflight fails;
* a recovery attempt rebuilds whatever error its health check returns, connection failures included;
* a settings sync during an attempt that then fails with another error is not tried until the settings change again;
* a handler whose replacement of the raw turn is committed may still answer that nothing was committed and that the request should be sent again;
* a rescan that keeps evidence and makes it private leaves its vector in Chroma until a reindex reconciles eligibility;
* two overlapping requests of one answer take over or drop each other's context entry, after which a rollback finds nobody to cancel;
* a discard whose audit row was lost is forgotten by a restart, and a load that cannot read the discards accepts a discarded answer;
* a crash between removing and renaming the server's binary leaves a package that no start recognises as one, so that the updater never gets to restore it;
* a replacement looks at the ledger, then its transaction commits without another look: a newer answer that was accepted, or even
  replaced, in between is overwritten by the older one;
* a request that joins its processing context between a rollback's drain and its invalidation writes derived rows after the
  turn is gone (memories are stopped by the admission check).

## 5. Proofs

The theorems hold for every value of the constants that the modules' named assumptions
admit. Each rests on an inductive invariant, proved by one step per action.

*Ledger* (`TypeCorrect`, `SingleOwner`, `NoSilentRerun`, `SettledKept`,
`RetryAdviceHolds`, `WaitersHaveSomebody`). None of the properties is inductive: that two handlers never run for a key
depends on the entry of a running handler staying in the map, also when its context
was cancelled and the entry looks finished. `IInv` adds that an entry belongs to the key
it is filed under, a running request owns its key's entry (`RunningOwnsKey`), an entry whose recorded response allows a retry has left
the ledger (`RecordedIsFinal`), an owner's entry leaves the map by eviction or by an answer that re-opens the key (`OwnersLeaveByAnswer`), no such
answer follows a registration (`RegisteredIsFinal`), the entry in the map is the latest of its key (`EntryIsLatest`), and what holders and answered waiters may have seen. `OwnersAreWatched` carries the safety half of the
liveness properties: an open entry has an owner that runs, or an armed watcher whose entry is still in its place.

*Outbox* (`OutboxTypeCorrect`, `NoOrphan`, `OneLease`, `Converges`, `OutboxImplementsMirror`). `NoOrphanVector` looks at documents that are in Chroma;
a document whose upsert is claimed may arrive there later. `Guarded` therefore
requires the delete for every document that is or may become indexed; it needs that
whatever may be indexed has a row (`IndexedIsKnown`), so that an invalidation finds it, that
inactive deletes exist only after the invalidation, that a group in progress is sound, and
that a successful delete call has removed its documents. `OneLease` rests on the order of row numbers: rows of
a document are started in order and a row is not started while an earlier one is open (`StartedInOrder`).
`Converges` adds that the newest row of a document demands what its canonical row says (`NewestDemands`), that a
completed row was applied before it was completed (`CompletedIsApplied`), and that a group in progress and the calls it
has made are apart from every other row of its documents (`BatchApart`, `CallsApplied`), and that the canonical rows of an active revision
show exactly the documents of its admitted result (`AdmittedIsShown`), which is what a refresh relies on when it hides the others. `OutboxImplementsMirror` takes each action to a `Transact`, a `Call` or a stutter of `IndexMirror`;
the step that needs most is the completion of a row, which may write a document off only because of that invariant.

*Worker* (`WorkerTypeCorrect`, `CompletedOnlyIfAdmitted`, `SettledJobsStaySettled`).
The completed status is written by a worker that looked at the admission earlier.
`Reported` says that a worker about to report completion finds its row still leased only if the
memories are committed: a reopen, which drops them, also takes the row out of the leased state,
and only the worker itself, which is busy, leases it again. `NoWakeupIsLost` shows
that a due job always has the worker awake, a wake in the channel, a handler that owes one, or a timer no later than its time. It
assumes `Reliable`: no failing store call, lock or dropped wake, without which it is not true.

*Recovery* (`RecoveryTypeCorrect`, `NothingIsLost`, `WorkersWait`, `OnlyCompleteIsPromoted`, `NoSyncIsLost`; under `NoReset` also
`JournalStaysResumable` and `RecoveryImplementsSwap`). The invariant `RInv` relates where the recovery stands (`Where`, `Promoting`,
`Attempting`) to the journal and the names: which collection is a copy in the making, that a journal exists exactly from the
decision to the second rename, and that its candidate holds every document that was not deleted since. A rename with a lost answer is one lemma,
`RenameOutcome`, which each of the four steps that rename cites.

*Source acceptance* (`SourceTypeCorrect`, `ActiveMatchesRaw`, `LiveContextsAreOnRecord`, `DiscardedIsFinal`). `ActiveMatchesRaw` is shown
step by step: the raw row of a role is inserted only where there is none, it is replaced or deleted only together with the active row, and a registration compares
both rows with its answer in its own transaction; a request that found half of a turn, saw nothing because its look failed, or was cancelled can therefore
fill the turn but not change it. `LiveContextsAreOnRecord` needs `ContextInv`: a registered request is running, the entry of the turn is a registered
request's, and two registered requests of one revision are both `shared`; then whoever drops or takes over an entry, does so to its owner, to a cancelled request
or to a shared one. `DiscardedIsFinal` rests on `ClosedOnRecord`: what was declared discarded and saved is in the audit log, and the load of each
acceptance reads it back unless that very read fails, so that it does not matter what a restart has forgotten or which other rows are missing.

*Admin jobs* (`JobsTypeCorrect`, `RunningJobsAreListed`, `TableStaysShort`, `NoChangeIsMissed`, `OverlapsAreCancelled`, `EndsAreFinal`). `JobsInv` adds that ids not given out yet have no job, goroutine or
key (`Fresh`), that a job whose goroutine works without a cancellation is in the table and not over, so that `start`
reuses it (`UncancelledIsActive`), and what a stream between snapshot and wait knows (`Follows`). `PruneLoop` is the lemma about pruning:
for any table, the loop keeps the order, drops only jobs that are over, and what it leaves is short enough or holds no job that is over.

*Loops* (`LoopTheorems`). Reading the audit log back and pruning the table go over a list of any length. The library's induction theorems take an operator as
a parameter, so the loops are written as recursive functions and the induction is over a *set* of indices (`RangeInduction`, from the
least element of a set of naturals). `LoopIsDefined` shows that such a function exists.

*Updater* (`UpdateTypeCorrect`, `RunsOneVersion`, `RollbackStaysPossible`, `CommitsAreFinal`), for any versions and files and any number of
crashes, faults and staging requests. `PInv` has two halves. `Control` holds always: which state each place of the updater works from,
which write of the state file is under way, and that an update being applied is the pending one. `Package` holds until
the rollback of an applied update is cut short, the case run `update_torn` exhibits. Its part `Kept` says that an open update is journaled (backup
and untouched files make the previous package), that an applied one has all files of its target, and that a settled one stands on one version not older than
the newest committed; `UnderWay` says how far installing and restoring have come and what each write of the state claims about the files.

### Only model-checked

Liveness (`EveryRequestAnswered`, `PanicLeavesUnknown`, `JobsSettle`, `WaitingEnds`, `StreamsEnd`, `UpdateResolves`, `ServesAgain`):
fairness and ENABLED are outside the prover. What the first five rest on is proved as safety: whoever waits has somebody left to wake it
(`WaitersHaveSomebody`, `NoWakeupIsLost`, `NoSyncIsLost`, `NoChangeIsMissed`). Every invariant and every other action property of a passing run is a theorem.
No module declares a RECURSIVE operator.

## 6. Not modelled

The models cover a small share of the implementation's lines. Most of the rest keeps no state between requests: turn preparation and
memory selection read rows, score them and assemble a prompt; the Critic's code builds prompts and
validates JSON; the store's readers and writers are single SQL statements, and most of `mariadb_migration.go`
is their text; the HUD, diagnostics, bench and compare code format data. A model of these would repeat the code line by line without
a property that a unit test could not state. What they hand to the modelled parts is a member of a small set there.

In the modelled parts these are left out:

* the canonical tables a transaction writes besides the revision, its result and its documents; the delete of a hidden document that was never
  queued, which changes nothing; a service without a Chroma endpoint;
* which turn an observation belongs to when a session has several, rebinding an observation to another turn, a second observation of the
  same answer with a later time, deletion of a session;
* one-use rollback decision tokens and the cleanup table by table without the canonical transaction;
* session migration except for its lock: copy, manifest and parity check;
* the Windows launcher, which acts on the same updater answers as the POSIX one, archive extraction and hash checks (one nondeterministic refusal);
* the dual-write store, which calls one store after the other.

## 7. Plan

In this order; finished parts are marked.

1. done - `CompleteTurnLedger` with proofs.
2. done - `VectorOutbox` with proofs of all its properties, implementing `IndexMirror`.
3. done - `ReprocessingWorker` with proofs of its safety and of the lost wake-up.
4. done - `IndexRecovery`, refining `CollectionSwap`, with proofs.
5. done - `PackageUpdate` with proofs of its safety.
6. done - `SourceAcceptance` for the tail turn, with proofs of all its properties.
7. done - `AdminJobs` with proofs of its safety, pruning included.
8. `RollbackDecision`: one-use tokens, their eviction, and the session, turn and observation they are for.
9. `VectorOutbox` composed with `IndexRecovery`: what a recovered collection holds when rows are written between the snapshot and the rename.
10. Session migration: the copy under its lock, the parity check and the release.
