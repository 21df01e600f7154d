----------------------------- MODULE PackageUpdate -----------------------------
(***************************************************************************)
(* The package updater (internal/packageupdate), the launcher that drives  *)
(* it (start-full-posix.sh) and the HTTP handler that stages an update.    *)
(*                                                                         *)
(* A package version is a set of managed files.  An update replaces them   *)
(* one at a time, under a journal (update-state.json) that names a backup  *)
(* of every file it touches.  A step of this module is one durable file    *)
(* operation, so that the process may stop between any two of them.  The   *)
(* content of a file is the version it belongs to.                         *)
(***************************************************************************)
EXTENDS Integers, Sequences, FiniteSets

CONSTANTS
    Files,          \* the managed paths, PACKAGE_FILE_MANIFEST.json included
    Manifest,       \* that manifest: its content is the installed version
    Updater,        \* bin/archive-center-updater
    Required,       \* bin/archive-center-go, bin/mariadb-schema, 001_schema.sql and
                    \* the lifetime helper: no start without them
    DirectBaseline, \* DirectUpdateBaselineVersion
    MaxVersion,     \* versions are 1..MaxVersion, in release order
    Payload,        \* the files of each version
    InstallOrder,   \* the order in which an update from v to w touches files
    Budget          \* bounds: [crash, fault, stage], how often each may happen

Versions == 1..MaxVersion
Absent == 0
Contents == Versions \cup {Absent}

(***************************************************************************)
(* InstallOrder[<<v, w>>] lists the files of w as its archive does, then   *)
(* the manifest, then the files managed by v and no longer by w            *)
(* (managedFileRemovals), each once.                                       *)
(***************************************************************************)
ASSUME PackageAssumption ==
    /\ MaxVersion \in Nat \ {0}
    /\ DirectBaseline \in Nat
    /\ {Manifest, Updater} \cup Required \subseteq Files
    /\ Payload \in [Versions -> SUBSET Files]
    /\ \A v \in Versions : {Manifest, Updater} \cup Required \subseteq Payload[v]
    /\ InstallOrder \in [Versions \X Versions -> Seq(Files)]
    /\ \A v, w \in Versions :
         LET order == InstallOrder[<<v, w>>] IN
         /\ {order[k] : k \in 1..Len(order)} = Payload[v] \cup Payload[w]
         /\ \A j, k \in 1..Len(order) : order[j] = order[k] => j = k

ASSUME BudgetAssumption ==
    Budget \in [{"crash", "fault", "stage"} -> Nat]

\* The files of an installation that is version v and nothing else.
PackageOf(v) == [f \in Files |-> IF f \in Payload[v] THEN v ELSE Absent]

Statuses == {"applying", "applied_pending_health", "committed", "rolled_back"}
NoVersion == 0

(***************************************************************************)
(* State: status, the two versions, and the journal, kept as the set of    *)
(* journaled paths that existed (their order is InstallOrder of the two    *)
(* versions).  NoState stands for a file that does not exist.              *)
(***************************************************************************)
States == [status : Statuses, cur : Versions, tgt : Versions \cup {NoVersion},
           saved : SUBSET Files]
NoState == [status |-> "none", cur |-> NoVersion, tgt |-> NoVersion, saved |-> {}]

\* An update request refuses a release that is not newer (update_not_newer).
Pendings == {p \in [cur : Versions, tgt : Versions] : p.cur < p.tgt}
NoPending == [cur |-> NoVersion, tgt |-> NoVersion]
Stagings == [new : Pendings \cup {NoPending}, old : Pendings \cup {NoPending}]
NoStaging == [new |-> NoPending, old |-> NoPending]

VARIABLES
    files,      \* content of every managed path
    backup,     \* content of the backup directory the journal names
    pending,    \* pending-update.json
    state,      \* update-state.json
    previous,   \* update-state.json.previous
    pc,         \* where the launcher, or the updater it runs, stands
    mem,        \* the updater's State value; the value being written
    idx,        \* index in the journal of the file being handled
    op,         \* which writeJSONAtomic is under way
    call,       \* who called rollback or Commit
    applied,    \* the launcher's PENDING_UPDATE_APPLIED
    backend,    \* the backend process: none, candidate or main
    staging,    \* an update request's new pending record, and the old one
    used,       \* how much of Budget is spent
    torn,       \* history: a rollback of a fully applied update was cut short
    best        \* history: the highest version committed so far

durable == <<files, backup, pending, state, previous>>
volatile == <<mem, idx, op, call, applied, backend, staging>>
history == <<torn, best>>
vars == <<files, backup, pending, state, previous, pc, mem, idx, op, call,
          applied, backend, staging, used, torn, best>>

Locations ==
    {"down", "start", "apply", "select", "install", "swap", "restore", "reswap",
     "drop", "shift", "land", "tidy", "dropPending", "dropBackup",
     "undoPending", "undoBackup", "applyError", "prepare", "candidate", "commitFailed", "serve"}

TypeOK ==
    /\ files \in [Files -> Contents]
    /\ backup \in [Files -> Contents]
    /\ pending \in Pendings \cup {NoPending}
    /\ state \in States \cup {NoState}
    /\ previous \in States \cup {NoState}
    /\ pc \in Locations
    /\ mem \in States \cup {NoState}
    /\ idx \in Nat
    /\ op \in {"none", "journal", "applied", "committed", "cleaned",
               "undone", "undoneCleaned"}
    /\ call \in {"none", "retry", "failed", "health", "bootstrap", "apply", "final"}
    /\ applied \in BOOLEAN
    /\ backend \in {"none", "candidate", "main"}
    /\ staging \in Stagings
    /\ used \in [{"crash", "fault", "stage"} -> Nat]
    /\ torn \in BOOLEAN
    /\ best \in Versions

NoBackup == [f \in Files |-> Absent]

Init ==
    /\ files = PackageOf(1)
    /\ backup = NoBackup
    /\ pending = NoPending
    /\ state = NoState
    /\ previous = NoState
    /\ pc = "down"
    /\ mem = NoState
    /\ idx = 0
    /\ op = "none"
    /\ call = "none"
    /\ applied = FALSE
    /\ backend = "none"
    /\ staging = NoStaging
    /\ used = [k \in {"crash", "fault", "stage"} |-> 0]
    /\ torn = FALSE
    /\ best = 1

-----------------------------------------------------------------------------
\* readState: the state file, else its predecessor.
Readable == IF state # NoState THEN state ELSE previous

Order(s) == InstallOrder[<<s.cur, s.tgt>>]

Spend(kind) ==
    /\ used[kind] < Budget[kind]
    /\ used' = [used EXCEPT ![kind] = @ + 1]

\* The volatile variables keep their values, or are lost with the process.
Goto(loc) == pc' = loc

ProcessGone ==
    /\ mem' = NoState /\ idx' = 0 /\ op' = "none" /\ call' = "none"
    /\ applied' = FALSE /\ backend' = "none" /\ staging' = NoStaging

\* A rollback that stops here leaves a state that still says "applied".
Tears ==
    /\ pc \in {"restore", "reswap"} \/ op = "undone"
    /\ Readable.status = "applied_pending_health"

\* Start of writeJSONAtomic(paths.state, s) on behalf of the given step.
BeginWrite(s, name) == mem' = s /\ op' = name /\ pc' = "drop"

\* Start of rollback(root, paths, s, clearPending) on behalf of the caller.
BeginRollback(s, caller) ==
    /\ mem' = s /\ call' = caller
    /\ idx' = Len(Order(s))
    /\ pc' = "restore"

-----------------------------------------------------------------------------
(***************************************************************************)
(* The launcher.  A start dies at once when a required file is missing     *)
(* (is_package_root, the helper check), before the updater can run; a loop *)
(* inside a running launcher does not look again.  prepare_updater_runner  *)
(* looks for the pending and the state file, never for the state's         *)
(* predecessor, and refuses to go on without the updater binary.           *)
(***************************************************************************)
RequiredPresent == \A f \in Required : files[f] # Absent

StartLauncher ==
    /\ pc = "down"
    /\ Goto(IF RequiredPresent THEN "start" ELSE "down")
    /\ ProcessGone
    /\ UNCHANGED <<durable, used, history>>

PrepareRunner ==
    /\ pc = "start"
    /\ applied' = FALSE
    /\ IF pending = NoPending /\ state = NoState
       THEN Goto("prepare")
       ELSE IF files[Updater] = Absent THEN Goto("down") ELSE Goto("apply")
    /\ UNCHANGED <<durable, mem, idx, op, call, backend, staging, used, history>>

\* Mutants: an interrupted update is resumed, or refused, without rollback.
ApplyResumesInterrupted ==
    /\ pc = "apply"
    /\ mem' = [Readable EXCEPT !.status = "rolled_back"]
    /\ Goto("select")
    /\ UNCHANGED <<durable, idx, op, call, applied, backend, staging, used, history>>

ApplyRefusesInterrupted ==
    /\ pc = "apply"
    /\ mem' = Readable
    /\ Goto(IF Readable.status = "applying" THEN "applyError" ELSE "select")
    /\ UNCHANGED <<durable, idx, op, call, applied, backend, staging, used, history>>

\* applyPending up to the choice of a pending update: an interrupted update
\* is rolled back first, an applied one only waits for its health commit.
ApplyReadState ==
    /\ pc = "apply"
    /\ \/ /\ Readable.status = "applying"
          /\ BeginRollback(Readable, "retry")
          /\ UNCHANGED applied
       \/ /\ Readable.status = "applied_pending_health"
          /\ IF pending.cur = Readable.cur /\ pending.tgt = Readable.tgt
             THEN /\ applied' = TRUE
                  /\ Goto("prepare")
             ELSE /\ UNCHANGED applied
                  /\ Goto("applyError")
          /\ UNCHANGED <<mem, idx, call>>
       \/ /\ Readable.status \in {"none", "committed", "rolled_back"}
          /\ mem' = Readable
          /\ Goto("select")
          /\ UNCHANGED <<idx, call, applied>>
    /\ UNCHANGED <<durable, op, backend, staging, used, history>>

(***************************************************************************)
(* The rest of applyPending before the first file is touched: finish a     *)
(* committed update, or check the pending one against the installed        *)
(* manifest, back up every journaled file and write the journal.  mem      *)
(* still holds the state read by ApplyReadState, also after its rollback.  *)
(***************************************************************************)
CommittedAlready == mem.status = "committed" /\ pending.tgt \in {NoVersion, mem.tgt}

Acceptable ==
    /\ mem.status = "committed" => pending.cur = mem.cur
    /\ files[Manifest] = pending.cur
    /\ pending.cur >= DirectBaseline => pending.tgt > pending.cur

FinishCommitted ==
    /\ pc = "select"
    /\ CommittedAlready
    /\ call' = "apply"
    /\ Goto("dropPending")
    /\ UNCHANGED <<durable, mem, idx, op, applied, backend, staging, used, history>>

NothingPending ==
    /\ pc = "select"
    /\ ~CommittedAlready
    /\ pending = NoPending
    /\ Goto("prepare")
    /\ UNCHANGED <<durable, volatile, used, history>>

\* An archive, a manifest or a backup copy that is refused or cannot be read.
RejectPending ==
    /\ pc = "select"
    /\ ~CommittedAlready
    /\ pending # NoPending
    /\ \/ ~Acceptable /\ UNCHANGED <<backup, used>>
       \/ Spend("fault") /\ UNCHANGED backup
       \/ Spend("fault") /\ Acceptable /\ backup' = NoBackup
    /\ Goto("applyError")
    /\ UNCHANGED <<files, pending, state, previous, volatile, history>>

\* Mutant: the files an update removes are not backed up.
BackupPayloadOnly ==
    /\ pc = "select"
    /\ ~CommittedAlready
    /\ pending # NoPending
    /\ Acceptable
    /\ LET saved == {f \in Payload[pending.tgt] : files[f] # Absent}
       IN /\ backup' = [f \in Files |-> IF f \in saved THEN files[f] ELSE Absent]
          /\ BeginWrite([status |-> "applying", cur |-> pending.cur,
                         tgt |-> pending.tgt, saved |-> saved], "journal")
    /\ UNCHANGED <<files, pending, state, previous, idx, call, applied, backend,
                   staging, used, history>>

BackupFiles ==
    /\ pc = "select"
    /\ ~CommittedAlready
    /\ pending # NoPending
    /\ Acceptable
    /\ LET touched == Payload[pending.cur] \cup Payload[pending.tgt]
           saved == {f \in touched : files[f] # Absent}
       IN /\ backup' = [f \in Files |-> IF f \in saved THEN files[f] ELSE Absent]
          /\ BeginWrite([status |-> "applying", cur |-> pending.cur,
                         tgt |-> pending.tgt, saved |-> saved], "journal")
    /\ UNCHANGED <<files, pending, state, previous, idx, call, applied, backend,
                   staging, used, history>>

-----------------------------------------------------------------------------
(***************************************************************************)
(* The install loop: remove a file, or replaceFile it.  replaceFile        *)
(* removes the target before it renames the verified copy into place.      *)
(***************************************************************************)
InstallFile ==
    /\ pc = "install"
    /\ idx <= Len(Order(mem))
    /\ LET f == Order(mem)[idx] IN
       /\ files' = [files EXCEPT ![f] = Absent]
       /\ IF f \in Payload[mem.tgt]
          THEN Goto("swap") /\ UNCHANGED idx
          ELSE Goto("install") /\ idx' = idx + 1
    /\ UNCHANGED <<backup, pending, state, previous, mem, op, call, applied,
                   backend, staging, used, history>>

SwapFile ==
    /\ pc = "swap"
    /\ files' = [files EXCEPT ![Order(mem)[idx]] = mem.tgt]
    /\ idx' = idx + 1
    /\ Goto("install")
    /\ UNCHANGED <<backup, pending, state, previous, mem, op, call, applied,
                   backend, staging, used, history>>

InstallFails ==
    /\ \/ pc = "install" /\ idx <= Len(Order(mem))
       \/ pc = "swap"
    /\ Spend("fault")
    /\ BeginRollback(mem, "failed")
    /\ UNCHANGED <<durable, op, applied, backend, staging, history>>

InstallDone ==
    /\ pc = "install"
    /\ idx > Len(Order(mem))
    /\ BeginWrite([mem EXCEPT !.status = "applied_pending_health"], "applied")
    /\ UNCHANGED <<durable, idx, call, applied, backend, staging, used, history>>

-----------------------------------------------------------------------------
(***************************************************************************)
(* rollback: every journaled file is restored from its backup, or removed  *)
(* when it did not exist, last file first.                                 *)
(***************************************************************************)
RestoreFile ==
    /\ pc = "restore"
    /\ idx >= 1
    /\ LET f == Order(mem)[idx] IN
       /\ f \in mem.saved => backup[f] # Absent
       /\ files' = [files EXCEPT ![f] = Absent]
       /\ IF f \in mem.saved
          THEN Goto("reswap") /\ UNCHANGED idx
          ELSE Goto("restore") /\ idx' = idx - 1
    /\ UNCHANGED <<backup, pending, state, previous, mem, op, call, applied,
                   backend, staging, used, history>>

ReswapFile ==
    /\ pc = "reswap"
    /\ LET f == Order(mem)[idx] IN files' = [files EXCEPT ![f] = backup[f]]
    /\ idx' = idx - 1
    /\ Goto("restore")
    /\ UNCHANGED <<backup, pending, state, previous, mem, op, call, applied,
                   backend, staging, used, history>>

RollbackError == Goto(IF call \in {"retry", "failed"} THEN "applyError" ELSE "down")

RestoreFails ==
    /\ \/ /\ pc = "restore" /\ idx >= 1
          /\ \/ Spend("fault")
             \/ /\ Order(mem)[idx] \in mem.saved
                /\ backup[Order(mem)[idx]] = Absent
                /\ UNCHANGED used
       \/ pc = "reswap" /\ Spend("fault")
    /\ RollbackError
    /\ torn' = (torn \/ Tears)
    /\ UNCHANGED <<durable, volatile, best>>

\* Mutant: the rolled-back state forgets the wrong version.
RestoreDoneForgetsCurrent ==
    /\ pc = "restore"
    /\ idx = 0
    /\ BeginWrite([mem EXCEPT !.status = "rolled_back", !.cur = NoVersion], "undone")
    /\ UNCHANGED <<durable, idx, call, applied, backend, staging, used, history>>

RestoreDone ==
    /\ pc = "restore"
    /\ idx = 0
    /\ BeginWrite([mem EXCEPT !.status = "rolled_back", !.tgt = NoVersion], "undone")
    /\ UNCHANGED <<durable, idx, call, applied, backend, staging, used, history>>

\* Mutant: a failed update stays pending.
UndoKeepsPending ==
    /\ pc = "undoPending"
    /\ Goto("undoBackup")
    /\ UNCHANGED <<durable, volatile, used, history>>

\* The cleanup after a durable "rolled_back" ignores its errors, so a fault
\* may leave the pending file; the journal is cleared by a second write.
UndoPending ==
    /\ pc = "undoPending"
    /\ IF call \in {"health", "bootstrap"}
       THEN \/ pending' = NoPending /\ UNCHANGED used
            \/ Spend("fault") /\ UNCHANGED pending
       ELSE UNCHANGED <<pending, used>>
    /\ Goto("undoBackup")
    /\ UNCHANGED <<files, backup, state, previous, volatile, history>>

UndoBackup ==
    /\ pc = "undoBackup"
    /\ backup' = NoBackup
    /\ BeginWrite([mem EXCEPT !.saved = {}], "undoneCleaned")
    /\ UNCHANGED <<files, pending, state, previous, idx, call, applied, backend,
                   staging, used, history>>

-----------------------------------------------------------------------------
(***************************************************************************)
(* writeJSONAtomic: write the temporary file and drop the old predecessor, *)
(* rename the state to be the predecessor, rename the new state into       *)
(* place, remove the predecessor.                                          *)
(***************************************************************************)
WriteDrop ==
    /\ pc = "drop"
    /\ \/ previous' = NoState /\ UNCHANGED used
       \/ Spend("fault") /\ UNCHANGED previous
    /\ Goto("shift")
    /\ UNCHANGED <<files, backup, pending, state, volatile, history>>

WriteShift ==
    /\ pc = "shift"
    /\ IF state = NoState THEN UNCHANGED previous ELSE previous' = state
    /\ state' = NoState
    /\ Goto("land")
    /\ UNCHANGED <<files, backup, pending, volatile, used, history>>

WriteLand ==
    /\ pc = "land"
    /\ state' = mem
    /\ best' = IF mem.status = "committed" /\ mem.tgt > best THEN mem.tgt ELSE best
    /\ Goto("tidy")
    /\ UNCHANGED <<files, backup, pending, previous, volatile, used, torn>>

\* What the caller does once the new state is in place.
AfterWrite ==
    CASE op = "journal" ->
             Goto("install") /\ idx' = 1 /\ UNCHANGED <<call, applied, backend, staging>>
      [] op = "applied" ->
             Goto("prepare") /\ applied' = TRUE /\ UNCHANGED <<idx, call, backend, staging>>
      [] op = "committed" ->
             Goto("dropPending") /\ UNCHANGED <<idx, call, applied, backend, staging>>
      [] op = "cleaned" ->
             /\ IF call = "final"
                THEN Goto("serve") /\ backend' = "main" /\ staging' = NoStaging
                ELSE Goto("prepare") /\ UNCHANGED <<backend, staging>>
             /\ UNCHANGED <<idx, call, applied>>
      [] op = "undone" ->
             Goto("undoPending") /\ UNCHANGED <<idx, call, applied, backend, staging>>
      [] op = "undoneCleaned" ->
             /\ Goto(CASE call = "retry" -> "select"
                       [] call = "failed" -> "applyError"
                       [] call = "health" -> "prepare"
                       [] OTHER -> "start")
             /\ applied' = FALSE
             /\ UNCHANGED <<idx, call, backend, staging>>

WriteTidy ==
    /\ pc = "tidy"
    /\ \/ previous' = NoState /\ UNCHANGED used
       \/ Spend("fault") /\ UNCHANGED previous
    /\ AfterWrite
    \* applyPending goes on with the state it read before its rollback
    /\ IF op = "undoneCleaned" THEN mem' = NoState ELSE UNCHANGED mem
    /\ op' = "none"
    /\ UNCHANGED <<files, backup, pending, state, history>>

\* applyPending passes Commit's error on, the launcher asks for the status.
CommitError == Goto(IF call = "final" THEN "commitFailed" ELSE "applyError")

\* What the caller does when the write fails.
AfterFailedWrite ==
    CASE op = "journal" ->
             Goto("applyError") /\ backup' = NoBackup /\ UNCHANGED <<mem, idx, call>>
      [] op = "applied" ->
             BeginRollback(mem, "failed") /\ UNCHANGED backup
      [] op \in {"committed", "cleaned"} ->
             CommitError /\ UNCHANGED <<backup, mem, idx, call>>
      [] op \in {"undone", "undoneCleaned"} ->
             RollbackError /\ UNCHANGED <<backup, mem, idx, call>>

\* The temporary file cannot be written, or a rename fails; a failed second
\* rename tries to move the predecessor back, and ignores whether it did.
WriteFails ==
    /\ \/ pc \in {"drop", "shift"} /\ UNCHANGED <<state, previous>>
       \/ /\ pc = "land"
          /\ \/ state' = previous /\ previous' = NoState
             \/ UNCHANGED <<state, previous>>
    /\ Spend("fault")
    /\ AfterFailedWrite
    /\ op' = "none"
    /\ torn' = (torn \/ Tears)
    /\ UNCHANGED <<files, pending, applied, backend, staging, best>>

-----------------------------------------------------------------------------
(***************************************************************************)
(* Commit: the status is durable before the pending file and the backup    *)
(* are removed; a second write clears the journal.                         *)
(***************************************************************************)
CommitPending ==
    /\ pc = "dropPending"
    /\ pending' = IF pending.tgt = mem.tgt THEN NoPending ELSE pending
    /\ Goto("dropBackup")
    /\ UNCHANGED <<files, backup, state, previous, volatile, used, history>>

CommitBackup ==
    /\ pc = "dropBackup"
    /\ backup' = NoBackup
    /\ BeginWrite([mem EXCEPT !.saved = {}], "cleaned")
    /\ UNCHANGED <<files, pending, state, previous, idx, call, applied, backend,
                   staging, used, history>>

CommitCleanupFails ==
    /\ pc \in {"dropPending", "dropBackup"}
    /\ Spend("fault")
    /\ CommitError
    /\ UNCHANGED <<durable, volatile, history>>

-----------------------------------------------------------------------------
(***************************************************************************)
(* The launcher after apply-pending: a refused update is accepted as "no   *)
(* mutation" when the durable status is a settled one.                     *)
(***************************************************************************)
SafeBaseline == Readable.status \in {"none", "committed", "rolled_back"}

ApplyErrorStatus ==
    /\ pc = "applyError"
    /\ Goto(IF SafeBaseline THEN "prepare" ELSE "down")
    /\ UNCHANGED <<durable, volatile, used, history>>

\* updater rollback, as the launcher calls it.
LauncherRollback(caller, loc) ==
    \/ /\ ~SafeBaseline
       /\ BeginRollback(Readable, caller)
       /\ UNCHANGED applied
    \/ /\ SafeBaseline    \* nothing_to_rollback
       /\ Goto(loc)
       /\ applied' = FALSE
       /\ UNCHANGED <<mem, idx, call>>

\* prepare_package_binaries, the local services and the schema bootstrap.
\* After a rollback the bootstrap is not run again: failing there stands for
\* the exact-version check of the rolled-back backend, which also stops.
Bootstrap ==
    /\ pc = "prepare"
    /\ RequiredPresent
    /\ IF applied
       THEN Goto("candidate") /\ backend' = "candidate"
       ELSE Goto("serve") /\ backend' = "main"
    /\ UNCHANGED <<durable, mem, idx, op, call, applied, staging, used, history>>

BootstrapFails ==
    /\ pc = "prepare"
    /\ \/ /\ applied
          /\ RequiredPresent
          /\ LauncherRollback("bootstrap", "start")
          /\ UNCHANGED used
       \/ /\ ~applied \/ ~RequiredPresent
          /\ IF RequiredPresent THEN Spend("fault") ELSE UNCHANGED used
          /\ Goto("down")
          /\ UNCHANGED <<mem, idx, call, applied>>
    /\ UNCHANGED <<durable, op, backend, staging, history>>

\* finalize_pending_update: the candidate answers /ready with the target
\* version and is committed, or it is stopped and the update rolled back.
HealthPasses ==
    /\ pc = "candidate"
    /\ Readable.status = "applied_pending_health"
    /\ call' = "final"
    /\ BeginWrite([Readable EXCEPT !.status = "committed", !.cur = Readable.tgt],
                  "committed")
    /\ UNCHANGED <<durable, idx, applied, backend, staging, used, history>>

HealthFails ==
    /\ pc = "candidate"
    /\ backend' = "none" /\ staging' = NoStaging
    /\ LauncherRollback("health", "prepare")
    /\ UNCHANGED <<durable, op, used, history>>

\* Mutant: a failed commit is rolled back also when its status is durable.
CommitFailedAlwaysRollsBack ==
    /\ pc = "commitFailed"
    /\ staging' = NoStaging /\ backend' = "none"
    /\ IF Readable = NoState
       THEN Goto("prepare") /\ UNCHANGED <<mem, idx, call>>
       ELSE BeginRollback(Readable, "health")
    /\ applied' = FALSE
    /\ UNCHANGED <<durable, op, used, history>>

CommitFailed ==
    /\ pc = "commitFailed"
    /\ staging' = NoStaging
    /\ \/ /\ Readable.status = "committed"
          /\ Goto("serve")
          /\ backend' = "main"
          /\ UNCHANGED <<mem, idx, call, applied>>
       \/ /\ Readable.status # "committed"
          /\ backend' = "none"
          /\ LauncherRollback("health", "prepare")
    /\ UNCHANGED <<durable, op, used, history>>

\* The backend ends; exit code 75 makes the launcher loop at once.
BackendExits ==
    /\ pc = "serve"
    /\ Goto("down") \/ (pending # NoPending /\ Goto("start"))
    /\ ProcessGone
    /\ UNCHANGED <<durable, used, history>>

-----------------------------------------------------------------------------
(***************************************************************************)
(* The update request handler, in whatever backend is running, candidates  *)
(* included: writePendingPackageUpdate moves the old pending file away and *)
(* renames the new one into place.                                         *)
(***************************************************************************)
StageUpdate ==
    /\ backend # "none"
    /\ staging = NoStaging
    /\ files[Updater] # Absent /\ files[Manifest] # Absent
    /\ Spend("stage")
    /\ \E w \in Versions :
         /\ w > files[Manifest]
         /\ staging' = [new |-> [cur |-> files[Manifest], tgt |-> w], old |-> pending]
    /\ pending' = NoPending
    /\ UNCHANGED <<files, backup, state, previous, pc, mem, idx, op, call,
                   applied, backend, history>>

StageLand ==
    /\ staging # NoStaging
    /\ \/ pending' = staging.new /\ UNCHANGED used
       \/ pending' = staging.old /\ Spend("fault")
    /\ staging' = NoStaging
    /\ UNCHANGED <<files, backup, state, previous, pc, mem, idx, op, call,
                   applied, backend, history>>

\* The machine, or the launcher with everything it started, stops.
Crash ==
    /\ pc # "down"
    /\ Spend("crash")
    /\ Goto("down")
    /\ ProcessGone
    /\ torn' = (torn \/ Tears)
    /\ UNCHANGED <<durable, best>>

Launcher ==
    \/ StartLauncher \/ PrepareRunner
    \/ ApplyReadState \/ FinishCommitted \/ NothingPending \/ RejectPending
    \/ BackupFiles \/ InstallFile \/ SwapFile \/ InstallFails \/ InstallDone
    \/ RestoreFile \/ ReswapFile \/ RestoreFails \/ RestoreDone
    \/ UndoPending \/ UndoBackup
    \/ WriteDrop \/ WriteShift \/ WriteLand \/ WriteTidy \/ WriteFails
    \/ CommitPending \/ CommitBackup \/ CommitCleanupFails
    \/ ApplyErrorStatus \/ Bootstrap \/ BootstrapFails
    \/ HealthPasses \/ HealthFails \/ CommitFailed

Next == Launcher \/ BackendExits \/ StageUpdate \/ StageLand \/ Crash

Spec == Init /\ [][Next]_vars

(***************************************************************************)
(* Somebody starts the launcher again, and its steps do not wait for ever, *)
(* but for the wait for the candidate: wait_candidate_backend_ready moves  *)
(* its deadline as long as the candidate reports its index recovery as     *)
(* running or waiting.  Crashes, faults, requests and exits are never      *)
(* forced.                                                                 *)
(***************************************************************************)
FairSpec == Spec /\ WF_vars(pc # "candidate" /\ Launcher) /\ WF_vars(StageLand)

-----------------------------------------------------------------------------
Whole == \E v \in Versions : files = PackageOf(v)

\* A backend, candidate or main, only ever runs from a package whose files
\* all belong to one version, unless the rollback of a fully applied update
\* was cut short (rollback, applyPending).
RunsWholePackage ==
    (pc \in {"candidate", "serve"} /\ ~torn) => Whole

\* README_FULL_PACKAGE.md: "If the updater cannot prove either no_mutation or
\* a safe rollback, startup stops with a recovery error instead of running a
\* mixed package."
NeverRunsMixedPackage == pc \in {"candidate", "serve"} => Whole

\* While the durable state says that an update is open, the files it has not
\* touched, its backups and its journal together still hold the whole
\* previous package: whatever is interrupted next, rollback can succeed.
RollbackPossible ==
    (Readable.status \in {"applying", "applied_pending_health"} /\ ~torn) =>
        \A f \in Files :
            PackageOf(Readable.cur)[f] =
                IF f \in Readable.saved THEN backup[f]
                ELSE IF f \in Payload[Readable.tgt] THEN Absent
                ELSE files[f]

\* Once a version was committed no start ever runs an older one: cleanup that
\* is cut short, and the loss of the state file, never undo a commit.
CommitIsFinal ==
    (pc \in {"candidate", "serve"} /\ ~torn) => files[Manifest] >= best

\* prepare_updater_runner does not look at the state's predecessor.
Overlooked == state = NoState /\ pending = NoPending

(***************************************************************************)
(* The dead ends of the recovery: a required file, or the updater binary   *)
(* itself, was lost between replaceFile's remove and its rename; or a      *)
(* request served by the candidate replaced the pending record of the      *)
(* update under test.                                                      *)
(***************************************************************************)
DeadEnd ==
    /\ pc = "down"
    /\ \/ ~RequiredPresent
       \/ files[Updater] = Absent /\ ~Overlooked
       \/ /\ Readable.status = "applied_pending_health"
          /\ pending # [cur |-> Readable.cur, tgt |-> Readable.tgt]

\* The launcher does not wait for one candidate's index recovery for ever.
CandidateWaitEnds == []<>(pc # "candidate")

\* An interrupted update does not stay open: restarts resolve it one way or
\* the other, unless recovery ran into one of its dead ends, the launcher has
\* nothing left by which it notices the update, or the candidate's index
\* recovery never ends.
UpdateResolves ==
    CandidateWaitEnds =>
        ((Readable.status \in {"applying", "applied_pending_health"}) ~>
            (SafeBaseline \/ DeadEnd \/ Overlooked))

\* The launcher always gets back to serving the main backend, unless recovery
\* ran into one of its dead ends or the candidate's index recovery never ends.
ServesAgain == CandidateWaitEnds => []<>(backend = "main" \/ DeadEnd)
================================================================================
