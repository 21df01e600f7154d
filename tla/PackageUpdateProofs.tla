-------------------------- MODULE PackageUpdateProofs --------------------------
(***************************************************************************)
(* Proofs about PackageUpdate, for any versions, files, install orders and *)
(* any number of crashes, failing operations and requests.                 *)
(*                                                                         *)
(* PInv has two halves.  Control says, for each place the updater can be   *)
(* at, which state it works from and which write is under way; it holds of *)
(* every behaviour.  Package says what the files are; it is only claimed   *)
(* as long as no rollback of an applied update was cut short.              *)
(***************************************************************************)
EXTENDS PackageUpdate, TLAPS

Open(s) == s.status \in {"applying", "applied_pending_health"}

SameJournal(s, t) == s.cur = t.cur /\ s.tgt = t.tgt /\ s.saved = t.saved

WellFormed(s) == Open(s) => s.tgt \in Versions /\ s.cur < s.tgt

Writing == {"drop", "shift", "land", "tidy"}

\* The write under way, and what it replaces.
WriteStands ==
    /\ op # "none" <=> pc \in Writing
    /\ pc = "tidy" => state = mem
    /\ pc = "land" => state = NoState
    /\ op # "none" => mem # NoState
    /\ op = "journal" =>
         /\ mem.status = "applying"
         /\ pending = [cur |-> mem.cur, tgt |-> mem.tgt]
         /\ pc # "tidy" => ~Open(Readable)
    /\ op = "applied" =>
         /\ mem.status = "applied_pending_health"
         /\ pc # "tidy" => Readable.status = "applying" /\ SameJournal(mem, Readable)
         /\ pc = "drop" => state # NoState
    /\ op = "committed" =>
         /\ mem.status = "committed" /\ call = "final"
         /\ pc # "tidy" => \/ Readable = NoState
                           \/ Readable.status = "applied_pending_health" /\ Readable.tgt = mem.tgt
    /\ op = "cleaned" => mem.status = "committed" /\ ~Open(Readable)
    /\ op = "undone" =>
         /\ mem.status = "rolled_back"
         /\ pc # "tidy" => Readable = NoState \/ (Open(Readable) /\ Readable.cur = mem.cur)
    /\ op = "undoneCleaned" => mem.status = "rolled_back" /\ ~Open(Readable)

\* Where the updater stands, and the state it works from.
Place ==
    /\ pc \in {"install", "swap"} => state = mem /\ mem.status = "applying" /\ idx >= 1
    /\ pc = "swap" => idx <= Len(Order(mem)) /\ Order(mem)[idx] \in Payload[mem.tgt]
    /\ pc \in {"restore", "reswap"} =>
         /\ Open(mem) /\ Open(Readable) /\ SameJournal(mem, Readable)
         /\ idx <= Len(Order(mem))
    /\ pc = "reswap" => idx >= 1 /\ Order(mem)[idx] \in mem.saved
    /\ pc = "select" => /\ ~Open(Readable)
                        /\ mem.status = "committed" => mem = Readable
                        /\ ~Open(mem)
    /\ pc \in {"dropPending", "dropBackup"} => mem.status = "committed" /\ ~Open(Readable)
    /\ pc \in {"undoPending", "undoBackup"} => mem.status = "rolled_back" /\ ~Open(Readable)
    /\ pc \in {"prepare", "candidate", "commitFailed", "serve"} => Readable.status # "applying"

\* An update that is being applied is the pending one: nobody stages another.
Undisturbed ==
    /\ Readable.status = "applying" => pending = [cur |-> Readable.cur, tgt |-> Readable.tgt]
    /\ staging # NoStaging => backend # "none"
    /\ backend # "none" =>
         \/ pc \in {"candidate", "serve", "commitFailed"}
         \/ call = "final" /\ (op \in {"committed", "cleaned"} \/ pc \in {"dropPending", "dropBackup"})

Control == WellFormed(Readable) /\ WellFormed(mem) /\ WriteStands /\ Place /\ Undisturbed

Rolling == pc \in {"restore", "reswap"} \/ op = "undone"

Stands == \E v \in Versions : v >= best /\ files = PackageOf(v)

Journaled(s) ==
    /\ s.saved = Payload[s.cur]
    /\ backup = PackageOf(s.cur)
    /\ s.cur >= best
    /\ \A f \in Files \ (Payload[s.cur] \cup Payload[s.tgt]) : files[f] = Absent

Places(s) == 1..Len(Order(s))

\* What the durable state promises.
Kept ==
    /\ Open(Readable) => Journaled(Readable)
    /\ Readable.status = "applied_pending_health" /\ ~Rolling => files = PackageOf(Readable.tgt)
    /\ ~Open(Readable) => Stands
    /\ Readable.status = "committed" => Readable.tgt <= best

\* What the updater knows that is at work.
UnderWay ==
    /\ op = "journal" => Journaled(mem) /\ files = PackageOf(mem.cur)
    /\ op = "applied" => files = PackageOf(mem.tgt)
    /\ op = "committed" => files = PackageOf(mem.tgt) /\ mem.tgt >= best
    /\ op = "undone" => files = PackageOf(mem.cur) /\ mem.cur >= best
    /\ (op = "cleaned" \/ pc \in {"dropPending", "dropBackup"}) => mem.tgt <= best
    /\ pc \in {"install", "swap"} =>
         \A j \in Places(mem) : j < idx => files[Order(mem)[j]] = PackageOf(mem.tgt)[Order(mem)[j]]
    /\ pc \in {"restore", "reswap"} =>
         \A j \in Places(mem) : j > idx => files[Order(mem)[j]] = PackageOf(mem.cur)[Order(mem)[j]]

Package == Kept /\ UnderWay

PInv == TypeOK /\ Control /\ (~torn => Package)

-----------------------------------------------------------------------------
(* States, orders and packages.                                             *)

\* Every state but NoState is a record of States.
LEMMA StateIs ==
    ASSUME NEW s \in States \cup {NoState}, s.status # "none"
    PROVE  /\ s \in States /\ s # NoState
           /\ s.status \in Statuses /\ s.cur \in Versions
           /\ s.tgt \in Versions \cup {NoVersion} /\ s.saved \in SUBSET Files
BY DEF States, NoState

LEMMA NoStateIs == NoState.status = "none" /\ NoState.cur = 0 /\ NoState.tgt = 0 /\ ~Open(NoState)
BY DEF NoState, NoVersion, Open

\* A state of the given status.
LEMMA Marked ==
    ASSUME NEW s \in States, NEW x \in Statuses
    PROVE  LET t == [s EXCEPT !.status = x] IN
           /\ t \in States /\ t.status = x /\ t.cur = s.cur /\ t.tgt = s.tgt /\ t.saved = s.saved
BY DEF States

LEMMA Undone ==
    ASSUME NEW s \in States
    PROVE  LET t == [s EXCEPT !.status = "rolled_back", !.tgt = NoVersion] IN
           /\ t \in States /\ t.status = "rolled_back" /\ t.cur = s.cur
BY DEF States, Statuses

LEMMA Final ==
    ASSUME NEW s \in States, s.tgt \in Versions
    PROVE  LET t == [s EXCEPT !.status = "committed", !.cur = s.tgt] IN
           /\ t \in States /\ t.status = "committed" /\ t.cur = s.tgt /\ t.tgt = s.tgt
BY DEF States, Statuses

LEMMA Cleaned ==
    ASSUME NEW s \in States
    PROVE  LET t == [s EXCEPT !.saved = {}] IN
           /\ t \in States /\ t.status = s.status /\ t.cur = s.cur /\ t.tgt = s.tgt
BY DEF States

LEMMA PackageIs ==
    ASSUME NEW v \in Versions
    PROVE  /\ PackageOf(v) \in [Files -> Contents]
           /\ PackageOf(v)[Manifest] = v
           /\ \A f \in Files : PackageOf(v)[f] = IF f \in Payload[v] THEN v ELSE Absent
           /\ Payload[v] \subseteq Files
BY PackageAssumption DEF PackageOf, Contents, Versions, Absent

\* The order of an update lists every file of both versions once.
LEMMA OrderIs ==
    ASSUME NEW s \in States, s.tgt \in Versions
    PROVE  /\ Order(s) \in Seq(Files) /\ Len(Order(s)) \in Nat
           /\ \A j \in Places(s) : Order(s)[j] \in Files
           /\ \A f \in Payload[s.cur] \cup Payload[s.tgt] : \E j \in Places(s) : Order(s)[j] = f
           /\ \A j \in Places(s) : Order(s)[j] \in Payload[s.cur] \cup Payload[s.tgt]
           /\ \A j, k \in Places(s) : Order(s)[j] = Order(s)[k] => j = k
<1>1. s.cur \in Versions /\ <<s.cur, s.tgt>> \in Versions \X Versions
  BY DEF States
<1>2. Order(s) \in Seq(Files)
  BY <1>1, PackageAssumption DEF Order
<1>3. {Order(s)[k] : k \in 1..Len(Order(s))} = Payload[s.cur] \cup Payload[s.tgt]
  BY <1>1, PackageAssumption DEF Order
<1>4. \A j, k \in 1..Len(Order(s)) : Order(s)[j] = Order(s)[k] => j = k
  BY <1>1, PackageAssumption DEF Order
<1> QED BY <1>2, <1>3, <1>4 DEF Places

-----------------------------------------------------------------------------
(* Types.                                                                   *)

LEMMA ReadableType == TypeOK => Readable \in States \cup {NoState}
BY DEF TypeOK, Readable

LEMMA SpendType ==
    ASSUME NEW kind \in {"crash", "fault", "stage"}, TypeOK, Spend(kind)
    PROVE  used' \in [{"crash", "fault", "stage"} -> Nat]
BY DEF TypeOK, Spend

LEMMA UsedType ==
    ASSUME TypeOK, UNCHANGED used \/ Spend("fault") \/ Spend("crash") \/ Spend("stage")
    PROVE  used' \in [{"crash", "fault", "stage"} -> Nat]
BY SpendType DEF TypeOK

\* What the launcher and the updater keep in memory.
VolatileType ==
    /\ pc \in Locations
    /\ mem \in States \cup {NoState}
    /\ idx \in Nat
    /\ op \in {"none", "journal", "applied", "committed", "cleaned",
               "undone", "undoneCleaned"}
    /\ call \in {"none", "retry", "failed", "health", "bootstrap", "apply", "final"}
    /\ applied \in BOOLEAN
    /\ backend \in {"none", "candidate", "main"}
    /\ staging \in Stagings

DurableType ==
    /\ files \in [Files -> Contents]
    /\ backup \in [Files -> Contents]
    /\ pending \in Pendings \cup {NoPending}
    /\ state \in States \cup {NoState}
    /\ previous \in States \cup {NoState}

HistoryType == torn \in BOOLEAN /\ best \in Versions

Typed ==
    /\ VolatileType /\ DurableType /\ HistoryType
    /\ used \in [{"crash", "fault", "stage"} -> Nat]

\* A rollback that begins with an open state has its whole order before it.
LEMMA RollbackBegins ==
    ASSUME NEW s \in States \cup {NoState}, NEW caller, Open(s), WellFormed(s),
           BeginRollback(s, caller)
    PROVE  /\ s \in States /\ s.tgt \in Versions
           /\ mem' = s /\ call' = caller /\ pc' = "restore"
           /\ idx' = Len(Order(s)) /\ idx' \in Nat
<1>1. s \in States /\ s.tgt \in Versions
  BY StateIs DEF Open, WellFormed
<1> QED BY <1>1, OrderIs DEF BeginRollback

LEMMA LauncherRollbackType ==
    ASSUME TypeOK, Control, NEW caller \in {"health", "bootstrap"}, NEW loc \in Locations,
           LauncherRollback(caller, loc)
    PROVE  /\ pc' \in Locations /\ mem' \in States \cup {NoState} /\ idx' \in Nat
           /\ call' \in {"none", "retry", "failed", "health", "bootstrap", "apply", "final"}
           /\ applied' \in BOOLEAN
<1>1. CASE ~SafeBaseline /\ BeginRollback(Readable, caller) /\ UNCHANGED applied
  <2>1. Readable \in States \cup {NoState} /\ Open(Readable) /\ WellFormed(Readable)
    BY <1>1, ReadableType, StateIs DEF SafeBaseline, Open, Control, Statuses
  <2> QED BY <1>1, <2>1, RollbackBegins DEF TypeOK, Locations
<1>2. CASE SafeBaseline /\ Goto(loc) /\ applied' = FALSE /\ UNCHANGED <<mem, idx, call>>
  BY <1>2 DEF TypeOK, Goto
<1> QED BY <1>1, <1>2 DEF LauncherRollback

LEMMA LauncherTypes ==
    ASSUME TypeOK, Control,
           \/ StartLauncher \/ PrepareRunner \/ ApplyErrorStatus \/ Bootstrap \/ BootstrapFails
           \/ HealthPasses \/ HealthFails \/ CommitFailed \/ BackendExits \/ Crash
    PROVE  TypeOK'
<1> SUFFICES Typed'
  BY DEF TypeOK, Typed, VolatileType, DurableType, HistoryType
<1> /\ VolatileType /\ DurableType /\ HistoryType
    /\ used \in [{"crash", "fault", "stage"} -> Nat]
  BY DEF TypeOK, VolatileType, DurableType, HistoryType
<1>0. NoStaging \in Stagings
  BY DEF Stagings, NoStaging
<1>1. CASE StartLauncher \/ BackendExits
  <2>1. /\ pc' \in Locations /\ ProcessGone /\ UNCHANGED <<durable, used, history>>
    BY <1>1 DEF StartLauncher, BackendExits, Goto, Locations
  <2> QED
    BY <1>0, <2>1 DEF ProcessGone, durable, history, VolatileType, DurableType, HistoryType, Typed
<1>2. CASE Crash
  <2>1. used' \in [{"crash", "fault", "stage"} -> Nat]
    BY <1>2, SpendType DEF Crash
  <2> QED
    BY <1>2, <2>1 DEF Crash, Goto, ProcessGone, durable, VolatileType, Tears,
        DurableType, HistoryType, Typed, Locations, Stagings, NoStaging
<1>3. CASE PrepareRunner \/ ApplyErrorStatus \/ Bootstrap
  <2>1. /\ pc' \in Locations /\ applied' \in BOOLEAN /\ backend' \in {"none", "candidate", "main"}
        /\ UNCHANGED <<durable, mem, idx, op, call, staging, used, history>>
    BY <1>3 DEF PrepareRunner, ApplyErrorStatus, Bootstrap, Goto, volatile, VolatileType, Locations
  <2> QED BY <2>1 DEF durable, history, VolatileType, DurableType, HistoryType, Typed
<1>4. CASE BootstrapFails
  <2>1. used' \in [{"crash", "fault", "stage"} -> Nat]
    BY <1>4, UsedType DEF BootstrapFails
  <2>2. VolatileType'
    <3>1. CASE LauncherRollback("bootstrap", "start")
      BY <1>4, <3>1, LauncherRollbackType DEF BootstrapFails, VolatileType, Locations
    <3>2. CASE Goto("down") /\ UNCHANGED <<mem, idx, call, applied>>
      BY <1>4, <3>2 DEF BootstrapFails, VolatileType, Locations, Goto
    <3> QED BY <1>4, <3>1, <3>2 DEF BootstrapFails
  <2> QED BY <1>4, <2>1, <2>2 DEF BootstrapFails, durable, history, DurableType, HistoryType, Typed
<1>5. CASE HealthPasses
  <2>1. Readable \in States /\ Readable.tgt \in Versions
    BY <1>5, ReadableType, StateIs DEF HealthPasses, Control, WellFormed, Open
  <2> QED
    BY <1>5, <2>1, Final DEF HealthPasses, BeginWrite, durable, history, VolatileType,
        DurableType, HistoryType, Typed, Locations
<1>6. CASE HealthFails
  BY <1>6, LauncherRollbackType DEF HealthFails, durable, history, VolatileType,
      DurableType, HistoryType, Typed, Locations, Stagings, NoStaging
<1>7. CASE CommitFailed
  <2>1. CASE Readable.status # "committed" /\ backend' = "none" /\ LauncherRollback("health", "prepare")
    BY <1>7, <2>1, LauncherRollbackType DEF CommitFailed, durable, history, VolatileType,
        DurableType, HistoryType, Typed, Locations, Stagings, NoStaging
  <2>2. CASE Goto("serve") /\ backend' = "main" /\ UNCHANGED <<mem, idx, call, applied>>
    BY <1>7, <2>2 DEF CommitFailed, Goto, durable, history, VolatileType,
        DurableType, HistoryType, Typed, Locations, Stagings, NoStaging
  <2> QED BY <1>7, <2>1, <2>2 DEF CommitFailed
<1> QED BY <1>1, <1>2, <1>3, <1>4, <1>5, <1>6, <1>7

LEMMA ApplyTypes ==
    ASSUME TypeOK, Control,
           \/ ApplyReadState \/ FinishCommitted \/ NothingPending \/ RejectPending
           \/ BackupFiles \/ InstallFile \/ SwapFile \/ InstallFails \/ InstallDone
    PROVE  TypeOK'
<1> SUFFICES Typed'
  BY DEF TypeOK, Typed, VolatileType, DurableType, HistoryType
<1> /\ VolatileType /\ DurableType /\ HistoryType
    /\ used \in [{"crash", "fault", "stage"} -> Nat]
  BY DEF TypeOK, VolatileType, DurableType, HistoryType
<1>1. CASE ApplyReadState
  <2>1. CASE Readable.status = "applying" /\ BeginRollback(Readable, "retry") /\ UNCHANGED applied
    <3>1. Open(Readable) /\ WellFormed(Readable)
      BY <2>1 DEF Open, Control
    <3> QED
      BY <1>1, <2>1, <3>1, ReadableType, RollbackBegins DEF ApplyReadState, durable, history,
          VolatileType, DurableType, HistoryType, Typed, Locations
  <2>2. CASE ~(Readable.status = "applying" /\ BeginRollback(Readable, "retry") /\ UNCHANGED applied)
    <3>1. /\ pc' \in Locations /\ mem' \in {mem, Readable} /\ applied' \in {applied, TRUE}
          /\ UNCHANGED <<idx, call>>
      BY <1>1, <2>2 DEF ApplyReadState, Goto, Locations
    <3>2. UNCHANGED <<durable, op, backend, staging, used, history>>
      BY <1>1 DEF ApplyReadState
    <3>3. mem' \in States \cup {NoState} /\ applied' \in BOOLEAN
      BY <3>1, ReadableType DEF VolatileType
    <3> QED
      BY <3>1, <3>2, <3>3 DEF durable, history, VolatileType, DurableType, HistoryType, Typed
  <2> QED BY <1>1, <2>1, <2>2 DEF ApplyReadState
<1>2. CASE FinishCommitted \/ NothingPending
  BY <1>2 DEF FinishCommitted, NothingPending, Goto, durable, volatile, history, VolatileType,
      DurableType, HistoryType, Typed, Locations
<1>3. CASE RejectPending
  <2>1. used' \in [{"crash", "fault", "stage"} -> Nat]
    BY <1>3, UsedType DEF RejectPending
  <2>2. NoBackup \in [Files -> Contents]
    BY DEF NoBackup, Contents
  <2> QED
    BY <1>3, <2>1, <2>2 DEF RejectPending, Goto, volatile, history, VolatileType,
        DurableType, HistoryType, Typed, Locations
<1>4. CASE BackupFiles
  <2>1. pending \in Pendings
    BY <1>4 DEF DurableType, BackupFiles
  <2>2. PICK saved \in SUBSET Files :
           /\ backup' = [f \in Files |-> IF f \in saved THEN files[f] ELSE Absent]
           /\ BeginWrite([status |-> "applying", cur |-> pending.cur,
                          tgt |-> pending.tgt, saved |-> saved], "journal")
    <3>1. Payload[pending.cur] \cup Payload[pending.tgt] \subseteq Files
      BY <2>1, PackageAssumption DEF Pendings
    <3> QED BY <1>4, <3>1 DEF BackupFiles
  <2>3. [status |-> "applying", cur |-> pending.cur, tgt |-> pending.tgt, saved |-> saved] \in States
    BY <2>1 DEF States, Statuses, Pendings
  <2>4. backup' \in [Files -> Contents]
    BY <2>2 DEF DurableType, Contents
  <2> QED
    BY <1>4, <2>2, <2>3, <2>4 DEF BackupFiles, BeginWrite, history, VolatileType,
        DurableType, HistoryType, Typed, Locations
<1>5. CASE InstallFile
  <2>1. files' \in [Files -> Contents]
    BY <1>5 DEF InstallFile, DurableType, Contents
  <2> QED
    BY <1>5, <2>1 DEF InstallFile, Goto, history, VolatileType, DurableType, HistoryType, Typed, Locations
<1>6. CASE SwapFile
  <2>1. mem.status = "applying" /\ mem.tgt \in Versions
    BY <1>6 DEF SwapFile, Control, Place, WellFormed, Open
  <2>2. files' \in [Files -> Contents]
    BY <1>6, <2>1 DEF SwapFile, DurableType, Contents
  <2> QED
    BY <1>6, <2>2 DEF SwapFile, Goto, history, VolatileType, DurableType, HistoryType, Typed, Locations
<1>7. CASE InstallFails
  <2>1. Open(mem) /\ WellFormed(mem) /\ mem \in States \cup {NoState}
    BY <1>7 DEF InstallFails, Control, Place, Open, VolatileType
  <2>2. used' \in [{"crash", "fault", "stage"} -> Nat]
    BY <1>7, UsedType DEF InstallFails
  <2>3. BeginRollback(mem, "failed")
    BY <1>7 DEF InstallFails
  <2> QED
    BY <1>7, <2>1, <2>2, <2>3, RollbackBegins DEF InstallFails, durable, history, VolatileType,
        DurableType, HistoryType, Typed, Locations
<1>8. CASE InstallDone
  <2>1. mem \in States
    BY <1>8, StateIs DEF InstallDone, Control, Place, VolatileType
  <2> DEFINE t == [mem EXCEPT !.status = "applied_pending_health"]
  <2>2. t \in States
    BY <2>1, Marked DEF Statuses
  <2>3. mem' = t /\ op' = "applied" /\ pc' = "drop"
    BY <1>8 DEF InstallDone, BeginWrite
  <2> HIDE DEF t
  <2> QED
    BY <1>8, <2>2, <2>3 DEF InstallDone, durable, history, VolatileType,
        DurableType, HistoryType, Typed, Locations
<1> QED BY <1>1, <1>2, <1>3, <1>4, <1>5, <1>6, <1>7, <1>8

LEMMA RollbackTypes ==
    ASSUME TypeOK, Control,
           \/ RestoreFile \/ ReswapFile \/ RestoreFails \/ RestoreDone
           \/ UndoPending \/ UndoBackup
           \/ CommitPending \/ CommitBackup \/ CommitCleanupFails
           \/ StageUpdate \/ StageLand
    PROVE  TypeOK'
<1> SUFFICES Typed'
  BY DEF TypeOK, Typed, VolatileType, DurableType, HistoryType
<1> /\ VolatileType /\ DurableType /\ HistoryType
    /\ used \in [{"crash", "fault", "stage"} -> Nat]
  BY DEF TypeOK, VolatileType, DurableType, HistoryType
<1>1. CASE RestoreFile
  <2>1. files' \in [Files -> Contents]
    BY <1>1 DEF RestoreFile, DurableType, Contents
  <2>3. idx' \in Nat
    BY <1>1 DEF RestoreFile, VolatileType
  <2> QED
    BY <1>1, <2>1, <2>3 DEF RestoreFile, Goto, history, VolatileType, DurableType, HistoryType, Typed, Locations
<1>2. CASE ReswapFile
  <2>1. mem \in States /\ mem.saved \subseteq Files /\ idx >= 1 /\ Order(mem)[idx] \in mem.saved
    BY <1>2, StateIs DEF ReswapFile, Control, Place, Open, VolatileType
  <2>2. files' \in [Files -> Contents] /\ idx' \in Nat
    BY <1>2, <2>1 DEF ReswapFile, DurableType, VolatileType
  <2> QED
    BY <1>2, <2>2 DEF ReswapFile, Goto, history, VolatileType, DurableType, HistoryType, Typed, Locations
<1>3. CASE RestoreFails
  <2>1. used' \in [{"crash", "fault", "stage"} -> Nat]
    BY <1>3, UsedType DEF RestoreFails
  <2>2. pc' \in Locations /\ torn' \in BOOLEAN
    BY <1>3 DEF RestoreFails, RollbackError, Goto, Locations, HistoryType, Tears
  <2> QED
    BY <1>3, <2>1, <2>2 DEF RestoreFails, durable, volatile, VolatileType, DurableType, HistoryType, Typed
<1>4. CASE RestoreDone
  <2>1. mem \in States
    BY <1>4, StateIs DEF RestoreDone, Control, Place, Open, VolatileType
  <2> DEFINE t == [mem EXCEPT !.status = "rolled_back", !.tgt = NoVersion]
  <2>2. t \in States
    BY <2>1, Undone
  <2>3. mem' = t /\ op' = "undone" /\ pc' = "drop"
    BY <1>4 DEF RestoreDone, BeginWrite
  <2> HIDE DEF t
  <2> QED
    BY <1>4, <2>2, <2>3 DEF RestoreDone, durable, history, VolatileType,
        DurableType, HistoryType, Typed, Locations
<1>5. CASE UndoPending
  <2>1. used' \in [{"crash", "fault", "stage"} -> Nat]
    BY <1>5, UsedType DEF UndoPending
  <2> QED
    BY <1>5, <2>1 DEF UndoPending, Goto, volatile, history, VolatileType, DurableType,
        HistoryType, Typed, Locations
<1>6. CASE UndoBackup \/ CommitBackup
  <2>1. mem \in States
    BY <1>6, StateIs DEF UndoBackup, CommitBackup, Control, Place, VolatileType
  <2> DEFINE t == [mem EXCEPT !.saved = {}]
  <2>2. t \in States /\ NoBackup \in [Files -> Contents]
    BY <2>1, Cleaned DEF NoBackup, Contents
  <2>3. mem' = t /\ op' \in {"undoneCleaned", "cleaned"} /\ pc' = "drop"
    BY <1>6 DEF UndoBackup, CommitBackup, BeginWrite
  <2> HIDE DEF t
  <2> QED
    BY <1>6, <2>2, <2>3 DEF UndoBackup, CommitBackup, history, VolatileType,
        DurableType, HistoryType, Typed, Locations
<1>7. CASE CommitPending
  BY <1>7 DEF CommitPending, Goto, volatile, history, VolatileType, DurableType,
      HistoryType, Typed, Locations
<1>8. CASE CommitCleanupFails
  <2>1. used' \in [{"crash", "fault", "stage"} -> Nat]
    BY <1>8, UsedType DEF CommitCleanupFails
  <2> QED
    BY <1>8, <2>1 DEF CommitCleanupFails, CommitError, Goto, durable, volatile, history,
        VolatileType, DurableType, HistoryType, Typed, Locations
<1>9. CASE StageUpdate
  <2>1. used' \in [{"crash", "fault", "stage"} -> Nat]
    BY <1>9, UsedType DEF StageUpdate
  <2>2. files[Manifest] \in Versions
    BY <1>9, PackageAssumption DEF StageUpdate, DurableType, Contents
  <2>3. staging' \in Stagings
    BY <1>9, <2>2 DEF StageUpdate, Stagings, Pendings, DurableType
  <2> QED
    BY <1>9, <2>1, <2>3 DEF StageUpdate, history, VolatileType, DurableType, HistoryType, Typed
<1>10. CASE StageLand
  <2>1. used' \in [{"crash", "fault", "stage"} -> Nat]
    BY <1>10, UsedType DEF StageLand
  <2>2. pending' \in Pendings \cup {NoPending} /\ staging' \in Stagings
    BY <1>10 DEF StageLand, Stagings, NoStaging, VolatileType
  <2> QED
    BY <1>10, <2>1, <2>2 DEF StageLand, history, VolatileType, DurableType, HistoryType, Typed
<1> QED BY <1>1, <1>2, <1>3, <1>4, <1>5, <1>6, <1>7, <1>8, <1>9, <1>10

LEMMA WriteTypes ==
    ASSUME TypeOK, Control, WriteDrop \/ WriteShift \/ WriteLand \/ WriteTidy \/ WriteFails
    PROVE  TypeOK'
<1> SUFFICES Typed'
  BY DEF TypeOK, Typed, VolatileType, DurableType, HistoryType
<1> /\ VolatileType /\ DurableType /\ HistoryType
    /\ used \in [{"crash", "fault", "stage"} -> Nat]
  BY DEF TypeOK, VolatileType, DurableType, HistoryType
<1>1. CASE WriteDrop
  <2>1. used' \in [{"crash", "fault", "stage"} -> Nat]
    BY <1>1, UsedType DEF WriteDrop
  <2> QED
    BY <1>1, <2>1 DEF WriteDrop, Goto, volatile, history, VolatileType, DurableType,
        HistoryType, Typed, Locations
<1>2. CASE WriteShift
  BY <1>2 DEF WriteShift, Goto, volatile, history, VolatileType, DurableType,
      HistoryType, Typed, Locations
<1>3. CASE WriteLand
  <2>1. best' \in Versions
    <3>1. CASE mem.status = "committed" /\ mem.tgt > best
      <4>1. mem \in States /\ mem.tgt \in Versions \cup {NoVersion} /\ best \in Versions
        BY <3>1, StateIs DEF VolatileType, HistoryType
      <4> QED BY <1>3, <3>1, <4>1, PackageAssumption DEF WriteLand, Versions, NoVersion
    <3>2. CASE ~(mem.status = "committed" /\ mem.tgt > best)
      BY <1>3, <3>2 DEF WriteLand, HistoryType
    <3> QED BY <3>1, <3>2
  <2> QED
    BY <1>3, <2>1 DEF WriteLand, Goto, volatile, VolatileType, DurableType,
        HistoryType, Typed, Locations
<1>4. CASE WriteTidy
  <2>1. used' \in [{"crash", "fault", "stage"} -> Nat]
    BY <1>4, UsedType DEF WriteTidy
  <2>2. op \in {"journal", "applied", "committed", "cleaned", "undone", "undoneCleaned"}
    BY <1>4 DEF WriteTidy, VolatileType, Control, WriteStands, Writing
  <2>3. /\ pc' \in Locations /\ idx' \in Nat /\ call' = call /\ applied' \in BOOLEAN
        /\ backend' \in {"none", "candidate", "main"} /\ staging' \in Stagings
    <3>1. AfterWrite /\ NoStaging \in Stagings
      BY <1>4 DEF WriteTidy, Stagings, NoStaging
    <3>2. CASE op = "journal"
      BY <3>1, <3>2 DEF AfterWrite, Goto, VolatileType, Locations
    <3>6. CASE op = "applied"
      BY <3>1, <3>6 DEF AfterWrite, Goto, VolatileType, Locations
    <3>7. CASE op = "committed"
      BY <3>1, <3>7 DEF AfterWrite, Goto, VolatileType, Locations
    <3>3. CASE op = "cleaned"
      BY <3>1, <3>3 DEF AfterWrite, Goto, VolatileType, Locations
    <3>4. CASE op = "undone"
      BY <3>1, <3>4 DEF AfterWrite, Goto, VolatileType, Locations
    <3>5. CASE op = "undoneCleaned"
      BY <3>1, <3>5 DEF AfterWrite, Goto, VolatileType, Locations
    <3> QED BY <2>2, <3>2, <3>3, <3>4, <3>5, <3>6, <3>7
  <2> QED
    BY <1>4, <2>1, <2>3 DEF WriteTidy, history, VolatileType, DurableType, HistoryType, Typed
<1>5. CASE WriteFails
  <2>1. used' \in [{"crash", "fault", "stage"} -> Nat]
    BY <1>5, UsedType DEF WriteFails
  <2>2. op \in {"journal", "applied", "committed", "cleaned", "undone", "undoneCleaned"}
    BY <1>5 DEF WriteFails, VolatileType, Control, WriteStands, Writing
  <2>3. state' \in States \cup {NoState} /\ previous' \in States \cup {NoState}
    BY <1>5 DEF WriteFails, DurableType
  <2>4. /\ pc' \in Locations /\ mem' \in States \cup {NoState} /\ idx' \in Nat
        /\ call' \in {"none", "retry", "failed", "health", "bootstrap", "apply", "final"}
        /\ backup' \in [Files -> Contents]
    <3>1. CASE op = "applied"
      <4>1. Open(mem) /\ WellFormed(mem) /\ mem \in States \cup {NoState}
        BY <3>1 DEF Control, WriteStands, Open, VolatileType
      <4>2. BeginRollback(mem, "failed") /\ UNCHANGED backup
        BY <1>5, <3>1 DEF WriteFails, AfterFailedWrite
      <4> QED BY <4>1, <4>2, RollbackBegins DEF VolatileType, DurableType, Locations
    <3>2. CASE op # "applied"
      BY <1>5, <2>2, <3>2 DEF WriteFails, AfterFailedWrite, CommitError, RollbackError, Goto,
          VolatileType, DurableType, Locations, NoBackup, Contents
    <3> QED BY <3>1, <3>2
  <2>5. torn' \in BOOLEAN
    BY <1>5 DEF WriteFails, HistoryType, Tears
  <2> QED
    BY <1>5, <2>1, <2>3, <2>4, <2>5 DEF WriteFails, VolatileType, DurableType, HistoryType, Typed
<1> QED BY <1>1, <1>2, <1>3, <1>4, <1>5

LEMMA TypeStep == ASSUME TypeOK, Control, Next PROVE TypeOK'
BY LauncherTypes, ApplyTypes, RollbackTypes, WriteTypes DEF Next, Launcher

-----------------------------------------------------------------------------
(* Control.                                                                 *)

LEMMA SameReadable == ASSUME UNCHANGED <<state, previous>> PROVE Readable' = Readable
BY DEF Readable

\* Places at which nothing is under way.
Resting == {"down", "start", "apply", "applyError", "prepare", "candidate", "commitFailed", "serve"}

\* The updater comes to rest, or the launcher goes on, and touches no file.
LEMMA Rests ==
    ASSUME Control, UNCHANGED <<state, previous, pending>>, op' = "none", pc' \in Resting,
           mem' = mem \/ mem' = NoState,
           pc' \in {"prepare", "candidate", "commitFailed", "serve"} => Readable.status # "applying",
           staging' = staging \/ staging' = NoStaging,
           staging' # NoStaging => backend' # "none",
           backend' # "none" => pc' \in {"candidate", "serve", "commitFailed"}
    PROVE  Control'
<1>1. Readable' = Readable
  BY SameReadable
<1>2. WellFormed(Readable') /\ WellFormed(mem')
  BY <1>1, NoStateIs DEF Control, WellFormed
<1>3. WriteStands'
  BY DEF WriteStands, Writing, Resting
<1>4. Place'
  BY <1>1 DEF Place, Resting
<1>5. Undisturbed'
  BY <1>1 DEF Control, Undisturbed
<1> QED BY <1>2, <1>3, <1>4, <1>5 DEF Control, WellFormed, Readable

\* A rollback begins on the state that was read.
LEMMA RollbackStarts ==
    ASSUME TypeOK, Control, NEW caller, Open(Readable), Open(mem'), SameJournal(mem', Readable),
           BeginRollback(mem', caller), UNCHANGED <<state, previous, pending>>, op' = "none",
           backend' = "none", staging' = NoStaging
    PROVE  Control'
<1>1. Readable' = Readable
  BY SameReadable
<1>2. WellFormed(Readable') /\ WellFormed(mem')
  BY <1>1 DEF Control, WellFormed, SameJournal, Open
<1>3. WriteStands'
  BY DEF WriteStands, Writing, BeginRollback
<1>4. Order(mem') = Order(Readable)
  BY DEF Order, SameJournal
<1>5. Len(Order(Readable)) \in Nat
  BY ReadableType, StateIs, OrderIs DEF Open, Control, WellFormed
<1>6. idx' <= Len(Order(mem'))
  BY <1>4, <1>5 DEF BeginRollback
<1>7. Place'
  BY <1>1, <1>6 DEF Place, BeginRollback
<1>8. Undisturbed'
  BY <1>1 DEF Control, Undisturbed
<1> QED BY <1>2, <1>3, <1>7, <1>8 DEF Control, WellFormed, Readable

\* While nothing is written only a running backend can be told from none.
LEMMA Idle ==
    ASSUME Control, pc \notin Writing
    PROVE  /\ op = "none"
           /\ pc \notin {"candidate", "serve", "commitFailed", "dropPending", "dropBackup"} =>
                backend = "none" /\ staging = NoStaging
BY DEF Control, WriteStands, Undisturbed

\* An update that is being applied has its record.
LEMMA HasPending == ASSUME TypeOK, Control, Readable.status = "applying" PROVE pending # NoPending
<1>1. Readable.cur \in Versions
  BY ReadableType, StateIs
<1> QED BY <1>1 DEF Control, Undisturbed, NoPending, NoVersion, Versions

LEMMA StopsControl ==
    ASSUME TypeOK, Control, StartLauncher \/ BackendExits \/ Crash
    PROVE  Control'
<1>1. /\ UNCHANGED <<state, previous, pending>> /\ pc' \in {"down", "start"} /\ ProcessGone
  BY DEF StartLauncher, BackendExits, Crash, Goto, durable
<1> QED BY <1>1, Rests DEF ProcessGone, Resting

LEMMA MovesControl ==
    ASSUME TypeOK, Control,
           \/ PrepareRunner \/ NothingPending \/ RejectPending \/ ApplyErrorStatus \/ Bootstrap
           \/ RestoreFails \/ CommitCleanupFails
    PROVE  Control'
<1>1. CASE PrepareRunner
  <2>1. op = "none" /\ backend = "none" /\ staging = NoStaging
    BY <1>1, Idle DEF PrepareRunner, Writing
  <2>2. pc' = "prepare" => Readable.status # "applying"
    BY <1>1, HasPending DEF PrepareRunner, Goto
  <2> QED BY <1>1, <2>1, <2>2, Rests DEF PrepareRunner, Goto, Resting, durable
<1>2. CASE NothingPending
  <2>1. op = "none" /\ backend = "none" /\ staging = NoStaging
    BY <1>2, Idle DEF NothingPending, Writing
  <2>2. Readable.status # "applying"
    BY <1>2 DEF NothingPending, Control, Place, Open
  <2> QED BY <1>2, <2>1, <2>2, Rests DEF NothingPending, Goto, Resting, durable, volatile
<1>3. CASE RejectPending
  <2>1. op = "none" /\ backend = "none" /\ staging = NoStaging
    BY <1>3, Idle DEF RejectPending, Writing
  <2> QED BY <1>3, <2>1, Rests DEF RejectPending, Goto, Resting, volatile
<1>4. CASE ApplyErrorStatus
  <2>1. op = "none" /\ backend = "none" /\ staging = NoStaging
    BY <1>4, Idle DEF ApplyErrorStatus, Writing
  <2>2. pc' = "prepare" => Readable.status # "applying"
    BY <1>4 DEF ApplyErrorStatus, Goto, SafeBaseline
  <2> QED BY <1>4, <2>1, <2>2, Rests DEF ApplyErrorStatus, Goto, Resting, durable, volatile
<1>5. CASE Bootstrap
  <2>1. op = "none" /\ backend = "none" /\ staging = NoStaging
    BY <1>5, Idle DEF Bootstrap, Writing
  <2>2. Readable.status # "applying"
    BY <1>5 DEF Bootstrap, Control, Place
  <2> QED BY <1>5, <2>1, <2>2, Rests DEF Bootstrap, Goto, Resting, durable
<1>6. CASE RestoreFails
  <2>1. op = "none" /\ backend = "none" /\ staging = NoStaging
    BY <1>6, Idle DEF RestoreFails, Writing
  <2> QED BY <1>6, <2>1, Rests DEF RestoreFails, RollbackError, Goto, Resting, durable, volatile
<1>7. CASE CommitCleanupFails
  <2>1. op = "none"
    BY <1>7, Idle DEF CommitCleanupFails, Writing
  <2>2. Readable.status # "applying"
    BY <1>7 DEF CommitCleanupFails, Control, Place, Open
  <2>3. staging # NoStaging => backend # "none"
    BY DEF Control, Undisturbed
  <2>4. backend # "none" => call = "final"
    BY <1>7, <2>1 DEF CommitCleanupFails, Control, Undisturbed
  <2> QED
    BY <1>7, <2>1, <2>2, <2>3, <2>4, Rests DEF CommitCleanupFails, CommitError, Goto, Resting,
        durable, volatile
<1> QED BY <1>1, <1>2, <1>3, <1>4, <1>5, <1>6, <1>7

\* The launcher's rollback starts one, or finds nothing to roll back.
LEMMA LauncherRollbackControl ==
    ASSUME TypeOK, Control, NEW caller, NEW loc \in {"start", "prepare"},
           LauncherRollback(caller, loc), UNCHANGED <<state, previous, pending, op>>, op = "none",
           backend' = "none", staging' = NoStaging
    PROVE  Control'
<1>1. CASE ~SafeBaseline /\ BeginRollback(Readable, caller)
  <2>1. mem' = Readable
    BY <1>1 DEF BeginRollback
  <2>2. Open(Readable)
    BY <1>1, ReadableType, StateIs DEF SafeBaseline, Open, Statuses
  <2> QED BY <1>1, <2>1, <2>2, RollbackStarts DEF SameJournal
<1>2. CASE SafeBaseline /\ Goto(loc) /\ UNCHANGED mem
  BY <1>2, Rests DEF SafeBaseline, Goto, Resting
<1> QED BY <1>1, <1>2 DEF LauncherRollback

LEMMA HealthControl ==
    ASSUME TypeOK, Control, BootstrapFails \/ HealthFails \/ CommitFailed
    PROVE  Control'
<1>1. CASE BootstrapFails
  <2>1. op = "none" /\ backend = "none" /\ staging = NoStaging
    BY <1>1, Idle DEF BootstrapFails, Writing
  <2>2. UNCHANGED <<state, previous, pending, op, backend, staging>>
    BY <1>1 DEF BootstrapFails, durable
  <2>3. CASE LauncherRollback("bootstrap", "start")
    BY <2>1, <2>2, <2>3, LauncherRollbackControl
  <2>4. CASE Goto("down") /\ UNCHANGED mem
    BY <2>1, <2>2, <2>4, Rests DEF Goto, Resting
  <2> QED BY <1>1, <2>3, <2>4 DEF BootstrapFails
<1>2. CASE HealthFails
  <2>1. op = "none"
    BY <1>2, Idle DEF HealthFails, Writing
  <2> QED BY <1>2, <2>1, LauncherRollbackControl DEF HealthFails, durable
<1>3. CASE CommitFailed
  <2>1. op = "none"
    BY <1>3, Idle DEF CommitFailed, Writing
  <2>2. UNCHANGED <<state, previous, pending, op>> /\ staging' = NoStaging
    BY <1>3 DEF CommitFailed, durable
  <2>3. CASE backend' = "none" /\ LauncherRollback("health", "prepare")
    BY <2>1, <2>2, <2>3, LauncherRollbackControl
  <2>4. CASE Readable.status = "committed" /\ Goto("serve") /\ backend' = "main" /\ UNCHANGED mem
    BY <2>1, <2>2, <2>4, Rests DEF Goto, Resting
  <2> QED BY <1>3, <2>3, <2>4 DEF CommitFailed
<1> QED BY <1>1, <1>2, <1>3

\* A write begins.
LEMMA WriteStarts ==
    ASSUME Control, UNCHANGED <<state, previous>>, pc' = "drop", op' # "none", mem' # NoState,
           WellFormed(mem'), WriteStands', Undisturbed'
    PROVE  Control'
<1>1. WellFormed(Readable')
  BY SameReadable DEF Control
<1>2. Place'
  BY DEF Place
<1> QED BY <1>1, <1>2 DEF Control, WellFormed, Readable

LEMMA ApplyControl ==
    ASSUME TypeOK, Control, ApplyReadState \/ FinishCommitted \/ BackupFiles
    PROVE  Control'
<1>0. op = "none" /\ backend = "none" /\ staging = NoStaging
  BY Idle DEF ApplyReadState, FinishCommitted, BackupFiles, Writing
<1>1. CASE ApplyReadState
  <2>1. UNCHANGED <<state, previous, pending, op, backend, staging>>
    BY <1>1 DEF ApplyReadState, durable
  <2>2. Readable' = Readable
    BY <2>1, SameReadable
  <2>3. CASE Readable.status = "applying" /\ BeginRollback(Readable, "retry")
    <3>1. mem' = Readable /\ Open(Readable)
      BY <2>3 DEF BeginRollback, Open
    <3> QED BY <1>0, <2>1, <2>3, <3>1, RollbackStarts DEF SameJournal
  <2>4. CASE pc' \in {"prepare", "applyError"} /\ UNCHANGED mem /\ Readable.status # "applying"
    BY <1>0, <2>1, <2>4, Rests DEF Resting
  <2>5. CASE /\ Readable.status \in {"none", "committed", "rolled_back"}
             /\ mem' = Readable /\ pc' = "select"
    <3>1. ~Open(Readable)
      BY <2>5 DEF Open
    <3>2. WriteStands'
      BY <1>0, <2>1, <2>5 DEF WriteStands, Writing
    <3>3. Place'
      BY <2>2, <2>5, <3>1 DEF Place
    <3>4. Undisturbed'
      BY <1>0, <2>1, <2>2 DEF Control, Undisturbed
    <3>5. WellFormed(Readable') /\ WellFormed(mem')
      BY <2>2, <2>5 DEF Control
    <3> QED BY <3>2, <3>3, <3>4, <3>5 DEF Control, WellFormed, Readable
  <2> QED BY <1>1, <2>3, <2>4, <2>5 DEF ApplyReadState, Goto
<1>2. CASE FinishCommitted
  <2>1. UNCHANGED <<state, previous, pending, mem, op, backend, staging>> /\ pc' = "dropPending"
    BY <1>2 DEF FinishCommitted, durable, Goto
  <2>2. Readable' = Readable
    BY <2>1, SameReadable
  <2>3. mem.status = "committed" /\ ~Open(Readable)
    BY <1>2 DEF FinishCommitted, CommittedAlready, Control, Place
  <2>4. WriteStands'
    BY <1>0, <2>1 DEF WriteStands, Writing
  <2>5. Place'
    BY <2>1, <2>2, <2>3 DEF Place
  <2>6. Undisturbed'
    BY <1>0, <2>1, <2>2 DEF Control, Undisturbed
  <2>7. WellFormed(Readable') /\ WellFormed(mem')
    BY <2>1, <2>2 DEF Control
  <2> QED BY <2>4, <2>5, <2>6, <2>7 DEF Control, WellFormed, Readable
<1>3. CASE BackupFiles
  <2>1. PICK saved : BeginWrite([status |-> "applying", cur |-> pending.cur,
                                 tgt |-> pending.tgt, saved |-> saved], "journal")
    BY <1>3 DEF BackupFiles
  <2>2. UNCHANGED <<state, previous, pending, backend, staging>>
    BY <1>3 DEF BackupFiles
  <2>3. pending \in Pendings /\ pending.cur < pending.tgt
    BY <1>3 DEF BackupFiles, Acceptable, TypeOK, Pendings, Versions
  <2>4. /\ mem'.status = "applying" /\ mem'.cur = pending.cur /\ mem'.tgt = pending.tgt
        /\ op' = "journal" /\ pc' = "drop" /\ mem' # NoState
    BY <2>1 DEF BeginWrite, NoState
  <2>5. WellFormed(mem')
    BY <2>3, <2>4 DEF WellFormed, Pendings
  <2>6. pending = [cur |-> pending.cur, tgt |-> pending.tgt]
    BY <2>3 DEF Pendings
  <2>7. Readable' = Readable /\ ~Open(Readable)
    BY <1>3, <2>2, SameReadable DEF BackupFiles, Control, Place
  <2>8. WriteStands'
    BY <2>2, <2>4, <2>6, <2>7 DEF WriteStands, Writing, Open
  <2>9. Undisturbed'
    BY <1>0, <2>2, <2>7 DEF Undisturbed, Open
  <2> QED BY <2>2, <2>4, <2>5, <2>8, <2>9, WriteStarts
<1> QED BY <1>1, <1>2, <1>3

LEMMA InstallControl ==
    ASSUME TypeOK, Control, InstallFile \/ SwapFile \/ InstallFails \/ InstallDone
    PROVE  Control'
<1>0. op = "none" /\ backend = "none" /\ staging = NoStaging
  BY Idle DEF InstallFile, SwapFile, InstallFails, InstallDone, Writing
<1>1. /\ state = mem /\ mem.status = "applying" /\ idx \in Nat /\ idx >= 1
      /\ mem \in States /\ mem # NoState /\ mem.tgt \in Versions /\ Readable = mem
  <2>1. state = mem /\ mem.status = "applying" /\ idx >= 1
    BY DEF InstallFile, SwapFile, InstallFails, InstallDone, Control, Place
  <2>2. mem \in States /\ mem # NoState
    BY <2>1, StateIs DEF TypeOK
  <2> QED BY <2>1, <2>2 DEF Readable, Control, WellFormed, Open, TypeOK
<1>2. CASE InstallFile \/ SwapFile
  <2>1. /\ UNCHANGED <<state, previous, pending, mem, op, backend, staging>>
        /\ idx' \in {idx, idx + 1} /\ pc' \in {"install", "swap"}
    BY <1>2 DEF InstallFile, SwapFile, Goto
  <2>2. Readable' = Readable
    BY <2>1, SameReadable
  <2>3. pc' = "swap" => idx' <= Len(Order(mem)) /\ Order(mem)[idx'] \in Payload[mem.tgt]
    BY <1>2 DEF InstallFile, SwapFile, Goto
  <2>4. Order(mem') = Order(mem)
    BY <2>1
  <2>5. Place'
    BY <1>1, <2>1, <2>3, <2>4 DEF Place
  <2>6. WriteStands'
    BY <1>0, <2>1 DEF WriteStands, Writing
  <2>7. Undisturbed'
    BY <1>0, <2>1, <2>2 DEF Control, Undisturbed
  <2>8. WellFormed(Readable') /\ WellFormed(mem')
    BY <2>1, <2>2 DEF Control
  <2> QED BY <2>5, <2>6, <2>7, <2>8 DEF Control, WellFormed, Readable
<1>3. CASE InstallFails
  <2>1. UNCHANGED <<state, previous, pending, op, backend, staging>> /\ BeginRollback(mem, "failed")
    BY <1>3 DEF InstallFails, durable
  <2>2. mem' = mem
    BY <2>1 DEF BeginRollback
  <2> QED BY <1>0, <1>1, <2>1, <2>2, RollbackStarts DEF SameJournal, Open
<1>4. CASE InstallDone
  <2>1. UNCHANGED <<state, previous, pending, backend, staging>>
    BY <1>4 DEF InstallDone, durable
  <2> DEFINE t == [mem EXCEPT !.status = "applied_pending_health"]
  <2>2. /\ t \in States /\ t.status = "applied_pending_health"
        /\ t.cur = mem.cur /\ t.tgt = mem.tgt /\ t.saved = mem.saved
    BY <1>1, Marked DEF Statuses
  <2>3. mem' = t /\ op' = "applied" /\ pc' = "drop"
    BY <1>4 DEF InstallDone, BeginWrite
  <2> HIDE DEF t
  <2>4. Readable' = Readable
    BY <2>1, SameReadable
  <2>5. WellFormed(mem') /\ mem' # NoState
    BY <1>1, <2>2, <2>3, NoStateIs DEF Control, WellFormed, Open
  <2>6. WriteStands'
    BY <1>1, <2>1, <2>2, <2>3, <2>4, <2>5 DEF WriteStands, Writing, SameJournal
  <2>7. Undisturbed'
    BY <1>0, <2>1, <2>4 DEF Control, Undisturbed
  <2> QED BY <2>1, <2>3, <2>5, <2>6, <2>7, WriteStarts
<1> QED BY <1>2, <1>3, <1>4

LEMMA RestoreControl ==
    ASSUME TypeOK, Control, RestoreFile \/ ReswapFile \/ RestoreDone
    PROVE  Control'
<1>0. op = "none" /\ backend = "none" /\ staging = NoStaging
  BY Idle DEF RestoreFile, ReswapFile, RestoreDone, Writing
<1>1. /\ Open(mem) /\ Open(Readable) /\ SameJournal(mem, Readable) /\ mem \in States
      /\ idx \in Nat /\ idx <= Len(Order(mem)) /\ Len(Order(mem)) \in Nat
  <2>1. Open(mem) /\ Open(Readable) /\ SameJournal(mem, Readable) /\ idx <= Len(Order(mem))
    BY DEF RestoreFile, ReswapFile, RestoreDone, Control, Place
  <2>2. mem \in States /\ mem.tgt \in Versions
    BY <2>1, StateIs DEF TypeOK, Open, Control, WellFormed
  <2> QED BY <2>1, <2>2, OrderIs DEF TypeOK
<1>2. CASE RestoreFile \/ ReswapFile
  <2>1. /\ UNCHANGED <<state, previous, pending, mem, op, backend, staging>>
        /\ idx' \in {idx, idx - 1} /\ pc' \in {"restore", "reswap"}
    BY <1>2 DEF RestoreFile, ReswapFile, Goto
  <2>2. Readable' = Readable /\ Order(mem') = Order(mem)
    BY <2>1, SameReadable
  <2>3. pc' = "reswap" => idx' >= 1 /\ Order(mem)[idx'] \in mem.saved
    BY <1>2 DEF RestoreFile, ReswapFile, Goto
  <2>4. Place'
    BY <1>1, <2>1, <2>2, <2>3 DEF Place
  <2>5. WriteStands'
    BY <1>0, <2>1 DEF WriteStands, Writing
  <2>6. Undisturbed'
    BY <1>0, <2>1, <2>2 DEF Control, Undisturbed
  <2>7. WellFormed(Readable') /\ WellFormed(mem')
    BY <2>1, <2>2 DEF Control
  <2> QED BY <2>4, <2>5, <2>6, <2>7 DEF Control, WellFormed, Readable
<1>3. CASE RestoreDone
  <2>1. UNCHANGED <<state, previous, pending, backend, staging>>
    BY <1>3 DEF RestoreDone, durable
  <2> DEFINE t == [mem EXCEPT !.status = "rolled_back", !.tgt = NoVersion]
  <2>2. t \in States /\ t.status = "rolled_back" /\ t.cur = mem.cur
    BY <1>1, Undone
  <2>3. mem' = t /\ op' = "undone" /\ pc' = "drop"
    BY <1>3 DEF RestoreDone, BeginWrite
  <2> HIDE DEF t
  <2>4. Readable' = Readable
    BY <2>1, SameReadable
  <2>5. WellFormed(mem') /\ mem' # NoState
    BY <2>2, <2>3, NoStateIs DEF WellFormed, Open
  <2>6. WriteStands'
    BY <1>1, <2>1, <2>2, <2>3, <2>4, <2>5 DEF WriteStands, Writing, SameJournal
  <2>7. Undisturbed'
    BY <1>0, <2>1, <2>4 DEF Control, Undisturbed
  <2> QED BY <2>1, <2>3, <2>5, <2>6, <2>7, WriteStarts
<1> QED BY <1>2, <1>3

\* The cleanup after a durable rollback or commit.
LEMMA CleanupControl ==
    ASSUME TypeOK, Control, UndoPending \/ UndoBackup \/ CommitPending \/ CommitBackup
    PROVE  Control'
<1>0. op = "none" /\ (staging # NoStaging => backend # "none")
      /\ (backend # "none" => call = "final" /\ pc \in {"dropPending", "dropBackup"})
  <2>1. op = "none"
    BY Idle DEF UndoPending, UndoBackup, CommitPending, CommitBackup, Writing
  <2> QED BY <2>1 DEF UndoPending, UndoBackup, CommitPending, CommitBackup, Control, Undisturbed
<1>1. /\ UNCHANGED <<state, previous, backend, staging, call>> /\ ~Open(Readable)
      /\ mem.status \in {"committed", "rolled_back"}
      /\ UndoPending \/ UndoBackup => mem.status = "rolled_back"
      /\ CommitPending \/ CommitBackup => mem.status = "committed"
  BY DEF UndoPending, UndoBackup, CommitPending, CommitBackup, Control, Place, volatile
<1>2. Readable' = Readable /\ Readable.status # "applying"
  BY <1>1, SameReadable DEF Open
<1>3. CASE UndoPending \/ CommitPending
  <2>1. mem' = mem /\ op' = op /\ pc' \in {"undoBackup", "dropBackup"}
        /\ (UndoPending => pc' = "undoBackup") /\ (CommitPending => pc' = "dropBackup")
        /\ (UndoPending => backend = "none")
    BY <1>0, <1>3 DEF UndoPending, CommitPending, Goto, volatile
  <2>2. Place'
    BY <1>1, <1>2, <1>3, <2>1 DEF Place
  <2>3. WriteStands'
    BY <1>0, <2>1 DEF WriteStands, Writing
  <2>4. Undisturbed'
    BY <1>0, <1>1, <1>2, <1>3, <2>1 DEF Undisturbed
  <2>5. WellFormed(Readable') /\ WellFormed(mem')
    BY <1>2, <2>1 DEF Control
  <2> QED BY <2>2, <2>3, <2>4, <2>5 DEF Control, WellFormed, Readable
<1>4. CASE UndoBackup \/ CommitBackup
  <2>1. mem \in States
    BY <1>1, StateIs DEF TypeOK
  <2> DEFINE t == [mem EXCEPT !.saved = {}]
  <2>2. t \in States /\ t.status = mem.status
    BY <2>1, Cleaned
  <2>3. /\ mem' = t /\ pc' = "drop"
        /\ op' = IF UndoBackup THEN "undoneCleaned" ELSE "cleaned"
        /\ (UndoBackup => backend = "none")
    BY <1>0, <1>4 DEF UndoBackup, CommitBackup, BeginWrite
  <2> HIDE DEF t
  <2>4. WellFormed(mem') /\ mem' # NoState
    BY <1>1, <2>2, <2>3, NoStateIs DEF WellFormed, Open
  <2>5. WriteStands'
    BY <1>1, <1>2, <1>4, <2>2, <2>3, <2>4 DEF WriteStands, Writing
  <2>6. Undisturbed'
    BY <1>0, <1>1, <1>2, <1>4, <2>3 DEF Undisturbed
  <2> QED BY <1>1, <2>3, <2>4, <2>5, <2>6, WriteStarts
<1> QED BY <1>3, <1>4

\* A state that has just been written is the one that is read.
LEMMA Landed == ASSUME Control, pc = "tidy" PROVE Readable = mem /\ state = mem /\ mem # NoState
BY DEF Control, WriteStands, Writing, Readable

LEMMA RequestControl ==
    ASSUME TypeOK, Control, StageUpdate \/ StageLand \/ HealthPasses
    PROVE  Control'
<1>1. CASE StageUpdate \/ StageLand
  <2>1. UNCHANGED <<state, previous, pc, mem, idx, op, call, backend>>
    BY <1>1 DEF StageUpdate, StageLand
  <2>2. Readable' = Readable /\ Order(mem') = Order(mem)
    BY <2>1, SameReadable
  <2>3. backend # "none"
    BY <1>1 DEF StageUpdate, StageLand, Control, Undisturbed
  <2>4. \/ pc \in {"candidate", "serve", "commitFailed"} /\ op = "none"
        \/ op \in {"committed", "cleaned"}
        \/ pc \in {"dropPending", "dropBackup"}
    BY <2>3 DEF Control, Undisturbed, WriteStands, Writing
  <2>5. Readable.status # "applying"
    <3>1. pc \in Writing => (pc = "tidy" => Readable = mem)
      BY Landed
    <3> QED BY <2>4, <3>1, NoStateIs DEF Control, Place, WriteStands, Open, Writing
  <2>6. Place'
    BY <2>1, <2>2 DEF Control, Place
  <2>7. op # "journal"
    BY <2>4 DEF Control, WriteStands, Writing
  <2>8. WriteStands'
    BY <2>1, <2>2, <2>7 DEF Control, WriteStands
  <2>9. Undisturbed'
    BY <2>1, <2>2, <2>3, <2>5 DEF Control, Undisturbed
  <2>10. WellFormed(Readable') /\ WellFormed(mem')
    BY <2>1, <2>2 DEF Control
  <2> QED BY <2>6, <2>8, <2>9, <2>10 DEF Control, WellFormed, Readable
<1>2. CASE HealthPasses
  <2>1. UNCHANGED <<state, previous, pending, backend, staging>> /\ call' = "final"
    BY <1>2 DEF HealthPasses, durable
  <2>2. Readable.status = "applied_pending_health" /\ Readable \in States /\ Readable.tgt \in Versions
    BY <1>2, ReadableType, StateIs DEF HealthPasses, Control, WellFormed, Open
  <2> DEFINE t == [Readable EXCEPT !.status = "committed", !.cur = Readable.tgt]
  <2>3. t \in States /\ t.status = "committed" /\ t.tgt = Readable.tgt
    BY <2>2, Final
  <2>4. mem' = t /\ op' = "committed" /\ pc' = "drop"
    BY <1>2 DEF HealthPasses, BeginWrite
  <2> HIDE DEF t
  <2>5. Readable' = Readable
    BY <2>1, SameReadable
  <2>6. WellFormed(mem') /\ mem' # NoState
    BY <2>3, <2>4, NoStateIs DEF WellFormed, Open
  <2>7. WriteStands'
    BY <2>1, <2>2, <2>3, <2>4, <2>5, <2>6 DEF WriteStands, Writing
  <2>8. Undisturbed'
    BY <2>1, <2>2, <2>4, <2>5 DEF Control, Undisturbed
  <2> QED BY <2>1, <2>4, <2>6, <2>7, <2>8, WriteStarts
<1> QED BY <1>1, <1>2

LEMMA WriteControl ==
    ASSUME TypeOK, Control, WriteDrop \/ WriteShift \/ WriteLand
    PROVE  Control'
<1>0. /\ op # "none" /\ mem # NoState /\ pc # "tidy"
      /\ UNCHANGED <<mem, idx, op, call, backend, staging, pending>> /\ Order(mem') = Order(mem)
  BY DEF WriteDrop, WriteShift, WriteLand, Control, WriteStands, Writing, volatile
<1>1. CASE WriteDrop
  <2>1. UNCHANGED state /\ pc = "drop" /\ pc' = "shift" /\ previous' \in {previous, NoState}
    BY <1>1 DEF WriteDrop, Goto
  <2>2. Readable' = Readable \/ (Readable' = NoState /\ state = NoState)
    BY <2>1 DEF Readable
  <2>3. WellFormed(Readable') /\ WellFormed(mem')
    BY <1>0, <2>2, NoStateIs DEF Control, WellFormed
  <2>4. WriteStands'
    BY <1>0, <2>1, <2>2, NoStateIs DEF Control, WriteStands, Writing
  <2>5. Place'
    BY <2>1 DEF Place
  <2>6. Undisturbed'
    BY <1>0, <2>1, <2>2, NoStateIs DEF Control, Undisturbed
  <2> QED BY <2>3, <2>4, <2>5, <2>6 DEF Control, WellFormed, Readable
<1>2. CASE WriteShift
  <2>1. pc = "shift" /\ pc' = "land" /\ state' = NoState
    BY <1>2 DEF WriteShift, Goto
  <2>2. Readable' = Readable
    BY <1>2 DEF WriteShift, Readable
  <2>3. WellFormed(Readable') /\ WellFormed(mem')
    BY <1>0, <2>2 DEF Control
  <2>4. WriteStands'
    BY <1>0, <2>1, <2>2 DEF Control, WriteStands, Writing
  <2>5. Place'
    BY <2>1 DEF Place
  <2>6. Undisturbed'
    BY <1>0, <2>1, <2>2 DEF Control, Undisturbed
  <2> QED BY <2>3, <2>4, <2>5, <2>6 DEF Control, WellFormed, Readable
<1>3. CASE WriteLand
  <2>1. pc = "land" /\ pc' = "tidy" /\ state' = mem
    BY <1>3 DEF WriteLand, Goto
  <2>2. Readable' = mem
    BY <1>0, <2>1 DEF Readable
  <2>3. WellFormed(Readable') /\ WellFormed(mem')
    BY <1>0, <2>2 DEF Control
  <2>4. WriteStands'
    BY <1>0, <2>1, <2>2 DEF Control, WriteStands, Writing, Open
  <2>5. Place'
    BY <2>1 DEF Place
  <2>6. mem.status = "applying" => pending = [cur |-> mem.cur, tgt |-> mem.tgt]
    BY <1>0 DEF TypeOK, Control, WriteStands
  <2>7. Undisturbed'
    BY <1>0, <2>1, <2>2, <2>6 DEF Control, Undisturbed
  <2> QED BY <2>3, <2>4, <2>5, <2>7 DEF Control, WellFormed, Readable
<1> QED BY <1>1, <1>2, <1>3

\* Whether a backend runs while a state is written.
LEMMA WritingBackend ==
    ASSUME Control, op # "none"
    PROVE  /\ staging # NoStaging => backend # "none"
           /\ backend # "none" => call = "final" /\ op \in {"committed", "cleaned"}
<1>1. pc \in Writing
  BY DEF Control, WriteStands
<1> QED BY <1>1 DEF Control, Undisturbed, Writing

LEMMA TidyControl ==
    ASSUME TypeOK, Control, WriteTidy
    PROVE  Control'
<1>1. /\ pc = "tidy" /\ op' = "none" /\ AfterWrite /\ UNCHANGED <<state, pending>>
      /\ previous' \in {previous, NoState}
      /\ mem' = IF op = "undoneCleaned" THEN NoState ELSE mem
  BY DEF WriteTidy
<1>2. Readable = mem /\ state = mem /\ mem # NoState /\ Readable' = mem
  BY <1>1, Landed DEF Readable
<1>3. op \in {"journal", "applied", "committed", "cleaned", "undone", "undoneCleaned"}
  BY <1>1 DEF TypeOK, Control, WriteStands, Writing
<1>4. WellFormed(Readable') /\ WellFormed(mem')
  BY <1>1, <1>2, NoStateIs DEF Control, WellFormed
<1>5. /\ staging # NoStaging => backend # "none"
      /\ backend # "none" => call = "final" /\ op \in {"committed", "cleaned"}
  BY <1>3, WritingBackend
<1>6. Readable.status = "applying" => pending = [cur |-> Readable.cur, tgt |-> Readable.tgt]
  BY DEF Control, Undisturbed
<1>7. CASE op = "journal"
  <2>1. pc' = "install" /\ idx' = 1 /\ UNCHANGED <<backend, staging>> /\ mem' = mem
        /\ mem.status = "applying"
    BY <1>1, <1>7 DEF AfterWrite, Goto, Control, WriteStands
  <2> QED
    BY <1>1, <1>2, <1>4, <1>5, <1>6, <1>7, <2>1 DEF Control, WriteStands, Writing, Place,
        Undisturbed, WellFormed, Readable
<1>8. CASE op = "applied"
  <2>1. pc' = "prepare" /\ UNCHANGED <<backend, staging>> /\ mem' = mem
        /\ mem.status = "applied_pending_health"
    BY <1>1, <1>8 DEF AfterWrite, Goto, Control, WriteStands
  <2> QED
    BY <1>1, <1>2, <1>4, <1>5, <1>6, <1>8, <2>1 DEF Control, WriteStands, Writing, Place,
        Undisturbed, WellFormed, Readable
<1>9. CASE op = "committed"
  <2>1. pc' = "dropPending" /\ UNCHANGED <<backend, staging, call>> /\ mem' = mem
        /\ mem.status = "committed"
    BY <1>1, <1>9 DEF AfterWrite, Goto, Control, WriteStands
  <2> QED
    BY <1>1, <1>2, <1>4, <1>5, <1>6, <1>9, <2>1 DEF Control, WriteStands, Writing, Place,
        Undisturbed, WellFormed, Readable, Open
<1>10. CASE op = "cleaned"
  <2>1. /\ mem' = mem /\ mem.status = "committed"
        /\ \/ pc' = "serve" /\ backend' = "main" /\ staging' = NoStaging
           \/ call # "final" /\ pc' = "prepare" /\ UNCHANGED <<backend, staging>>
    BY <1>1, <1>10 DEF AfterWrite, Goto, Control, WriteStands
  <2> QED
    BY <1>1, <1>2, <1>4, <1>5, <1>6, <1>10, <2>1 DEF Control, WriteStands, Writing, Place,
        Undisturbed, WellFormed, Readable
<1>11. CASE op = "undone"
  <2>1. pc' = "undoPending" /\ UNCHANGED <<backend, staging>> /\ mem' = mem
        /\ mem.status = "rolled_back"
    BY <1>1, <1>11 DEF AfterWrite, Goto, Control, WriteStands
  <2> QED
    BY <1>1, <1>2, <1>4, <1>5, <1>6, <1>11, <2>1 DEF Control, WriteStands, Writing, Place,
        Undisturbed, WellFormed, Readable, Open
<1>12. CASE op = "undoneCleaned"
  <2>1. pc' \in {"select", "applyError", "prepare", "start"} /\ UNCHANGED <<backend, staging>>
        /\ mem' = NoState /\ mem.status = "rolled_back"
    BY <1>1, <1>12 DEF AfterWrite, Goto, Control, WriteStands
  <2> QED
    BY <1>1, <1>2, <1>4, <1>5, <1>6, <1>12, <2>1, NoStateIs DEF Control, WriteStands, Writing,
        Place, Undisturbed, WellFormed, Readable, Open
<1> QED BY <1>3, <1>7, <1>8, <1>9, <1>10, <1>11, <1>12

LEMMA FailControl ==
    ASSUME TypeOK, Control, WriteFails
    PROVE  Control'
<1>1. /\ pc \in {"drop", "shift", "land"} /\ op' = "none" /\ AfterFailedWrite
      /\ UNCHANGED <<pending, backend, staging>>
  BY DEF WriteFails
<1>2. Readable' = Readable
  <2>1. CASE UNCHANGED <<state, previous>>
    BY <2>1, SameReadable
  <2>2. CASE pc = "land" /\ state' = previous /\ previous' = NoState
    BY <2>2 DEF Control, WriteStands, Readable
  <2> QED BY <2>1, <2>2 DEF WriteFails
<1>3. op \in {"journal", "applied", "committed", "cleaned", "undone", "undoneCleaned"}
  BY <1>1 DEF TypeOK, Control, WriteStands, Writing
<1>4. /\ staging # NoStaging => backend # "none"
      /\ backend # "none" => call = "final" /\ op \in {"committed", "cleaned"}
  BY <1>3, WritingBackend
<1>5. CASE op = "applied"
  <2>1. /\ BeginRollback(mem, "failed") /\ mem' = mem /\ pc' = "restore" /\ idx' = Len(Order(mem))
        /\ Open(mem) /\ Open(Readable) /\ SameJournal(mem, Readable)
    BY <1>1, <1>5 DEF AfterFailedWrite, BeginRollback, Control, WriteStands, Open
  <2>2. Order(mem') = Order(mem) /\ Len(Order(mem)) \in Nat
    BY <2>1, StateIs, OrderIs DEF TypeOK, Open, Control, WellFormed
  <2>3. Place'
    BY <1>2, <2>1, <2>2 DEF Place, Open, SameJournal
  <2>4. WriteStands'
    BY <1>1, <2>1 DEF WriteStands, Writing
  <2>5. Undisturbed'
    BY <1>1, <1>2, <1>4, <1>5 DEF Control, Undisturbed
  <2>6. WellFormed(Readable') /\ WellFormed(mem')
    BY <1>2, <2>1 DEF Control
  <2> QED BY <2>3, <2>4, <2>5, <2>6 DEF Control, WellFormed, Readable
<1>6. CASE op # "applied"
  <2>1. /\ mem' = mem
        /\ \/ op = "journal" /\ pc' = "applyError"
           \/ op \in {"committed", "cleaned"}
              /\ pc' = IF call = "final" THEN "commitFailed" ELSE "applyError"
           \/ op \in {"undone", "undoneCleaned"} /\ pc' \in {"applyError", "down"}
    BY <1>1, <1>3, <1>6 DEF AfterFailedWrite, CommitError, RollbackError, Goto
  <2>2. pc' = "commitFailed" => Readable.status # "applying"
    BY <1>1, <2>1, NoStateIs DEF Control, WriteStands, Open
  <2>3. Place'
    BY <1>2, <2>1, <2>2 DEF Place
  <2>4. WriteStands'
    BY <1>1, <2>1 DEF WriteStands, Writing
  <2>5. Undisturbed'
    BY <1>1, <1>2, <1>4, <2>1 DEF Control, Undisturbed
  <2>6. WellFormed(Readable') /\ WellFormed(mem')
    BY <1>2, <2>1 DEF Control
  <2> QED BY <2>3, <2>4, <2>5, <2>6 DEF Control, WellFormed, Readable
<1> QED BY <1>5, <1>6

LEMMA ControlStep == ASSUME TypeOK, Control, Next PROVE Control'
BY StopsControl, MovesControl, HealthControl, ApplyControl, InstallControl, RestoreControl,
   CleanupControl, RequestControl, WriteControl, TidyControl, FailControl DEF Next, Launcher

-----------------------------------------------------------------------------
(* The files.                                                               *)

\* Nothing durable changes.
LEMMA KeptFrame ==
    ASSUME Kept, UNCHANGED <<files, backup, best>>, Readable' = Readable,
           Readable.status = "applied_pending_health" /\ ~Rolling' => ~Rolling
    PROVE  Kept'
<1>1. Stands => Stands'
  BY DEF Stands
<1>2. Journaled(Readable) => Journaled(Readable)'
  BY DEF Journaled
<1> QED BY <1>1, <1>2 DEF Kept

\* Only a backup that no open update needs is lost.
LEMMA KeptSettled ==
    ASSUME Kept, UNCHANGED <<files, best>>, Readable' = Readable, ~Open(Readable)
    PROVE  Kept'
BY DEF Kept, Stands, Open

\* Nothing is under way.
LEMMA RestsPackage ==
    ASSUME Package, UNCHANGED <<files, backup, best, state, previous>>, op' = "none",
           pc' \in Resting \cup {"select"},
           ~(Rolling /\ Readable.status = "applied_pending_health")
    PROVE  Package'
<1>1. Kept'
  BY SameReadable, KeptFrame DEF Package
<1>2. UnderWay'
  BY DEF UnderWay, Resting
<1> QED BY <1>1, <1>2 DEF Package

\* A rollback that begins has restored no file yet.
LEMMA RollbackStartsPackage ==
    ASSUME Package, UNCHANGED <<files, backup, best>>, Readable' = Readable, op' = "none",
           NEW s \in States, s.tgt \in Versions, NEW caller, BeginRollback(s, caller)
    PROVE  Package'
<1>1. mem' = s /\ pc' = "restore" /\ idx' = Len(Order(s)) /\ Len(Order(s)) \in Nat
  BY OrderIs DEF BeginRollback
<1>2. Kept'
  BY <1>1, KeptFrame DEF Package, Rolling
<1>3. UnderWay'
  BY <1>1 DEF UnderWay, Places
<1> QED BY <1>2, <1>3 DEF Package

LEMMA StopsPackage ==
    ASSUME TypeOK, Control, Package, StartLauncher \/ BackendExits \/ Crash, ~torn'
    PROVE  Package'
<1>1. UNCHANGED <<files, backup, best, state, previous>> /\ op' = "none" /\ pc' \in {"down", "start"}
  BY DEF StartLauncher, BackendExits, Crash, Goto, durable, history, ProcessGone
<1>2. ~(Rolling /\ Readable.status = "applied_pending_health")
  <2>1. CASE StartLauncher \/ BackendExits
    BY <2>1, Idle DEF StartLauncher, BackendExits, Rolling, Writing
  <2>2. CASE Crash
    BY <2>2 DEF Crash, Tears, Rolling
  <2> QED BY <2>1, <2>2
<1> QED BY <1>1, <1>2, RestsPackage DEF Resting

LEMMA MovesPackage ==
    ASSUME TypeOK, Control, Package, ~torn',
           \/ PrepareRunner \/ NothingPending \/ RejectPending \/ ApplyErrorStatus \/ Bootstrap
           \/ RestoreFails \/ CommitCleanupFails
    PROVE  Package'
<1>0. op = "none"
  BY Idle DEF PrepareRunner, NothingPending, RejectPending, ApplyErrorStatus, Bootstrap,
      RestoreFails, CommitCleanupFails, Writing
<1>1. CASE PrepareRunner \/ NothingPending \/ ApplyErrorStatus \/ Bootstrap \/ CommitCleanupFails
  <2>1. UNCHANGED <<files, backup, best, state, previous, op>> /\ pc' \in Resting /\ ~Rolling
    BY <1>0, <1>1 DEF PrepareRunner, NothingPending, ApplyErrorStatus, Bootstrap,
        CommitCleanupFails, CommitError, Goto, durable, volatile, history, Rolling, Resting
  <2> QED BY <1>0, <2>1, RestsPackage
<1>2. CASE RestoreFails
  <2>1. UNCHANGED <<files, backup, best, state, previous, op>> /\ pc' \in Resting
    BY <1>2 DEF RestoreFails, RollbackError, Goto, durable, volatile, Resting
  <2>2. ~(Rolling /\ Readable.status = "applied_pending_health")
    BY <1>0, <1>2 DEF RestoreFails, Tears, Rolling
  <2> QED BY <1>0, <2>1, <2>2, RestsPackage
<1>3. CASE RejectPending
  <2>1. UNCHANGED <<files, best, state, previous, op>> /\ pc' = "applyError"
    BY <1>3 DEF RejectPending, Goto, volatile, history
  <2>2. ~Open(Readable)
    BY <1>3 DEF RejectPending, Control, Place
  <2>3. Kept'
    BY <2>1, <2>2, SameReadable, KeptSettled DEF Package
  <2>4. UnderWay'
    BY <1>0, <2>1 DEF UnderWay
  <2> QED BY <2>3, <2>4 DEF Package
<1> QED BY <1>1, <1>2, <1>3

LEMMA LauncherRollbackPackage ==
    ASSUME TypeOK, Control, Package, NEW caller, NEW loc \in {"start", "prepare"},
           LauncherRollback(caller, loc), UNCHANGED <<files, backup, best, state, previous, op>>,
           op = "none", ~Rolling
    PROVE  Package'
<1>1. CASE ~SafeBaseline /\ BeginRollback(Readable, caller)
  <2>1. Readable \in States /\ Readable.tgt \in Versions
    BY <1>1, ReadableType, StateIs DEF SafeBaseline, Open, Statuses, Control, WellFormed
  <2> QED BY <1>1, <2>1, SameReadable, RollbackStartsPackage
<1>2. CASE SafeBaseline /\ Goto(loc)
  BY <1>2, RestsPackage DEF Goto, Resting
<1> QED BY <1>1, <1>2 DEF LauncherRollback

LEMMA HealthPackage ==
    ASSUME TypeOK, Control, Package, BootstrapFails \/ HealthFails \/ CommitFailed
    PROVE  Package'
<1>1. op = "none" /\ ~Rolling
  BY Idle DEF BootstrapFails, HealthFails, CommitFailed, Writing, Rolling
<1>2. UNCHANGED <<files, backup, best, state, previous, op>>
  BY DEF BootstrapFails, HealthFails, CommitFailed, durable, history
<1>3. CASE \E caller, loc : loc \in {"start", "prepare"} /\ LauncherRollback(caller, loc)
  BY <1>1, <1>2, <1>3, LauncherRollbackPackage
<1>4. CASE pc' \in {"down", "serve"}
  BY <1>1, <1>2, <1>4, RestsPackage DEF Resting
<1> QED BY <1>3, <1>4 DEF BootstrapFails, HealthFails, CommitFailed, Goto

\* A package whose files of both versions are in place, and that has no other.
LEMMA AllInPlace ==
    ASSUME TypeOK, NEW s \in States, s.tgt \in Versions, NEW v \in {s.cur, s.tgt},
           \A f \in Files \ (Payload[s.cur] \cup Payload[s.tgt]) : files[f] = Absent,
           \A j \in Places(s) : files[Order(s)[j]] = PackageOf(v)[Order(s)[j]]
    PROVE  files = PackageOf(v)
<1>1. v \in Versions
  BY DEF States
<1>2. ASSUME NEW f \in Files
      PROVE  files[f] = PackageOf(v)[f]
  <2>1. CASE f \in Payload[s.cur] \cup Payload[s.tgt]
    <3>1. PICK j \in Places(s) : Order(s)[j] = f
      BY <2>1, OrderIs
    <3> QED BY <3>1
  <2>2. CASE f \notin Payload[s.cur] \cup Payload[s.tgt]
    BY <1>1, <2>2, PackageIs
  <2> QED BY <2>1, <2>2
<1>3. files \in [Files -> Contents] /\ PackageOf(v) \in [Files -> Contents]
  BY <1>1, PackageIs DEF TypeOK
<1> QED BY <1>2, <1>3

LEMMA ApplyPackage ==
    ASSUME TypeOK, Control, Package, ApplyReadState \/ FinishCommitted \/ BackupFiles
    PROVE  Package'
<1>0. op = "none" /\ ~Rolling
  BY Idle DEF ApplyReadState, FinishCommitted, BackupFiles, Writing, Rolling
<1>1. CASE ApplyReadState
  <2>1. UNCHANGED <<files, backup, best, state, previous, op>>
    BY <1>1 DEF ApplyReadState, durable, history
  <2>2. CASE Readable.status = "applying" /\ BeginRollback(Readable, "retry")
    <3>1. Readable \in States /\ Readable.tgt \in Versions
      BY <2>2, ReadableType, StateIs DEF Open, Control, WellFormed
    <3> QED BY <1>0, <2>1, <2>2, <3>1, SameReadable, RollbackStartsPackage
  <2>3. CASE pc' \in {"prepare", "applyError", "select"}
    BY <1>0, <2>1, <2>3, RestsPackage DEF Resting
  <2> QED BY <1>1, <2>2, <2>3 DEF ApplyReadState, Goto
<1>2. CASE FinishCommitted
  <2>1. UNCHANGED <<files, backup, best, state, previous, op, mem>> /\ pc' = "dropPending"
    BY <1>2 DEF FinishCommitted, durable, history, Goto
  <2>2. Kept'
    BY <1>0, <2>1, SameReadable, KeptFrame DEF Package
  <2>3. mem = Readable /\ Readable.status = "committed"
    BY <1>2 DEF FinishCommitted, CommittedAlready, Control, Place
  <2>4. mem.tgt <= best
    BY <2>3 DEF Package, Kept
  <2>5. UnderWay'
    BY <1>0, <2>1, <2>4 DEF UnderWay
  <2> QED BY <2>2, <2>5 DEF Package
<1>3. CASE BackupFiles
  <2>1. UNCHANGED <<files, best, state, previous>> /\ ~Open(Readable)
    BY <1>3 DEF BackupFiles, history, Control, Place
  <2>2. Kept'
    BY <2>1, SameReadable, KeptSettled DEF Package
  <2>3. PICK v \in Versions : v >= best /\ files = PackageOf(v)
    BY <2>1 DEF Package, Kept, Stands
  <2>4. pending \in Pendings /\ pending.cur = v
    BY <1>3, <2>3, PackageIs DEF BackupFiles, Acceptable, TypeOK
  <2> DEFINE saved == {f \in Payload[pending.cur] \cup Payload[pending.tgt] : files[f] # Absent}
  <2>5. saved = Payload[v]
    <3>1. Payload[v] \subseteq Files /\ Payload[pending.tgt] \subseteq Files
      BY <2>4, PackageAssumption DEF Pendings
    <3>2. \A f \in Files : files[f] = IF f \in Payload[v] THEN v ELSE Absent
      BY <2>3, PackageIs
    <3>3. v # Absent
      BY DEF Versions, Absent
    <3> QED BY <2>4, <3>1, <3>2, <3>3
  <2>6. /\ mem'.saved = saved /\ mem'.cur = v /\ mem'.tgt = pending.tgt /\ op' = "journal" /\ pc' = "drop"
        /\ backup' = [f \in Files |-> IF f \in saved THEN files[f] ELSE Absent]
    BY <1>3, <2>4 DEF BackupFiles, BeginWrite
  <2> HIDE DEF saved
  <2>7. backup' = PackageOf(v)
    <3>1. \A f \in Files : files[f] = IF f \in Payload[v] THEN v ELSE Absent
      BY <2>3, PackageIs
    <3> QED BY <2>5, <2>6, <3>1 DEF PackageOf
  <2>8. \A f \in Files \ (Payload[v] \cup Payload[pending.tgt]) : files[f] = Absent
    BY <2>3, PackageIs
  <2>9. Journaled(mem)'
    BY <2>1, <2>3, <2>5, <2>6, <2>7, <2>8 DEF Journaled
  <2>10. UnderWay'
    BY <2>1, <2>3, <2>6, <2>9 DEF UnderWay
  <2> QED BY <2>2, <2>10 DEF Package
<1> QED BY <1>1, <1>2, <1>3

LEMMA InstallPackage ==
    ASSUME TypeOK, Control, Package, InstallFile \/ SwapFile \/ InstallFails \/ InstallDone
    PROVE  Package'
<1>0. op = "none" /\ ~Rolling
  BY Idle DEF InstallFile, SwapFile, InstallFails, InstallDone, Writing, Rolling
<1>1. /\ mem \in States /\ mem.tgt \in Versions /\ mem.cur \in Versions
      /\ Readable = mem /\ mem.status = "applying" /\ idx \in Nat /\ idx >= 1
  <2>1. state = mem /\ mem.status = "applying" /\ idx >= 1
    BY DEF InstallFile, SwapFile, InstallFails, InstallDone, Control, Place
  <2>2. mem \in States /\ mem # NoState /\ mem.cur \in Versions
    BY <2>1, StateIs DEF TypeOK
  <2> QED BY <2>1, <2>2 DEF Readable, Control, WellFormed, Open, TypeOK
<1>2. /\ Journaled(mem)
      /\ \A j \in Places(mem) : j < idx => files[Order(mem)[j]] = PackageOf(mem.tgt)[Order(mem)[j]]
  BY <1>1 DEF Package, Kept, UnderWay, Open, InstallFile, SwapFile, InstallFails, InstallDone
<1>3. CASE InstallFile \/ SwapFile
  <2> DEFINE f == Order(mem)[idx]
  <2>1. /\ UNCHANGED <<backup, best, state, previous, mem, op>>
        /\ pc' \in {"install", "swap"} /\ idx' \in {idx, idx + 1} /\ idx <= Len(Order(mem))
    BY <1>3 DEF InstallFile, SwapFile, Goto, history, Control, Place
  <2>2. idx \in Places(mem) /\ f \in Files /\ f \in Payload[mem.cur] \cup Payload[mem.tgt]
    BY <1>1, <2>1, OrderIs DEF Places
  <2>3. \A g \in Files : g # f => files'[g] = files[g]
    BY <1>3 DEF InstallFile, SwapFile, TypeOK
  <2>4. idx' = idx + 1 => files'[f] = PackageOf(mem.tgt)[f]
    <3>1. CASE InstallFile
      BY <1>1, <2>2, <3>1, PackageIs DEF InstallFile, TypeOK
    <3>2. CASE SwapFile
      BY <1>1, <2>2, <3>2, PackageIs DEF SwapFile, TypeOK, Control, Place
    <3> QED BY <1>3, <3>1, <3>2
  <2>5. \A j \in Places(mem) : j < idx' => files'[Order(mem)[j]] = PackageOf(mem.tgt)[Order(mem)[j]]
    <3> SUFFICES ASSUME NEW j \in Places(mem), j < idx'
                 PROVE  files'[Order(mem)[j]] = PackageOf(mem.tgt)[Order(mem)[j]]
      OBVIOUS
    <3>1. CASE j = idx
      BY <1>1, <2>1, <2>4, <3>1
    <3>2. CASE j # idx
      <4>1. j < idx /\ Order(mem)[j] \in Files /\ Order(mem)[j] # f
        BY <1>1, <2>1, <2>2, <3>2, OrderIs DEF Places
      <4> QED BY <1>2, <2>3, <4>1
    <3> QED BY <3>1, <3>2
  <2>6. \A g \in Files \ (Payload[mem.cur] \cup Payload[mem.tgt]) : files'[g] = Absent
    BY <1>2, <2>2, <2>3 DEF Journaled
  <2>7. Readable' = Readable /\ Order(mem') = Order(mem) /\ Places(mem') = Places(mem)
    BY <2>1, SameReadable
  <2> HIDE DEF f
  <2>8. Journaled(Readable)'
    BY <1>1, <1>2, <2>1, <2>6, <2>7 DEF Journaled
  <2>9. Kept'
    BY <1>1, <2>7, <2>8 DEF Kept, Open
  <2>10. UnderWay'
    BY <1>0, <2>1, <2>5, <2>7 DEF UnderWay
  <2> QED BY <2>9, <2>10 DEF Package
<1>4. CASE InstallFails
  <2>1. UNCHANGED <<files, backup, best, state, previous, op>> /\ BeginRollback(mem, "failed")
    BY <1>4 DEF InstallFails, durable, history
  <2> QED BY <1>0, <1>1, <2>1, SameReadable, RollbackStartsPackage
<1>5. CASE InstallDone
  <2>1. UNCHANGED <<files, backup, best, state, previous>> /\ idx > Len(Order(mem))
    BY <1>5 DEF InstallDone, durable, history
  <2>2. files = PackageOf(mem.tgt)
    <3>1. \A j \in Places(mem) : j < idx
      BY <1>1, <2>1, OrderIs DEF Places
    <3> QED BY <1>1, <1>2, <3>1, AllInPlace DEF Journaled
  <2>3. mem'.tgt = mem.tgt /\ op' = "applied" /\ pc' = "drop"
    BY <1>1, <1>5 DEF InstallDone, BeginWrite, States
  <2>4. Kept'
    BY <1>0, <2>1, <2>3, SameReadable, KeptFrame DEF Package
  <2>5. UnderWay'
    BY <2>1, <2>2, <2>3 DEF UnderWay
  <2> QED BY <2>4, <2>5 DEF Package
<1> QED BY <1>3, <1>4, <1>5

LEMMA RestorePackage ==
    ASSUME TypeOK, Control, Package, RestoreFile \/ ReswapFile \/ RestoreDone
    PROVE  Package'
<1>0. op = "none" /\ Rolling
  BY Idle DEF RestoreFile, ReswapFile, RestoreDone, Writing, Rolling
<1>1. /\ mem \in States /\ mem.tgt \in Versions /\ mem.cur \in Versions /\ Open(Readable)
      /\ mem.cur = Readable.cur /\ mem.tgt = Readable.tgt /\ mem.saved = Readable.saved
      /\ idx \in Nat /\ idx <= Len(Order(mem)) /\ Len(Order(mem)) \in Nat
  <2>1. Open(mem) /\ Open(Readable) /\ SameJournal(mem, Readable) /\ idx <= Len(Order(mem))
    BY DEF RestoreFile, ReswapFile, RestoreDone, Control, Place
  <2>2. mem \in States /\ mem.tgt \in Versions /\ mem.cur \in Versions
    BY <2>1, StateIs DEF TypeOK, Open, Control, WellFormed
  <2> QED BY <2>1, <2>2, OrderIs DEF TypeOK, SameJournal
<1>2. /\ mem.saved = Payload[mem.cur] /\ backup = PackageOf(mem.cur) /\ mem.cur >= best
      /\ \A f \in Files \ (Payload[mem.cur] \cup Payload[mem.tgt]) : files[f] = Absent
      /\ \A j \in Places(mem) : j > idx => files[Order(mem)[j]] = PackageOf(mem.cur)[Order(mem)[j]]
  BY <1>1 DEF Package, Kept, UnderWay, Journaled, RestoreFile, ReswapFile, RestoreDone
<1>3. CASE RestoreFile \/ ReswapFile
  <2> DEFINE f == Order(mem)[idx]
  <2>1. /\ UNCHANGED <<backup, best, state, previous, mem, op>>
        /\ pc' \in {"restore", "reswap"} /\ idx' \in {idx, idx - 1} /\ idx >= 1
    BY <1>3 DEF RestoreFile, ReswapFile, Goto, history, Control, Place
  <2>2. idx \in Places(mem) /\ f \in Files /\ f \in Payload[mem.cur] \cup Payload[mem.tgt]
    BY <1>1, <2>1, OrderIs DEF Places
  <2>3. \A g \in Files : g # f => files'[g] = files[g]
    BY <1>3 DEF RestoreFile, ReswapFile, TypeOK
  <2>4. idx' = idx - 1 => files'[f] = PackageOf(mem.cur)[f]
    <3>1. CASE RestoreFile
      BY <1>1, <1>2, <2>2, <3>1, PackageIs DEF RestoreFile, TypeOK
    <3>2. CASE ReswapFile
      BY <1>1, <1>2, <2>2, <3>2 DEF ReswapFile, TypeOK
    <3> QED BY <1>3, <3>1, <3>2
  <2>5. \A j \in Places(mem) : j > idx' => files'[Order(mem)[j]] = PackageOf(mem.cur)[Order(mem)[j]]
    <3> SUFFICES ASSUME NEW j \in Places(mem), j > idx'
                 PROVE  files'[Order(mem)[j]] = PackageOf(mem.cur)[Order(mem)[j]]
      OBVIOUS
    <3>1. CASE j = idx
      BY <1>1, <2>1, <2>4, <3>1
    <3>2. CASE j # idx
      <4>1. j > idx /\ Order(mem)[j] \in Files /\ Order(mem)[j] # f
        BY <1>1, <2>1, <2>2, <3>2, OrderIs DEF Places
      <4> QED BY <1>2, <2>3, <4>1
    <3> QED BY <3>1, <3>2
  <2>6. \A g \in Files \ (Payload[mem.cur] \cup Payload[mem.tgt]) : files'[g] = Absent
    BY <1>2, <2>2, <2>3
  <2>7. Readable' = Readable /\ Order(mem') = Order(mem) /\ Places(mem') = Places(mem)
    BY <2>1, SameReadable
  <2> HIDE DEF f
  <2>8. Journaled(Readable)'
    BY <1>1, <1>2, <2>1, <2>6, <2>7 DEF Journaled
  <2>9. Kept'
    BY <1>1, <2>1, <2>7, <2>8 DEF Kept, Open, Rolling
  <2>10. UnderWay'
    BY <1>0, <2>1, <2>5, <2>7 DEF UnderWay
  <2> QED BY <2>9, <2>10 DEF Package
<1>4. CASE RestoreDone
  <2>1. UNCHANGED <<files, backup, best, state, previous>> /\ idx = 0
    BY <1>4 DEF RestoreDone, durable, history
  <2>2. files = PackageOf(mem.cur)
    <3>1. \A j \in Places(mem) : j > idx
      BY <1>1, <2>1 DEF Places
    <3> QED BY <1>1, <1>2, <3>1, AllInPlace
  <2>3. mem'.cur = mem.cur /\ op' = "undone" /\ pc' = "drop"
    BY <1>1, <1>4 DEF RestoreDone, BeginWrite, States
  <2>4. Kept'
    BY <1>0, <2>1, <2>3, SameReadable, KeptFrame DEF Package, Rolling
  <2>5. UnderWay'
    BY <1>2, <2>1, <2>2, <2>3 DEF UnderWay
  <2> QED BY <2>4, <2>5 DEF Package
<1> QED BY <1>3, <1>4

LEMMA CleanupPackage ==
    ASSUME TypeOK, Control, Package, UndoPending \/ UndoBackup \/ CommitPending \/ CommitBackup
    PROVE  Package'
<1>0. op = "none" /\ ~Rolling
  BY Idle DEF UndoPending, UndoBackup, CommitPending, CommitBackup, Writing, Rolling
<1>1. /\ UNCHANGED <<files, best, state, previous>> /\ ~Open(Readable)
      /\ mem.status \in {"committed", "rolled_back"}
  BY DEF UndoPending, UndoBackup, CommitPending, CommitBackup, Control, Place, history
<1>2. Kept'
  BY <1>1, SameReadable, KeptSettled DEF Package
<1>3. CASE UndoPending
  BY <1>0, <1>2, <1>3 DEF UndoPending, Goto, volatile, Package, UnderWay
<1>4. CASE CommitPending
  BY <1>0, <1>1, <1>2, <1>4 DEF CommitPending, Goto, volatile, Package, UnderWay
<1>5. CASE UndoBackup
  BY <1>2, <1>5 DEF UndoBackup, BeginWrite, Package, UnderWay
<1>6. CASE CommitBackup
  <2>1. mem \in States
    BY <1>1, StateIs DEF TypeOK
  <2>2. mem'.tgt = mem.tgt /\ op' = "cleaned" /\ pc' = "drop" /\ mem.tgt <= best
    BY <1>6, <2>1 DEF CommitBackup, BeginWrite, Package, UnderWay, States
  <2> QED BY <1>1, <1>2, <2>2 DEF Package, UnderWay
<1> QED BY <1>3, <1>4, <1>5, <1>6

LEMMA RequestPackage ==
    ASSUME TypeOK, Control, Package, StageUpdate \/ StageLand \/ HealthPasses
    PROVE  Package'
<1>1. CASE StageUpdate \/ StageLand
  <2>1. UNCHANGED <<files, backup, best, state, previous, pc, mem, idx, op>>
    BY <1>1 DEF StageUpdate, StageLand, history
  <2>2. Kept'
    BY <2>1, SameReadable, KeptFrame DEF Package, Rolling
  <2>3. UnderWay'
    <3>1. Order(mem') = Order(mem) /\ Places(mem') = Places(mem)
      BY <2>1
    <3>2. Journaled(mem) => Journaled(mem)'
      BY <2>1 DEF Journaled
    <3> QED BY <2>1, <3>1, <3>2 DEF Package, UnderWay
  <2> QED BY <2>2, <2>3 DEF Package
<1>2. CASE HealthPasses
  <2>1. op = "none" /\ ~Rolling
    BY <1>2, Idle DEF HealthPasses, Writing, Rolling
  <2>2. UNCHANGED <<files, backup, best, state, previous>>
    BY <1>2 DEF HealthPasses, durable, history
  <2>3. /\ Readable.status = "applied_pending_health" /\ Readable \in States
        /\ Readable.tgt \in Versions /\ Readable.cur \in Versions /\ Readable.cur < Readable.tgt
    BY <1>2, ReadableType, StateIs DEF HealthPasses, Control, WellFormed, Open
  <2>4. mem'.tgt = Readable.tgt /\ op' = "committed" /\ pc' = "drop"
    BY <1>2, <2>3 DEF HealthPasses, BeginWrite, States
  <2>5. files = PackageOf(Readable.tgt) /\ Readable.cur >= best
    BY <2>1, <2>3 DEF Package, Kept, Open, Journaled
  <2>6. Readable.tgt >= best
    BY <2>3, <2>5 DEF Versions, TypeOK
  <2>7. Kept'
    BY <2>1, <2>2, SameReadable, KeptFrame DEF Package
  <2>8. UnderWay'
    BY <2>2, <2>4, <2>5, <2>6 DEF UnderWay
  <2> QED BY <2>7, <2>8 DEF Package
<1> QED BY <1>1, <1>2

\* Without any state the files are still those of one version.
LEMMA WriteStandsOnFiles ==
    ASSUME TypeOK, Control, Package, op # "none", pc # "tidy", Readable = NoState \/ (pc = "drop" /\ state = NoState)
    PROVE  Stands
<1>1. op \in {"journal", "applied", "committed", "cleaned", "undone", "undoneCleaned"}
  BY DEF TypeOK
<1>2. CASE ~Open(Readable)
  BY <1>2 DEF Package, Kept
<1>3. CASE Open(Readable)
  <2>1. op \in {"journal", "committed", "undone"} => mem \in States
    BY StateIs DEF TypeOK, Control, WriteStands
  <2>2. op \notin {"journal", "cleaned", "undoneCleaned", "applied"}
    BY <1>3, NoStateIs DEF Control, WriteStands
  <2>3. CASE op = "committed"
    <3>1. files = PackageOf(mem.tgt) /\ mem.tgt >= best
      BY <2>3 DEF Package, UnderWay
    <3>2. mem.tgt \in Versions
      BY <1>3, <2>3, ReadableType, StateIs, NoStateIs DEF Control, WriteStands, WellFormed, Open
    <3> QED BY <3>1, <3>2 DEF Stands
  <2>4. CASE op = "undone"
    <3>1. files = PackageOf(mem.cur) /\ mem.cur >= best /\ mem.cur \in Versions
      BY <2>1, <2>4 DEF Package, UnderWay, States
    <3> QED BY <3>1 DEF Stands
  <2> QED BY <1>1, <2>2, <2>3, <2>4
<1> QED BY <1>2, <1>3

LEMMA WritePackage ==
    ASSUME TypeOK, Control, Package, WriteDrop \/ WriteShift
    PROVE  Package'
<1>1. /\ op # "none" /\ pc \in {"drop", "shift"} /\ pc' \in {"shift", "land"}
      /\ UNCHANGED <<files, backup, best, mem, idx, op>>
  BY DEF WriteDrop, WriteShift, Goto, Control, WriteStands, Writing, volatile, history
<1>2. Rolling' <=> Rolling
  BY <1>1 DEF Rolling
<1>3. UnderWay'
  <2>1. Journaled(mem) => Journaled(mem)'
    BY <1>1 DEF Journaled
  <2> QED BY <1>1, <2>1 DEF Package, UnderWay
<1>4. CASE Readable' = Readable
  BY <1>1, <1>2, <1>3, <1>4, KeptFrame DEF Package
<1>5. CASE Readable' # Readable
  <2>1. Readable' = NoState /\ state = NoState /\ pc = "drop"
    BY <1>5 DEF WriteDrop, WriteShift, Readable
  <2>2. Stands
    BY <1>1, <2>1, WriteStandsOnFiles
  <2>3. Stands'
    BY <1>1, <2>2 DEF Stands
  <2>4. Kept'
    BY <2>1, <2>3, NoStateIs DEF Kept
  <2> QED BY <1>3, <2>4 DEF Package
<1> QED BY <1>4, <1>5

LEMMA LandPackage ==
    ASSUME TypeOK, Control, Package, WriteLand
    PROVE  Package'
<1>1. /\ op # "none" /\ pc = "land" /\ pc' = "tidy" /\ UNCHANGED <<files, backup, mem, op>>
      /\ state' = mem /\ best' = IF mem.status = "committed" /\ mem.tgt > best THEN mem.tgt ELSE best
  BY DEF WriteLand, Goto, Control, WriteStands, Writing, volatile
<1>2. op \in {"journal", "applied", "committed", "cleaned", "undone", "undoneCleaned"}
  BY <1>1 DEF TypeOK
<1>3. Readable' = mem /\ mem # NoState
  BY <1>1 DEF Readable, Control, WriteStands
<1>4. mem \in States /\ mem.cur \in Versions /\ best \in Versions /\ mem.tgt \in Versions \cup {NoVersion}
  BY <1>3, StateIs DEF TypeOK, States
<1>5. CASE op = "journal"
  <2>1. mem.status = "applying" /\ Journaled(mem) /\ files = PackageOf(mem.cur)
    BY <1>5 DEF Package, UnderWay, Control, WriteStands
  <2>2. best' = best
    BY <1>1, <2>1
  <2>3. Journaled(mem)' /\ Journaled(Readable)'
    BY <1>1, <1>3, <2>1, <2>2 DEF Journaled
  <2>4. Kept'
    BY <1>3, <2>1, <2>3 DEF Kept, Open
  <2>5. UnderWay'
    BY <1>1, <1>5, <2>1, <2>3 DEF UnderWay
  <2> QED BY <2>4, <2>5 DEF Package
<1>6. CASE op = "applied"
  <2>1. /\ mem.status = "applied_pending_health" /\ files = PackageOf(mem.tgt)
        /\ Readable.status = "applying" /\ SameJournal(mem, Readable)
    BY <1>1, <1>6 DEF Package, UnderWay, Control, WriteStands
  <2>2. best' = best /\ Journaled(Readable)
    BY <1>1, <2>1 DEF Package, Kept, Open
  <2>3. Journaled(Readable)'
    BY <1>1, <1>3, <2>1, <2>2 DEF Journaled, SameJournal
  <2>4. Kept'
    BY <1>1, <1>3, <2>1, <2>3 DEF Kept, Open
  <2>5. UnderWay'
    BY <1>1, <1>6, <2>1 DEF UnderWay
  <2> QED BY <2>4, <2>5 DEF Package
<1>7. CASE op = "committed"
  <2>1. mem.status = "committed" /\ files = PackageOf(mem.tgt) /\ mem.tgt >= best
    BY <1>7 DEF Package, UnderWay, Control, WriteStands
  <2>2. mem.tgt \in Versions /\ best' = mem.tgt /\ mem.tgt <= best' /\ mem.tgt >= best'
    BY <1>1, <1>4, <2>1, PackageAssumption DEF Versions, NoVersion
  <2>3. Kept'
    BY <1>1, <1>3, <2>1, <2>2 DEF Kept, Open, Stands
  <2>4. UnderWay'
    BY <1>1, <1>7, <2>1, <2>2 DEF UnderWay
  <2> QED BY <2>3, <2>4 DEF Package
<1>8. CASE op = "cleaned"
  <2>1. mem.status = "committed" /\ ~Open(Readable) /\ mem.tgt <= best
    BY <1>8 DEF Package, UnderWay, Control, WriteStands
  <2>2. best' = best
    BY <1>1, <1>4, <2>1, PackageAssumption DEF Versions, NoVersion
  <2>3. Stands'
    BY <1>1, <2>1, <2>2 DEF Package, Kept, Stands
  <2>4. Kept'
    BY <1>3, <2>1, <2>2, <2>3 DEF Kept, Open
  <2>5. UnderWay'
    BY <1>1, <1>8, <2>1, <2>2 DEF UnderWay
  <2> QED BY <2>4, <2>5 DEF Package
<1>9. CASE op = "undone"
  <2>1. mem.status = "rolled_back" /\ files = PackageOf(mem.cur) /\ mem.cur >= best
    BY <1>9 DEF Package, UnderWay, Control, WriteStands
  <2>2. best' = best
    BY <1>1, <2>1
  <2>3. Stands'
    BY <1>1, <1>4, <2>1, <2>2 DEF Stands
  <2>4. Kept'
    BY <1>3, <2>1, <2>3 DEF Kept, Open
  <2>5. UnderWay'
    BY <1>1, <1>9, <2>1, <2>2 DEF UnderWay
  <2> QED BY <2>4, <2>5 DEF Package
<1>10. CASE op = "undoneCleaned"
  <2>1. mem.status = "rolled_back" /\ ~Open(Readable)
    BY <1>10 DEF Control, WriteStands
  <2>2. best' = best
    BY <1>1, <2>1
  <2>3. Stands'
    BY <1>1, <2>1, <2>2 DEF Package, Kept, Stands
  <2>4. Kept'
    BY <1>3, <2>1, <2>3 DEF Kept, Open
  <2>5. UnderWay'
    BY <1>1, <1>10 DEF UnderWay
  <2> QED BY <2>4, <2>5 DEF Package
<1> QED BY <1>2, <1>5, <1>6, <1>7, <1>8, <1>9, <1>10

LEMMA TidyPackage ==
    ASSUME TypeOK, Control, Package, WriteTidy
    PROVE  Package'
<1>1. /\ pc = "tidy" /\ op' = "none" /\ AfterWrite /\ UNCHANGED <<state, files, backup, best>>
      /\ mem' = IF op = "undoneCleaned" THEN NoState ELSE mem
  BY DEF WriteTidy, history
<1>2. Readable = mem /\ Readable' = mem
  BY <1>1, Landed DEF Readable
<1>3. op \in {"journal", "applied", "committed", "cleaned", "undone", "undoneCleaned"}
  BY <1>1 DEF TypeOK, Control, WriteStands, Writing
<1>4. Readable.status = "applied_pending_health" => ~Rolling
  BY <1>1, <1>2 DEF Rolling, Control, WriteStands
<1>5. Kept'
  BY <1>1, <1>2, <1>4, KeptFrame DEF Package
<1>6. UnderWay'
  <2>1. CASE op = "journal"
    <3>1. pc' = "install" /\ idx' = 1 /\ mem' = mem
      BY <1>1, <2>1 DEF AfterWrite, Goto
    <3> QED BY <1>1, <3>1 DEF UnderWay, Places
  <2>2. CASE op = "committed"
    <3>1. pc' = "dropPending" /\ mem' = mem /\ mem.tgt <= best
      BY <1>1, <1>2, <2>2 DEF AfterWrite, Goto, Control, WriteStands, Package, Kept
    <3> QED BY <1>1, <3>1 DEF UnderWay
  <2>3. CASE op \in {"applied", "cleaned", "undone", "undoneCleaned"}
    <3>1. pc' \in {"prepare", "serve", "undoPending", "select", "applyError", "start"}
      BY <1>1, <2>3 DEF AfterWrite, Goto
    <3> QED BY <1>1, <3>1 DEF UnderWay
  <2> QED BY <1>3, <2>1, <2>2, <2>3
<1> QED BY <1>5, <1>6 DEF Package

LEMMA FailPackage ==
    ASSUME TypeOK, Control, Package, WriteFails, ~torn'
    PROVE  Package'
<1>1. /\ pc \in {"drop", "shift", "land"} /\ op' = "none" /\ AfterFailedWrite
      /\ UNCHANGED <<files, best>>
  BY DEF WriteFails
<1>2. Readable' = Readable
  <2>1. CASE UNCHANGED <<state, previous>>
    BY <2>1, SameReadable
  <2>2. CASE pc = "land" /\ state' = previous /\ previous' = NoState
    BY <2>2 DEF Control, WriteStands, Readable
  <2> QED BY <2>1, <2>2 DEF WriteFails
<1>3. op \in {"journal", "applied", "committed", "cleaned", "undone", "undoneCleaned"}
  BY <1>1 DEF TypeOK, Control, WriteStands, Writing
<1>4. Readable.status = "applied_pending_health" => ~Rolling
  BY <1>1 DEF WriteFails, Tears, Rolling
<1>5. CASE op = "journal"
  <2>1. pc' = "applyError" /\ ~Open(Readable)
    BY <1>1, <1>5 DEF AfterFailedWrite, Goto, Control, WriteStands
  <2>2. Kept'
    BY <1>1, <1>2, <2>1, KeptSettled DEF Package
  <2> QED BY <1>1, <2>1, <2>2 DEF Package, UnderWay
<1>6. CASE op = "applied"
  <2>1. BeginRollback(mem, "failed") /\ UNCHANGED backup /\ Open(mem)
    BY <1>1, <1>6 DEF AfterFailedWrite, Control, WriteStands, Open
  <2>2. mem \in States /\ mem.tgt \in Versions
    BY <2>1, StateIs DEF TypeOK, Open, Control, WellFormed
  <2> QED BY <1>1, <1>2, <2>1, <2>2, RollbackStartsPackage
<1>7. CASE op \in {"committed", "cleaned", "undone", "undoneCleaned"}
  <2>1. UNCHANGED backup /\ pc' \in Resting
    BY <1>1, <1>7 DEF AfterFailedWrite, CommitError, RollbackError, Goto, Resting
  <2>2. Kept'
    BY <1>1, <1>2, <1>4, <2>1, KeptFrame DEF Package
  <2> QED BY <1>1, <2>1, <2>2 DEF Package, UnderWay, Resting
<1> QED BY <1>3, <1>5, <1>6, <1>7

LEMMA PackageStep == ASSUME TypeOK, Control, Package, Next, ~torn' PROVE Package'
BY StopsPackage, MovesPackage, HealthPackage, ApplyPackage, InstallPackage, RestorePackage,
   CleanupPackage, RequestPackage, WritePackage, LandPackage, TidyPackage, FailPackage
   DEF Next, Launcher

-----------------------------------------------------------------------------
(* The theorems.                                                            *)

LEMMA InitHolds == Init => PInv
<1> SUFFICES ASSUME Init PROVE PInv
  OBVIOUS
<1>1. 1 \in Versions
  BY PackageAssumption DEF Versions
<1>2. files = PackageOf(1) /\ files \in [Files -> Contents]
  BY <1>1, PackageIs DEF Init
<1>3. TypeOK
  BY <1>1, <1>2 DEF Init, TypeOK, NoBackup, Contents, Locations, Stagings, NoStaging
<1>4. Readable = NoState
  BY DEF Init, Readable
<1>5. Control
  BY <1>4, NoStateIs DEF Init, Control, WellFormed, WriteStands, Writing, Place, Undisturbed
<1>6. Package
  BY <1>1, <1>2, <1>4, NoStateIs DEF Init, Package, Kept, UnderWay, Stands
<1> QED BY <1>3, <1>5, <1>6 DEF PInv

LEMMA StutterHolds == ASSUME PInv, UNCHANGED vars PROVE PInv'
<1>1. TypeOK'
  BY DEF PInv, TypeOK, vars
<1>2. Readable' = Readable /\ Order(mem') = Order(mem) /\ Places(mem') = Places(mem)
  BY SameReadable DEF vars
<1>3. Control'
  BY <1>2 DEF PInv, Control, WellFormed, WriteStands, Place, Undisturbed, vars
<1>4. Package => Package'
  <2>1. Kept => Kept'
    BY <1>2, KeptFrame DEF vars, Rolling
  <2>2. Journaled(mem) => Journaled(mem)'
    BY DEF Journaled, vars
  <2> QED BY <1>2, <2>1, <2>2 DEF Package, UnderWay, vars
<1> QED BY <1>1, <1>3, <1>4 DEF PInv, vars

LEMMA StepHolds == PInv /\ [Next]_vars => PInv'
<1> SUFFICES ASSUME PInv, [Next]_vars PROVE PInv'
  OBVIOUS
<1>1. CASE Next
  <2>1. ~torn' => ~torn
    BY <1>1 DEF Next, Launcher, StartLauncher, PrepareRunner, ApplyReadState, FinishCommitted,
        NothingPending, RejectPending, BackupFiles, InstallFile, SwapFile, InstallFails,
        InstallDone, RestoreFile, ReswapFile, RestoreFails, RestoreDone, UndoPending, UndoBackup,
        WriteDrop, WriteShift, WriteLand, WriteTidy, WriteFails, CommitPending, CommitBackup,
        CommitCleanupFails, ApplyErrorStatus, Bootstrap, BootstrapFails, HealthPasses,
        HealthFails, CommitFailed, BackendExits, StageUpdate, StageLand, Crash, history
  <2> QED BY <1>1, <2>1, TypeStep, ControlStep, PackageStep DEF PInv
<1>2. CASE UNCHANGED vars
  BY <1>2, StutterHolds
<1> QED BY <1>1, <1>2

LEMMA Always == Spec => []PInv
BY InitHolds, StepHolds, PTL DEF Spec

\* A backend that runs, runs from what the durable state says is installed.
LEMMA Served ==
    ASSUME PInv, pc \in {"candidate", "serve"}, ~torn
    PROVE  Stands
<1>1. op = "none" /\ ~Rolling
  BY Idle DEF PInv, Writing, Rolling
<1>2. CASE Open(Readable)
  <2>1. Readable.status = "applied_pending_health"
    BY <1>2 DEF PInv, Control, Place, Open
  <2>2. Readable \in States /\ Readable.tgt \in Versions /\ Readable.cur \in Versions
        /\ Readable.cur < Readable.tgt
    BY <1>2, <2>1, ReadableType, StateIs DEF PInv, Control, WellFormed
  <2>3. files = PackageOf(Readable.tgt) /\ Readable.cur >= best
    BY <1>1, <1>2, <2>1 DEF PInv, Package, Kept, Journaled
  <2>4. Readable.tgt >= best
    BY <2>2, <2>3 DEF Versions, PInv, TypeOK
  <2> QED BY <2>2, <2>3, <2>4 DEF Stands
<1>3. CASE ~Open(Readable)
  BY <1>3 DEF PInv, Package, Kept
<1> QED BY <1>2, <1>3

\* The records of the updater and the launcher are well formed whatever fails:
\* in particular an open state always names both versions and its files.
THEOREM UpdateTypeCorrect == Spec => []TypeOK
BY Always, PTL DEF PInv

\* No backend runs from a mixture of versions, whatever operations fail and
\* wherever the updater is stopped, unless the rollback of an applied update was
\* cut short.
THEOREM RunsOneVersion == Spec => []RunsWholePackage
<1>1. PInv => RunsWholePackage
  BY Served DEF RunsWholePackage, Whole, Stands
<1> QED BY <1>1, Always, PTL

\* An open update can be rolled back from any point: journal, backup and the
\* untouched files hold the whole previous package.
THEOREM RollbackStaysPossible == Spec => []RollbackPossible
<1>1. PInv => RollbackPossible
  <2> SUFFICES ASSUME PInv, Open(Readable), ~torn, NEW f \in Files
               PROVE  PackageOf(Readable.cur)[f] =
                        IF f \in Readable.saved THEN backup[f]
                        ELSE IF f \in Payload[Readable.tgt] THEN Absent
                        ELSE files[f]
    BY DEF RollbackPossible, Open
  <2>1. Readable.cur \in Versions
    BY ReadableType, StateIs DEF PInv, Open
  <2>2. Journaled(Readable)
    BY DEF PInv, Package, Kept
  <2> QED BY <2>1, <2>2, PackageIs DEF Journaled
<1> QED BY <1>1, Always, PTL

\* No start runs a version older than one that was committed.
THEOREM CommitsAreFinal == Spec => []CommitIsFinal
<1>1. PInv => CommitIsFinal
  <2> SUFFICES ASSUME PInv, pc \in {"candidate", "serve"}, ~torn PROVE files[Manifest] >= best
    BY DEF CommitIsFinal
  <2> QED BY Served, PackageIs DEF Stands
<1> QED BY <1>1, Always, PTL
================================================================================
