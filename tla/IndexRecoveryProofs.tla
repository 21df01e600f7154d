-------------------------- MODULE IndexRecoveryProofs --------------------------
(***************************************************************************)
(* Proofs about IndexRecovery, for any collections, documents and number   *)
(* of crashes, failed calls, damages and settings syncs; the refinement of *)
(* CollectionSwap, like JournalResumable, without admin resets.            *)
(*                                                                         *)
(* The invariant has a part about the threads (Control), a part about the  *)
(* collections and the journal (Data) and one that relates the step a      *)
(* recovery is at to them (Where).                                         *)
(***************************************************************************)
EXTENDS IndexRecovery, TLAPS

Kinds == {"free", "main", "recovery", "backup", "gone"}
Sources == {"boot", "resume", "rebuild"}
Attempting == {"snapshot", "embed", "missing", "create", "rebuild", "write"}
Promoting == {"preserve", "promote", "adopt", "unlink"}

\* The preflight runs in state 0, an attempt in state 2; nothing runs in the
\* other states, and only attempts rebuild.
Control ==
  /\ run \in [at : Steps, by : Sources,
              candidate : Collections \cup {NoCollection}, snapshot : SUBSET Docs]
  /\ state \in {"ready", "waiting", "running", "failed"}
  /\ settings \in Settings \cup {NoSettings}
  /\ threads \in [{"called", "waiting", "failed", "recheck"} -> Nat]
  /\ workers \in BOOLEAN
  /\ workers => state = "ready" /\ run.at = "idle"
  /\ run.at = "idle" => state # "running" /\ run.by = "boot"
  /\ run.at # "idle" /\ run.by = "boot" => state = "ready"
  /\ run.by # "boot" => state = "running" /\ run.at \notin {"idle", "down"}
  /\ run.at \in Attempting => run.by # "boot"

\* The cached id is of a collection that bears or bore the name; a candidate
\* that has not been promoted is complete.
Data ==
  /\ name \in [Collections -> Kinds]
  /\ docs \in [Collections -> SUBSET Docs]
  /\ damaged \subseteq Collections
  /\ journal = NoJournal \/ journal \in [original : Collections, candidate : Collections]
  /\ ref \in Collections \cup {NoCollection}
  /\ goal \in [Collections -> SUBSET Docs]
  /\ acked \subseteq Docs
  /\ \A c, e \in Collections : name[c] = "main" /\ name[e] = "main" => c = e
  /\ ref # NoCollection => name[ref] \in {"main", "backup", "gone"}
  /\ journal # NoJournal =>
        /\ name[journal.candidate] # "free"
        /\ name[journal.candidate] = "recovery" => goal[journal.candidate] \subseteq docs[journal.candidate]
  /\ \A d \in acked : \E c \in Collections : name[c] \in {"main", "backup"} /\ d \in docs[c]

Where ==
  /\ run.at \in Promoting => journal # NoJournal
  /\ run.at = "preserve" => name[journal.original] = "main"
  /\ run.at = "promote" => \A c \in Collections : name[c] # "main"
  /\ run.at \in {"adopt", "unlink"} => name[journal.candidate] = "main"
  /\ run.at \in {"rebuild", "write"} =>
        /\ run.candidate \in Collections
        /\ name[run.candidate] = "recovery"
        /\ goal[run.candidate] = run.snapshot
        /\ \E c \in Collections : name[c] = "main"
  /\ run.at = "write" => run.snapshot \subseteq docs[run.candidate]
  /\ run.at = "health" \/ run.at \in Attempting => journal = NoJournal

BudgetType == budget \in [Disturbances -> Nat]

RInv == Control /\ Data /\ Where /\ BudgetType

-----------------------------------------------------------------------------
(* Lemmas.                                                                   *)

\* What CHOOSE returns when at most one collection bears the name.
LEMMA MainIs ==
  ASSUME Data
  PROVE  /\ Main = NoCollection <=> \A c \in Collections : name[c] # "main"
         /\ \A c \in Collections : Main = c <=> name[c] = "main"
<1>1. CASE Named("main") = {}
  BY <1>1, RecoveryAssumption DEF Main, Named
<1>2. CASE Named("main") # {}
  <2>1. PICK c \in Collections : name[c] = "main"
    BY <1>2 DEF Named
  <2>2. Main \in Collections /\ name[Main] = "main"
    BY <1>2, <2>1 DEF Main
  <2> QED BY <2>1, <2>2, RecoveryAssumption DEF Data
<1> QED BY <1>1, <1>2

\* The journal's collections.
LEMMA JournalIs ==
  ASSUME Data, journal # NoJournal
  PROVE  journal.original \in Collections /\ journal.candidate \in Collections
BY DEF Data

\* What spending a disturbance does.
LEMMA SpendType ==
  ASSUME BudgetType, NEW kind \in Disturbances, Spend(kind)
  PROVE  BudgetType' /\ (\A k \in Disturbances : budget'[k] <= budget[k])
<1>1. budget[kind] - 1 \in Nat
  BY DEF BudgetType, Spend
<1> QED BY <1>1 DEF BudgetType, Spend

LEMMA FailControl ==
  ASSUME Control, run.at # "idle", Fail
  PROVE  /\ Control'
         /\ run'.at \in {"down", "idle"}
         /\ run'.at = "idle" <=> run.by # "boot"
BY DEF Control, Fail, Resting, Steps, Sources, Attempting

LEMMA SucceedControl ==
  ASSUME Control, Succeed
  PROVE  Control' /\ run'.at = "idle"
BY DEF Control, Succeed, Resting, Steps, Sources, Attempting

LEMMA ProceedControl ==
  ASSUME Control, run.at \notin {"idle", "down"}, NEW at \in Steps \ {"idle", "down"},
         at \in Attempting => run.by # "boot", Proceed(at)
  PROVE  Control' /\ run'.at = at /\ run'.by = run.by /\ run'.candidate = run.candidate
         /\ run'.snapshot = run.snapshot
<1>1. run' = [run EXCEPT !.at = at] /\ UNCHANGED <<state, threads, workers, settings>>
  BY DEF Proceed, GoTo
<1>2. run' \in [at : Steps, by : Sources,
              candidate : Collections \cup {NoCollection}, snapshot : SUBSET Docs]
      /\ run'.at = at /\ run'.by = run.by /\ run'.candidate = run.candidate
      /\ run'.snapshot = run.snapshot
  BY <1>1 DEF Control
<1> QED BY <1>1, <1>2 DEF Control

\* Nothing that Data speaks of changes.
LEMMA DataStutter ==
  ASSUME Data, UNCHANGED <<name, docs, damaged, journal, ref, goal, acked>>
  PROVE  Data'
BY DEF Data

\* Where a recovery rests, or looks the name up, nothing is said of names.
LEMMA WhereNothing ==
  ASSUME run'.at \in {"down", "idle", "lookup"}
  PROVE  Where'
BY DEF Where, Promoting, Attempting

\* A renaming that no other collection notices, of a collection that keeps
\* what is asked of the old name.
Renaming(c, kind) ==
  /\ c \in Collections /\ kind \in {"main", "backup", "recovery", "gone"}
  /\ name' = [name EXCEPT ![c] = kind]
  /\ UNCHANGED <<docs, damaged, journal>>
  /\ kind = "main" => \A e \in Collections : name[e] = "main" => e = c
  /\ kind = "recovery" => name[c] = "free"
  /\ name[c] \in {"main", "backup"} /\ kind \notin {"main", "backup"} => acked' = {}
  /\ acked' = acked \/ acked' = {}
  /\ \/ goal' = goal
     \/ /\ name[c] = "free" /\ goal' \in [Collections -> SUBSET Docs]
        /\ \A e \in Collections : e # c => goal'[e] = goal[e]
  /\ \/ ref' = ref
     \/ ref' = NoCollection
     \/ ref' \in Collections /\ name'[ref'] \in {"main", "backup", "gone"}

LEMMA RenameData ==
  ASSUME Data, NEW c, NEW kind, Renaming(c, kind)
  PROVE  Data'
<1>1. name' \in [Collections -> Kinds] /\ c \in Collections /\ name'[c] = kind
      /\ \A e \in Collections : e # c => name'[e] = name[e]
  BY DEF Data, Renaming, Kinds
<1>2. \A e, f \in Collections : name'[e] = "main" /\ name'[f] = "main" => e = f
  BY <1>1 DEF Data, Renaming
<1>3. ref' \in Collections \cup {NoCollection}
      /\ (ref' # NoCollection => name'[ref'] \in {"main", "backup", "gone"})
  BY <1>1 DEF Data, Renaming
<1>4. UNCHANGED <<docs, damaged, journal>> /\ goal' \in [Collections -> SUBSET Docs]
  BY DEF Data, Renaming
<1>5. journal # NoJournal =>
        /\ name'[journal.candidate] # "free"
        /\ name'[journal.candidate] = "recovery" =>
              goal'[journal.candidate] \subseteq docs[journal.candidate]
  BY <1>1, JournalIs DEF Data, Renaming
<1>6. \A d \in acked' : \E e \in Collections : name'[e] \in {"main", "backup"} /\ d \in docs[e]
  <2>1. CASE acked' = {}
    BY <2>1
  <2>2. CASE acked' = acked /\ (name[c] \in {"main", "backup"} => kind \in {"main", "backup"})
    <3> SUFFICES ASSUME NEW d \in acked
                 PROVE  \E e \in Collections : name'[e] \in {"main", "backup"} /\ d \in docs[e]
      BY <2>2
    <3>1. PICK e \in Collections : name[e] \in {"main", "backup"} /\ d \in docs[e]
      BY DEF Data
    <3>2. name'[e] \in {"main", "backup"}
      BY <1>1, <2>2, <3>1
    <3> QED BY <3>1, <3>2
  <2> QED BY <2>1, <2>2 DEF Renaming
<1>7. acked' \subseteq Docs
  BY DEF Data, Renaming
<1> QED BY <1>1, <1>2, <1>3, <1>4, <1>5, <1>6, <1>7 DEF Data

-----------------------------------------------------------------------------
(* Lookups and the steps of a promotion.                                     *)

LEMMA LookupStep ==
  ASSUME RInv, Lookup
  PROVE  RInv'
<1>1. Data'
  BY DataStutter DEF RInv, Lookup, chroma, history
<1>2. run.at = "lookup" /\ "call" \in Disturbances
  BY DEF Lookup, Disturbances
<1>3. UNCHANGED <<name, docs, journal, goal>>
  BY DEF Lookup, chroma, history
<1>4. ASSUME Fail PROVE Control' /\ Where'
  BY <1>2, <1>4, FailControl, WhereNothing DEF RInv
<1>5. ASSUME journal = NoJournal, Proceed("health") PROVE Control' /\ Where'
  <2>1. Control' /\ run'.at = "health"
    BY <1>2, <1>5, ProceedControl DEF RInv, Steps, Attempting
  <2> QED BY <1>3, <1>5, <2>1 DEF Where, Promoting, Attempting
<1>6. ASSUME journal # NoJournal, NEW at \in {"preserve", "adopt", "promote"}, Proceed(at),
             \/ at = "preserve" /\ Main = journal.original
             \/ at = "adopt" /\ Main = journal.candidate
             \/ at = "promote" /\ Main = NoCollection
      PROVE  Control' /\ Where'
  <2>1. Control' /\ run'.at = at
    BY <1>2, <1>6, ProceedControl DEF RInv, Steps, Attempting
  <2>2. journal.original \in Collections /\ journal.candidate \in Collections
    BY <1>6, JournalIs DEF RInv
  <2> QED BY <1>3, <1>6, <2>1, <2>2, MainIs DEF RInv, Where, Promoting, Attempting
<1>7. Control' /\ Where'
  BY <1>4, <1>5, <1>6 DEF Lookup
<1>8. BudgetType'
  BY <1>2, SpendType DEF Lookup, RInv, BudgetType
<1> QED BY <1>1, <1>7, <1>8 DEF RInv

\* A rename of one of the journal's collections, lost or not.
LEMMA RenameOutcome ==
  ASSUME RInv, NEW c \in Collections, NEW kind \in {"main", "backup"}, NEW then \in Steps,
         RenameStep(c, kind, then)
  PROVE  /\ name' = name \/ (name[c] \notin {"free", "gone"} /\ name' = [name EXCEPT ![c] = kind])
         /\ Proceed(then) => (name' = [name EXCEPT ![c] = kind] /\ name[c] \notin {"free", "gone"}) \/ Fail
         /\ Fail \/ Proceed(then)
         /\ BudgetType'
BY SpendType DEF RenameStep, Rename, Disturbances, RInv, BudgetType

LEMMA PreserveStep ==
  ASSUME RInv, Preserve
  PROVE  RInv'
<1>1. run.at = "preserve" /\ journal # NoJournal /\ name[journal.original] = "main"
      /\ journal.original \in Collections
  BY JournalIs DEF Preserve, RInv, Where, Promoting
<1>2. /\ RenameStep(journal.original, "backup", "promote")
      /\ UNCHANGED <<docs, damaged, journal, ref, goal, acked>>
  BY DEF Preserve, history
<1>3. name' = name \/ name' = [name EXCEPT ![journal.original] = "backup"]
  BY <1>1, <1>2, RenameOutcome DEF Steps
<1>4. Data'
  <2>1. CASE name' = name
    BY <1>2, <2>1, DataStutter DEF RInv
  <2>2. CASE name' = [name EXCEPT ![journal.original] = "backup"]
    <3>1. Renaming(journal.original, "backup")
      BY <1>1, <1>2, <2>2 DEF Renaming
    <3> QED BY <3>1, RenameData DEF RInv
  <2> QED BY <1>3, <2>1, <2>2
<1>5. CASE Fail
  <2>1. Control' /\ Where'
    BY <1>1, <1>5, FailControl, WhereNothing DEF RInv
  <2> QED BY <1>1, <1>2, <1>4, <2>1, RenameOutcome DEF RInv, Steps
<1>6. CASE Proceed("promote") /\ name' = [name EXCEPT ![journal.original] = "backup"]
  <2>1. Control' /\ run'.at = "promote"
    BY <1>1, <1>6, ProceedControl DEF RInv, Steps, Attempting
  <2>2. \A c \in Collections : name'[c] # "main"
    BY <1>1, <1>6 DEF RInv, Data
  <2>3. Where'
    BY <1>1, <1>2, <2>1, <2>2 DEF Where, Promoting, Attempting
  <2> QED BY <1>1, <1>2, <1>4, <2>1, <2>3, RenameOutcome DEF RInv, Steps
<1> QED BY <1>2, <1>5, <1>6 DEF RenameStep, Rename

LEMMA PromoteStep ==
  ASSUME RInv, Promote
  PROVE  RInv'
<1>1. /\ run.at = "promote" /\ journal # NoJournal /\ journal.candidate \in Collections
      /\ \A c \in Collections : name[c] # "main"
  BY JournalIs DEF Promote, RInv, Where, Promoting
<1>2. /\ RenameStep(journal.candidate, "main", "adopt")
      /\ UNCHANGED <<docs, damaged, journal, ref, goal, acked>>
  BY DEF Promote, history
<1>3. name' = name \/ name' = [name EXCEPT ![journal.candidate] = "main"]
  BY <1>1, <1>2, RenameOutcome DEF Steps
<1>4. Data'
  <2>1. CASE name' = name
    BY <1>2, <2>1, DataStutter DEF RInv
  <2>2. CASE name' = [name EXCEPT ![journal.candidate] = "main"]
    <3>1. Renaming(journal.candidate, "main")
      BY <1>1, <1>2, <2>2 DEF Renaming
    <3> QED BY <3>1, RenameData DEF RInv
  <2> QED BY <1>3, <2>1, <2>2
<1>5. CASE Fail
  <2>1. Control' /\ Where'
    BY <1>1, <1>5, FailControl, WhereNothing DEF RInv
  <2> QED BY <1>1, <1>2, <1>4, <2>1, RenameOutcome DEF RInv, Steps
<1>6. CASE Proceed("adopt") /\ name' = [name EXCEPT ![journal.candidate] = "main"]
  <2>1. Control' /\ run'.at = "adopt"
    BY <1>1, <1>6, ProceedControl DEF RInv, Steps, Attempting
  <2>2. name'[journal.candidate] = "main"
    BY <1>1, <1>6 DEF RInv, Data
  <2>3. Where'
    BY <1>1, <1>2, <2>1, <2>2 DEF Where, Promoting, Attempting
  <2> QED BY <1>1, <1>2, <1>4, <2>1, <2>3, RenameOutcome DEF RInv, Steps
<1> QED BY <1>2, <1>5, <1>6 DEF RenameStep, Rename

LEMMA AdoptStep ==
  ASSUME RInv, Adopt
  PROVE  RInv'
<1>1. /\ run.at = "adopt" /\ journal # NoJournal /\ journal.candidate \in Collections
      /\ name[journal.candidate] = "main"
  BY JournalIs DEF Adopt, RInv, Where, Promoting
<1>2. ref' = journal.candidate /\ UNCHANGED <<name, docs, damaged, journal, goal, acked>>
  BY DEF Adopt, chroma, history
<1>3. Data'
  BY <1>1, <1>2 DEF RInv, Data
<1>4. ASSUME Fail PROVE Control' /\ Where'
  BY <1>1, <1>4, FailControl, WhereNothing DEF RInv
<1>5. ASSUME Proceed("unlink") PROVE Control' /\ Where'
  <2>1. Control' /\ run'.at = "unlink"
    BY <1>1, <1>5, ProceedControl DEF RInv, Steps, Attempting
  <2> QED BY <1>1, <1>2, <2>1 DEF Where, Promoting, Attempting
<1>6. BudgetType'
  BY SpendType DEF Adopt, RInv, BudgetType, Disturbances
<1> QED BY <1>3, <1>4, <1>5, <1>6 DEF RInv, Adopt

LEMMA UnlinkStep ==
  ASSUME RInv, Unlink
  PROVE  RInv'
<1>1. run.at = "unlink" /\ UNCHANGED <<name, docs, damaged, ref, goal, acked>>
      /\ (journal' = journal \/ journal' = NoJournal)
  BY DEF Unlink, chroma, history
<1>2. Data'
  BY <1>1 DEF RInv, Data
<1>3. ASSUME Fail \/ Succeed PROVE Control' /\ Where'
  BY <1>1, <1>3, FailControl, SucceedControl, WhereNothing DEF RInv
<1>4. ASSUME Proceed("health"), journal' = NoJournal PROVE Control' /\ Where'
  <2>1. Control' /\ run'.at = "health"
    BY <1>1, <1>4, ProceedControl DEF RInv, Steps, Attempting
  <2> QED BY <1>4, <2>1 DEF Where, Promoting, Attempting
<1>5. BudgetType'
  BY SpendType DEF Unlink, RInv, BudgetType, Disturbances
<1> QED BY <1>2, <1>3, <1>4, <1>5 DEF RInv, Unlink

-----------------------------------------------------------------------------
(* The use of the collection, by requests and by the health check.           *)

\* The cached id, the collection of that name, or a new one.
LEMMA EnsureIs ==
  ASSUME Data, NEW c \in Collections, Ensure(c)
  PROVE  /\ ref' = c
         /\ \/ name' = name /\ name[c] \in {"main", "backup", "gone"}
            \/ /\ ref = NoCollection /\ name[c] = "free"
               /\ \A e \in Collections : name[e] # "main"
               /\ name' = [name EXCEPT ![c] = "main"]
BY MainIs DEF Ensure, Rename, Named, Data

LEMMA EnsureData ==
  ASSUME Data, NEW c \in Collections, Ensure(c),
         UNCHANGED <<docs, damaged, journal, goal, acked>>
  PROVE  Data'
<1>1. CASE ref' = c /\ name' = name /\ name[c] \in {"main", "backup", "gone"}
  BY <1>1 DEF Data
<1>2. CASE /\ ref' = c /\ name[c] = "free"
           /\ \A e \in Collections : name[e] # "main"
           /\ name' = [name EXCEPT ![c] = "main"]
  <2>1. name'[ref'] = "main"
    BY <1>2 DEF Data
  <2>2. Renaming(c, "main")
    BY <1>2, <2>1 DEF Renaming
  <2> QED BY <2>2, RenameData
<1> QED BY <1>1, <1>2, EnsureIs

LEMMA HealthStep ==
  ASSUME RInv, Health
  PROVE  RInv'
<1>1. /\ run.at = "health" /\ journal = NoJournal
      /\ UNCHANGED <<docs, damaged, journal, goal, acked>>
  BY DEF Health, RInv, Where
<1>2. Data'
  <2>1. CASE UNCHANGED <<ref, name>>
    BY <1>1, <2>1, DataStutter DEF RInv
  <2>2. CASE \E c \in Collections : Ensure(c)
    BY <1>1, <2>2, EnsureData DEF RInv
  <2> QED BY <2>1, <2>2 DEF Health
<1>3. ASSUME Fail \/ Succeed PROVE Control' /\ Where'
  BY <1>1, <1>3, FailControl, SucceedControl, WhereNothing DEF RInv
<1>4. ASSUME run.by # "boot", Proceed("snapshot") PROVE Control' /\ Where'
  <2>1. Control' /\ run'.at = "snapshot"
    BY <1>1, <1>4, ProceedControl DEF RInv, Steps, Attempting
  <2> QED BY <1>1, <2>1 DEF Where, Promoting, Attempting
<1>5. ASSUME run.by = "boot", run' = [run EXCEPT !.at = "lookup", !.by = "resume"],
             state' = "running", UNCHANGED <<threads, workers, settings>>
      PROVE  Control' /\ Where'
  <2>1. run' \in [at : Steps, by : Sources,
                  candidate : Collections \cup {NoCollection}, snapshot : SUBSET Docs]
        /\ run'.at = "lookup" /\ run'.by = "resume"
    BY <1>5 DEF RInv, Control, Steps, Sources
  <2>2. Control'
    BY <1>1, <1>5, <2>1 DEF RInv, Control, Attempting
  <2> QED BY <2>1, <2>2, WhereNothing
<1>6. BudgetType'
  BY SpendType DEF Health, RInv, BudgetType, Disturbances
<1> QED BY <1>2, <1>3, <1>4, <1>5, <1>6 DEF RInv, Health

\* A request that uses the collection leaves every recovery step where it is.
LEMMA UseWhere ==
  ASSUME RInv, NEW c \in Collections, Use(c), UNCHANGED <<journal, run>>
  PROVE  Where'
BY DEF RInv, Where, Use, Fenced, Promoting, Attempting

\* What is written through the cached id never reaches a collection that is
\* being rebuilt, and a deleted document is owed to nobody.
LEMMA UseData ==
  ASSUME Data, NEW c \in Collections, Use(c), NEW d \in Docs,
         UNCHANGED <<damaged, journal, goal>>,
         \/ docs' = docs /\ acked' = acked
         \/ docs' = [docs EXCEPT ![c] = @ \cup {d}] /\ acked' = acked \cup {d}
         \/ docs' = [docs EXCEPT ![c] = @ \ {d}] /\ acked' = acked \ {d}
  PROVE  Data'
<1>1. /\ ref' = c /\ name' \in [Collections -> Kinds] /\ name'[c] \in {"main", "backup"}
      /\ \A e \in Collections : name'[e] = name[e] \/ (e = c /\ name[e] = "free")
      /\ \A e, f \in Collections : name'[e] = "main" /\ name'[f] = "main" => e = f
  BY EnsureIs DEF Use, Data, Kinds
<1>2. /\ docs' \in [Collections -> SUBSET Docs] /\ acked' \subseteq Docs
      /\ \A e \in Collections : e # c => docs'[e] = docs[e]
  BY DEF Data
<1>3. journal # NoJournal =>
        /\ name'[journal.candidate] # "free"
        /\ name'[journal.candidate] = "recovery" =>
              goal[journal.candidate] \subseteq docs'[journal.candidate]
  BY <1>1, <1>2, JournalIs DEF Data
<1>4. \A x \in acked' : \E e \in Collections : name'[e] \in {"main", "backup"} /\ x \in docs'[e]
  <2> SUFFICES ASSUME NEW x \in acked'
               PROVE  \E e \in Collections : name'[e] \in {"main", "backup"} /\ x \in docs'[e]
    OBVIOUS
  <2>1. CASE x = d
    <3>1. docs' = [docs EXCEPT ![c] = @ \cup {d}] \/ (docs' = docs /\ acked' = acked)
      BY <2>1
    <3>2. CASE docs' = [docs EXCEPT ![c] = @ \cup {d}]
      BY <1>1, <2>1, <3>2 DEF Data
    <3>3. CASE docs' = docs /\ acked' = acked
      <4>1. PICK e \in Collections : name[e] \in {"main", "backup"} /\ x \in docs[e]
        BY <3>3 DEF Data
      <4> QED BY <1>1, <3>3, <4>1
    <3> QED BY <3>1, <3>2, <3>3
  <2>2. CASE x # d
    <3>1. x \in acked
      BY <2>2
    <3>2. PICK e \in Collections : name[e] \in {"main", "backup"} /\ x \in docs[e]
      BY <3>1 DEF Data
    <3>3. x \in docs'[e]
      BY <2>2, <3>2 DEF Data
    <3> QED BY <1>1, <3>2, <3>3
  <2> QED BY <2>1, <2>2
<1> QED BY <1>1, <1>2, <1>3, <1>4 DEF Data

LEMMA UseSteps ==
  ASSUME RInv, Touch \/ \E d \in Docs : Upsert(d) \/ DeleteDocuments(d)
  PROVE  RInv'
<1>1. UNCHANGED <<damaged, journal, goal, state, settings, threads, workers, run, budget>>
  BY DEF Touch, Upsert, DeleteDocuments, history
<1>2. Where'
  BY <1>1, UseWhere DEF Touch, Upsert, DeleteDocuments
<1>3. Control' /\ BudgetType'
  BY <1>1 DEF RInv, Control, BudgetType
<1>4. Data'
  <2>1. CASE Touch
    <3>1. UNCHANGED <<docs, damaged, journal, goal, acked>>
      BY <2>1 DEF Touch, history
    <3> QED BY <2>1, <3>1, EnsureData DEF Touch, Use, RInv
  <2>2. CASE \E d \in Docs : Upsert(d)
    BY <1>1, <2>2, UseData DEF Upsert, RInv
  <2>3. CASE \E d \in Docs : DeleteDocuments(d)
    BY <1>1, <2>3, UseData DEF DeleteDocuments, RInv
  <2> QED BY <2>1, <2>2, <2>3
<1> QED BY <1>2, <1>3, <1>4 DEF RInv

\* A reset takes the name away and owes nobody a document.
LEMMA ResetStep ==
  ASSUME RInv, ResetAll
  PROVE  RInv'
<1>1. UNCHANGED <<docs, damaged, journal, goal, state, settings, threads, workers, run>>
      /\ ref' = NoCollection /\ acked' = {}
  BY DEF ResetAll
<1>2. Control' /\ BudgetType'
  BY <1>1, SpendType DEF RInv, Control, ResetAll, Disturbances
<1>3. Where'
  BY <1>1 DEF RInv, Where, ResetAll, Fenced, Promoting, Attempting
<1>4. Data'
  <2>1. CASE name' = name
    BY <1>1, <2>1 DEF RInv, Data
  <2>2. CASE Main # NoCollection /\ Rename(Main, "gone")
    <3>1. Main \in Collections
      BY <2>2, MainIs DEF RInv, Main, Named
    <3>2. Renaming(Main, "gone")
      BY <1>1, <2>2, <3>1 DEF Renaming, Rename
    <3> QED BY <3>2, RenameData DEF RInv
  <2> QED BY <2>1, <2>2 DEF ResetAll
<1> QED BY <1>2, <1>3, <1>4 DEF RInv

LEMMA DamageStep ==
  ASSUME RInv, Damage
  PROVE  RInv'
<1>1. Main \in Collections
  BY DEF Damage, Main, Named
<1>2. UNCHANGED <<name, docs, journal, memory, run, history>>
      /\ damaged' = damaged \cup {Main}
  BY DEF Damage
<1>3. Data'
  BY <1>1, <1>2 DEF RInv, Data, memory, history
<1>4. Control' /\ Where' /\ BudgetType'
  BY <1>2, SpendType DEF RInv, Control, Where, Damage, Disturbances, memory, history
<1> QED BY <1>3, <1>4 DEF RInv

LEMMA CrashStep ==
  ASSUME RInv, Crash
  PROVE  RInv'
<1>1. Data'
  BY DEF RInv, Data, Crash, chroma, history
<1>2. /\ run' = [at |-> "down", by |-> "boot", candidate |-> NoCollection, snapshot |-> {}]
      /\ state' = "ready" /\ settings' = NoSettings /\ workers' = FALSE
      /\ threads' = [called |-> 0, waiting |-> 0, failed |-> 0, recheck |-> 0]
  BY DEF Crash, Resting, NoThreads
<1>3. threads' \in [{"called", "waiting", "failed", "recheck"} -> Nat]
  BY <1>2
<1>4. Control' /\ run'.at = "down"
  BY <1>2, <1>3 DEF Control, Steps, Sources, Attempting
<1> QED BY <1>1, <1>4, WhereNothing, SpendType DEF RInv, Crash, Disturbances

LEMMA RestartStep ==
  ASSUME RInv, Restart
  PROVE  RInv'
<1>1. Data'
  BY DEF RInv, Data, Restart, chroma, history
<1>2. Control' /\ run'.at = "lookup"
  BY DEF RInv, Control, Restart, Resting, Steps, Sources, Attempting
<1> QED BY <1>1, <1>2, WhereNothing DEF RInv, Restart, BudgetType

-----------------------------------------------------------------------------
(* The threads that retry after a settings sync.                             *)

LEMMA ThreadSteps ==
  ASSUME RInv, ThreadStep \/ UpdateConfig
  PROVE  RInv'
<1>1. UNCHANGED <<name, docs, damaged, journal, ref, goal, acked>>
  BY DEF ThreadStep, LoadState, Recheck, CompareAndSwap, UpdateConfig, chroma, history
<1>2. Data'
  BY <1>1, DataStutter DEF RInv
<1>3. BudgetType'
  BY SpendType DEF RInv, ThreadStep, LoadState, Recheck, CompareAndSwap, UpdateConfig,
                   Disturbances, BudgetType
<1>4. threads' \in [{"called", "waiting", "failed", "recheck"} -> Nat]
  <2>1. threads \in [{"called", "waiting", "failed", "recheck"} -> Nat]
    BY DEF RInv, Control
  <2>2. CASE UpdateConfig
    BY <2>1, <2>2 DEF UpdateConfig
  <2>3. CASE LoadState
    <3>1. /\ threads.called > 0 /\ threads.called - 1 \in Nat
          /\ state \in {"ready", "running", "waiting", "failed"}
      BY <2>1, <2>3 DEF LoadState, RInv, Control
    <3>2. CASE state \in {"ready", "running"}
      BY <2>1, <2>3, <3>1, <3>2 DEF LoadState
    <3>3. CASE state \in {"waiting", "failed"}
      <4> DEFINE t == [threads EXCEPT !.called = @ - 1]
      <4>1. t \in [{"called", "waiting", "failed", "recheck"} -> Nat]
        BY <2>1, <3>1
      <4>2. threads' = [t EXCEPT ![state] = @ + 1]
        BY <2>3, <3>3 DEF LoadState
      <4> HIDE DEF t
      <4> QED BY <3>3, <4>1, <4>2
    <3> QED BY <3>1, <3>2, <3>3
  <2>4. ASSUME NEW seen \in {"waiting", "failed"}, CompareAndSwap(seen)
        PROVE  threads' \in [{"called", "waiting", "failed", "recheck"} -> Nat]
    BY <2>1, <2>4 DEF CompareAndSwap
  <2>5. CASE Recheck
    <3> DEFINE t == [threads EXCEPT !.recheck = @ - 1]
    <3>1. t \in [{"called", "waiting", "failed", "recheck"} -> Nat]
      BY <2>1, <2>5 DEF Recheck
    <3>2. threads' = [t EXCEPT !.called = IF settings # NoSettings THEN @ + 1 ELSE @]
      BY <2>5 DEF Recheck
    <3> HIDE DEF t
    <3> QED BY <3>1, <3>2
  <2> QED BY <2>2, <2>3, <2>4, <2>5 DEF ThreadStep
<1>5. CASE run' = run /\ state' = state
  <2>1. settings' \in Settings \cup {NoSettings} /\ workers' = workers
    BY DEF RInv, Control, ThreadStep, LoadState, Recheck, CompareAndSwap, UpdateConfig
  <2>2. Control'
    BY <1>4, <1>5, <2>1 DEF RInv, Control
  <2>3. Where'
    BY <1>1, <1>5 DEF RInv, Where
  <2> QED BY <1>2, <1>3, <2>2, <2>3 DEF RInv
<1>6. CASE /\ state \in {"waiting", "failed"} /\ state' = "running"
           /\ run' = [Resting("lookup") EXCEPT !.by = "resume"]
           /\ UNCHANGED <<settings, workers>>
  <2>1. run' = [at |-> "lookup", by |-> "resume", candidate |-> NoCollection, snapshot |-> {}]
    BY <1>6 DEF Resting
  <2>2. Control' /\ run'.at = "lookup"
    BY <1>4, <1>6, <2>1 DEF RInv, Control, Steps, Sources, Attempting
  <2> QED BY <1>2, <1>3, <2>2, WhereNothing DEF RInv
<1> QED BY <1>5, <1>6 DEF ThreadStep, LoadState, Recheck, CompareAndSwap, UpdateConfig

-----------------------------------------------------------------------------
(* The attempt.                                                              *)

LEMMA SnapshotStep ==
  ASSUME RInv, Snapshot
  PROVE  RInv'
<1>1. run.at = "snapshot" /\ run.by # "boot" /\ journal = NoJournal
      /\ UNCHANGED <<name, docs, damaged, journal, ref, goal, acked>>
  BY DEF Snapshot, RInv, Control, Where, Attempting, chroma, history
<1>2. Data'
  BY <1>1, DataStutter DEF RInv
<1>3. ASSUME Fail PROVE Control' /\ Where'
  BY <1>1, <1>3, FailControl, WhereNothing DEF RInv
<1>4. ASSUME Main # NoCollection, run' = [run EXCEPT !.at = "embed", !.snapshot = docs[Main]],
             UNCHANGED <<state, threads, workers, settings>>
      PROVE  Control' /\ Where'
  <2>1. docs[Main] \in SUBSET Docs
    BY <1>4 DEF Main, Named, RInv, Data
  <2>2. run' \in [at : Steps, by : Sources,
                  candidate : Collections \cup {NoCollection}, snapshot : SUBSET Docs]
        /\ run'.at = "embed" /\ run'.by = run.by
    BY <1>4, <2>1 DEF RInv, Control, Steps
  <2>3. Control'
    BY <1>1, <1>4, <2>2 DEF RInv, Control
  <2> QED BY <1>1, <2>2, <2>3 DEF Where, Promoting, Attempting
<1>5. BudgetType'
  BY SpendType DEF Snapshot, RInv, BudgetType, Disturbances
<1> QED BY <1>2, <1>3, <1>4, <1>5 DEF RInv, Snapshot

LEMMA EmbedStep ==
  ASSUME RInv, Embed \/ WaitForSettings
  PROVE  RInv'
<1>1. run.at \in {"embed", "missing"} /\ run.by # "boot" /\ journal = NoJournal
      /\ UNCHANGED <<name, docs, damaged, journal, ref, goal, acked>>
  BY DEF Embed, WaitForSettings, RInv, Control, Where, Attempting, chroma, history
<1>2. Data'
  BY <1>1, DataStutter DEF RInv
<1>3. ASSUME Fail PROVE Control' /\ Where'
  BY <1>1, <1>3, FailControl, WhereNothing DEF RInv
<1>4. ASSUME NEW at \in {"create", "missing"}, Proceed(at) PROVE Control' /\ Where'
  <2>1. Control' /\ run'.at = at
    BY <1>1, <1>4, ProceedControl DEF RInv, Steps, Attempting
  <2> QED BY <1>1, <2>1 DEF Where, Promoting, Attempting
<1>5. CASE Embed
  BY <1>2, <1>3, <1>4, <1>5, SpendType DEF Embed, RInv, BudgetType, Disturbances
<1>6. CASE WaitForSettings
  <2>1. /\ run' = [at |-> "idle", by |-> "boot", candidate |-> NoCollection, snapshot |-> {}]
        /\ state' = "waiting" /\ UNCHANGED <<settings, workers, budget>>
        /\ threads' = [threads EXCEPT !.recheck = @ + 1]
    BY <1>6 DEF WaitForSettings, Resting
  <2>2. threads' \in [{"called", "waiting", "failed", "recheck"} -> Nat]
    BY <2>1 DEF RInv, Control
  <2>3. Control' /\ run'.at = "idle"
    BY <1>1, <2>1, <2>2 DEF RInv, Control, Steps, Sources, Attempting
  <2> QED BY <1>2, <2>1, <2>3, WhereNothing DEF RInv, BudgetType
<1> QED BY <1>5, <1>6

LEMMA CreateStep ==
  ASSUME RInv, Create
  PROVE  RInv'
<1>1. run.at = "create" /\ run.by # "boot" /\ journal = NoJournal
      /\ UNCHANGED <<docs, damaged, journal, ref, acked>>
  BY DEF Create, RInv, Control, Where, Attempting
<1>2. ASSUME Fail PROVE Control' /\ Where'
  BY <1>1, <1>2, FailControl, WhereNothing DEF RInv
<1>3. ASSUME NEW c \in Named("free"), Rename(c, "recovery"),
             goal' = [goal EXCEPT ![c] = run.snapshot]
      PROVE  Data'
  <2>1. Renaming(c, "recovery")
    BY <1>1, <1>3 DEF Renaming, Rename, Named, RInv, Data, Control
  <2> QED BY <2>1, RenameData DEF RInv
<1>4. ASSUME Main # NoCollection, NEW c \in Named("free"), Rename(c, "recovery"),
             goal' = [goal EXCEPT ![c] = run.snapshot],
             run' = [run EXCEPT !.at = "rebuild", !.by = "rebuild", !.candidate = c],
             UNCHANGED <<state, threads, workers, settings, budget>>
      PROVE  Control' /\ Where'
  <2> DEFINE h == [run EXCEPT !.at = "rebuild", !.by = "rebuild", !.candidate = c]
  <2>1. c \in Collections /\ name[c] = "free"
    BY DEF Named
  <2>2. h \in [at : Steps, by : Sources,
               candidate : Collections \cup {NoCollection}, snapshot : SUBSET Docs]
        /\ h.at = "rebuild" /\ h.by = "rebuild" /\ h.candidate = c /\ h.snapshot = run.snapshot
    BY <2>1 DEF RInv, Control, Steps, Sources
  <2>3. run' = h
    BY <1>4
  <2> HIDE DEF h
  <2>4. Control'
    BY <1>1, <1>4, <2>2, <2>3 DEF RInv, Control, Attempting
  <2>5. name'[c] = "recovery" /\ goal'[c] = run.snapshot
    BY <1>4, <2>1 DEF Rename, RInv, Data
  <2>6. PICK m \in Collections : name[m] = "main"
    BY <1>4, MainIs DEF RInv
  <2>7. name'[m] = "main"
    BY <1>4, <2>1, <2>6 DEF Rename, RInv, Data
  <2> QED BY <1>1, <2>1, <2>2, <2>3, <2>4, <2>5, <2>6, <2>7 DEF Where, Promoting, Attempting
<1>5. BudgetType'
  BY SpendType DEF Create, RInv, BudgetType, Disturbances
<1>6. CASE Fail /\ UNCHANGED <<name, goal>>
  BY <1>1, <1>2, <1>5, <1>6, DataStutter DEF RInv
<1> QED BY <1>2, <1>3, <1>4, <1>5, <1>6 DEF RInv, Create

LEMMA RebuildSteps ==
  ASSUME RInv, RebuildBatch \/ RebuildDone
  PROVE  RInv'
<1>1. /\ run.at = "rebuild" /\ journal = NoJournal /\ run.candidate \in Collections
      /\ name[run.candidate] = "recovery" /\ goal[run.candidate] = run.snapshot
      /\ \E c \in Collections : name[c] = "main"
      /\ UNCHANGED <<name, damaged, journal, ref, state, settings, threads, workers, goal, acked, budget>>
  BY DEF RebuildBatch, RebuildDone, RInv, Where, Attempting, chroma, memory, history
<1>2. CASE RebuildBatch
  <2>1. PICK d \in run.snapshot :
             docs' = [docs EXCEPT ![run.candidate] = @ \cup {d}] /\ run' = run
    BY <1>2 DEF RebuildBatch
  <2>2. d \in Docs
    BY <2>1 DEF RInv, Control
  <2>3. docs' \in [Collections -> SUBSET Docs]
        /\ \A e \in Collections : docs[e] \subseteq docs'[e]
    BY <1>1, <2>1, <2>2 DEF RInv, Data
  <2>4. Data'
    BY <1>1, <2>3 DEF RInv, Data
  <2>5. Control' /\ Where' /\ BudgetType'
    BY <1>1, <2>1 DEF RInv, Control, Where, BudgetType, Promoting
  <2> QED BY <2>4, <2>5 DEF RInv
<1>3. CASE RebuildDone
  <2>1. run.snapshot \subseteq docs[run.candidate] /\ docs' = docs /\ Proceed("write")
    BY <1>1, <1>3 DEF RebuildDone, Proceed, chroma
  <2>2. /\ Control' /\ run'.at = "write" /\ run'.candidate = run.candidate
        /\ run'.snapshot = run.snapshot
    BY <1>1, <2>1, ProceedControl DEF RInv, Control, Steps, Attempting
  <2>3. Where'
    BY <1>1, <2>1, <2>2 DEF Where, Promoting, Attempting
  <2> QED BY <1>1, <2>1, <2>2, <2>3, DataStutter DEF RInv, BudgetType
<1> QED BY <1>2, <1>3

LEMMA RebuildFailsStep ==
  ASSUME RInv, RebuildFails
  PROVE  RInv'
<1>1. /\ run.at = "rebuild" /\ run.candidate \in Collections /\ name[run.candidate] = "recovery"
      /\ UNCHANGED <<docs, damaged, journal, ref, goal, acked>> /\ Fail
  BY DEF RebuildFails, RInv, Where, history
<1>2. Control' /\ Where'
  BY <1>1, FailControl, WhereNothing DEF RInv
<1>3. Data'
  <2>1. CASE name' = name
    BY <1>1, <2>1, DataStutter DEF RInv
  <2>2. CASE Rename(run.candidate, "gone")
    <3>1. Renaming(run.candidate, "gone")
      BY <1>1, <2>2 DEF Renaming, Rename
    <3> QED BY <3>1, RenameData DEF RInv
  <2> QED BY <2>1, <2>2 DEF RebuildFails
<1> QED BY <1>2, <1>3, SpendType DEF RInv, RebuildFails, Disturbances

LEMMA WriteJournalStep ==
  ASSUME RInv, WriteJournal
  PROVE  RInv'
<1>1. /\ run.at = "write" /\ journal = NoJournal /\ run.candidate \in Collections
      /\ name[run.candidate] = "recovery" /\ goal[run.candidate] = run.snapshot
      /\ run.snapshot \subseteq docs[run.candidate]
      /\ UNCHANGED <<name, docs, damaged, ref, goal, acked>>
  BY DEF WriteJournal, RInv, Where, Attempting, chroma, history
<1>2. Main \in Collections
  BY <1>1, MainIs DEF RInv, Where, Main, Named
<1>3. Data'
  <2>1. CASE journal' = journal
    BY <1>1, <2>1, DataStutter DEF RInv
  <2>2. CASE journal' = [original |-> Main, candidate |-> run.candidate]
    <3>1. journal'.candidate = run.candidate
          /\ journal' \in [original : Collections, candidate : Collections]
      BY <1>1, <1>2, <2>2
    <3> QED BY <1>1, <3>1 DEF RInv, Data
  <2> QED BY <2>1, <2>2 DEF WriteJournal
<1>4. ASSUME Fail PROVE Control' /\ Where'
  BY <1>1, <1>4, FailControl, WhereNothing DEF RInv
<1>5. ASSUME Proceed("lookup") PROVE Control' /\ Where'
  BY <1>1, <1>5, ProceedControl, WhereNothing DEF RInv, Steps, Attempting
<1> QED BY <1>3, <1>4, <1>5, SpendType DEF RInv, WriteJournal, BudgetType, Disturbances

-----------------------------------------------------------------------------

LEMMA RInvInit == Init => RInv
<1> SUFFICES ASSUME Init PROVE RInv
  OBVIOUS
<1>1. /\ run = [at |-> "down", by |-> "boot", candidate |-> NoCollection, snapshot |-> {}]
      /\ threads = [called |-> 0, waiting |-> 0, failed |-> 0, recheck |-> 0]
      /\ state = "ready" /\ settings = NoSettings /\ workers = FALSE
  BY DEF Init, Resting, NoThreads
<1>2. threads \in [{"called", "waiting", "failed", "recheck"} -> Nat]
  BY <1>1
<1>3. Control
  BY <1>1, <1>2 DEF Control, Steps, Sources, Attempting
<1>4. Data
  BY DEF Init, Data, Kinds
<1>5. Where
  BY <1>1 DEF Init, Where, Promoting, Attempting
<1> QED BY <1>3, <1>4, <1>5, RecoveryAssumption DEF Init, RInv, BudgetType

LEMMA RInvNext == RInv /\ [Next]_vars => RInv'
<1> SUFFICES ASSUME RInv, [Next]_vars PROVE RInv'
  OBVIOUS
<1>1. CASE RunStep
  BY <1>1, LookupStep, PreserveStep, PromoteStep, AdoptStep, UnlinkStep, HealthStep, SnapshotStep,
     EmbedStep, CreateStep, RebuildSteps, RebuildFailsStep, WriteJournalStep DEF RunStep
<1>2. CASE Restart \/ ThreadStep \/ UpdateConfig \/ ResetAll \/ Damage \/ Crash
  BY <1>2, RestartStep, ThreadSteps, ResetStep, DamageStep, CrashStep
<1>3. CASE Touch \/ \E d \in Docs : Upsert(d) \/ DeleteDocuments(d)
  BY <1>3, UseSteps
<1>4. CASE UNCHANGED vars
  BY <1>4 DEF vars, chroma, memory, history, RInv, Control, Data, Where, BudgetType
<1> QED BY <1>1, <1>2, <1>3, <1>4 DEF Next

LEMMA RInvAlways == Spec => []RInv
BY RInvInit, RInvNext, PTL DEF Spec

\* Collections, journal, attempt and threads keep their shape, and the name is
\* borne once, whatever fails, crashes or is reset.
THEOREM RecoveryTypeCorrect == Spec => []TypeOK
<1>1. RInv => TypeOK
  BY DEF RInv, Control, Data, BudgetType, TypeOK, Kinds, Sources, Named
<1> QED BY <1>1, RInvAlways, PTL

\* No document that was written and not deleted leaves the collection in use
\* and the backups.
THEOREM NothingIsLost == Spec => []NothingLost
<1>1. RInv => NothingLost
  BY DEF RInv, Data, NothingLost, Named
<1> QED BY <1>1, RInvAlways, PTL

\* The background worker never meets a recovery, and there is one at a time.
THEOREM WorkersWait == Spec => []WorkersWaitForIndex
<1>1. RInv => WorkersWaitForIndex
  BY DEF RInv, Control, WorkersWaitForIndex
<1> QED BY <1>1, RInvAlways, PTL

\* Only a complete rebuild takes the name, also after a crash between the
\* rebuild, the journal and the two renames.
THEOREM OnlyCompleteIsPromoted == Spec => OnlyCompletePromoted
<1>1. ASSUME RInv, [Next]_vars, NEW c \in Collections, name[c] = "recovery", name'[c] = "main"
      PROVE  goal[c] \subseteq docs[c]
  <2>1. CASE Promote
    <3>1. journal # NoJournal /\ journal.candidate \in Collections
      BY <1>1, <2>1, JournalIs DEF Promote, RInv, Where, Promoting
    <3>2. name' = name \/ name' = [name EXCEPT ![journal.candidate] = "main"]
      BY <1>1, <2>1, <3>1, RenameOutcome DEF Promote, Steps
    <3>3. c = journal.candidate
      BY <1>1, <3>1, <3>2 DEF RInv, Data
    <3> QED BY <1>1, <3>1, <3>3 DEF RInv, Data
  <2>2. CASE Preserve
    <3>1. journal # NoJournal /\ journal.original \in Collections
      BY <1>1, <2>2, JournalIs DEF Preserve, RInv, Where, Promoting
    <3>2. name' = name \/ name' = [name EXCEPT ![journal.original] = "backup"]
      BY <1>1, <2>2, <3>1, RenameOutcome DEF Preserve, Steps
    <3> QED BY <1>1, <3>1, <3>2 DEF RInv, Data
  <2>3. CASE \E e \in Collections : Ensure(e)
    <3>1. name'[c] = name[c] \/ name[c] = "free"
      BY <1>1, <2>3, EnsureIs DEF RInv, Data
    <3> QED BY <1>1, <3>1
  <2>4. CASE \E e \in Collections, kind \in {"gone", "recovery"} : Rename(e, kind)
    BY <1>1, <2>4 DEF Rename, RInv, Data
  <2>5. CASE name' = name
    BY <1>1, <2>5
  <2>6. CASE ResetAll
    <3>1. Main # NoCollection => Main \in Collections
      BY DEF Main, Named
    <3> QED BY <2>4, <2>5, <2>6, <3>1 DEF ResetAll
  <2>7. CASE RebuildFails
    <3>1. run.candidate \in Collections
      BY <1>1, <2>7 DEF RebuildFails, RInv, Where
    <3> QED BY <2>4, <2>5, <2>7, <3>1 DEF RebuildFails
  <2>8. CASE Create
    BY <2>4, <2>5, <2>8 DEF Create, Named
  <2>9. CASE Health \/ Touch \/ \E d \in Docs : Upsert(d) \/ DeleteDocuments(d)
    BY <2>3, <2>5, <2>9 DEF Health, Touch, Upsert, DeleteDocuments, Use
  <2>10. CASE \/ Restart \/ ThreadStep \/ UpdateConfig \/ Damage \/ Crash \/ UNCHANGED vars
              \/ Lookup \/ Adopt \/ Unlink \/ Snapshot \/ Embed \/ WaitForSettings
              \/ RebuildBatch \/ RebuildDone \/ WriteJournal
    BY <2>5, <2>10 DEF Restart, ThreadStep, LoadState, Recheck, CompareAndSwap, UpdateConfig,
         Damage, Crash, vars, Lookup, Adopt, Unlink, Snapshot, Embed, WaitForSettings,
         RebuildBatch, RebuildDone, WriteJournal, chroma
  <2> QED BY <1>1, <2>1, <2>2, <2>6, <2>7, <2>8, <2>9, <2>10 DEF Next, RunStep
<1>2. RInv /\ [Next]_vars =>
        [\A c \in Collections :
            name[c] = "recovery" /\ name'[c] = "main" => goal[c] \subseteq docs[c]]_vars
  BY <1>1
<1> QED BY <1>2, RInvAlways, PTL DEF Spec, OnlyCompletePromoted

-----------------------------------------------------------------------------
(* Without admin resets the journal is always resumable, and recovery is a   *)
(* CollectionSwap.  A reset with an open journal takes away the candidate,   *)
(* or lets a third collection take the name.                                 *)

NoReset == Budget["reset"] = 0

\* The journal names two collections, the candidate still exists and nobody
\* else bears the name.
Resumable ==
  journal # NoJournal =>
    /\ name[journal.candidate] \in {"recovery", "main"}
    /\ journal.original # journal.candidate
    /\ \A c \in Collections : name[c] = "main" => c \in {journal.original, journal.candidate}

\* A process that serves requests knows the id, so it creates no collection.
Known == run.at = "idle" \/ run.by # "boot" => ref # NoCollection

ResetSpent == budget["reset"] = 0

SInv == RInv /\ Resumable /\ Known /\ ResetSpent

\* What a step may do to the names and the journal.
Moves ==
  \/ UNCHANGED <<name, journal>>
  \/ /\ journal = NoJournal /\ journal' = journal
     /\ \E c \in Collections :
          \/ name[c] = "free" /\ name' = [name EXCEPT ![c] = "recovery"]
          \/ name[c] = "recovery" /\ name' = [name EXCEPT ![c] = "gone"]
          \/ /\ name[c] = "free" /\ \A e \in Collections : name[e] # "main"
             /\ name' = [name EXCEPT ![c] = "main"]
  \/ /\ journal # NoJournal /\ journal' = journal
     /\ \/ /\ name[journal.original] = "main"
           /\ name' = [name EXCEPT ![journal.original] = "backup"]
        \/ /\ \A e \in Collections : name[e] # "main"
           /\ name' = [name EXCEPT ![journal.candidate] = "main"]
  \/ /\ journal = NoJournal /\ name' = name
     /\ \E o, c \in Collections :
          /\ name[o] = "main" /\ name[c] = "recovery"
          /\ journal' = [original |-> o, candidate |-> c]
  \/ /\ journal # NoJournal /\ journal' = NoJournal
     /\ name' = name /\ name[journal.candidate] = "main"

\* A use of the collection by a process that knows its id moves nothing; only
\* the preflight's health check names a collection, and no journal is open then.
LEMMA EnsureMoves ==
  ASSUME SInv, NEW c \in Collections, Ensure(c), journal' = journal,
         Serving \/ run.at = "health"
  PROVE  Moves
<1>1. CASE Serving
  BY <1>1, EnsureIs DEF SInv, RInv, Known, Serving, Moves
<1>2. CASE run.at = "health"
  <2>1. journal = NoJournal
    BY <1>2 DEF SInv, RInv, Where
  <2> QED BY <2>1, EnsureIs DEF SInv, RInv, Moves
<1> QED BY <1>1, <1>2

LEMMA MovesNext ==
  ASSUME SInv, [Next]_vars
  PROVE  Moves
<1>1. CASE Promote
  <2>1. /\ journal # NoJournal /\ journal.candidate \in Collections
        /\ \A e \in Collections : name[e] # "main"
    BY <1>1, JournalIs DEF Promote, SInv, RInv, Where, Promoting
  <2>2. name' = name \/ name' = [name EXCEPT ![journal.candidate] = "main"]
    BY <1>1, <2>1, RenameOutcome DEF Promote, Steps, SInv
  <2> QED BY <1>1, <2>1, <2>2 DEF Promote, Moves
<1>2. CASE Preserve
  <2>1. /\ journal # NoJournal /\ journal.original \in Collections
        /\ name[journal.original] = "main"
    BY <1>2, JournalIs DEF Preserve, SInv, RInv, Where, Promoting
  <2>2. name' = name \/ name' = [name EXCEPT ![journal.original] = "backup"]
    BY <1>2, <2>1, RenameOutcome DEF Preserve, Steps, SInv
  <2> QED BY <1>2, <2>1, <2>2 DEF Preserve, Moves
<1>3. CASE Health
  BY <1>3, EnsureMoves DEF Health, Moves
<1>4. CASE Touch \/ \E d \in Docs : Upsert(d) \/ DeleteDocuments(d)
  BY <1>4, EnsureMoves DEF Touch, Upsert, DeleteDocuments, Use
<1>5. CASE ResetAll
  BY <1>5 DEF ResetAll, Spend, SInv, ResetSpent
<1>6. CASE RebuildFails
  <2>1. /\ run.candidate \in Collections /\ name[run.candidate] = "recovery"
        /\ journal = NoJournal /\ journal' = journal
    BY <1>6 DEF RebuildFails, SInv, RInv, Where, Attempting
  <2> QED BY <1>6, <2>1 DEF RebuildFails, Rename, Moves
<1>7. CASE Create
  <2>1. journal = NoJournal /\ journal' = journal
    BY <1>7 DEF Create, SInv, RInv, Where, Attempting
  <2> QED BY <1>7, <2>1 DEF Create, Rename, Named, Moves
<1>8. CASE Unlink
  <2>1. journal # NoJournal /\ name[journal.candidate] = "main" /\ name' = name
    BY <1>8 DEF Unlink, SInv, RInv, Where, Promoting, chroma
  <2> QED BY <1>8, <2>1 DEF Unlink, Moves
<1>9. CASE WriteJournal
  <2>1. /\ journal = NoJournal /\ run.candidate \in Collections /\ name' = name
        /\ name[run.candidate] = "recovery" /\ \E c \in Collections : name[c] = "main"
    BY <1>9 DEF WriteJournal, SInv, RInv, Where, Attempting, chroma
  <2>2. Main \in Collections /\ name[Main] = "main"
    BY <2>1, MainIs DEF SInv, RInv
  <2> QED BY <1>9, <2>1, <2>2 DEF WriteJournal, Moves
<1>10. CASE \/ Restart \/ ThreadStep \/ UpdateConfig \/ Damage \/ Crash \/ UNCHANGED vars
            \/ Lookup \/ Adopt \/ Snapshot \/ Embed \/ WaitForSettings
            \/ RebuildBatch \/ RebuildDone
  BY <1>10 DEF Restart, ThreadStep, LoadState, Recheck, CompareAndSwap, UpdateConfig,
       Damage, Crash, vars, Lookup, Adopt, Snapshot, Embed, WaitForSettings,
       RebuildBatch, RebuildDone, chroma, Moves
<1> QED BY <1>1, <1>2, <1>3, <1>4, <1>5, <1>6, <1>7, <1>8, <1>9, <1>10 DEF Next, RunStep

LEMMA ResumableNext ==
  ASSUME Data, Resumable, Moves
  PROVE  Resumable'
<1>1. CASE UNCHANGED <<name, journal>>
  BY <1>1 DEF Resumable
<1>2. CASE journal' = NoJournal
  BY <1>2 DEF Resumable
<1>3. CASE /\ journal # NoJournal /\ journal' = journal
           /\ name' = [name EXCEPT ![journal.original] = "backup"]
  BY <1>3, JournalIs DEF Resumable, Data
<1>4. CASE /\ journal # NoJournal /\ journal' = journal
           /\ \A e \in Collections : name[e] # "main"
           /\ name' = [name EXCEPT ![journal.candidate] = "main"]
  BY <1>4, JournalIs DEF Resumable, Data
<1>5. ASSUME name' = name, NEW o \in Collections, NEW c \in Collections,
             name[o] = "main", name[c] = "recovery",
             journal' = [original |-> o, candidate |-> c]
      PROVE  Resumable'
  BY <1>5 DEF Resumable, Data
<1> QED BY <1>1, <1>2, <1>3, <1>4, <1>5 DEF Moves

\* Requests are served, and attempts run, over a collection that was found.
LEMMA KnownNext ==
  ASSUME SInv, [Next]_vars
  PROVE  Known'
<1>1. ASSUME Fail, run.at # "idle", ref' = ref \/ ref' # NoCollection PROVE Known'
  BY <1>1, FailControl DEF SInv, RInv, Known, Fail, Resting
<1>2. ASSUME NEW at \in Steps \ {"idle", "down"}, Proceed(at),
             ref' = ref \/ ref' # NoCollection
      PROVE  Known'
  <2>1. run' = [run EXCEPT !.at = at]
    BY <1>2 DEF Proceed, GoTo
  <2>2. run'.at = at /\ run'.by = run.by
    BY <2>1 DEF SInv, RInv, Control
  <2> QED BY <1>2, <2>2 DEF SInv, Known
<1>3. CASE run.by # "boot" /\ (ref' = ref \/ ref' # NoCollection)
  BY <1>3 DEF SInv, Known
<1>4. CASE ref' # NoCollection
  BY <1>4 DEF Known
<1>5. CASE run' = run /\ ref' = ref
  BY <1>5 DEF SInv, Known
<1>6. CASE Lookup \/ Preserve \/ Promote \/ Unlink
  <2>1. /\ run.at \notin {"idle"} /\ ref' = ref
        /\ \/ Fail
           \/ \E at \in Steps \ {"idle", "down"} : Proceed(at)
           \/ run.by = "rebuild"
    <3>1. CASE Lookup
      BY <3>1 DEF Lookup, Steps
    <3>2. CASE Preserve
      BY <3>2 DEF Preserve, RenameStep, Steps
    <3>3. CASE Promote
      BY <3>3 DEF Promote, RenameStep, Steps
    <3>4. CASE Unlink
      BY <3>4 DEF Unlink, Steps
    <3> QED BY <1>6, <3>1, <3>2, <3>3, <3>4
  <2> QED BY <1>1, <1>2, <1>3, <2>1
<1>7. CASE Adopt
  <2>1. journal.candidate \in Collections
    BY <1>7, JournalIs DEF Adopt, SInv, RInv, Where, Promoting
  <2> QED BY <1>4, <1>7, <2>1, RecoveryAssumption DEF Adopt
<1>8. CASE Health
  <2>1. \A c \in Collections : Ensure(c) => ref' # NoCollection
    BY EnsureIs, RecoveryAssumption DEF SInv, RInv
  <2>2. run.at = "health" /\ "snapshot" \in Steps \ {"idle", "down"}
    BY <1>8 DEF Health, Steps
  <2> QED BY <1>1, <1>2, <1>4, <1>8, <2>1, <2>2 DEF Health
<1>9. CASE \/ Snapshot \/ Embed \/ WaitForSettings \/ Create \/ RebuildBatch \/ RebuildDone
           \/ WriteJournal \/ RebuildFails
  <2>1. run.by # "boot"
    BY <1>9 DEF Snapshot, Embed, WaitForSettings, Create, RebuildBatch, RebuildDone,
                WriteJournal, RebuildFails, SInv, RInv, Control, Attempting
  <2>2. ref' = ref
    BY <1>9 DEF Snapshot, Embed, WaitForSettings, Create, RebuildBatch, RebuildDone,
                WriteJournal, RebuildFails, memory
  <2> QED BY <1>3, <2>1, <2>2
<1>10. CASE ThreadStep
  <2>1. ref' = ref /\ (run' = run \/ state \in {"waiting", "failed"})
    BY <1>10 DEF ThreadStep, LoadState, Recheck, CompareAndSwap
  <2>2. state \in {"waiting", "failed"} => run.at = "idle"
    BY DEF SInv, RInv, Control
  <2> QED BY <1>5, <2>1, <2>2 DEF SInv, Known
<1>11. CASE Restart \/ Crash
  BY <1>11 DEF Restart, Crash, Resting, Known
<1>12. CASE Touch \/ \E d \in Docs : Upsert(d) \/ DeleteDocuments(d)
  <2>1. PICK c \in Collections : Use(c)
    BY <1>12 DEF Touch, Upsert, DeleteDocuments
  <2> QED BY <1>4, <2>1, EnsureIs, RecoveryAssumption DEF Use, SInv, RInv
<1>13. CASE ResetAll
  BY <1>13 DEF ResetAll, Spend, SInv, ResetSpent
<1>14. CASE UpdateConfig \/ Damage \/ UNCHANGED vars
  BY <1>5, <1>14 DEF UpdateConfig, Damage, vars, memory
<1> QED BY <1>6, <1>7, <1>8, <1>9, <1>10, <1>11, <1>12, <1>13, <1>14 DEF Next, RunStep

LEMMA ResetSpentNext ==
  ASSUME SInv, [Next]_vars
  PROVE  ResetSpent'
<1>1. budget' = budget \/ \E kind \in Disturbances : Spend(kind)
  BY DEF Next, RunStep, Restart, ThreadStep, LoadState, Recheck, CompareAndSwap, UpdateConfig,
     Damage, Crash, vars, Lookup, Preserve, Promote, RenameStep, Adopt, Unlink, Health, Snapshot,
     Embed, WaitForSettings, Create, RebuildBatch, RebuildDone, RebuildFails, WriteJournal, Touch,
     Upsert, DeleteDocuments, ResetAll, Disturbances
<1>2. "reset" \in Disturbances
  BY DEF Disturbances
<1>3. CASE budget' = budget
  BY <1>3 DEF SInv, ResetSpent
<1>4. CASE \E kind \in Disturbances : Spend(kind)
  <2>1. BudgetType' /\ budget'["reset"] <= budget["reset"]
    BY <1>2, <1>4, SpendType DEF SInv, RInv
  <2> QED BY <1>2, <2>1 DEF SInv, ResetSpent, BudgetType
<1> QED BY <1>1, <1>3, <1>4

LEMMA SInvAlways == ASSUME NoReset PROVE Spec => []SInv
<1>1. Init => SInv
  <2> SUFFICES ASSUME Init PROVE SInv
    OBVIOUS
  <2>1. Resumable /\ ResetSpent
    BY NoReset DEF Init, Resumable, ResetSpent, NoReset
  <2>2. Known
    BY DEF Init, Known, Resting
  <2> QED BY <2>1, <2>2, RInvInit DEF SInv
<1>2. SInv /\ [Next]_vars => SInv'
  <2> SUFFICES ASSUME SInv, [Next]_vars PROVE SInv'
    OBVIOUS
  <2>1. Resumable'
    BY MovesNext, ResumableNext DEF SInv, RInv
  <2> QED BY <2>1, RInvNext, KnownNext, ResetSpentNext DEF SInv
<1> QED BY <1>1, <1>2, PTL DEF Spec

\* As long as nobody resets the store, every start finds the journal's
\* candidate and only the journal's collections under the name.
THEOREM JournalStaysResumable == ASSUME NoReset PROVE Spec => []JournalResumable
<1>1. SInv => JournalResumable
  <2> SUFFICES ASSUME SInv, journal # NoJournal
               PROVE  /\ name[journal.candidate] \in {"recovery", "main"}
                      /\ Main \in {NoCollection, journal.original, journal.candidate}
    BY DEF JournalResumable
  <2>1. Main = NoCollection \/ (Main \in Collections /\ name[Main] = "main")
    BY DEF Main, Named
  <2> QED BY <2>1 DEF SInv, Resumable
<1> QED BY <1>1, SInvAlways, PTL

-----------------------------------------------------------------------------
(* The refinement.                                                           *)

\* What CHOOSE returns after a step.
LEMMA MainIsNext ==
  ASSUME Data'
  PROVE  /\ Main' = NoCollection <=> \A c \in Collections : name'[c] # "main"
         /\ \A c \in Collections : Main' = c <=> name'[c] = "main"
<1>1. CASE Named("main")' = {}
  BY <1>1, RecoveryAssumption DEF Main, Named
<1>2. CASE Named("main")' # {}
  <2>1. PICK c \in Collections : name'[c] = "main"
    BY <1>2 DEF Named
  <2>2. Main' \in Collections /\ name'[Main'] = "main"
    BY <1>2, <2>1 DEF Main
  <2> QED BY <2>1, <2>2, RecoveryAssumption DEF Data
<1> QED BY <1>1, <1>2

\* Every move of the recovery is a step of the swap, or none of it.
LEMMA MovesSwap ==
  ASSUME Data, Data', Resumable, Moves
  PROVE  [Swap!Next]_(Swap!vars)
<1> DEFINE Same == UNCHANGED <<Main, journal.candidate, Named("backup")>>
<1>1. CASE UNCHANGED <<name, journal>>
  <2>1. Same
    BY <1>1 DEF Main, Named
  <2> QED BY <2>1 DEF Swap!vars
<1>2. ASSUME journal = NoJournal, journal' = journal, NEW c \in Collections,
             NEW kind \in {"recovery", "gone"}, name[c] \in {"free", "recovery"},
             name' = [name EXCEPT ![c] = kind]
      PROVE  [Swap!Next]_(Swap!vars)
  <2>1. \A e \in Collections : /\ name'[e] = "main" <=> name[e] = "main"
                               /\ name'[e] = "backup" <=> name[e] = "backup"
    BY <1>2 DEF Data
  <2>2. Main' = Main
    BY <2>1, MainIs, MainIsNext, RecoveryAssumption
  <2>3. Named("backup")' = Named("backup")
    BY <2>1 DEF Named
  <2> QED BY <1>2, <2>2, <2>3 DEF Swap!vars
<1>3. ASSUME journal = NoJournal, journal' = journal, NEW c \in Collections, name[c] = "free",
             \A e \in Collections : name[e] # "main", name' = [name EXCEPT ![c] = "main"]
      PROVE  [Swap!Next]_(Swap!vars)
  <2>1. name'[c] = "main" /\ \A e \in Collections : name'[e] = "backup" <=> name[e] = "backup"
    BY <1>3 DEF Data
  <2>2. Main = NoCollection /\ Main' = c
    BY <1>3, <2>1, MainIs, MainIsNext
  <2>3. Named("backup")' = Named("backup") /\ c \notin Named("backup")
    BY <1>3, <2>1 DEF Named
  <2>4. journal.candidate = NoCollection /\ journal'.candidate = journal.candidate
    BY <1>3 DEF NoJournal
  <2> QED BY <2>2, <2>3, <2>4 DEF Swap!Next, Swap!Create
<1>4. ASSUME journal # NoJournal, journal' = journal, name[journal.original] = "main",
             name' = [name EXCEPT ![journal.original] = "backup"]
      PROVE  [Swap!Next]_(Swap!vars)
  <2>1. /\ journal.original \in Collections /\ journal.candidate \in Collections
        /\ journal.original # journal.candidate
    BY <1>4, JournalIs DEF Resumable
  <2>2. /\ \A e \in Collections : name'[e] # "main"
        /\ \A e \in Collections : name'[e] = "backup" <=> name[e] = "backup" \/ e = journal.original
    BY <1>4, <2>1 DEF Data
  <2>3. Main = journal.original /\ Main' = NoCollection
    BY <1>4, <2>1, <2>2, MainIs, MainIsNext
  <2>4. Named("backup")' = Named("backup") \cup {journal.original}
    BY <2>1, <2>2 DEF Named
  <2>5. journal.candidate # NoCollection /\ journal.original # NoCollection
    BY <2>1, RecoveryAssumption
  <2>6. journal'.candidate = journal.candidate
    BY <1>4
  <2> QED BY <2>1, <2>3, <2>4, <2>5, <2>6 DEF Swap!Next, Swap!Retire
<1>5. ASSUME journal # NoJournal, journal' = journal, \A e \in Collections : name[e] # "main",
             name' = [name EXCEPT ![journal.candidate] = "main"]
      PROVE  [Swap!Next]_(Swap!vars)
  <2>1. /\ journal.candidate \in Collections /\ journal.candidate # NoCollection
        /\ name[journal.candidate] = "recovery"
    BY <1>5, JournalIs, RecoveryAssumption DEF Resumable
  <2>2. /\ name'[journal.candidate] = "main"
        /\ \A e \in Collections : name'[e] = "backup" <=> name[e] = "backup"
    BY <1>5, <2>1 DEF Data
  <2>3. Main = NoCollection /\ Main' = journal.candidate
    BY <1>5, <2>1, <2>2, MainIs, MainIsNext
  <2>4. Named("backup")' = Named("backup")
    BY <2>2 DEF Named
  <2>5. journal'.candidate = journal.candidate
    BY <1>5
  <2> QED BY <2>1, <2>3, <2>4, <2>5 DEF Swap!Next, Swap!Promote
<1>6. ASSUME journal = NoJournal, name' = name, NEW o \in Collections, NEW c \in Collections,
             name[o] = "main", name[c] = "recovery",
             journal' = [original |-> o, candidate |-> c]
      PROVE  [Swap!Next]_(Swap!vars)
  <2>1. journal.candidate = NoCollection /\ journal'.candidate = c
    BY <1>6 DEF NoJournal
  <2>2. Main = o /\ o # NoCollection /\ o # c /\ c \notin Named("backup")
    BY <1>6, MainIs, RecoveryAssumption DEF Named
  <2>3. Main' = Main /\ Named("backup")' = Named("backup")
    BY <1>6 DEF Main, Named
  <2> QED BY <2>1, <2>2, <2>3 DEF Swap!Next, Swap!Decide
<1>7. ASSUME journal # NoJournal, journal' = NoJournal, name' = name,
             name[journal.candidate] = "main"
      PROVE  [Swap!Next]_(Swap!vars)
  <2>1. journal.candidate \in Collections /\ journal.candidate # NoCollection
    BY <1>7, JournalIs, RecoveryAssumption
  <2>2. Main = journal.candidate /\ journal'.candidate = NoCollection
    BY <1>7, <2>1, MainIs DEF NoJournal
  <2>3. Main' = Main /\ Named("backup")' = Named("backup")
    BY <1>7 DEF Main, Named
  <2> QED BY <2>1, <2>2, <2>3 DEF Swap!Next, Swap!Settle
<1> QED BY <1>1, <1>2, <1>3, <1>4, <1>5, <1>6, <1>7 DEF Moves

\* Recovery implements the abstract swap: whatever crashes or fails, a holder
\* of the name goes only after its successor is decided, and only that takes
\* its place.
THEOREM RecoveryImplementsSwap == ASSUME NoReset PROVE Spec => ImplementsSwap
<1>1. Init => Swap!Init
  <2> SUFFICES ASSUME Init PROVE Swap!Init
    OBVIOUS
  <2>1. Named("main") = {} /\ Named("backup") = {} /\ journal.candidate = NoCollection
    BY DEF Init, Named, NoJournal
  <2> QED BY <2>1 DEF Swap!Init, Main
<1>2. SInv /\ SInv' /\ [Next]_vars => [Swap!Next]_(Swap!vars)
  BY MovesNext, MovesSwap DEF SInv, RInv
<1> QED BY <1>1, <1>2, SInvAlways, PTL DEF Spec, Swap!Spec, ImplementsSwap

-----------------------------------------------------------------------------
(* What the end of the waiting rests on.                                     *)

\* An attempt that waits for settings which have arrived has a thread that will
\* notice them: one that has still to load the state or to swap it, or the
\* second look at the settings.
SyncIsNoticed ==
  state = "waiting" /\ settings # NoSettings =>
    threads.called > 0 \/ threads.waiting > 0 \/ threads.recheck > 0

\* Only the attempt that finds its settings missing makes the state wait.
LEMMA OnlyMissingWaits ==
  ASSUME RunStep, ~WaitForSettings
  PROVE  state' \in {"ready", "running", "failed"} \/ UNCHANGED <<state, settings, threads>>
<1>1. Fail => state' \in {"ready", "failed"}
  BY DEF Fail
<1>2. Succeed => state' = "ready"
  BY DEF Succeed
<1>3. \A at : Proceed(at) => UNCHANGED <<state, settings, threads>>
  BY DEF Proceed
<1>4. CASE Lookup \/ Preserve \/ Promote \/ Adopt \/ Unlink
  <2>1. CASE Lookup
    BY <1>1, <1>3, <2>1 DEF Lookup
  <2>2. CASE Preserve \/ Promote
    BY <1>1, <1>3, <2>2 DEF Preserve, Promote, RenameStep
  <2>3. CASE Adopt \/ Unlink
    BY <1>1, <1>2, <1>3, <2>3 DEF Adopt, Unlink
  <2> QED BY <1>4, <2>1, <2>2, <2>3
<1>5. CASE Health
  BY <1>1, <1>2, <1>3, <1>5 DEF Health
<1>6. CASE Snapshot \/ Embed \/ Create
  BY <1>1, <1>3, <1>6 DEF Snapshot, Embed, Create
<1>7. CASE RebuildBatch \/ RebuildDone \/ RebuildFails \/ WriteJournal
  BY <1>1, <1>3, <1>7 DEF RebuildBatch, RebuildDone, RebuildFails, WriteJournal, memory
<1> QED BY <1>4, <1>5, <1>6, <1>7 DEF RunStep

LEMMA NoticedNext == RInv /\ SyncIsNoticed /\ [Next]_vars => SyncIsNoticed'
<1> SUFFICES ASSUME RInv, SyncIsNoticed, [Next]_vars PROVE SyncIsNoticed'
  OBVIOUS
<1>1. threads \in [{"called", "waiting", "failed", "recheck"} -> Nat]
      /\ state \in {"ready", "waiting", "running", "failed"}
  BY DEF RInv, Control
<1>2. CASE UNCHANGED <<state, settings, threads>>
  BY <1>2 DEF SyncIsNoticed
<1>3. CASE RunStep
  <2>1. CASE WaitForSettings
    BY <1>1, <2>1 DEF WaitForSettings, SyncIsNoticed
  <2> QED BY <1>2, <1>3, <2>1, OnlyMissingWaits DEF SyncIsNoticed
<1>4. CASE LoadState
  <2>1. CASE state = "waiting"
    <3> DEFINE t == [threads EXCEPT !.called = @ - 1]
    <3>1. threads' = [t EXCEPT !["waiting"] = @ + 1] /\ t.waiting = threads.waiting
      BY <1>1, <1>4, <2>1 DEF LoadState
    <3>2. threads'.waiting = threads.waiting + 1
      BY <1>1, <3>1
    <3> QED BY <1>1, <3>2 DEF SyncIsNoticed
  <2>2. CASE state # "waiting"
    BY <1>4, <2>2 DEF LoadState, SyncIsNoticed
  <2> QED BY <2>1, <2>2
<1>5. CASE Recheck
  <2>1. CASE settings # NoSettings
    <3>1. threads'.called = threads.called + 1
      BY <1>1, <1>5, <2>1 DEF Recheck
    <3> QED BY <1>1, <3>1 DEF SyncIsNoticed
  <2>2. CASE settings = NoSettings
    BY <1>5, <2>2 DEF Recheck, SyncIsNoticed
  <2> QED BY <2>1, <2>2
<1>6. ASSUME NEW seen \in {"waiting", "failed"}, CompareAndSwap(seen)
      PROVE  SyncIsNoticed'
  <2>1. CASE state = seen
    BY <1>6, <2>1 DEF CompareAndSwap, SyncIsNoticed
  <2>2. CASE state # seen /\ state = "waiting"
    <3>1. seen = "failed"
      BY <2>2
    <3>2. UNCHANGED <<threads.called, threads.waiting, threads.recheck, settings, state>>
      BY <1>1, <1>6, <2>2, <3>1 DEF CompareAndSwap
    <3> QED BY <3>2 DEF SyncIsNoticed
  <2>3. CASE state # seen /\ state # "waiting"
    BY <1>6, <2>3 DEF CompareAndSwap, SyncIsNoticed
  <2> QED BY <2>1, <2>2, <2>3
<1>7. CASE UpdateConfig
  <2>1. threads'.called = threads.called + 1
    BY <1>1, <1>7 DEF UpdateConfig
  <2> QED BY <1>1, <2>1 DEF SyncIsNoticed
<1>8. CASE Crash
  BY <1>8 DEF Crash, SyncIsNoticed
<1>9. CASE \/ Restart \/ Touch \/ ResetAll \/ Damage
           \/ \E d \in Docs : Upsert(d) \/ DeleteDocuments(d)
           \/ UNCHANGED vars
  BY <1>2, <1>9 DEF Restart, Touch, ResetAll, Damage, Upsert, DeleteDocuments, vars, memory
<1> QED BY <1>3, <1>4, <1>5, <1>6, <1>7, <1>8, <1>9 DEF Next, ThreadStep

\* The safety half of WaitingEnds, for any number of syncs: a sync between the
\* attempt's read of the settings and its Store(1) is seen by the second look
\* (retryIndexRecoveryAfterConfigSync).
THEOREM NoSyncIsLost == Spec => []SyncIsNoticed
<1>1. Init => SyncIsNoticed
  BY DEF Init, SyncIsNoticed
<1> QED BY <1>1, NoticedNext, RInvAlways, PTL DEF Spec
================================================================================
