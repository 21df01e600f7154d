---------------------------- MODULE IndexRecovery ----------------------------
(***************************************************************************)
(* The recovery of a Chroma collection whose persisted index cannot be     *)
(* loaded: go-service/internal/vector/chroma_recovery.go, the orchestration*)
(* in internal/httpapi/startup_vector_recovery.go and server.go, and the   *)
(* collection handling of internal/vector/chroma.go behind the mutation    *)
(* fence.                                                                  *)
(*                                                                         *)
(* An attempt copies what is saved of the collection into a new one,       *)
(* writes a journal, renames the original to a backup and the copy to the  *)
(* collection's name, and removes the journal.  A crash or a failed call   *)
(* between any two of these calls is picked up from the journal.           *)
(*                                                                         *)
(* Names other than the collection's own carry a time stamp and never      *)
(* clash, so only the kind of a name is kept.                              *)
(***************************************************************************)
EXTENDS Naturals, FiniteSets

CONSTANTS
  Collections,   \* the collection ids Chroma may hand out
  NoCollection,
  Docs,          \* the documents
  Settings,      \* embedding settings the plugin may sync
  NoSettings,
  Budget         \* bound on each kind of disturbance, see Disturbances

Disturbances == {"call", "crash", "damage", "reset", "sync"}

ASSUME RecoveryAssumption ==
  /\ NoCollection \notin Collections
  /\ NoSettings \notin Settings
  /\ Budget \in [Disturbances -> Nat]

VARIABLES
  name,      \* Chroma: what each collection is called
  docs,      \* Chroma: the documents of each collection
  damaged,   \* Chroma: the collections whose index cannot be loaded
  journal,   \* the recovery journal on disk
  ref,       \* collectionRef, the id the process resolved the name to
  state,     \* indexRecoveryState
  settings,  \* the embedding settings of the runtime configuration
  run,       \* the startup preflight or the recovery attempt, where it is
  threads,   \* how many threads are at each step of retryIndexRecoveryAfterConfigSync
  workers,   \* StartMemoryWorkers has started the background worker
  goal,      \* history: what a recovered collection is meant to hold
  acked,     \* history: documents written and not deleted since
  budget

chroma == <<name, docs, damaged>>
memory == <<ref, state, settings, threads, workers>>
history == <<goal, acked>>
vars == <<chroma, journal, memory, run, history, budget>>

NoJournal == [original |-> NoCollection, candidate |-> NoCollection]

\* by is who executes: the preflight, an attempt that resumes an earlier one, or
\* an attempt that promotes the collection it has rebuilt.
Resting(at) == [at |-> at, by |-> "boot", candidate |-> NoCollection, snapshot |-> {}]

NoThreads == [called |-> 0, waiting |-> 0, failed |-> 0, recheck |-> 0]

Init ==
  /\ name = [c \in Collections |-> "free"]
  /\ docs = [c \in Collections |-> {}]
  /\ damaged = {}
  /\ journal = NoJournal
  /\ ref = NoCollection
  /\ state = "ready"
  /\ settings = NoSettings
  /\ run = Resting("down")
  /\ threads = NoThreads
  /\ workers = FALSE
  /\ goal = [c \in Collections |-> {}]
  /\ acked = {}
  /\ budget = Budget

Spend(kind) == /\ budget[kind] > 0
               /\ budget' = [budget EXCEPT ![kind] = @ - 1]

Named(kind) == {c \in Collections : name[c] = kind}

\* The collection that bears the configured name.
Main == IF Named("main") = {} THEN NoCollection ELSE CHOOSE c \in Collections : name[c] = "main"

Rename(c, kind) == name' = [name EXCEPT ![c] = kind]

GoTo(at) == run' = [run EXCEPT !.at = at]

\* The HTTP routes are registered.
Serving == run.at = "idle" \/ run.by # "boot"

\* The exclusive side of the mutation fence.
Fenced == \/ run.at \in {"preserve", "promote", "adopt", "unlink", "rebuild", "write"}
          \/ run.at = "lookup" /\ run.by = "rebuild"

\* Mutant: the name is not looked up before a collection is created.
Ensure_NoLookup(c) ==
  IF ref # NoCollection THEN c = ref /\ UNCHANGED <<ref, name>>
  ELSE c \in Named("free") /\ Rename(c, "main") /\ ref' = c

\* ensureCollection: the cached id, the collection of that name, or a new one.
Ensure(c) ==
  IF ref # NoCollection THEN c = ref /\ UNCHANGED <<ref, name>>
  ELSE /\ IF Main # NoCollection THEN c = Main /\ UNCHANGED name
          ELSE c \in Named("free") /\ Rename(c, "main")
       /\ ref' = c

-----------------------------------------------------------------------------
(* How a preflight and an attempt end.                                       *)

\* The preflight's error ends the process; an attempt records why it stopped.
Fail == /\ IF run.by = "boot"
           THEN run' = Resting("down") /\ state' = "ready"
           ELSE run' = Resting("idle") /\ state' = "failed"
        /\ UNCHANGED <<threads, workers, settings>>

\* Store(0) and StartMemoryWorkers, which the preflight's caller calls too.
Succeed == /\ run' = Resting("idle")
           /\ state' = "ready"
           /\ workers' = TRUE
           /\ UNCHANGED <<threads, settings>>

Proceed(at) == GoTo(at) /\ UNCHANGED <<state, threads, workers, settings>>

-----------------------------------------------------------------------------
(* ResumeIndexRecovery.                                                      *)

\* Mutant: a name that nobody bears is taken for a promotion that is done.
Lookup_MissingIsDone ==
  /\ run.at = "lookup"
  /\ \/ /\ journal = NoJournal
        /\ Proceed("health")
        /\ UNCHANGED budget
     \/ /\ journal # NoJournal
        /\ CASE Main = journal.original -> Proceed("preserve")
             [] Main \in {NoCollection, journal.candidate} -> Proceed("adopt")
             [] OTHER -> Fail
        /\ UNCHANGED budget
     \/ Spend("call") /\ Fail
  /\ UNCHANGED <<chroma, journal, ref, history>>

\* Reading the journal and looking the name up.
Lookup ==
  /\ run.at = "lookup"
  /\ \/ /\ journal = NoJournal
        /\ Proceed("health")
        /\ UNCHANGED budget
     \/ /\ journal # NoJournal
        /\ CASE Main = journal.original -> Proceed("preserve")
             [] Main = journal.candidate -> Proceed("adopt")
             [] Main = NoCollection -> Proceed("promote")
             [] OTHER -> Fail
        /\ UNCHANGED budget
     \/ Spend("call") /\ Fail
  /\ UNCHANGED <<chroma, journal, ref, history>>

\* A rename that reports an error may have taken effect.
RenameStep(c, kind, then) ==
  \/ name[c] \notin {"free", "gone"} /\ Rename(c, kind) /\ Proceed(then) /\ UNCHANGED budget
  \/ name[c] \in {"free", "gone"} /\ UNCHANGED name /\ Fail /\ UNCHANGED budget
  \/ /\ Spend("call") /\ Fail
     /\ \/ UNCHANGED name
        \/ name[c] \notin {"free", "gone"} /\ Rename(c, kind)

Preserve ==
  /\ run.at = "preserve"
  /\ RenameStep(journal.original, "backup", "promote")
  /\ UNCHANGED <<docs, damaged, journal, ref, history>>

Promote ==
  /\ run.at = "promote"
  /\ RenameStep(journal.candidate, "main", "adopt")
  /\ UNCHANGED <<docs, damaged, journal, ref, history>>

\* The process uses the promoted collection from here on, healthy or not.
Adopt ==
  /\ run.at = "adopt"
  /\ ref' = journal.candidate
  /\ \/ ref' \notin damaged /\ Proceed("unlink") /\ UNCHANGED budget
     \/ ref' \in damaged /\ Fail /\ UNCHANGED budget
     \/ Spend("call") /\ Fail
  /\ UNCHANGED <<chroma, journal, history>>

Unlink ==
  /\ run.at = "unlink"
  /\ \/ /\ journal' = NoJournal
        /\ IF run.by = "rebuild" THEN Succeed ELSE Proceed("health")
        /\ UNCHANGED budget
     \/ Spend("call") /\ Fail /\ UNCHANGED journal
  /\ UNCHANGED <<chroma, ref, history>>

-----------------------------------------------------------------------------
(* ValidateRuntimeDependencies and recoverStartupVectorIndex.                *)

\* Mutant: the preflight checks the collection before it resumes a recovery.
Restart_HealthFirst ==
  /\ run.at = "down"
  /\ run' = Resting("health")
  /\ ref' = NoCollection
  /\ UNCHANGED <<chroma, journal, state, settings, threads, workers, history, budget>>

\* The launcher starts the process again.
Restart ==
  /\ run.at = "down"
  /\ run' = Resting("lookup")
  /\ ref' = NoCollection
  /\ UNCHANGED <<chroma, journal, state, settings, threads, workers, history, budget>>

\* Only an index that cannot be loaded makes the preflight start an attempt; an
\* attempt goes on to rebuild whatever error the health check reports.
Health ==
  /\ run.at = "health"
  /\ \/ /\ (UNCHANGED <<ref, name>> \/ \E c \in Collections : Ensure(c))
        /\ Spend("call")
        /\ IF run.by = "boot" THEN Fail ELSE Proceed("snapshot")
     \/ \E c \in Collections :
          /\ Ensure(c)
          /\ \/ c \notin damaged /\ Succeed
             \/ /\ c \in damaged /\ run.by = "boot"
                /\ run' = [run EXCEPT !.at = "lookup", !.by = "resume"]
                /\ state' = "running"
                /\ UNCHANGED <<threads, workers, settings>>
             \/ /\ c \in damaged /\ run.by # "boot"
                /\ Proceed("snapshot")
          /\ UNCHANGED budget
  /\ UNCHANGED <<docs, damaged, journal, goal, acked>>

\* The documents the collection's SQLite file holds.
Snapshot ==
  /\ run.at = "snapshot"
  /\ \/ /\ Main # NoCollection
        /\ run' = [run EXCEPT !.at = "embed", !.snapshot = docs[Main]]
        /\ UNCHANGED <<state, threads, workers, settings, budget>>
     \/ Main = NoCollection /\ Fail /\ UNCHANGED budget
     \/ Spend("call") /\ Fail
  /\ UNCHANGED <<chroma, journal, ref, history>>

\* Embeddings that no cache holds are asked of the provider; the fence is open.
Embed ==
  /\ run.at = "embed"
  /\ \/ Proceed("create") /\ UNCHANGED budget
     \/ settings = NoSettings /\ run.snapshot # {} /\ Proceed("missing") /\ UNCHANGED budget
     \/ Spend("call") /\ Fail
  /\ UNCHANGED <<chroma, journal, ref, history>>

\* Store(1), which a configuration sync may precede, and then a second look at
\* the settings.
WaitForSettings ==
  /\ run.at = "missing"
  /\ run' = Resting("idle")
  /\ state' = "waiting"
  /\ threads' = [threads EXCEPT !.recheck = @ + 1]
  /\ UNCHANGED <<chroma, journal, ref, settings, workers, history, budget>>

-----------------------------------------------------------------------------
(* RecoverIndex.                                                             *)

\* A failed creation or a failed health check leaves the new collection behind.
Create ==
  /\ run.at = "create"
  /\ \/ Main = NoCollection /\ Fail /\ UNCHANGED <<name, goal, budget>>
     \/ /\ Main # NoCollection
        /\ \E c \in Named("free") :
             /\ Rename(c, "recovery")
             /\ goal' = [goal EXCEPT ![c] = run.snapshot]
             /\ \/ /\ run' = [run EXCEPT !.at = "rebuild", !.by = "rebuild", !.candidate = c]
                   /\ UNCHANGED <<state, threads, workers, settings, budget>>
                \/ Spend("call") /\ Fail
     \/ Spend("call") /\ Fail /\ UNCHANGED <<name, goal>>
  /\ UNCHANGED <<docs, damaged, journal, ref, acked>>

\* One batch is written and read back.
RebuildBatch ==
  /\ run.at = "rebuild"
  /\ \E d \in run.snapshot \ docs[run.candidate] :
       docs' = [docs EXCEPT ![run.candidate] = @ \cup {d}]
  /\ UNCHANGED <<name, damaged, journal, memory, run, history, budget>>

\* Mutant: the cleanup resets the configured collection instead of the new one.
RebuildFails_ResetsOriginal ==
  /\ run.at = "rebuild"
  /\ Spend("call")
  /\ Rename(Main, "gone")
  /\ Fail
  /\ UNCHANGED <<docs, damaged, journal, ref, history>>

\* Only the new collection is removed, if Chroma still answers.
RebuildFails ==
  /\ run.at = "rebuild"
  /\ Spend("call")
  /\ (Rename(run.candidate, "gone") \/ UNCHANGED name)
  /\ Fail
  /\ UNCHANGED <<docs, damaged, journal, ref, history>>

\* Mutant: a batch that was not read back in full counts as restored.
RebuildDone_Partial ==
  /\ run.at = "rebuild"
  /\ GoTo("write")
  /\ UNCHANGED <<chroma, journal, memory, history, budget>>

\* The search and the health check at the end.
RebuildDone ==
  /\ run.at = "rebuild"
  /\ run.snapshot \subseteq docs[run.candidate]
  /\ GoTo("write")
  /\ UNCHANGED <<chroma, journal, memory, history, budget>>

\* The journal appears whole, by a rename.
WriteJournal ==
  /\ run.at = "write"
  /\ \/ /\ journal' = [original |-> Main, candidate |-> run.candidate]
        /\ Proceed("lookup")
        /\ UNCHANGED budget
     \/ Spend("call") /\ Fail /\ UNCHANGED journal
  /\ UNCHANGED <<chroma, ref, history>>

RunStep == \/ Lookup \/ Preserve \/ Promote \/ Adopt \/ Unlink \/ Health \/ Snapshot
           \/ Embed \/ WaitForSettings \/ Create \/ RebuildBatch \/ RebuildDone \/ WriteJournal \/ RebuildFails

-----------------------------------------------------------------------------
(* retryIndexRecoveryAfterConfigSync, by the configuration handler and by an *)
(* attempt that has just found its settings missing.                         *)

UpdateConfig ==
  /\ Serving
  /\ Spend("sync")
  /\ settings' \in (Settings \cup {NoSettings}) \ {settings}
  /\ threads' = [threads EXCEPT !.called = @ + 1]
  /\ UNCHANGED <<chroma, journal, ref, state, workers, run, history>>

LoadState ==
  /\ threads.called > 0
  /\ threads' = IF state \in {"ready", "running"}
                THEN [threads EXCEPT !.called = @ - 1]
                ELSE [threads EXCEPT !.called = @ - 1, ![state] = @ + 1]
  /\ UNCHANGED <<chroma, journal, ref, state, settings, workers, run, history, budget>>

\* Mutant: the state is stored without comparing it with the value loaded.
CompareAndSwap_Store(seen) ==
  /\ threads[seen] > 0
  /\ threads' = [threads EXCEPT ![seen] = @ - 1]
  /\ state' = "running"
  /\ run' = [Resting("lookup") EXCEPT !.by = "resume"]
  /\ UNCHANGED <<chroma, journal, ref, settings, workers, history, budget>>

CompareAndSwap(seen) ==
  /\ threads[seen] > 0
  /\ threads' = [threads EXCEPT ![seen] = @ - 1]
  /\ IF state = seen
     THEN /\ state' = "running"
          /\ run' = [Resting("lookup") EXCEPT !.by = "resume"]
     ELSE UNCHANGED <<state, run>>
  /\ UNCHANGED <<chroma, journal, ref, settings, workers, history, budget>>

\* Mutant: the settings are not looked at again.
Recheck_Dropped ==
  /\ threads.recheck > 0
  /\ threads' = [threads EXCEPT !.recheck = @ - 1]
  /\ UNCHANGED <<chroma, journal, ref, state, settings, workers, run, history, budget>>

Recheck ==
  /\ threads.recheck > 0
  /\ threads' = [threads EXCEPT !.recheck = @ - 1,
                                !.called = IF settings # NoSettings THEN @ + 1 ELSE @]
  /\ UNCHANGED <<chroma, journal, ref, state, settings, workers, run, history, budget>>

ThreadStep == LoadState \/ Recheck \/ \E seen \in {"waiting", "failed"} : CompareAndSwap(seen)

-----------------------------------------------------------------------------
(* Everything else that uses the collection.                                 *)

Use(c) == Serving /\ ~Fenced /\ Ensure(c) /\ name'[c] # "gone"

\* A search, a count, the readiness check or a call that fails.
Touch ==
  /\ \E c \in Collections : Use(c)
  /\ UNCHANGED <<docs, damaged, journal, state, settings, threads, workers, run, history, budget>>

Upsert(d) ==
  /\ \E c \in Collections : Use(c) /\ docs' = [docs EXCEPT ![c] = @ \cup {d}]
  /\ acked' = acked \cup {d}
  /\ UNCHANGED <<damaged, journal, state, settings, threads, workers, run, goal, budget>>

DeleteDocuments(d) ==
  /\ \E c \in Collections : Use(c) /\ docs' = [docs EXCEPT ![c] = @ \ {d}]
  /\ acked' = acked \ {d}
  /\ UNCHANGED <<damaged, journal, state, settings, threads, workers, run, goal, budget>>

\* The admin reset deletes the collection by its name (the v2 API) and forgets
\* its id, also when the deletion fails.
ResetAll ==
  /\ Serving /\ ~Fenced
  /\ Spend("reset")
  /\ ref' = NoCollection
  /\ \/ UNCHANGED name
     \/ Main # NoCollection /\ Rename(Main, "gone")
  /\ acked' = {}
  /\ UNCHANGED <<docs, damaged, journal, state, settings, threads, workers, run, goal>>

\* The persisted index of the collection is corrupted.
Damage ==
  /\ Spend("damage")
  /\ Main # NoCollection
  /\ damaged' = damaged \cup {Main}
  /\ UNCHANGED <<name, docs, journal, memory, run, history>>

Crash ==
  /\ run.at # "down"
  /\ Spend("crash")
  /\ run' = Resting("down")
  /\ ref' = NoCollection
  /\ state' = "ready"
  /\ settings' = NoSettings
  /\ threads' = NoThreads
  /\ workers' = FALSE
  /\ UNCHANGED <<chroma, journal, history>>

Next ==
  \/ Restart \/ RunStep \/ ThreadStep \/ UpdateConfig
  \/ Touch \/ ResetAll \/ Damage \/ Crash
  \/ \E d \in Docs : Upsert(d) \/ DeleteDocuments(d)

Spec == Init /\ [][Next]_vars

\* The threads of the process keep running.
FairSpec == Spec /\ WF_vars(RunStep) /\ WF_vars(ThreadStep)

-----------------------------------------------------------------------------
(* Properties.                                                               *)

Steps == {"down", "idle", "lookup", "preserve", "promote", "adopt", "unlink", "health",
          "snapshot", "embed", "missing", "create", "rebuild", "write"}

\* The collections, the journal and the threads have the shape the code gives
\* them; Chroma's names are unique, so at most one collection has the configured one.
TypeOK ==
  /\ name \in [Collections -> {"free", "main", "recovery", "backup", "gone"}]
  /\ docs \in [Collections -> SUBSET Docs]
  /\ damaged \subseteq Collections
  /\ journal = NoJournal \/ journal \in [original : Collections, candidate : Collections]
  /\ ref \in Collections \cup {NoCollection}
  /\ state \in {"ready", "waiting", "running", "failed"}
  /\ settings \in Settings \cup {NoSettings}
  /\ run \in [at : Steps, by : {"boot", "resume", "rebuild"},
              candidate : Collections \cup {NoCollection}, snapshot : SUBSET Docs]
  /\ threads \in [{"called", "waiting", "failed", "recheck"} -> Nat]
  /\ workers \in BOOLEAN
  /\ goal \in [Collections -> SUBSET Docs]
  /\ acked \subseteq Docs
  /\ budget \in [Disturbances -> Nat]
  /\ \A c, e \in Named("main") : c = e

\* "The original is never deleted, reset, or renamed when rebuilding fails", and
\* no later step throws a document away: one that was written and not deleted is
\* in the collection in use or in a backup, whatever fails or crashes in between.
NothingLost == \A d \in acked : \E c \in Named("main") \cup Named("backup") : d \in docs[c]

\* "Only a completed rebuild is promoted": a recovered collection takes the name
\* only with every document that was read from the original, also when a crash
\* comes between the rebuild, the journal and the two renames.
OnlyCompletePromoted ==
  [][\A c \in Collections :
       name[c] = "recovery" /\ name'[c] = "main" => goal[c] \subseteq docs[c]]_vars

\* The journal makes the two name changes resumable: as long as it exists, its
\* candidate exists and nothing but the two collections it names has the name.
JournalResumable ==
  journal # NoJournal =>
    /\ name[journal.candidate] \in {"recovery", "main"}
    /\ Main \in {NoCollection, journal.original, journal.candidate}

\* The background worker runs only over an index that is not being recovered, and
\* there is one attempt at a time: a late retry, called for settings that have
\* been used meanwhile, starts none.
WorkersWaitForIndex ==
  /\ workers => state = "ready" /\ run.at = "idle"
  /\ state # "running" => run.at \in {"idle", "down"} \/ run.by = "boot"

Swap == INSTANCE CollectionSwap WITH
          holder <- Main,
          successor <- journal.candidate,
          retired <- Named("backup")

\* Recovery implements the abstract swap: no crash, failed call or lost answer
\* gives the name to a retired collection or takes it away for good.
ImplementsSwap == Swap!Spec

\* Settings that arrive while an attempt finds them missing are not overlooked.
WaitingEnds ==
  (state = "waiting" /\ settings # NoSettings) ~> (state # "waiting" \/ settings = NoSettings)

===============================================================================
