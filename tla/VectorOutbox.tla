---------------------------- MODULE VectorOutbox ----------------------------
(***************************************************************************)
(* The path from canonical memory (MariaDB) to the vector index (Chroma):  *)
(* the durable table memory_vector_outbox and the worker that drains it    *)
(* (store/mariadb_memory_derivation.go, store/mariadb_memory_admission.go, *)
(* store/mariadb_logical_turn_replace.go,                                  *)
(* httpapi/memory_vector_outbox_processor.go).                             *)
(*                                                                         *)
(* Every canonical write is one transaction under memoryDerivationWriteMu, *)
(* so it is one action.  The worker's claim, each vector call and each     *)
(* completion are separate actions, and the process may crash between any  *)
(* two of them.  A server process has exactly one worker                   *)
(* (StartMemoryWorkers), and one chat session is modelled.                 *)
(*                                                                         *)
(* Abstractions.  A row is identified by its operation_key, which is a     *)
(* unique key of the table.  Only the order of the rows of one document is *)
(* ever looked at, so row ids count per document.  Clocks are abstracted:  *)
(* a lease runs out at any time, a retry_after has always passed, and the  *)
(* order of created_at and the preferred lane are left open.  Statuses     *)
(* pending and needs_embedding behave alike and are both "pending".  The   *)
(* attempts counter stops at MaxAttempts, the only value it is compared    *)
(* with.  A vector call that failed has taken effect, or part of it, or    *)
(* not, by the time it returns.                                            *)
(***************************************************************************)
EXTENDS Naturals, FiniteSets

CONSTANTS
  Revisions,    \* source revisions: accepted versions of a logical turn
  Docs,         \* ids of vector documents
  Results,      \* extraction results, identified by their derived_result_hash
  TurnOf,       \* revision -> turn index
  RevisionOf,   \* document -> the revision whose rows it projects
  ResultDocs,   \* result -> the documents it wants in the index
  MaxAttempts,  \* FailedQueueMaxAttempts of the runtime configuration
  None          \* no result, no document

ASSUME OutboxAssumption ==
  /\ IsFiniteSet(Revisions) /\ IsFiniteSet(Docs) /\ IsFiniteSet(Results)
  /\ TurnOf \in [Revisions -> Nat]
  /\ RevisionOf \in [Docs -> Revisions]
  /\ ResultDocs \in [Results -> SUBSET Docs]
  /\ MaxAttempts \in 1..11
  /\ None \notin Results
  /\ None \notin Docs

VARIABLES
  source,    \* lifecycle of each revision
  admitted,  \* the committed derived result of each revision, or None
  rows,      \* the result each document's canonical row carries, or None
  outbox,    \* the rows of memory_vector_outbox, by operation key
  index,     \* what Chroma holds of each document: a result's text, or None
  todo,      \* rows the worker has claimed and not yet sent to Chroma
  sent,      \* rows sent to Chroma whose outcome is not yet recorded
  outcome,   \* whether that call succeeded
  undo,      \* the document the worker is about to remove again, or None
  skipped    \* history: documents whose last change has queued no row

canonical == <<source, admitted, rows>>
worker == <<todo, sent, outcome, undo>>
vars == <<source, admitted, rows, outbox, index, todo, sent, outcome, undo, skipped>>

-----------------------------------------------------------------------------
(* Operation keys and rows.                                                *)

Operations == {"upsert", "delete_active", "delete_inactive"}

\* memoryAdmissionVectorOperationKey: an upsert key carries the result hash, a
\* delete key the required source state only.  Admission queues the documents of its
\* own revision; a delete after an invalidation may carry another revision.
Keys ==
  {k \in [op : Operations, rev : Revisions, doc : Docs, result : Results \cup {None}] :
     /\ k.op # "delete_inactive" => k.rev = RevisionOf[k.doc]
     /\ k.op = "upsert" => k.result # None /\ k.doc \in ResultDocs[k.result]
     /\ k.op # "upsert" => k.result = None}

UpsertKey(r, res, d) == [op |-> "upsert", rev |-> r, doc |-> d, result |-> res]
DeleteKey(op, r, d)  == [op |-> op, rev |-> r, doc |-> d, result |-> None]

Statuses == {"absent", "pending", "leased", "retryable",
             "completed", "stale_rejected", "permanent"}
Row == [id : Nat, status : Statuses, attempts : 0..MaxAttempts, live : BOOLEAN]

NoRow == [id |-> 0, status |-> "absent", attempts |-> 0, live |-> FALSE]

Unfinished(k) == outbox[k].status \in {"pending", "leased", "retryable"}

RowsOf(d) == {k \in Keys : k.doc = d /\ outbox[k].status # "absent"}

Newest(k) == \A j \in RowsOf(k.doc) : outbox[j].id <= outbox[k].id

\* The row with this key exists and will still put the document in the state it
\* asks for: inserting it again and being ignored loses nothing.
Standing(k) == Newest(k) /\ outbox[k].status \notin {"stale_rejected", "permanent"}

\* The lifecycle of its revision lets the row act.
FenceHolds(k) ==
  IF k.op = "delete_inactive" THEN source[k.rev] # "active"
                              ELSE source[k.rev] = "active"

DocsOf(r) == {d \in Docs : RevisionOf[d] = r}
Active == {r \in Revisions : source[r] = "active"}

-----------------------------------------------------------------------------
Init ==
  /\ source = [r \in Revisions |-> "absent"]
  /\ admitted = [r \in Revisions |-> None]
  /\ rows = [d \in Docs |-> None]
  /\ outbox = [k \in Keys |-> NoRow]
  /\ index = [d \in Docs |-> None]
  /\ todo = {} /\ sent = {} /\ outcome = FALSE /\ undo = None
  /\ skipped = {}

\* enqueueMemoryVectorOperation: insert each key of the set, a pending row with the
\* next id of its document; a key that exists already, in whatever status, is left as
\* it is.  The keys of one transaction have different documents.
Inserted(k) ==
  [id |-> Cardinality(RowsOf(k.doc)) + 1, status |-> "pending",
   attempts |-> 0, live |-> FALSE]

Enqueued(k, keys) == k \in keys /\ outbox[k].status = "absent"

SkippedAfter(keys) ==
  (skipped \ {k.doc : k \in {j \in keys : outbox[j].status = "absent" \/ Standing(j)}})
    \cup {k.doc : k \in {j \in keys : outbox[j].status # "absent" /\ ~Standing(j)}}

-----------------------------------------------------------------------------
(* Canonical transactions.                                                 *)

\* Mutant: a revision that is gone may be registered again.
Accept_Again(r) ==
  /\ source[r] # "active"
  /\ \A s \in Active : TurnOf[s] # TurnOf[r]
  /\ source' = [source EXCEPT ![r] = "active"]
  /\ UNCHANGED <<admitted, rows, outbox, index, worker, skipped>>

\* RegisterAcceptedSourceRevision: no other revision of the turn is active, and a
\* revision that was ever registered cannot be registered again.
Accept(r) ==
  /\ source[r] = "absent"
  /\ \A s \in Active : TurnOf[s] # TurnOf[r]
  /\ source' = [source EXCEPT ![r] = "active"]
  /\ UNCHANGED <<admitted, rows, outbox, index, worker, skipped>>

\* Mutant: only documents whose upsert completed are known.
KnownDocs_Completed(r) ==
  {d \in Docs : \E k \in RowsOf(d) : k.op = "upsert" /\ k.rev = r
                                        /\ outbox[k].status = "completed"}

\* The documents enqueueKnownVectorDeletesTx finds for a revision.
KnownDocs(r) ==
  {d \in Docs : \E k \in RowsOf(d) : k.op = "upsert" /\ k.rev = r}

\* The deletes of enqueueKnownVectorDeletesTx.  A document that still has its
\* canonical row is labelled with the last revision of the list, the others with
\* their own.
InvalidationDeletes(revs, last) ==
  { DeleteKey("delete_inactive", IF source[RevisionOf[d]] = "active" THEN last
                                 ELSE RevisionOf[d], d) :
      d \in UNION {KnownDocs(r) : r \in revs} }

\* invalidateMemorySourcesTx: queue the deletes, then reject every unfinished upsert of
\* the revisions, leased ones included.
OutboxAfterInvalidation(revs, last) ==
  [k \in Keys |->
     IF Enqueued(k, InvalidationDeletes(revs, last)) THEN Inserted(k)
     ELSE IF k.op = "upsert" /\ k.rev \in revs /\ Unfinished(k)
     THEN [outbox[k] EXCEPT !.status = "stale_rejected", !.live = FALSE]
     ELSE outbox[k]]

Invalidate(revs, last) ==
  /\ outbox' = OutboxAfterInvalidation(revs, last)
  /\ skipped' = SkippedAfter(InvalidationDeletes(revs, last))
  /\ rows' = [d \in Docs |-> IF RevisionOf[d] \in revs THEN None ELSE rows[d]]

LastOf(revs) == {r \in revs : \A s \in revs : TurnOf[s] <= TurnOf[r]}

\* RollbackCanonicalTail and InvalidateSourceRevisions from a turn on.  The lifecycle
\* action "deleted" also reaches the revisions that are inactive already.
Rollback(turn, lifecycle) ==
  LET reached == IF lifecycle = "deleted" THEN {"active", "invalidated"} ELSE {"active"}
      revs == {r \in Revisions : TurnOf[r] >= turn /\ source[r] \in reached}
  IN /\ revs # {}
     /\ \E last \in LastOf(revs) : Invalidate(revs, last)
     /\ source' = [r \in Revisions |-> IF r \in revs THEN lifecycle ELSE source[r]]
     /\ UNCHANGED <<admitted, index, worker>>

\* ReplaceLogicalTurn: supersede the active revision of the tail turn and register
\* its successor in the same transaction.
Replace(r) ==
  LET revs == {s \in Active : TurnOf[s] = TurnOf[r]}
  IN /\ source[r] = "absent"
     /\ \A s \in Active : TurnOf[s] <= TurnOf[r]
     /\ revs # {}
     /\ \E last \in revs : Invalidate(revs, last)
     /\ source' = [s \in Revisions |-> IF s = r THEN "active"
                                       ELSE IF s \in revs THEN "invalidated" ELSE source[s]]
     /\ UNCHANGED <<admitted, index, worker>>

\* Documents of the revision that have a row the new result does not want.
Retired(r, res) == {d \in DocsOf(r) : rows[d] # None /\ d \notin ResultDocs[res]}

\* Documents whose rows the result keeps but does not show in the index; the delete of
\* one that was never queued would change nothing and is left out.
Hideable(r, res) == KnownDocs(r) \ ResultDocs[res]

\* The upserts of a result and the deletes of the documents it drops.
AdmissionKeys(r, res, dropped) ==
  {DeleteKey("delete_active", r, d) : d \in dropped}
    \cup {UpsertKey(r, res, d) : d \in ResultDocs[res]}

\* cancelAdmissionPendingVectorUpsertsTx stops the waiting upserts of a document; one
\* that the worker has leased is left to run before the delete.
Cancelled(k, docs) ==
  k.op = "upsert" /\ k.doc \in docs /\ outbox[k].status \in {"pending", "retryable"}

\* commitMemoryAdmissionOnce of a result for an active revision whose admission is
\* pending.  Evidence that the result drops is retired.  The document of its memory may
\* be hidden (MemoryPublicProjectionExcluded): its delete is queued behind whatever is
\* waiting.  For evidence that is kept, but no longer public, nothing is queued.
Admit(r, res, hidden, kept) ==
  LET retired == Retired(r, res) \ (hidden \cup kept)
      keys == AdmissionKeys(r, res, retired \cup hidden)
  IN /\ source[r] = "active"
     /\ admitted[r] = None
     /\ ResultDocs[res] \subseteq DocsOf(r)
     /\ hidden \subseteq Hideable(r, res)
     /\ \A d, e \in hidden : d = e
     /\ kept \subseteq Retired(r, res) \ hidden
     /\ outbox' = [k \in Keys |->
          IF Enqueued(k, keys) THEN Inserted(k)
          ELSE IF Cancelled(k, retired) THEN [outbox[k] EXCEPT !.status = "stale_rejected"]
          ELSE outbox[k]]
     /\ skipped' = SkippedAfter(keys) \cup kept
     /\ rows' = [d \in Docs |-> IF d \in ResultDocs[res] THEN res
                                ELSE IF RevisionOf[d] = r THEN None ELSE rows[d]]
     /\ admitted' = [admitted EXCEPT ![r] = res]
     /\ UNCHANGED <<source, index, worker>>

\* ReopenMemoryReprocessingJob: a rescan clears the admission of an active revision.
Reopen(r) ==
  /\ source[r] = "active"
  /\ admitted[r] # None
  /\ admitted' = [admitted EXCEPT ![r] = None]
  /\ UNCHANGED <<source, rows, outbox, index, worker, skipped>>

\* A reindex replays the committed admission with Refresh: every row of it starts
\* over, or the transaction fails because one is leased or has been superseded.  With
\* ReconcileEligibility it hides every document of the admission that the result does
\* not show, and the upserts that wait for it; otherwise that of the memory at most.
Refresh(r, hidden, reconcile) ==
  LET keys == AdmissionKeys(r, admitted[r], hidden)
  IN /\ source[r] = "active"
     /\ admitted[r] # None
     /\ hidden \subseteq Hideable(r, admitted[r])
     /\ reconcile \/ \A d, e \in hidden : d = e
     /\ \A k \in keys : outbox[k].status # "absent" =>
          ~(outbox[k].status = "leased" /\ outbox[k].live) /\ Newest(k)
     /\ outbox' = [k \in Keys |->
          IF Enqueued(k, keys) THEN Inserted(k)
          ELSE IF k \in keys
          THEN [outbox[k] EXCEPT !.status = "pending", !.attempts = 0, !.live = FALSE]
          ELSE IF reconcile /\ Cancelled(k, hidden)
          THEN [outbox[k] EXCEPT !.status = "stale_rejected"]
          ELSE outbox[k]]
     /\ skipped' = skipped \ {k.doc : k \in keys}
     /\ UNCHANGED <<canonical, index, worker>>

-----------------------------------------------------------------------------
(* The worker.                                                             *)

Idle == todo = {} /\ sent = {} /\ undo = None

\* Mutant: a row does not wait for older rows of its document.
FirstOfDocument_Any(k) == TRUE

\* No older row of the document is unfinished (rows the fence rejects are).
FirstOfDocument(k) ==
  \A j \in RowsOf(k.doc) : outbox[j].id < outbox[k].id =>
                             ~(Unfinished(j) /\ FenceHolds(j))

Claimable(k) ==
  /\ \/ outbox[k].status \in {"pending", "retryable"}
     \/ outbox[k].status = "leased" /\ ~outbox[k].live
  /\ FenceHolds(k)
  /\ FirstOfDocument(k)

\* Rows that are claimed along with a seed: every inactive delete of the session with
\* a delete, the upserts of the same revision with an upsert that needs its embedding.
Siblings(k) ==
  {j \in Keys : /\ j # k
                /\ Claimable(j)
                /\ IF k.op = "upsert" THEN j.op = "upsert" /\ j.rev = k.rev
                                      ELSE j.op = "delete_inactive"}

Leased(row) ==
  [row EXCEPT !.status = "leased", !.live = TRUE,
              !.attempts = IF @ < MaxAttempts THEN @ + 1 ELSE @]

\* claimMemoryVectorOperations: reject what the fence rejects, then lease a group.
Claim(k) ==
  /\ Idle
  /\ Claimable(k)
  /\ \E group \in {{k}, {k} \cup Siblings(k)} :
       /\ k.op # "upsert" => group = {k} \cup Siblings(k)
       /\ todo' = group
       /\ outbox' = [j \in Keys |->
            IF j \in group THEN Leased(outbox[j])
            ELSE IF Unfinished(j) /\ ~FenceHolds(j)
            THEN [outbox[j] EXCEPT !.status = "stale_rejected", !.live = FALSE]
            ELSE outbox[j]]
  /\ UNCHANGED <<canonical, index, sent, outcome, undo, skipped>>

\* The lease of a claimed row runs out (the worker is slow, or it is gone).
LeaseExpires(k) ==
  /\ outbox[k].status = "leased" /\ outbox[k].live
  /\ outbox' = [outbox EXCEPT ![k] = [@ EXCEPT !.live = FALSE]]
  /\ UNCHANGED <<canonical, index, worker, skipped>>

\* Upsert, read back and compare one document.
CallUpsert(k, ok) ==
  /\ k \in todo /\ k.op = "upsert" /\ sent = {} /\ undo = None
  /\ todo' = todo \ {k}
  /\ sent' = {k}
  /\ outcome' = ok
  /\ index' \in IF ok THEN {[index EXCEPT ![k.doc] = k.result]}
                      ELSE {index, [index EXCEPT ![k.doc] = k.result]}
  /\ UNCHANGED <<canonical, outbox, undo, skipped>>

\* Delete the documents of the whole group in one call and read back.
CallDelete(ok) ==
  /\ todo # {} /\ \A k \in todo : k.op # "upsert"
  /\ \E removed \in SUBSET {k.doc : k \in todo} :
       /\ ok => removed = {k.doc : k \in todo}
       /\ index' = [d \in Docs |-> IF d \in removed THEN None ELSE index[d]]
  /\ sent' = todo
  /\ todo' = {}
  /\ outcome' = ok
  /\ UNCHANGED <<canonical, outbox, undo, skipped>>

\* Mutant: a status the table does not have.
FinishedRow_UnknownStatus(k, status) ==
  IF outbox[k].status # "leased" \/ ~outbox[k].live THEN outbox[k]
  ELSE [outbox[k] EXCEPT !.live = FALSE, !.status = IF FenceHolds(k) THEN status ELSE "failed"]

\* finishMemoryVectorOperation: a row that is no longer leased to the worker is left
\* alone, a row whose fence changed is rejected, any other gets the new status.
FinishedRow(k, status) ==
  IF outbox[k].status # "leased" \/ ~outbox[k].live THEN outbox[k]
  ELSE [outbox[k] EXCEPT !.live = FALSE,
                         !.status = IF FenceHolds(k) THEN status ELSE "stale_rejected"]

\* ErrSourceRevisionStale: the canonical side rejected the row.
Stale(k) ==
  \/ outbox[k].status = "stale_rejected"
  \/ outbox[k].status = "leased" /\ outbox[k].live /\ ~FenceHolds(k)

\* CompleteMemoryVectorOperation, CompleteMemoryVectorMaterializedOperation.  An upsert
\* the canonical side rejected is to be removed from Chroma again.
Complete(k) ==
  /\ k \in sent /\ outcome
  /\ outbox' = [outbox EXCEPT ![k] = FinishedRow(k, "completed")]
  /\ sent' = sent \ {k}
  /\ undo' = IF k.op = "upsert" /\ Stale(k) THEN k.doc ELSE undo
  /\ UNCHANGED <<canonical, index, todo, outcome, skipped>>

\* retryMemoryVectorOperation, failMemoryVectorOperationPermanently: an upsert may
\* also fail for good at once (a document or a row that cannot be materialized).
Fail(k) ==
  /\ k \in sent /\ ~outcome
  /\ \E status \in IF outbox[k].attempts >= MaxAttempts THEN {"permanent"}
                   ELSE IF k.op = "upsert" THEN {"retryable", "permanent"}
                   ELSE {"retryable"} :
       outbox' = [outbox EXCEPT ![k] = FinishedRow(k, status)]
  /\ sent' = sent \ {k}
  /\ UNCHANGED <<canonical, index, todo, outcome, undo, skipped>>

\* The compensating DeleteDocuments, whose error is ignored.
Compensate ==
  /\ undo # None
  /\ index' \in {index, [index EXCEPT ![undo] = None]}
  /\ undo' = None
  /\ UNCHANGED <<canonical, outbox, todo, sent, outcome, skipped>>

\* The process stops and restarts; its leases stay until they run out.
Crash ==
  /\ ~Idle
  /\ todo' = {} /\ sent' = {} /\ undo' = None
  /\ UNCHANGED <<canonical, outbox, index, outcome, skipped>>

Next ==
  \/ \E r \in Revisions :
       \/ Accept(r) \/ Replace(r) \/ Reopen(r)
       \/ \E hidden \in SUBSET Docs :
            \/ \E res \in Results, kept \in SUBSET Docs : Admit(r, res, hidden, kept)
            \/ \E reconcile \in BOOLEAN : Refresh(r, hidden, reconcile)
       \/ \E lifecycle \in {"invalidated", "deleted"} : Rollback(TurnOf[r], lifecycle)
  \/ \E k \in Keys : Claim(k) \/ LeaseExpires(k) \/ Complete(k) \/ Fail(k)
  \/ \E k \in Keys, ok \in BOOLEAN : CallUpsert(k, ok)
  \/ \E ok \in BOOLEAN : CallDelete(ok)
  \/ Compensate
  \/ Crash

Spec == Init /\ [][Next]_vars

-----------------------------------------------------------------------------
(* Properties.                                                             *)

\* Type correctness.
TypeOK ==
  /\ source \in [Revisions -> {"absent", "active", "invalidated", "deleted"}]
  /\ admitted \in [Revisions -> Results \cup {None}]
  /\ rows \in [Docs -> Results \cup {None}]
  /\ outbox \in [Keys -> Row]
  /\ index \in [Docs -> Results \cup {None}]
  /\ todo \subseteq Keys /\ sent \subseteq Keys
  /\ outcome \in BOOLEAN
  /\ undo \in Docs \cup {None}
  /\ skipped \subseteq Docs

\* The rows of one document are worked on one at a time, in the order they were
\* queued: the NOT EXISTS (prior ...) clause of the claim.
OneLeasePerDocument ==
  \A j, k \in Keys :
    outbox[j].status = "leased" /\ outbox[k].status = "leased" /\ j.doc = k.doc => j = k

Gone(d) == source[RevisionOf[d]] \in {"invalidated", "deleted"}

DeleteOutstanding(d) ==
  \E k \in RowsOf(d) : /\ k.op = "delete_inactive"
                       /\ Unfinished(k) \/ outbox[k].status = "permanent"

\* What processMemoryVectorOutboxOnce promises: a provider success is compensated or
\* left behind a queued delete if the source fence changes before commit.  Whenever
\* Chroma holds a document of a revision that is gone, its delete is still queued (or
\* failed for good and is reported as such).
NoOrphanVector == \A d \in Docs : Gone(d) /\ index[d] # None => DeleteOutstanding(d)

\* No row of the document is waiting, being worked on, or given up.
Settled(d) == \A k \in RowsOf(d) : ~Unfinished(k) /\ outbox[k].status # "permanent"

\* When a document's rows have all been worked off, Chroma holds exactly what the
\* canonical row says, unless the document's last change queued nothing: its operation
\* key had been used before, or an admission made kept evidence private.
IndexConverges ==
  \A d \in Docs : Settled(d) /\ d \notin skipped => index[d] = rows[d]

Owed == {d \in Docs : ~Settled(d) \/ d \in skipped}

Mirror == INSTANCE IndexMirror WITH
            Texts <- Results, row <- rows, shown <- index, owed <- Owed

\* The outbox and its worker keep the index a mirror of the canonical rows: no
\* transaction passes a document off as settled while Chroma holds something else,
\* and no vector call, late, repeated or compensating, touches a settled document.
ImplementsMirror == Mirror!Spec

=============================================================================
