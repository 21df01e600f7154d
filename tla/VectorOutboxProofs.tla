------------------------- MODULE VectorOutboxProofs -------------------------
(***************************************************************************)
(* Proofs about VectorOutbox, for every set of revisions, documents and    *)
(* results: type correctness, no orphan vector, one lease per document,    *)
(* convergence of Chroma to MariaDB, and the refinement of IndexMirror.    *)
(*                                                                         *)
(* NoOrphanVector is not inductive.  It becomes so once the worker's       *)
(* batch is related to the table: a claimed upsert may still write its     *)
(* document, so its delete has to be outstanding too, and a delete that    *)
(* the worker is about to complete has really removed its document.        *)
(*                                                                         *)
(* One lease per document follows from the order in which rows are         *)
(* started (LInv).  Convergence follows from that and from what the        *)
(* newest row of a document says: it asks for the canonical row, and once  *)
(* it is completed nothing in flight can disturb the document (CInv).      *)
(***************************************************************************)
EXTENDS VectorOutbox, FiniteSetTheorems, TLAPS

\* Claimed rows exist, and a batch holds upserts only or deletes only.
BatchSound ==
  /\ \A k \in todo \cup sent : outbox[k].status # "absent"
  /\ \A j, k \in todo \cup sent : j.op = "upsert" => k.op = "upsert"

\* A delete call that succeeded has removed the document.
DeletesApplied == \A k \in sent : outcome /\ k.op # "upsert" => index[k.doc] = None

\* What Chroma holds was put there by a row of the outbox.
IndexedIsKnown ==
  \A d \in Docs : index[d] # None => \E k \in RowsOf(d) : k.op = "upsert"

\* A delete for an inactive source is queued only once its revision, and the revision
\* of its document, are gone for good.
DeletesFollowInvalidation ==
  \A k \in Keys : k.op = "delete_inactive" /\ outbox[k].status # "absent"
                    => Gone(k.doc) /\ source[k.rev] \in {"invalidated", "deleted"}

\* Chroma holds the document, or the worker may still write it.
MayBeIndexed(d) == index[d] # None \/ \E k \in todo : k.op = "upsert" /\ k.doc = d

Guarded == \A d \in Docs : Gone(d) /\ MayBeIndexed(d) => DeleteOutstanding(d)

IInv == TypeOK /\ BatchSound /\ DeletesApplied /\ IndexedIsKnown
          /\ DeletesFollowInvalidation /\ Guarded

-----------------------------------------------------------------------------
(* Lemmas about keys and rows.                                             *)

\* The shape of an operation key.
LEMMA KeyShape ==
  ASSUME NEW k \in Keys
  PROVE  /\ k.op \in Operations /\ k.rev \in Revisions /\ k.doc \in Docs
         /\ k.op = "upsert" => k.rev = RevisionOf[k.doc] /\ k.result \in Results
BY OutboxAssumption DEF Keys, Operations

\* The keys that invalidation and admission build are operation keys.
LEMMA DeleteKeyIsKey ==
  ASSUME NEW r \in Revisions, NEW d \in Docs
  PROVE  /\ DeleteKey("delete_inactive", r, d) \in Keys
         /\ DeleteKey("delete_inactive", r, d).op = "delete_inactive"
         /\ DeleteKey("delete_inactive", r, d).doc = d
         /\ DeleteKey("delete_inactive", r, d).rev = r
BY DEF Keys, DeleteKey, Operations

\* There are finitely many operation keys.
LEMMA KeysFinite == IsFiniteSet(Keys)
<1> DEFINE Opt == Results \cup {None}
           Tuples == (Operations \X Revisions) \X (Docs \X Opt)
           All == [op : Operations, rev : Revisions, doc : Docs, result : Opt]
           f == [t \in Tuples |-> [op |-> t[1][1], rev |-> t[1][2],
                                   doc |-> t[2][1], result |-> t[2][2]]]
<1>1. IsFiniteSet(Operations)
  <2>1. Operations = {"upsert"} \cup {"delete_active"} \cup {"delete_inactive"}
    BY DEF Operations
  <2> QED BY <2>1, FS_Singleton, FS_Union
<1>2. IsFiniteSet(Opt)
  BY OutboxAssumption, FS_Singleton, FS_Union
<1>3. IsFiniteSet(Operations \X Revisions) /\ IsFiniteSet(Docs \X Opt)
  BY <1>1, <1>2, OutboxAssumption, FS_Product
<1>4. IsFiniteSet(Tuples)
  BY <1>3, FS_Product
<1>5. f \in Surjection(Tuples, All)
  <2>1. f \in [Tuples -> All]
    OBVIOUS
  <2>2. ASSUME NEW k \in All PROVE \E t \in Tuples : f[t] = k
    <3>1. <<<<k.op, k.rev>>, <<k.doc, k.result>>>> \in Tuples
      OBVIOUS
    <3>2. f[<<<<k.op, k.rev>>, <<k.doc, k.result>>>>] = k
      BY <3>1
    <3> QED BY <3>1, <3>2
  <2> QED BY <2>1, <2>2 DEF Surjection
<1>6. IsFiniteSet(All)
  BY <1>4, <1>5, FS_Surjection
<1>7. Keys \in SUBSET All
  BY DEF Keys
<1> QED BY <1>6, <1>7, FS_Subset

\* The row that an enqueue inserts.
LEMMA InsertedRow ==
  ASSUME NEW k \in Keys
  PROVE  Inserted(k) \in Row /\ Inserted(k).status = "pending"
<1>1. RowsOf(k.doc) \in SUBSET Keys
  BY DEF RowsOf
<1>2. Cardinality(RowsOf(k.doc)) \in Nat
  BY <1>1, KeysFinite, FS_Subset, FS_CardinalityType
<1>3. 0 \in 0..MaxAttempts
  BY OutboxAssumption
<1> QED BY <1>2, <1>3 DEF Inserted, Row, Statuses

\* Leasing a row keeps its type.
LEMMA LeasedRow ==
  ASSUME NEW row \in Row
  PROVE  Leased(row) \in Row /\ Leased(row).status = "leased"
<1>1. row.attempts \in 0..MaxAttempts /\ MaxAttempts \in Nat
  BY OutboxAssumption DEF Row
<1> DEFINE a == IF row.attempts < MaxAttempts THEN row.attempts + 1 ELSE row.attempts
<1>2. a \in 0..MaxAttempts
  BY <1>1
<1>3. Leased(row) = [row EXCEPT !.status = "leased", !.live = TRUE, !.attempts = a]
  BY DEF Leased
<1> HIDE DEF a
<1> QED BY <1>2, <1>3 DEF Row, Statuses

-----------------------------------------------------------------------------
(* Type correctness.                                                       *)

\* An updated row is still a row.
LEMMA RowUpdate ==
  ASSUME NEW row \in Row, NEW status \in Statuses
  PROVE  /\ [row EXCEPT !.status = status] \in Row
         /\ [row EXCEPT !.status = status, !.live = FALSE] \in Row
         /\ [row EXCEPT !.live = FALSE, !.status = status] \in Row
         /\ [row EXCEPT !.live = FALSE] \in Row
         /\ [row EXCEPT !.status = status, !.attempts = 0, !.live = FALSE] \in Row
<1>1. 0 \in 0..MaxAttempts
  BY OutboxAssumption
<1> QED BY <1>1 DEF Row

\* The documents of a set of keys are documents.
LEMMA SkippedType ==
  ASSUME TypeOK, NEW keys \in SUBSET Keys
  PROVE  SkippedAfter(keys) \subseteq Docs
BY KeyShape DEF SkippedAfter, TypeOK

\* The deletes of an invalidation are operation keys.
LEMMA InvalidationDeleteKeys ==
  ASSUME NEW revs \in SUBSET Revisions, NEW last \in revs
  PROVE  InvalidationDeletes(revs, last) \in SUBSET Keys
<1> SUFFICES ASSUME NEW k \in InvalidationDeletes(revs, last) PROVE k \in Keys
  OBVIOUS
<1>1. PICK d \in UNION {KnownDocs(r) : r \in revs} :
        k = DeleteKey("delete_inactive", IF source[RevisionOf[d]] = "active" THEN last
                                         ELSE RevisionOf[d], d)
  BY DEF InvalidationDeletes
<1>2. d \in Docs /\ RevisionOf[d] \in Revisions
  BY <1>1, OutboxAssumption DEF KnownDocs
<1> QED BY <1>1, <1>2, DeleteKeyIsKey

\* The keys an admission enqueues are operation keys.
LEMMA AdmissionKeysAreKeys ==
  ASSUME NEW r \in Revisions, NEW res \in Results, ResultDocs[res] \subseteq DocsOf(r),
         NEW dropped \in SUBSET DocsOf(r)
  PROVE  AdmissionKeys(r, res, dropped) \in SUBSET Keys
BY OutboxAssumption DEF AdmissionKeys, Keys, Operations, DeleteKey, UpsertKey, DocsOf

\* The documents that can be dropped are documents of the revision, and the result does
\* not want them.
LEMMA DroppedDocs ==
  ASSUME NEW r \in Revisions, NEW res, NEW d
  PROVE  /\ d \in Retired(r, res) => d \in DocsOf(r) /\ d \notin ResultDocs[res]
         /\ d \in Hideable(r, res) => /\ d \in DocsOf(r) /\ d \notin ResultDocs[res]
                                     /\ \E k \in RowsOf(d) : k.op = "upsert"
BY KeyShape DEF Retired, Hideable, KnownDocs, DocsOf, RowsOf

\* Invalidation keeps the types.
LEMMA InvalidateType ==
  ASSUME TypeOK, NEW revs \in SUBSET Revisions, NEW last \in revs, Invalidate(revs, last)
  PROVE  /\ outbox' \in [Keys -> Row]
         /\ skipped' \subseteq Docs
         /\ rows' \in [Docs -> Results \cup {None}]
<1>1. ASSUME NEW k \in Keys
      PROVE  OutboxAfterInvalidation(revs, last)[k] \in Row
  <2>1. outbox[k] \in Row /\ "stale_rejected" \in Statuses
    BY DEF TypeOK, Statuses
  <2> QED BY <2>1, RowUpdate, InsertedRow DEF OutboxAfterInvalidation
<1>2. outbox' \in [Keys -> Row]
  BY <1>1 DEF Invalidate, OutboxAfterInvalidation
<1>3. skipped' \subseteq Docs
  BY SkippedType, InvalidationDeleteKeys DEF Invalidate
<1>4. rows' \in [Docs -> Results \cup {None}]
  BY DEF Invalidate, TypeOK
<1> QED BY <1>2, <1>3, <1>4

\* What finishing a row leaves behind is a row.
LEMMA FinishedRowType ==
  ASSUME TypeOK, NEW k \in Keys, NEW status \in Statuses
  PROVE  FinishedRow(k, status) \in Row
<1>1. outbox[k] \in Row /\ "stale_rejected" \in Statuses
  BY DEF TypeOK, Statuses
<1>2. (IF FenceHolds(k) THEN status ELSE "stale_rejected") \in Statuses
  BY <1>1
<1> QED BY <1>1, <1>2, RowUpdate DEF FinishedRow

\* Every step keeps the types.
LEMMA TypeStep == TypeOK /\ [Next]_vars => TypeOK'
<1> SUFFICES ASSUME TypeOK, [Next]_vars PROVE TypeOK'
  OBVIOUS
<1>1. ASSUME NEW r \in Revisions, Accept(r) PROVE TypeOK'
  BY <1>1 DEF Accept, TypeOK, worker
<1>2. ASSUME NEW r \in Revisions, Replace(r) PROVE TypeOK'
  <2> DEFINE revs == {s \in Active : TurnOf[s] = TurnOf[r]}
  <2>1. PICK last \in revs : Invalidate(revs, last)
    BY <1>2 DEF Replace
  <2>2. revs \in SUBSET Revisions
    BY DEF Active
  <2>3. /\ outbox' \in [Keys -> Row] /\ skipped' \subseteq Docs
        /\ rows' \in [Docs -> Results \cup {None}]
    <3> HIDE DEF revs
    <3> QED BY <2>1, <2>2, InvalidateType
  <2> QED BY <1>2, <2>3 DEF Replace, TypeOK, worker
<1>3. ASSUME NEW r \in Revisions, Reopen(r) PROVE TypeOK'
  BY <1>3 DEF Reopen, TypeOK, worker
<1>4. ASSUME NEW r \in Revisions, NEW hidden, NEW reconcile, Refresh(r, hidden, reconcile)
      PROVE  TypeOK'
  <2> DEFINE keys == AdmissionKeys(r, admitted[r], hidden)
  <2>1. outbox' = [k \in Keys |->
          IF Enqueued(k, keys) THEN Inserted(k)
          ELSE IF k \in keys
          THEN [outbox[k] EXCEPT !.status = "pending", !.attempts = 0, !.live = FALSE]
          ELSE IF reconcile /\ Cancelled(k, hidden)
          THEN [outbox[k] EXCEPT !.status = "stale_rejected"]
          ELSE outbox[k]]
    BY <1>4 DEF Refresh
  <2> HIDE DEF keys
  <2>2. ASSUME NEW k \in Keys PROVE outbox'[k] \in Row
    <3>1. outbox[k] \in Row /\ "pending" \in Statuses /\ "stale_rejected" \in Statuses
      BY DEF TypeOK, Statuses
    <3> QED BY <2>1, <3>1, RowUpdate, InsertedRow
  <2>3. outbox' \in [Keys -> Row]
    BY <2>1, <2>2
  <2> QED BY <1>4, <2>3 DEF Refresh, TypeOK, canonical, worker
<1>5. ASSUME NEW r \in Revisions, NEW res \in Results, NEW hidden, NEW kept,
             Admit(r, res, hidden, kept)
      PROVE  TypeOK'
  <2> DEFINE retired == Retired(r, res) \ (hidden \cup kept)
             keys == AdmissionKeys(r, res, retired \cup hidden)
  <2>1. /\ outbox' = [k \in Keys |->
             IF Enqueued(k, keys) THEN Inserted(k)
             ELSE IF Cancelled(k, retired) THEN [outbox[k] EXCEPT !.status = "stale_rejected"]
             ELSE outbox[k]]
        /\ skipped' = SkippedAfter(keys) \cup kept
    BY <1>5 DEF Admit
  <2>2. keys \in SUBSET Keys /\ kept \subseteq Docs
    <3>1. retired \cup hidden \in SUBSET DocsOf(r) /\ kept \subseteq DocsOf(r)
      BY <1>5, DroppedDocs DEF Admit
    <3> QED BY <1>5, <3>1, AdmissionKeysAreKeys DEF Admit, DocsOf
  <2> HIDE DEF keys, retired
  <2>3. ASSUME NEW k \in Keys PROVE outbox'[k] \in Row
    <3>1. outbox[k] \in Row /\ "stale_rejected" \in Statuses
      BY DEF TypeOK, Statuses
    <3> QED BY <2>1, <3>1, RowUpdate, InsertedRow
  <2>4. outbox' \in [Keys -> Row] /\ skipped' \subseteq Docs
    BY <2>1, <2>2, <2>3, SkippedType
  <2> QED BY <1>5, <2>4 DEF Admit, TypeOK, worker
<1>6. ASSUME NEW turn, NEW lifecycle \in {"invalidated", "deleted"}, Rollback(turn, lifecycle)
      PROVE  TypeOK'
  <2>1. PICK revs \in SUBSET Revisions :
          /\ \E last \in LastOf(revs) : Invalidate(revs, last)
          /\ source' = [r \in Revisions |-> IF r \in revs THEN lifecycle ELSE source[r]]
    BY <1>6 DEF Rollback
  <2>2. PICK last \in revs : Invalidate(revs, last)
    BY <2>1 DEF LastOf
  <2>3. /\ outbox' \in [Keys -> Row] /\ skipped' \subseteq Docs
        /\ rows' \in [Docs -> Results \cup {None}]
    BY <2>2, InvalidateType
  <2> QED BY <1>6, <2>1, <2>3 DEF Rollback, TypeOK, worker
<1>7. ASSUME NEW k \in Keys, Claim(k) PROVE TypeOK'
  <2>1. PICK group \in {{k}, {k} \cup Siblings(k)} :
          /\ todo' = group
          /\ outbox' = [j \in Keys |->
               IF j \in group THEN Leased(outbox[j])
               ELSE IF Unfinished(j) /\ ~FenceHolds(j)
               THEN [outbox[j] EXCEPT !.status = "stale_rejected", !.live = FALSE]
               ELSE outbox[j]]
    BY <1>7 DEF Claim
  <2>2. ASSUME NEW j \in Keys PROVE outbox'[j] \in Row
    <3>1. outbox[j] \in Row /\ "stale_rejected" \in Statuses
      BY DEF TypeOK, Statuses
    <3> QED BY <2>1, <3>1, RowUpdate, LeasedRow
  <2>3. outbox' \in [Keys -> Row] /\ todo' \subseteq Keys
    BY <2>1, <2>2 DEF Siblings
  <2> QED BY <1>7, <2>3 DEF Claim, TypeOK, canonical
<1>8. ASSUME NEW k \in Keys, LeaseExpires(k) PROVE TypeOK'
  <2>1. outbox[k] \in Row /\ "leased" \in Statuses
    BY DEF TypeOK, Statuses
  <2>2. outbox' \in [Keys -> Row]
    BY <1>8, <2>1, RowUpdate DEF LeaseExpires, TypeOK
  <2> QED BY <1>8, <2>2 DEF LeaseExpires, TypeOK, canonical, worker
<1>9. ASSUME NEW k \in Keys, Complete(k) PROVE TypeOK'
  <2>1. FinishedRow(k, "completed") \in Row
    BY FinishedRowType DEF Statuses
  <2> QED BY <1>9, <2>1, KeyShape DEF Complete, TypeOK, canonical
<1>10. ASSUME NEW k \in Keys, Fail(k) PROVE TypeOK'
  <2>1. PICK status \in {"permanent", "retryable"} :
          outbox' = [outbox EXCEPT ![k] = FinishedRow(k, status)]
    BY <1>10 DEF Fail
  <2>2. FinishedRow(k, status) \in Row
    BY FinishedRowType DEF Statuses
  <2> QED BY <1>10, <2>1, <2>2 DEF Fail, TypeOK, canonical
<1>11. ASSUME NEW k \in Keys, NEW ok \in BOOLEAN, CallUpsert(k, ok) PROVE TypeOK'
  BY <1>11, KeyShape DEF CallUpsert, TypeOK, canonical
<1>12. ASSUME NEW ok \in BOOLEAN, CallDelete(ok) PROVE TypeOK'
  BY <1>12 DEF CallDelete, TypeOK, canonical
<1>13. CASE Compensate
  BY <1>13 DEF Compensate, TypeOK, canonical
<1>14. CASE Crash
  BY <1>14 DEF Crash, TypeOK, canonical
<1>15. CASE UNCHANGED vars
  BY <1>15 DEF vars, TypeOK
<1> QED BY <1>1, <1>2, <1>3, <1>4, <1>5, <1>6, <1>7, <1>8, <1>9, <1>10, <1>11,
           <1>12, <1>13, <1>14, <1>15 DEF Next

\* The initial state has the types.
LEMMA TypeInit == Init => TypeOK
<1>1. NoRow \in Row
  BY OutboxAssumption DEF NoRow, Row, Statuses
<1> QED BY <1>1 DEF Init, TypeOK

\* Type correctness of the outbox, for every set of revisions, documents and results.
THEOREM OutboxTypeCorrect == Spec => []TypeOK
BY TypeInit, TypeStep, PTL DEF Spec

-----------------------------------------------------------------------------
(* No orphan vector.                                                       *)

Outstanding == {"pending", "leased", "retryable", "permanent"}

\* No row disappears, and no outstanding delete is settled.
KeepsRows == \A k \in Keys : outbox[k].status # "absent" => outbox'[k].status # "absent"
KeepsDeletes == \A k \in Keys : k.op = "delete_inactive" /\ outbox[k].status \in Outstanding
                                  => outbox'[k].status \in Outstanding

\* No delete for an inactive source is queued.
AddsNoDelete == \A k \in Keys : k.op = "delete_inactive" /\ outbox[k].status = "absent"
                                  => outbox'[k].status = "absent"

\* Under these three the knowledge about documents is kept.
LEMMA RowsFrame ==
  ASSUME KeepsRows, NEW d \in Docs
  PROVE  /\ (\E k \in RowsOf(d) : k.op = "upsert") => (\E k \in RowsOf(d)' : k.op = "upsert")
         /\ KeepsDeletes /\ DeleteOutstanding(d) => DeleteOutstanding(d)'
<1>1. RowsOf(d) \subseteq RowsOf(d)'
  BY DEF KeepsRows, RowsOf
<1>2. ASSUME KeepsDeletes, DeleteOutstanding(d) PROVE DeleteOutstanding(d)'
  <2>1. PICK k \in RowsOf(d) : /\ k.op = "delete_inactive"
                               /\ Unfinished(k) \/ outbox[k].status = "permanent"
    BY <1>2 DEF DeleteOutstanding
  <2>2. k \in Keys /\ outbox[k].status \in Outstanding
    BY <2>1 DEF RowsOf, Unfinished, Outstanding
  <2>3. outbox'[k].status \in Outstanding
    BY <1>2, <2>1, <2>2 DEF KeepsDeletes
  <2>4. Unfinished(k)' \/ outbox'[k].status = "permanent"
    BY <2>3 DEF Unfinished, Outstanding
  <2> QED BY <1>1, <2>1, <2>4 DEF DeleteOutstanding
<1> QED BY <1>1, <1>2

\* A step that touches neither the lifecycle nor the batch and adds no content to
\* Chroma keeps the invariant when it keeps rows and deletes.
LEMMA TableStep ==
  ASSUME IInv, KeepsRows, KeepsDeletes, AddsNoDelete,
         UNCHANGED <<source, index, todo, sent, outcome>>
  PROVE  BatchSound' /\ DeletesApplied' /\ IndexedIsKnown'
           /\ DeletesFollowInvalidation' /\ Guarded'
<1>1. BatchSound' /\ DeletesApplied'
  BY DEF IInv, TypeOK, BatchSound, DeletesApplied, KeepsRows
<1>2. IndexedIsKnown'
  BY RowsFrame DEF IInv, IndexedIsKnown
<1>3. DeletesFollowInvalidation'
  BY DEF IInv, DeletesFollowInvalidation, AddsNoDelete, Gone
<1>4. Guarded'
  BY RowsFrame DEF IInv, Guarded, MayBeIndexed, Gone
<1> QED BY <1>1, <1>2, <1>3, <1>4

\* Finishing a row keeps every other row, and removes none.
LEMMA FinishStep ==
  ASSUME IInv, NEW k \in sent, NEW status \in Statuses \ {"absent"},
         outbox' = [outbox EXCEPT ![k] = FinishedRow(k, status)]
  PROVE  /\ KeepsRows /\ AddsNoDelete
         /\ status \in Outstanding => KeepsDeletes
         /\ \A j \in Keys : j # k => outbox'[j] = outbox[j]
<1>1. k \in Keys /\ outbox[k].status # "absent"
  BY DEF IInv, TypeOK, BatchSound
<1>2. \A j \in Keys : j # k => outbox'[j] = outbox[j]
  BY DEF IInv, TypeOK
<1>3. outbox'[k] = FinishedRow(k, status)
  BY <1>1 DEF IInv, TypeOK
<1>4. outbox[k] \in Row
  BY <1>1 DEF IInv, TypeOK
<1>5. FinishedRow(k, status).status \in {outbox[k].status, status, "stale_rejected"}
  BY <1>4 DEF FinishedRow, Row
<1>6. KeepsRows /\ AddsNoDelete
  BY <1>1, <1>2, <1>3, <1>5 DEF KeepsRows, AddsNoDelete, Statuses
<1>7. ASSUME status \in Outstanding, k.op = "delete_inactive", outbox[k].status \in Outstanding
      PROVE  outbox'[k].status \in Outstanding
  <2>1. source[k.rev] # "active"
    BY <1>1, <1>7 DEF IInv, DeletesFollowInvalidation
  <2>2. FenceHolds(k)
    BY <1>7, <2>1 DEF FenceHolds
  <2>3. FinishedRow(k, status).status \in {outbox[k].status, status}
    BY <1>4, <2>2 DEF FinishedRow, Row
  <2> QED BY <1>3, <1>7, <2>3
<1>8. status \in Outstanding => KeepsDeletes
  BY <1>2, <1>7 DEF KeepsDeletes
<1> QED BY <1>2, <1>6, <1>8

\* The queued deletes of an invalidation: they are for documents of the revisions, and
\* every known document of a revision that was active gets one, with a fresh key.
LEMMA InvalidationCovers ==
  ASSUME IInv, NEW revs \in SUBSET Revisions, NEW last \in revs, NEW d \in Docs,
         RevisionOf[d] \in revs, source[RevisionOf[d]] = "active",
         \E k \in RowsOf(d) : k.op = "upsert"
  PROVE  Enqueued(DeleteKey("delete_inactive", last, d), InvalidationDeletes(revs, last))
<1> DEFINE key == DeleteKey("delete_inactive", last, d)
<1>1. d \in KnownDocs(RevisionOf[d])
  BY KeyShape DEF KnownDocs, RowsOf
<1>2. key \in InvalidationDeletes(revs, last)
  BY <1>1 DEF InvalidationDeletes
<1>3. key \in Keys /\ key.op = "delete_inactive" /\ key.doc = d
  BY DeleteKeyIsKey
<1>4. outbox[key].status = "absent"
  BY <1>3 DEF IInv, DeletesFollowInvalidation, Gone
<1> QED BY <1>2, <1>4 DEF Enqueued

LEMMA InvalidationOnly ==
  ASSUME IInv, NEW revs \in SUBSET Revisions, NEW last \in revs,
         \A r \in revs : source[r] \in {"active", "invalidated"},
         NEW k \in InvalidationDeletes(revs, last)
  PROVE  RevisionOf[k.doc] \in revs /\ k.rev \in revs /\ k.op = "delete_inactive"
<1>1. PICK d \in UNION {KnownDocs(r) : r \in revs} :
        k = DeleteKey("delete_inactive", IF source[RevisionOf[d]] = "active" THEN last
                                         ELSE RevisionOf[d], d)
  BY DEF InvalidationDeletes
<1>2. PICK r \in revs : d \in KnownDocs(r)
  BY <1>1
<1>3. d \in Docs /\ RevisionOf[d] = r
  BY <1>2, KeyShape DEF KnownDocs, RowsOf
<1> QED BY <1>1, <1>2, <1>3 DEF DeleteKey

\* Invalidation keeps the invariant: the revisions go inactive and the deletes are
\* queued in one transaction.
LEMMA InvalidateStep ==
  ASSUME IInv, NEW revs \in SUBSET Revisions, NEW last \in revs, Invalidate(revs, last),
         \A r \in revs : source[r] \in {"active", "invalidated"},
         \A r \in revs : source'[r] \in {"invalidated", "deleted"},
         \A r \in Revisions \ revs : \/ source'[r] = source[r]
                                     \/ (source[r] = "absent" /\ source'[r] = "active"),
         UNCHANGED <<index, todo, sent, outcome>>
  PROVE  BatchSound' /\ DeletesApplied' /\ IndexedIsKnown'
           /\ DeletesFollowInvalidation' /\ Guarded'
<1> DEFINE keys == InvalidationDeletes(revs, last)
<1>1. \A k \in Keys : outbox'[k] =
        IF Enqueued(k, keys) THEN Inserted(k)
        ELSE IF k.op = "upsert" /\ k.rev \in revs /\ Unfinished(k)
        THEN [outbox[k] EXCEPT !.status = "stale_rejected", !.live = FALSE]
        ELSE outbox[k]
  BY DEF Invalidate, OutboxAfterInvalidation
<1> HIDE DEF keys
<1>2. \A k \in Keys : outbox[k] \in Row
  BY DEF IInv, TypeOK
<1>3. KeepsRows
  BY <1>1, <1>2 DEF KeepsRows, Enqueued, Row
<1>4. KeepsDeletes
  BY <1>1 DEF KeepsDeletes, Enqueued, Outstanding
<1>5. BatchSound' /\ DeletesApplied'
  BY <1>3 DEF IInv, TypeOK, BatchSound, DeletesApplied, KeepsRows
<1>6. IndexedIsKnown'
  BY <1>3, RowsFrame DEF IInv, IndexedIsKnown
<1>7. ASSUME NEW k \in Keys, k.op = "delete_inactive", outbox'[k].status # "absent"
      PROVE  Gone(k.doc)' /\ source'[k.rev] \in {"invalidated", "deleted"}
  <2>1. CASE outbox[k].status # "absent"
    <3>1. Gone(k.doc) /\ source[k.rev] \in {"invalidated", "deleted"}
      BY <1>7, <2>1 DEF IInv, DeletesFollowInvalidation
    <3>2. k.rev \in Revisions /\ RevisionOf[k.doc] \in Revisions
      BY KeyShape, OutboxAssumption
    <3> QED BY <3>1, <3>2 DEF Gone
  <2>2. CASE outbox[k].status = "absent"
    <3>1. k \in keys
      BY <1>1, <1>7, <2>2 DEF Enqueued
    <3>2. RevisionOf[k.doc] \in revs /\ k.rev \in revs
      BY <3>1, InvalidationOnly DEF keys
    <3> QED BY <3>2 DEF Gone
  <2> QED BY <2>1, <2>2
<1>8. DeletesFollowInvalidation'
  BY <1>7 DEF DeletesFollowInvalidation
<1>9. ASSUME NEW d \in Docs, Gone(d)', MayBeIndexed(d)'
      PROVE  DeleteOutstanding(d)'
  <2>1. MayBeIndexed(d)
    BY <1>9 DEF MayBeIndexed
  <2>2. CASE Gone(d)
    BY <1>3, <1>4, <2>1, <2>2, RowsFrame DEF IInv, Guarded
  <2>3. CASE ~Gone(d)
    <3>1. RevisionOf[d] \in Revisions
      BY OutboxAssumption
    <3>2. RevisionOf[d] \in revs /\ source[RevisionOf[d]] = "active"
      BY <1>9, <2>3, <3>1 DEF Gone
    <3>3. \E k \in RowsOf(d) : k.op = "upsert"
      <4>1. CASE index[d] # None
        BY <4>1 DEF IInv, IndexedIsKnown
      <4>2. CASE \E k \in todo : k.op = "upsert" /\ k.doc = d
        BY <4>2 DEF IInv, TypeOK, BatchSound, RowsOf
      <4> QED BY <2>1, <4>1, <4>2 DEF MayBeIndexed
    <3> DEFINE key == DeleteKey("delete_inactive", last, d)
    <3>4. key \in Keys /\ key.op = "delete_inactive" /\ key.doc = d
      BY DeleteKeyIsKey
    <3>5. Enqueued(key, keys)
      BY <3>2, <3>3, InvalidationCovers DEF keys
    <3> HIDE DEF key
    <3>6. outbox'[key].status = "pending"
      BY <1>1, <3>4, <3>5, InsertedRow
    <3>7. key \in RowsOf(d)' /\ Unfinished(key)'
      BY <3>4, <3>6 DEF RowsOf, Unfinished
    <3> QED BY <3>4, <3>7 DEF DeleteOutstanding
  <2> QED BY <2>2, <2>3
<1>10. Guarded'
  BY <1>9 DEF Guarded
<1> QED BY <1>5, <1>6, <1>8, <1>10

\* The invariant without its type part.
Rest == BatchSound /\ DeletesApplied /\ IndexedIsKnown /\ DeletesFollowInvalidation /\ Guarded

\* Every step keeps the invariant.
LEMMA RestStep == IInv /\ [Next]_vars => Rest'
<1> SUFFICES ASSUME IInv, [Next]_vars PROVE Rest'
  OBVIOUS
<1> USE DEF Rest
<1>1. ASSUME NEW r \in Revisions, Accept(r) PROVE Rest'
  <2>1. \A s \in Revisions : source[s] \in {"invalidated", "deleted"}
                               <=> source'[s] \in {"invalidated", "deleted"}
    BY <1>1 DEF Accept, IInv, TypeOK
  <2>2. UNCHANGED <<outbox, index, todo, sent, outcome>>
    BY <1>1 DEF Accept, worker
  <2>3. \A d \in Docs : (Gone(d)' <=> Gone(d)) /\ RowsOf(d)' = RowsOf(d)
    BY <2>1, <2>2, OutboxAssumption DEF Gone, RowsOf
  <2>4. BatchSound' /\ DeletesApplied' /\ IndexedIsKnown'
    BY <2>2, <2>3 DEF IInv, BatchSound, DeletesApplied, IndexedIsKnown
  <2>5. DeletesFollowInvalidation'
    BY <2>1, <2>2, <2>3, KeyShape DEF IInv, DeletesFollowInvalidation
  <2>6. Guarded'
    BY <2>2, <2>3 DEF IInv, Guarded, MayBeIndexed, DeleteOutstanding, Unfinished
  <2> QED BY <2>4, <2>5, <2>6
<1>2. ASSUME NEW r \in Revisions, Replace(r) PROVE Rest'
  <2> DEFINE revs == {s \in Active : TurnOf[s] = TurnOf[r]}
  <2>1. PICK last \in revs : Invalidate(revs, last)
    BY <1>2 DEF Replace
  <2>2. /\ revs \in SUBSET Revisions
        /\ \A s \in revs : source[s] = "active"
    BY DEF Active
  <2>3. /\ source[r] = "absent" /\ r \notin revs
        /\ source' = [s \in Revisions |-> IF s = r THEN "active"
                                          ELSE IF s \in revs THEN "invalidated" ELSE source[s]]
        /\ UNCHANGED <<index, todo, sent, outcome>>
    BY <1>2, <2>2 DEF Replace, worker
  <2> HIDE DEF revs
  <2>4. /\ \A s \in revs : source'[s] = "invalidated"
        /\ \A s \in Revisions \ revs : \/ source'[s] = source[s]
                                       \/ (source[s] = "absent" /\ source'[s] = "active")
    BY <2>2, <2>3
  <2> QED BY <2>1, <2>2, <2>3, <2>4, InvalidateStep
<1>3. ASSUME NEW r \in Revisions, Reopen(r) PROVE Rest'
  BY <1>3, TableStep DEF Reopen, worker, KeepsRows, KeepsDeletes, AddsNoDelete
<1>4. ASSUME NEW r \in Revisions, NEW hidden, NEW reconcile, Refresh(r, hidden, reconcile)
      PROVE  Rest'
  <2> DEFINE keys == AdmissionKeys(r, admitted[r], hidden)
  <2>1. \A k \in Keys : outbox'[k] =
          IF Enqueued(k, keys) THEN Inserted(k)
          ELSE IF k \in keys
          THEN [outbox[k] EXCEPT !.status = "pending", !.attempts = 0, !.live = FALSE]
          ELSE IF reconcile /\ Cancelled(k, hidden)
          THEN [outbox[k] EXCEPT !.status = "stale_rejected"]
          ELSE outbox[k]
    BY <1>4 DEF Refresh
  <2>2. \A k \in keys : k.op # "delete_inactive"
    BY DEF AdmissionKeys, DeleteKey, UpsertKey
  <2> HIDE DEF keys
  <2>3. ASSUME NEW k \in Keys
        PROVE  /\ outbox[k].status # "absent" => outbox'[k].status # "absent"
               /\ k.op = "delete_inactive" => outbox'[k] = outbox[k]
    <3>1. outbox[k] \in Row
      BY DEF IInv, TypeOK
    <3>2. k.op = "delete_inactive" => outbox'[k] = outbox[k]
      BY <2>1, <2>2 DEF Enqueued, Cancelled
    <3>3. outbox[k].status # "absent" => outbox'[k].status # "absent"
      BY <2>1, <3>1 DEF Enqueued, Row
    <3> QED BY <3>2, <3>3
  <2>4. KeepsRows /\ KeepsDeletes /\ AddsNoDelete
    BY <2>3 DEF KeepsRows, KeepsDeletes, AddsNoDelete
  <2>5. UNCHANGED <<source, index, todo, sent, outcome>>
    BY <1>4 DEF Refresh, canonical, worker
  <2> QED BY <2>4, <2>5, TableStep
<1>5. ASSUME NEW r \in Revisions, NEW res \in Results, NEW hidden, NEW kept,
             Admit(r, res, hidden, kept)
      PROVE  Rest'
  <2> DEFINE retired == Retired(r, res) \ (hidden \cup kept)
             keys == AdmissionKeys(r, res, retired \cup hidden)
  <2>1. \A k \in Keys : outbox'[k] =
          IF Enqueued(k, keys) THEN Inserted(k)
          ELSE IF Cancelled(k, retired) THEN [outbox[k] EXCEPT !.status = "stale_rejected"]
          ELSE outbox[k]
    BY <1>5 DEF Admit
  <2>2. \A k \in keys : k.op # "delete_inactive"
    BY DEF AdmissionKeys, DeleteKey, UpsertKey
  <2>3. \A k \in Keys : outbox[k] \in Row
    BY DEF IInv, TypeOK
  <2>4. KeepsRows
    <3> HIDE DEF keys
    <3> QED BY <2>1, <2>3 DEF KeepsRows, Enqueued, Row
  <2>5. KeepsDeletes /\ AddsNoDelete
    <3> HIDE DEF keys
    <3> QED BY <2>1, <2>2 DEF KeepsDeletes, AddsNoDelete, Enqueued, Cancelled
  <2>6. UNCHANGED <<source, index, todo, sent, outcome>>
    BY <1>5 DEF Admit, worker
  <2> QED BY <2>4, <2>5, <2>6, TableStep
<1>6. ASSUME NEW turn, NEW lifecycle \in {"invalidated", "deleted"}, Rollback(turn, lifecycle)
      PROVE  Rest'
  <2>1. PICK revs \in SUBSET Revisions :
          /\ \A r \in revs : source[r] \in {"active", "invalidated"}
          /\ \E last \in LastOf(revs) : Invalidate(revs, last)
          /\ source' = [r \in Revisions |-> IF r \in revs THEN lifecycle ELSE source[r]]
    BY <1>6 DEF Rollback
  <2>2. PICK last \in revs : Invalidate(revs, last)
    BY <2>1 DEF LastOf
  <2>3. /\ \A r \in revs : source'[r] \in {"invalidated", "deleted"}
        /\ \A r \in Revisions \ revs : source'[r] = source[r]
    BY <2>1
  <2>4. UNCHANGED <<index, todo, sent, outcome>>
    BY <1>6 DEF Rollback, worker
  <2> QED BY <2>1, <2>2, <2>3, <2>4, InvalidateStep
<1>7. ASSUME NEW k \in Keys, Claim(k) PROVE Rest'
  <2>1. PICK group \in {{k}, {k} \cup Siblings(k)} :
          /\ todo' = group
          /\ outbox' = [j \in Keys |->
               IF j \in group THEN Leased(outbox[j])
               ELSE IF Unfinished(j) /\ ~FenceHolds(j)
               THEN [outbox[j] EXCEPT !.status = "stale_rejected", !.live = FALSE]
               ELSE outbox[j]]
    BY <1>7 DEF Claim
  <2>2. /\ Idle /\ Claimable(k)
        /\ UNCHANGED <<source, index, sent, outcome>>
    BY <1>7 DEF Claim, canonical
  <2>3. /\ \A j \in group : /\ j \in Keys /\ Claimable(j)
                            /\ (j.op = "upsert" <=> k.op = "upsert")
                            /\ j.op = "upsert" => j.rev = k.rev
    BY <2>1, <2>2 DEF Siblings
  <2>4. \A j \in group : outbox[j].status # "absent" /\ FenceHolds(j)
    BY <2>3 DEF Claimable
  <2>5. \A j \in Keys : outbox[j] \in Row
    BY DEF IInv, TypeOK
  <2>6. KeepsRows
    <3> SUFFICES ASSUME NEW j \in Keys, outbox[j].status # "absent"
                 PROVE  outbox'[j].status # "absent"
      BY DEF KeepsRows
    <3>1. outbox[j] \in Row
      BY <2>5
    <3>2. Leased(outbox[j]).status = "leased"
      BY <3>1, LeasedRow
    <3>3. [outbox[j] EXCEPT !.status = "stale_rejected", !.live = FALSE].status = "stale_rejected"
      BY <3>1 DEF Row
    <3> QED BY <2>1, <3>2, <3>3
  <2>7. KeepsDeletes
    <3> SUFFICES ASSUME NEW j \in Keys, j.op = "delete_inactive",
                        outbox[j].status \in Outstanding
                 PROVE  outbox'[j].status \in Outstanding
      BY DEF KeepsDeletes
    <3>1. FenceHolds(j)
      BY DEF IInv, DeletesFollowInvalidation, FenceHolds, Outstanding
    <3> QED BY <2>1, <2>5, <3>1, LeasedRow DEF Outstanding
  <2>8. AddsNoDelete
    BY <2>1, <2>4 DEF AddsNoDelete, Unfinished
  <2>9. sent' = {} /\ sent = {} /\ todo = {}
    BY <2>2 DEF Idle
  <2>10. BatchSound' /\ DeletesApplied'
    BY <2>1, <2>3, <2>4, <2>6, <2>9 DEF BatchSound, DeletesApplied, KeepsRows
  <2>11. IndexedIsKnown'
    BY <2>2, <2>6, RowsFrame DEF IInv, IndexedIsKnown
  <2>12. DeletesFollowInvalidation'
    BY <2>2, <2>8 DEF IInv, DeletesFollowInvalidation, AddsNoDelete, Gone
  <2>13. ASSUME NEW d \in Docs, Gone(d)', MayBeIndexed(d)'
         PROVE  DeleteOutstanding(d)'
    <3>1. Gone(d)
      BY <2>2, <2>13 DEF Gone
    <3>2. ~\E j \in todo' : j.op = "upsert" /\ j.doc = d
      <4> SUFFICES ASSUME NEW j \in group, j.op = "upsert", j.doc = d PROVE FALSE
        BY <2>1
      <4>1. source[j.rev] = "active" /\ j.rev = RevisionOf[d]
        BY <2>3, <2>4, KeyShape DEF FenceHolds
      <4> QED BY <3>1, <4>1 DEF Gone
    <3>3. MayBeIndexed(d)
      BY <2>2, <2>13, <3>2 DEF MayBeIndexed
    <3> QED BY <2>6, <2>7, <3>1, <3>3, RowsFrame DEF IInv, Guarded
  <2>14. Guarded'
    BY <2>13 DEF Guarded
  <2> QED BY <2>10, <2>11, <2>12, <2>14
<1>8. ASSUME NEW k \in Keys, LeaseExpires(k) PROVE Rest'
  <2>1. outbox[k] \in Row
    BY DEF IInv, TypeOK
  <2>2. \A j \in Keys : outbox'[j].status = outbox[j].status
    BY <1>8, <2>1 DEF LeaseExpires, IInv, TypeOK, Row
  <2>3. KeepsRows /\ KeepsDeletes /\ AddsNoDelete
    BY <2>2 DEF KeepsRows, KeepsDeletes, AddsNoDelete
  <2>4. UNCHANGED <<source, index, todo, sent, outcome>>
    BY <1>8 DEF LeaseExpires, canonical, worker
  <2> QED BY <2>3, <2>4, TableStep
<1>9. ASSUME NEW k \in Keys, Complete(k) PROVE Rest'
  <2>1. /\ k \in sent /\ outcome
        /\ outbox' = [outbox EXCEPT ![k] = FinishedRow(k, "completed")]
        /\ sent' = sent \ {k}
        /\ UNCHANGED <<source, index, todo, outcome>>
    BY <1>9 DEF Complete, canonical
  <2>2. KeepsRows /\ AddsNoDelete /\ \A j \in Keys : j # k => outbox'[j] = outbox[j]
    <3>1. "completed" \in Statuses \ {"absent"}
      BY DEF Statuses
    <3> QED BY <2>1, <3>1, FinishStep
  <2>3. BatchSound' /\ DeletesApplied'
    BY <2>1, <2>2 DEF IInv, TypeOK, BatchSound, DeletesApplied, KeepsRows
  <2>4. IndexedIsKnown'
    BY <2>1, <2>2, RowsFrame DEF IInv, IndexedIsKnown
  <2>5. DeletesFollowInvalidation'
    BY <2>1, <2>2 DEF IInv, DeletesFollowInvalidation, AddsNoDelete, Gone
  <2>6. ASSUME NEW d \in Docs, Gone(d)', MayBeIndexed(d)'
        PROVE  DeleteOutstanding(d)'
    <3>1. Gone(d) /\ MayBeIndexed(d)
      BY <2>1, <2>6 DEF Gone, MayBeIndexed
    <3>2. PICK j \in RowsOf(d) : /\ j.op = "delete_inactive"
                                 /\ Unfinished(j) \/ outbox[j].status = "permanent"
      BY <3>1 DEF IInv, Guarded, DeleteOutstanding
    <3>3. j # k
      <4> SUFFICES ASSUME j = k PROVE FALSE
        OBVIOUS
      <4>1. k.op = "delete_inactive" /\ k.doc = d
        BY <3>2 DEF RowsOf
      <4>2. index[d] = None
        BY <2>1, <4>1 DEF IInv, DeletesApplied
      <4>3. ~\E i \in todo : i.op = "upsert"
        BY <2>1, <4>1 DEF IInv, BatchSound
      <4> QED BY <3>1, <4>2, <4>3 DEF MayBeIndexed
    <3>4. j \in Keys /\ j.doc = d /\ outbox'[j] = outbox[j]
      BY <2>2, <3>2, <3>3 DEF RowsOf
    <3>5. j \in RowsOf(d)' /\ (Unfinished(j)' \/ outbox'[j].status = "permanent")
      BY <3>2, <3>4 DEF RowsOf, Unfinished
    <3> QED BY <3>2, <3>5 DEF DeleteOutstanding
  <2>7. Guarded'
    BY <2>6 DEF Guarded
  <2> QED BY <2>3, <2>4, <2>5, <2>7
<1>10. ASSUME NEW k \in Keys, Fail(k) PROVE Rest'
  <2>1. PICK status \in {"permanent", "retryable"} :
          outbox' = [outbox EXCEPT ![k] = FinishedRow(k, status)]
    BY <1>10 DEF Fail
  <2>2. k \in sent /\ sent' = sent \ {k} /\ UNCHANGED <<source, index, todo, outcome>>
    BY <1>10 DEF Fail, canonical
  <2>3. KeepsRows /\ AddsNoDelete /\ KeepsDeletes
    <3>1. status \in Statuses \ {"absent"} /\ status \in Outstanding
      BY DEF Statuses, Outstanding
    <3> QED BY <2>1, <2>2, <3>1, FinishStep
  <2>4. BatchSound' /\ DeletesApplied'
    BY <2>2, <2>3 DEF IInv, TypeOK, BatchSound, DeletesApplied, KeepsRows
  <2>5. IndexedIsKnown' /\ DeletesFollowInvalidation'
    BY <2>2, <2>3, RowsFrame
       DEF IInv, IndexedIsKnown, DeletesFollowInvalidation, AddsNoDelete, Gone
  <2>6. Guarded'
    BY <2>2, <2>3, RowsFrame DEF IInv, Guarded, MayBeIndexed, Gone
  <2> QED BY <2>4, <2>5, <2>6
<1>11. ASSUME NEW k \in Keys, NEW ok \in BOOLEAN, CallUpsert(k, ok) PROVE Rest'
  <2>1. /\ k \in todo /\ k.op = "upsert" /\ sent' = {k} /\ todo' = todo \ {k}
        /\ UNCHANGED <<source, outbox>>
        /\ \A d \in Docs : d # k.doc => index'[d] = index[d]
    BY <1>11, KeyShape DEF CallUpsert, canonical, IInv, TypeOK
  <2>2. BatchSound' /\ DeletesApplied' /\ DeletesFollowInvalidation'
    BY <2>1 DEF IInv, BatchSound, DeletesApplied, DeletesFollowInvalidation, Gone
  <2>3. k \in RowsOf(k.doc)
    BY <2>1 DEF IInv, TypeOK, BatchSound, RowsOf
  <2>4. \A d \in Docs : RowsOf(d)' = RowsOf(d) /\ (Gone(d)' <=> Gone(d))
                        /\ (DeleteOutstanding(d)' <=> DeleteOutstanding(d))
    BY <2>1 DEF RowsOf, Gone, DeleteOutstanding, Unfinished
  <2>5. IndexedIsKnown'
    BY <2>1, <2>3, <2>4 DEF IInv, IndexedIsKnown
  <2>6. \A d \in Docs : MayBeIndexed(d)' => MayBeIndexed(d)
    BY <2>1 DEF MayBeIndexed
  <2>7. Guarded'
    BY <2>4, <2>6 DEF IInv, Guarded
  <2> QED BY <2>2, <2>5, <2>7
<1>12. ASSUME NEW ok \in BOOLEAN, CallDelete(ok) PROVE Rest'
  <2>1. /\ \A k \in todo : k.op # "upsert"
        /\ sent' = todo /\ todo' = {} /\ outcome' = ok
        /\ UNCHANGED <<source, outbox>>
        /\ \A d \in Docs : index'[d] \in {None, index[d]}
        /\ ok => \A k \in todo : k.doc \in Docs => index'[k.doc] = None
    BY <1>12 DEF CallDelete, canonical
  <2>2. BatchSound' /\ DeletesApplied' /\ DeletesFollowInvalidation'
    BY <2>1, KeyShape DEF IInv, TypeOK, BatchSound, DeletesApplied, DeletesFollowInvalidation, Gone
  <2>3. \A d \in Docs : RowsOf(d)' = RowsOf(d) /\ (Gone(d)' <=> Gone(d))
                        /\ (DeleteOutstanding(d)' <=> DeleteOutstanding(d))
                        /\ (MayBeIndexed(d)' => MayBeIndexed(d))
    BY <2>1 DEF RowsOf, Gone, DeleteOutstanding, Unfinished, MayBeIndexed
  <2> QED BY <2>1, <2>2, <2>3 DEF IInv, IndexedIsKnown, Guarded
<1>13. ASSUME Compensate \/ Crash \/ UNCHANGED vars PROVE Rest'
  <2>1. /\ todo' \subseteq todo /\ sent' \subseteq sent
        /\ UNCHANGED <<source, outbox, outcome>>
        /\ \A d \in Docs : index'[d] \in {None, index[d]}
    BY <1>13 DEF Compensate, Crash, vars, canonical, IInv, TypeOK
  <2>2. BatchSound' /\ DeletesApplied' /\ DeletesFollowInvalidation'
    BY <2>1, KeyShape DEF IInv, TypeOK, BatchSound, DeletesApplied, DeletesFollowInvalidation, Gone
  <2>3. \A d \in Docs : RowsOf(d)' = RowsOf(d) /\ (Gone(d)' <=> Gone(d))
                        /\ (DeleteOutstanding(d)' <=> DeleteOutstanding(d))
                        /\ (MayBeIndexed(d)' => MayBeIndexed(d))
    BY <2>1 DEF RowsOf, Gone, DeleteOutstanding, Unfinished, MayBeIndexed
  <2> QED BY <2>1, <2>2, <2>3 DEF IInv, IndexedIsKnown, Guarded
<1> QED BY <1>1, <1>2, <1>3, <1>4, <1>5, <1>6, <1>7, <1>8, <1>9, <1>10, <1>11,
           <1>12, <1>13 DEF Next

\* The guard holds at first, and every step keeps it.
LEMMA GuardInit == Init => IInv
<1> SUFFICES ASSUME Init PROVE IInv
  OBVIOUS
<1>1. TypeOK
  BY TypeInit
<1>2. \A k \in Keys : outbox[k].status = "absent"
  BY DEF Init, NoRow
<1>3. Guarded
  BY DEF Init, Guarded, MayBeIndexed
<1> QED BY <1>1, <1>2, <1>3
      DEF Init, IInv, BatchSound, DeletesApplied, IndexedIsKnown, DeletesFollowInvalidation

LEMMA GuardStep == IInv /\ [Next]_vars => IInv'
BY RestStep, TypeStep DEF IInv, Rest

\* The comment of processMemoryVectorOutboxOnce holds for every number of revisions,
\* documents and results: whenever Chroma holds a document of a revision that was
\* rolled back, replaced or deleted, a delete for it is still queued, or failed for
\* good, whatever the worker was doing when the revision went and wherever the
\* process crashed.
THEOREM NoOrphan == Spec => []NoOrphanVector
<1>1. Init => IInv
  BY GuardInit
<1>2. IInv /\ [Next]_vars => IInv'
  BY GuardStep
<1>3. IInv => NoOrphanVector
  BY DEF IInv, Guarded, MayBeIndexed, NoOrphanVector
<1> QED BY <1>1, <1>2, <1>3, PTL DEF Spec

-----------------------------------------------------------------------------
(* One row per document at a time.                                         *)

\* The rows of a document are numbered within 1..n, each with a number of its own, and
\* one of them is the last.
Numbered ==
  /\ \A k \in Keys : outbox[k].status # "absent"
                       => outbox[k].id \in 1..Cardinality(RowsOf(k.doc))
  /\ \A j, k \in Keys : /\ outbox[j].status # "absent" /\ outbox[k].status # "absent"
                        /\ j.doc = k.doc /\ outbox[j].id = outbox[k].id
                        => j = k
  /\ \A d \in Docs : RowsOf(d) # {}
                      => \E k \in RowsOf(d) : outbox[k].id = Cardinality(RowsOf(d))

Started == {"leased", "completed"}

\* Whatever is older than a row that was started, and did not fail, is finished.
StartedInOrder ==
  \A k \in Keys : outbox[k].status \in Started
    => \A j \in RowsOf(k.doc) : outbox[j].id < outbox[k].id => ~Unfinished(j)

\* The rows a refresh starts over are in the table.
AdmittedIsQueued ==
  \A r \in Revisions : admitted[r] # None
    => \A d \in ResultDocs[admitted[r]] :
         LET k == UpsertKey(r, admitted[r], d)
         IN k \in Keys /\ outbox[k].status # "absent"

Order == Numbered /\ StartedInOrder

LInv == TypeOK /\ Order /\ AdmittedIsQueued

\* The row keeps its number, and it is not made unfinished or started.
Eased(k) ==
  /\ outbox'[k].id = outbox[k].id
  /\ outbox'[k].status = "absent" <=> outbox[k].status = "absent"
  /\ Unfinished(k)' => Unfinished(k)
  /\ outbox'[k].status \in Started => outbox[k].status \in Started

\* The row keeps its number.
Kept(k) ==
  /\ outbox'[k].id = outbox[k].id
  /\ outbox'[k].status = "absent" <=> outbox[k].status = "absent"

OnePerDocument(keys) == \A j, k \in keys : j.doc = k.doc => j = k

\* A transaction that inserts these keys, and one that also eases the other rows.
Numbers(keys) ==
  /\ OnePerDocument(keys)
  /\ \A k \in Keys : IF Enqueued(k, keys) THEN outbox'[k] = Inserted(k) ELSE Kept(k)

Queues(keys) ==
  /\ OnePerDocument(keys)
  /\ \A k \in Keys : IF Enqueued(k, keys) THEN outbox'[k] = Inserted(k) ELSE Eased(k)

\* The number of rows of a document.
LEMMA RowsCount ==
  ASSUME NEW d \in Docs
  PROVE  IsFiniteSet(RowsOf(d)) /\ Cardinality(RowsOf(d)) \in Nat
<1>1. RowsOf(d) \in SUBSET Keys
  BY DEF RowsOf
<1> QED BY <1>1, KeysFinite, FS_Subset, FS_CardinalityType

\* Steps that insert nothing keep the numbering.
LEMMA SameNumbers ==
  ASSUME Numbered,
         \A k \in Keys : /\ outbox'[k].id = outbox[k].id
                         /\ outbox'[k].status = "absent" <=> outbox[k].status = "absent"
  PROVE  Numbered' /\ \A d \in Docs : RowsOf(d)' = RowsOf(d)
<1>1. \A d \in Docs : RowsOf(d)' = RowsOf(d)
  BY DEF RowsOf
<1>2. \A k \in Keys : Cardinality(RowsOf(k.doc))' = Cardinality(RowsOf(k.doc))
  BY <1>1, KeyShape
<1>3. \A k \in Keys : outbox'[k].status # "absent"
                        => outbox'[k].id \in 1..Cardinality(RowsOf(k.doc))'
  BY <1>2 DEF Numbered
<1>4. \A j, k \in Keys : /\ outbox'[j].status # "absent" /\ outbox'[k].status # "absent"
                         /\ j.doc = k.doc /\ outbox'[j].id = outbox'[k].id
                         => j = k
  BY DEF Numbered
<1>5. \A d \in Docs : RowsOf(d)' # {}
        => \E k \in RowsOf(d)' : outbox'[k].id = Cardinality(RowsOf(d))'
  <2> SUFFICES ASSUME NEW d \in Docs, RowsOf(d)' # {}
               PROVE  \E k \in RowsOf(d)' : outbox'[k].id = Cardinality(RowsOf(d))'
    OBVIOUS
  <2>1. PICK k \in RowsOf(d) : outbox[k].id = Cardinality(RowsOf(d))
    BY <1>1 DEF Numbered
  <2>2. outbox'[k].id = outbox[k].id
    BY DEF RowsOf
  <2> QED BY <1>1, <2>1, <2>2
<1> QED BY <1>1, <1>3, <1>4, <1>5 DEF Numbered

\* Inserting at most one row per document keeps the numbering: the new row is the last.
LEMMA QueuedNumbers ==
  ASSUME Numbered, NEW keys \in SUBSET Keys, Numbers(keys)
  PROVE  Numbered'
<1>1. ASSUME NEW k \in Keys, Enqueued(k, keys)
      PROVE  /\ outbox'[k].id = Cardinality(RowsOf(k.doc)) + 1
             /\ outbox'[k].status = "pending"
             /\ Cardinality(RowsOf(k.doc))' = Cardinality(RowsOf(k.doc)) + 1
             /\ \A j \in RowsOf(k.doc)' : j = k \/ j \in RowsOf(k.doc)
  <2>1. outbox'[k] = Inserted(k)
    BY <1>1 DEF Numbers
  <2>2. RowsOf(k.doc)' = RowsOf(k.doc) \cup {k}
    <3>1. ASSUME NEW j \in Keys, j.doc = k.doc, j # k
          PROVE  outbox'[j].status = "absent" <=> outbox[j].status = "absent"
      <4>1. ~Enqueued(j, keys)
        BY <1>1, <3>1 DEF Numbers, OnePerDocument, Enqueued
      <4> QED BY <4>1 DEF Numbers, Kept
    <3> QED BY <2>1, <3>1 DEF RowsOf, Inserted
  <2>3. k \notin RowsOf(k.doc)
    BY <1>1 DEF Enqueued, RowsOf
  <2>4. Cardinality(RowsOf(k.doc) \cup {k}) = Cardinality(RowsOf(k.doc)) + 1
    BY <2>3, RowsCount, KeyShape, FS_AddElement
  <2> QED BY <2>1, <2>2, <2>4 DEF Inserted
<1>2. ASSUME NEW k \in Keys, ~Enqueued(k, keys)
      PROVE  /\ outbox'[k].id = outbox[k].id
             /\ outbox'[k].status = "absent" <=> outbox[k].status = "absent"
  BY <1>2 DEF Numbers, Kept
<1>3. ASSUME NEW k \in Keys, \A j \in Keys : j.doc = k.doc => ~Enqueued(j, keys)
      PROVE  Cardinality(RowsOf(k.doc))' = Cardinality(RowsOf(k.doc))
  <2>1. RowsOf(k.doc)' = RowsOf(k.doc)
    BY <1>2, <1>3 DEF RowsOf
  <2> QED BY <2>1
<1>4. ASSUME NEW k \in Keys
      PROVE  Cardinality(RowsOf(k.doc)) \in Nat
             /\ Cardinality(RowsOf(k.doc))' \in {Cardinality(RowsOf(k.doc)),
                                                 Cardinality(RowsOf(k.doc)) + 1}
  <2>1. Cardinality(RowsOf(k.doc)) \in Nat
    BY RowsCount, KeyShape
  <2>2. CASE \E j \in Keys : j.doc = k.doc /\ Enqueued(j, keys)
    <3>1. PICK j \in Keys : j.doc = k.doc /\ Enqueued(j, keys)
      BY <2>2
    <3>2. Cardinality(RowsOf(j.doc))' = Cardinality(RowsOf(j.doc)) + 1
      BY <1>1, <3>1
    <3> QED BY <2>1, <3>1, <3>2
  <2>3. CASE \A j \in Keys : j.doc = k.doc => ~Enqueued(j, keys)
    BY <1>3, <2>1, <2>3
  <2> QED BY <2>2, <2>3
<1>5. ASSUME NEW k \in Keys, outbox'[k].status # "absent"
      PROVE  outbox'[k].id \in 1..Cardinality(RowsOf(k.doc))'
  <2>1. CASE Enqueued(k, keys)
    <3>1. /\ outbox'[k].id = Cardinality(RowsOf(k.doc)) + 1
          /\ Cardinality(RowsOf(k.doc))' = Cardinality(RowsOf(k.doc)) + 1
      BY <1>1, <2>1
    <3> QED BY <1>4, <3>1
  <2>2. CASE ~Enqueued(k, keys)
    <3>1. outbox'[k].id = outbox[k].id /\ outbox[k].status # "absent"
      BY <1>2, <1>5, <2>2
    <3>2. outbox[k].id \in 1..Cardinality(RowsOf(k.doc))
      BY <3>1 DEF Numbered
    <3> QED BY <1>4, <3>1, <3>2
  <2> QED BY <2>1, <2>2
<1>6. ASSUME NEW j \in Keys, NEW k \in Keys, j.doc = k.doc,
             outbox'[j].status # "absent", outbox'[k].status # "absent",
             outbox'[j].id = outbox'[k].id
      PROVE  j = k
  <2>1. ASSUME NEW i \in Keys, i.doc = k.doc, outbox'[i].status # "absent", ~Enqueued(i, keys)
        PROVE  /\ outbox'[i].id = outbox[i].id
               /\ outbox[i].id \in 1..Cardinality(RowsOf(k.doc))
               /\ outbox[i].status # "absent"
    BY <1>2, <2>1 DEF Numbered
  <2>2. ASSUME NEW i \in Keys, i.doc = k.doc, Enqueued(i, keys)
        PROVE  outbox'[i].id = Cardinality(RowsOf(k.doc)) + 1 /\ i \in keys
    BY <1>1, <2>2 DEF Enqueued
  <2>3. CASE Enqueued(j, keys) /\ Enqueued(k, keys)
    BY <1>6, <2>2, <2>3 DEF Numbers, OnePerDocument
  <2>4. CASE ~Enqueued(j, keys) /\ ~Enqueued(k, keys)
    BY <1>6, <2>1, <2>4 DEF Numbered
  <2>5. CASE Enqueued(j, keys) /\ ~Enqueued(k, keys)
    BY <1>4, <1>6, <2>1, <2>2, <2>5
  <2>6. CASE ~Enqueued(j, keys) /\ Enqueued(k, keys)
    BY <1>4, <1>6, <2>1, <2>2, <2>6
  <2> QED BY <2>3, <2>4, <2>5, <2>6
<1>7. ASSUME NEW d \in Docs, RowsOf(d)' # {}
      PROVE  \E k \in RowsOf(d)' : outbox'[k].id = Cardinality(RowsOf(d))'
  <2>1. CASE \E j \in Keys : j.doc = d /\ Enqueued(j, keys)
    <3>1. PICK j \in Keys : j.doc = d /\ Enqueued(j, keys)
      BY <2>1
    <3>2. /\ outbox'[j].id = Cardinality(RowsOf(d))'
          /\ outbox'[j].status = "pending"
      BY <1>1, <3>1
    <3>3. j \in RowsOf(d)'
      BY <3>1, <3>2 DEF RowsOf
    <3> QED BY <3>2, <3>3
  <2>2. CASE \A j \in Keys : j.doc = d => ~Enqueued(j, keys)
    <3>1. RowsOf(d)' = RowsOf(d)
      BY <1>2, <2>2 DEF RowsOf
    <3>2. PICK k \in RowsOf(d) : outbox[k].id = Cardinality(RowsOf(d))
      BY <1>7, <3>1 DEF Numbered
    <3>3. outbox'[k].id = outbox[k].id
      BY <1>2, <2>2 DEF RowsOf
    <3> QED BY <3>1, <3>2, <3>3
  <2> QED BY <2>1, <2>2
<1> QED BY <1>5, <1>6, <1>7 DEF Numbered

\* It keeps the order too.
LEMMA QueuedOrder ==
  ASSUME Order, NEW keys \in SUBSET Keys, Queues(keys)
  PROVE  Order' /\ KeepsRows
<1>0. Numbers(keys)
  BY DEF Queues, Numbers, Eased, Kept
<1>1. Numbered'
  BY <1>0, QueuedNumbers DEF Order
<1>2. ASSUME NEW k \in Keys, outbox'[k].status \in Started, NEW j \in RowsOf(k.doc)',
             outbox'[j].id < outbox'[k].id
      PROVE  ~Unfinished(j)'
  <2>1. ~Enqueued(k, keys) /\ outbox[k].status \in Started /\ outbox'[k].id = outbox[k].id
    <3>1. ASSUME Enqueued(k, keys) PROVE FALSE
      <4>1. outbox'[k] = Inserted(k)
        BY <3>1 DEF Queues
      <4> QED BY <1>2, <4>1 DEF Inserted, Started
    <3>2. Eased(k)
      BY <3>1 DEF Queues
    <3> QED BY <1>2, <3>1, <3>2 DEF Eased
  <2>2. j \in Keys /\ j.doc = k.doc /\ outbox'[j].status # "absent"
    BY DEF RowsOf
  <2>3. outbox[k].id \in 1..Cardinality(RowsOf(k.doc))
    BY <2>1 DEF Order, Numbered, Started
  <2>4. CASE Enqueued(j, keys)
    <3>1. outbox'[j].id = Cardinality(RowsOf(k.doc)) + 1
      <4>1. outbox'[j] = Inserted(j)
        BY <2>2, <2>4 DEF Queues
      <4> QED BY <2>2, <4>1 DEF Inserted
    <3>2. Cardinality(RowsOf(k.doc)) \in Nat
      BY RowsCount, KeyShape
    <3> QED BY <1>2, <2>1, <2>3, <3>1, <3>2
  <2>5. CASE ~Enqueued(j, keys)
    <3>1. /\ outbox'[j].id = outbox[j].id /\ j \in RowsOf(k.doc)
          /\ Unfinished(j)' => Unfinished(j)
      BY <2>2, <2>5 DEF Queues, Eased, RowsOf
    <3> QED BY <1>2, <2>1, <3>1 DEF Order, StartedInOrder
  <2> QED BY <2>4, <2>5
<1>3. KeepsRows
  <2> SUFFICES ASSUME NEW k \in Keys, outbox[k].status # "absent"
               PROVE  outbox'[k].status # "absent"
    BY DEF KeepsRows
  <2>1. Eased(k)
    BY DEF Queues, Enqueued
  <2> QED BY <2>1 DEF Eased
<1> QED BY <1>1, <1>2, <1>3 DEF Order, StartedInOrder

\* As long as no row disappears, the rows of an admission that stands are in the table.
LEMMA AdmittedFrame ==
  ASSUME AdmittedIsQueued, KeepsRows, UNCHANGED admitted
  PROVE  AdmittedIsQueued'
BY DEF AdmittedIsQueued, KeepsRows

\* A row whose status alone changes, to a finished one, is eased.
LEMMA EasedRow ==
  ASSUME TypeOK, NEW k \in Keys, NEW status \in Statuses \ {"absent", "leased"},
         outbox[k].status # "absent",
         status \in {"pending", "retryable"} => Unfinished(k),
         status = "completed" => outbox[k].status = "leased",
         outbox'[k] \in {outbox[k], [outbox[k] EXCEPT !.live = FALSE],
                         [outbox[k] EXCEPT !.status = status],
                         [outbox[k] EXCEPT !.status = status, !.live = FALSE],
                         [outbox[k] EXCEPT !.live = FALSE, !.status = status]}
  PROVE  Eased(k)
<1>1. outbox[k] \in Row
  BY DEF TypeOK
<1>2. outbox'[k].id = outbox[k].id /\ outbox'[k].status \in {outbox[k].status, status}
  BY <1>1 DEF Row
<1> QED BY <1>2 DEF Eased, Unfinished, Started

\* A row that stays as it is is eased.
LEMMA SameRow ==
  ASSUME NEW k \in Keys, outbox'[k] = outbox[k]
  PROVE  Eased(k)
BY DEF Eased, Unfinished

\* A step that eases every row keeps the order.
LEMMA EasedOrder ==
  ASSUME Order, \A k \in Keys : Eased(k)
  PROVE  Order' /\ KeepsRows
<1>1. Queues({}) /\ {} \in SUBSET Keys
  BY DEF Queues, OnePerDocument, Enqueued
<1> QED BY <1>1, QueuedOrder

\* An invalidation queues one delete per document and eases the rest.
LEMMA InvalidateOrder ==
  ASSUME TypeOK, Order, NEW revs \in SUBSET Revisions, NEW last \in revs,
         Invalidate(revs, last)
  PROVE  Order' /\ KeepsRows /\ Queues(InvalidationDeletes(revs, last))
<1> DEFINE keys == InvalidationDeletes(revs, last)
<1>1. OnePerDocument(keys)
  <2> SUFFICES ASSUME NEW j \in keys, NEW k \in keys, j.doc = k.doc PROVE j = k
    BY DEF OnePerDocument
  <2> DEFINE key(d) == DeleteKey("delete_inactive", IF source[RevisionOf[d]] = "active"
                                                    THEN last ELSE RevisionOf[d], d)
  <2>1. PICK d \in UNION {KnownDocs(r) : r \in revs} : j = key(d)
    BY DEF InvalidationDeletes
  <2>2. PICK e \in UNION {KnownDocs(r) : r \in revs} : k = key(e)
    BY DEF InvalidationDeletes
  <2>3. j.doc = d /\ k.doc = e
    BY <2>1, <2>2 DEF DeleteKey
  <2> QED BY <2>1, <2>2, <2>3
<1>2. \A k \in Keys : outbox'[k] =
        IF Enqueued(k, keys) THEN Inserted(k)
        ELSE IF k.op = "upsert" /\ k.rev \in revs /\ Unfinished(k)
        THEN [outbox[k] EXCEPT !.status = "stale_rejected", !.live = FALSE]
        ELSE outbox[k]
  BY DEF Invalidate, OutboxAfterInvalidation
<1>3. keys \in SUBSET Keys
  BY InvalidationDeleteKeys
<1> HIDE DEF keys
<1>4. ASSUME NEW k \in Keys, ~Enqueued(k, keys) PROVE Eased(k)
  <2>1. CASE k.op = "upsert" /\ k.rev \in revs /\ Unfinished(k)
    <3>1. outbox'[k] = [outbox[k] EXCEPT !.status = "stale_rejected", !.live = FALSE]
      BY <1>2, <1>4, <2>1
    <3>2. outbox[k].status # "absent"
      BY <2>1 DEF Unfinished
    <3>3. "stale_rejected" \in Statuses \ {"absent", "leased"}
      BY DEF Statuses
    <3> QED BY <3>1, <3>2, <3>3, EasedRow
  <2>2. CASE ~(k.op = "upsert" /\ k.rev \in revs /\ Unfinished(k))
    BY <1>2, <1>4, <2>2, SameRow
  <2> QED BY <2>1, <2>2
<1>5. Queues(keys)
  BY <1>1, <1>2, <1>4 DEF Queues
<1>6. Order' /\ KeepsRows
  BY <1>3, <1>5, QueuedOrder
<1> QED BY <1>5, <1>6 DEF keys

\* An admission queues one row per document, and afterwards its upserts are in the table.
LEMMA AdmitOrder ==
  ASSUME LInv, NEW r \in Revisions, NEW res \in Results, NEW hidden, NEW kept,
         Admit(r, res, hidden, kept)
  PROVE  /\ Order' /\ AdmittedIsQueued' /\ KeepsRows
         /\ AdmissionKeys(r, res, (Retired(r, res) \ (hidden \cup kept)) \cup hidden) \in SUBSET Keys
         /\ Queues(AdmissionKeys(r, res, (Retired(r, res) \ (hidden \cup kept)) \cup hidden))
<1> DEFINE retired == Retired(r, res) \ (hidden \cup kept)
           dropped == retired \cup hidden
           keys == AdmissionKeys(r, res, dropped)
<1>0. /\ dropped \in SUBSET DocsOf(r) /\ \A d \in dropped : d \notin ResultDocs[res]
      /\ ResultDocs[res] \subseteq DocsOf(r)
  BY DroppedDocs DEF Admit
<1>1. OnePerDocument(keys)
  <2> HIDE DEF dropped
  <2> QED BY <1>0 DEF OnePerDocument, AdmissionKeys, DeleteKey, UpsertKey
<1>2. \A k \in Keys : outbox'[k] =
        IF Enqueued(k, keys) THEN Inserted(k)
        ELSE IF Cancelled(k, retired) THEN [outbox[k] EXCEPT !.status = "stale_rejected"]
        ELSE outbox[k]
  BY DEF Admit
<1>3. keys \in SUBSET Keys /\ \A d \in ResultDocs[res] : UpsertKey(r, res, d) \in keys
  <2> HIDE DEF dropped
  <2> QED BY <1>0, AdmissionKeysAreKeys DEF AdmissionKeys
<1> HIDE DEF keys, retired
<1>4. ASSUME NEW k \in Keys, ~Enqueued(k, keys) PROVE Eased(k)
  <2>1. CASE Cancelled(k, retired)
    <3>1. outbox'[k] = [outbox[k] EXCEPT !.status = "stale_rejected"]
      BY <1>2, <1>4, <2>1
    <3>2. outbox[k].status # "absent"
      BY <2>1 DEF Cancelled
    <3>3. "stale_rejected" \in Statuses \ {"absent", "leased"}
      BY DEF Statuses
    <3> QED BY <3>1, <3>2, <3>3, EasedRow DEF LInv
  <2>2. CASE ~Cancelled(k, retired)
    BY <1>2, <1>4, <2>2, SameRow
  <2> QED BY <2>1, <2>2
<1>5. Queues(keys)
  BY <1>1, <1>2, <1>4 DEF Queues
<1>6. Order' /\ KeepsRows
  BY <1>3, <1>5, QueuedOrder DEF LInv
<1>7. ASSUME NEW k \in keys PROVE k \in Keys /\ outbox'[k].status # "absent"
  <2>1. CASE Enqueued(k, keys)
    <3>1. outbox'[k] = Inserted(k)
      BY <1>2, <1>3, <2>1
    <3> QED BY <1>3, <3>1 DEF Inserted
  <2>2. CASE ~Enqueued(k, keys)
    BY <1>3, <1>6, <2>2 DEF Enqueued, KeepsRows
  <2> QED BY <2>1, <2>2
<1>8. AdmittedIsQueued'
  <2> SUFFICES ASSUME NEW s \in Revisions, admitted'[s] # None, NEW d \in ResultDocs[admitted'[s]]
               PROVE  /\ UpsertKey(s, admitted'[s], d) \in Keys
                      /\ outbox'[UpsertKey(s, admitted'[s], d)].status # "absent"
    BY DEF AdmittedIsQueued
  <2>1. CASE s = r
    <3>1. admitted'[s] = res
      BY <2>1 DEF Admit, LInv, TypeOK
    <3> QED BY <1>3, <1>7, <2>1, <3>1
  <2>2. CASE s # r
    <3>1. admitted'[s] = admitted[s]
      BY <2>2 DEF Admit, LInv, TypeOK
    <3>2. /\ UpsertKey(s, admitted[s], d) \in Keys
          /\ outbox[UpsertKey(s, admitted[s], d)].status # "absent"
      BY <3>1 DEF LInv, AdmittedIsQueued
    <3> QED BY <1>6, <3>1, <3>2 DEF KeepsRows
  <2> QED BY <2>1, <2>2
<1> QED BY <1>3, <1>5, <1>6, <1>8 DEF keys, retired

\* What a refresh does to the table: the keys of the admission are inserted, or are the
\* newest rows of their documents and start over; upserts of hidden documents may be
\* rejected, and the rest stays.
LEMMA RefreshRows ==
  ASSUME LInv, NEW r \in Revisions, NEW hidden, NEW reconcile,
         Refresh(r, hidden, reconcile)
  PROVE  LET keys == AdmissionKeys(r, admitted[r], hidden)
         IN /\ keys \in SUBSET Keys
            /\ Numbers(keys)
            /\ \A k \in keys : outbox'[k].status = "pending" /\ (Newest(k) \/ Enqueued(k, keys))
            /\ \A k \in Keys : k \notin keys =>
                 \/ outbox'[k] = outbox[k]
                 \/ /\ outbox'[k] = [outbox[k] EXCEPT !.status = "stale_rejected"]
                    /\ outbox'[k].status = "stale_rejected" /\ outbox[k].status # "absent"
                    /\ k.doc \in hidden
<1> DEFINE keys == AdmissionKeys(r, admitted[r], hidden)
<1>1. /\ admitted[r] \in Results /\ ResultDocs[admitted[r]] \subseteq DocsOf(r)
      /\ hidden \in SUBSET DocsOf(r) /\ \A d \in hidden : d \notin ResultDocs[admitted[r]]
  <2>1. admitted[r] \in Results
    BY DEF Refresh, LInv, TypeOK
  <2>2. ASSUME NEW d \in ResultDocs[admitted[r]] PROVE d \in DocsOf(r)
    <3>1. UpsertKey(r, admitted[r], d) \in Keys
      BY <2>2 DEF Refresh, LInv, AdmittedIsQueued
    <3> QED BY <3>1 DEF Keys, UpsertKey, DocsOf
  <2> QED BY <2>1, <2>2, DroppedDocs DEF Refresh
<1>2. keys \in SUBSET Keys /\ OnePerDocument(keys)
  BY <1>1, AdmissionKeysAreKeys DEF OnePerDocument, AdmissionKeys, DeleteKey, UpsertKey
<1>3. \A k \in Keys : outbox'[k] =
        IF Enqueued(k, keys) THEN Inserted(k)
        ELSE IF k \in keys
        THEN [outbox[k] EXCEPT !.status = "pending", !.attempts = 0, !.live = FALSE]
        ELSE IF reconcile /\ Cancelled(k, hidden)
        THEN [outbox[k] EXCEPT !.status = "stale_rejected"]
        ELSE outbox[k]
  BY DEF Refresh
<1>4. \A k \in keys : Newest(k) \/ Enqueued(k, keys)
  BY DEF Refresh, Enqueued
<1> HIDE DEF keys
<1>5. ASSUME NEW k \in keys
      PROVE  /\ outbox'[k].status = "pending"
             /\ ~Enqueued(k, keys) => Kept(k)
  <2>1. k \in Keys /\ outbox[k] \in Row
    BY <1>2 DEF LInv, TypeOK
  <2>2. CASE Enqueued(k, keys)
    BY <1>3, <2>1, <2>2, InsertedRow
  <2>3. CASE ~Enqueued(k, keys)
    <3>1. outbox'[k].id = outbox[k].id /\ outbox'[k].status = "pending"
      BY <1>3, <1>5, <2>1, <2>3 DEF Row
    <3> QED BY <1>5, <2>3, <3>1 DEF Enqueued, Kept
  <2> QED BY <2>2, <2>3
<1>6. ASSUME NEW k \in Keys, k \notin keys
      PROVE  /\ Kept(k)
             /\ \/ outbox'[k] = outbox[k]
                \/ /\ outbox'[k] = [outbox[k] EXCEPT !.status = "stale_rejected"]
                   /\ outbox'[k].status = "stale_rejected" /\ outbox[k].status # "absent"
                   /\ k.doc \in hidden
  <2>1. outbox[k] \in Row /\ ~Enqueued(k, keys)
    BY <1>6 DEF LInv, TypeOK, Enqueued
  <2>2. CASE reconcile /\ Cancelled(k, hidden)
    <3>1. outbox'[k] = [outbox[k] EXCEPT !.status = "stale_rejected"]
      BY <1>3, <1>6, <2>1, <2>2
    <3>2. outbox'[k].status = "stale_rejected" /\ outbox'[k].id = outbox[k].id
      BY <2>1, <3>1 DEF Row
    <3> QED BY <2>2, <3>1, <3>2 DEF Kept, Cancelled
  <2>3. CASE ~(reconcile /\ Cancelled(k, hidden))
    BY <1>3, <1>6, <2>1, <2>3 DEF Kept
  <2> QED BY <2>2, <2>3
<1>7. Numbers(keys)
  <2>1. ASSUME NEW k \in Keys, Enqueued(k, keys) PROVE outbox'[k] = Inserted(k)
    BY <1>3, <2>1
  <2> QED BY <1>2, <1>5, <1>6, <2>1 DEF Numbers
<1> QED BY <1>2, <1>4, <1>5, <1>6, <1>7 DEF keys

\* A refresh starts over rows that are the newest of their document, so none of them
\* comes before a leased one.
LEMMA RefreshOrder ==
  ASSUME LInv, NEW r \in Revisions, NEW hidden, NEW reconcile,
         Refresh(r, hidden, reconcile)
  PROVE  Order' /\ KeepsRows
<1> DEFINE keys == AdmissionKeys(r, admitted[r], hidden)
<1>1. /\ keys \in SUBSET Keys /\ Numbers(keys)
      /\ \A k \in keys : outbox'[k].status = "pending" /\ (Newest(k) \/ Enqueued(k, keys))
      /\ \A k \in Keys : k \notin keys =>
           \/ outbox'[k] = outbox[k]
           \/ outbox'[k].status = "stale_rejected" /\ outbox[k].status # "absent"
  BY RefreshRows
<1> HIDE DEF keys
<1>2. Numbered'
  BY <1>1, QueuedNumbers DEF LInv, Order
<1>3. ASSUME NEW k \in Keys, outbox'[k].status \in Started, NEW j \in RowsOf(k.doc)',
             outbox'[j].id < outbox'[k].id
      PROVE  ~Unfinished(j)'
  <2>1. k \notin keys /\ outbox'[k] = outbox[k]
    BY <1>1, <1>3 DEF Started
  <2>2. j \in Keys /\ j.doc = k.doc /\ outbox'[j].status # "absent" /\ k \in RowsOf(k.doc)
    BY <1>3, <2>1 DEF RowsOf, Started
  <2>3. outbox[k].id \in 1..Cardinality(RowsOf(k.doc)) /\ Cardinality(RowsOf(k.doc)) \in Nat
    BY <1>3, <2>1, RowsCount, KeyShape DEF LInv, Order, Numbered, Started
  <2>4. j \notin keys
    <3>1. CASE Enqueued(j, keys)
      <4>1. outbox'[j] = Inserted(j)
        BY <1>1, <2>2, <3>1 DEF Numbers
      <4>2. outbox'[j].id = Cardinality(RowsOf(k.doc)) + 1
        BY <2>2, <4>1 DEF Inserted
      <4> QED BY <1>3, <2>1, <2>3, <4>2
    <3>2. CASE j \in keys /\ ~Enqueued(j, keys)
      <4>1. outbox'[j].id = outbox[j].id /\ outbox[k].id <= outbox[j].id
        BY <1>1, <2>2, <3>2 DEF Numbers, Kept, Newest
      <4>2. outbox[j].id \in Nat
        BY <2>2 DEF LInv, TypeOK, Row
      <4> QED BY <1>3, <2>1, <2>3, <4>1, <4>2
    <3> QED BY <3>1, <3>2
  <2>5. CASE outbox'[j] = outbox[j]
    <3>1. j \in RowsOf(k.doc) /\ outbox[j].id < outbox[k].id
      BY <1>3, <2>1, <2>2, <2>5 DEF RowsOf
    <3>2. ~Unfinished(j)
      BY <1>3, <2>1, <3>1 DEF LInv, Order, StartedInOrder
    <3> QED BY <2>5, <3>2 DEF Unfinished
  <2>6. CASE outbox'[j].status = "stale_rejected"
    BY <2>6 DEF Unfinished
  <2> QED BY <1>1, <2>2, <2>4, <2>5, <2>6
<1>4. KeepsRows
  BY <1>1 DEF KeepsRows
<1> QED BY <1>2, <1>3, <1>4 DEF Order, StartedInOrder

\* A claim leases rows without an older row that could be worked on; the older rows that
\* can not are rejected by the same statement.
LEMMA ClaimOrder ==
  ASSUME LInv, NEW c \in Keys, Claim(c)
  PROVE  Order' /\ KeepsRows
<1>1. PICK group \in {{c}, {c} \cup Siblings(c)} :
        outbox' = [j \in Keys |->
          IF j \in group THEN Leased(outbox[j])
          ELSE IF Unfinished(j) /\ ~FenceHolds(j)
          THEN [outbox[j] EXCEPT !.status = "stale_rejected", !.live = FALSE]
          ELSE outbox[j]]
  BY DEF Claim
<1>2. \A g \in group : g \in Keys /\ Claimable(g)
  BY <1>1 DEF Claim, Siblings
<1>3. \A g \in group : Unfinished(g) /\ FenceHolds(g) /\ FirstOfDocument(g)
  BY <1>2 DEF Claimable, Unfinished
<1>4. ASSUME NEW k \in Keys
      PROVE  /\ outbox'[k].id = outbox[k].id
             /\ outbox'[k].status = "absent" <=> outbox[k].status = "absent"
             /\ k \notin group => /\ Unfinished(k)' => Unfinished(k) /\ FenceHolds(k)
                                  /\ outbox'[k].status \in Started => outbox[k].status \in Started
  <2>1. outbox[k] \in Row
    BY DEF LInv, TypeOK
  <2>2. CASE k \in group
    <3>1. outbox'[k] = Leased(outbox[k]) /\ outbox[k].status # "absent"
      BY <1>1, <1>3, <2>2 DEF Unfinished
    <3>2. Leased(outbox[k]).status = "leased"
      BY <2>1, LeasedRow
    <3>3. Leased(outbox[k]).id = outbox[k].id
      BY <2>1 DEF Leased, Row
    <3> QED BY <2>2, <3>1, <3>2, <3>3
  <2>3. CASE k \notin group /\ Unfinished(k) /\ ~FenceHolds(k)
    <3>1. outbox'[k] = [outbox[k] EXCEPT !.status = "stale_rejected", !.live = FALSE]
      BY <1>1, <2>3
    <3>2. outbox'[k].id = outbox[k].id /\ outbox'[k].status = "stale_rejected"
      BY <2>1, <3>1 DEF Row
    <3> QED BY <2>3, <3>2 DEF Unfinished, Started
  <2>4. CASE k \notin group /\ ~(Unfinished(k) /\ ~FenceHolds(k))
    <3>1. outbox'[k] = outbox[k]
      BY <1>1, <2>4
    <3> QED BY <2>4, <3>1 DEF Unfinished
  <2> QED BY <2>2, <2>3, <2>4
<1>5. Numbered' /\ \A d \in Docs : RowsOf(d)' = RowsOf(d)
  BY <1>4, SameNumbers DEF LInv, Order
<1>6. ASSUME NEW k \in Keys, outbox'[k].status \in Started, NEW j \in RowsOf(k.doc)',
             outbox'[j].id < outbox'[k].id
      PROVE  ~Unfinished(j)'
  <2>1. j \in RowsOf(k.doc) /\ j \in Keys
    BY <1>5, KeyShape DEF RowsOf
  <2>2. outbox[j].id < outbox[k].id
    BY <1>4, <1>6, <2>1
  <2>3. ~(Unfinished(j) /\ FenceHolds(j))
    <3>1. CASE k \in group
      BY <1>3, <2>1, <2>2, <3>1 DEF FirstOfDocument
    <3>2. CASE k \notin group
      BY <1>4, <1>6, <2>1, <2>2, <3>2 DEF LInv, Order, StartedInOrder
    <3> QED BY <3>1, <3>2
  <2> QED BY <1>3, <1>4, <2>1, <2>3
<1> QED BY <1>4, <1>5, <1>6 DEF Order, StartedInOrder, KeepsRows

\* Finishing a row eases it, whatever is reported for it.
LEMMA FinishOrder ==
  ASSUME LInv, NEW k \in Keys, NEW status \in {"completed", "retryable", "permanent"},
         outbox' = [outbox EXCEPT ![k] = FinishedRow(k, status)]
  PROVE  Order' /\ KeepsRows
<1>1. ASSUME NEW j \in Keys PROVE Eased(j)
  <2>1. CASE j # k
    <3>1. outbox'[j] = outbox[j]
      BY <2>1 DEF LInv, TypeOK
    <3> QED BY <3>1, SameRow
  <2>2. CASE j = k /\ (outbox[k].status # "leased" \/ ~outbox[k].live)
    <3>1. outbox'[j] = outbox[j]
      BY <2>2 DEF LInv, TypeOK, FinishedRow
    <3> QED BY <3>1, SameRow
  <2>3. CASE j = k /\ outbox[k].status = "leased" /\ outbox[k].live
    <3> DEFINE final == IF FenceHolds(k) THEN status ELSE "stale_rejected"
    <3>1. outbox'[k] = [outbox[k] EXCEPT !.live = FALSE, !.status = final]
      BY <2>3 DEF LInv, TypeOK, FinishedRow
    <3>2. final \in Statuses \ {"absent", "leased"}
      BY DEF Statuses
    <3>3. Unfinished(k) /\ outbox[k].status # "absent" /\ TypeOK
      BY <2>3 DEF Unfinished, LInv
    <3> HIDE DEF final
    <3> QED BY <2>3, <3>1, <3>2, <3>3, EasedRow
  <2> QED BY <2>1, <2>2, <2>3
<1> QED BY <1>1, EasedOrder DEF LInv

\* Every step keeps the order and the rows of standing admissions.
LEMMA OrderStep == LInv /\ [Next]_vars => Order' /\ AdmittedIsQueued'
<1> SUFFICES ASSUME LInv, [Next]_vars PROVE Order' /\ AdmittedIsQueued'
  OBVIOUS
<1> DEFINE Goal == Order' /\ AdmittedIsQueued'
<1>0. /\ TypeOK /\ Order /\ AdmittedIsQueued
      /\ Order' /\ KeepsRows /\ UNCHANGED admitted => Goal
      /\ UNCHANGED <<outbox, admitted>> => Goal
  <2>1. TypeOK /\ Order /\ AdmittedIsQueued
    BY DEF LInv
  <2>2. UNCHANGED outbox => Order' /\ KeepsRows
    BY <2>1, SameRow, EasedOrder
  <2> QED BY <2>1, <2>2, AdmittedFrame
<1>1. ASSUME NEW r \in Revisions, Accept(r) PROVE Goal
  BY <1>0, <1>1 DEF Accept
<1>2. ASSUME NEW r \in Revisions, Replace(r) PROVE Goal
  <2> DEFINE revs == {s \in Active : TurnOf[s] = TurnOf[r]}
  <2>1. PICK last \in revs : Invalidate(revs, last)
    BY <1>2 DEF Replace
  <2>2. revs \in SUBSET Revisions
    BY DEF Active
  <2> HIDE DEF revs
  <2>3. Order' /\ KeepsRows
    BY <1>0, <2>1, <2>2, InvalidateOrder
  <2> QED BY <1>0, <1>2, <2>3 DEF Replace
<1>3. ASSUME NEW r \in Revisions, Reopen(r) PROVE Goal
  <2>1. Order' /\ KeepsRows
    BY <1>0, <1>3, SameRow, EasedOrder DEF Reopen
  <2>2. AdmittedIsQueued'
    <3> SUFFICES ASSUME NEW s \in Revisions, admitted'[s] # None,
                        NEW d \in ResultDocs[admitted'[s]]
                 PROVE  /\ UpsertKey(s, admitted'[s], d) \in Keys
                        /\ outbox'[UpsertKey(s, admitted'[s], d)].status # "absent"
      BY DEF AdmittedIsQueued
    <3>1. admitted'[s] = admitted[s] /\ outbox' = outbox
      BY <1>0, <1>3 DEF Reopen, TypeOK
    <3> QED BY <1>0, <3>1 DEF AdmittedIsQueued
  <2> QED BY <2>1, <2>2
<1>4. ASSUME NEW r \in Revisions, NEW hidden, NEW reconcile, Refresh(r, hidden, reconcile)
      PROVE  Goal
  BY <1>0, <1>4, RefreshOrder DEF Refresh, canonical
<1>5. ASSUME NEW r \in Revisions, NEW res \in Results, NEW hidden, NEW kept,
             Admit(r, res, hidden, kept)
      PROVE  Goal
  BY <1>5, AdmitOrder
<1>6. ASSUME NEW turn, NEW lifecycle \in {"invalidated", "deleted"}, Rollback(turn, lifecycle)
      PROVE  Goal
  <2>1. PICK revs \in SUBSET Revisions : \E last \in LastOf(revs) : Invalidate(revs, last)
    BY <1>6 DEF Rollback
  <2>2. PICK last \in revs : Invalidate(revs, last)
    BY <2>1 DEF LastOf
  <2>3. Order' /\ KeepsRows
    BY <1>0, <2>2, InvalidateOrder
  <2> QED BY <1>0, <1>6, <2>3 DEF Rollback
<1>7. ASSUME NEW k \in Keys, Claim(k) PROVE Goal
  BY <1>0, <1>7, ClaimOrder DEF Claim, canonical
<1>8. ASSUME NEW k \in Keys, LeaseExpires(k) PROVE Goal
  <2>1. ASSUME NEW j \in Keys PROVE Eased(j)
    <3>1. outbox'[j] \in {outbox[j], [outbox[j] EXCEPT !.live = FALSE]}
      BY <1>0, <1>8 DEF LeaseExpires, TypeOK
    <3>2. outbox[j] \in Row
      BY <1>0 DEF TypeOK
    <3>3. outbox'[j].id = outbox[j].id /\ outbox'[j].status = outbox[j].status
      BY <3>1, <3>2 DEF Row
    <3> QED BY <3>3 DEF Eased, Unfinished
  <2>2. Order' /\ KeepsRows
    BY <1>0, <2>1, EasedOrder
  <2> QED BY <1>0, <1>8, <2>2 DEF LeaseExpires, canonical
<1>9. ASSUME NEW k \in Keys, Complete(k) PROVE Goal
  BY <1>0, <1>9, FinishOrder DEF Complete, canonical
<1>10. ASSUME NEW k \in Keys, Fail(k) PROVE Goal
  <2>1. PICK status \in {"permanent", "retryable"} :
          outbox' = [outbox EXCEPT ![k] = FinishedRow(k, status)]
    BY <1>10 DEF Fail
  <2> QED BY <1>0, <1>10, <2>1, FinishOrder DEF Fail, canonical
<1>11. ASSUME NEW k \in Keys, NEW ok \in BOOLEAN, CallUpsert(k, ok) PROVE Goal
  BY <1>0, <1>11 DEF CallUpsert, canonical
<1>12. ASSUME NEW ok \in BOOLEAN, CallDelete(ok) PROVE Goal
  BY <1>0, <1>12 DEF CallDelete, canonical
<1>13. CASE Compensate
  BY <1>0, <1>13 DEF Compensate, canonical
<1>14. CASE Crash
  BY <1>0, <1>14 DEF Crash, canonical
<1>15. CASE UNCHANGED vars
  BY <1>0, <1>15 DEF vars
<1> QED BY <1>1, <1>2, <1>3, <1>4, <1>5, <1>6, <1>7, <1>8, <1>9, <1>10, <1>11,
           <1>12, <1>13, <1>14, <1>15 DEF Next

\* The order holds at first.
LEMMA OrderInit == Init => LInv
BY TypeInit DEF Init, NoRow, LInv, Order, Numbered, StartedInOrder, Started,
                AdmittedIsQueued, RowsOf

\* The worker never holds leases on two rows of one document, whatever transactions,
\* expired leases, crashes and failed calls came in between: a text is never sent to
\* Chroma while an older operation on the same document is still to come.
THEOREM OneLease == Spec => []OneLeasePerDocument
<1>1. Init => LInv
  BY OrderInit
<1>2. LInv /\ [Next]_vars => LInv'
  BY OrderStep, TypeStep DEF LInv
<1>3. LInv => OneLeasePerDocument
  <2> SUFFICES ASSUME LInv, NEW j \in Keys, NEW k \in Keys, j.doc = k.doc,
                      outbox[j].status = "leased", outbox[k].status = "leased"
               PROVE  j = k
    BY DEF OneLeasePerDocument
  <2>1. j \in RowsOf(k.doc) /\ k \in RowsOf(j.doc) /\ Unfinished(j) /\ Unfinished(k)
    BY DEF RowsOf, Unfinished
  <2>2. ~(outbox[j].id < outbox[k].id) /\ ~(outbox[k].id < outbox[j].id)
    BY <2>1 DEF LInv, Order, StartedInOrder, Started
  <2>3. outbox[j].id \in Nat /\ outbox[k].id \in Nat
    BY DEF LInv, TypeOK, Row
  <2>4. outbox[j].id = outbox[k].id
    BY <2>2, <2>3
  <2> QED BY <2>4 DEF LInv, Order, Numbered
<1> QED BY <1>1, <1>2, <1>3, PTL DEF Spec

-----------------------------------------------------------------------------
(* The index converges to the canonical rows.                              *)

\* The newest row of its document.
Last(k) == k \in RowsOf(k.doc) /\ outbox[k].id = Cardinality(RowsOf(k.doc))

\* The worker's batch has one row per document, upserts are sent one by one, and a
\* document is removed again before anything else happens to it.
BatchApart ==
  /\ todo \cap sent = {}
  /\ \A j, k \in todo \cup sent : j.doc = k.doc => j = k
  /\ \A j, k \in sent : j.op = "upsert" => j = k
  /\ undo # None => sent = {} /\ \A k \in todo : k.op = "upsert"

\* A call that succeeded has put the document in the state its row asks for.
CallsApplied == \A k \in sent : outcome => index[k.doc] = k.result

\* When the newest row of a document is completed, Chroma holds what it asked for, and
\* nothing under way will change that.
CompletedIsApplied ==
  \A k \in Keys : Last(k) /\ outbox[k].status = "completed"
    => /\ index[k.doc] = k.result
       /\ undo # k.doc
       /\ \A j \in todo \cup sent : j.doc # k.doc

\* The newest row of a document asks for the canonical row, and may act.
NewestDemands ==
  \A k \in Keys : Last(k) /\ k.doc \notin skipped
    => /\ rows[k.doc] = k.result
       /\ outbox[k].status # "stale_rejected"
       /\ FenceHolds(k)

\* A document with a canonical row, or any outbox row, has had an upsert.
KnownByUpsert ==
  \A d \in Docs : rows[d] # None \/ RowsOf(d) # {} => \E k \in RowsOf(d) : k.op = "upsert"

\* The canonical rows of an active revision show its admitted result, and no more.
AdmittedIsShown ==
  \A r \in Revisions : admitted[r] # None
    => /\ source[r] # "absent"
       /\ source[r] = "active"
            => /\ \A d \in ResultDocs[admitted[r]] : rows[d] = admitted[r]
               /\ \A d \in DocsOf(r) \ ResultDocs[admitted[r]] : rows[d] = None

Converging == BatchApart /\ CallsApplied /\ CompletedIsApplied /\ NewestDemands
                /\ KnownByUpsert /\ AdmittedIsShown

CInv == IInv /\ LInv /\ Converging

\* The newest row is the one with the highest number, and there is only one.
LEMMA LastIsNewest ==
  ASSUME Numbered, NEW k \in Keys
  PROVE  /\ Last(k) => Newest(k) /\ outbox[k].status # "absent"
         /\ Newest(k) /\ outbox[k].status # "absent" => Last(k)
         /\ \A j \in Keys : Last(j) /\ Last(k) /\ j.doc = k.doc => j = k
<1>1. ASSUME NEW j \in RowsOf(k.doc)
      PROVE  /\ j \in Keys /\ outbox[j].status # "absent" /\ j.doc = k.doc
             /\ outbox[j].id \in 1..Cardinality(RowsOf(k.doc))
  BY DEF RowsOf, Numbered
<1>2. Cardinality(RowsOf(k.doc)) \in Nat
  BY RowsCount, KeyShape
<1>3. Last(k) => Newest(k) /\ outbox[k].status # "absent"
  BY <1>1, <1>2 DEF Last, Newest
<1>4. ASSUME Newest(k), outbox[k].status # "absent" PROVE Last(k)
  <2>1. k \in RowsOf(k.doc)
    BY <1>4 DEF RowsOf
  <2>2. PICK j \in RowsOf(k.doc) : outbox[j].id = Cardinality(RowsOf(k.doc))
    BY <2>1, KeyShape DEF Numbered
  <2>3. outbox[j].id <= outbox[k].id
    BY <1>4 DEF Newest
  <2> QED BY <1>1, <1>2, <2>1, <2>2, <2>3 DEF Last
<1>5. ASSUME NEW j \in Keys, Last(j), Last(k), j.doc = k.doc PROVE j = k
  BY <1>5 DEF Last, RowsOf, Numbered
<1> QED BY <1>3, <1>4, <1>5

\* After a transaction the newest row of a document is the one it inserted, or the one
\* it was when nothing was inserted for the document.
LEMMA LastAfterNumbers ==
  ASSUME Order, NEW keys \in SUBSET Keys, Numbers(keys), NEW k \in Keys, Last(k)'
  PROVE  \/ Enqueued(k, keys) /\ outbox'[k] = Inserted(k)
         \/ /\ Last(k) /\ ~Enqueued(k, keys)
            /\ \A j \in keys : j.doc = k.doc => ~Enqueued(j, keys)
<1>1. CASE Enqueued(k, keys)
  BY <1>1 DEF Numbers
<1>2. CASE ~Enqueued(k, keys) /\ \E j \in keys : j.doc = k.doc /\ Enqueued(j, keys)
  <2>1. PICK j \in keys : j.doc = k.doc /\ Enqueued(j, keys)
    BY <1>2
  <2>2. outbox'[j] = Inserted(j) /\ j \in Keys
    BY <2>1 DEF Numbers
  <2>3. outbox'[j].id = Cardinality(RowsOf(k.doc)) + 1 /\ outbox'[j].status = "pending"
    BY <2>1, <2>2 DEF Inserted
  <2>4. outbox'[k].status # "absent" /\ Kept(k)
    BY <1>2 DEF Last, RowsOf, Numbers
  <2>5. outbox[k].status # "absent" /\ outbox'[k].id = outbox[k].id
    BY <2>4 DEF Kept
  <2>6. outbox[k].id \in 1..Cardinality(RowsOf(k.doc)) /\ Cardinality(RowsOf(k.doc)) \in Nat
    BY <2>5, RowsCount, KeyShape DEF Order, Numbered
  <2>7. Numbered'
    BY QueuedNumbers DEF Order
  <2>8. outbox'[j].id \in 1..Cardinality(RowsOf(k.doc))'
    BY <2>1, <2>2, <2>3, <2>7 DEF Numbered
  <2>9. outbox'[k].id = Cardinality(RowsOf(k.doc))' /\ Cardinality(RowsOf(k.doc))' \in Nat
    BY <2>5, <2>6 DEF Last
  <2> QED BY <2>3, <2>5, <2>6, <2>8, <2>9
<1>3. CASE ~Enqueued(k, keys) /\ \A j \in keys : j.doc = k.doc => ~Enqueued(j, keys)
  <2>1. \A j \in Keys : j.doc = k.doc => Kept(j)
    BY <1>3 DEF Numbers, Enqueued
  <2>2. RowsOf(k.doc)' = RowsOf(k.doc)
    BY <2>1 DEF Kept, RowsOf
  <2> QED BY <1>3, <2>1, <2>2 DEF Last, Kept
<1> QED BY <1>1, <1>2, <1>3

LEMMA LastAfterQueues ==
  ASSUME Order, NEW keys \in SUBSET Keys, Queues(keys), NEW k \in Keys, Last(k)'
  PROVE  \/ Enqueued(k, keys) /\ outbox'[k] = Inserted(k)
         \/ /\ Last(k) /\ Eased(k) /\ ~Enqueued(k, keys)
            /\ \A j \in keys : j.doc = k.doc => ~Enqueued(j, keys)
<1>1. Numbers(keys)
  BY DEF Queues, Numbers, Eased, Kept
<1> QED BY <1>1, LastAfterNumbers DEF Queues

\* Steps that insert nothing keep the newest rows.
LEMMA LastKept ==
  ASSUME Numbered,
         \A k \in Keys : /\ outbox'[k].id = outbox[k].id
                         /\ outbox'[k].status = "absent" <=> outbox[k].status = "absent"
  PROVE  /\ \A k \in Keys : Last(k)' <=> Last(k)
         /\ \A d \in Docs : RowsOf(d)' = RowsOf(d)
BY SameNumbers, KeyShape DEF Last

\* As long as nothing the worker does changes and no row becomes completed, Chroma
\* keeps what the newest completed rows asked for.
LEMMA AppliedFrame ==
  ASSUME CompletedIsApplied, UNCHANGED <<index, todo, sent, undo>>,
         \A k \in Keys : Last(k)' /\ outbox'[k].status = "completed"
                           => Last(k) /\ outbox[k].status = "completed"
  PROVE  CompletedIsApplied'
BY DEF CompletedIsApplied

\* What a transaction must do for the newest rows to go on asking for the canonical
\* ones: the rows it queues ask for what it writes, and documents it queues nothing for
\* keep their canonical row, their newest row, and its fence.
LEMMA QueuedDemands ==
  ASSUME Order, NewestDemands, NEW keys \in SUBSET Keys, Queues(keys),
         SkippedAfter(keys) \subseteq skipped',
         \A k \in keys : /\ rows'[k.doc] = k.result
                         /\ FenceHolds(k)'
                         /\ outbox'[k].status = "stale_rejected"
                              => outbox[k].status \in {"absent", "stale_rejected"},
         \A k \in Keys : /\ outbox[k].status # "absent"
                         /\ k.doc \notin skipped'
                         /\ \A j \in keys : j.doc # k.doc
                         /\ FenceHolds(k)
                         => /\ rows'[k.doc] = rows[k.doc]
                            /\ outbox'[k].status = outbox[k].status
                            /\ FenceHolds(k)'
  PROVE  NewestDemands'
<1> SUFFICES ASSUME NEW k \in Keys, Last(k)', k.doc \notin skipped'
             PROVE  /\ rows'[k.doc] = k.result
                    /\ outbox'[k].status # "stale_rejected"
                    /\ FenceHolds(k)'
  BY DEF NewestDemands
<1>1. CASE Enqueued(k, keys) /\ outbox'[k] = Inserted(k)
  BY <1>1 DEF Enqueued, Inserted
<1>2. CASE /\ Last(k) /\ Eased(k) /\ ~Enqueued(k, keys)
           /\ \A j \in keys : j.doc = k.doc => ~Enqueued(j, keys)
  <2>0. outbox[k].status # "absent"
    BY <1>2 DEF Last, RowsOf
  <2>1. CASE \E j \in keys : j.doc = k.doc
    <3>1. PICK j \in keys : j.doc = k.doc
      BY <2>1
    <3>2. outbox[j].status # "absent" /\ j \in Keys
      BY <1>2, <3>1 DEF Enqueued
    <3>3. Standing(j)
      BY <3>1, <3>2 DEF SkippedAfter
    <3>4. Last(j)
      BY <3>2, <3>3, LastIsNewest DEF Standing, Order
    <3>5. j = k
      BY <1>2, <3>1, <3>2, <3>4, LastIsNewest DEF Order
    <3>6. outbox'[k].status # "stale_rejected"
      BY <2>0, <3>1, <3>3, <3>5 DEF Standing
    <3> QED BY <3>1, <3>5, <3>6
  <2>2. CASE \A j \in keys : j.doc # k.doc
    <3>1. k.doc \notin skipped
      BY <2>2 DEF SkippedAfter
    <3>2. /\ rows[k.doc] = k.result
          /\ outbox[k].status # "stale_rejected"
          /\ FenceHolds(k)
      BY <1>2, <3>1 DEF NewestDemands
    <3> QED BY <2>0, <2>2, <3>2
  <2> QED BY <2>1, <2>2
<1> QED BY <1>1, <1>2, LastAfterQueues

\* An invalidation keeps convergence: every document of the revisions that Chroma may
\* hold gets a delete, which can act from now on.
LEMMA InvalidateConverges ==
  ASSUME CInv, NEW revs \in SUBSET Revisions, NEW last \in revs, Invalidate(revs, last),
         \A r \in revs : source[r] \in {"active", "invalidated"},
         \A r \in revs : source'[r] \in {"invalidated", "deleted"},
         \A r \in Revisions \ revs : \/ source'[r] = source[r]
                                     \/ (source[r] = "absent" /\ source'[r] = "active"),
         UNCHANGED <<admitted, index, todo, sent, outcome, undo>>
  PROVE  Converging'
<1> DEFINE keys == InvalidationDeletes(revs, last)
<1>1. /\ TypeOK /\ Order /\ Numbered /\ IInv /\ Converging
      /\ keys \in SUBSET Keys
      /\ Queues(keys) /\ KeepsRows
  BY InvalidateOrder, InvalidationDeleteKeys DEF CInv, LInv, Order
<1>2. \A k \in keys : RevisionOf[k.doc] \in revs /\ k.rev \in revs /\ k.op = "delete_inactive"
  BY <1>1, InvalidationOnly
<1>3. \A k \in keys : k.result = None /\ \E j \in RowsOf(k.doc) : j.op = "upsert"
  <2> SUFFICES ASSUME NEW k \in keys
               PROVE  k.result = None /\ \E j \in RowsOf(k.doc) : j.op = "upsert"
    OBVIOUS
  <2>1. PICK d \in UNION {KnownDocs(r) : r \in revs} :
          k = DeleteKey("delete_inactive", IF source[RevisionOf[d]] = "active" THEN last
                                           ELSE RevisionOf[d], d)
    BY DEF InvalidationDeletes
  <2> QED BY <2>1 DEF DeleteKey, KnownDocs
<1>4. ASSUME NEW d \in Docs, RevisionOf[d] \in revs, RowsOf(d) # {}
      PROVE  \E j \in keys : j.doc = d
  <2>1. PICK k \in RowsOf(d) : k.op = "upsert"
    BY <1>1, <1>4 DEF Converging, KnownByUpsert
  <2>2. d \in KnownDocs(RevisionOf[d])
    BY <2>1, KeyShape DEF KnownDocs, RowsOf
  <2>3. DeleteKey("delete_inactive", IF source[RevisionOf[d]] = "active" THEN last
                                     ELSE RevisionOf[d], d) \in keys
    BY <1>4, <2>2 DEF InvalidationDeletes
  <2> QED BY <2>3 DEF DeleteKey
<1>5. \A k \in Keys : outbox'[k] =
        IF Enqueued(k, keys) THEN Inserted(k)
        ELSE IF k.op = "upsert" /\ k.rev \in revs /\ Unfinished(k)
        THEN [outbox[k] EXCEPT !.status = "stale_rejected", !.live = FALSE]
        ELSE outbox[k]
  BY DEF Invalidate, OutboxAfterInvalidation
<1>6. /\ skipped' = SkippedAfter(keys)
      /\ rows' = [d \in Docs |-> IF RevisionOf[d] \in revs THEN None ELSE rows[d]]
  BY DEF Invalidate
<1> HIDE DEF keys
<1>7. ASSUME NEW k \in Keys, ~Enqueued(k, keys),
             ~(k.op = "upsert" /\ RevisionOf[k.doc] \in revs)
      PROVE  outbox'[k] = outbox[k]
  BY <1>5, <1>7, KeyShape
<1>8. ASSUME NEW k \in Keys
      PROVE  outbox'[k].status = "completed" => outbox[k].status = "completed"
  <2>1. outbox[k] \in Row
    BY <1>1 DEF TypeOK
  <2>2. CASE Enqueued(k, keys)
    <3>1. outbox'[k] = Inserted(k)
      BY <1>5, <2>2
    <3> QED BY <3>1 DEF Inserted
  <2>3. CASE ~Enqueued(k, keys)
    <3>1. outbox'[k] \in {outbox[k],
                          [outbox[k] EXCEPT !.status = "stale_rejected", !.live = FALSE]}
      BY <1>5, <2>3
    <3> QED BY <2>1, <3>1 DEF Row
  <2> QED BY <2>2, <2>3
<1>9. CompletedIsApplied'
  <2>1. ASSUME NEW k \in Keys, Last(k)', outbox'[k].status = "completed"
        PROVE  Last(k) /\ outbox[k].status = "completed"
    <3>1. outbox[k].status = "completed"
      BY <1>8, <2>1
    <3>2. ~Enqueued(k, keys)
      BY <3>1 DEF Enqueued
    <3> QED BY <1>1, <2>1, <3>1, <3>2, LastAfterQueues
  <2> QED BY <1>1, <2>1, AppliedFrame DEF Converging
<1>10. NewestDemands'
  <2>1. ASSUME NEW k \in keys
        PROVE  /\ rows'[k.doc] = k.result
               /\ FenceHolds(k)'
               /\ outbox'[k].status = "stale_rejected"
                    => outbox[k].status \in {"absent", "stale_rejected"}
    <3>1. k \in Keys /\ k.doc \in Docs
      BY <1>1, KeyShape
    <3>2. rows'[k.doc] = k.result
      BY <1>2, <1>3, <1>6, <3>1
    <3>3. FenceHolds(k)'
      BY <1>2 DEF FenceHolds
    <3>4. ~Enqueued(k, keys) => outbox'[k] = outbox[k]
      BY <1>2, <1>7, <3>1
    <3> QED BY <3>2, <3>3, <3>4 DEF Enqueued
  <2>2. ASSUME NEW k \in Keys, outbox[k].status # "absent",
               \A j \in keys : j.doc # k.doc, FenceHolds(k)
        PROVE  /\ rows'[k.doc] = rows[k.doc]
               /\ outbox'[k].status = outbox[k].status
               /\ FenceHolds(k)'
    <3>1. k \in RowsOf(k.doc) /\ k.doc \in Docs /\ k.rev \in Revisions
      BY <2>2, KeyShape DEF RowsOf
    <3>2. RevisionOf[k.doc] \notin revs
      BY <1>4, <2>2, <3>1
    <3>3. rows'[k.doc] = rows[k.doc]
      BY <1>6, <3>1, <3>2
    <3>4. outbox'[k] = outbox[k]
      BY <1>7, <2>2, <3>2 DEF Enqueued
    <3>5. FenceHolds(k)'
      <4>1. CASE k.op = "delete_inactive"
        <5>1. source[k.rev] \in {"invalidated", "deleted"}
          BY <1>1, <2>2, <4>1 DEF IInv, DeletesFollowInvalidation
        <5>2. source'[k.rev] # "active"
          BY <3>1, <5>1
        <5> QED BY <4>1, <5>2 DEF FenceHolds
      <4>2. CASE k.op # "delete_inactive"
        <5>1. k.rev = RevisionOf[k.doc]
          BY <4>2 DEF Keys
        <5>2. source'[k.rev] = "active"
          BY <2>2, <3>1, <3>2, <4>2, <5>1 DEF FenceHolds
        <5> QED BY <4>2, <5>2 DEF FenceHolds
      <4> QED BY <4>1, <4>2
    <3> QED BY <3>3, <3>4, <3>5
  <2> QED BY <1>1, <1>6, <2>1, <2>2, QueuedDemands DEF Converging
<1>11. KnownByUpsert'
  <2> SUFFICES ASSUME NEW d \in Docs, rows'[d] # None \/ RowsOf(d)' # {}
               PROVE  \E k \in RowsOf(d)' : k.op = "upsert"
    BY DEF KnownByUpsert
  <2>1. rows'[d] # None => rows[d] # None
    BY <1>6
  <2>2. ASSUME RowsOf(d)' # {} PROVE RowsOf(d) # {}
    <3>1. PICK k \in RowsOf(d)' : TRUE
      BY <2>2
    <3>2. k \in Keys /\ k.doc = d /\ outbox'[k].status # "absent"
      BY <3>1 DEF RowsOf
    <3>3. CASE Enqueued(k, keys)
      BY <1>3, <3>2, <3>3 DEF Enqueued
    <3>4. CASE ~Enqueued(k, keys)
      BY <1>1, <3>2, <3>4 DEF Queues, Eased, RowsOf
    <3> QED BY <3>3, <3>4
  <2>3. PICK k \in RowsOf(d) : k.op = "upsert"
    BY <1>1, <2>1, <2>2 DEF Converging, KnownByUpsert
  <2> QED BY <1>1, <2>3, RowsFrame
<1>12. AdmittedIsShown'
  <2> SUFFICES ASSUME NEW r \in Revisions, admitted'[r] # None
               PROVE  /\ source'[r] # "absent"
                      /\ source'[r] = "active"
                           => /\ \A d \in ResultDocs[admitted'[r]] : rows'[d] = admitted'[r]
                              /\ \A d \in DocsOf(r) \ ResultDocs[admitted'[r]] : rows'[d] = None
    BY DEF AdmittedIsShown
  <2>1. /\ source[r] # "absent"
        /\ source[r] = "active"
             => /\ \A d \in ResultDocs[admitted[r]] : rows[d] = admitted[r]
                /\ \A d \in DocsOf(r) \ ResultDocs[admitted[r]] : rows[d] = None
    BY <1>1 DEF Converging, AdmittedIsShown
  <2>2. CASE r \in revs
    BY <2>2
  <2>3. CASE r \notin revs
    <3>1. source'[r] = source[r]
      BY <2>1, <2>3
    <3>2. ASSUME NEW d \in ResultDocs[admitted[r]] PROVE rows'[d] = rows[d]
      <4>1. UpsertKey(r, admitted[r], d) \in Keys
        BY DEF CInv, LInv, AdmittedIsQueued
      <4>2. d \in Docs /\ RevisionOf[d] = r
        BY <4>1 DEF Keys, UpsertKey
      <4> QED BY <1>6, <2>3, <4>2
    <3>3. \A d \in DocsOf(r) : rows'[d] = rows[d]
      BY <1>6, <2>3 DEF DocsOf
    <3> QED BY <2>1, <3>1, <3>2, <3>3
  <2> QED BY <2>2, <2>3
<1>13. BatchApart' /\ CallsApplied'
  BY <1>1 DEF Converging, BatchApart, CallsApplied
<1> QED BY <1>9, <1>10, <1>11, <1>12, <1>13 DEF Converging

\* An admission keeps convergence: it queues a row for every document whose canonical
\* row it writes or removes.
LEMMA AdmitConverges ==
  ASSUME CInv, NEW r \in Revisions, NEW res \in Results, NEW hidden, NEW kept,
         Admit(r, res, hidden, kept)
  PROVE  Converging'
<1> DEFINE retired == Retired(r, res) \ (hidden \cup kept)
           dropped == retired \cup hidden
           keys == AdmissionKeys(r, res, dropped)
<1>1. /\ TypeOK /\ Order /\ IInv /\ Converging
      /\ keys \in SUBSET Keys
      /\ Queues(keys) /\ KeepsRows /\ AdmittedIsQueued'
  BY AdmitOrder DEF CInv, LInv
<1>2. /\ source[r] = "active" /\ ResultDocs[res] \subseteq DocsOf(r)
      /\ skipped' = SkippedAfter(keys) \cup kept
      /\ rows' = [d \in Docs |-> IF d \in ResultDocs[res] THEN res
                                 ELSE IF RevisionOf[d] = r THEN None ELSE rows[d]]
      /\ admitted' = [admitted EXCEPT ![r] = res]
      /\ UNCHANGED <<source, index, todo, sent, outcome, undo>>
  BY DEF Admit, worker
<1>3. \A k \in Keys : outbox'[k] =
        IF Enqueued(k, keys) THEN Inserted(k)
        ELSE IF Cancelled(k, retired) THEN [outbox[k] EXCEPT !.status = "stale_rejected"]
        ELSE outbox[k]
  BY DEF Admit
<1>4. ASSUME NEW k \in keys
      PROVE  \/ /\ k.op = "upsert" /\ k.result = res /\ k.doc \in ResultDocs[res]
             \/ /\ k.op = "delete_active" /\ k.result = None /\ k.doc \in dropped
  BY DEF AdmissionKeys, UpsertKey, DeleteKey
<1>5. /\ \A d \in dropped : DeleteKey("delete_active", r, d) \in keys
                                    /\ DeleteKey("delete_active", r, d).doc = d
      /\ \A d \in ResultDocs[res] : UpsertKey(r, res, d) \in keys
                                    /\ UpsertKey(r, res, d).doc = d
                                    /\ UpsertKey(r, res, d).op = "upsert"
  BY DEF AdmissionKeys, UpsertKey, DeleteKey
<1>6. \A d \in dropped : /\ d \in Docs /\ RevisionOf[d] = r /\ d \notin ResultDocs[res]
                         /\ rows[d] # None \/ RowsOf(d) # {}
  BY DroppedDocs DEF Admit, Retired, DocsOf
<1>14. retired \subseteq dropped /\ Retired(r, res) \subseteq dropped \cup kept
  OBVIOUS
<1> HIDE DEF keys, dropped, retired
<1>7. ASSUME NEW k \in Keys
      PROVE  /\ outbox'[k].status = "completed" => outbox[k].status = "completed"
             /\ ~Enqueued(k, keys) /\ k.doc \notin dropped => outbox'[k] = outbox[k]
             /\ ~Enqueued(k, keys) /\ k.op # "upsert" => outbox'[k] = outbox[k]
  <2>1. outbox[k] \in Row
    BY <1>1 DEF TypeOK
  <2>2. CASE Enqueued(k, keys)
    <3>1. outbox'[k] = Inserted(k)
      BY <1>3, <2>2
    <3> QED BY <2>2, <3>1 DEF Inserted
  <2>3. CASE ~Enqueued(k, keys) /\ Cancelled(k, retired)
    <3>1. outbox'[k] = [outbox[k] EXCEPT !.status = "stale_rejected"]
      BY <1>3, <2>3
    <3>2. outbox'[k].status = "stale_rejected"
      BY <2>1, <3>1 DEF Row
    <3> QED BY <1>14, <2>3, <3>2 DEF Cancelled
  <2>4. CASE ~Enqueued(k, keys) /\ ~Cancelled(k, retired)
    BY <1>3, <2>4
  <2> QED BY <2>2, <2>3, <2>4
<1>8. CompletedIsApplied'
  <2>1. ASSUME NEW k \in Keys, Last(k)', outbox'[k].status = "completed"
        PROVE  Last(k) /\ outbox[k].status = "completed"
    <3>1. outbox[k].status = "completed"
      BY <1>7, <2>1
    <3>2. ~Enqueued(k, keys)
      BY <3>1 DEF Enqueued
    <3> QED BY <1>1, <2>1, <3>1, <3>2, LastAfterQueues
  <2> QED BY <1>1, <1>2, <2>1, AppliedFrame DEF Converging
<1>9. NewestDemands'
  <2>1. ASSUME NEW k \in keys
        PROVE  /\ rows'[k.doc] = k.result
               /\ FenceHolds(k)'
               /\ outbox'[k].status = "stale_rejected"
                    => outbox[k].status \in {"absent", "stale_rejected"}
    <3>1. k \in Keys /\ k.doc \in Docs
      BY <1>1, KeyShape
    <3>2. rows'[k.doc] = k.result /\ k.op # "delete_inactive"
      BY <1>2, <1>4, <1>6, <3>1
    <3>3. k.rev = RevisionOf[k.doc] /\ RevisionOf[k.doc] = r
      BY <1>2, <1>4, <1>6, <3>1, <3>2 DEF Keys, DocsOf
    <3>4. FenceHolds(k)'
      BY <1>2, <3>2, <3>3 DEF FenceHolds
    <3>5. ~Enqueued(k, keys) => outbox'[k] = outbox[k]
      BY <1>4, <1>6, <1>7, <3>1
    <3> QED BY <3>2, <3>4, <3>5 DEF Enqueued
  <2>2. ASSUME NEW k \in Keys, outbox[k].status # "absent", k.doc \notin skipped',
               \A j \in keys : j.doc # k.doc, FenceHolds(k)
        PROVE  /\ rows'[k.doc] = rows[k.doc]
               /\ outbox'[k].status = outbox[k].status
               /\ FenceHolds(k)'
    <3>1. k.doc \in Docs /\ k.doc \notin dropped /\ k.doc \notin ResultDocs[res]
      BY <1>5, <2>2, KeyShape
    <3>2. rows'[k.doc] = rows[k.doc]
      <4>1. RevisionOf[k.doc] = r => rows[k.doc] = None
        BY <1>2, <1>14, <2>2, <3>1 DEF Retired, DocsOf
      <4> QED BY <1>2, <3>1, <4>1
    <3>3. outbox'[k] = outbox[k]
      BY <1>7, <2>2, <3>1 DEF Enqueued
    <3> QED BY <1>2, <2>2, <3>2, <3>3 DEF FenceHolds
  <2> QED BY <1>1, <1>2, <2>1, <2>2, QueuedDemands DEF Converging
<1>10. ASSUME NEW d \in ResultDocs[res] PROVE \E k \in RowsOf(d)' : k.op = "upsert"
  <2> DEFINE k == UpsertKey(r, res, d)
  <2>1. k \in Keys /\ outbox'[k].status # "absent"
    <3>1. admitted'[r] = res /\ admitted'[r] # None
      BY <1>1, <1>2, OutboxAssumption DEF TypeOK
    <3> QED BY <1>1, <3>1 DEF AdmittedIsQueued
  <2> QED BY <1>5, <2>1 DEF RowsOf
<1>11. KnownByUpsert'
  <2> SUFFICES ASSUME NEW d \in Docs, d \notin ResultDocs[res],
                      rows'[d] # None \/ RowsOf(d)' # {}
               PROVE  \E k \in RowsOf(d)' : k.op = "upsert"
    BY <1>10 DEF KnownByUpsert
  <2>1. rows[d] # None \/ RowsOf(d) # {}
    <3>1. CASE rows'[d] # None
      BY <1>2, <3>1
    <3>2. CASE RowsOf(d)' # {}
      <4>1. PICK k \in RowsOf(d)' : TRUE
        BY <3>2
      <4>2. k \in Keys /\ k.doc = d /\ outbox'[k].status # "absent"
        BY <4>1 DEF RowsOf
      <4>3. CASE Enqueued(k, keys)
        BY <1>4, <1>6, <4>2, <4>3 DEF Enqueued
      <4>4. CASE ~Enqueued(k, keys)
        BY <1>1, <4>2, <4>4 DEF Queues, Eased, RowsOf
      <4> QED BY <4>3, <4>4
    <3> QED BY <3>1, <3>2
  <2>2. PICK k \in RowsOf(d) : k.op = "upsert"
    BY <1>1, <2>1 DEF Converging, KnownByUpsert
  <2> QED BY <1>1, <2>2, RowsFrame
<1>12. AdmittedIsShown'
  <2> SUFFICES ASSUME NEW s \in Revisions, admitted'[s] # None
               PROVE  /\ source'[s] # "absent"
                      /\ source'[s] = "active"
                           => /\ \A d \in ResultDocs[admitted'[s]] : rows'[d] = admitted'[s]
                              /\ \A d \in DocsOf(s) \ ResultDocs[admitted'[s]] : rows'[d] = None
    BY DEF AdmittedIsShown
  <2>1. CASE s = r
    <3>1. admitted'[s] = res /\ source'[s] = "active"
      BY <1>1, <1>2, <2>1 DEF TypeOK
    <3>2. /\ \A d \in ResultDocs[res] : rows'[d] = res
          /\ \A d \in DocsOf(r) \ ResultDocs[res] : rows'[d] = None
      BY <1>2 DEF DocsOf
    <3> QED BY <2>1, <3>1, <3>2
  <2>2. CASE s # r
    <3>1. admitted'[s] = admitted[s] /\ source'[s] = source[s]
      BY <1>1, <1>2, <2>2 DEF TypeOK
    <3>2. ASSUME NEW d \in ResultDocs[admitted[s]] PROVE rows'[d] = rows[d]
      <4>1. UpsertKey(s, admitted[s], d) \in Keys
        BY <2>2, <3>1 DEF CInv, LInv, AdmittedIsQueued
      <4>2. d \in Docs /\ RevisionOf[d] = s
        BY <4>1 DEF Keys, UpsertKey
      <4> QED BY <1>2, <2>2, <4>2 DEF DocsOf
    <3>3. \A d \in DocsOf(s) : rows'[d] = rows[d]
      BY <1>2, <2>2 DEF DocsOf
    <3> QED BY <1>1, <3>1, <3>2, <3>3 DEF Converging, AdmittedIsShown
  <2> QED BY <2>1, <2>2
<1>13. BatchApart' /\ CallsApplied'
  BY <1>1, <1>2 DEF Converging, BatchApart, CallsApplied
<1> QED BY <1>8, <1>9, <1>11, <1>12, <1>13 DEF Converging

\* Steps that insert nothing, write no canonical row and reject only what the fence
\* rejects keep what the newest rows ask for.
LEMMA DemandsFrame ==
  ASSUME NewestDemands, KnownByUpsert, AdmittedIsShown, Numbered,
         \A k \in Keys : /\ outbox'[k].id = outbox[k].id
                         /\ outbox'[k].status = "absent" <=> outbox[k].status = "absent"
                         /\ outbox'[k].status = "stale_rejected" /\ FenceHolds(k)
                              => outbox[k].status = "stale_rejected",
         UNCHANGED <<source, rows, admitted, skipped>>
  PROVE  NewestDemands' /\ KnownByUpsert' /\ AdmittedIsShown'
<1>1. /\ \A k \in Keys : Last(k)' <=> Last(k)
      /\ \A d \in Docs : RowsOf(d)' = RowsOf(d)
  BY LastKept
<1>2. NewestDemands'
  BY <1>1 DEF NewestDemands, FenceHolds
<1>3. KnownByUpsert'
  BY <1>1 DEF KnownByUpsert
<1>4. AdmittedIsShown'
  BY DEF AdmittedIsShown
<1> QED BY <1>2, <1>3, <1>4

\* A claim takes one row of each document, none of which is completed.
LEMMA ClaimConverges ==
  ASSUME CInv, NEW c \in Keys, Claim(c)
  PROVE  Converging'
<1>1. PICK group \in {{c}, {c} \cup Siblings(c)} :
        /\ todo' = group
        /\ outbox' = [j \in Keys |->
             IF j \in group THEN Leased(outbox[j])
             ELSE IF Unfinished(j) /\ ~FenceHolds(j)
             THEN [outbox[j] EXCEPT !.status = "stale_rejected", !.live = FALSE]
             ELSE outbox[j]]
  BY DEF Claim
<1>2. /\ TypeOK /\ Order /\ Numbered /\ Converging
      /\ todo = {} /\ sent = {} /\ undo = None
      /\ UNCHANGED <<source, admitted, rows, index, sent, outcome, undo, skipped>>
  BY DEF CInv, LInv, Order, Claim, Idle, canonical
<1>3. \A g \in group : /\ g \in Keys /\ Unfinished(g) /\ FenceHolds(g) /\ FirstOfDocument(g)
                       /\ outbox[g].id \in Nat /\ g \in RowsOf(g.doc)
  <2>1. \A g \in group : g \in Keys /\ Claimable(g)
    BY <1>1 DEF Claim, Siblings
  <2> QED BY <1>2, <2>1 DEF Claimable, Unfinished, TypeOK, Row, RowsOf
<1>4. ASSUME NEW k \in Keys
      PROVE  /\ outbox'[k].id = outbox[k].id
             /\ outbox'[k].status = "absent" <=> outbox[k].status = "absent"
             /\ outbox'[k].status = "stale_rejected" /\ FenceHolds(k)
                  => outbox[k].status = "stale_rejected"
             /\ outbox'[k].status = "completed"
                  => outbox[k].status = "completed" /\ k \notin group
  <2>1. outbox[k] \in Row
    BY <1>2 DEF TypeOK
  <2>2. CASE k \in group
    <3>1. outbox'[k] = Leased(outbox[k]) /\ outbox[k].status # "absent"
      BY <1>1, <1>3, <2>2 DEF Unfinished
    <3>2. Leased(outbox[k]).status = "leased"
      BY <2>1, LeasedRow
    <3>3. Leased(outbox[k]).id = outbox[k].id
      BY <2>1 DEF Leased, Row
    <3> QED BY <3>1, <3>2, <3>3
  <2>3. CASE k \notin group /\ Unfinished(k) /\ ~FenceHolds(k)
    <3>1. outbox'[k] = [outbox[k] EXCEPT !.status = "stale_rejected", !.live = FALSE]
      BY <1>1, <2>3
    <3>2. outbox'[k].id = outbox[k].id /\ outbox'[k].status = "stale_rejected"
      BY <2>1, <3>1 DEF Row
    <3> QED BY <2>3, <3>2 DEF Unfinished
  <2>4. CASE k \notin group /\ ~(Unfinished(k) /\ ~FenceHolds(k))
    BY <1>1, <2>4
  <2> QED BY <2>2, <2>3, <2>4
<1>5. NewestDemands' /\ KnownByUpsert' /\ AdmittedIsShown'
  BY <1>2, <1>4, DemandsFrame DEF Converging
<1>6. CompletedIsApplied'
  <2> SUFFICES ASSUME NEW k \in Keys, Last(k)', outbox'[k].status = "completed"
               PROVE  /\ index[k.doc] = k.result
                      /\ undo # k.doc
                      /\ \A j \in group : j.doc # k.doc
    BY <1>1, <1>2 DEF CompletedIsApplied
  <2>1. Last(k) /\ outbox[k].status = "completed" /\ k \notin group
    BY <1>2, <1>4, LastKept
  <2>2. ASSUME NEW j \in group, j.doc = k.doc PROVE FALSE
    <3>1. outbox[k].id \in Nat /\ outbox[j].id <= outbox[k].id /\ k \in RowsOf(k.doc)
      BY <1>2, <1>3, <2>1, <2>2, LastIsNewest DEF Newest, TypeOK, Row, Last
    <3>2. outbox[j].id # outbox[k].id
      BY <1>2, <1>3, <2>1, <2>2 DEF Numbered, Unfinished
    <3>3. outbox[j].id < outbox[k].id
      BY <1>3, <3>1, <3>2
    <3> QED BY <1>2, <1>3, <2>1, <2>2, <3>3 DEF Order, StartedInOrder, Started
  <2> QED BY <1>2, <2>1, <2>2 DEF Converging, CompletedIsApplied
<1>7. BatchApart'
  <2>1. ASSUME NEW i \in group, NEW j \in group, i.doc = j.doc, i # j PROVE FALSE
    <3>1. outbox[i].id # outbox[j].id
      BY <1>2, <1>3, <2>1 DEF Numbered, Unfinished
    <3>2. outbox[i].id < outbox[j].id \/ outbox[j].id < outbox[i].id
      BY <1>3, <3>1
    <3> QED BY <1>3, <2>1, <3>2 DEF FirstOfDocument
  <2> QED BY <1>1, <1>2, <2>1 DEF BatchApart
<1>8. CallsApplied'
  BY <1>2 DEF CallsApplied
<1> QED BY <1>5, <1>6, <1>7, <1>8 DEF Converging

\* A refresh starts over newest rows that ask for the admitted result, and hides
\* documents that have no canonical row.
LEMMA RefreshConverges ==
  ASSUME CInv, NEW r \in Revisions, NEW hidden, NEW reconcile,
         Refresh(r, hidden, reconcile)
  PROVE  Converging'
<1> DEFINE keys == AdmissionKeys(r, admitted[r], hidden)
<1>1. /\ TypeOK /\ Order /\ Numbered /\ Converging /\ LInv
      /\ UNCHANGED <<source, admitted, rows, index, todo, sent, outcome, undo>>
      /\ skipped' = skipped \ {k.doc : k \in keys}
  BY DEF CInv, LInv, Order, Refresh, canonical, worker
<1>2. /\ keys \in SUBSET Keys /\ Numbers(keys)
      /\ \A k \in keys : outbox'[k].status = "pending" /\ (Newest(k) \/ Enqueued(k, keys))
      /\ \A k \in Keys : k \notin keys =>
           \/ outbox'[k] = outbox[k]
           \/ /\ outbox'[k].status = "stale_rejected" /\ outbox[k].status # "absent"
              /\ k.doc \in hidden
  BY <1>1, RefreshRows
<1>3. \A k \in keys : rows[k.doc] = k.result /\ FenceHolds(k)
  <2>1. /\ source[r] = "active" /\ admitted[r] # None
        /\ \A d \in hidden : d \in DocsOf(r) \ ResultDocs[admitted[r]]
    BY DroppedDocs DEF Refresh
  <2>2. /\ \A d \in ResultDocs[admitted[r]] : rows[d] = admitted[r]
        /\ \A d \in hidden : rows[d] = None
    BY <1>1, <2>1 DEF Converging, AdmittedIsShown
  <2> QED BY <2>1, <2>2 DEF AdmissionKeys, UpsertKey, DeleteKey, FenceHolds
<1>4. \A d \in hidden : \E k \in keys : k.doc = d
  <2>1. \A d \in hidden : /\ DeleteKey("delete_active", r, d) \in keys
                          /\ DeleteKey("delete_active", r, d).doc = d
    BY DEF AdmissionKeys, DeleteKey
  <2> HIDE DEF keys
  <2> QED BY <2>1
<1>5. ASSUME NEW d \in Docs, RowsOf(d)' # {} PROVE RowsOf(d) # {}
  <2>1. ASSUME NEW k \in keys, k.doc = d PROVE RowsOf(d) # {}
    <3>1. CASE \E e \in hidden : k = DeleteKey("delete_active", r, e)
      <4>1. d \in hidden
        BY <2>1, <3>1 DEF DeleteKey
      <4>2. d \in Hideable(r, admitted[r])
        BY <4>1 DEF Refresh
      <4> QED BY <4>2, DroppedDocs
    <3>2. CASE \E e \in ResultDocs[admitted[r]] : k = UpsertKey(r, admitted[r], e)
      <4>1. outbox[k].status # "absent"
        BY <1>1, <3>2 DEF LInv, AdmittedIsQueued, Refresh
      <4> QED BY <1>2, <2>1, <4>1 DEF RowsOf
    <3> QED BY <3>1, <3>2 DEF AdmissionKeys
  <2>2. PICK k \in Keys : k.doc = d /\ outbox'[k].status # "absent"
    BY <1>5 DEF RowsOf
  <2>3. CASE k \in keys
    BY <2>1, <2>2, <2>3
  <2>4. CASE k \notin keys
    BY <1>2, <2>2, <2>4 DEF RowsOf
  <2> QED BY <2>3, <2>4
<1> HIDE DEF keys
<1>6. CompletedIsApplied'
  <2>1. ASSUME NEW k \in Keys, Last(k)', outbox'[k].status = "completed"
        PROVE  Last(k) /\ outbox[k].status = "completed"
    <3>1. outbox'[k] = outbox[k] /\ k \notin keys
      BY <1>2, <2>1
    <3> QED BY <1>1, <1>2, <2>1, <3>1, LastAfterNumbers DEF Enqueued
  <2> QED BY <1>1, <2>1, AppliedFrame DEF Converging
<1>7. NewestDemands'
  <2> SUFFICES ASSUME NEW k \in Keys, Last(k)', k.doc \notin skipped'
               PROVE  /\ rows[k.doc] = k.result
                      /\ outbox'[k].status # "stale_rejected"
                      /\ FenceHolds(k)
    BY <1>1 DEF NewestDemands, FenceHolds
  <2>1. CASE k \in keys
    BY <1>2, <1>3, <2>1
  <2>2. CASE k \notin keys
    <3>1. /\ Last(k)
          /\ \A j \in keys : j.doc = k.doc => ~Enqueued(j, keys)
      BY <1>1, <1>2, <2>2, LastAfterNumbers DEF Enqueued
    <3>2. ASSUME NEW j \in keys, j.doc = k.doc PROVE FALSE
      <4>1. j \in Keys /\ Newest(j) /\ outbox[j].status # "absent"
        BY <1>2, <3>1, <3>2 DEF Enqueued
      <4>2. Last(j)
        BY <1>1, <4>1, LastIsNewest
      <4>3. j = k
        BY <1>1, <3>1, <3>2, <4>1, <4>2, LastIsNewest
      <4> QED BY <2>2, <3>2, <4>3
    <3>3. k.doc \notin skipped /\ outbox'[k] = outbox[k]
      BY <1>1, <1>2, <1>4, <2>2, <3>2
    <3> QED BY <1>1, <3>1, <3>3 DEF Converging, NewestDemands
  <2> QED BY <2>1, <2>2
<1>8. KnownByUpsert'
  <2> SUFFICES ASSUME NEW d \in Docs, rows[d] # None \/ RowsOf(d)' # {}
               PROVE  \E k \in RowsOf(d)' : k.op = "upsert"
    BY <1>1 DEF KnownByUpsert
  <2>1. \E k \in RowsOf(d) : k.op = "upsert"
    BY <1>1, <1>5 DEF Converging, KnownByUpsert
  <2> QED BY <1>1, <2>1, RefreshOrder, RowsFrame
<1>9. AdmittedIsShown' /\ BatchApart' /\ CallsApplied'
  BY <1>1 DEF Converging, AdmittedIsShown, BatchApart, CallsApplied
<1> QED BY <1>6, <1>7, <1>8, <1>9 DEF Converging

\* What finishing a row does to the table.
LEMMA FinishRows ==
  ASSUME TypeOK, NEW k \in Keys, NEW status \in {"completed", "retryable", "permanent"},
         outbox' = [outbox EXCEPT ![k] = FinishedRow(k, status)]
  PROVE  /\ \A j \in Keys : /\ outbox'[j].id = outbox[j].id
                            /\ outbox'[j].status = "absent" <=> outbox[j].status = "absent"
                            /\ outbox'[j].status = "stale_rejected" /\ FenceHolds(j)
                                 => outbox[j].status = "stale_rejected"
                            /\ j # k => outbox'[j] = outbox[j]
         /\ outbox'[k].status = "completed"
              => \/ outbox[k].status = "completed"
                 \/ status = "completed" /\ ~Stale(k)
<1>1. \A j \in Keys : j # k => outbox'[j] = outbox[j]
  BY DEF TypeOK
<1>2. outbox[k] \in Row
  BY DEF TypeOK
<1>3. CASE outbox[k].status # "leased" \/ ~outbox[k].live
  <2>1. outbox'[k] = outbox[k]
    BY <1>3 DEF TypeOK, FinishedRow
  <2> QED BY <1>1, <2>1
<1>4. CASE outbox[k].status = "leased" /\ outbox[k].live
  <2> DEFINE final == IF FenceHolds(k) THEN status ELSE "stale_rejected"
  <2>1. outbox'[k] = [outbox[k] EXCEPT !.live = FALSE, !.status = final]
    BY <1>4 DEF TypeOK, FinishedRow
  <2>2. outbox'[k].id = outbox[k].id /\ outbox'[k].status = final
    BY <1>2, <2>1 DEF Row
  <2>3. final \notin {"absent"} /\ (final = "stale_rejected" => ~FenceHolds(k))
        /\ (final = "completed" => FenceHolds(k) /\ status = "completed")
    OBVIOUS
  <2> HIDE DEF final
  <2> QED BY <1>1, <1>4, <2>2, <2>3 DEF Stale
<1> QED BY <1>3, <1>4

\* A completed row is the only one of its document in the batch, and its call was
\* applied; a rejected one leaves the removal of its document as the next step.
LEMMA CompleteConverges ==
  ASSUME CInv, NEW k \in Keys, Complete(k)
  PROVE  Converging'
<1>1. /\ TypeOK /\ Order /\ Numbered /\ Converging /\ BatchSound
      /\ k \in sent /\ outcome /\ sent' = sent \ {k}
      /\ undo' = IF k.op = "upsert" /\ Stale(k) THEN k.doc ELSE undo
      /\ outbox' = [outbox EXCEPT ![k] = FinishedRow(k, "completed")]
      /\ UNCHANGED <<source, admitted, rows, index, todo, outcome, skipped>>
  BY DEF CInv, IInv, LInv, Order, Complete, canonical
<1>2. /\ undo = None /\ k.doc \in Docs /\ k.doc # None /\ k \notin todo
      /\ index[k.doc] = k.result
      /\ \A j \in todo \cup sent : j.doc = k.doc => j = k
  BY <1>1, KeyShape, OutboxAssumption DEF Converging, BatchApart, CallsApplied
<1>3. NewestDemands' /\ KnownByUpsert' /\ AdmittedIsShown'
  BY <1>1, FinishRows, DemandsFrame DEF Converging
<1>4. CompletedIsApplied'
  <2> SUFFICES ASSUME NEW m \in Keys, Last(m)', outbox'[m].status = "completed"
               PROVE  /\ index[m.doc] = m.result
                      /\ undo' # m.doc
                      /\ \A j \in todo \cup (sent \ {k}) : j.doc # m.doc
    BY <1>1 DEF CompletedIsApplied
  <2>1. Last(m)
    BY <1>1, FinishRows, LastKept
  <2>2. CASE outbox[m].status = "completed"
    <3>1. /\ index[m.doc] = m.result /\ undo # m.doc
          /\ \A j \in todo \cup sent : j.doc # m.doc
      BY <1>1, <2>1, <2>2 DEF Converging, CompletedIsApplied
    <3>2. k.doc # m.doc
      BY <1>1, <3>1
    <3> QED BY <1>1, <3>1, <3>2
  <2>3. CASE outbox[m].status # "completed"
    <3>1. m = k /\ ~Stale(k)
      BY <1>1, <2>3, FinishRows
    <3>2. undo' = None
      BY <1>1, <1>2, <3>1
    <3> QED BY <1>2, <3>1, <3>2
  <2> QED BY <2>2, <2>3
<1>5. BatchApart'
  <2>1. k.op = "upsert" => sent' = {} /\ \A j \in todo : j.op = "upsert"
    BY <1>1 DEF Converging, BatchApart, BatchSound
  <2>2. undo' # None => k.op = "upsert"
    BY <1>1, <1>2
  <2> QED BY <1>1, <2>1, <2>2 DEF Converging, BatchApart
<1>6. CallsApplied'
  BY <1>1 DEF Converging, CallsApplied
<1> QED BY <1>3, <1>4, <1>5, <1>6 DEF Converging

\* A call that failed completes nothing.
LEMMA FailConverges ==
  ASSUME CInv, NEW k \in Keys, Fail(k)
  PROVE  Converging'
<1>1. PICK status \in {"retryable", "permanent"} :
        outbox' = [outbox EXCEPT ![k] = FinishedRow(k, status)]
  BY DEF Fail
<1>2. /\ TypeOK /\ Order /\ Numbered /\ Converging
      /\ k \in sent /\ sent' = sent \ {k}
      /\ UNCHANGED <<source, admitted, rows, index, todo, outcome, undo, skipped>>
  BY DEF CInv, LInv, Order, Fail, canonical
<1>3. NewestDemands' /\ KnownByUpsert' /\ AdmittedIsShown'
  BY <1>1, <1>2, FinishRows, DemandsFrame DEF Converging
<1>4. \A m \in Keys : Last(m)' /\ outbox'[m].status = "completed"
                        => Last(m) /\ outbox[m].status = "completed"
  <2>1. \A m \in Keys : Last(m)' <=> Last(m)
    BY <1>1, <1>2, FinishRows, LastKept
  <2>2. \A m \in Keys : outbox'[m].status = "completed" => outbox[m].status = "completed"
    BY <1>1, <1>2, FinishRows
  <2> QED BY <2>1, <2>2
<1>5. CompletedIsApplied'
  BY <1>2, <1>4 DEF Converging, CompletedIsApplied
<1>6. BatchApart' /\ CallsApplied'
  BY <1>2 DEF Converging, BatchApart, CallsApplied
<1> QED BY <1>3, <1>5, <1>6 DEF Converging

\* An expired lease leaves the row where it was.
LEMMA ExpiryConverges ==
  ASSUME CInv, NEW k \in Keys, LeaseExpires(k)
  PROVE  Converging'
<1>1. /\ TypeOK /\ Order /\ Numbered /\ Converging
      /\ UNCHANGED <<source, admitted, rows, index, todo, sent, outcome, undo, skipped>>
  BY DEF CInv, LInv, Order, LeaseExpires, canonical, worker
<1>2. ASSUME NEW j \in Keys
      PROVE  outbox'[j].id = outbox[j].id /\ outbox'[j].status = outbox[j].status
  <2>1. outbox'[j] \in {outbox[j], [outbox[j] EXCEPT !.live = FALSE]}
    BY <1>1 DEF LeaseExpires, TypeOK
  <2>2. outbox[j] \in Row
    BY <1>1 DEF TypeOK
  <2> QED BY <2>1, <2>2 DEF Row
<1>3. NewestDemands' /\ KnownByUpsert' /\ AdmittedIsShown'
  BY <1>1, <1>2, DemandsFrame DEF Converging
<1>4. \A j \in Keys : Last(j)' <=> Last(j)
  BY <1>1, <1>2, LastKept
<1>5. CompletedIsApplied'
  BY <1>1, <1>2, <1>4, AppliedFrame DEF Converging
<1>6. BatchApart' /\ CallsApplied'
  BY <1>1 DEF Converging, BatchApart, CallsApplied
<1> QED BY <1>3, <1>5, <1>6 DEF Converging

\* The vector calls touch documents whose newest row is not completed.
LEMMA CallsConverge ==
  ASSUME CInv,
         \/ \E k \in Keys, ok \in BOOLEAN : CallUpsert(k, ok)
         \/ \E ok \in BOOLEAN : CallDelete(ok)
         \/ Compensate
  PROVE  Converging'
<1>1. /\ TypeOK /\ Numbered /\ Converging /\ BatchSound
      /\ UNCHANGED <<source, admitted, rows, outbox, skipped>>
  BY DEF CInv, IInv, LInv, Order, CallUpsert, CallDelete, Compensate, canonical
<1>2. NewestDemands' /\ KnownByUpsert' /\ AdmittedIsShown'
  BY <1>1, DemandsFrame DEF Converging
<1>3. \A k \in Keys : (Last(k)' <=> Last(k)) /\ k.doc \in Docs
  BY <1>1, LastKept, KeyShape
<1>4. ASSUME NEW k \in Keys, NEW ok \in BOOLEAN, CallUpsert(k, ok)
      PROVE  CompletedIsApplied' /\ BatchApart' /\ CallsApplied'
  <2>1. /\ k \in todo /\ sent = {} /\ undo = None /\ undo' = None
        /\ todo' = todo \ {k} /\ sent' = {k} /\ outcome' = ok
        /\ index' \in {index, [index EXCEPT ![k.doc] = k.result]}
        /\ ok => index' = [index EXCEPT ![k.doc] = k.result]
    BY <1>4 DEF CallUpsert
  <2>2. \A d \in Docs : d # k.doc => index'[d] = index[d]
    BY <1>1, <2>1 DEF TypeOK
  <2>3. ok => index'[k.doc] = k.result
    BY <1>1, <1>3, <2>1 DEF TypeOK
  <2>4. CompletedIsApplied'
    <3> SUFFICES ASSUME NEW m \in Keys, Last(m), outbox[m].status = "completed"
                 PROVE  /\ index'[m.doc] = m.result
                        /\ undo' # m.doc
                        /\ \A j \in todo' \cup sent' : j.doc # m.doc
      BY <1>1, <1>3 DEF CompletedIsApplied
    <3>1. /\ index[m.doc] = m.result /\ undo # m.doc
          /\ \A j \in todo \cup sent : j.doc # m.doc
      BY <1>1 DEF Converging, CompletedIsApplied
    <3>2. m.doc # k.doc
      BY <2>1, <3>1
    <3> QED BY <1>3, <2>1, <2>2, <3>1, <3>2
  <2>5. BatchApart'
    BY <1>1, <2>1 DEF Converging, BatchApart
  <2>6. CallsApplied'
    BY <2>1, <2>3 DEF CallsApplied
  <2> QED BY <2>4, <2>5, <2>6
<1>5. ASSUME NEW ok \in BOOLEAN, CallDelete(ok)
      PROVE  CompletedIsApplied' /\ BatchApart' /\ CallsApplied'
  <2>1. PICK removed \in SUBSET {k.doc : k \in todo} :
          /\ ok => removed = {k.doc : k \in todo}
          /\ index' = [d \in Docs |-> IF d \in removed THEN None ELSE index[d]]
    BY <1>5 DEF CallDelete
  <2>2. /\ todo # {} /\ \A k \in todo : k.op # "upsert"
        /\ sent' = todo /\ todo' = {} /\ outcome' = ok /\ undo' = undo
    BY <1>5 DEF CallDelete
  <2>3. undo = None
    BY <1>1, <2>2 DEF Converging, BatchApart
  <2>4. CompletedIsApplied'
    <3> SUFFICES ASSUME NEW m \in Keys, Last(m), outbox[m].status = "completed"
                 PROVE  /\ index'[m.doc] = m.result
                        /\ undo' # m.doc
                        /\ \A j \in todo' \cup sent' : j.doc # m.doc
      BY <1>1, <1>3 DEF CompletedIsApplied
    <3>1. /\ index[m.doc] = m.result /\ undo # m.doc
          /\ \A j \in todo \cup sent : j.doc # m.doc
      BY <1>1 DEF Converging, CompletedIsApplied
    <3> QED BY <1>3, <2>1, <2>2, <3>1
  <2>5. BatchApart'
    BY <1>1, <2>2, <2>3 DEF Converging, BatchApart
  <2>6. CallsApplied'
    <3> SUFFICES ASSUME NEW k \in todo, ok PROVE index'[k.doc] = k.result
      BY <2>2 DEF CallsApplied
    <3>1. k \in Keys /\ k.op # "upsert"
      BY <1>1, <2>2 DEF TypeOK
    <3>2. k.result = None
      BY <3>1 DEF Keys
    <3> QED BY <1>3, <2>1, <3>1, <3>2
  <2> QED BY <2>4, <2>5, <2>6
<1>6. ASSUME Compensate
      PROVE  CompletedIsApplied' /\ BatchApart' /\ CallsApplied'
  <2>1. /\ undo # None /\ undo' = None
        /\ index' \in {index, [index EXCEPT ![undo] = None]}
        /\ UNCHANGED <<todo, sent, outcome>>
    BY <1>6 DEF Compensate
  <2>2. sent = {} /\ \A d \in Docs : d # undo => index'[d] = index[d]
    BY <1>1, <2>1 DEF Converging, BatchApart, TypeOK
  <2>3. CompletedIsApplied'
    <3> SUFFICES ASSUME NEW m \in Keys, Last(m), outbox[m].status = "completed"
                 PROVE  /\ index'[m.doc] = m.result
                        /\ undo' # m.doc
                        /\ \A j \in todo' \cup sent' : j.doc # m.doc
      BY <1>1, <1>3 DEF CompletedIsApplied
    <3>1. /\ index[m.doc] = m.result /\ undo # m.doc
          /\ \A j \in todo \cup sent : j.doc # m.doc
      BY <1>1 DEF Converging, CompletedIsApplied
    <3>2. undo' # m.doc
      BY <1>3, <2>1, OutboxAssumption
    <3> QED BY <1>3, <2>1, <2>2, <3>1, <3>2
  <2>4. BatchApart' /\ CallsApplied'
    BY <1>1, <2>1, <2>2 DEF Converging, BatchApart, CallsApplied
  <2> QED BY <2>3, <2>4
<1> QED BY <1>2, <1>4, <1>5, <1>6 DEF Converging

\* Registering a revision, reopening an admission and losing the worker leave the
\* table alone.
LEMMA QuietConverges ==
  ASSUME CInv,
         \/ \E r \in Revisions : Accept(r) \/ Reopen(r)
         \/ Crash
         \/ UNCHANGED vars
  PROVE  Converging'
<1>1. /\ TypeOK /\ Numbered /\ IInv /\ Converging
      /\ UNCHANGED <<rows, outbox, index, skipped>>
  BY DEF CInv, LInv, Order, Accept, Reopen, Crash, canonical, worker, vars
<1>2. /\ \A k \in Keys : (Last(k)' <=> Last(k))
      /\ \A d \in Docs : RowsOf(d)' = RowsOf(d)
  BY <1>1, LastKept
<1>3. KnownByUpsert'
  BY <1>1, <1>2 DEF Converging, KnownByUpsert
<1>4. CASE Crash \/ UNCHANGED vars
  <2>1. /\ UNCHANGED <<source, admitted, outcome>>
        /\ \/ todo' = {} /\ sent' = {} /\ undo' = None
           \/ UNCHANGED <<todo, sent, undo>>
    BY <1>4 DEF Crash, canonical, vars
  <2>2. NewestDemands' /\ AdmittedIsShown'
    BY <1>1, <2>1, DemandsFrame DEF Converging
  <2>3. BatchApart' /\ CallsApplied'
    BY <1>1, <2>1 DEF Converging, BatchApart, CallsApplied
  <2>4. \A k \in Keys : k.doc # None
    BY KeyShape, OutboxAssumption
  <2>5. CompletedIsApplied'
    BY <1>1, <1>2, <2>1, <2>4 DEF Converging, CompletedIsApplied
  <2> QED BY <1>3, <2>2, <2>3, <2>5 DEF Converging
<1>5. ASSUME NEW r \in Revisions, Accept(r) \/ Reopen(r) PROVE Converging'
  <2>1. UNCHANGED <<todo, sent, outcome, undo>>
    BY <1>5 DEF Accept, Reopen, worker
  <2>2. BatchApart' /\ CallsApplied' /\ CompletedIsApplied'
    BY <1>1, <1>2, <2>1 DEF Converging, BatchApart, CallsApplied, CompletedIsApplied
  <2>3. \A s \in Revisions : source'[s] = source[s] \/ (source[s] = "absent"
                                                         /\ source'[s] = "active")
    BY <1>1, <1>5 DEF Accept, Reopen, TypeOK
  <2>4. ASSUME NEW k \in Keys, Last(k), FenceHolds(k) PROVE FenceHolds(k)'
    <3>1. k.rev \in Revisions
      BY KeyShape
    <3>2. k.op = "delete_inactive" => source[k.rev] \in {"invalidated", "deleted"}
      BY <1>1, <2>4 DEF IInv, DeletesFollowInvalidation, Last, RowsOf
    <3> QED BY <2>3, <2>4, <3>1, <3>2 DEF FenceHolds
  <2>5. NewestDemands'
    BY <1>1, <1>2, <2>4 DEF Converging, NewestDemands
  <2>6. ASSUME NEW s \in Revisions, admitted'[s] # None
        PROVE  admitted'[s] = admitted[s]
    BY <1>1, <1>5, <2>6 DEF Accept, Reopen, TypeOK
  <2>7. AdmittedIsShown'
    BY <1>1, <2>3, <2>6 DEF Converging, AdmittedIsShown
  <2> QED BY <1>3, <2>2, <2>5, <2>7 DEF Converging
<1> QED BY <1>4, <1>5

\* Every step keeps convergence.
LEMMA ConvergingStep == CInv /\ [Next]_vars => Converging'
<1> SUFFICES ASSUME CInv, [Next]_vars PROVE Converging'
  OBVIOUS
<1>1. ASSUME NEW r \in Revisions, Replace(r) PROVE Converging'
  <2> DEFINE revs == {s \in Active : TurnOf[s] = TurnOf[r]}
  <2>1. PICK last \in revs : Invalidate(revs, last)
    BY <1>1 DEF Replace
  <2>2. /\ revs \in SUBSET Revisions
        /\ \A s \in revs : source[s] = "active"
    BY DEF Active
  <2>3. /\ source[r] = "absent"
        /\ source' = [s \in Revisions |-> IF s = r THEN "active"
                                          ELSE IF s \in revs THEN "invalidated" ELSE source[s]]
        /\ UNCHANGED <<admitted, index, todo, sent, outcome, undo>>
    BY <1>1 DEF Replace, worker
  <2> HIDE DEF revs
  <2>4. r \notin revs
    BY <2>2, <2>3
  <2>5. \A s \in revs : source'[s] \in {"invalidated", "deleted"}
    BY <2>2, <2>3, <2>4
  <2>6. \A s \in Revisions \ revs : \/ source'[s] = source[s]
                                    \/ (source[s] = "absent" /\ source'[s] = "active")
    BY <2>3
  <2> QED BY <2>1, <2>2, <2>3, <2>5, <2>6, InvalidateConverges
<1>2. ASSUME NEW turn, NEW lifecycle \in {"invalidated", "deleted"}, Rollback(turn, lifecycle)
      PROVE  Converging'
  <2>1. PICK revs \in SUBSET Revisions :
          /\ \E last \in LastOf(revs) : Invalidate(revs, last)
          /\ \A r \in revs : source[r] \in {"active", "invalidated"}
          /\ source' = [r \in Revisions |-> IF r \in revs THEN lifecycle ELSE source[r]]
    BY <1>2 DEF Rollback
  <2>2. PICK last \in revs : Invalidate(revs, last)
    BY <2>1 DEF LastOf
  <2>3. UNCHANGED <<admitted, index, todo, sent, outcome, undo>>
    BY <1>2 DEF Rollback, worker
  <2>4. \A r \in revs : source'[r] \in {"invalidated", "deleted"}
    BY <2>1
  <2>5. \A r \in Revisions \ revs : source'[r] = source[r]
    BY <2>1
  <2> QED BY <2>1, <2>2, <2>3, <2>4, <2>5, InvalidateConverges
<1> QED BY <1>1, <1>2, QuietConverges, RefreshConverges, AdmitConverges, ClaimConverges,
           ExpiryConverges, CompleteConverges, FailConverges, CallsConverge DEF Next

\* The newest row of a settled document is completed, and the others are finished.
LEMMA SettledIsCompleted ==
  ASSUME CInv, NEW d \in Docs, Settled(d), d \notin skipped
  PROVE  \/ RowsOf(d) = {}
         \/ \E k \in Keys : /\ k.doc = d /\ Last(k)
                            /\ outbox[k].status = "completed" /\ rows[d] = k.result
<1>1. TypeOK /\ Numbered /\ Converging
  BY DEF CInv, LInv, Order
<1>2. CASE RowsOf(d) # {}
  <2>1. PICK k \in RowsOf(d) : outbox[k].id = Cardinality(RowsOf(d))
    BY <1>1, <1>2 DEF Numbered
  <2>2. k \in Keys /\ k.doc = d /\ Last(k) /\ outbox[k].status # "absent"
    BY <2>1 DEF RowsOf, Last
  <2>3. rows[d] = k.result /\ outbox[k].status # "stale_rejected"
    BY <1>1, <2>2 DEF Converging, NewestDemands
  <2>4. ~Unfinished(k) /\ outbox[k].status # "permanent"
    BY <2>1 DEF Settled
  <2>5. outbox[k].status \in Statuses
    BY <1>1, <2>2 DEF TypeOK, Row
  <2>6. outbox[k].status = "completed"
    BY <2>2, <2>3, <2>4, <2>5 DEF Statuses, Unfinished
  <2> QED BY <2>2, <2>3, <2>6
<1> QED BY <1>2

\* The invariant gives convergence.
LEMMA CInvConverges == CInv => IndexConverges
<1> SUFFICES ASSUME CInv, NEW d \in Docs, Settled(d), d \notin skipped
             PROVE  index[d] = rows[d]
  BY DEF IndexConverges
<1>1. CASE RowsOf(d) = {}
  BY <1>1 DEF CInv, IInv, IndexedIsKnown, Converging, KnownByUpsert
<1>2. CASE \E k \in Keys : /\ k.doc = d /\ Last(k)
                           /\ outbox[k].status = "completed" /\ rows[d] = k.result
  BY <1>2 DEF CInv, Converging, CompletedIsApplied
<1> QED BY <1>1, <1>2, SettledIsCompleted

\* The invariant holds at first, and every step keeps it.
LEMMA CInvAlways == Spec => []CInv
<1>1. Init => CInv
  <2> SUFFICES ASSUME Init PROVE CInv
    OBVIOUS
  <2>1. \A k \in Keys : ~Last(k)
    BY DEF Init, NoRow, Last, RowsOf
  <2>2. Converging
    BY <2>1 DEF Init, NoRow, RowsOf, Converging, BatchApart, CallsApplied,
                CompletedIsApplied, NewestDemands, KnownByUpsert, AdmittedIsShown
  <2> QED BY <2>2, GuardInit, OrderInit DEF CInv
<1>2. CInv /\ [Next]_vars => CInv'
  BY GuardStep, OrderStep, TypeStep, ConvergingStep DEF CInv, LInv
<1> QED BY <1>1, <1>2, PTL DEF Spec

\* Chroma converges to MariaDB, for every number of revisions, documents and results and
\* whatever calls failed, leases ran out or processes crashed: when the rows of a
\* document have all been worked off, Chroma holds exactly what its canonical row says,
\* unless the document's last change queued no row: it met a used operation key, or
\* made kept evidence private and no refresh has reconciled it.
THEOREM Converges == Spec => []IndexConverges
BY CInvAlways, CInvConverges, PTL

-----------------------------------------------------------------------------
(* The outbox implements the mirror.                                       *)

\* A vector call touches no settled document.
LEMMA CallsTouchOwed ==
  ASSUME CInv, NEW d \in Docs, d \notin Owed,
         \/ \E k \in Keys, ok \in BOOLEAN : CallUpsert(k, ok)
         \/ \E ok \in BOOLEAN : CallDelete(ok)
         \/ Compensate
  PROVE  index'[d] = index[d]
<1>1. /\ TypeOK /\ BatchSound /\ IndexedIsKnown /\ CompletedIsApplied
      /\ Settled(d) /\ d \notin skipped
  BY DEF CInv, IInv, LInv, Converging, Owed
<1>2. \/ RowsOf(d) = {}
      \/ undo # d /\ \A j \in todo \cup sent : j.doc # d
  BY <1>1, SettledIsCompleted DEF CompletedIsApplied
<1>3. \A j \in todo : j.doc # d
  BY <1>1, <1>2 DEF BatchSound, RowsOf, TypeOK
<1>4. undo = d => index[d] = None
  BY <1>1, <1>2 DEF IndexedIsKnown
<1>5. ASSUME NEW k \in Keys, NEW ok \in BOOLEAN, CallUpsert(k, ok) PROVE index'[d] = index[d]
  <2>1. k.doc # d /\ index' \in {index, [index EXCEPT ![k.doc] = k.result]}
    BY <1>3, <1>5 DEF CallUpsert
  <2> QED BY <1>1, <2>1 DEF TypeOK
<1>6. ASSUME NEW ok \in BOOLEAN, CallDelete(ok) PROVE index'[d] = index[d]
  <2>1. PICK removed \in SUBSET {k.doc : k \in todo} :
          index' = [e \in Docs |-> IF e \in removed THEN None ELSE index[e]]
    BY <1>6 DEF CallDelete
  <2> QED BY <1>3, <2>1
<1>7. ASSUME Compensate PROVE index'[d] = index[d]
  <2>1. index' \in {index, [index EXCEPT ![undo] = None]}
    BY <1>7 DEF Compensate
  <2> QED BY <1>1, <1>4, <2>1 DEF TypeOK
<1> QED BY <1>5, <1>6, <1>7

\* A step that leaves Chroma alone is a transaction of the mirror.
LEMMA TransactStep ==
  ASSUME TypeOK', IndexConverges', UNCHANGED index
  PROVE  Mirror!Transact
<1>1. rows' \in [Docs -> Results \cup {None}]
  BY DEF TypeOK
<1>2. \A d \in Docs \ Owed' : index[d] = rows'[d]
  BY DEF IndexConverges, Owed
<1> QED BY <1>1, <1>2 DEF Mirror!Transact, Owed

\* A vector call is a call of the mirror.
LEMMA CallStep ==
  ASSUME CInv, TypeOK',
         \/ \E k \in Keys, ok \in BOOLEAN : CallUpsert(k, ok)
         \/ \E ok \in BOOLEAN : CallDelete(ok)
         \/ Compensate
  PROVE  Mirror!Call
<1>1. index' \in [Docs -> Results \cup {None}]
  BY DEF TypeOK
<1>2. \A d \in Docs \ Owed : index'[d] = index[d]
  BY CallsTouchOwed
<1>3. UNCHANGED <<rows, outbox, skipped>>
  BY DEF CallUpsert, CallDelete, Compensate, canonical
<1>4. Owed' = Owed
  BY <1>3 DEF Owed, Settled, RowsOf, Unfinished
<1> QED BY <1>1, <1>2, <1>3, <1>4 DEF Mirror!Call

\* The outbox implements the abstract mirror, for every set of revisions, documents and
\* results: each of its steps is a transaction that settles only what Chroma already
\* shows, or a call that touches only what is still owed.
THEOREM OutboxImplementsMirror == Spec => ImplementsMirror
<1>1. Init => Mirror!Init
  <2> SUFFICES ASSUME Init PROVE Mirror!Init
    OBVIOUS
  <2>1. Owed = {}
    BY DEF Init, Owed, Settled, RowsOf, NoRow
  <2> QED BY <2>1 DEF Init, Mirror!Init
<1>2. CInv /\ TypeOK' /\ IndexConverges' /\ [Next]_vars => [Mirror!Next]_(Mirror!vars)
  <2> SUFFICES ASSUME CInv, TypeOK', IndexConverges', [Next]_vars PROVE Mirror!Next
    OBVIOUS
  <2>1. ASSUME NEW r \in Revisions, NEW hidden,
               \/ \E res \in Results, kept \in SUBSET Docs : Admit(r, res, hidden, kept)
               \/ \E reconcile \in BOOLEAN : Refresh(r, hidden, reconcile)
        PROVE  UNCHANGED index
    BY <2>1 DEF Admit, Refresh
  <2>2. \/ UNCHANGED index
        \/ \E k \in Keys, ok \in BOOLEAN : CallUpsert(k, ok)
        \/ \E ok \in BOOLEAN : CallDelete(ok)
        \/ Compensate
    BY <2>1 DEF Next, vars, Accept, Replace, Reopen, Rollback, Claim,
                LeaseExpires, Complete, Fail, Crash
  <2> QED BY <2>2, TransactStep, CallStep DEF Mirror!Next
<1> QED BY <1>1, <1>2, CInvAlways, OutboxTypeCorrect, Converges, PTL
        DEF Spec, Mirror!Spec, ImplementsMirror

================================================================================
