---------------------------- MODULE SourceAcceptance ----------------------------
(***************************************************************************)
(* The source acceptance ledger (httpapi/complete_turn_source_acceptance)  *)
(* with the requests that use it: /complete-turn from the acceptance of an *)
(* observed final answer to its raw rows, its source revision and the      *)
(* artifacts derived from it, and the rollback of a turn.                  *)
(*                                                                         *)
(* One session and the turn at its tail.  Its revisions are the answers    *)
(* the host observed for the same user message (rerolls, edits), each with *)
(* a text of its own; a revision is the time of its observation, and a     *)
(* request that is sent again carries the same observation.  Requests of   *)
(* one revision may overlap: the idempotency ledger (CompleteTurnLedger)   *)
(* joins only those that carry the same key.                               *)
(***************************************************************************)
EXTENDS Integers, Sequences

CONSTANTS
    Requests,       \* /complete-turn requests
    NoRequest,
    Revisions,      \* observed answers, by ObservedAtMS
    RollbackTimes,  \* host_observed_at_ms of rollback requests, 0 for none
    Outages,        \* sets of calls to the store that fail in one acceptance
    Budgets         \* bounds: submissions, crashes, rollbacks, store failures

Bounded == {"submit", "crash", "rollback", "store"}

\* The reads of a load, the looks at the raw rows of the session and of the
\* turn, and the audit rows of an acceptance.
LoadReads == {"transitions", "invalidations", "failures", "sources"}
Reads == LoadReads \cup {"tail", "turn"}
Saves == {"superseded", "accepted"}

ASSUME AcceptanceAssumption ==
    /\ NoRequest \notin Requests
    /\ Revisions \subseteq Nat \ {0}
    /\ RollbackTimes \subseteq Nat
    /\ Outages \subseteq SUBSET (Reads \cup Saves)
    /\ Budgets \subseteq [Bounded -> Nat]

Lifecycles == {"none", "active_final", "superseded", "deleted"}
States == [rev : Revisions \cup {0}, life : Lifecycles,
           repl : {"", "pending", "complete"}, obs : Nat]
NoState == [rev |-> 0, life |-> "none", repl |-> "", obs |-> 0]
Failures == [rev : Revisions, terminal : BOOLEAN, prev : States]

VARIABLES
    current,        \* ledger.current of the turn
    fence,          \* ledger.invalidations of the session: ObservedAtMS
    terminal,       \* ledger.replacementFailures, the terminal ones
    worker,         \* ledger.workers of the turn: the request that entered it
    transitions,    \* audit log: acceptance transitions, the newest first
    failures,       \* audit log: failed replacements, the newest first
    savedFence,     \* audit log: the latest invalidation
    rows,           \* revisions with a row in memory_source_revisions
    active,         \* the revision whose row is active, 0 for none
    raw,            \* chat_logs of the turn, at most one row per role
    derived,        \* revisions with derived rows outside the admission fence
    req,            \* the requests
    rb,             \* the rollback request
    budget,         \* what is left of the bounds
    closed          \* history: revisions whose discard has been answered and
                    \* is in the audit log

ledger == <<current, fence, terminal, worker>>
audit == <<transitions, failures, savedFence>>
canonical == <<rows, active, raw, derived>>
vars == <<current, fence, terminal, worker, transitions, failures, savedFence,
          rows, active, raw, derived, req, rb, budget, closed>>

Steps == {"idle", "check", "replace", "complete", "saveComplete", "fail",
          "saveFailure", "preflight", "enter", "verify", "saveUser",
          "saveAssistant", "register", "critic", "derive", "release", "done"}

RequestStates ==
    [pc : Steps,
     rev : Revisions \cup {0},  \* decision.Revision
     prev : States,             \* decision.previousState; the state to save
     terminal : BOOLEAN,        \* the replacement failed for good
     registered : BOOLEAN,      \* it has a processing context
     cancelled : BOOLEAN,       \* its context is cancelled
     user : BOOLEAN,            \* rawUserAlreadyPersisted, then UserDurable
     assistant : BOOLEAN,       \* rawAssistantAlreadyPersisted, then durable
     partial : BOOLEAN,         \* history: accepted without having read all
                                \* discards back
     shared : BOOLEAN]          \* history: registered at the same time as
                                \* another request of the revision
Idle == [pc |-> "idle", rev |-> 0, prev |-> NoState, terminal |-> FALSE,
         registered |-> FALSE, cancelled |-> FALSE, user |-> FALSE,
         assistant |-> FALSE, partial |-> FALSE, shared |-> FALSE]
Done == [Idle EXCEPT !.pc = "done"]

NoRollback == [pc |-> "idle", host |-> 0, wait |-> NoRequest, obs |-> 0]
NoRows == [user |-> FALSE, assistant |-> 0]
Pair(r) == [user |-> TRUE, assistant |-> r]

Init ==
    /\ current = NoState
    /\ fence = 0
    /\ terminal = {}
    /\ worker = NoRequest
    /\ transitions = <<>>
    /\ failures = <<>>
    /\ savedFence = 0
    /\ rows = {}
    /\ active = 0
    /\ raw = NoRows
    /\ derived = {}
    /\ req = [q \in Requests |-> Idle]
    /\ rb = NoRollback
    /\ budget \in Budgets
    /\ closed = {}

Spend(ds) ==
    /\ \A d \in ds : budget[d] > 0
    /\ budget' = [d \in Bounded |-> IF d \in ds THEN budget[d] - 1 ELSE budget[d]]

\* Calls of one step fail; their errors are ignored.
Losing(lost) == IF lost = {} THEN {} ELSE {"store"}

At(q, step) == req[q].pc = step
Go(q, step) == req' = [req EXCEPT ![q].pc = step]
End(q) == req' = [req EXCEPT ![q] = Done]
Running(q) == req[q].pc \notin {"idle", "done"}

-----------------------------------------------------------------------------
(* loadDurableStateLocked *)

\* One transition read back: it wins when it is newer, or completes or
\* revives the state of the same time.  One without a revision is passed over.
Replayed(state, event) ==
    IF /\ event.rev # 0
       /\ \/ event.obs > state.obs
          \/ /\ event.obs = state.obs
             /\ \/ event.repl = "complete" /\ state.repl # "complete"
                \/ event.life = "active_final" /\ state.life # "active_final"
    THEN event
    ELSE state

\* A failure read back undoes the replacement it is about, if that is pending.
Reverted(state, failure) ==
    IF state.rev = failure.rev /\ state.repl = "pending"
    THEN failure.prev
    ELSE state

Accepted(r, repl) == [rev |-> r, life |-> "active_final", repl |-> repl, obs |-> r]

\* The loops over the transitions and over the failures, the newest first.
ReplayedFrom(events, state) ==
    LET pass[n \in 0..Len(events)] ==
            IF n = 0 THEN state ELSE Replayed(pass[n-1], events[n])
    IN pass[Len(events)]

RevertedBy(events, state) ==
    LET pass[n \in 0..Len(events)] ==
            IF n = 0 THEN state ELSE Reverted(pass[n-1], events[n])
    IN pass[Len(events)]

\* What a read brings; one that fails is passed over.
Read(log, call, lost) == IF call \in lost THEN <<>> ELSE log

\* The ledger's state of the turn after the audit log and the canonical source
\* rows have been read; an active row overrides what the log says.
Loaded(lost) ==
    IF active # 0 /\ "sources" \notin lost
    THEN Accepted(active, "")
    ELSE RevertedBy(Read(failures, "failures", lost),
                    ReplayedFrom(Read(transitions, "transitions", lost), current))

\* Mutant: the saved invalidations are not read back.
LoadedFenceUnsaved(lost) == fence

LoadedFence(lost) ==
    IF savedFence > fence /\ "invalidations" \notin lost THEN savedFence ELSE fence

LoadedTerminal(lost) ==
    LET log == Read(failures, "failures", lost)
    IN  terminal \cup {log[i].rev : i \in {j \in DOMAIN log : log[j].terminal}}

-----------------------------------------------------------------------------
(* beginCompleteTurnSourceAcceptance *)

\* The turn is found again by its user message: the raw pair of an answer the
\* ledger does not know as active.
LegacyTurn(previous, lost) ==
    /\ previous.life # "active_final"
    /\ "turn" \notin lost
    /\ raw.user /\ raw.assistant # 0

\* Rows of the turn that neither the ledger nor the user message explain: the
\* observation is appended as the next turn, which is not this module's.
Appended(previous, lost) ==
    /\ previous.life # "active_final"
    /\ "tail" \notin lost
    /\ raw # NoRows
    /\ ~LegacyTurn(previous, lost)

Repeated(previous, r) == previous.rev = r /\ previous.life = "active_final"

Rejected(previous, r, lost) ==
    \/ r \in LoadedTerminal(lost)
    \/ r <= LoadedFence(lost)
    \/ /\ previous.life = "active_final"
       /\ previous.rev # r
       /\ r <= previous.obs

\* A request arrives with the observation of r; the calls in lost fail.
Submit(q, lost) ==
    /\ At(q, "idle")
    /\ Spend({"submit"} \cup Losing(lost))
    /\ ~Appended(Loaded(lost), lost)
    /\ fence' = LoadedFence(lost)
    /\ terminal' = LoadedTerminal(lost)
    /\ UNCHANGED <<failures, savedFence, canonical, rb, closed>>

BeginRejected(q, r, lost) ==
    /\ Submit(q, lost)
    /\ lost \subseteq Reads
    /\ Rejected(Loaded(lost), r, lost)
    /\ current' = Loaded(lost)
    /\ End(q)
    /\ UNCHANGED <<worker, transitions>>

\* The request as it starts.
Started(r, step, previous, lost) ==
    [Idle EXCEPT !.pc = step, !.rev = r,
                 !.prev = IF step = "check" THEN previous ELSE NoState,
                 !.partial = lost \cap {"invalidations", "failures"} # {}]

\* The same observation again; a replacement that is still pending goes on.
BeginRepeated(q, r, lost) ==
    /\ Submit(q, lost)
    /\ lost \subseteq Reads
    /\ ~Rejected(Loaded(lost), r, lost)
    /\ Repeated(Loaded(lost), r)
    /\ current' = Loaded(lost)
    /\ LET step == IF Loaded(lost).repl = "pending" THEN "check" ELSE "preflight"
       IN  req' = [req EXCEPT ![q] = Started(r, step, Loaded(lost), lost)]
    /\ UNCHANGED <<worker, transitions>>

\* The prior state as the log keeps it.
Superseded(previous, r) ==
    [previous EXCEPT !.life = "superseded",
                     !.obs = IF r > @ THEN r - 1 ELSE @]

\* The entry of the turn is another revision's: its context is cancelled.
CancelOther(r) ==
    [q \in Requests |->
        IF q = worker /\ req[q].rev # r THEN [req[q] EXCEPT !.cancelled = TRUE]
                                        ELSE req[q]]

EntryOf(r) == worker # NoRequest /\ req[worker].rev = r

\* A new final answer.  The request waits for the request it has cancelled,
\* but goes on after five seconds whether that has ended or not.
BeginAccepted(q, r, lost) ==
    /\ Submit(q, lost)
    /\ ~Rejected(Loaded(lost), r, lost)
    /\ ~Repeated(Loaded(lost), r)
    /\ LET previous == Loaded(lost)
           replace == \/ previous.rev \notin {0, r}
                      \/ LegacyTurn(previous, lost) /\ raw.assistant # r
           state == Accepted(r, IF replace THEN "pending" ELSE "")
           prior == IF replace THEN <<Superseded(previous, r)>> ELSE <<>>
       IN  /\ current' = state
           /\ transitions' = Read(<<state>>, "accepted", lost)
                                 \o Read(prior, "superseded", lost) \o transitions
           /\ worker' = IF EntryOf(r) THEN worker ELSE NoRequest
           /\ req' = [CancelOther(r) EXCEPT ![q] =
                  Started(r, IF replace THEN "check" ELSE "preflight", previous, lost)]

-----------------------------------------------------------------------------
(* The replacement of the turn *)

StillCurrent(q) == current.rev = req[q].rev /\ current.life = "active_final"

CheckBeforeReplace(q) ==
    /\ At(q, "check")
    /\ IF StillCurrent(q) THEN Go(q, "replace") ELSE End(q)
    /\ UNCHANGED <<ledger, audit, canonical, rb, budget, closed>>

\* Mutant: the transaction leaves out the new revision's own row.
CommitWithoutRow(r) ==
    /\ active' = r
    /\ raw' = Pair(r)
    /\ derived' = {}
    /\ UNCHANGED rows

\* The transaction: every other revision of the turn is superseded, the raw
\* pair and the derived rows are replaced.
CommitReplacement(r) ==
    /\ rows' = rows \cup {r}
    /\ active' = r
    /\ raw' = Pair(r)
    /\ derived' = {}

Replace(q) ==
    /\ At(q, "replace")
    /\ req[q].rev \notin rows
    /\ CommitReplacement(req[q].rev)
    /\ Go(q, "complete")
    /\ UNCHANGED <<ledger, audit, rb, budget, closed>>

\* Nothing is committed: a source row of the revision exists (terminal), or
\* the database refuses, for now or for good.
ReplaceFails(q) ==
    /\ At(q, "replace")
    /\ \E final \in BOOLEAN :
           /\ IF req[q].rev \in rows THEN final /\ UNCHANGED budget ELSE Spend({"store"})
           /\ req' = [req EXCEPT ![q].pc = "fail", ![q].terminal = final]
    /\ UNCHANGED <<ledger, audit, canonical, rb, closed>>

\* The commit was sent and its outcome is unknown; the request is answered.
ReplaceUnknown(q) ==
    /\ At(q, "replace")
    /\ req[q].rev \notin rows
    /\ Spend({"store"})
    /\ CommitReplacement(req[q].rev) \/ UNCHANGED canonical
    /\ End(q)
    /\ UNCHANGED <<ledger, audit, rb, closed>>

\* After the replacement the request goes on with both raw rows, or is
\* answered as partial when one of the cleanups after the commit fails.
AfterReplacement(q) ==
    \/ req' = [req EXCEPT ![q].pc = "enter", ![q].prev = NoState,
                          ![q].user = TRUE, ![q].assistant = TRUE]
    \/ End(q)

\* completeTurnSourceReplacementCompleted, under the lock and its audit row.
ReplacementCompleted(q) ==
    /\ At(q, "complete")
    /\ \/ /\ StillCurrent(q)
          /\ current' = [current EXCEPT !.repl = "complete"]
          /\ req' = [req EXCEPT ![q].pc = "saveComplete", ![q].prev = current']
       \/ /\ ~StillCurrent(q)
          /\ UNCHANGED current
          /\ AfterReplacement(q)
    /\ UNCHANGED <<fence, terminal, worker, audit, canonical, rb, budget, closed>>

SaveCompleted(q) ==
    /\ At(q, "saveComplete")
    /\ \/ transitions' = <<req[q].prev>> \o transitions /\ UNCHANGED budget
       \/ UNCHANGED transitions /\ Spend({"store"})
    /\ AfterReplacement(q)
    /\ UNCHANGED <<ledger, failures, savedFence, canonical, rb, closed>>

\* completeTurnSourceReplacementFailed: the previous state is active again.
ReplacementFailed(q) ==
    /\ At(q, "fail")
    /\ current' = IF current.rev = req[q].rev /\ current.repl = "pending"
                  THEN req[q].prev
                  ELSE current
    /\ terminal' = IF req[q].terminal THEN terminal \cup {req[q].rev} ELSE terminal
    /\ Go(q, "saveFailure")
    /\ UNCHANGED <<fence, worker, audit, canonical, rb, budget, closed>>

SaveFailure(q) ==
    /\ At(q, "saveFailure")
    /\ LET r == req[q].rev IN
       \/ /\ failures' = <<[rev |-> r, terminal |-> req[q].terminal, prev |-> req[q].prev]>>
                             \o failures
          /\ closed' = IF req[q].terminal THEN closed \cup {r} ELSE closed
          /\ UNCHANGED budget
       \/ Spend({"store"}) /\ UNCHANGED <<failures, closed>>
    /\ End(q)
    /\ UNCHANGED <<ledger, transitions, savedFence, canonical, rb>>

-----------------------------------------------------------------------------
(* The turn of a request that replaces nothing, and every turn's rest *)

\* What the request finds of the turn: a conflicting answer or its own pair
\* with derived rows end it; when the look fails it goes on as if nothing
\* were there.
Preflight(q) ==
    /\ At(q, "preflight")
    /\ LET conflict == raw.assistant \notin {0, req[q].rev}
           found == [req[q] EXCEPT !.pc = "enter", !.user = raw.user,
                                   !.assistant = raw.assistant # 0]
       IN  \/ ~conflict /\ req' = [req EXCEPT ![q] = found] /\ UNCHANGED budget
           \/ (conflict \/ raw = Pair(req[q].rev)) /\ End(q) /\ UNCHANGED budget
           \/ Spend({"store"}) /\ Go(q, "enter")
    /\ UNCHANGED <<ledger, audit, canonical, rb, closed>>

\* The request is answered early: the session is locked by a migration, the
\* turn is out of character or lacks its user input.
Leave(q) ==
    /\ req[q].pc \in {"check", "preflight", "enter"}
    /\ End(q)
    /\ UNCHANGED <<ledger, audit, canonical, rb, budget, closed>>

\* Registered requests of the same revision.
Peers(q) == {p \in Requests \ {q} : req[p].registered /\ req[p].rev = req[q].rev}

\* completeTurnSourceAcceptanceProcessingContext: the context of another
\* revision is cancelled, that of the same revision only loses its entry.
ProcessingContext(q) ==
    /\ At(q, "enter")
    /\ \/ /\ StillCurrent(q)
          /\ worker' = q
          /\ req' = [p \in Requests |->
                 IF p = q THEN [req[q] EXCEPT !.pc = "verify", !.registered = TRUE,
                                              !.shared = Peers(q) # {}]
                 ELSE IF p \in Peers(q) THEN [req[p] EXCEPT !.shared = TRUE]
                 ELSE CancelOther(req[q].rev)[p]]
       \/ /\ ~StillCurrent(q)
          /\ UNCHANGED worker
          /\ req' = [req EXCEPT ![q].pc = "verify", ![q].cancelled = TRUE]
    /\ UNCHANGED <<current, fence, terminal, audit, canonical, rb, budget, closed>>

\* Still current before the rows are written; a migration lock ends it too.
CheckBeforePersistence(q) ==
    /\ At(q, "verify")
    /\ (StillCurrent(q) /\ Go(q, "saveUser")) \/ Go(q, "release")
    /\ UNCHANGED <<ledger, audit, canonical, rb, budget, closed>>

\* SaveChatLog, an insert that leaves a row of the role as it is, and a look
\* at the row: it succeeds when the row has the content.  With a cancelled
\* context nothing is written; when the database fails the row may be there.
\* Every error is noted and the request goes on (persistCompleteTurnRaw).
Fails(q, saved) ==
    \/ req[q].cancelled /\ UNCHANGED <<raw, budget>>
    \/ ~req[q].cancelled /\ Spend({"store"}) /\ (raw' = saved \/ UNCHANGED raw)

SaveUser(q) ==
    /\ At(q, "saveUser")
    /\ LET saved == [raw EXCEPT !.user = TRUE] IN
       \/ /\ ~req[q].user /\ ~req[q].cancelled
          /\ raw' = saved
          /\ req' = [req EXCEPT ![q].pc = "saveAssistant", ![q].user = TRUE]
          /\ UNCHANGED budget
       \/ ~req[q].user /\ Fails(q, saved) /\ Go(q, "saveAssistant")
       \/ req[q].user /\ Go(q, "saveAssistant") /\ UNCHANGED <<raw, budget>>
    /\ UNCHANGED <<ledger, audit, rows, active, derived, rb, closed>>

SaveAssistant(q) ==
    /\ At(q, "saveAssistant")
    /\ LET saved == IF raw.assistant = 0 THEN [raw EXCEPT !.assistant = req[q].rev] ELSE raw
       IN
       \/ /\ ~req[q].assistant /\ ~req[q].cancelled
          /\ raw' = saved
          /\ req' = [req EXCEPT ![q].pc = "register",
                                ![q].assistant = (saved.assistant = req[q].rev)]
          /\ UNCHANGED budget
       \/ ~req[q].assistant /\ Fails(q, saved) /\ Go(q, "register")
       \/ req[q].assistant /\ Go(q, "register") /\ UNCHANGED <<raw, budget>>
    /\ UNCHANGED <<ledger, audit, rows, active, derived, rb, closed>>

\* Mutant: the raw rows are not compared with the answer.
RegistrableUnchecked(r) ==
    active = r \/ (active = 0 /\ r \notin rows)

\* RegisterAcceptedSourceRevision commits when the turn's raw rows are exactly
\* this answer and no other revision is active or was registered under the name.
Registrable(r) ==
    /\ raw = Pair(r)
    /\ active = r \/ (active = 0 /\ r \notin rows)

\* Without durable raw rows and a source row the Critic is skipped, and the
\* request goes on; a failing commit may have inserted the row all the same.
Register(q) ==
    /\ At(q, "register")
    /\ LET r == req[q].rev
           able == /\ req[q].user /\ req[q].assistant /\ ~req[q].cancelled
                   /\ Registrable(r)
           inserted == rows' = rows \cup {r} /\ active' = r
       IN  \/ able /\ inserted /\ UNCHANGED budget
           \/ /\ able /\ Spend({"store"})
              /\ inserted \/ UNCHANGED <<rows, active>>
           \/ ~able /\ UNCHANGED <<rows, active, budget>>
    /\ Go(q, "critic")
    /\ UNCHANGED <<ledger, audit, raw, derived, rb, closed>>

\* The Critic answers, fails or is skipped; the revision is looked up once more.
CheckAfterCritic(q) ==
    /\ At(q, "critic")
    /\ (StillCurrent(q) /\ Go(q, "derive")) \/ Go(q, "release")
    /\ UNCHANGED <<ledger, audit, canonical, rb, budget, closed>>

\* Rows (effective input, feedback, derived states) that only the context and
\* the lookup above keep from a turn that is gone; the memories themselves pass the admission check (VectorOutbox).
Derive(q) ==
    /\ At(q, "derive")
    /\ derived' = IF req[q].cancelled THEN derived ELSE derived \cup {req[q].rev}
    /\ Go(q, "release")
    /\ UNCHANGED <<ledger, audit, rows, active, raw, rb, budget, closed>>

\* Mutant: the entry of the turn is dropped whoever it belongs to.
ReleaseAny(q) ==
    /\ At(q, "release")
    /\ worker' = IF req[q].registered THEN NoRequest ELSE worker
    /\ rb' = IF req[q].registered /\ rb.wait = q THEN [rb EXCEPT !.wait = NoRequest] ELSE rb
    /\ End(q)
    /\ UNCHANGED <<current, fence, terminal, audit, canonical, budget, closed>>

\* releaseSourceAcceptanceWorker: the entry of the turn is dropped when it is
\* of the same revision, be it that of another request.
Release(q) ==
    /\ At(q, "release")
    /\ worker' = IF req[q].registered /\ EntryOf(req[q].rev) THEN NoRequest ELSE worker
    /\ rb' = IF req[q].registered /\ rb.wait = q THEN [rb EXCEPT !.wait = NoRequest] ELSE rb
    /\ End(q)
    /\ UNCHANGED <<current, fence, terminal, audit, canonical, budget, closed>>

-----------------------------------------------------------------------------
(* handleRollback, with the turn of this module as its first *)

\* cancelCompleteTurnSourceWorkers
RollbackCancels ==
    /\ rb.pc = "idle"
    /\ Spend({"rollback"})
    /\ \E host \in RollbackTimes :
           LET entry == IF current.rev # 0 THEN worker ELSE NoRequest
           IN  /\ rb' = [pc |-> "drain", host |-> host, wait |-> entry, obs |-> 0]
               /\ req' = [q \in Requests |->
                      IF q = entry THEN [req[q] EXCEPT !.cancelled = TRUE] ELSE req[q]]
    /\ UNCHANGED <<ledger, audit, canonical, closed>>

\* A worker that does not stop within five seconds interrupts the rollback.
RollbackInterrupted ==
    /\ rb.pc = "drain"
    /\ rb.wait # NoRequest
    /\ rb' = NoRollback
    /\ UNCHANGED <<ledger, audit, canonical, req, budget, closed>>

TailDeleted ==
    /\ active' = 0
    /\ raw' = NoRows
    /\ derived' = {}
    /\ UNCHANGED rows

\* RollbackCanonicalTail, one transaction.
RollbackCanonicalTail ==
    /\ rb.pc = "drain"
    /\ rb.wait = NoRequest
    /\ TailDeleted
    /\ rb' = [rb EXCEPT !.pc = "invalidate"]
    /\ UNCHANGED <<ledger, audit, req, budget, closed>>

\* The transaction fails and the rollback is answered as failed; when it was
\* the commit that failed, the rows may be deleted all the same.
RollbackFails ==
    /\ rb.pc = "drain"
    /\ rb.wait = NoRequest
    /\ Spend({"store"})
    /\ TailDeleted \/ UNCHANGED canonical
    /\ rb' = NoRollback
    /\ UNCHANGED <<ledger, audit, req, closed>>

\* invalidateCompleteTurnSourceAcceptances, under the lock; the reads in lost
\* fail.
Invalidate(lost) ==
    /\ rb.pc = "invalidate"
    /\ lost \subseteq LoadReads
    /\ Spend(Losing(lost))
    /\ terminal' = LoadedTerminal(lost)
    /\ LET state == Loaded(lost)
           obs == IF rb.host > 0 THEN rb.host ELSE state.obs + 1
       IN  \/ /\ state.life # "active_final" /\ rb.host = 0
              /\ current' = state
              /\ fence' = LoadedFence(lost)
              /\ rb' = NoRollback
              /\ UNCHANGED <<worker, req>>
           \/ /\ state.life = "active_final" \/ rb.host > 0
              /\ fence' = obs
              /\ current' = IF state.rev = 0 THEN state ELSE [state EXCEPT !.life = "deleted"]
              /\ worker' = IF state.rev = 0 THEN worker ELSE NoRequest
              /\ req' = IF state.rev = 0 THEN req ELSE CancelOther(0)
              /\ rb' = [rb EXCEPT !.pc = "save", !.obs = obs]
    /\ UNCHANGED <<audit, canonical, closed>>

\* The invalidation is saved, or its row is lost, and the rollback is answered.
SaveInvalidation ==
    /\ rb.pc = "save"
    /\ \/ /\ savedFence' = IF rb.obs > savedFence THEN rb.obs ELSE savedFence
          /\ closed' = closed \cup {r \in Revisions : r <= rb.obs}
          /\ UNCHANGED budget
       \/ Spend({"store"}) /\ UNCHANGED <<savedFence, closed>>
    /\ rb' = NoRollback
    /\ UNCHANGED <<ledger, transitions, failures, canonical, req>>

-----------------------------------------------------------------------------

\* The process ends; the audit log and the canonical rows remain.
Crash ==
    /\ Spend({"crash"})
    /\ current' = NoState
    /\ fence' = 0
    /\ terminal' = {}
    /\ worker' = NoRequest
    /\ req' = [q \in Requests |-> IF At(q, "idle") THEN Idle ELSE Done]
    /\ rb' = NoRollback
    /\ UNCHANGED <<audit, canonical, closed>>

Begin(q) ==
    \E r \in Revisions, lost \in Outages \cup {{}} :
        BeginRejected(q, r, lost) \/ BeginRepeated(q, r, lost) \/ BeginAccepted(q, r, lost)

Replacement(q) ==
    \/ CheckBeforeReplace(q) \/ Replace(q) \/ ReplaceFails(q) \/ ReplaceUnknown(q)
    \/ ReplacementCompleted(q) \/ SaveCompleted(q)
    \/ ReplacementFailed(q) \/ SaveFailure(q)

Turn(q) ==
    \/ Preflight(q) \/ Leave(q) \/ ProcessingContext(q) \/ CheckBeforePersistence(q)
    \/ SaveUser(q) \/ SaveAssistant(q) \/ Register(q)
    \/ CheckAfterCritic(q) \/ Derive(q) \/ Release(q)

Rollback ==
    \/ RollbackCancels \/ RollbackInterrupted \/ RollbackCanonicalTail \/ RollbackFails
    \/ \E lost \in Outages \cup {{}} : Invalidate(lost)
    \/ SaveInvalidation

Next ==
    \/ \E q \in Requests : Begin(q) \/ Replacement(q) \/ Turn(q)
    \/ Rollback
    \/ Crash

Spec == Init /\ [][Next]_vars

-----------------------------------------------------------------------------
(* Properties *)

\* The ledger, the log, the rows and the requests are well formed.
TypeOK ==
    /\ current \in States
    /\ fence \in Nat
    /\ terminal \subseteq Revisions
    /\ worker \in Requests \cup {NoRequest}
    /\ transitions \in Seq(States)
    /\ failures \in Seq(Failures)
    /\ savedFence \in Nat
    /\ rows \subseteq Revisions
    /\ active \in rows \cup {0}
    /\ raw \in [user : BOOLEAN, assistant : Revisions \cup {0}]
    /\ derived \subseteq Revisions
    /\ req \in [Requests -> RequestStates]
    /\ rb \in [pc : {"idle", "drain", "invalidate", "save"}, host : Nat,
               wait : Requests \cup {NoRequest}, obs : Nat]
    /\ budget \in [Bounded -> Nat]
    /\ closed \subseteq Revisions

\* The active source revision of a turn is the answer its raw rows hold: the
\* Critic's worker and a later rebuild read the same turn, although the raw
\* rows of a first answer are two inserts outside the transaction that
\* registers it, whose errors do not stop the request, and replacements,
\* rollbacks, repeated requests of the same answer and requests that were
\* cancelled meanwhile write the same rows.
ActiveSourceMatchesRaw == active # 0 => raw = Pair(active)

\* A request whose processing context is live can be cancelled: it is the one
\* the ledger has on record for the turn.  Otherwise a newer answer or a
\* rollback would find nobody to stop and both would write derived rows.  The
\* one exception is a request that was registered at the same time as another
\* of its own revision, whose entry the other takes over or drops.
LiveContextOnRecord ==
    \A q \in Requests :
        req[q].registered /\ ~req[q].cancelled => worker = q \/ req[q].shared

\* An answer that was discarded (rolled back, or refused as a replacement for
\* good), whose client has been told so and whose discard is in the audit log
\* is never accepted again, whatever is submitted again or restarted and
\* whatever else is lost, unless the very load that accepts it fails to read
\* the discards back.
DiscardedStaysDiscarded ==
    [][\A q \in Requests :
           /\ At(q, "idle")
           /\ Running(q)'
           /\ req'[q].rev \in closed
           => req'[q].partial]_vars

\* What the test of a superseded queued revision says of every submission: as
\* long as a newer answer is the accepted final one of the turn and its request
\* is running, an older answer that is sent again is rejected.
SupersededStaysRejected ==
    [][\A p, q \in Requests :
           /\ Running(q) /\ StillCurrent(q)
           /\ At(p, "idle") /\ Running(p)'
           => req'[p].rev >= req[q].rev]_vars
=============================================================================
