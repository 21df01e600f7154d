------------------------- MODULE CompleteTurnLedger -------------------------
(***************************************************************************)
(* The in-memory idempotency ledger of POST /turns/complete                *)
(* (httpapi/complete_turn_idempotency.go).  Concurrent HTTP requests that  *)
(* carry the same idempotency key share one ledger entry: the first one    *)
(* owns it and runs the turn handler, the others wait for the response the *)
(* owner records.  Cancelling a request records the placeholder "outcome   *)
(* unknown"; the owner keeps running and settles it.                       *)
(*                                                                         *)
(* An entry pointer is identified with the request that created it, since  *)
(* every request creates at most one.  Requests without a key bypass the   *)
(* ledger and are not modelled.                                            *)
(***************************************************************************)
EXTENDS Naturals, FiniteSets

CONSTANTS
  Requests,      \* HTTP requests, each served by its own goroutine
  Keys,          \* idempotency keys
  Fingerprints,  \* digests of the whole request body
  MaxEntries,    \* completeTurnRequestMax
  None           \* a nil entry pointer, a response not written yet

ASSUME LedgerAssumption ==
  /\ IsFiniteSet(Requests)
  /\ MaxEntries \in Nat \ {0}
  /\ None \notin Requests

VARIABLES
  entries,       \* key -> entry pointer (its creator), or None
  nextSequence,  \* last allocated sequence number
  entry,         \* the entry each owner created (kept alive by its holders)
  pc,            \* where each request is
  key, fingerprint,
  held,          \* the entry pointer each request got from the ledger
  cancelled,     \* requests whose context is done
  watcher,       \* the goroutine an owner starts to watch its context
  durable,       \* what each handler has made durable of its turn
  reply,         \* the response each request was sent
  evicted        \* history: keys whose entry was dropped for capacity

ledger == <<entries, nextSequence, entry, evicted>>
vars == <<entries, nextSequence, entry, pc, key, fingerprint, held, cancelled,
          watcher, durable, reply, evicted>>

-----------------------------------------------------------------------------
(* A response, reduced to the fields the ledger's rules look at.           *)

Flag == {"absent", "true", "false"}
Response ==
  [ serverError : BOOLEAN,      \* status >= 500
    rawCommitted : BOOLEAN,
    commitState : {"absent", "not_committed", "committed", "unknown"},
    saveOK : Flag, retryable : Flag,
    queueAction : {"absent", "retry", "discard"} ]

MakeResponse(err, raw, commit, save, retry, queue) ==
  [ serverError |-> err, rawCommitted |-> raw, commitState |-> commit,
    saveOK |-> save, retryable |-> retry, queueAction |-> queue ]

\* Mutant: the rule trusts the retryable flag alone.
AllowsWholeRequestRetry_FlagOnly(resp) == resp.retryable = "true" \/ resp.serverError

\* The whole request may be sent, and run, again under the same key.
AllowsWholeRequestRetry(resp) ==
  /\ ~resp.rawCommitted
  /\ resp.commitState # "unknown"
  /\ resp.saveOK # "true"
  /\ resp.retryable # "false"
  /\ resp.queueAction # "discard"
  /\ resp.saveOK = "false" \/ resp.serverError

\* Mutant: no outcome is pinned against eviction.
PinsOutcome_Never(resp) == FALSE

PinsOutcome(resp) == resp.commitState = "unknown"

\* What the turn handler answers once the rows and the accepted source are on
\* record: saved, saved with a derived failure that is not queued, superseded
\* during the processing.  Answers that the rules below treat alike share one.
RegisteredResponses ==
  { MakeResponse(FALSE, TRUE, "committed", "true", "false", "absent"),
    MakeResponse(FALSE, TRUE, "committed", "true", "true", "retry"),
    MakeResponse(FALSE, FALSE, "absent", "true", "absent", "discard") }

\* What it may answer before that, whether the rows are durable or not: the save
\* or the registration failed, the migration lock could not be read, the lock is
\* set, superseded or not to be retried, commit not acknowledged.
UnregisteredResponses ==
  { MakeResponse(FALSE, FALSE, "not_committed", "false", "true", "retry"),
    MakeResponse(TRUE, FALSE, "absent", "absent", "absent", "absent"),
    MakeResponse(FALSE, FALSE, "absent", "false", "absent", "absent"),
    MakeResponse(FALSE, FALSE, "absent", "false", "absent", "discard"),
    MakeResponse(FALSE, FALSE, "unknown", "false", "false", "discard") }

\* Besides, with the rows durable, the replacement committed and then failed, and,
\* without, the request was malformed, skipped or found saved already.
HandlerResponses(r) ==
  CASE durable[r] = "registered" -> RegisteredResponses
    [] durable[r] = "stored" -> UnregisteredResponses \cup
         { MakeResponse(FALSE, TRUE, "committed", "true", "false", "discard") }
    [] durable[r] = "no" -> UnregisteredResponses \cup
         { MakeResponse(FALSE, FALSE, "absent", "absent", "absent", "absent") }

OutcomeUnknown == MakeResponse(FALSE, FALSE, "unknown", "false", "false", "discard")
KeyConflict    == MakeResponse(FALSE, FALSE, "absent", "false", "false", "discard")
AskRetry       == MakeResponse(TRUE, FALSE, "absent", "false", "true", "retry")
Processing     == MakeResponse(FALSE, FALSE, "absent", "absent", "absent", "absent")

-----------------------------------------------------------------------------
NoEntry == [sequence |-> 0, finished |-> FALSE, response |-> None]

Init ==
  /\ entries = [k \in Keys |-> None]
  /\ nextSequence = 0
  /\ entry = [r \in Requests |-> NoEntry]
  /\ pc = [r \in Requests |-> "new"]
  /\ key \in [Requests -> Keys]
  /\ fingerprint \in [Requests -> Fingerprints]
  /\ held = [r \in Requests |-> None]
  /\ cancelled = {}
  /\ watcher = [r \in Requests |-> "none"]
  /\ durable = [r \in Requests |-> "no"]
  /\ reply = [r \in Requests |-> None]
  /\ evicted = {}

Occupied == {k \in Keys : entries[k] # None}

Evictable(k) ==
  /\ entries[k] # None
  /\ entry[entries[k]].finished
  /\ ~PinsOutcome(entry[entries[k]].response)

\* evictFinishedForCapacityLocked drops one key: the oldest finished entry whose
\* outcome is not pinned; none when there is no such entry.
EvictionVictims ==
  {k \in Keys : /\ Evictable(k)
                /\ \A j \in Keys : Evictable(j) =>
                     entry[entries[k]].sequence <= entry[entries[j]].sequence}

Reply(r, resp) ==
  /\ pc' = [pc EXCEPT ![r] = "replied"]
  /\ reply' = [reply EXCEPT ![r] = resp]

\* The entry of the key belongs to another request body.
BeginConflict(r) ==
  /\ pc[r] = "new"
  /\ entries[key[r]] # None
  /\ fingerprint[entries[key[r]]] # fingerprint[r]
  /\ Reply(r, KeyConflict)
  /\ UNCHANGED <<ledger, key, fingerprint, held, cancelled, watcher, durable>>

\* The entry of the key exists: wait for its owner.
BeginWait(r) ==
  /\ pc[r] = "new"
  /\ entries[key[r]] # None
  /\ fingerprint[entries[key[r]]] = fingerprint[r]
  /\ pc' = [pc EXCEPT ![r] = "waiting"]
  /\ held' = [held EXCEPT ![r] = entries[key[r]]]
  /\ UNCHANGED <<ledger, key, fingerprint, cancelled, watcher, durable, reply>>

\* The ledger stays full after the eviction attempt.
BeginAtCapacity(r) ==
  /\ pc[r] = "new"
  /\ entries[key[r]] = None
  /\ Cardinality(Occupied) >= MaxEntries
  /\ EvictionVictims = {}
  /\ Reply(r, AskRetry)
  /\ UNCHANGED <<ledger, key, fingerprint, held, cancelled, watcher, durable>>

\* Become the owner of a new entry and start the context watcher; drop is the set
\* of keys evicted to make room.
BecomeOwner(r, drop) ==
  /\ entries' = [k \in Keys |-> IF k = key[r] THEN r
                                ELSE IF k \in drop THEN None ELSE entries[k]]
  /\ nextSequence' = nextSequence + 1
  /\ entry' = [entry EXCEPT ![r] = [@ EXCEPT !.sequence = nextSequence + 1]]
  /\ evicted' = evicted \cup drop
  /\ pc' = [pc EXCEPT ![r] = "running"]
  /\ held' = [held EXCEPT ![r] = r]
  /\ watcher' = [watcher EXCEPT ![r] = "armed"]
  /\ UNCHANGED <<key, fingerprint, cancelled, durable, reply>>

BeginOwner(r) ==
  /\ pc[r] = "new"
  /\ entries[key[r]] = None
  /\ \/ Cardinality(Occupied) < MaxEntries /\ BecomeOwner(r, {})
     \/ /\ Cardinality(Occupied) >= MaxEntries
        /\ \E k \in EvictionVictims : BecomeOwner(r, {k})

\* Both raw rows become durable: ReplaceLogicalTurn committed, or
\* persistCompleteTurnRaw saved them or found them saved.
StoreRaw(r) ==
  /\ pc[r] = "running"
  /\ durable[r] = "no"
  /\ durable' = [durable EXCEPT ![r] = "stored"]
  /\ UNCHANGED <<ledger, pc, key, fingerprint, held, cancelled, watcher, reply>>

\* The accepted source is registered: rawTurnDurable holds from here on.
Register(r) ==
  /\ pc[r] = "running"
  /\ durable[r] = "stored"
  /\ durable' = [durable EXCEPT ![r] = "registered"]
  /\ UNCHANGED <<ledger, pc, key, fingerprint, held, cancelled, watcher, reply>>

\* Mutant: the entry is dropped as soon as it is finished.
Record_AlwaysDrop(e, resp) ==
  /\ entry' = [entry EXCEPT ![e] = [@ EXCEPT !.finished = TRUE, !.response = resp]]
  /\ entries' = [entries EXCEPT ![key[e]] = None]
  /\ UNCHANGED <<nextSequence, evicted>>

\* Mutant: the queue action is taken from the wrong field.
Record_WrongField(e, resp) ==
  /\ entry' = [entry EXCEPT ![e] = [@ EXCEPT !.finished = TRUE,
                    !.response = [resp EXCEPT !.queueAction = resp.commitState]]]
  /\ entries' = IF AllowsWholeRequestRetry(resp)
                THEN [entries EXCEPT ![key[e]] = None] ELSE entries
  /\ UNCHANGED <<nextSequence, evicted>>

\* Record resp in entry e of its key and drop the entry when resp lets the whole
\* request run again.
Record(e, resp) ==
  /\ entry' = [entry EXCEPT ![e] = [@ EXCEPT !.finished = TRUE, !.response = resp]]
  /\ entries' = IF AllowsWholeRequestRetry(resp)
                THEN [entries EXCEPT ![key[e]] = None] ELSE entries
  /\ UNCHANGED <<nextSequence, evicted>>

\* finishOwner, unless the key no longer leads to this entry.
FinishOwner(r, resp) ==
  IF entries[key[r]] = r THEN Record(r, resp) ELSE UNCHANGED ledger

\* Mutant: a finished entry is overwritten.
FinishIfCurrent_Overwrite(r, resp) ==
  IF entries[key[r]] = r THEN Record(r, resp) ELSE UNCHANGED ledger

\* finishIfCurrent, unless the entry is replaced or finished.
FinishIfCurrent(r, resp) ==
  IF entries[key[r]] = r /\ ~entry[r].finished
  THEN Record(r, resp) ELSE UNCHANGED ledger

\* The owner's handler returns: settle the entry, answer; net/http then cancels
\* the request's context.
Finish(r) ==
  /\ pc[r] = "running"
  /\ \E resp \in HandlerResponses(r) :
       FinishOwner(r, resp) /\ Reply(r, resp)
  /\ cancelled' = cancelled \cup {r}
  /\ UNCHANGED <<key, fingerprint, held, watcher, durable>>

\* The handler panics: the diagnostic middleware panics again, net/http closes
\* the connection and cancels the context; finishOwner is never reached.
Panic(r) ==
  /\ pc[r] = "running"
  /\ pc' = [pc EXCEPT ![r] = "dead"]
  /\ cancelled' = cancelled \cup {r}
  /\ UNCHANGED <<ledger, key, fingerprint, held, watcher, durable, reply>>

\* The client or a proxy drops the connection.
Disconnect(r) ==
  /\ pc[r] \in {"running", "waiting"}
  /\ r \notin cancelled
  /\ cancelled' = cancelled \cup {r}
  /\ UNCHANGED <<ledger, pc, key, fingerprint, held, watcher, durable, reply>>

\* Mutant: the watcher ends without recording anything.
Watch_Silent(r) ==
  /\ watcher[r] = "armed"
  /\ r \in cancelled
  /\ watcher' = [watcher EXCEPT ![r] = "ended"]
  /\ UNCHANGED <<ledger, pc, key, fingerprint, held, cancelled, durable, reply>>

\* The watcher goroutine sees the context done.
Watch(r) ==
  /\ watcher[r] = "armed"
  /\ r \in cancelled
  /\ FinishIfCurrent(r, OutcomeUnknown)
  /\ watcher' = [watcher EXCEPT ![r] = "ended"]
  /\ UNCHANGED <<pc, key, fingerprint, held, cancelled, durable, reply>>

\* responseForEntry
RecordedResponse(r) ==
  IF entries[key[r]] = held[r] /\ entry[held[r]].finished
  THEN entry[held[r]].response ELSE AskRetry

\* The entry's done channel is closed: answer with what the ledger still holds.
WaiterAnswered(r) ==
  /\ pc[r] = "waiting"
  /\ entry[held[r]].finished
  /\ Reply(r, RecordedResponse(r))
  /\ UNCHANGED <<ledger, key, fingerprint, held, cancelled, watcher, durable>>

WaiterCancelled(r) ==
  /\ pc[r] = "waiting"
  /\ r \in cancelled
  /\ Reply(r, Processing)
  /\ UNCHANGED <<ledger, key, fingerprint, held, cancelled, watcher, durable>>

Step(r) ==
  \/ BeginConflict(r) \/ BeginWait(r) \/ BeginAtCapacity(r) \/ BeginOwner(r)
  \/ Finish(r) \/ WaiterAnswered(r) \/ WaiterCancelled(r)

Next ==
  \/ \E r \in Requests : Step(r) \/ Watch(r)
  \/ \E r \in Requests : StoreRaw(r) \/ Register(r) \/ Panic(r) \/ Disconnect(r)

\* Handlers and the store and provider calls they make are bounded by timeouts,
\* and goroutines are scheduled; nothing forces a write, a panic or a disconnect.
Fairness == \A r \in Requests : WF_vars(Step(r)) /\ WF_vars(Watch(r))

Spec == Init /\ [][Next]_vars /\ Fairness

-----------------------------------------------------------------------------
(* Properties *)

\* The ledger's maps, flags and answers have the shape the structs give them.
TypeOK ==
  /\ entries \in [Keys -> Requests \cup {None}]
  /\ nextSequence \in Nat
  /\ entry \in [Requests -> [sequence : Nat, finished : BOOLEAN,
                             response : Response \cup {None}]]
  /\ pc \in [Requests -> {"new", "running", "waiting", "replied", "dead"}]
  /\ key \in [Requests -> Keys]
  /\ fingerprint \in [Requests -> Fingerprints]
  /\ held \in [Requests -> Requests \cup {None}]
  /\ cancelled \subseteq Requests
  /\ watcher \in [Requests -> {"none", "armed", "ended"}]
  /\ durable \in [Requests -> {"no", "stored", "registered"}]
  /\ reply \in [Requests -> Response \cup {None}]
  /\ evicted \subseteq Keys

\* Two handlers never run concurrently for one idempotency key, whatever
\* disconnects, placeholders and evictions happen in between.
SingleOwnerPerKey ==
  \A r, s \in Requests :
    pc[r] = "running" /\ pc[s] = "running" /\ key[r] = key[s] => r = s

\* A key is run again only after the handler that ran it last answered that the
\* whole request may be sent again, or after the ledger dropped the key for
\* capacity; and no such answer follows a registered turn.  A disconnect, a
\* panic, a late watcher or the placeholder never re-opens a key.
RerunNeedsRetryAnswer ==
  \A r, s \in Requests :
    /\ key[r] = key[s]
    /\ 0 < entry[r].sequence /\ entry[r].sequence < entry[s].sequence
    => \/ key[r] \in evicted
       \/ /\ pc[r] = "replied" /\ AllowsWholeRequestRetry(reply[r])
          /\ durable[r] # "registered"

\* Once the owner answered, the ledger holds that answer: a cancellation that the
\* watcher notices late never turns a settled outcome into "unknown".
SettledOutcomeKept ==
  \A r \in Requests :
    pc[r] = "replied" /\ entries[key[r]] = r => entry[r].response = reply[r]

\* A waiter is told to send the whole request again only when its owner was told
\* the same and registered nothing, or the key was dropped for capacity: waking
\* late, after the entry was removed or replaced, makes no such advice up.
RetryAdviceSound ==
  \A r \in Requests :
    pc[r] = "replied" /\ held[r] # None /\ AllowsWholeRequestRetry(reply[r])
      => \/ key[r] \in evicted
         \/ /\ pc[held[r]] = "replied" /\ AllowsWholeRequestRetry(reply[held[r]])
            /\ durable[held[r]] # "registered"

\* Every request is answered, unless its own handler panicked: the owner of an
\* entry can neither leave its waiters behind by a disconnect nor by a panic.
EveryRequestAnswered ==
  \A r \in Requests : <>(pc[r] \in {"replied", "dead"})

\* A panic after the key was claimed still closes the entry: its outcome becomes
\* the pinned placeholder that the status endpoint reports for reconciliation.
PanicLeavesUnknown ==
  \A r \in Requests :
    pc[r] = "dead" ~> (/\ entries[key[r]] = r
                       /\ entry[r].finished
                       /\ entry[r].response = OutcomeUnknown)
=============================================================================
