---------------------- MODULE CompleteTurnLedgerProofs ----------------------
(***************************************************************************)
(* Proofs, for any number of requests, keys and ledger entries, of the     *)
(* safety properties of CompleteTurnLedger.                                *)
(***************************************************************************)
EXTENDS CompleteTurnLedger, TLAPS

Owning == {"running", "replied", "dead"}

\* The entry of a key was made by a request of that key that has begun.
EntryBelongsToKey ==
  \A k \in Keys :
    entries[k] # None => key[entries[k]] = k /\ pc[entries[k]] \in Owning

\* A running owner keeps its entry, open or holding the placeholder.
RunningOwnsKey ==
  \A r \in Requests :
    pc[r] = "running" =>
      /\ entries[key[r]] = r
      /\ entry[r].finished => PinsOutcome(entry[r].response)

\* An entry that may be run again has left the ledger.
RecordedIsFinal ==
  \A k \in Keys :
    entries[k] # None /\ entry[entries[k]].finished
      => ~AllowsWholeRequestRetry(entry[entries[k]].response)

\* The entry of a request that became an owner leaves the ledger only for
\* capacity or by an answer that re-opens the key.
OwnersLeaveByAnswer ==
  \A r \in Requests :
    0 < entry[r].sequence =>
      /\ pc[r] \in Owning
      /\ \/ key[r] \in evicted
         \/ entries[key[r]] = r
         \/ pc[r] = "replied" /\ AllowsWholeRequestRetry(reply[r])

\* Only owners write, and no answer after the registration re-opens the key.
RegisteredIsFinal ==
  \A r \in Requests :
    /\ durable[r] # "no" => 0 < entry[r].sequence
    /\ durable[r] = "registered" /\ pc[r] = "replied" => ~AllowsWholeRequestRetry(reply[r])

\* The entry a key leads to is the last one made for the key.
EntryIsLatest ==
  /\ \A r \in Requests : entry[r].sequence <= nextSequence
  /\ \A k \in Keys : entries[k] # None =>
       /\ 0 < entry[entries[k]].sequence
       /\ \A r \in Requests :
            key[r] = k => entry[r].sequence <= entry[entries[k]].sequence

\* Requests that hold an entry pointer hold one of their own key, begun by then.
HeldEntry ==
  \A r \in Requests :
    /\ pc[r] = "new" => held[r] = None /\ ~entry[r].finished
    /\ pc[r] = "waiting" => held[r] \in Requests
    /\ pc[r] = "running" => held[r] = r
    /\ held[r] # None =>
         /\ key[held[r]] = key[r] /\ pc[held[r]] \in Owning
         /\ 0 < entry[held[r]].sequence

AnswerSettled ==
  \A r \in Requests :
    pc[r] = "replied" /\ entries[key[r]] = r
      => entry[r].finished /\ entry[r].response = reply[r]

RetryAdvice ==
  \A r \in Requests :
    pc[r] = "replied" /\ held[r] # None /\ AllowsWholeRequestRetry(reply[r]) =>
      \/ key[r] \in evicted
      \/ pc[held[r]] = "replied" /\ AllowsWholeRequestRetry(reply[held[r]])

IInv ==
  /\ TypeOK
  /\ EntryBelongsToKey
  /\ RunningOwnsKey
  /\ RecordedIsFinal
  /\ OwnersLeaveByAnswer
  /\ RegisteredIsFinal
  /\ EntryIsLatest
  /\ HeldEntry
  /\ AnswerSettled
  /\ RetryAdvice

-----------------------------------------------------------------------------
\* The answers the ledger itself makes up are responses; the placeholder and the
\* conflict answer never re-open a key (executeCompleteTurnIdempotent).
LEMMA OwnAnswers ==
  /\ {OutcomeUnknown, KeyConflict, AskRetry, Processing} \subseteq Response
  /\ PinsOutcome(OutcomeUnknown)
  /\ ~AllowsWholeRequestRetry(OutcomeUnknown)
BY DEF OutcomeUnknown, KeyConflict, AskRetry, Processing, MakeResponse, Response,
       Flag, PinsOutcome, AllowsWholeRequestRetry

\* A handler that registered its turn never answers in a way that lets the whole
\* request run again (handleCompleteTurnDecoded).
LEMMA HandlerAnswers ==
  ASSUME TypeOK, NEW r \in Requests, NEW resp \in HandlerResponses(r)
  PROVE  /\ resp \in Response
         /\ durable[r] = "registered" => ~AllowsWholeRequestRetry(resp)
<1>1. RegisteredResponses \subseteq Response
  BY DEF RegisteredResponses, MakeResponse, Response, Flag
<1>2. UnregisteredResponses \subseteq Response
  BY DEF UnregisteredResponses, MakeResponse, Response, Flag
<1>3. ASSUME resp \in RegisteredResponses PROVE ~AllowsWholeRequestRetry(resp)
  BY <1>3 DEF RegisteredResponses, MakeResponse, AllowsWholeRequestRetry
<1>4. CASE durable[r] = "registered"
  BY <1>1, <1>3, <1>4 DEF HandlerResponses
<1>7. /\ MakeResponse(FALSE, TRUE, "committed", "true", "false", "discard") \in Response
      /\ MakeResponse(FALSE, FALSE, "absent", "absent", "absent", "absent") \in Response
  BY DEF MakeResponse, Response, Flag
<1>5. CASE durable[r] = "stored"
  BY <1>2, <1>5, <1>7 DEF HandlerResponses
<1>6. CASE durable[r] = "no"
  BY <1>2, <1>6, <1>7 DEF HandlerResponses
<1> QED BY <1>4, <1>5, <1>6 DEF TypeOK

LEMMA InitIInv == Init => IInv
BY LedgerAssumption DEF Init, IInv, TypeOK, NoEntry, EntryBelongsToKey, RunningOwnsKey,
   RecordedIsFinal, OwnersLeaveByAnswer, RegisteredIsFinal, EntryIsLatest, HeldEntry,
     AnswerSettled, RetryAdvice

-----------------------------------------------------------------------------
\* Every step keeps the types; a waiter's answer needs the entry it holds.
LEMMA TypeStep == TypeOK /\ HeldEntry /\ [Next]_vars => TypeOK'
<1> SUFFICES ASSUME TypeOK, HeldEntry, [Next]_vars PROVE TypeOK'
  OBVIOUS
<1> USE LedgerAssumption DEF TypeOK, ledger
<1>1. ASSUME NEW r \in Requests, BeginConflict(r) PROVE TypeOK'
  BY <1>1, OwnAnswers DEF BeginConflict, Reply
<1>2. ASSUME NEW r \in Requests, BeginWait(r) PROVE TypeOK'
  BY <1>2 DEF BeginWait
<1>3. ASSUME NEW r \in Requests, BeginAtCapacity(r) PROVE TypeOK'
  BY <1>3, OwnAnswers DEF BeginAtCapacity, Reply
<1>4. ASSUME NEW r \in Requests, NEW drop \in SUBSET Keys, BecomeOwner(r, drop)
      PROVE TypeOK'
  <2>1. entries' \in [Keys -> Requests \cup {None}]
    BY <1>4 DEF BecomeOwner
  <2>2. entry' \in [Requests -> [sequence : Nat, finished : BOOLEAN,
                                 response : Response \cup {None}]]
    <3>1. entry[r] \in [sequence : Nat, finished : BOOLEAN,
                        response : Response \cup {None}]
      OBVIOUS
    <3>2. nextSequence + 1 \in Nat
      OBVIOUS
    <3> HIDE DEF TypeOK
    <3>4. [entry[r] EXCEPT !.sequence = nextSequence + 1]
            \in [sequence : Nat, finished : BOOLEAN, response : Response \cup {None}]
      BY <3>1, <3>2, Zenon
    <3>3. entry' = [entry EXCEPT ![r] = [entry[r] EXCEPT !.sequence = nextSequence + 1]]
      BY <1>4 DEF BecomeOwner
    <3> QED BY <3>3, <3>4 DEF TypeOK
  <2> QED BY <1>4, <2>1, <2>2 DEF BecomeOwner
<1>5. ASSUME NEW r \in Requests, BeginOwner(r) PROVE TypeOK'
  BY <1>4, <1>5 DEF BeginOwner, EvictionVictims
<1>6. ASSUME NEW r \in Requests, NEW resp \in Response, Record(r, resp)
      PROVE /\ entries' \in [Keys -> Requests \cup {None}]
            /\ nextSequence' \in Nat /\ evicted' \subseteq Keys
            /\ entry' \in [Requests -> [sequence : Nat, finished : BOOLEAN,
                                        response : Response \cup {None}]]
  BY <1>6 DEF Record
<1>7. ASSUME NEW r \in Requests, Finish(r) PROVE TypeOK'
  <2>1. PICK resp \in HandlerResponses(r) :
          FinishOwner(r, resp) /\ Reply(r, resp)
    BY <1>7 DEF Finish
  <2>2. resp \in Response
    BY <2>1, HandlerAnswers
  <2> QED BY <1>6, <1>7, <2>1, <2>2 DEF Finish, FinishOwner, Reply
<1>8. ASSUME NEW r \in Requests, Watch(r) PROVE TypeOK'
  BY <1>6, <1>8, OwnAnswers DEF Watch, FinishIfCurrent
<1>9. ASSUME NEW r \in Requests, WaiterAnswered(r) PROVE TypeOK'
  <2>1. pc[r] = "waiting" /\ Reply(r, RecordedResponse(r))
    BY <1>9 DEF WaiterAnswered
  <2>2. RecordedResponse(r) \in Response \cup {None}
    BY <2>1, OwnAnswers DEF RecordedResponse, HeldEntry
  <2> QED BY <1>9, <2>1, <2>2 DEF WaiterAnswered, Reply
<1>10. ASSUME NEW r \in Requests, WaiterCancelled(r) PROVE TypeOK'
  BY <1>10, OwnAnswers DEF WaiterCancelled, Reply
<1>11. ASSUME NEW r \in Requests, StoreRaw(r) \/ Register(r) \/ Panic(r) \/ Disconnect(r)
       PROVE  TypeOK'
  <2>1. CASE StoreRaw(r)
    BY <2>1 DEF StoreRaw
  <2>2. CASE Register(r)
    BY <2>2 DEF Register
  <2>3. CASE Panic(r) \/ Disconnect(r)
    BY <2>3 DEF Panic, Disconnect
  <2> QED BY <1>11, <2>1, <2>2, <2>3
<1>12. CASE UNCHANGED vars
  BY <1>12 DEF vars
<1> QED
  BY <1>1, <1>2, <1>3, <1>5, <1>7, <1>8, <1>9, <1>10, <1>11, <1>12 DEF Next, Step

-----------------------------------------------------------------------------
\* What recording a response in the ledger does to the invariant's parts: the
\* entry of the key is r's, so nobody else's entry moves (finishOwner,
\* finishIfCurrent).
LEMMA RecordStep ==
  ASSUME IInv, NEW r \in Requests, NEW resp \in Response, Record(r, resp),
         entries[key[r]] = r
  PROVE  /\ \A k \in Keys : entries'[k] # None => entries'[k] = entries[k]
         /\ \A k \in Keys : k # key[r] => entries'[k] = entries[k]
         /\ entries'[key[r]] = IF AllowsWholeRequestRetry(resp) THEN None ELSE r
         /\ \A s \in Requests : s # r => entry'[s] = entry[s]
         /\ entry'[r].finished /\ entry'[r].response = resp
         /\ entry'[r].sequence = entry[r].sequence
         /\ UNCHANGED <<evicted, nextSequence>>
BY LedgerAssumption DEF Record, IInv, TypeOK

LEMMA OwnerStep ==
  ASSUME IInv, NEW r \in Requests, BeginOwner(r)
  PROVE  /\ pc[r] = "new" /\ entries[key[r]] = None
         /\ entries'[key[r]] = r
         /\ \A k \in Keys : k # key[r] =>
              \/ entries'[k] = entries[k]
              \/ entries'[k] = None /\ k \in evicted' /\ Evictable(k)
         /\ evicted \subseteq evicted'
         /\ \A s \in Requests : s # r => entry'[s] = entry[s]
         /\ entry'[r].finished = entry[r].finished
         /\ entry'[r].response = entry[r].response
         /\ entry'[r].sequence = nextSequence' /\ nextSequence' = nextSequence + 1
         /\ pc' = [pc EXCEPT ![r] = "running"]
         /\ held' = [held EXCEPT ![r] = r]
         /\ UNCHANGED <<key, fingerprint, cancelled, durable, reply>>
<1> USE LedgerAssumption DEF IInv, TypeOK
<1>1. ASSUME NEW drop \in SUBSET Keys, BecomeOwner(r, drop),
             \A k \in drop : Evictable(k), entries[key[r]] = None, pc[r] = "new"
      PROVE  /\ entries'[key[r]] = r
             /\ \A k \in Keys : k # key[r] =>
                  \/ entries'[k] = entries[k]
                  \/ entries'[k] = None /\ k \in evicted' /\ Evictable(k)
             /\ evicted \subseteq evicted'
             /\ \A s \in Requests : s # r => entry'[s] = entry[s]
             /\ entry'[r].finished = entry[r].finished
             /\ entry'[r].response = entry[r].response
             /\ entry'[r].sequence = nextSequence' /\ nextSequence' = nextSequence + 1
             /\ pc' = [pc EXCEPT ![r] = "running"]
             /\ held' = [held EXCEPT ![r] = r]
             /\ UNCHANGED <<key, fingerprint, cancelled, durable, reply>>
  BY <1>1 DEF BecomeOwner
<1>2. pc[r] = "new" /\ entries[key[r]] = None
  BY DEF BeginOwner
<1>3. CASE BecomeOwner(r, {})
  BY <1>1, <1>2, <1>3
<1>4. CASE \E k \in EvictionVictims : BecomeOwner(r, {k})
  <2>1. PICK k \in EvictionVictims : BecomeOwner(r, {k})
    BY <1>4
  <2>2. k \in Keys /\ Evictable(k)
    BY DEF EvictionVictims
  <2> QED BY <1>1, <1>2, <2>1, <2>2
<1> QED BY <1>2, <1>3, <1>4 DEF BeginOwner

\* The heart of the argument: one step per action.
LEMMA IInvStep == IInv /\ [Next]_vars => IInv'
<1> SUFFICES ASSUME IInv, [Next]_vars PROVE IInv'
  OBVIOUS
<1>0. TypeOK'
  BY TypeStep DEF IInv
<1> DEFINE Rest == /\ EntryBelongsToKey /\ RunningOwnsKey /\ RecordedIsFinal
                   /\ OwnersLeaveByAnswer /\ RegisteredIsFinal /\ EntryIsLatest
                   /\ HeldEntry /\ AnswerSettled /\ RetryAdvice
<1> SUFFICES Rest'
  BY <1>0 DEF IInv
<1> USE LedgerAssumption DEF Owning
<1>1. ASSUME NEW r \in Requests,
             BeginConflict(r) \/ BeginAtCapacity(r)
      PROVE  Rest'
  <2>1. /\ pc[r] = "new" /\ pc' = [pc EXCEPT ![r] = "replied"]
        /\ \A s \in Requests : s # r => reply'[s] = reply[s]
        /\ UNCHANGED <<entries, entry, nextSequence, evicted, key, held, durable>>
    BY <1>1 DEF BeginConflict, BeginAtCapacity, Reply, ledger, IInv, TypeOK
  <2>2. held[r] = None /\ ~(0 < entry[r].sequence) /\ durable[r] = "no"
    BY <2>1 DEF IInv, HeldEntry, OwnersLeaveByAnswer, RegisteredIsFinal
  <2> USE <2>1, <2>2 DEF IInv, TypeOK
  <2>3. EntryBelongsToKey' /\ RunningOwnsKey' /\ RecordedIsFinal'
    BY DEF EntryBelongsToKey, RunningOwnsKey, RecordedIsFinal
  <2>4. OwnersLeaveByAnswer' /\ RegisteredIsFinal'
    BY DEF OwnersLeaveByAnswer, RegisteredIsFinal
  <2>7. EntryIsLatest' /\ HeldEntry'
    BY DEF EntryIsLatest, HeldEntry
  <2>5. AnswerSettled'
    BY DEF AnswerSettled, EntryBelongsToKey
  <2>6. RetryAdvice'
    BY DEF RetryAdvice, HeldEntry
  <2> QED BY <2>3, <2>4, <2>5, <2>6, <2>7
<1>2. ASSUME NEW r \in Requests, BeginWait(r)
      PROVE  Rest'
  BY <1>2 DEF IInv, TypeOK, BeginWait, ledger, EntryBelongsToKey,
     RunningOwnsKey, RecordedIsFinal, OwnersLeaveByAnswer, RegisteredIsFinal, EntryIsLatest, HeldEntry,
     AnswerSettled, RetryAdvice
<1>3. ASSUME NEW r \in Requests, BeginOwner(r)
      PROVE  Rest'
  <2> USE <1>3, OwnerStep DEF IInv, TypeOK
  <2>1. EntryBelongsToKey'
    BY DEF EntryBelongsToKey
  <2>2. ASSUME NEW s \in Requests, pc'[s] = "running"
        PROVE  /\ entries'[key'[s]] = s
               /\ entry'[s].finished => PinsOutcome(entry'[s].response)
    <3>1. CASE s = r
      BY <3>1 DEF HeldEntry
    <3>2. CASE s # r
      BY <2>2, <3>2 DEF RunningOwnsKey, Evictable
    <3> QED BY <3>1, <3>2
  <2>3. ASSUME NEW k \in Keys, entries'[k] # None, entry'[entries'[k]].finished
        PROVE  ~AllowsWholeRequestRetry(entry'[entries'[k]].response)
    <3>1. CASE k = key[r]
      BY <2>3, <3>1 DEF HeldEntry
    <3>2. CASE k # key[r]
      <4>1. entries'[k] = entries[k] /\ entries[k] \in Requests /\ entries[k] # r
        BY <2>3, <3>2 DEF EntryBelongsToKey
      <4> QED BY <2>3, <4>1 DEF RecordedIsFinal
    <3> QED BY <3>1, <3>2
  <2>4. ASSUME NEW s \in Requests, 0 < entry'[s].sequence
        PROVE  /\ pc'[s] \in Owning
               /\ \/ key'[s] \in evicted'
                  \/ entries'[key'[s]] = s
                  \/ pc'[s] = "replied" /\ AllowsWholeRequestRetry(reply'[s])
    <3>1. CASE s = r
      BY <3>1
    <3>2. CASE s # r
      <4>1. /\ pc[s] \in Owning /\ pc'[s] = pc[s] /\ key'[s] = key[s] /\ reply'[s] = reply[s]
            /\ \/ key[s] \in evicted
               \/ entries[key[s]] = s
               \/ pc[s] = "replied" /\ AllowsWholeRequestRetry(reply[s])
        BY <2>4, <3>2 DEF OwnersLeaveByAnswer
      <4>2. CASE entries[key[s]] = s
        <5>1. key[s] \in Keys /\ key[s] # key[r]
          BY <4>2
        <5> QED BY <4>1, <4>2, <5>1
      <4> QED BY <4>1, <4>2
    <3> QED BY <3>1, <3>2
  <2>10. RegisteredIsFinal'
    <3>1. durable[r] = "no"
      BY DEF RegisteredIsFinal, OwnersLeaveByAnswer
    <3> QED BY <3>1 DEF RegisteredIsFinal
  <2>11. ASSUME NEW s \in Requests PROVE entry'[s].sequence <= nextSequence'
    BY DEF EntryIsLatest
  <2>12. ASSUME NEW k \in Keys, entries'[k] # None
         PROVE  /\ 0 < entry'[entries'[k]].sequence
                /\ \A s \in Requests :
                     key'[s] = k => entry'[s].sequence <= entry'[entries'[k]].sequence
    <3>1. CASE k = key[r]
      BY <2>11, <3>1 DEF EntryIsLatest
    <3>2. CASE k # key[r]
      <4>1. entries'[k] = entries[k] /\ entries[k] \in Requests /\ entries[k] # r
        BY <2>12, <3>2 DEF EntryBelongsToKey
      <4>2. entry'[entries'[k]] = entry[entries[k]]
        BY <4>1
      <4>3. /\ 0 < entry[entries[k]].sequence
            /\ \A s \in Requests :
                 key[s] = k => entry[s].sequence <= entry[entries[k]].sequence
        BY <2>12, <4>1 DEF EntryIsLatest
      <4>4. ASSUME NEW s \in Requests, key'[s] = k
            PROVE  s # r /\ entry'[s] = entry[s] /\ key[s] = k
        BY <3>2, <4>4
      <4> QED BY <4>2, <4>3, <4>4
    <3> QED BY <3>1, <3>2
  <2>5. ASSUME NEW s \in Requests
        PROVE  /\ pc'[s] = "new" => held'[s] = None /\ ~entry'[s].finished
               /\ pc'[s] = "waiting" => held'[s] \in Requests
               /\ pc'[s] = "running" => held'[s] = s
               /\ held'[s] # None =>
                    /\ key'[held'[s]] = key'[s] /\ pc'[held'[s]] \in Owning
                    /\ 0 < entry'[held'[s]].sequence
    <3>1. CASE s = r
      BY <3>1
    <3>2. CASE s # r
      <4>1. held'[s] # r
        BY <3>2 DEF HeldEntry
      <4> QED BY <3>2, <4>1 DEF HeldEntry
    <3> QED BY <3>1, <3>2
  <2>6. AnswerSettled'
    BY DEF AnswerSettled
  <2>7. ASSUME NEW s \in Requests, pc'[s] = "replied", held'[s] # None,
               AllowsWholeRequestRetry(reply'[s])
        PROVE  \/ key'[s] \in evicted'
               \/ pc'[held'[s]] = "replied" /\ AllowsWholeRequestRetry(reply'[held'[s]])
    <3>1. /\ s # r /\ pc[s] = "replied" /\ held'[s] = held[s] /\ reply'[s] = reply[s]
          /\ held[s] # r /\ held[s] \in Requests
      BY <2>7 DEF HeldEntry
    <3>2. \/ key[s] \in evicted
          \/ pc[held[s]] = "replied" /\ AllowsWholeRequestRetry(reply[held[s]])
      BY <2>7, <3>1 DEF RetryAdvice
    <3> QED BY <2>7, <3>1, <3>2
  <2>8. RunningOwnsKey' /\ RecordedIsFinal'
    BY <2>2, <2>3 DEF RunningOwnsKey, RecordedIsFinal
  <2>9. OwnersLeaveByAnswer' /\ HeldEntry' /\ RetryAdvice'
    BY <2>4, <2>5, <2>7 DEF OwnersLeaveByAnswer, HeldEntry, RetryAdvice
  <2>13. EntryIsLatest'
    BY <2>11, <2>12 DEF EntryIsLatest
  <2> QED BY <2>1, <2>6, <2>8, <2>9, <2>10, <2>13
<1>4. ASSUME NEW r \in Requests, Finish(r)
      PROVE  Rest'
  <2>1. PICK resp \in HandlerResponses(r) : FinishOwner(r, resp) /\ Reply(r, resp)
    BY <1>4 DEF Finish
  <2>2. pc[r] = "running" /\ entries[key[r]] = r
    BY <1>4 DEF Finish, IInv, RunningOwnsKey
  <2>3. resp \in Response /\ Record(r, resp)
    BY <2>1, <2>2, HandlerAnswers DEF FinishOwner, IInv
  <2>4. durable[r] = "registered" => ~AllowsWholeRequestRetry(resp)
    BY <2>1, HandlerAnswers DEF IInv
  <2>5. UNCHANGED <<key, fingerprint, held, watcher, durable>>
    BY <1>4 DEF Finish
  <2> USE <2>1, <2>2, <2>3, <2>4, <2>5, RecordStep DEF IInv, TypeOK, Reply
  <2>6. EntryBelongsToKey'
    BY DEF EntryBelongsToKey
  <2>7. RunningOwnsKey'
    BY DEF RunningOwnsKey
  <2>8. ASSUME NEW k \in Keys, entries'[k] # None, entry'[entries'[k]].finished
        PROVE  ~AllowsWholeRequestRetry(entry'[entries'[k]].response)
    <3>1. CASE k = key[r]
      BY <2>8, <3>1
    <3>2. CASE k # key[r]
      BY <2>8, <3>2 DEF RecordedIsFinal, EntryBelongsToKey
    <3> QED BY <3>1, <3>2
  <2>15. RecordedIsFinal'
    BY <2>8 DEF RecordedIsFinal
  <2>9. OwnersLeaveByAnswer'
    BY DEF OwnersLeaveByAnswer
  <2>14. \A s \in Requests : entry'[s].sequence = entry[s].sequence
    OBVIOUS
  <2>16. EntryIsLatest'
    BY <2>14 DEF EntryIsLatest
  <2>17. RegisteredIsFinal'
    BY <2>14 DEF RegisteredIsFinal
  <2>10. HeldEntry'
    BY DEF HeldEntry
  <2>11. AnswerSettled'
    BY DEF AnswerSettled
  <2>12. ASSUME NEW s \in Requests, pc'[s] = "replied", held'[s] # None,
                AllowsWholeRequestRetry(reply'[s])
         PROVE  \/ key'[s] \in evicted'
                \/ pc'[held'[s]] = "replied" /\ AllowsWholeRequestRetry(reply'[held'[s]])
    <3>1. CASE s = r
      BY <2>12, <3>1 DEF HeldEntry
    <3>2. CASE s # r
      <4>1. pc[s] = "replied" /\ held'[s] = held[s] /\ reply'[s] = reply[s]
        BY <2>12, <3>2
      <4>2. \/ key[s] \in evicted
            \/ pc[held[s]] = "replied" /\ AllowsWholeRequestRetry(reply[held[s]])
        BY <2>12, <4>1 DEF RetryAdvice
      <4>3. held[s] \in Requests /\ (held[s] = r => pc[held[s]] # "replied")
        BY <2>12, <4>1
      <4> QED BY <4>1, <4>2, <4>3
    <3> QED BY <3>1, <3>2
  <2>13. RetryAdvice'
    BY <2>12 DEF RetryAdvice
  <2> QED BY <2>6, <2>7, <2>9, <2>10, <2>11, <2>13, <2>15, <2>16, <2>17
<1>5. ASSUME NEW r \in Requests, Watch(r)
      PROVE  Rest'
  <2>1. UNCHANGED <<pc, key, fingerprint, held, cancelled, durable, reply>>
    BY <1>5 DEF Watch
  <2>2. CASE entries[key[r]] = r /\ ~entry[r].finished
    <3>1. Record(r, OutcomeUnknown) /\ OutcomeUnknown \in Response
      BY <1>5, <2>2, OwnAnswers DEF Watch, FinishIfCurrent
    <3>2. pc[r] # "replied"
      BY <2>2 DEF IInv, AnswerSettled
    <3> USE <2>1, <2>2, <3>1, <3>2, RecordStep, OwnAnswers DEF IInv, TypeOK
    <3>8. \A s \in Requests : entry'[s].sequence = entry[s].sequence
      OBVIOUS
    <3>3. EntryBelongsToKey' /\ RetryAdvice'
      BY DEF EntryBelongsToKey, RetryAdvice
    <3>9. HeldEntry'
      BY <3>8 DEF HeldEntry, EntryBelongsToKey
    <3>4. RunningOwnsKey'
      BY DEF RunningOwnsKey
    <3>5. RecordedIsFinal'
      BY DEF RecordedIsFinal, EntryBelongsToKey
    <3>6. OwnersLeaveByAnswer'
      BY <3>8 DEF OwnersLeaveByAnswer
    <3>10. RegisteredIsFinal'
      BY <3>8 DEF RegisteredIsFinal
    <3>11. EntryIsLatest'
      BY <3>8 DEF EntryIsLatest
    <3>7. AnswerSettled'
      BY DEF AnswerSettled
    <3> QED BY <3>3, <3>4, <3>5, <3>6, <3>7, <3>9, <3>10, <3>11
  <2>3. CASE ~(entries[key[r]] = r /\ ~entry[r].finished)
    <3>1. UNCHANGED ledger
      BY <1>5, <2>3 DEF Watch, FinishIfCurrent
    <3> QED BY <2>1, <3>1 DEF ledger, IInv, EntryBelongsToKey,
       RunningOwnsKey, RecordedIsFinal, OwnersLeaveByAnswer, RegisteredIsFinal,
       EntryIsLatest, HeldEntry, AnswerSettled, RetryAdvice, Evictable
  <2> QED BY <2>2, <2>3
<1>6. ASSUME NEW r \in Requests, WaiterAnswered(r)
      PROVE  Rest'
  <2>1. /\ pc[r] = "waiting" /\ entry[held[r]].finished
        /\ Reply(r, RecordedResponse(r))
        /\ UNCHANGED <<entries, entry, nextSequence, evicted, key, held, durable>>
    BY <1>6 DEF WaiterAnswered, ledger
  <2>2. /\ held[r] \in Requests /\ key[held[r]] = key[r] /\ pc[held[r]] \in Owning
        /\ 0 < entry[held[r]].sequence /\ ~(0 < entry[r].sequence) /\ durable[r] = "no"
    BY <2>1 DEF IInv, HeldEntry, TypeOK, OwnersLeaveByAnswer, RegisteredIsFinal
  <2>3. AllowsWholeRequestRetry(RecordedResponse(r)) =>
          \/ key[r] \in evicted
          \/ pc[held[r]] = "replied" /\ AllowsWholeRequestRetry(reply[held[r]])
    BY <2>1, <2>2 DEF IInv, TypeOK, RecordedResponse, RecordedIsFinal, OwnersLeaveByAnswer
  <2>4. entries[key[r]] # r
    BY <2>1 DEF IInv, TypeOK, EntryBelongsToKey
  <2> USE <2>1, <2>2, <2>3, <2>4 DEF IInv, TypeOK, Reply
  <2>5. EntryBelongsToKey' /\ RunningOwnsKey' /\ RecordedIsFinal'
    BY DEF EntryBelongsToKey, RunningOwnsKey, RecordedIsFinal
  <2>6. HeldEntry' /\ AnswerSettled'
    BY DEF HeldEntry, AnswerSettled
  <2>8. OwnersLeaveByAnswer' /\ RegisteredIsFinal' /\ EntryIsLatest'
    BY DEF OwnersLeaveByAnswer, RegisteredIsFinal, EntryIsLatest
  <2>7. RetryAdvice'
    BY DEF RetryAdvice, HeldEntry
  <2> QED BY <2>5, <2>6, <2>7, <2>8
<1>7. ASSUME NEW r \in Requests, WaiterCancelled(r)
      PROVE  Rest'
  <2>1. ~AllowsWholeRequestRetry(Processing)
    BY DEF AllowsWholeRequestRetry, Processing, MakeResponse
  <2> QED
    BY <1>7, <2>1 DEF WaiterCancelled, Reply, ledger, IInv, TypeOK, EntryBelongsToKey,
     RunningOwnsKey, RecordedIsFinal, OwnersLeaveByAnswer, RegisteredIsFinal, EntryIsLatest, HeldEntry,
     AnswerSettled, RetryAdvice
<1>8. ASSUME NEW r \in Requests, StoreRaw(r) \/ Register(r) \/ Panic(r) \/ Disconnect(r)
      PROVE  Rest'
  <2>1. CASE StoreRaw(r) \/ Register(r)
    <3>1. /\ pc[r] = "running"
          /\ \A x \in Requests : x # r => durable'[x] = durable[x]
          /\ UNCHANGED <<entries, entry, nextSequence, evicted, pc, key, held, reply>>
      BY <2>1 DEF StoreRaw, Register, ledger, IInv, TypeOK
    <3>2. 0 < entry[r].sequence
      BY <3>1 DEF IInv, HeldEntry
    <3> USE <3>1, <3>2 DEF IInv, TypeOK
    <3>3. EntryBelongsToKey' /\ RunningOwnsKey' /\ RecordedIsFinal' /\ HeldEntry'
          /\ AnswerSettled'
      BY DEF EntryBelongsToKey, RunningOwnsKey, RecordedIsFinal, HeldEntry, AnswerSettled
    <3>4. OwnersLeaveByAnswer' /\ EntryIsLatest' /\ RetryAdvice'
      BY DEF OwnersLeaveByAnswer, EntryIsLatest, RetryAdvice
    <3>5. RegisteredIsFinal'
      BY DEF RegisteredIsFinal
    <3> QED BY <3>3, <3>4, <3>5
  <2>2. CASE Panic(r)
    <3>1. /\ pc[r] = "running" /\ pc' = [pc EXCEPT ![r] = "dead"]
          /\ UNCHANGED <<entries, entry, nextSequence, evicted, durable, key, held, reply>>
      BY <2>2 DEF Panic, ledger
    <3> USE <3>1 DEF IInv, TypeOK
    <3>2. EntryBelongsToKey' /\ RunningOwnsKey' /\ RecordedIsFinal'
      BY DEF EntryBelongsToKey, RunningOwnsKey, RecordedIsFinal
    <3>3. OwnersLeaveByAnswer' /\ RegisteredIsFinal' /\ EntryIsLatest' /\ HeldEntry'
      BY DEF OwnersLeaveByAnswer, RegisteredIsFinal, EntryIsLatest, HeldEntry
    <3>4. AnswerSettled' /\ RetryAdvice'
      BY DEF AnswerSettled, RetryAdvice, HeldEntry
    <3> QED BY <3>2, <3>3, <3>4
  <2>3. CASE Disconnect(r)
    BY <2>3 DEF Disconnect, ledger, IInv, EntryBelongsToKey, RunningOwnsKey,
       RecordedIsFinal, OwnersLeaveByAnswer, RegisteredIsFinal, EntryIsLatest, HeldEntry,
     AnswerSettled, RetryAdvice
  <2> QED BY <1>8, <2>1, <2>2, <2>3
<1>9. CASE UNCHANGED vars
  BY <1>9 DEF vars, IInv, EntryBelongsToKey, Evictable,
     RunningOwnsKey, RecordedIsFinal, OwnersLeaveByAnswer, RegisteredIsFinal, EntryIsLatest, HeldEntry,
     AnswerSettled, RetryAdvice
<1> QED
  BY <1>1, <1>2, <1>3, <1>4, <1>5, <1>6, <1>7, <1>8, <1>9 DEF Next, Step

-----------------------------------------------------------------------------
LEMMA LedgerInvariant == Spec => []IInv
BY InitIInv, IInvStep, PTL DEF Spec

\* Every reachable ledger state is well typed, for any constants.
THEOREM TypeCorrect == Spec => []TypeOK
BY LedgerInvariant, PTL DEF IInv

\* At most one complete-turn handler runs per idempotency key: disconnects write a
\* pinned placeholder, which eviction skips, so the owner's entry stays in place
\* until the owner itself settles it.
THEOREM SingleOwner == Spec => []SingleOwnerPerKey
<1>1. IInv => SingleOwnerPerKey
  BY DEF IInv, TypeOK, RunningOwnsKey, SingleOwnerPerKey
<1> QED BY <1>1, LedgerInvariant, PTL

\* A key is run again only after eviction or after its last owner's answer that
\* re-opens it, and no such answer follows a registered turn.
THEOREM NoSilentRerun == Spec => []RerunNeedsRetryAnswer
<1>1. IInv => RerunNeedsRetryAnswer
  <2> SUFFICES ASSUME IInv, NEW r \in Requests, NEW s \in Requests, key[r] = key[s],
                      0 < entry[r].sequence, entry[r].sequence < entry[s].sequence
               PROVE  \/ key[r] \in evicted
                      \/ /\ pc[r] = "replied" /\ AllowsWholeRequestRetry(reply[r])
                         /\ durable[r] # "registered"
    BY DEF RerunNeedsRetryAnswer
  <2>1. entries[key[r]] # r
    BY LedgerAssumption DEF IInv, TypeOK, EntryIsLatest
  <2> QED BY <2>1 DEF IInv, OwnersLeaveByAnswer, RegisteredIsFinal
<1> QED BY <1>1, LedgerInvariant, PTL

\* A settled outcome is never overwritten by the late cancellation watcher.
THEOREM SettledKept == Spec => []SettledOutcomeKept
<1>1. IInv => SettledOutcomeKept
  BY DEF IInv, AnswerSettled, SettledOutcomeKept
<1> QED BY <1>1, LedgerInvariant, PTL

\* No waiter is told to resend what its owner was not told to resend, or what its
\* owner registered, short of eviction.
THEOREM RetryAdviceHolds == Spec => []RetryAdviceSound
<1>1. IInv => RetryAdviceSound
  BY LedgerAssumption DEF IInv, TypeOK, RetryAdvice, RegisteredIsFinal, RetryAdviceSound
<1> QED BY <1>1, LedgerInvariant, PTL

-----------------------------------------------------------------------------
(* What the liveness properties rest on: an open entry has an owner that will *)
(* settle it, or a watcher that will.                                         *)

\* An owner's watcher stays until it has recorded the placeholder or the owner
\* has settled the entry; the entry of an owner that panicked stays in place.
OwnersAreWatched ==
  /\ \A k \in Keys : entries[k] # None => held[entries[k]] = entries[k]
  /\ \A r \in Requests :
       /\ held[r] # None => held[held[r]] = held[r]
       /\ pc[r] = "running" =>
            \/ watcher[r] = "armed" /\ ~entry[r].finished
            \/ entry[r].finished /\ entry[r].response = OutcomeUnknown
       /\ pc[r] = "dead" =>
            /\ entries[key[r]] = r
            /\ \/ watcher[r] = "armed" /\ r \in cancelled /\ ~entry[r].finished
               \/ entry[r].finished /\ entry[r].response = OutcomeUnknown
       /\ pc[r] = "replied" /\ held[r] = r => entry[r].finished

\* A request that waits on an open entry waits on a handler that runs, or on
\* the watcher of one that has panicked, which finds the entry in its place; and
\* what is recorded for a panic is the placeholder.
NoEntryIsAbandoned ==
  \A r \in Requests :
    /\ pc[r] = "waiting" /\ ~entry[held[r]].finished =>
         \/ pc[held[r]] = "running"
         \/ /\ watcher[held[r]] = "armed"
            /\ held[r] \in cancelled
            /\ entries[key[r]] = held[r]
    /\ pc[r] = "dead" /\ entry[r].finished =>
         entries[key[r]] = r /\ entry[r].response = OutcomeUnknown

\* A running owner's answer settles its entry.
LEMMA FinishStep ==
  ASSUME IInv, NEW r \in Requests, Finish(r)
  PROVE  /\ pc[r] = "running" /\ entries[key[r]] = r
         /\ entry'[r].finished /\ entries'[key[r]] \in {None, r}
         /\ \A s \in Requests : s # r => entry'[s] = entry[s]
         /\ \A k \in Keys : k # key[r] => entries'[k] = entries[k]
         /\ \A s \in Requests : s # r => pc'[s] = pc[s]
         /\ pc'[r] = "replied" /\ cancelled \subseteq cancelled'
         /\ UNCHANGED <<key, held, watcher>>
<1>1. PICK resp \in HandlerResponses(r) : FinishOwner(r, resp) /\ Reply(r, resp)
  BY DEF Finish
<1>2. resp \in Response
  BY <1>1, HandlerAnswers DEF IInv
<1>3. pc[r] = "running" /\ entries[key[r]] = r
  BY DEF Finish, IInv, RunningOwnsKey
<1>4. Record(r, resp)
  BY <1>1, <1>3 DEF FinishOwner
<1> QED BY <1>1, <1>2, <1>3, <1>4, RecordStep DEF Finish, Reply, IInv, TypeOK

\* The watcher of a cancelled request records the placeholder, which keeps the
\* entry in place, unless the request has settled it.
LEMMA WatchStep ==
  ASSUME IInv, NEW r \in Requests, Watch(r)
  PROVE  /\ watcher[r] = "armed" /\ r \in cancelled
         /\ \A s \in Requests : s # r => entry'[s] = entry[s] /\ watcher'[s] = watcher[s]
         /\ IF entries[key[r]] = r /\ ~entry[r].finished
            THEN entry'[r].finished /\ entry'[r].response = OutcomeUnknown
            ELSE entry'[r] = entry[r]
         /\ UNCHANGED <<entries, pc, key, held, cancelled>>
<1>1. CASE entries[key[r]] = r /\ ~entry[r].finished
  <2>1. Record(r, OutcomeUnknown) /\ OutcomeUnknown \in Response
    BY <1>1, OwnAnswers DEF Watch, FinishIfCurrent
  <2>2. UNCHANGED entries
    BY <2>1, OwnAnswers DEF Record
  <2> QED BY <1>1, <2>1, <2>2, RecordStep DEF Watch, IInv, TypeOK
<1>2. CASE ~(entries[key[r]] = r /\ ~entry[r].finished)
  BY <1>2 DEF Watch, FinishIfCurrent, ledger, IInv, TypeOK
<1> QED BY <1>1, <1>2

LEMMA OwnersInit == Init => OwnersAreWatched
BY DEF Init, OwnersAreWatched

\* One step per action.
LEMMA OwnersNext == IInv /\ OwnersAreWatched /\ [Next]_vars => OwnersAreWatched'
<1> SUFFICES ASSUME IInv, OwnersAreWatched, [Next]_vars PROVE OwnersAreWatched'
  OBVIOUS
<1> USE LedgerAssumption
<1>1. ASSUME NEW r \in Requests, BeginConflict(r) \/ BeginAtCapacity(r)
      PROVE  OwnersAreWatched'
  <2>1. /\ pc[r] = "new" /\ pc' = [pc EXCEPT ![r] = "replied"]
        /\ UNCHANGED <<entries, entry, key, held, watcher, cancelled>>
    BY <1>1 DEF BeginConflict, BeginAtCapacity, Reply, ledger
  <2>2. held[r] = None
    BY <2>1 DEF IInv, HeldEntry
  <2> QED BY <2>1, <2>2 DEF OwnersAreWatched, IInv, TypeOK
<1>2. ASSUME NEW r \in Requests, BeginWait(r)
      PROVE  OwnersAreWatched'
  <2>1. /\ pc[r] = "new" /\ pc' = [pc EXCEPT ![r] = "waiting"]
        /\ held' = [held EXCEPT ![r] = entries[key[r]]] /\ entries[key[r]] \in Requests
        /\ UNCHANGED <<entries, entry, key, watcher, cancelled>>
    BY <1>2 DEF BeginWait, ledger, IInv, TypeOK
  <2>2. \A s \in Requests : held[s] # r
    BY <2>1 DEF IInv, HeldEntry, Owning
  <2>3. \A s \in Requests : s # r => pc'[s] = pc[s] /\ held'[s] = held[s]
    BY <2>1 DEF IInv, TypeOK
  <2>4. pc'[r] = "waiting" /\ held'[r] = entries[key[r]] /\ entries[key[r]] # r
        /\ held[entries[key[r]]] = entries[key[r]]
    BY <2>1, <2>2 DEF OwnersAreWatched, IInv, TypeOK
  <2>5. \A k \in Keys : entries'[k] # None => held'[entries'[k]] = entries'[k]
    BY <2>1, <2>2, <2>3 DEF OwnersAreWatched, IInv, TypeOK
  <2>6. \A s \in Requests : held'[s] # None => held'[held'[s]] = held'[s]
    BY <2>1, <2>2, <2>3, <2>4 DEF OwnersAreWatched, IInv, TypeOK
  <2> QED BY <2>1, <2>3, <2>4, <2>5, <2>6 DEF OwnersAreWatched
<1>3. ASSUME NEW r \in Requests, BeginOwner(r)
      PROVE  OwnersAreWatched'
  <2>1. watcher' = [watcher EXCEPT ![r] = "armed"]
    BY <1>3 DEF BeginOwner, BecomeOwner
  <2>2. \A s \in Requests : s # r =>
           pc'[s] = pc[s] /\ held'[s] = held[s] /\ entry'[s] = entry[s] /\ watcher'[s] = watcher[s]
    BY <1>3, <2>1, OwnerStep DEF IInv, TypeOK
  <2>3. pc'[r] = "running" /\ held'[r] = r /\ watcher'[r] = "armed" /\ ~entry'[r].finished
    BY <1>3, <2>1, OwnerStep DEF IInv, TypeOK, HeldEntry
  <2>4. \A s \in Requests : held[s] # r
    BY <1>3, OwnerStep DEF IInv, HeldEntry, Owning
  <2>5. \A k \in Keys : entries'[k] # None => held'[entries'[k]] = entries'[k]
    BY <1>3, <2>2, <2>3, OwnerStep DEF OwnersAreWatched, IInv, TypeOK
  <2>6. \A s \in Requests : held'[s] # None => held'[held'[s]] = held'[s]
    BY <2>2, <2>3, <2>4 DEF OwnersAreWatched, IInv, TypeOK
  <2>7. ASSUME NEW s \in Requests, pc'[s] = "dead"
        PROVE  entries'[key'[s]] = s
    <3>1. pc[s] = "dead" /\ s # r /\ entries[key[s]] = s
      BY <2>2, <2>3, <2>7 DEF OwnersAreWatched
    <3>2. key[s] \in Keys /\ key[s] # key[r] /\ ~Evictable(key[s])
      BY <1>3, <3>1, OwnerStep, OwnAnswers DEF OwnersAreWatched, IInv, TypeOK, Evictable
    <3> QED BY <1>3, <3>1, <3>2, OwnerStep
  <2> QED BY <1>3, <2>2, <2>3, <2>5, <2>6, <2>7, OwnerStep DEF OwnersAreWatched
<1>4. ASSUME NEW r \in Requests, Finish(r)
      PROVE  OwnersAreWatched'
  <2> USE <1>4, FinishStep
  <2>1. \A k \in Keys : entries'[k] # None => held'[entries'[k]] = entries'[k]
    BY DEF OwnersAreWatched, IInv, TypeOK
  <2>2. ASSUME NEW s \in Requests, pc'[s] = "dead"
        PROVE  s # r /\ entries'[key'[s]] = s
    BY <2>2 DEF OwnersAreWatched, IInv, TypeOK
  <2> QED BY <2>1, <2>2 DEF OwnersAreWatched
<1>5. ASSUME NEW r \in Requests, WaiterAnswered(r) \/ WaiterCancelled(r)
      PROVE  OwnersAreWatched'
  <2>1. /\ pc[r] = "waiting" /\ pc' = [pc EXCEPT ![r] = "replied"]
        /\ UNCHANGED <<entries, entry, key, held, watcher, cancelled>>
    BY <1>5 DEF WaiterAnswered, WaiterCancelled, Reply, ledger
  <2>2. held[r] # r
    BY <2>1 DEF IInv, HeldEntry, Owning
  <2> QED BY <2>1, <2>2 DEF OwnersAreWatched, IInv, TypeOK
<1>6. ASSUME NEW r \in Requests, Watch(r)
      PROVE  OwnersAreWatched'
  BY <1>6, WatchStep DEF OwnersAreWatched, IInv, TypeOK, RunningOwnsKey
<1>7. ASSUME NEW r \in Requests, StoreRaw(r) \/ Register(r) \/ Disconnect(r)
      PROVE  OwnersAreWatched'
  <2>1. UNCHANGED <<entries, entry, pc, key, held, watcher>> /\ cancelled \subseteq cancelled'
    BY <1>7 DEF StoreRaw, Register, Disconnect, ledger
  <2> QED BY <2>1 DEF OwnersAreWatched
<1>8. ASSUME NEW r \in Requests, Panic(r)
      PROVE  OwnersAreWatched'
  <2>1. /\ pc[r] = "running" /\ pc' = [pc EXCEPT ![r] = "dead"]
        /\ cancelled' = cancelled \cup {r}
        /\ UNCHANGED <<entries, entry, key, held, watcher>>
    BY <1>8 DEF Panic, ledger
  <2> QED BY <2>1 DEF OwnersAreWatched, IInv, TypeOK, RunningOwnsKey
<1>9. CASE UNCHANGED vars
  BY <1>9 DEF vars, ledger, OwnersAreWatched
<1> QED BY <1>1, <1>2, <1>3, <1>4, <1>5, <1>6, <1>7, <1>8, <1>9 DEF Next, Step

\* The safety half of the two liveness properties: nobody waits on an entry
\* that nobody will settle, and a panic leaves the placeholder
\* (executeCompleteTurnIdempotent, the watcher's finishIfCurrent).
THEOREM WaitersHaveSomebody == Spec => []NoEntryIsAbandoned
<1>1. IInv /\ OwnersAreWatched => NoEntryIsAbandoned
  <2> SUFFICES ASSUME IInv, OwnersAreWatched, NEW r \in Requests
               PROVE  /\ pc[r] = "waiting" /\ ~entry[held[r]].finished =>
                           \/ pc[held[r]] = "running"
                           \/ /\ watcher[held[r]] = "armed"
                              /\ held[r] \in cancelled
                              /\ entries[key[r]] = held[r]
                      /\ pc[r] = "dead" /\ entry[r].finished =>
                           entries[key[r]] = r /\ entry[r].response = OutcomeUnknown
    BY DEF NoEntryIsAbandoned
  <2>1. pc[r] = "waiting" =>
          /\ held[r] \in Requests /\ key[held[r]] = key[r] /\ pc[held[r]] \in Owning
          /\ held[held[r]] = held[r]
    BY LedgerAssumption DEF IInv, HeldEntry, OwnersAreWatched
  <2> QED BY <2>1 DEF OwnersAreWatched, Owning
<1> QED BY <1>1, OwnersInit, OwnersNext, LedgerInvariant, PTL DEF Spec
================================================================================
