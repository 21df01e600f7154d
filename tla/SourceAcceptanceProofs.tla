------------------------- MODULE SourceAcceptanceProofs -------------------------
(***************************************************************************)
(* Proofs about SourceAcceptance, for every set of requests and revisions, *)
(* every schedule of submissions and rollbacks and any number of crashes,  *)
(* failing transactions, lost audit rows and failing reads.                *)
(*                                                                         *)
(* ContextInv is the inductive invariant of the processing contexts: the   *)
(* entry of the turn is that of a registered request, and two registered   *)
(* requests of one revision know of each other.  ClosedOnRecord is that of *)
(* the discarded answers.  The loops of a load are argued about with the   *)
(* lemmas of LoopTheorems.                                                 *)
(***************************************************************************)
EXTENDS SourceAcceptance, LoopTheorems

-----------------------------------------------------------------------------
(* States, and the loops of loadDurableStateLocked over them.                *)

LEMMA StateFacts ==
    /\ NoState \in States
    /\ \A r \in Revisions, repl \in {"", "pending", "complete"} : Accepted(r, repl) \in States
    /\ \A s, e \in States : Replayed(s, e) \in States
    /\ \A s \in States, f \in Failures : Reverted(s, f) \in States
<1>1. NoState \in States
  BY DEF NoState, States, Lifecycles
<1>2. ASSUME NEW r \in Revisions, NEW repl \in {"", "pending", "complete"}
      PROVE  Accepted(r, repl) \in States
  <2>1. r \in Nat
    BY AcceptanceAssumption
  <2> QED BY <2>1 DEF Accepted, States, Lifecycles
<1>3. \A s, e \in States : Replayed(s, e) \in States
  BY DEF Replayed
<1>4. \A s \in States, f \in Failures : Reverted(s, f) \in States
  BY DEF Reverted, Failures
<1> QED BY <1>1, <1>2, <1>3, <1>4

\* The state that the log keeps of the answer that is replaced.
LEMMA SupersededState ==
    ASSUME NEW s \in States, NEW r \in Revisions
    PROVE  Superseded(s, r) \in States
<1> DEFINE obs == IF r > s.obs THEN r - 1 ELSE s.obs
<1>1. s.obs \in Nat /\ r \in Nat \ {0}
  BY AcceptanceAssumption DEF States
<1>2. obs \in Nat
  BY <1>1
<1>3. Superseded(s, r) = [s EXCEPT !.life = "superseded", !.obs = obs]
  BY DEF Superseded
<1> HIDE DEF obs
<1> QED BY <1>2, <1>3 DEF States, Lifecycles

\* Each transition that is read back leaves a state.
LEMMA ReplayedState ==
    ASSUME NEW events \in Seq(States), NEW state \in States
    PROVE  ReplayedFrom(events, state) \in States
<1> DEFINE N == Len(events)
           Body(f) == [n \in 0..N |-> IF n = 0 THEN state ELSE Replayed(f[n-1], events[n])]
           pass == CHOOSE f : f = Body(f)
           step == [n \in 1..N |-> [s \in States |-> Replayed(s, events[n])]]
<1>1. N \in Nat /\ \A n \in 1..N : events[n] \in States
  OBVIOUS
<1>2. ReplayedFrom(events, state) = pass[N]
  BY DEF ReplayedFrom
<1>3. step \in [1..N -> [States -> States]]
  BY <1>1, StateFacts
<1>4. \A n \in 1..N, s \in States : step[n][s] = Replayed(s, events[n])
  OBVIOUS
<1> HIDE DEF N, step
<1>5. Runs(N, States, state, step) # {}
  <2>1. step \in Bodies(N, States)
    BY <1>3 DEF Bodies
  <2> QED BY <1>1, <2>1, LoopIsDefined
<1>6. \A n \in 1..N : n \in 0..N /\ n # 0 /\ n - 1 \in 0..N
  BY <1>1
<1>7. \E f : f = Body(f)
  <2>1. PICK f \in [0..N -> States] : f[0] = state /\ \A n \in 1..N : f[n] = step[n][f[n-1]]
    BY <1>5 DEF Runs
  <2>2. \A n \in 0..N : n # 0 => n \in 1..N /\ f[n-1] \in States
    <3>1. \A n \in 0..N : n # 0 => n \in 1..N /\ n - 1 \in 0..N
      BY <1>1
    <3> HIDE DEF States
    <3> QED BY <2>1, <3>1
  <2>3. f = Body(f)
    BY <1>4, <2>1, <2>2
  <2> QED BY <2>3
<1>8. pass = Body(pass)
  BY <1>7
<1> HIDE DEF pass
<1>9. pass[0] = state /\ \A n \in 1..N : pass[n] = Replayed(pass[n-1], events[n])
  BY <1>1, <1>6, <1>8
<1> DEFINE T == {n \in 0..N : pass[n] \in States}
<1>10. 0 \in T
  BY <1>1, <1>9
<1>11. \A n \in 1..N : n - 1 \in T => n \in T
  BY <1>1, <1>6, <1>9, StateFacts
<1>12. \A n \in 0..N : n \in T
  <2> HIDE DEF T
  <2> QED BY <1>1, <1>10, <1>11, RangeInduction
<1> QED BY <1>1, <1>2, <1>12

\* Each failure that is read back leaves a state.
LEMMA RevertedState ==
    ASSUME NEW events \in Seq(Failures), NEW state \in States
    PROVE  RevertedBy(events, state) \in States
<1> DEFINE N == Len(events)
           Body(f) == [n \in 0..N |-> IF n = 0 THEN state ELSE Reverted(f[n-1], events[n])]
           pass == CHOOSE f : f = Body(f)
           step == [n \in 1..N |-> [s \in States |-> Reverted(s, events[n])]]
<1>1. N \in Nat /\ \A n \in 1..N : events[n] \in Failures
  OBVIOUS
<1>2. RevertedBy(events, state) = pass[N]
  BY DEF RevertedBy
<1>3. step \in [1..N -> [States -> States]]
  BY <1>1, StateFacts
<1>4. \A n \in 1..N, s \in States : step[n][s] = Reverted(s, events[n])
  OBVIOUS
<1> HIDE DEF N, step
<1>5. Runs(N, States, state, step) # {}
  <2>1. step \in Bodies(N, States)
    BY <1>3 DEF Bodies
  <2> QED BY <1>1, <2>1, LoopIsDefined
<1>6. \A n \in 1..N : n \in 0..N /\ n # 0 /\ n - 1 \in 0..N
  BY <1>1
<1>7. \E f : f = Body(f)
  <2>1. PICK f \in [0..N -> States] : f[0] = state /\ \A n \in 1..N : f[n] = step[n][f[n-1]]
    BY <1>5 DEF Runs
  <2>2. \A n \in 0..N : n # 0 => n \in 1..N /\ f[n-1] \in States
    <3>1. \A n \in 0..N : n # 0 => n \in 1..N /\ n - 1 \in 0..N
      BY <1>1
    <3> HIDE DEF States
    <3> QED BY <2>1, <3>1
  <2>3. f = Body(f)
    BY <1>4, <2>1, <2>2
  <2> QED BY <2>3
<1>8. pass = Body(pass)
  BY <1>7
<1> HIDE DEF pass
<1>9. pass[0] = state /\ \A n \in 1..N : pass[n] = Reverted(pass[n-1], events[n])
  BY <1>1, <1>6, <1>8
<1> DEFINE T == {n \in 0..N : pass[n] \in States}
<1>10. 0 \in T
  BY <1>1, <1>9
<1>11. \A n \in 1..N : n - 1 \in T => n \in T
  BY <1>1, <1>6, <1>9, StateFacts
<1>12. \A n \in 0..N : n \in T
  <2> HIDE DEF T
  <2> QED BY <1>1, <1>10, <1>11, RangeInduction
<1> QED BY <1>1, <1>2, <1>12

\* What a load yields: a state of the turn, and the discards whose reads
\* succeeded.
LEMMA LoadedFacts ==
    ASSUME TypeOK, NEW lost
    PROVE  /\ Loaded(lost) \in States
           /\ LoadedFence(lost) \in Nat
           /\ "invalidations" \notin lost => savedFence <= LoadedFence(lost)
           /\ LoadedTerminal(lost) \in SUBSET Revisions
           /\ "failures" \notin lost =>
                \A i \in DOMAIN failures :
                    failures[i].terminal => failures[i].rev \in LoadedTerminal(lost)
<1>1. active # 0 => active \in Revisions
  BY DEF TypeOK
<1> DEFINE T == Read(transitions, "transitions", lost)
           F == Read(failures, "failures", lost)
<1>2. T \in Seq(States)
  BY DEF TypeOK, Read
<1>3. F \in Seq(Failures)
  BY DEF TypeOK, Read
<1>4. Loaded(lost) \in States
  <2>1. CASE active # 0 /\ "sources" \notin lost
    BY <1>1, <2>1, StateFacts DEF Loaded
  <2>2. CASE ~(active # 0 /\ "sources" \notin lost)
    <3>1. Loaded(lost) = RevertedBy(F, ReplayedFrom(T, current))
      BY <2>2 DEF Loaded
    <3>2. current \in States
      BY DEF TypeOK
    <3> HIDE DEF T, F
    <3>3. ReplayedFrom(T, current) \in States
      BY <1>2, <3>2, ReplayedState
    <3> QED BY <1>3, <3>1, <3>3, RevertedState
  <2> QED BY <2>1, <2>2
<1>5. LoadedFence(lost) \in Nat /\ ("invalidations" \notin lost => savedFence <= LoadedFence(lost))
  BY DEF TypeOK, LoadedFence
<1>6. \A i \in DOMAIN F : F[i].rev \in Revisions
  <2> HIDE DEF F
  <2>1. \A i \in DOMAIN F : F[i] \in Failures
    BY <1>3
  <2> QED BY <2>1 DEF Failures
<1>7. LoadedTerminal(lost) = terminal \cup {F[i].rev : i \in {j \in DOMAIN F : F[j].terminal}}
  BY DEF LoadedTerminal
<1>8. LoadedTerminal(lost) \in SUBSET Revisions
  <2> HIDE DEF F
  <2> QED BY <1>6, <1>7 DEF TypeOK
<1>9. ASSUME "failures" \notin lost, NEW i \in DOMAIN failures, failures[i].terminal
      PROVE  failures[i].rev \in LoadedTerminal(lost)
  <2>1. F = failures
    BY <1>9 DEF Read
  <2> QED BY <1>7, <1>9, <2>1
<1> QED BY <1>4, <1>5, <1>8, <1>9

-----------------------------------------------------------------------------
(* The invariant.                                                            *)

\* The steps of a request that has asked for its processing context.
Joined == {"verify", "saveUser", "saveAssistant", "register", "critic", "derive", "release"}

\* A request that runs is one of a revision, and is registered only from its
\* join to its release.
RequestsRun ==
    \A q \in Requests :
        /\ Running(q) => req[q].rev \in Revisions
        /\ req[q].registered => req[q].pc \in Joined

\* The entry of the turn is that of a registered request.
EntryRegistered == worker # NoRequest => req[worker].registered

\* Two registered requests of one revision know of each other.
SharedMarked ==
    \A p, q \in Requests :
        /\ p # q
        /\ req[p].registered
        /\ req[q].registered
        /\ req[p].rev = req[q].rev
        => req[p].shared

ContextInv == RequestsRun /\ EntryRegistered /\ SharedMarked /\ LiveContextOnRecord

\* That an answer is discarded is on record in the audit log.
ClosedOnRecord ==
    \A r \in closed :
        \/ r <= savedFence
        \/ \E i \in DOMAIN failures : failures[i].terminal /\ failures[i].rev = r

AcceptanceInv == TypeOK /\ ContextInv /\ ActiveSourceMatchesRaw /\ ClosedOnRecord

-----------------------------------------------------------------------------
(* Steps of one request that leave the contexts alone.                       *)

\* The parts of a request that the invariant of the contexts is about.
SameContext(g, x) ==
    g.rev = x.rev /\ g.registered = x.registered /\ g.cancelled = x.cancelled /\ g.shared = x.shared

\* What these steps make of the request q.
Moves(q, g) ==
    /\ g \in RequestStates
    /\ Running(q)
    /\ g.pc # "idle"
    /\ g.registered = req[q].registered
    /\ g.pc # "done" => g.rev = req[q].rev
    /\ g.registered => /\ g.pc \in Joined
                       /\ g.cancelled = req[q].cancelled
                       /\ g.shared = req[q].shared

LEMMA StepNames ==
    /\ Joined \subseteq Steps
    /\ {"idle", "check", "replace", "complete", "saveComplete", "fail",
        "saveFailure", "preflight", "enter", "done"} \subseteq Steps
    /\ {"idle", "check", "replace", "complete", "saveComplete", "fail",
        "saveFailure", "preflight", "enter", "done"} \cap Joined = {}
BY DEF Joined, Steps

LEMMA EndedRequest ==
    /\ Idle \in RequestStates /\ Idle.pc = "idle" /\ Idle.registered = FALSE
    /\ Done \in RequestStates /\ Done.pc = "done" /\ Done.registered = FALSE
BY StateFacts DEF Idle, Done, RequestStates, Steps

LEMMA Updates ==
    ASSUME NEW x \in RequestStates, NEW pc \in Steps, NEW b \in BOOLEAN, NEW c \in BOOLEAN,
           NEW s \in States
    PROVE  \A g \in {[x EXCEPT !.pc = pc],
                     [x EXCEPT !.pc = pc, !.prev = s],
                     [x EXCEPT !.pc = pc, !.prev = s, !.user = b, !.assistant = c],
                     [x EXCEPT !.pc = pc, !.user = b]} :
               g \in RequestStates /\ g.pc = pc /\ SameContext(g, x)
<1>1. LET g == [x EXCEPT !.pc = pc] IN g \in RequestStates /\ g.pc = pc /\ SameContext(g, x)
  BY DEF RequestStates, SameContext
<1>2. LET g == [x EXCEPT !.pc = pc, !.prev = s]
      IN  g \in RequestStates /\ g.pc = pc /\ SameContext(g, x)
  BY DEF RequestStates, SameContext
<1>3. LET g == [x EXCEPT !.pc = pc, !.prev = s, !.user = b, !.assistant = c]
      IN  g \in RequestStates /\ g.pc = pc /\ SameContext(g, x)
  BY DEF RequestStates, SameContext
<1>4. LET g == [x EXCEPT !.pc = pc, !.user = b]
      IN  g \in RequestStates /\ g.pc = pc /\ SameContext(g, x)
  BY DEF RequestStates, SameContext
<1> HIDE DEF RequestStates, SameContext
<1> QED BY <1>1, <1>2, <1>3, <1>4

\* A request goes on from one step to another, or ends unregistered.
LEMMA MoveForms ==
    ASSUME TypeOK, ContextInv, NEW q \in Requests, Running(q)
    PROVE  /\ ~req[q].registered => Moves(q, Done)
           /\ \A g \in RequestStates :
                /\ SameContext(g, req[q])
                /\ g.pc \notin {"idle", "done"}
                /\ req[q].pc \in Joined => g.pc \in Joined
                => Moves(q, g)
<1>1. req[q] \in RequestStates /\ req[q].registered \in BOOLEAN
  BY DEF TypeOK, RequestStates
<1>2. ~req[q].registered => Moves(q, Done)
  <2>1. ~req[q].registered => req[q].registered = FALSE
    BY <1>1, Zenon
  <2> QED BY <2>1, EndedRequest DEF Moves
<1>3. ASSUME NEW g \in RequestStates, SameContext(g, req[q]), g.pc \notin {"idle", "done"},
             req[q].pc \in Joined => g.pc \in Joined
      PROVE  Moves(q, g)
  BY <1>3 DEF Moves, SameContext, ContextInv, RequestsRun
<1> QED BY <1>2, <1>3

\* Such a step keeps the invariant of the contexts.
LEMMA MoveKeeps ==
    ASSUME TypeOK, ContextInv, NEW q \in Requests, NEW g, Moves(q, g),
           req' = [req EXCEPT ![q] = g], worker' = worker
    PROVE  ContextInv' /\ req' \in [Requests -> RequestStates]
<1>1. req \in [Requests -> RequestStates] /\ worker \in Requests \cup {NoRequest}
  BY DEF TypeOK
<1>2. req' \in [Requests -> RequestStates]
  BY <1>1 DEF Moves
<1>3. req'[q] = g /\ \A p \in Requests : p # q => req'[p] = req[p]
  BY <1>1
<1>4. /\ g.registered = req[q].registered
      /\ g.pc # "idle" /\ Running(q)
      /\ g.pc # "done" => g.rev = req[q].rev
      /\ g.registered => /\ g.pc \in Joined
                         /\ g.cancelled = req[q].cancelled
                         /\ g.shared = req[q].shared
  BY DEF Moves
<1>5. g.registered => g.rev = req[q].rev
  BY <1>4 DEF Joined
<1>6. RequestsRun'
  BY <1>3, <1>4 DEF ContextInv, RequestsRun, Running
<1>7. EntryRegistered'
  BY <1>1, <1>3, <1>4 DEF ContextInv, EntryRegistered
<1>8. SharedMarked'
  BY <1>3, <1>4, <1>5 DEF ContextInv, SharedMarked
<1>9. LiveContextOnRecord'
  BY <1>3, <1>4 DEF ContextInv, LiveContextOnRecord
<1> QED BY <1>2, <1>6, <1>7, <1>8, <1>9 DEF ContextInv

\* The steps of a request between its acceptance and its join.
LEMMA ReplacementMoves ==
    ASSUME TypeOK, ContextInv, NEW q \in Requests, Replacement(q)
    PROVE  \E g : Moves(q, g) /\ req' = [req EXCEPT ![q] = g]
<1> DEFINE x == req[q]
<1>1. req \in [Requests -> RequestStates] /\ x \in RequestStates
  BY DEF TypeOK
<1>2. x.pc \in Steps /\ Running(q) /\ x.pc \notin Joined
  <2>1. x.pc \in {"check", "replace", "complete", "saveComplete", "fail", "saveFailure"}
    BY DEF Replacement, CheckBeforeReplace, Replace, ReplaceFails, ReplaceUnknown,
           ReplacementCompleted, SaveCompleted, ReplacementFailed, SaveFailure, At
  <2> QED BY <2>1, StepNames DEF Running
<1>3. ~x.registered
  BY <1>2 DEF ContextInv, RequestsRun
<1>4. Moves(q, Done)
  BY <1>2, <1>3, MoveForms
<1>5. \A g \in RequestStates : SameContext(g, x) /\ g.pc \notin {"idle", "done"} => Moves(q, g)
  BY <1>2, MoveForms
<1> HIDE DEF Moves, SameContext
<1>6. End(q) => \E g : Moves(q, g) /\ req' = [req EXCEPT ![q] = g]
  BY <1>4 DEF End
<1>7. ASSUME NEW pc \in Steps \ {"idle", "done"}, Go(q, pc)
      PROVE  \E g : Moves(q, g) /\ req' = [req EXCEPT ![q] = g]
  <2> DEFINE g == [x EXCEPT !.pc = pc]
  <2>1. req' = [req EXCEPT ![q] = g]
    BY <1>1, <1>7 DEF Go
  <2>2. g \in RequestStates /\ g.pc = pc /\ SameContext(g, x)
    <3>1. \E b \in BOOLEAN, s \in States : TRUE
      BY StateFacts
    <3> QED BY <1>1, <1>7, <3>1, Updates
  <2> HIDE DEF g, x
  <2>3. Moves(q, g)
    BY <1>5, <1>7, <2>2
  <2> QED BY <2>1, <2>3
<1>8. CASE CheckBeforeReplace(q)
  BY <1>6, <1>7, <1>8, StepNames DEF CheckBeforeReplace
<1>9. CASE Replace(q)
  BY <1>7, <1>9, StepNames DEF Replace
<1>10. CASE ReplaceFails(q)
  <2>1. PICK final \in BOOLEAN : req' = [req EXCEPT ![q].pc = "fail", ![q].terminal = final]
    BY <1>10 DEF ReplaceFails
  <2> DEFINE g == [x EXCEPT !.pc = "fail", !.terminal = final]
  <2>2. req' = [req EXCEPT ![q] = g]
    BY <1>1, <2>1 DEF RequestStates
  <2>3. g \in RequestStates /\ g.pc = "fail" /\ SameContext(g, x)
    BY <1>1, <2>1 DEF RequestStates, SameContext, Steps
  <2> HIDE DEF g, x
  <2>4. Moves(q, g)
    BY <1>5, <2>3
  <2> QED BY <2>2, <2>4
<1>11. CASE ReplaceUnknown(q)
  BY <1>6, <1>11 DEF ReplaceUnknown
<1>12. ASSUME AfterReplacement(q)
       PROVE  \E g : Moves(q, g) /\ req' = [req EXCEPT ![q] = g]
  <2>1. CASE req' = [req EXCEPT ![q].pc = "enter", ![q].prev = NoState,
                                ![q].user = TRUE, ![q].assistant = TRUE]
    <3> DEFINE g == [x EXCEPT !.pc = "enter", !.prev = NoState, !.user = TRUE, !.assistant = TRUE]
    <3>1. req' = [req EXCEPT ![q] = g]
      BY <1>1, <2>1 DEF RequestStates
    <3>2. g \in RequestStates /\ g.pc = "enter" /\ SameContext(g, x)
      BY <1>1, StateFacts, StepNames, Updates
    <3> HIDE DEF g, x
    <3>3. Moves(q, g)
      BY <1>5, <3>2
    <3> QED BY <3>1, <3>3
  <2> QED BY <1>6, <1>12, <2>1 DEF AfterReplacement
<1>13. CASE ReplacementCompleted(q)
  <2>1. CASE current' = [current EXCEPT !.repl = "complete"]
             /\ req' = [req EXCEPT ![q].pc = "saveComplete", ![q].prev = current']
    <3> DEFINE g == [x EXCEPT !.pc = "saveComplete", !.prev = current']
    <3>1. current' \in States
      BY <2>1 DEF TypeOK, States
    <3>2. req' = [req EXCEPT ![q] = g]
      BY <1>1, <2>1 DEF RequestStates
    <3>3. g \in RequestStates /\ g.pc = "saveComplete" /\ SameContext(g, x)
      BY <1>1, <3>1, StepNames, Updates
    <3> HIDE DEF g, x
    <3>4. Moves(q, g)
      BY <1>5, <3>3
    <3> QED BY <3>2, <3>4
  <2> QED BY <1>12, <1>13, <2>1 DEF ReplacementCompleted
<1>14. CASE SaveCompleted(q)
  BY <1>12, <1>14 DEF SaveCompleted
<1>15. CASE ReplacementFailed(q)
  BY <1>7, <1>15, StepNames DEF ReplacementFailed
<1>16. CASE SaveFailure(q)
  BY <1>6, <1>16 DEF SaveFailure
<1> QED BY <1>8, <1>9, <1>10, <1>11, <1>13, <1>14, <1>15, <1>16 DEF Replacement

\* The steps of a request around its raw rows and the Critic.
LEMMA TurnMoves ==
    ASSUME TypeOK, ContextInv, NEW q \in Requests,
           \/ Preflight(q) \/ Leave(q) \/ CheckBeforePersistence(q) \/ SaveUser(q)
           \/ SaveAssistant(q) \/ Register(q) \/ CheckAfterCritic(q) \/ Derive(q)
           \/ ProcessingContext(q) /\ ~StillCurrent(q)
    PROVE  \E g : Moves(q, g) /\ req' = [req EXCEPT ![q] = g]
<1> DEFINE x == req[q]
<1>1. /\ req \in [Requests -> RequestStates] /\ x \in RequestStates
      /\ raw.user \in BOOLEAN /\ (raw.assistant # 0) \in BOOLEAN
  BY DEF TypeOK
<1>2. x.pc \in {"check", "preflight", "enter"} \cup (Joined \ {"release"})
  BY DEF Preflight, Leave, CheckBeforePersistence, SaveUser, SaveAssistant, Register,
         CheckAfterCritic, Derive, ProcessingContext, At, Joined
<1>3. Running(q)
  BY <1>2, StepNames DEF Running
<1>4. x.pc \in {"check", "preflight", "enter"} => ~x.registered /\ x.pc \notin Joined
  BY StepNames DEF ContextInv, RequestsRun
<1>5. x.pc \in {"check", "preflight", "enter"} => Moves(q, Done)
  BY <1>3, <1>4, MoveForms
<1>6. \A g \in RequestStates :
         /\ SameContext(g, x)
         /\ g.pc \notin {"idle", "done"}
         /\ x.pc \in Joined => g.pc \in Joined
         => Moves(q, g)
  BY <1>3, MoveForms
<1> HIDE DEF Moves, SameContext
<1>7. End(q) /\ x.pc \in {"check", "preflight", "enter"} =>
         \E g : Moves(q, g) /\ req' = [req EXCEPT ![q] = g]
  BY <1>5 DEF End
<1>8. ASSUME NEW pc \in Steps \ {"idle", "done"}, Go(q, pc), x.pc \in Joined => pc \in Joined
      PROVE  \E g : Moves(q, g) /\ req' = [req EXCEPT ![q] = g]
  <2> DEFINE g == [x EXCEPT !.pc = pc]
  <2>1. req' = [req EXCEPT ![q] = g]
    BY <1>1, <1>8 DEF Go
  <2>2. g \in RequestStates /\ g.pc = pc /\ SameContext(g, x)
    <3>1. \E b \in BOOLEAN, s \in States : TRUE
      BY StateFacts
    <3> QED BY <1>1, <1>8, <3>1, Updates
  <2> HIDE DEF g, x
  <2>3. Moves(q, g)
    BY <1>6, <1>8, <2>2
  <2> QED BY <2>1, <2>3
<1>9. {"saveUser", "saveAssistant", "register", "critic", "derive", "release"} \subseteq Joined
  BY DEF Joined
<1>10. CASE Preflight(q)
  <2> DEFINE g == [x EXCEPT !.pc = "enter", !.user = raw.user, !.assistant = raw.assistant # 0]
  <2>0. x.pc = "preflight"
    BY <1>10 DEF Preflight, At
  <2>1. req' = [req EXCEPT ![q] = g] \/ End(q) \/ Go(q, "enter")
    BY <1>10 DEF Preflight
  <2>2. g \in RequestStates /\ g.pc = "enter" /\ SameContext(g, x)
    BY <1>1 DEF RequestStates, SameContext, Steps
  <2> HIDE DEF g, x
  <2>3. Moves(q, g)
    BY <1>6, <2>0, <2>2, StepNames
  <2> QED BY <1>7, <1>8, <2>0, <2>1, <2>3, StepNames
<1>11. CASE Leave(q)
  BY <1>7, <1>11 DEF Leave
<1>12. CASE CheckBeforePersistence(q)
  BY <1>8, <1>9, <1>12, StepNames DEF CheckBeforePersistence
<1>13. CASE SaveUser(q)
  <2> DEFINE g == [x EXCEPT !.pc = "saveAssistant", !.user = TRUE]
  <2>1. req' = [req EXCEPT ![q].pc = "saveAssistant", ![q].user = TRUE] \/ Go(q, "saveAssistant")
    BY <1>13 DEF SaveUser
  <2>2. req' = [req EXCEPT ![q] = g] \/ Go(q, "saveAssistant")
    BY <1>1, <2>1 DEF RequestStates
  <2>3. g \in RequestStates /\ g.pc = "saveAssistant" /\ SameContext(g, x)
    BY <1>1, <1>9, StateFacts, StepNames, Updates
  <2> HIDE DEF g, x
  <2>4. Moves(q, g)
    BY <1>6, <1>9, <2>3
  <2> QED BY <1>8, <1>9, <2>2, <2>4, StepNames
<1>14. CASE SaveAssistant(q)
  <2>1. PICK b \in BOOLEAN : \/ req' = [req EXCEPT ![q].pc = "register", ![q].assistant = b]
                             \/ Go(q, "register")
    BY <1>14 DEF SaveAssistant
  <2> DEFINE g == [x EXCEPT !.pc = "register", !.assistant = b]
  <2>2. req' = [req EXCEPT ![q] = g] \/ Go(q, "register")
    BY <1>1, <2>1 DEF RequestStates
  <2>3. g \in RequestStates /\ g.pc = "register" /\ SameContext(g, x)
    BY <1>1, <2>1 DEF RequestStates, SameContext, Steps
  <2> HIDE DEF g, x
  <2>4. Moves(q, g)
    BY <1>6, <1>9, <2>3
  <2> QED BY <1>8, <1>9, <2>2, <2>4, StepNames
<1>15. CASE Register(q)
  BY <1>8, <1>9, <1>15, StepNames DEF Register
<1>16. CASE CheckAfterCritic(q)
  BY <1>8, <1>9, <1>16, StepNames DEF CheckAfterCritic
<1>17. CASE Derive(q)
  BY <1>8, <1>9, <1>17, StepNames DEF Derive
<1>18. CASE ProcessingContext(q) /\ ~StillCurrent(q)
  <2> DEFINE g == [x EXCEPT !.pc = "verify", !.cancelled = TRUE]
  <2>1. x.pc = "enter" /\ req' = [req EXCEPT ![q].pc = "verify", ![q].cancelled = TRUE]
    BY <1>18 DEF ProcessingContext, At
  <2>2. req' = [req EXCEPT ![q] = g]
    BY <1>1, <2>1 DEF RequestStates
  <2>3. /\ g \in RequestStates /\ g.pc = "verify" /\ g.rev = x.rev
        /\ g.registered = x.registered
    BY <1>1 DEF RequestStates, Steps
  <2>4. ~g.registered
    BY <1>4, <2>1, <2>3
  <2> HIDE DEF g
  <2>5. Moves(q, g)
    BY <1>3, <2>3, <2>4 DEF Moves
  <2> QED BY <2>2, <2>5
<1> QED BY <1>10, <1>11, <1>12, <1>13, <1>14, <1>15, <1>16, <1>17, <1>18

-----------------------------------------------------------------------------
(* Steps that change who is on record.                                       *)

\* Only the context of another revision's entry is cancelled.
LEMMA CancelFacts ==
    ASSUME TypeOK, NEW r
    PROVE  /\ CancelOther(r) \in [Requests -> RequestStates]
           /\ \A p \in Requests :
                /\ CancelOther(r)[p].pc = req[p].pc
                /\ CancelOther(r)[p].rev = req[p].rev
                /\ CancelOther(r)[p].registered = req[p].registered
                /\ CancelOther(r)[p].shared = req[p].shared
                /\ ~CancelOther(r)[p].cancelled =>
                     ~req[p].cancelled /\ ~(p = worker /\ req[p].rev # r)
<1>1. ASSUME NEW p \in Requests
      PROVE  /\ CancelOther(r)[p] \in RequestStates
             /\ CancelOther(r)[p].pc = req[p].pc
             /\ CancelOther(r)[p].rev = req[p].rev
             /\ CancelOther(r)[p].registered = req[p].registered
             /\ CancelOther(r)[p].shared = req[p].shared
             /\ ~CancelOther(r)[p].cancelled =>
                  ~req[p].cancelled /\ ~(p = worker /\ req[p].rev # r)
  <2>1. req[p] \in RequestStates
    BY DEF TypeOK
  <2>2. CancelOther(r)[p] = IF p = worker /\ req[p].rev # r
                            THEN [req[p] EXCEPT !.cancelled = TRUE] ELSE req[p]
    BY DEF CancelOther
  <2>3. CASE p = worker /\ req[p].rev # r
    BY <2>1, <2>2, <2>3 DEF RequestStates
  <2>4. CASE ~(p = worker /\ req[p].rev # r)
    BY <2>1, <2>2, <2>4
  <2> QED BY <2>3, <2>4
<1>2. CancelOther(r) \in [Requests -> RequestStates]
  <2>1. CancelOther(r) = [p \in Requests |-> CancelOther(r)[p]]
    BY DEF CancelOther
  <2> HIDE DEF CancelOther
  <2> QED BY <1>1, <2>1
<1> QED BY <1>1, <1>2

\* A request that was idle starts, or is rejected at once.
LEMMA StartKeeps ==
    ASSUME TypeOK, ContextInv, NEW q \in Requests, At(q, "idle"),
           NEW g \in RequestStates, g.registered = FALSE,
           g.pc = "done" \/ g.rev \in Revisions,
           \/ req' = [req EXCEPT ![q] = g] /\ worker' = worker
           \/ /\ g.rev \in Revisions
              /\ req' = [CancelOther(g.rev) EXCEPT ![q] = g]
              /\ worker' = IF EntryOf(g.rev) THEN worker ELSE NoRequest
    PROVE  ContextInv' /\ req' \in [Requests -> RequestStates]
                       /\ worker' \in Requests \cup {NoRequest}
           /\ req'[q] = g /\ \A p \in Requests \ {q} : req'[p].pc = req[p].pc
<1>1. req \in [Requests -> RequestStates] /\ worker \in Requests \cup {NoRequest}
  BY DEF TypeOK
<1>2. ~req[q].registered
  BY StepNames DEF At, ContextInv, RequestsRun
<1>3. worker # q
  BY <1>2, AcceptanceAssumption DEF ContextInv, EntryRegistered
<1>4. req' \in [Requests -> RequestStates] /\ worker' \in {worker, NoRequest}
  BY <1>1, CancelFacts
<1>5. /\ req'[q] = g
      /\ \A p \in Requests \ {q} :
            /\ req'[p].pc = req[p].pc /\ req'[p].rev = req[p].rev
            /\ req'[p].registered = req[p].registered /\ req'[p].shared = req[p].shared
            /\ ~req'[p].cancelled => ~req[p].cancelled /\ (worker = p => worker' = p)
  <2>1. CASE req' = [req EXCEPT ![q] = g] /\ worker' = worker
    BY <1>1, <2>1
  <2>2. CASE /\ g.rev \in Revisions
             /\ req' = [CancelOther(g.rev) EXCEPT ![q] = g]
             /\ worker' = IF EntryOf(g.rev) THEN worker ELSE NoRequest
    <3> DEFINE C == CancelOther(g.rev)
    <3>1. C \in [Requests -> RequestStates]
      BY CancelFacts
    <3>2. req' = [C EXCEPT ![q] = g]
      BY <2>2
    <3>3. req'[q] = g /\ \A p \in Requests \ {q} : req'[p] = C[p]
      <4> HIDE DEF C
      <4> QED BY <3>1, <3>2
    <3>4. \A p \in Requests : worker = p /\ req[p].rev = g.rev => worker' = p
      BY <2>2, AcceptanceAssumption DEF EntryOf
    <3> QED BY <3>3, <3>4, CancelFacts
  <2> QED BY <2>1, <2>2
<1>6. RequestsRun'
  BY <1>5 DEF ContextInv, RequestsRun, Running
<1>7. EntryRegistered'
  BY <1>1, <1>3, <1>4, <1>5 DEF ContextInv, EntryRegistered
<1>8. SharedMarked'
  BY <1>5 DEF ContextInv, SharedMarked
<1>9. LiveContextOnRecord'
  BY <1>5 DEF ContextInv, LiveContextOnRecord
<1> QED BY <1>1, <1>4, <1>5, <1>6, <1>7, <1>8, <1>9 DEF ContextInv

\* The request registers its context.
LEMMA JoinKeeps ==
    ASSUME TypeOK, ContextInv, NEW q \in Requests, ProcessingContext(q), StillCurrent(q)
    PROVE  ContextInv' /\ req' \in [Requests -> RequestStates] /\ worker' = q
           /\ \A p \in Requests \ {q} : req'[p].pc = req[p].pc
<1> DEFINE x == req[q]
           g == [x EXCEPT !.pc = "verify", !.registered = TRUE, !.shared = Peers(q) # {}]
           C == CancelOther(x.rev)
<1>1. /\ req \in [Requests -> RequestStates] /\ worker \in Requests \cup {NoRequest}
      /\ x \in RequestStates
  BY DEF TypeOK
<1>2. /\ x.pc = "enter" /\ worker' = q
      /\ req' = [p \in Requests |-> IF p = q THEN g
                                    ELSE IF p \in Peers(q) THEN [req[p] EXCEPT !.shared = TRUE]
                                    ELSE C[p]]
  BY DEF ProcessingContext, At
<1>3. ~x.registered /\ x.rev \in Revisions
  BY <1>2, StepNames DEF ContextInv, RequestsRun, Running
<1>4. worker # q
  BY <1>3, AcceptanceAssumption DEF ContextInv, EntryRegistered
<1>5. /\ g \in RequestStates /\ g.pc = "verify" /\ g.rev = x.rev
      /\ g.registered = TRUE /\ g.shared = (Peers(q) # {})
  <2> DEFINE b == Peers(q) # {}
  <2>1. b \in BOOLEAN
    OBVIOUS
  <2> HIDE DEF b
  <2>2. LET h == [x EXCEPT !.pc = "verify", !.registered = TRUE, !.shared = b]
        IN  /\ h \in RequestStates /\ h.pc = "verify" /\ h.rev = x.rev
            /\ h.registered = TRUE /\ h.shared = b
    BY <1>1, <2>1 DEF RequestStates, Steps
  <2> QED BY <2>2 DEF b
<1>6. ASSUME NEW p \in Requests \ {q}
      PROVE  /\ req'[p] \in RequestStates
             /\ req'[p].pc = req[p].pc /\ req'[p].rev = req[p].rev
             /\ req'[p].registered = req[p].registered
             /\ req[p].shared => req'[p].shared
             /\ p \in Peers(q) => req'[p].shared
             /\ ~req'[p].cancelled =>
                   ~req[p].cancelled /\ (p \in Peers(q) \/ ~(p = worker /\ req[p].rev # x.rev))
  <2>1. CASE p \in Peers(q)
    <3>1. req'[p] = [req[p] EXCEPT !.shared = TRUE] /\ req[p] \in RequestStates
      BY <1>1, <1>2, <2>1
    <3> QED BY <2>1, <3>1 DEF RequestStates
  <2>2. CASE p \notin Peers(q)
    <3>1. req'[p] = C[p]
      BY <1>2, <2>2
    <3> QED BY <2>2, <3>1, CancelFacts
  <2> QED BY <2>1, <2>2
<1>7. req'[q] = g
  BY <1>2
<1> HIDE DEF g, C
<1>8. req' \in [Requests -> RequestStates]
  BY <1>2, <1>5, <1>6, <1>7
<1>9. \A p \in Requests \ {q} :
         p \in Peers(q) <=> req[p].registered /\ req[p].rev = x.rev
  BY DEF Peers
<1>10. RequestsRun'
  BY <1>3, <1>5, <1>6, <1>7 DEF ContextInv, RequestsRun, Running, Joined
<1>11. EntryRegistered'
  BY <1>2, <1>5, <1>7 DEF EntryRegistered
<1>12. SharedMarked'
  <2> SUFFICES ASSUME NEW p \in Requests, NEW o \in Requests, p # o,
                      req'[p].registered, req'[o].registered, req'[p].rev = req'[o].rev
               PROVE  req'[p].shared
    BY DEF SharedMarked
  <2>1. CASE p = q
    <3>1. o \in Peers(q)
      BY <1>5, <1>6, <1>7, <1>9, <2>1
    <3>2. g.shared
      BY <1>5, <3>1
    <3> QED BY <1>7, <2>1, <3>2
  <2>2. CASE o = q
    <3>1. p \in Peers(q)
      BY <1>5, <1>6, <1>7, <1>9, <2>2
    <3> QED BY <1>6, <2>2, <3>1
  <2>3. CASE p # q /\ o # q
    <3>1. req[p].shared
      BY <1>6, <2>3 DEF ContextInv, SharedMarked
    <3> QED BY <1>6, <2>3, <3>1
  <2> QED BY <2>1, <2>2, <2>3
<1>13. LiveContextOnRecord'
  <2> SUFFICES ASSUME NEW p \in Requests, p # q, req'[p].registered, ~req'[p].cancelled
               PROVE  req'[p].shared
    BY <1>2 DEF LiveContextOnRecord
  <2>1. req[p].registered /\ ~req[p].cancelled
    BY <1>6
  <2>2. CASE p \in Peers(q)
    BY <1>6, <2>2
  <2>3. CASE p \notin Peers(q)
    <3>1. worker # p
      BY <1>6, <1>9, <2>1, <2>3
    <3> QED BY <1>6, <2>1, <3>1 DEF ContextInv, LiveContextOnRecord
  <2> QED BY <2>2, <2>3
<1> QED BY <1>2, <1>6, <1>8, <1>10, <1>11, <1>12, <1>13 DEF ContextInv

\* The request releases its context, with the entry of its revision.
LEMMA ReleaseKeeps ==
    ASSUME TypeOK, ContextInv, NEW q \in Requests, Release(q)
    PROVE  ContextInv' /\ req' \in [Requests -> RequestStates]
                       /\ worker' \in Requests \cup {NoRequest}
<1>1. req \in [Requests -> RequestStates] /\ worker \in Requests \cup {NoRequest}
  BY DEF TypeOK
<1>2. /\ req' = [req EXCEPT ![q] = Done]
      /\ worker' = IF req[q].registered /\ EntryOf(req[q].rev) THEN NoRequest ELSE worker
  BY DEF Release, End
<1>3. req'[q] = Done /\ \A p \in Requests \ {q} : req'[p] = req[p]
  BY <1>1, <1>2
<1>4. req' \in [Requests -> RequestStates] /\ worker' \in {worker, NoRequest}
  BY <1>1, <1>2, EndedRequest
<1>5. worker' # q
  <2>1. worker = q => req[q].registered /\ EntryOf(req[q].rev)
    BY AcceptanceAssumption DEF ContextInv, EntryRegistered, EntryOf
  <2> QED BY <1>2, <2>1, AcceptanceAssumption
<1>6. RequestsRun'
  BY <1>3, EndedRequest DEF ContextInv, RequestsRun, Running
<1>7. EntryRegistered'
  BY <1>1, <1>3, <1>4, <1>5 DEF ContextInv, EntryRegistered
<1>8. SharedMarked'
  BY <1>3, EndedRequest DEF ContextInv, SharedMarked
<1>9. ASSUME NEW p \in Requests, req'[p].registered, ~req'[p].cancelled
      PROVE  worker' = p \/ req'[p].shared
  <2>1. p # q /\ req'[p] = req[p]
    BY <1>3, <1>9, EndedRequest
  <2>2. worker = p \/ req[p].shared
    BY <1>9, <2>1 DEF ContextInv, LiveContextOnRecord
  <2>3. worker = p /\ worker' # p => req[q].registered /\ req[p].rev = req[q].rev
    BY <1>2 DEF EntryOf
  <2> QED BY <1>9, <2>1, <2>2, <2>3 DEF ContextInv, SharedMarked
<1> QED BY <1>1, <1>4, <1>6, <1>7, <1>8, <1>9 DEF ContextInv, LiveContextOnRecord

-----------------------------------------------------------------------------
(* Types.                                                                    *)

LEMMA SpendType ==
    ASSUME TypeOK, NEW ds, Spend(ds)
    PROVE  budget' \in [Bounded -> Nat]
BY DEF TypeOK, Spend

\* The newest entry of a log comes first.
LEMMA Prepended ==
    ASSUME NEW S, NEW log \in Seq(S), NEW e \in S
    PROVE  /\ <<e>> \o log \in Seq(S)
           /\ 1 \in DOMAIN (<<e>> \o log) /\ (<<e>> \o log)[1] = e
           /\ \A i \in DOMAIN log :
                i + 1 \in DOMAIN (<<e>> \o log) /\ (<<e>> \o log)[i+1] = log[i]
<1>1. <<e>> \in Seq(S) /\ Len(<<e>>) = 1 /\ <<e>>[1] = e
  OBVIOUS
<1>2. <<e>> \o log \in Seq(S) /\ Len(<<e>> \o log) = 1 + Len(log)
  BY <1>1
<1>3. DOMAIN log = 1..Len(log) /\ DOMAIN (<<e>> \o log) = 1..(1 + Len(log)) /\ Len(log) \in Nat
  BY <1>2
<1>4. (<<e>> \o log)[1] = e /\ \A i \in 1..Len(log) : (<<e>> \o log)[i+1] = log[i]
  BY <1>1, <1>3
<1> QED BY <1>2, <1>3, <1>4

\* Logs put together.
LEMMA Joins ==
    ASSUME NEW S
    PROVE  /\ <<>> \in Seq(S)
           /\ \A e \in S : <<e>> \in Seq(S)
           /\ \A a, b, c \in Seq(S) : a \o b \o c \in Seq(S)
OBVIOUS

LEMMA RowsType ==
    /\ NoRows \in [user : BOOLEAN, assistant : Revisions \cup {0}]
    /\ \A r \in Revisions : Pair(r) \in [user : BOOLEAN, assistant : Revisions \cup {0}]
BY DEF NoRows, Pair

LEMMA RunningRevision ==
    ASSUME ContextInv, NEW q \in Requests, Running(q)
    PROVE  req[q].rev \in Revisions
BY DEF ContextInv, RequestsRun

LEMMA ReplacementTypes ==
    ASSUME TypeOK, ContextInv, NEW q \in Requests, Replacement(q),
           req' \in [Requests -> RequestStates]
    PROVE  TypeOK'
<1> USE DEF ledger, audit, canonical
<1> DEFINE x == req[q]
<1>1. /\ x.rev \in Revisions
      /\ x.prev \in States /\ x.terminal \in BOOLEAN
  <2>1. x.pc \in {"check", "replace", "complete", "saveComplete", "fail", "saveFailure"}
    BY DEF Replacement, CheckBeforeReplace, Replace, ReplaceFails, ReplaceUnknown,
           ReplacementCompleted, SaveCompleted, ReplacementFailed, SaveFailure, At
  <2>2. x \in RequestStates
    BY DEF TypeOK
  <2> QED BY <2>1, <2>2, RunningRevision DEF Running, RequestStates
<1> HIDE DEF x
<1>2. CASE CheckBeforeReplace(q)
  BY <1>2 DEF CheckBeforeReplace, TypeOK
<1>3. CommitReplacement(x.rev) =>
        /\ rows' \subseteq Revisions /\ active' \in rows' \cup {0}
        /\ raw' \in [user : BOOLEAN, assistant : Revisions \cup {0}]
        /\ derived' \subseteq Revisions
  BY <1>1, RowsType DEF CommitReplacement, TypeOK
<1>4. CASE Replace(q)
  BY <1>3, <1>4 DEF Replace, TypeOK, x
<1>5. CASE ReplaceFails(q)
  <2>1. budget' \in [Bounded -> Nat]
    BY <1>5, SpendType DEF ReplaceFails, TypeOK
  <2> QED BY <1>5, <2>1 DEF ReplaceFails, TypeOK
<1>6. CASE ReplaceUnknown(q)
  <2>1. budget' \in [Bounded -> Nat]
    BY <1>6, SpendType DEF ReplaceUnknown
  <2>2. CASE CommitReplacement(x.rev)
    BY <1>3, <1>6, <2>1, <2>2 DEF ReplaceUnknown, TypeOK
  <2>3. CASE UNCHANGED canonical
    BY <1>6, <2>1, <2>3 DEF ReplaceUnknown, TypeOK
  <2> QED BY <1>6, <2>2, <2>3 DEF ReplaceUnknown, x
<1>7. CASE ReplacementCompleted(q)
  <2>1. current' \in States
    BY <1>7 DEF ReplacementCompleted, TypeOK, States
  <2> QED BY <1>7, <2>1 DEF ReplacementCompleted, TypeOK
<1>8. CASE SaveCompleted(q)
  <2>1. budget' \in [Bounded -> Nat]
    BY <1>8, SpendType DEF SaveCompleted, TypeOK
  <2>2. transitions' \in Seq(States)
    <3>1. transitions' \in {transitions, <<x.prev>> \o transitions}
      BY <1>8 DEF SaveCompleted, x
    <3>2. transitions \in Seq(States)
      BY DEF TypeOK
    <3> HIDE DEF States
    <3>3. <<x.prev>> \o transitions \in Seq(States)
      BY <1>1, <3>2, Prepended
    <3> QED BY <3>1, <3>2, <3>3
  <2> QED BY <1>8, <2>1, <2>2 DEF SaveCompleted, TypeOK
<1>9. CASE ReplacementFailed(q)
  <2>1. current' \in States /\ terminal' \subseteq Revisions
    BY <1>1, <1>9 DEF ReplacementFailed, TypeOK, x
  <2> QED BY <1>9, <2>1 DEF ReplacementFailed, TypeOK
<1>10. CASE SaveFailure(q)
  <2>1. budget' \in [Bounded -> Nat]
    BY <1>10, SpendType DEF SaveFailure, TypeOK
  <2>2. [rev |-> x.rev, terminal |-> x.terminal, prev |-> x.prev] \in Failures
    BY <1>1 DEF Failures
  <2>3. failures' \in Seq(Failures) /\ closed' \subseteq Revisions
    <3> DEFINE f == [rev |-> x.rev, terminal |-> x.terminal, prev |-> x.prev]
    <3>1. \/ failures' = <<f>> \o failures /\ closed' \in {closed, closed \cup {x.rev}}
          \/ failures' = failures /\ closed' = closed
      BY <1>10 DEF SaveFailure, x
    <3>2. failures \in Seq(Failures) /\ closed \subseteq Revisions
      BY DEF TypeOK
    <3> HIDE DEF f
    <3>3. <<f>> \o failures \in Seq(Failures)
      BY <2>2, <3>2, Prepended DEF f
    <3> QED BY <1>1, <3>1, <3>2, <3>3
  <2> QED BY <1>10, <2>1, <2>3 DEF SaveFailure, TypeOK
<1> QED BY <1>2, <1>4, <1>5, <1>6, <1>7, <1>8, <1>9, <1>10 DEF Replacement

LEMMA TurnTypes ==
    ASSUME TypeOK, ContextInv, NEW q \in Requests, Turn(q),
           req' \in [Requests -> RequestStates], worker' \in Requests \cup {NoRequest}
    PROVE  TypeOK'
<1> USE DEF ledger, audit, canonical
<1> DEFINE Raws == [user : BOOLEAN, assistant : Revisions \cup {0}]
           x == req[q]
<1>1. raw \in Raws /\ budget \in [Bounded -> Nat] /\ Raws = Raws
  BY DEF TypeOK
<1>2. At(q, "saveUser") \/ At(q, "saveAssistant") \/ At(q, "register") \/ At(q, "derive")
        => x.rev \in Revisions
  BY RunningRevision DEF Running, At
<1>3. CASE Preflight(q)
  <2>1. budget' \in [Bounded -> Nat]
    BY <1>1, <1>3, SpendType DEF Preflight
  <2> QED BY <1>3, <2>1 DEF Preflight, TypeOK
<1>4. CASE Leave(q)
  BY <1>4 DEF Leave, TypeOK
<1>5. CASE ProcessingContext(q)
  BY <1>5 DEF ProcessingContext, TypeOK
<1>6. CASE CheckBeforePersistence(q)
  BY <1>6 DEF CheckBeforePersistence, TypeOK
<1>7. ASSUME NEW saved \in Raws, Fails(q, saved)
      PROVE  raw' \in Raws /\ budget' \in [Bounded -> Nat]
  BY <1>1, <1>7, SpendType DEF Fails
<1>8. CASE SaveUser(q)
  <2> DEFINE saved == [raw EXCEPT !.user = TRUE]
  <2>1. saved \in Raws
    BY <1>1
  <2>2. \/ raw' = saved /\ budget' = budget
        \/ Fails(q, saved)
        \/ raw' = raw /\ budget' = budget
    BY <1>8 DEF SaveUser
  <2> HIDE DEF saved, Raws
  <2>3. raw' \in Raws /\ budget' \in [Bounded -> Nat]
    BY <1>1, <1>7, <2>1, <2>2
  <2> QED BY <1>8, <2>3 DEF SaveUser, TypeOK, Raws
<1>9. CASE SaveAssistant(q)
  <2> DEFINE saved == IF raw.assistant = 0 THEN [raw EXCEPT !.assistant = x.rev] ELSE raw
  <2>1. saved \in Raws
    BY <1>1, <1>2, <1>9 DEF SaveAssistant
  <2>2. \/ raw' = saved /\ budget' = budget
        \/ Fails(q, saved)
        \/ raw' = raw /\ budget' = budget
    BY <1>9 DEF SaveAssistant
  <2> HIDE DEF saved, Raws
  <2>3. raw' \in Raws /\ budget' \in [Bounded -> Nat]
    BY <1>1, <1>7, <2>1, <2>2
  <2> QED BY <1>9, <2>3 DEF SaveAssistant, TypeOK, Raws
<1>10. CASE Register(q)
  <2>1. budget' \in [Bounded -> Nat]
    BY <1>1, <1>10, SpendType DEF Register
  <2>2. \/ rows' = rows \cup {x.rev} /\ active' = x.rev
        \/ rows' = rows /\ active' = active
    BY <1>10 DEF Register
  <2>3. rows' \subseteq Revisions /\ active' \in rows' \cup {0}
    BY <1>2, <1>10, <2>2 DEF Register, TypeOK
  <2> QED BY <1>10, <2>1, <2>3 DEF Register, TypeOK
<1>11. CASE CheckAfterCritic(q)
  BY <1>11 DEF CheckAfterCritic, TypeOK
<1>12. CASE Derive(q)
  <2>1. derived' \subseteq Revisions
    BY <1>2, <1>12 DEF Derive, TypeOK
  <2> QED BY <1>12, <2>1 DEF Derive, TypeOK
<1>13. CASE Release(q)
  <2>1. rb' \in [pc : {"idle", "drain", "invalidate", "save"}, host : Nat,
                 wait : Requests \cup {NoRequest}, obs : Nat]
    BY <1>13 DEF Release, TypeOK
  <2> QED BY <1>13, <2>1 DEF Release, TypeOK
<1> QED BY <1>3, <1>4, <1>5, <1>6, <1>8, <1>9, <1>10, <1>11, <1>12, <1>13 DEF Turn

\* What the acceptance of an observation makes of its request: it is rejected,
\* or starts with a revision that was not found among the discarded ones.
LEMMA BeginStarts ==
    ASSUME TypeOK, NEW q \in Requests, NEW r \in Revisions, NEW lost,
           BeginRejected(q, r, lost) \/ BeginRepeated(q, r, lost) \/ BeginAccepted(q, r, lost)
    PROVE  \E g \in RequestStates :
             /\ g.registered = FALSE
             /\ \/ g.pc = "done"
                \/ /\ g.rev = r
                   /\ ~Rejected(Loaded(lost), r, lost)
                   /\ (lost \cap {"invalidations", "failures"} # {} => g.partial)
             /\ \/ req' = [req EXCEPT ![q] = g] /\ worker' = worker
                \/ /\ g.rev = r
                   /\ req' = [CancelOther(g.rev) EXCEPT ![q] = g]
                   /\ worker' = IF EntryOf(g.rev) THEN worker ELSE NoRequest
<1>1. Loaded(lost) \in States
  BY LoadedFacts
<1>2. CASE BeginRejected(q, r, lost)
  <2>1. req' = [req EXCEPT ![q] = Done] /\ worker' = worker
    BY <1>2 DEF BeginRejected, End
  <2> QED BY <2>1, EndedRequest
<1>3. ASSUME NEW step \in {"check", "preflight"}
      PROVE  LET g == Started(r, step, Loaded(lost), lost)
             IN  /\ g \in RequestStates /\ g.registered = FALSE /\ g.rev = r
                 /\ (lost \cap {"invalidations", "failures"} # {} => g.partial)
  <2> DEFINE prev == IF step = "check" THEN Loaded(lost) ELSE NoState
             partial == lost \cap {"invalidations", "failures"} # {}
  <2>1. prev \in States /\ partial \in BOOLEAN /\ step \in Steps
    BY <1>1, StateFacts DEF Steps
  <2>2. Started(r, step, Loaded(lost), lost) =
          [Idle EXCEPT !.pc = step, !.rev = r, !.prev = prev, !.partial = partial]
    BY DEF Started
  <2> HIDE DEF prev
  <2>3. LET g == Started(r, step, Loaded(lost), lost)
        IN  g \in RequestStates /\ g.registered = FALSE /\ g.rev = r /\ g.partial = partial
    <3> HIDE DEF partial
    <3> QED BY <2>1, <2>2 DEF Idle, RequestStates
  <2> QED BY <2>3
<1>4. CASE BeginRepeated(q, r, lost)
  <2> DEFINE step == IF Loaded(lost).repl = "pending" THEN "check" ELSE "preflight"
             g == Started(r, step, Loaded(lost), lost)
  <2>1. /\ req' = [req EXCEPT ![q] = g] /\ worker' = worker
        /\ ~Rejected(Loaded(lost), r, lost)
    BY <1>4 DEF BeginRepeated
  <2>2. step \in {"check", "preflight"}
    OBVIOUS
  <2> HIDE DEF step
  <2>3. /\ g \in RequestStates /\ g.registered = FALSE /\ g.rev = r
        /\ (lost \cap {"invalidations", "failures"} # {} => g.partial)
    BY <1>3, <2>2
  <2> HIDE DEF g
  <2> QED BY <2>1, <2>3
<1>5. CASE BeginAccepted(q, r, lost)
  <2>1. PICK step \in {"check", "preflight"} :
          /\ req' = [CancelOther(r) EXCEPT ![q] = Started(r, step, Loaded(lost), lost)]
          /\ worker' = IF EntryOf(r) THEN worker ELSE NoRequest
          /\ ~Rejected(Loaded(lost), r, lost)
    BY <1>5 DEF BeginAccepted
  <2> DEFINE g == Started(r, step, Loaded(lost), lost)
  <2>2. /\ g \in RequestStates /\ g.registered = FALSE /\ g.rev = r
        /\ (lost \cap {"invalidations", "failures"} # {} => g.partial)
    BY <1>3
  <2>3. req' = [CancelOther(g.rev) EXCEPT ![q] = g]
    BY <2>1, <2>2
  <2> HIDE DEF g
  <2> QED BY <2>1, <2>2, <2>3
<1> QED BY <1>2, <1>4, <1>5

\* What it makes of the ledger and the log.
LEMMA BeginTypes ==
    ASSUME TypeOK, NEW q \in Requests, NEW r \in Revisions, NEW lost,
           BeginRejected(q, r, lost) \/ BeginRepeated(q, r, lost) \/ BeginAccepted(q, r, lost),
           req' \in [Requests -> RequestStates], worker' \in Requests \cup {NoRequest}
    PROVE  TypeOK'
<1>1. Submit(q, lost)
  BY DEF BeginRejected, BeginRepeated, BeginAccepted
<1>2. /\ Loaded(lost) \in States /\ LoadedFence(lost) \in Nat
      /\ LoadedTerminal(lost) \in SUBSET Revisions
  BY LoadedFacts
<1>3. fence' \in Nat /\ terminal' \subseteq Revisions /\ budget' \in [Bounded -> Nat]
  BY <1>1, <1>2, SpendType DEF Submit
<1>4. current' \in States /\ transitions' \in Seq(States)
  <2>1. CASE BeginRejected(q, r, lost) \/ BeginRepeated(q, r, lost)
    BY <1>2, <2>1 DEF BeginRejected, BeginRepeated, TypeOK
  <2>2. CASE BeginAccepted(q, r, lost)
    <3>1. PICK repl \in {"", "pending"}, prior \in {<<>>, <<Superseded(Loaded(lost), r)>>} :
            /\ current' = Accepted(r, repl)
            /\ transitions' = Read(<<Accepted(r, repl)>>, "accepted", lost)
                                 \o Read(prior, "superseded", lost) \o transitions
      BY <2>2 DEF BeginAccepted
    <3>2. Accepted(r, repl) \in States /\ Superseded(Loaded(lost), r) \in States
      BY <1>2, StateFacts, SupersededState
    <3> HIDE DEF States
    <3> DEFINE s == Accepted(r, repl)
               o == Superseded(Loaded(lost), r)
               A == Read(<<s>>, "accepted", lost)
               P == Read(prior, "superseded", lost)
    <3>3. A \in Seq(States)
      <4>1. A = <<>> \/ A = <<s>>
        BY DEF Read
      <4>2. s \in States
        BY <3>2
      <4> HIDE DEF A, s
      <4> QED BY <4>1, <4>2, Joins
    <3>4. P \in Seq(States)
      <4>1. P = <<>> \/ P = <<o>>
        BY DEF Read
      <4>2. o \in States
        BY <3>2
      <4> HIDE DEF P, o
      <4> QED BY <4>1, <4>2, Joins
    <3>5. transitions \in Seq(States)
      BY DEF TypeOK
    <3>6. transitions' = A \o P \o transitions
      BY <3>1
    <3> HIDE DEF A, P
    <3>7. transitions' \in Seq(States)
      BY <3>3, <3>4, <3>5, <3>6, Joins
    <3> QED BY <3>1, <3>2, <3>7
  <2> QED BY <2>1, <2>2
<1> QED BY <1>1, <1>3, <1>4 DEF Submit, TypeOK, canonical

\* The acceptance of an observation: the invariant of the contexts, and the
\* discarded answers.
LEMMA BeginKeeps ==
    ASSUME TypeOK, ContextInv, ClosedOnRecord, NEW q \in Requests, Begin(q)
    PROVE  /\ TypeOK' /\ ContextInv'
           /\ \A p \in Requests \ {q} : req'[p].pc = req[p].pc
           /\ Running(q)' /\ req'[q].rev \in closed => req'[q].partial
<1>1. PICK r \in Revisions, lost \in Outages \cup {{}} :
        BeginRejected(q, r, lost) \/ BeginRepeated(q, r, lost) \/ BeginAccepted(q, r, lost)
  BY DEF Begin
<1>2. At(q, "idle")
  BY <1>1 DEF BeginRejected, BeginRepeated, BeginAccepted, Submit
<1>3. PICK g \in RequestStates :
        /\ g.registered = FALSE
        /\ \/ g.pc = "done"
           \/ /\ g.rev = r
              /\ ~Rejected(Loaded(lost), r, lost)
              /\ (lost \cap {"invalidations", "failures"} # {} => g.partial)
        /\ \/ req' = [req EXCEPT ![q] = g] /\ worker' = worker
           \/ /\ g.rev = r
              /\ req' = [CancelOther(g.rev) EXCEPT ![q] = g]
              /\ worker' = IF EntryOf(g.rev) THEN worker ELSE NoRequest
  BY <1>1, BeginStarts
<1>4. /\ ContextInv' /\ req' \in [Requests -> RequestStates]
      /\ worker' \in Requests \cup {NoRequest}
      /\ req'[q] = g /\ \A p \in Requests \ {q} : req'[p].pc = req[p].pc
  BY <1>2, <1>3, StartKeeps
<1>5. TypeOK'
  BY <1>1, <1>4, BeginTypes
<1>6. ASSUME g.pc # "done", g.rev \in closed
      PROVE  g.partial
  <2>1. g.rev = r /\ r \notin LoadedTerminal(lost) /\ ~(r <= LoadedFence(lost))
    BY <1>3, <1>6 DEF Rejected
  <2>2. \/ r <= savedFence
        \/ \E i \in DOMAIN failures : failures[i].terminal /\ failures[i].rev = r
    BY <1>6, <2>1 DEF ClosedOnRecord
  <2>3. r \in Nat /\ savedFence \in Nat /\ LoadedFence(lost) \in Nat
    BY AcceptanceAssumption, LoadedFacts DEF TypeOK
  <2>4. "invalidations" \in lost \/ "failures" \in lost
    BY <2>1, <2>2, <2>3, LoadedFacts
  <2> QED BY <1>3, <1>6, <2>4
<1> QED BY <1>4, <1>5, <1>6 DEF Running

\* Contexts are cancelled, and with them the entry of the turn.
LEMMA CancelKeeps ==
    ASSUME ContextInv, worker \in Requests \cup {NoRequest}, worker' \in {worker, NoRequest},
           \A p \in Requests :
               /\ req'[p].pc = req[p].pc /\ req'[p].rev = req[p].rev
               /\ req'[p].registered = req[p].registered /\ req'[p].shared = req[p].shared
               /\ ~req'[p].cancelled => ~req[p].cancelled /\ (worker = p => worker' = p)
    PROVE  ContextInv'
<1>1. RequestsRun'
  BY DEF ContextInv, RequestsRun, Running
<1>2. EntryRegistered'
  BY DEF ContextInv, EntryRegistered
<1>3. SharedMarked'
  BY DEF ContextInv, SharedMarked
<1>4. LiveContextOnRecord'
  BY DEF ContextInv, LiveContextOnRecord
<1> QED BY <1>1, <1>2, <1>3, <1>4 DEF ContextInv

LEMMA RollbackKeeps ==
    ASSUME TypeOK, ContextInv, Rollback
    PROVE  TypeOK' /\ ContextInv' /\ \A p \in Requests : req'[p].pc = req[p].pc
<1> USE DEF ledger, audit, canonical
<1> DEFINE Rollbacks == [pc : {"idle", "drain", "invalidate", "save"}, host : Nat,
                         wait : Requests \cup {NoRequest}, obs : Nat]
<1>1. /\ rb \in Rollbacks /\ NoRollback \in Rollbacks
      /\ req \in [Requests -> RequestStates] /\ worker \in Requests \cup {NoRequest}
  BY DEF TypeOK, NoRollback
<1>2. ASSUME UNCHANGED <<req, worker>>
      PROVE  ContextInv' /\ \A p \in Requests : req'[p].pc = req[p].pc
  BY <1>1, <1>2, CancelKeeps
<1>3. CASE RollbackCancels
  <2> DEFINE entry == IF current.rev # 0 THEN worker ELSE NoRequest
  <2>0. entry \in Requests \cup {NoRequest}
    BY <1>1
  <2>1. PICK host \in RollbackTimes :
          /\ rb' = [pc |-> "drain", host |-> host, wait |-> entry, obs |-> 0]
          /\ req' = [q \in Requests |->
                        IF q = entry THEN [req[q] EXCEPT !.cancelled = TRUE] ELSE req[q]]
    BY <1>3 DEF RollbackCancels
  <2> HIDE DEF entry
  <2>2. rb' \in Rollbacks
    BY <2>0, <2>1, AcceptanceAssumption
  <2>3. ASSUME NEW p \in Requests
        PROVE  /\ req'[p] \in RequestStates
               /\ req'[p].pc = req[p].pc /\ req'[p].rev = req[p].rev
               /\ req'[p].registered = req[p].registered /\ req'[p].shared = req[p].shared
               /\ ~req'[p].cancelled => ~req[p].cancelled
    <3>1. req[p] \in RequestStates
      BY <1>1
    <3>2. req'[p] = IF p = entry THEN [req[p] EXCEPT !.cancelled = TRUE] ELSE req[p]
      BY <2>1
    <3> QED BY <3>1, <3>2 DEF RequestStates
  <2>4. req' \in [Requests -> RequestStates]
    BY <2>1, <2>3
  <2>5. budget' \in [Bounded -> Nat]
    BY <1>3, SpendType DEF RollbackCancels
  <2>6. worker' = worker
    BY <1>3 DEF RollbackCancels
  <2>7. ContextInv'
    BY <1>1, <2>3, <2>6, CancelKeeps
  <2> QED BY <1>3, <2>2, <2>3, <2>4, <2>5, <2>7 DEF RollbackCancels, TypeOK
<1>4. TailDeleted => /\ active' \in rows' \cup {0} /\ rows' \subseteq Revisions
                     /\ raw' \in [user : BOOLEAN, assistant : Revisions \cup {0}]
                     /\ derived' \subseteq Revisions
  BY RowsType DEF TailDeleted, TypeOK
<1>5. CASE RollbackInterrupted
  <2>1. UNCHANGED <<req, worker>>
    BY <1>5 DEF RollbackInterrupted
  <2> QED BY <1>1, <1>2, <1>5, <2>1 DEF RollbackInterrupted, TypeOK
<1>6. CASE RollbackCanonicalTail
  <2>1. UNCHANGED <<req, worker>>
    BY <1>6 DEF RollbackCanonicalTail
  <2>2. rb' \in Rollbacks
    BY <1>1, <1>6 DEF RollbackCanonicalTail
  <2> QED BY <1>2, <1>4, <1>6, <2>1, <2>2 DEF RollbackCanonicalTail, TypeOK
<1>7. CASE RollbackFails
  <2>1. UNCHANGED <<req, worker>>
    BY <1>7 DEF RollbackFails
  <2>2. budget' \in [Bounded -> Nat]
    BY <1>7, SpendType DEF RollbackFails
  <2>3. CASE TailDeleted
    BY <1>1, <1>2, <1>4, <1>7, <2>1, <2>2, <2>3 DEF RollbackFails, TypeOK
  <2>4. CASE UNCHANGED canonical
    BY <1>1, <1>2, <1>7, <2>1, <2>2, <2>4 DEF RollbackFails, TypeOK
  <2> QED BY <1>7, <2>3, <2>4 DEF RollbackFails
<1>8. ASSUME NEW lost \in Outages \cup {{}}, Invalidate(lost)
      PROVE  TypeOK' /\ ContextInv' /\ \A p \in Requests : req'[p].pc = req[p].pc
  <2> DEFINE s == Loaded(lost)
             obs == IF rb.host > 0 THEN rb.host ELSE s.obs + 1
             gone == IF s.rev = 0 THEN s ELSE [s EXCEPT !.life = "deleted"]
             save == [rb EXCEPT !.pc = "save", !.obs = obs]
  <2>1. s \in States /\ LoadedFence(lost) \in Nat /\ LoadedTerminal(lost) \in SUBSET Revisions
    BY LoadedFacts
  <2>2. gone \in States
    <3> HIDE DEF s
    <3> QED BY <2>1 DEF States, Lifecycles
  <2>3. obs \in Nat
    <3>1. rb.host \in Nat /\ s.obs \in Nat
      BY <1>1, <2>1 DEF States
    <3> HIDE DEF s
    <3> QED BY <3>1
  <2> HIDE DEF obs
  <2>4. save \in Rollbacks
    BY <1>1, <2>3
  <2>5. /\ current' \in {s, gone} /\ fence' \in {LoadedFence(lost), obs}
        /\ rb' \in {NoRollback, save} /\ terminal' = LoadedTerminal(lost)
        /\ \/ UNCHANGED <<req, worker>>
           \/ req' = CancelOther(0) /\ worker' = NoRequest
    BY <1>8 DEF Invalidate, obs
  <2>6. budget' \in [Bounded -> Nat]
    BY <1>8, SpendType DEF Invalidate
  <2>7. ContextInv' /\ req' \in [Requests -> RequestStates] /\ worker' \in Requests \cup {NoRequest}
        /\ \A p \in Requests : req'[p].pc = req[p].pc
    <3>1. CASE UNCHANGED <<req, worker>>
      BY <1>1, <1>2, <3>1
    <3>2. CASE req' = CancelOther(0) /\ worker' = NoRequest
      <4>1. req' \in [Requests -> RequestStates]
        BY <3>2, CancelFacts
      <4>2. \A p \in Requests : worker = p => req[p].rev # 0
        <5>1. \A p \in Requests : worker = p => Running(p)
          BY AcceptanceAssumption
             DEF ContextInv, EntryRegistered, RequestsRun, Joined, Running
        <5> QED BY <5>1, RunningRevision, AcceptanceAssumption
      <4>3. \A p \in Requests :
               /\ req'[p].pc = req[p].pc /\ req'[p].rev = req[p].rev
               /\ req'[p].registered = req[p].registered /\ req'[p].shared = req[p].shared
               /\ ~req'[p].cancelled => ~req[p].cancelled /\ worker # p
        BY <3>2, <4>2, CancelFacts
      <4> QED BY <1>1, <3>2, <4>1, <4>3, CancelKeeps
    <3> QED BY <2>5, <3>1, <3>2
  <2>8. /\ current' \in States /\ fence' \in Nat /\ terminal' \subseteq Revisions
        /\ rb' \in Rollbacks
    <3> HIDE DEF s, gone, save
    <3> QED BY <1>1, <2>1, <2>2, <2>3, <2>4, <2>5
  <2> QED BY <1>8, <2>6, <2>7, <2>8 DEF Invalidate, TypeOK
<1>9. CASE SaveInvalidation
  <2>1. UNCHANGED <<req, worker>>
    BY <1>9 DEF SaveInvalidation
  <2>2. budget' \in [Bounded -> Nat]
    BY <1>9, SpendType DEF SaveInvalidation, TypeOK
  <2>3. savedFence' \in Nat /\ closed' \subseteq Revisions
    BY <1>1, <1>9 DEF SaveInvalidation, TypeOK
  <2> QED BY <1>1, <1>2, <1>9, <2>1, <2>2, <2>3 DEF SaveInvalidation, TypeOK
<1> QED BY <1>3, <1>5, <1>6, <1>7, <1>8, <1>9 DEF Rollback

\* A restart.
LEMMA CrashKeeps ==
    ASSUME TypeOK, Crash
    PROVE  TypeOK' /\ ContextInv' /\ \A p \in Requests : ~Running(p)'
<1>1. /\ worker' = NoRequest
      /\ \A q \in Requests : req'[q] \in {Idle, Done}
      /\ req' = [q \in Requests |-> req'[q]]
  BY DEF Crash
<1>2. \A q \in Requests : /\ req'[q] \in RequestStates /\ ~req'[q].registered
                          /\ req'[q].pc \in {"idle", "done"}
  BY <1>1, EndedRequest
<1>3. ContextInv'
  <2>1. RequestsRun' /\ LiveContextOnRecord' /\ SharedMarked' /\ EntryRegistered'
    BY <1>1, <1>2 DEF RequestsRun, Running, LiveContextOnRecord, SharedMarked, EntryRegistered
  <2> QED BY <2>1 DEF ContextInv
<1>4. NoRollback \in [pc : {"idle", "drain", "invalidate", "save"}, host : Nat,
                      wait : Requests \cup {NoRequest}, obs : Nat]
  BY DEF NoRollback
<1>5. req' \in [Requests -> RequestStates]
  BY <1>1, <1>2
<1>6. budget' \in [Bounded -> Nat]
  BY SpendType DEF Crash
<1>7. TypeOK'
  BY <1>4, <1>5, <1>6, StateFacts DEF Crash, TypeOK, audit, canonical
<1> QED BY <1>2, <1>3, <1>7 DEF Running

\* Every other step of a request.
LEMMA RequestKeeps ==
    ASSUME TypeOK, ContextInv, NEW q \in Requests, Replacement(q) \/ Turn(q)
    PROVE  /\ TypeOK' /\ ContextInv'
           /\ \A p \in Requests : At(p, "idle") => ~Running(p)'
<1> USE DEF ledger
<1>1. req \in [Requests -> RequestStates] /\ worker \in Requests \cup {NoRequest}
  BY DEF TypeOK
<1>2. ASSUME NEW g, Moves(q, g), req' = [req EXCEPT ![q] = g]
      PROVE  \A p \in Requests : At(p, "idle") => ~Running(p)'
  <2>1. ~At(q, "idle")
    BY <1>2 DEF Moves, Running, At
  <2>2. \A p \in Requests : p # q => req'[p] = req[p]
    BY <1>1, <1>2
  <2> QED BY <2>1, <2>2 DEF At, Running
<1>3. CASE Replacement(q)
  <2>1. PICK g : Moves(q, g) /\ req' = [req EXCEPT ![q] = g]
    BY <1>3, ReplacementMoves
  <2>2. worker' = worker
    BY <1>3 DEF Replacement, CheckBeforeReplace, Replace, ReplaceFails, ReplaceUnknown,
                ReplacementCompleted, SaveCompleted, ReplacementFailed, SaveFailure
  <2>3. ContextInv' /\ req' \in [Requests -> RequestStates]
    BY <2>1, <2>2, MoveKeeps
  <2> QED BY <1>2, <1>3, <2>1, <2>3, ReplacementTypes
<1>4. CASE ProcessingContext(q) /\ StillCurrent(q)
  <2>1. ContextInv' /\ req' \in [Requests -> RequestStates] /\ worker' = q
        /\ \A p \in Requests \ {q} : req'[p].pc = req[p].pc
    BY <1>4, JoinKeeps
  <2>2. TypeOK'
    BY <1>4, <2>1, TurnTypes DEF Turn
  <2>3. ~At(q, "idle")
    BY <1>4 DEF ProcessingContext, At
  <2> QED BY <2>1, <2>2, <2>3 DEF At, Running
<1>5. CASE Release(q)
  <2>1. ContextInv' /\ req' \in [Requests -> RequestStates]
                    /\ worker' \in Requests \cup {NoRequest}
    BY <1>5, ReleaseKeeps
  <2>2. TypeOK'
    BY <1>5, <2>1, TurnTypes DEF Turn
  <2>3. req' = [req EXCEPT ![q] = Done]
    BY <1>5 DEF Release, End
  <2>4. \A p \in Requests : p # q => req'[p] = req[p]
    BY <1>1, <2>3
  <2>5. ~At(q, "idle")
    BY <1>5 DEF Release, At
  <2> QED BY <2>1, <2>2, <2>4, <2>5 DEF At, Running
<1>6. CASE \/ Preflight(q) \/ Leave(q) \/ CheckBeforePersistence(q) \/ SaveUser(q)
           \/ SaveAssistant(q) \/ Register(q) \/ CheckAfterCritic(q) \/ Derive(q)
           \/ ProcessingContext(q) /\ ~StillCurrent(q)
  <2>1. PICK g : Moves(q, g) /\ req' = [req EXCEPT ![q] = g]
    BY <1>6, TurnMoves
  <2>2. worker' = worker
    BY <1>6 DEF Preflight, Leave, CheckBeforePersistence, SaveUser, SaveAssistant, Register,
                CheckAfterCritic, Derive, ProcessingContext
  <2>3. ContextInv' /\ req' \in [Requests -> RequestStates]
    BY <2>1, <2>2, MoveKeeps
  <2>4. TypeOK'
    BY <1>1, <1>6, <2>2, <2>3, TurnTypes DEF Turn
  <2> QED BY <1>2, <2>1, <2>3, <2>4
<1> QED BY <1>3, <1>4, <1>5, <1>6 DEF Turn

-----------------------------------------------------------------------------
(* The raw rows and the discarded answers.                                   *)

\* The insert of a role leaves a row as it is, so that where an answer is
\* active the rows stay the ones it was registered with.
LEMMA RawStep ==
    ASSUME TypeOK, ActiveSourceMatchesRaw, Next
    PROVE  ActiveSourceMatchesRaw'
<1> USE DEF canonical
<1> DEFINE Keeps == active' = active /\ raw' = raw
<1>1. Keeps => ActiveSourceMatchesRaw'
  BY DEF ActiveSourceMatchesRaw
<1>2. ASSUME NEW q \in Requests, Begin(q) PROVE Keeps
  BY <1>2 DEF Begin, BeginRejected, BeginRepeated, BeginAccepted, Submit
<1>3. ASSUME NEW r, CommitReplacement(r) PROVE ActiveSourceMatchesRaw'
  BY <1>3 DEF CommitReplacement, ActiveSourceMatchesRaw
<1>4. ASSUME NEW q \in Requests, Replacement(q) PROVE ActiveSourceMatchesRaw'
  <2>1. CASE Replace(q) \/ ReplaceUnknown(q)
    BY <1>1, <1>3, <2>1 DEF Replace, ReplaceUnknown
  <2>2. CASE ~(Replace(q) \/ ReplaceUnknown(q))
    BY <1>1, <1>4, <2>2 DEF Replacement, CheckBeforeReplace, ReplaceFails,
         ReplacementCompleted, SaveCompleted, ReplacementFailed, SaveFailure
  <2> QED BY <2>1, <2>2
<1>5. ASSUME NEW q \in Requests, Turn(q) PROVE ActiveSourceMatchesRaw'
  <2>1. CASE SaveUser(q)
    <3>1. active' = active /\ raw' \in {raw, [raw EXCEPT !.user = TRUE]}
      BY <2>1 DEF SaveUser, Fails
    <3> QED BY <3>1 DEF ActiveSourceMatchesRaw, Pair
  <2>2. CASE SaveAssistant(q)
    <3>1. active' = active /\ (raw.assistant # 0 => raw' = raw)
      BY <2>2 DEF SaveAssistant, Fails
    <3> QED BY <3>1 DEF ActiveSourceMatchesRaw, Pair
  <2>3. CASE Register(q)
    <3>1. raw' = raw /\ (active' = active \/ (active' = req[q].rev /\ Registrable(req[q].rev)))
      BY <2>3 DEF Register
    <3> QED BY <3>1 DEF ActiveSourceMatchesRaw, Registrable
  <2>4. CASE ~(SaveUser(q) \/ SaveAssistant(q) \/ Register(q))
    BY <1>1, <1>5, <2>4 DEF Turn, Preflight, Leave, ProcessingContext, CheckBeforePersistence,
         CheckAfterCritic, Derive, Release
  <2> QED BY <2>1, <2>2, <2>3, <2>4
<1>6. CASE Rollback
  <2>1. TailDeleted => ActiveSourceMatchesRaw'
    BY DEF TailDeleted, ActiveSourceMatchesRaw
  <2> QED BY <1>1, <1>6, <2>1 DEF Rollback, RollbackCancels, RollbackInterrupted,
         RollbackCanonicalTail, RollbackFails, Invalidate, SaveInvalidation
<1>7. CASE Crash
  BY <1>1, <1>7 DEF Crash
<1> QED BY <1>1, <1>2, <1>4, <1>5, <1>6, <1>7 DEF Next

\* The audit log only grows, and a discard is answered with its row.
LEMMA ClosedStep ==
    ASSUME TypeOK, ContextInv, ClosedOnRecord, Next
    PROVE  ClosedOnRecord'
<1> USE DEF audit
<1> DEFINE Keeps == failures' = failures /\ savedFence' = savedFence /\ closed' = closed
<1>1. Keeps => ClosedOnRecord'
  BY DEF ClosedOnRecord
<1>2. ASSUME NEW q \in Requests, SaveFailure(q) PROVE ClosedOnRecord'
  <2> DEFINE x == req[q]
             f == [rev |-> x.rev, terminal |-> x.terminal, prev |-> x.prev]
             log == <<f>> \o failures
  <2>1. CASE Keeps
    BY <1>1, <2>1
  <2>2. CASE failures' = log /\ closed' = IF x.terminal THEN closed \cup {x.rev} ELSE closed
    <3>1. f \in Failures
      <4>1. x \in RequestStates /\ x.rev \in Revisions
        BY <1>2, RunningRevision DEF SaveFailure, TypeOK, At, Running
      <4> QED BY <4>1 DEF RequestStates, Failures
    <3>2. failures \in Seq(Failures)
      BY DEF TypeOK
    <3>3. f.terminal = x.terminal /\ f.rev = x.rev
      OBVIOUS
    <3>4. savedFence' = savedFence
      BY <1>2 DEF SaveFailure
    <3> HIDE DEF f
    <3>5. /\ 1 \in DOMAIN log /\ log[1] = f
          /\ \A i \in DOMAIN failures : i + 1 \in DOMAIN log /\ log[i+1] = failures[i]
      BY <3>1, <3>2, Prepended
    <3> HIDE DEF log, x
    <3> SUFFICES ASSUME NEW r \in closed'
                 PROVE  \/ r <= savedFence
                        \/ \E i \in DOMAIN log : log[i].terminal /\ log[i].rev = r
      BY <2>2, <3>4 DEF ClosedOnRecord
    <3>6. CASE r \in closed
      BY <3>5, <3>6 DEF ClosedOnRecord
    <3>7. CASE r \notin closed
      <4>1. x.terminal /\ r = x.rev
        BY <2>2, <3>7
      <4> QED BY <3>3, <3>5, <4>1
    <3> QED BY <3>6, <3>7
  <2> QED BY <1>2, <2>1, <2>2 DEF SaveFailure
<1>3. CASE SaveInvalidation
  <2>1. CASE Keeps
    BY <1>1, <2>1
  <2>2. CASE /\ savedFence' = IF rb.obs > savedFence THEN rb.obs ELSE savedFence
             /\ closed' = closed \cup {r \in Revisions : r <= rb.obs}
    <3>1. failures' = failures
      BY <1>3 DEF SaveInvalidation
    <3>2. rb.obs \in Nat /\ savedFence \in Nat /\ \A r \in Revisions : r \in Nat
      BY AcceptanceAssumption DEF TypeOK
    <3>3. savedFence' \in Nat /\ savedFence <= savedFence' /\ rb.obs <= savedFence'
      BY <2>2, <3>2
    <3>4. closed \subseteq Revisions
      BY DEF TypeOK
    <3> QED BY <2>2, <3>1, <3>2, <3>3, <3>4 DEF ClosedOnRecord
  <2> QED BY <1>3, <2>1, <2>2 DEF SaveInvalidation
<1>4. ASSUME NEW q \in Requests, Begin(q) PROVE Keeps
  BY <1>4 DEF Begin, BeginRejected, BeginRepeated, BeginAccepted, Submit
<1>5. ASSUME NEW q \in Requests, Replacement(q), ~SaveFailure(q) PROVE Keeps
  BY <1>5 DEF Replacement, CheckBeforeReplace, Replace, ReplaceFails, ReplaceUnknown,
       ReplacementCompleted, SaveCompleted, ReplacementFailed
<1>6. ASSUME NEW q \in Requests, Turn(q) PROVE Keeps
  BY <1>6 DEF Turn, Preflight, Leave, ProcessingContext, CheckBeforePersistence, SaveUser,
       SaveAssistant, Register, CheckAfterCritic, Derive, Release
<1>7. CASE Rollback /\ ~SaveInvalidation
  BY <1>1, <1>7 DEF Rollback, RollbackCancels, RollbackInterrupted, RollbackCanonicalTail,
       RollbackFails, Invalidate
<1>8. CASE Crash
  BY <1>1, <1>8 DEF Crash
<1> QED BY <1>1, <1>2, <1>3, <1>4, <1>5, <1>6, <1>7, <1>8 DEF Next

-----------------------------------------------------------------------------
(* The theorems.                                                             *)

LEMMA InitAcceptance == Init => AcceptanceInv
<1> SUFFICES ASSUME Init PROVE AcceptanceInv
  OBVIOUS
<1>1. \A q \in Requests : req[q] = Idle
  BY DEF Init
<1>2. TypeOK
  <2>1. NoRollback \in [pc : {"idle", "drain", "invalidate", "save"}, host : Nat,
                        wait : Requests \cup {NoRequest}, obs : Nat]
    BY DEF NoRollback
  <2>2. req \in [Requests -> RequestStates]
    BY EndedRequest DEF Init
  <2>3. transitions \in Seq(States) /\ failures \in Seq(Failures)
    <3>1. transitions = <<>> /\ failures = <<>>
      BY DEF Init
    <3> QED BY <3>1, Joins
  <2>4. budget \in [Bounded -> Nat]
    BY AcceptanceAssumption DEF Init
  <2>5. current \in States /\ raw \in [user : BOOLEAN, assistant : Revisions \cup {0}]
    BY StateFacts, RowsType DEF Init
  <2> QED BY <2>1, <2>2, <2>3, <2>4, <2>5 DEF Init, TypeOK
<1>3. ContextInv
  <2>1. worker = NoRequest
    BY DEF Init
  <2>2. RequestsRun /\ LiveContextOnRecord /\ SharedMarked /\ EntryRegistered
    BY <1>1, <2>1, EndedRequest
       DEF RequestsRun, Running, LiveContextOnRecord, SharedMarked, EntryRegistered
  <2> QED BY <2>2 DEF ContextInv
<1>4. ActiveSourceMatchesRaw /\ ClosedOnRecord
  BY DEF Init, ActiveSourceMatchesRaw, ClosedOnRecord
<1> QED BY <1>2, <1>3, <1>4 DEF AcceptanceInv

LEMMA NextAcceptance ==
    AcceptanceInv /\ [Next]_vars =>
        /\ AcceptanceInv'
        /\ \A q \in Requests :
             At(q, "idle") /\ Running(q)' /\ req'[q].rev \in closed => req'[q].partial
<1> SUFFICES ASSUME AcceptanceInv, [Next]_vars
             PROVE  /\ AcceptanceInv'
                    /\ \A q \in Requests :
                         At(q, "idle") /\ Running(q)' /\ req'[q].rev \in closed => req'[q].partial
  OBVIOUS
<1>1. TypeOK /\ ContextInv /\ ActiveSourceMatchesRaw /\ ClosedOnRecord
  BY DEF AcceptanceInv
<1>2. CASE Next
  <2>1. ActiveSourceMatchesRaw' /\ ClosedOnRecord'
    BY <1>1, <1>2, RawStep, ClosedStep
  <2> DEFINE Starts(q) ==
               At(q, "idle") /\ Running(q)' /\ req'[q].rev \in closed => req'[q].partial
  <2>2. ASSUME NEW p \in Requests, Begin(p)
        PROVE  TypeOK' /\ ContextInv' /\ \A q \in Requests : Starts(q)
    <3>1. /\ TypeOK' /\ ContextInv'
          /\ \A q \in Requests \ {p} : req'[q].pc = req[q].pc
          /\ Running(p)' /\ req'[p].rev \in closed => req'[p].partial
      BY <1>1, <2>2, BeginKeeps
    <3>2. ASSUME NEW q \in Requests PROVE Starts(q)
      <4>1. CASE q = p
        BY <3>1, <4>1
      <4>2. CASE q # p
        BY <3>1, <4>2 DEF At, Running
      <4> QED BY <4>1, <4>2
    <3> QED BY <3>1, <3>2
  <2>3. ASSUME NEW p \in Requests, Replacement(p) \/ Turn(p)
        PROVE  TypeOK' /\ ContextInv' /\ \A q \in Requests : Starts(q)
    BY <1>1, <2>3, RequestKeeps
  <2>4. CASE Rollback
    <3>1. TypeOK' /\ ContextInv' /\ \A q \in Requests : req'[q].pc = req[q].pc
      BY <1>1, <2>4, RollbackKeeps
    <3> QED BY <2>1, <3>1 DEF AcceptanceInv, At, Running
  <2>5. CASE Crash
    <3>1. TypeOK' /\ ContextInv' /\ \A q \in Requests : ~Running(q)'
      BY <1>1, <2>5, CrashKeeps
    <3> QED BY <2>1, <3>1 DEF AcceptanceInv
  <2> QED BY <1>2, <2>1, <2>2, <2>3, <2>4, <2>5 DEF Next, AcceptanceInv
<1>3. CASE UNCHANGED vars
  <2>1. AcceptanceInv'
    BY <1>1, <1>3 DEF vars, AcceptanceInv, TypeOK, ContextInv, RequestsRun, EntryRegistered,
         SharedMarked, LiveContextOnRecord, ActiveSourceMatchesRaw, ClosedOnRecord, Running
  <2> QED BY <1>3, <2>1 DEF vars, At, Running
<1> QED BY <1>2, <1>3

LEMMA AcceptanceInvariant == Spec => []AcceptanceInv
<1>1. Init => AcceptanceInv
  BY InitAcceptance
<1>2. AcceptanceInv /\ [Next]_vars => AcceptanceInv'
  BY NextAcceptance
<1> QED BY <1>1, <1>2, PTL DEF Spec

\* The ledger, the audit log, the canonical rows and the requests are well
\* formed in every reachable state, whichever reads and rows are lost: every
\* load of the ledger from the log yields a state of the turn.
THEOREM SourceTypeCorrect == Spec => []TypeOK
<1>1. AcceptanceInv => TypeOK
  BY DEF AcceptanceInv
<1> QED BY <1>1, AcceptanceInvariant, PTL

\* Whatever requests, replacements, rollbacks, failing calls and restarts do,
\* the raw rows of the turn are exactly the pair of its active source revision:
\* no half-written or conflicting turn is ever the source of memories.
THEOREM ActiveMatchesRaw == Spec => []ActiveSourceMatchesRaw
<1>1. AcceptanceInv => ActiveSourceMatchesRaw
  BY DEF AcceptanceInv
<1> QED BY <1>1, AcceptanceInvariant, PTL

\* A newer answer and a rollback find every live processing context on record
\* and cancel it, overlapping requests of one and the same revision excepted.
THEOREM LiveContextsAreOnRecord == Spec => []LiveContextOnRecord
<1>1. AcceptanceInv => LiveContextOnRecord
  BY DEF AcceptanceInv, ContextInv
<1> QED BY <1>1, AcceptanceInvariant, PTL

\* An answer whose discard is in the audit log is accepted again only by a
\* load that fails to read the discards, however often it is sent, whatever
\* other rows and reads are lost and however often the process restarts.
THEOREM DiscardedIsFinal == Spec => DiscardedStaysDiscarded
<1>1. AcceptanceInv /\ [Next]_vars =>
        [\A q \in Requests :
           /\ At(q, "idle")
           /\ Running(q)'
           /\ req'[q].rev \in closed
           => req'[q].partial]_vars
  BY NextAcceptance
<1> QED BY <1>1, AcceptanceInvariant, PTL DEF Spec, DiscardedStaysDiscarded

================================================================================
