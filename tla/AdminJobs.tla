------------------------------- MODULE AdminJobs -------------------------------
(***************************************************************************)
(* The manager of background admin jobs (httpapi/admin_jobs.go): a table   *)
(* of jobs behind one lock, a goroutine per job that does its work, HTTP   *)
(* requests that start, cancel and follow jobs.                            *)
(*                                                                         *)
(* A job's key stands for its kind and session.  Its change channel is     *)
(* replaced at every change; channel n of a job is closed iff a later one  *)
(* is open.                                                                *)
(***************************************************************************)
EXTENDS Integers, Sequences, FiniteSets

CONSTANTS
    Keys,           \* pairs of kind and session
    MaxJobs,        \* maxJobs: terminal jobs are pruned beyond this
    Outcomes,       \* the ways the work of a job may end by itself
    Streams,        \* event stream requests
    Afters,         \* values of after_revision that requests give
    Followed,       \* bound: the jobs that streams follow
    MaxStarts,      \* bound: jobs ever created
    MaxProgress     \* bound: progress reports of all jobs

TerminalStatuses == {"completed", "deferred", "partial_error", "failed", "cancelled"}

ASSUME JobsAssumption ==
    /\ IsFiniteSet(Keys)
    /\ MaxJobs \in Nat \ {0}
    /\ MaxStarts \in Nat
    /\ MaxProgress \in Nat
    /\ Afters \subseteq Nat
    /\ Followed \subseteq 1..MaxStarts
    /\ Outcomes \subseteq TerminalStatuses \ {"cancelled"}

Ids == 1..MaxStarts
Statuses == {"queued", "running"} \cup TerminalStatuses
JobRecords == [key : Keys, status : Statuses, rev : Nat]
NoJob == [key |-> "none", status |-> "none", rev |-> 0]

VARIABLES
    jobs,       \* m.jobs: id -> job; NoJob before its start and once pruned
    order,      \* m.order
    nextID,     \* m.nextID
    channel,    \* per job, the number of its open change channel
    owner,      \* per job, its key (known to its goroutine for ever)
    work,       \* per job, its goroutine: none, spawned, working or done
    reports,    \* progress reports so far
    cancelled,  \* jobs whose context is cancelled
    calls,      \* jobs whose cancel function a request is about to call
    stream      \* the event streams

table == <<jobs, order, nextID, channel>>
goroutines == <<owner, work, reports, cancelled, calls>>
vars == <<jobs, order, nextID, channel, owner, work, reports, cancelled, calls,
          stream>>

StreamRecords ==
    [pc : {"idle", "observe", "send", "wait"}, id : Ids \cup {0}, rev : Nat,
     chan : Nat, status : Statuses \cup {"none"}]
Idle == [pc |-> "idle", id |-> 0, rev |-> 0, chan |-> 0, status |-> "none"]

TypeOK ==
    /\ jobs \in [Ids -> JobRecords \cup {NoJob}]
    /\ order \in Seq(Ids)
    /\ nextID \in 0..MaxStarts
    /\ channel \in [Ids -> Nat]
    /\ owner \in [Ids -> Keys \cup {"none"}]
    /\ work \in [Ids -> {"none", "spawned", "working", "done"}]
    /\ reports \in 0..MaxProgress
    /\ cancelled \subseteq Ids
    /\ calls \subseteq Ids
    /\ stream \in [Streams -> StreamRecords]

Init ==
    /\ jobs = [i \in Ids |-> NoJob]
    /\ order = <<>>
    /\ nextID = 0
    /\ channel = [i \in Ids |-> 0]
    /\ owner = [i \in Ids |-> "none"]
    /\ work = [i \in Ids |-> "none"]
    /\ reports = 0
    /\ cancelled = {}
    /\ calls = {}
    /\ stream = [s \in Streams |-> Idle]

-----------------------------------------------------------------------------
adminJobTerminal(status) == status \in TerminalStatuses

Present(i) == jobs[i] # NoJob
Active(i) == Present(i) /\ ~adminJobTerminal(jobs[i].status)

\* Mutant: the change is recorded and no channel is closed.
PublishSilently(i, status) ==
    /\ jobs' = [jobs EXCEPT ![i].status = status, ![i].rev = @ + 1]
    /\ UNCHANGED channel

\* The job gets the status; publishChangeLocked counts the revision and
\* replaces the channel.
Publish(i, status) ==
    /\ jobs' = [jobs EXCEPT ![i].status = status, ![i].rev = @ + 1]
    /\ channel' = [channel EXCEPT ![i] = @ + 1]

\* Mutant: a late result is published whatever the job's status.
PublishAlways(i, status) ==
    IF Present(i) THEN Publish(i, status) ELSE UNCHANGED <<jobs, channel>>

\* The status is ignored by update and finish once the job is terminal or
\* no longer in the table.
PublishUnlessOver(i, status) ==
    IF Active(i) THEN Publish(i, status) ELSE UNCHANGED <<jobs, channel>>

\* Mutant: the oldest jobs go whatever their status.
KeepOldestOut(p, id, js) ==
    IF p.excess > 0
    THEN [kept |-> p.kept, gone |-> p.gone \cup {id}, excess |-> p.excess - 1]
    ELSE [kept |-> Append(p.kept, id), gone |-> p.gone, excess |-> p.excess]

\* One job of the table: it goes if it is over and there are too many.
KeepOrDrop(p, id, js) ==
    IF p.excess > 0 /\ adminJobTerminal(js[id].status)
    THEN [kept |-> p.kept, gone |-> p.gone \cup {id}, excess |-> p.excess - 1]
    ELSE [kept |-> Append(p.kept, id), gone |-> p.gone, excess |-> p.excess]

(***************************************************************************)
(* pruneLocked: of a table o over the jobs js, the oldest terminal jobs    *)
(* go, as many as the table is too long.                                   *)
(***************************************************************************)
Pruned(o, js) ==
    LET pass[n \in 0..Len(o)] ==
            IF n = 0 THEN [kept |-> <<>>, gone |-> {}, excess |-> Len(o) - MaxJobs]
                     ELSE KeepOrDrop(pass[n-1], o[n], js)
    IN pass[Len(o)]

-----------------------------------------------------------------------------
\* Mutant: only jobs whose goroutine has reported are found.
ReusableRunning(key) ==
    {i \in Ids : Active(i) /\ jobs[i].key = key /\ jobs[i].status = "running"}

\* The job that start finds for a key instead of starting a new one.
Reusable(key) == {i \in Ids : Active(i) /\ jobs[i].key = key}

\* start: a new job enters the table, the table is pruned, and a goroutine
\* is spawned.  (A request for a key in Reusable changes nothing.)
Start(key) ==
    /\ nextID < MaxStarts
    /\ Reusable(key) = {}
    /\ LET i == nextID + 1
           js == [jobs EXCEPT ![i] = [key |-> key, status |-> "queued", rev |-> 1]]
           o == Append(order, i)
           pruned == Pruned(o, js)
       IN /\ nextID' = i
          /\ jobs' = [k \in Ids |-> IF k \in pruned.gone THEN NoJob ELSE js[k]]
          /\ order' = pruned.kept
          /\ channel' = [channel EXCEPT ![i] = 1]
          /\ owner' = [owner EXCEPT ![i] = key]
          /\ work' = [work EXCEPT ![i] = "spawned"]
    /\ UNCHANGED <<reports, cancelled, calls, stream>>

\* The goroutine: it reports "running", then progress, then its end.
WorkBegins(i) ==
    /\ work[i] = "spawned"
    /\ work' = [work EXCEPT ![i] = "working"]
    /\ PublishUnlessOver(i, "running")
    /\ UNCHANGED <<order, nextID, owner, reports, cancelled, calls, stream>>

WorkProgress(i) ==
    /\ work[i] = "working"
    /\ reports < MaxProgress
    /\ reports' = reports + 1
    /\ PublishUnlessOver(i, "running")
    /\ UNCHANGED <<order, nextID, owner, work, cancelled, calls, stream>>

\* Mutant: the status of the result is taken over as it is.
WorkEndsUnmapped(i) ==
    /\ work[i] = "working"
    /\ work' = [work EXCEPT ![i] = "done"]
    /\ cancelled' = cancelled \cup {i}
    /\ calls' = calls \ {i}
    /\ PublishUnlessOver(i, "blocked")
    /\ UNCHANGED <<order, nextID, owner, reports, stream>>

\* The work notices its cancelled context, or ends in its own way whether it
\* is cancelled or not; the goroutine's deferred call cancels the context, so
\* that a request's call of the same function has nothing left to do.
WorkEnds(i) ==
    /\ work[i] = "working"
    /\ work' = [work EXCEPT ![i] = "done"]
    /\ cancelled' = cancelled \cup {i}
    /\ calls' = calls \ {i}
    /\ \E status \in Outcomes \cup (IF i \in cancelled THEN {"cancelled"} ELSE {}) :
          PublishUnlessOver(i, status)
    /\ UNCHANGED <<order, nextID, owner, reports, stream>>

\* cancelJob marks the job under the lock and calls its cancel function
\* after the unlock; the answer is the job's snapshot.
CancelJob(i) ==
    /\ Present(i)
    /\ IF Active(i)
       THEN Publish(i, "cancelled") /\ calls' = calls \cup {i}
       ELSE UNCHANGED <<jobs, channel, calls>>
    /\ UNCHANGED <<order, nextID, owner, work, reports, cancelled, stream>>

CallCancel(i) ==
    /\ i \in calls
    /\ calls' = calls \ {i}
    /\ cancelled' = cancelled \cup {i}
    /\ UNCHANGED <<table, owner, work, reports, stream>>

-----------------------------------------------------------------------------
\* handleAdminJobEvents: a client that has seen the revision after follows.
OpenStream(s, i, after) ==
    /\ stream[s].pc = "idle"
    /\ Present(i)
    /\ stream' = [stream EXCEPT ![s] = [Idle EXCEPT !.pc = "observe", !.id = i,
                                                    !.rev = after]]
    /\ UNCHANGED <<table, goroutines>>

\* Mutant: only a higher revision is news.
StreamObserveNewer(s) ==
    /\ stream[s].pc = "observe"
    /\ LET st == stream[s]
           i == st.id
           news == jobs[i].rev > st.rev
       IN
       stream' = [stream EXCEPT ![s] =
           IF ~Present(i) THEN Idle
           ELSE [st EXCEPT
                   !.pc = IF news THEN "send" ELSE "wait",
                   !.rev = IF news THEN jobs[i].rev ELSE st.rev,
                   !.chan = channel[i],
                   !.status = IF news THEN jobs[i].status ELSE "none"]]
    /\ UNCHANGED <<table, goroutines>>

\* observe, under the read lock: the snapshot, if there is news, and the
\* channel that is open now; a job that was pruned ends the stream.  The
\* revision of the snapshot becomes currentRevision (it is kept once sent, and
\* a stream that cannot send it ends).
StreamObserve(s) ==
    /\ stream[s].pc = "observe"
    /\ LET st == stream[s]
           i == st.id
           news == jobs[i].rev > st.rev \/ adminJobTerminal(jobs[i].status)
       IN
       stream' = [stream EXCEPT ![s] =
           IF ~Present(i) THEN Idle
           ELSE [st EXCEPT
                   !.pc = IF news THEN "send" ELSE "wait",
                   !.rev = IF news THEN jobs[i].rev ELSE st.rev,
                   !.chan = channel[i],
                   !.status = IF news THEN jobs[i].status ELSE "none"]]
    /\ UNCHANGED <<table, goroutines>>

\* The snapshot goes out; a terminal one ends the stream.
StreamSend(s) ==
    /\ stream[s].pc = "send"
    /\ LET st == stream[s] IN
       stream' = [stream EXCEPT ![s] =
           IF adminJobTerminal(st.status) THEN Idle
           ELSE [st EXCEPT !.pc = "observe", !.status = "none"]]
    /\ UNCHANGED <<table, goroutines>>

\* The select: the channel that observe returned was closed.
StreamWake(s) ==
    /\ stream[s].pc = "wait"
    /\ channel[stream[s].id] > stream[s].chan
    /\ stream' = [stream EXCEPT ![s].pc = "observe"]
    /\ UNCHANGED <<table, goroutines>>

\* The client goes away, or the snapshot cannot be written.
StreamLost(s) ==
    /\ stream[s].pc \in {"send", "wait"}
    /\ stream' = [stream EXCEPT ![s] = Idle]
    /\ UNCHANGED <<table, goroutines>>

Work(i) == WorkBegins(i) \/ WorkProgress(i) \/ WorkEnds(i)
Stream(s) == StreamObserve(s) \/ StreamSend(s) \/ StreamWake(s)

Next ==
    \/ \E key \in Keys : Start(key)
    \/ \E i \in Ids : Work(i) \/ CancelJob(i) \/ CallCancel(i)
    \/ \E s \in Streams :
         \/ \E i \in Followed, after \in Afters : OpenStream(s, i, after)
         \/ Stream(s) \/ StreamLost(s)

Spec == Init /\ [][Next]_vars

\* A request that can go on does.  Nothing forces requests, and no assumption
\* is made about how long the work of a job takes.
FairSpec == Spec /\ \A s \in Streams : WF_vars(Stream(s))

-----------------------------------------------------------------------------
\* A stream that waits on the channel that is still open has missed nothing:
\* it has seen the job's last revision, and the job is not over.
NoMissedChange ==
    \A s \in Streams :
        LET st == stream[s] IN
        (st.pc = "wait" /\ st.chan = channel[st.id] /\ Present(st.id)) =>
            /\ jobs[st.id].rev <= st.rev
            /\ ~adminJobTerminal(jobs[st.id].status)

\* How a job ended is never revised: a result that comes in after a
\* cancellation, a progress report of a work that has not noticed it, or a
\* cancellation after the result changes neither the status nor the revision
\* that clients were told.
EndIsFinal ==
    [][\A i \in Ids : adminJobTerminal(jobs[i].status) =>
                        jobs'[i] \in {jobs[i], NoJob}]_vars

\* Two goroutines work for the same kind and session only after the older was
\* cancelled: start reuses the job that is not over.
OverlapOnlyAfterCancel ==
    \A i, j \in Ids :
        (i < j /\ owner[i] = owner[j] /\ work[i] \in {"spawned", "working"}
               /\ owner[j] # "none") =>
            i \in cancelled \/ i \in calls

\* A job that is not over is never pruned, so it can be listed and cancelled
\* for as long as its goroutine works on it.
RunningJobsStay ==
    \A i \in Ids :
        (work[i] \in {"spawned", "working"} /\ i \notin cancelled \cup calls) =>
            Active(i) /\ \E k \in 1..Len(order) : order[k] = i

\* A stream never outlives its job: once the job is over, or pruned, every
\* stream that follows it ends.
StreamsEnd ==
    \A s \in Streams :
        (stream[s].pc # "idle" /\ ~Active(stream[s].id)) ~> (stream[s].pc = "idle")
================================================================================
