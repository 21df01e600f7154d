---------------------------- MODULE AdminJobsProofs ----------------------------
(***************************************************************************)
(* Proofs about AdminJobs, for any keys, streams and table size.           *)
(*                                                                         *)
(* The inductive invariant has two parts.  JobsInv, about jobs, goroutines *)
(* and streams, does not speak of m.order: what matters is that pruning    *)
(* takes terminal jobs only, whatever the order is.  TableInv relates      *)
(* m.order and m.jobs, on which pruning rests.                             *)
(***************************************************************************)
EXTENDS AdminJobs, LoopTheorems

\* TypeOK without the order and the counters.
Shape ==
    /\ jobs \in [Ids -> JobRecords \cup {NoJob}]
    /\ nextID \in 0..MaxStarts
    /\ channel \in [Ids -> Nat]
    /\ owner \in [Ids -> Keys \cup {"none"}]
    /\ work \in [Ids -> {"none", "spawned", "working", "done"}]
    /\ stream \in [Streams -> StreamRecords]

\* Nothing is known of ids that were not given out yet.
Fresh == \A i \in Ids : i > nextID => jobs[i] = NoJob /\ work[i] = "none" /\ owner[i] = "none"

\* A goroutine that nobody has cancelled works for a job that is not over.
UncancelledIsActive ==
    \A i \in Ids :
        work[i] \in {"spawned", "working"} /\ i \notin cancelled \cup calls =>
            Active(i) /\ jobs[i].key = owner[i]

\* A stream follows a job that was started, and no channel it holds is newer
\* than the one that is open.
Follows ==
    \A s \in Streams :
        /\ stream[s].pc # "idle" => stream[s].id \in 1..nextID
        /\ stream[s].pc \in {"send", "wait"} => stream[s].chan <= channel[stream[s].id]

JobsInv ==
    /\ Shape
    /\ Fresh
    /\ UncancelledIsActive
    /\ Follows
    /\ OverlapOnlyAfterCancel
    /\ NoMissedChange

\* m.order lists the jobs of the table, each once and in the order of start.
Increasing(o) == \A k, n \in 1..Len(o) : k < n => o[k] < o[n]
Lists(o, i) == \E k \in 1..Len(o) : o[k] = i

TableInv ==
    /\ order \in Seq(Ids) /\ Increasing(order)
    /\ \A i \in Ids : Present(i) <=> Lists(order, i)
    /\ reports \in 0..MaxProgress
    /\ cancelled \subseteq Ids
    /\ calls \subseteq Ids

\* The table is short enough, or pruning would find nothing in it.
TableIsShort ==
    Len(order) <= MaxJobs \/ \A k \in 1..Len(order) : ~adminJobTerminal(jobs[order[k]].status)

\* What a change of the table leaves as it was: jobs that are over, and jobs
\* whose channel it does not replace.
Published ==
    /\ jobs' \in [Ids -> JobRecords \cup {NoJob}]
    /\ channel' \in [Ids -> Nat]
    /\ \A k \in Ids :
          /\ Present(k)' <=> Present(k)
          /\ jobs'[k].key = jobs[k].key
          /\ adminJobTerminal(jobs[k].status) => jobs'[k] = jobs[k]
          /\ \/ jobs'[k] = jobs[k] /\ channel'[k] = channel[k]
             \/ channel'[k] = channel[k] + 1 /\ Active(k)

-----------------------------------------------------------------------------
(* The loop of pruneLocked.                                                 *)

Passes == [kept : Seq(Ids), gone : SUBSET Ids, excess : Int]

\* Where the loop stands after n jobs of o.
PassInv(o, js, n, p) ==
    /\ p \in Passes
    /\ \A id \in p.gone : adminJobTerminal(js[id].status)
    /\ \A k \in 1..Len(p.kept) :
          /\ p.kept[k] \notin p.gone
          /\ p.excess > 0 => ~adminJobTerminal(js[p.kept[k]].status)
    /\ \A i \in Ids : i \in p.gone \/ Lists(p.kept, i) <=> \E k \in 1..n : o[k] = i
    /\ Increasing(p.kept)
    /\ Len(p.kept) = n - (Len(o) - MaxJobs - p.excess)
    /\ p.excess >= 0 \/ p.excess = Len(o) - MaxJobs

\* One job more.
LEMMA PassStep ==
    ASSUME NEW o \in Seq(Ids), Increasing(o), NEW js, NEW n \in 1..Len(o),
           NEW p, PassInv(o, js, n - 1, p)
    PROVE  PassInv(o, js, n, KeepOrDrop(p, o[n], js))
<1> SUFFICES ASSUME NEW q, q = KeepOrDrop(p, o[n], js)
             PROVE  PassInv(o, js, n, q)
  OBVIOUS
<1> DEFINE id == o[n]
           drop == p.excess > 0 /\ adminJobTerminal(js[id].status)
<1>1. id \in Ids /\ p \in Passes /\ MaxJobs \in Nat /\ Len(o) \in Nat
  BY JobsAssumption DEF PassInv
<1>2. \A i \in Ids : i \in p.gone \/ Lists(p.kept, i) => i < id
  <2> SUFFICES ASSUME NEW k \in 1..(n-1) PROVE o[k] < id
    BY DEF PassInv
  <2> QED BY DEF Increasing
<1>3. p.kept \in Seq(Ids) /\ p.gone \subseteq Ids /\ p.excess \in Int
      /\ Len(p.kept) \in Nat /\ \A k \in 1..Len(p.kept) : p.kept[k] \in Ids
  <2>1. p.kept \in Seq(Ids) /\ p.gone \subseteq Ids /\ p.excess \in Int
    BY <1>1 DEF Passes
  <2> QED BY <2>1
<1>4. id \notin p.gone
  BY <1>1, <1>2 DEF Ids
<1>5. \A k \in 1..Len(p.kept) : p.kept[k] < id
  BY <1>2, <1>3 DEF Lists
<1>6. \A i : (\E k \in 1..n : o[k] = i) <=> (\E k \in 1..(n-1) : o[k] = i) \/ i = id
  BY <1>1
<1>7. CASE drop
  <2>1. q.kept = p.kept /\ q.gone = p.gone \cup {id} /\ q.excess = p.excess - 1
    BY <1>7 DEF KeepOrDrop
  <2>2. q \in Passes
    BY <1>1, <1>3, <1>7 DEF KeepOrDrop, Passes
  <2>3. \A i \in Ids : i \in q.gone \/ Lists(q.kept, i) <=> \E k \in 1..n : o[k] = i
    BY <2>1, <1>6 DEF PassInv
  <2>4. \A k \in 1..Len(q.kept) : q.kept[k] \notin q.gone
                                  /\ (q.excess > 0 => ~adminJobTerminal(js[q.kept[k]].status))
    <3> SUFFICES ASSUME NEW k \in 1..Len(p.kept)
                 PROVE  /\ p.kept[k] \notin p.gone \cup {id}
                        /\ p.excess - 1 > 0 => ~adminJobTerminal(js[p.kept[k]].status)
      BY <2>1
    <3>1. p.kept[k] # id
      BY <1>1, <1>3, <1>5 DEF Ids
    <3> QED BY <1>3, <3>1, <1>7 DEF PassInv
  <2>5. \A i \in q.gone : adminJobTerminal(js[i].status)
    BY <1>7, <2>1 DEF PassInv
  <2>6. Increasing(q.kept)
    BY <2>1 DEF PassInv
  <2>7. /\ Len(q.kept) = n - (Len(o) - MaxJobs - q.excess)
        /\ q.excess >= 0 \/ q.excess = Len(o) - MaxJobs
    BY <1>1, <1>3, <1>7, <2>1 DEF PassInv
  <2> QED BY <2>2, <2>3, <2>4, <2>5, <2>6, <2>7 DEF PassInv
<1>8. CASE ~drop
  <2>1. q.kept = Append(p.kept, id) /\ q.gone = p.gone /\ q.excess = p.excess
    BY <1>8 DEF KeepOrDrop
  <2>2. /\ q.kept \in Seq(Ids) /\ Len(q.kept) = Len(p.kept) + 1
        /\ q.kept[Len(p.kept) + 1] = id
        /\ \A k \in 1..Len(p.kept) : q.kept[k] = p.kept[k]
    BY <1>1, <1>3, <2>1
  <2>3. q \in Passes
    BY <1>3, <1>8, <2>1, <2>2 DEF KeepOrDrop, Passes
  <2>4. \A k : k \in 1..Len(q.kept) <=> k \in 1..Len(p.kept) \/ k = Len(p.kept) + 1
    BY <1>3, <2>2
  <2>5. \A i : Lists(q.kept, i) <=> Lists(p.kept, i) \/ i = id
    <3> HIDE DEF id
    <3> QED BY <2>2, <2>4 DEF Lists
  <2>6. \A i \in Ids : i \in q.gone \/ Lists(q.kept, i) <=> \E k \in 1..n : o[k] = i
    <3> SUFFICES ASSUME NEW i \in Ids
                 PROVE  i \in q.gone \/ Lists(q.kept, i) <=> \E k \in 1..n : o[k] = i
      OBVIOUS
    <3> QED BY <2>1, <2>5, <1>6 DEF PassInv
  <2>7. \A k \in 1..Len(q.kept) : q.kept[k] \notin q.gone
                                  /\ (q.excess > 0 => ~adminJobTerminal(js[q.kept[k]].status))
    BY <1>4, <1>8, <2>1, <2>2, <2>4 DEF PassInv
  <2>8. Increasing(q.kept)
    <3> SUFFICES ASSUME NEW k \in 1..Len(q.kept), NEW m \in 1..Len(q.kept), k < m
                 PROVE  q.kept[k] < q.kept[m]
      BY DEF Increasing
    <3>1. k \in 1..Len(p.kept)
      BY <1>3, <2>2
    <3>2. CASE m = Len(p.kept) + 1
      BY <1>5, <2>2, <3>1, <3>2
    <3>3. CASE m \in 1..Len(p.kept)
      BY <2>2, <3>1, <3>3 DEF PassInv, Increasing
    <3> QED BY <2>4, <3>2, <3>3
  <2>9. /\ Len(q.kept) = n - (Len(o) - MaxJobs - q.excess)
        /\ q.excess >= 0 \/ q.excess = Len(o) - MaxJobs
    BY <1>1, <1>3, <2>1, <2>2 DEF PassInv
  <2>10. \A i \in q.gone : adminJobTerminal(js[i].status)
    BY <2>1 DEF PassInv
  <2> QED BY <2>3, <2>6, <2>7, <2>8, <2>9, <2>10 DEF PassInv
<1> QED BY <1>7, <1>8

\* What pruning does to a table: only terminal jobs go, the others stay in
\* their order, and the table is short enough or holds no terminal job.
LEMMA PruneLoop ==
    ASSUME NEW o \in Seq(Ids), Increasing(o), NEW js
    PROVE  PassInv(o, js, Len(o), Pruned(o, js))
<1> DEFINE N == Len(o)
           base == [kept |-> <<>>, gone |-> {}, excess |-> N - MaxJobs]
           Body(f) == [n \in 0..N |-> IF n = 0 THEN base ELSE KeepOrDrop(f[n-1], o[n], js)]
           pass == CHOOSE f : f = Body(f)
<1>1. N \in Nat /\ MaxJobs \in Nat /\ \A n \in 1..N : o[n] \in Ids
  BY JobsAssumption
<1>2. base \in Passes
  BY <1>1 DEF Passes
<1>3. \E f : f = Body(f)
  <2> DEFINE step == [n \in 1..N |-> [p \in Passes |-> KeepOrDrop(p, o[n], js)]]
  <2>1. \A n \in 1..N, p \in Passes : KeepOrDrop(p, o[n], js) \in Passes
    <3> SUFFICES ASSUME NEW n \in 1..N, NEW p \in Passes
                 PROVE  KeepOrDrop(p, o[n], js) \in Passes
      OBVIOUS
    <3>1. p.kept \in Seq(Ids) /\ p.gone \subseteq Ids /\ p.excess \in Int /\ o[n] \in Ids
      BY <1>1 DEF Passes
    <3>2. Append(p.kept, o[n]) \in Seq(Ids)
      BY <3>1
    <3> QED BY <3>1, <3>2 DEF KeepOrDrop, Passes
  <2>2. step \in [1..N -> [Passes -> Passes]]
    BY <2>1
  <2>3. \A n \in 1..N, p \in Passes : step[n][p] = KeepOrDrop(p, o[n], js)
    OBVIOUS
  <2> HIDE DEF step, base, N
  <2>4. Runs(N, Passes, base, step) # {}
    <3>1. N \in Nat /\ base \in Passes /\ step \in Bodies(N, Passes)
      BY <1>1, <1>2, <2>2 DEF N, Bodies
    <3> QED BY <3>1, LoopIsDefined
  <2>4a. PICK f \in [0..N -> Passes] : f[0] = base /\ \A n \in 1..N : f[n] = step[n][f[n-1]]
    BY <2>4 DEF Runs
  <2>5. \A n \in 0..N : n # 0 => n \in 1..N /\ f[n-1] \in Passes
    <3> HIDE DEF Passes
    <3>1. N \in Nat
      BY <1>1 DEF N
    <3>2. \A n \in 0..N : n # 0 => n \in 1..N /\ n - 1 \in 0..N
      BY <3>1
    <3> QED BY <2>4a, <3>2
  <2>6. f = Body(f)
    BY <2>3, <2>4a, <2>5
  <2> QED BY <2>6
<1>4. pass = Body(pass)
  BY <1>3
<1>5. Pruned(o, js) = pass[N]
  BY DEF Pruned
<1> HIDE DEF pass
<1>6. pass[0] = base /\ \A n \in 1..N : pass[n] = KeepOrDrop(pass[n-1], o[n], js)
  <2>1. 0 \in 0..N /\ \A n \in 1..N : n \in 0..N /\ n # 0
    BY <1>1
  <2> HIDE DEF N, base
  <2>2. \A n \in 0..N : pass[n] = IF n = 0 THEN base ELSE KeepOrDrop(pass[n-1], o[n], js)
    BY <1>4
  <2> QED BY <2>1, <2>2
<1> DEFINE T == {n \in 0..N : PassInv(o, js, n, pass[n])}
<1>7. 0 \in T
  BY <1>1, <1>2, <1>6 DEF PassInv, Lists, Increasing
<1>8. \A n \in 1..N : n - 1 \in T => n \in T
  BY <1>6, PassStep
<1>9. \A n \in 0..N : n \in T
  <2> HIDE DEF T
  <2> QED BY <1>1, <1>7, <1>8, RangeInduction
<1> QED BY <1>1, <1>5, <1>9

-----------------------------------------------------------------------------
LEMMA PublishChanges ==
    ASSUME Shape, NEW i \in Ids, NEW status \in Statuses,
           PublishUnlessOver(i, status) \/ (Active(i) /\ Publish(i, status))
    PROVE  /\ Published
           /\ \A k \in Ids : Active(k) /\ (k # i \/ ~adminJobTerminal(status)) => Active(k)'
<1>1. CASE UNCHANGED <<jobs, channel>>
  BY <1>1 DEF Published, Shape, Active, Present, adminJobTerminal
<1>2. CASE Active(i) /\ Publish(i, status)
  <2> DEFINE job == [jobs[i] EXCEPT !.status = status, !.rev = @ + 1]
  <2>1. jobs[i] \in JobRecords
    BY <1>2 DEF Active, Present, Shape
  <2>2. job \in JobRecords /\ job.status = status /\ job.key = jobs[i].key
    <3> DEFINE old == jobs[i]
    <3>1. old \in JobRecords
      BY <2>1
    <3> DEFINE n == old.rev + 1
    <3>2. n \in Nat
      BY <3>1 DEF JobRecords
    <3>3. job = [old EXCEPT !.status = status, !.rev = n]
      OBVIOUS
    <3> HIDE DEF old, n, job
    <3>4. job = [key |-> old.key, status |-> status, rev |-> n]
      BY <3>1, <3>3 DEF JobRecords
    <3> QED BY <3>1, <3>2, <3>4 DEF JobRecords, old
  <2>3. job # NoJob
    <3>1. status # "none"
      BY DEF Statuses, TerminalStatuses
    <3> QED BY <2>2, <3>1 DEF NoJob
  <2>4. jobs' = [jobs EXCEPT ![i] = job] /\ channel' = [channel EXCEPT ![i] = @ + 1]
    BY <1>2, <2>1 DEF Publish, Shape, JobRecords
  <2> HIDE DEF job
  <2>5. jobs' \in [Ids -> JobRecords \cup {NoJob}] /\ channel' \in [Ids -> Nat]
    BY <2>2, <2>4 DEF Shape
  <2>6. jobs'[i] = job /\ channel'[i] = channel[i] + 1
    BY <2>4 DEF Shape
  <2>7. \A k \in Ids : k # i => jobs'[k] = jobs[k] /\ channel'[k] = channel[k]
    BY <2>4 DEF Shape
  <2> QED BY <1>2, <2>2, <2>3, <2>5, <2>6, <2>7 DEF Published, Active, Present, adminJobTerminal
<1> QED BY <1>1, <1>2 DEF PublishUnlessOver

\* Streams see a change of the table in their channel.
LEMMA StreamsAfterPublish ==
    ASSUME JobsInv, Published, UNCHANGED <<stream, nextID>>
    PROVE  Follows' /\ NoMissedChange'
<1> SUFFICES ASSUME NEW s \in Streams, stream[s].pc # "idle"
             PROVE  /\ stream[s].id \in 1..nextID
                    /\ stream[s].pc \in {"send", "wait"} => stream[s].chan <= channel'[stream[s].id]
                    /\ stream[s].pc = "wait" /\ stream[s].chan = channel'[stream[s].id]
                          /\ Present(stream[s].id)' =>
                          /\ jobs'[stream[s].id].rev <= stream[s].rev
                          /\ ~adminJobTerminal(jobs'[stream[s].id].status)
  BY DEF Follows, NoMissedChange
<1> DEFINE i == stream[s].id
<1>1. i \in Ids /\ i \in 1..nextID
  BY JobsAssumption DEF JobsInv, Follows, Shape, Ids
<1>2. stream[s].chan \in Nat /\ channel[i] \in Nat
  BY <1>1 DEF JobsInv, Shape, StreamRecords
<1>3. channel'[i] = channel[i] + 1 \/ (jobs'[i] = jobs[i] /\ channel'[i] = channel[i])
  BY <1>1 DEF Published
<1>4. stream[s].pc \in {"send", "wait"} => stream[s].chan <= channel[i]
  BY DEF JobsInv, Follows
<1>5. stream[s].pc = "wait" /\ stream[s].chan = channel[i] /\ Present(i) =>
          jobs[i].rev <= stream[s].rev /\ ~adminJobTerminal(jobs[i].status)
  BY DEF JobsInv, NoMissedChange
<1> QED BY <1>1, <1>2, <1>3, <1>4, <1>5 DEF Present

-----------------------------------------------------------------------------
(* The actions.                                                             *)

\* The new job goes to the end of a table whose jobs are all older.
LEMMA StartExtends ==
    ASSUME JobsInv, TableInv, nextID < MaxStarts
    PROVE  LET o == Append(order, nextID + 1)
           IN /\ o \in Seq(Ids) /\ Increasing(o)
              /\ \A i : Lists(o, i) <=> Lists(order, i) \/ i = nextID + 1
<1> DEFINE new == nextID + 1
           o == Append(order, new)
<1>1. new \in Ids /\ nextID \in Nat
  BY JobsAssumption DEF JobsInv, Shape, Ids
<1>2. order \in Seq(Ids) /\ Len(order) \in Nat /\ \A k \in 1..Len(order) : order[k] \in Ids
  BY DEF TableInv
<1>3. \A k \in 1..Len(order) : order[k] < new
  <2> SUFFICES ASSUME NEW k \in 1..Len(order) PROVE order[k] < new
    OBVIOUS
  <2>1. order[k] \in Ids /\ Present(order[k])
    BY <1>2 DEF TableInv, Lists
  <2> QED BY <1>1, <2>1 DEF JobsInv, Fresh, Present, Ids
<1> HIDE DEF new
<1>4. /\ o \in Seq(Ids) /\ Len(o) = Len(order) + 1 /\ o[Len(order) + 1] = new
      /\ \A k \in 1..Len(order) : o[k] = order[k]
  BY <1>1, <1>2
<1>5. \A k : k \in 1..Len(o) <=> k \in 1..Len(order) \/ k = Len(order) + 1
  BY <1>2, <1>4
<1> HIDE DEF o
<1>6. Increasing(o)
  <2> SUFFICES ASSUME NEW k \in 1..Len(o), NEW n \in 1..Len(o), k < n PROVE o[k] < o[n]
    BY DEF Increasing
  <2>1. k \in 1..Len(order)
    BY <1>2, <1>4
  <2>2. CASE n = Len(order) + 1
    BY <1>3, <1>4, <2>1, <2>2
  <2>3. CASE n \in 1..Len(order)
    BY <1>4, <2>1, <2>3 DEF TableInv, Increasing
  <2> QED BY <1>5, <2>2, <2>3
<1>7. \A i : Lists(o, i) <=> Lists(order, i) \/ i = new
  BY <1>4, <1>5 DEF Lists
<1> QED BY <1>4, <1>6, <1>7 DEF new, o

\* A new job gets an id nobody knows; the jobs that go are over.
LEMMA StartStep ==
    ASSUME JobsInv, TableInv, NEW key \in Keys, Start(key)
    PROVE  /\ JobsInv' /\ TableInv' /\ TableIsShort'
           /\ (\A i \in Ids : adminJobTerminal(jobs[i].status) => jobs'[i] \in {jobs[i], NoJob})
<1> DEFINE new == nextID + 1
           job == [key |-> key, status |-> "queued", rev |-> 1]
           js == [jobs EXCEPT ![new] = job]
           o == Append(order, new)
           gone == Pruned(o, js).gone
<1>1. /\ new \in Ids /\ nextID' = new /\ Reusable(key) = {}
      /\ jobs' = [k \in Ids |-> IF k \in gone THEN NoJob ELSE js[k]]
      /\ channel' = [channel EXCEPT ![new] = 1]
      /\ owner' = [owner EXCEPT ![new] = key]
      /\ work' = [work EXCEPT ![new] = "spawned"]
      /\ UNCHANGED <<reports, cancelled, calls, stream>>
  BY JobsAssumption DEF Start, JobsInv, Shape, Ids
<1>18. /\ o \in Seq(Ids) /\ Increasing(o)
       /\ \A i : Lists(o, i) <=> Lists(order, i) \/ i = new
       /\ order' = Pruned(o, js).kept
  BY StartExtends DEF Start
<1>19. PassInv(o, js, Len(o), Pruned(o, js))
  <2> HIDE DEF o, js
  <2> QED BY <1>18, PruneLoop
<1>2. \A k \in gone : adminJobTerminal(js[k].status)
  BY <1>19 DEF PassInv
<1> DEFINE ex == Pruned(o, js).excess
<1>20. /\ order' \in Seq(Ids) /\ Increasing(order') /\ ex \in Int
       /\ \A i \in Ids : i \in gone \/ Lists(order', i) <=> Lists(o, i)
       /\ \A k \in 1..Len(order') :
             /\ order'[k] \notin gone
             /\ ex > 0 => ~adminJobTerminal(js[order'[k]].status)
       /\ Len(order') = MaxJobs + ex
  <2> DEFINE p == Pruned(o, js)
  <2>1. order' = p.kept /\ gone = p.gone /\ ex = p.excess /\ Len(o) \in Nat /\ MaxJobs \in Nat
    BY <1>18, JobsAssumption
  <2> HIDE DEF o, js, p, gone, ex
  <2>2. PassInv(o, js, Len(o), p)
    BY <1>19 DEF p
  <2>3. p.kept \in Seq(Ids) /\ p.excess \in Int
    BY <2>2 DEF PassInv, Passes
  <2>4. \A i \in Ids : i \in p.gone \/ Lists(p.kept, i) <=> Lists(o, i)
    BY <2>2 DEF PassInv, Lists
  <2>5. \A k \in 1..Len(p.kept) : p.kept[k] \notin p.gone
                                /\ (p.excess > 0 => ~adminJobTerminal(js[p.kept[k]].status))
    BY <2>2 DEF PassInv
  <2>6. Increasing(p.kept) /\ Len(p.kept) = Len(o) - (Len(o) - MaxJobs - p.excess)
    BY <2>2 DEF PassInv
  <2>7. Len(p.kept) = MaxJobs + p.excess
    BY <2>1, <2>3, <2>6
  <2> QED BY <2>1, <2>3, <2>4, <2>5, <2>6, <2>7
<1> HIDE DEF gone, ex, o
<1>3. job \in JobRecords /\ job # NoJob /\ ~adminJobTerminal(job.status)
  <2>1. "queued" \in Statuses /\ "queued" \notin TerminalStatuses
    BY DEF Statuses, TerminalStatuses
  <2> QED BY <2>1 DEF JobRecords, NoJob, adminJobTerminal
<1>4. js \in [Ids -> JobRecords \cup {NoJob}] /\ js[new] = job /\ \A k \in Ids : k # new => js[k] = jobs[k]
  BY <1>1, <1>3 DEF JobsInv, Shape
<1>5. jobs[new] = NoJob /\ work[new] = "none" /\ owner[new] = "none"
  BY <1>1 DEF JobsInv, Fresh, Shape
<1>6. jobs'[new] = job
  BY <1>1, <1>2, <1>3, <1>4
<1>7. job.key = key
  OBVIOUS
<1> HIDE DEF js, job
<1>8. \A k \in Ids : k # new => /\ jobs'[k] \in {jobs[k], NoJob}
                                /\ ~adminJobTerminal(jobs[k].status) => jobs'[k] = jobs[k]
  BY <1>1, <1>2, <1>4
<1>9. Shape'
  <2>1. jobs' \in [Ids -> JobRecords \cup {NoJob}]
    BY <1>1, <1>4
  <2>2. nextID' \in 0..MaxStarts
    BY <1>1 DEF Ids
  <2>3. channel' \in [Ids -> Nat] /\ owner' \in [Ids -> Keys \cup {"none"}]
        /\ work' \in [Ids -> {"none", "spawned", "working", "done"}]
    BY <1>1 DEF JobsInv, Shape
  <2> QED BY <1>1, <2>1, <2>2, <2>3 DEF JobsInv, Shape
<1>10. Fresh'
  BY <1>1, <1>8 DEF JobsInv, Shape, Fresh, Ids
<1>11. ~adminJobTerminal(NoJob.status)
  BY DEF NoJob, adminJobTerminal, TerminalStatuses
<1>12. UncancelledIsActive'
  <2> SUFFICES ASSUME NEW k \in Ids, work'[k] \in {"spawned", "working"},
                      k \notin cancelled \cup calls
               PROVE  Active(k)' /\ jobs'[k].key = owner'[k]
    BY <1>1 DEF UncancelledIsActive
  <2>1. CASE k = new
    BY <1>1, <1>3, <1>6, <1>7, <2>1 DEF Active, Present, JobsInv, Shape
  <2>2. CASE k # new
    <3>1. work'[k] = work[k] /\ owner'[k] = owner[k]
      BY <1>1, <2>2 DEF JobsInv, Shape
    <3>2. Active(k) /\ jobs[k].key = owner[k]
      BY <3>1 DEF JobsInv, UncancelledIsActive
    <3>3. jobs'[k] = jobs[k]
      BY <1>8, <2>2, <3>2 DEF Active
    <3> QED BY <3>1, <3>2, <3>3 DEF Active, Present
  <2> QED BY <2>1, <2>2
<1>13. OverlapOnlyAfterCancel'
  <2> SUFFICES ASSUME NEW i \in Ids, NEW j \in Ids, i < j, owner'[i] = owner'[j],
                      work'[i] \in {"spawned", "working"}, owner'[j] # "none",
                      i \notin cancelled \cup calls
               PROVE  FALSE
    BY <1>1 DEF OverlapOnlyAfterCancel
  <2>1. i # new
    <3>1. j > nextID /\ j # new => owner[j] = "none"
      BY DEF JobsInv, Fresh
    <3> QED BY <1>1, <3>1 DEF JobsInv, Shape, Ids
  <2>2. owner'[i] = owner[i] /\ work'[i] = work[i]
    BY <1>1, <2>1 DEF JobsInv, Shape
  <2>3. CASE j = new
    <3>1. owner'[j] = key
      BY <1>1, <2>3 DEF JobsInv, Shape
    <3>2. Active(i) /\ jobs[i].key = owner[i]
      BY <2>2 DEF JobsInv, UncancelledIsActive
    <3> QED BY <1>1, <2>2, <3>1, <3>2 DEF Reusable
  <2>4. CASE j # new
    <3>1. owner'[j] = owner[j]
      BY <1>1, <2>4 DEF JobsInv, Shape
    <3> QED BY <2>2, <3>1 DEF JobsInv, OverlapOnlyAfterCancel
  <2> QED BY <2>3, <2>4
<1>14. ASSUME NEW s \in Streams, stream[s].pc # "idle"
       PROVE  /\ stream[s].id \in 1..nextID /\ stream[s].id \in Ids
              /\ channel'[stream[s].id] = channel[stream[s].id]
              /\ jobs'[stream[s].id] \in {jobs[stream[s].id], NoJob}
  <2>1. stream[s].id \in 1..nextID /\ stream[s].id \in Ids
    BY <1>14, JobsAssumption DEF JobsInv, Follows, Shape, Ids
  <2>2. stream[s].id # new
    BY <2>1 DEF JobsInv, Shape
  <2> QED BY <1>1, <1>8, <2>1, <2>2 DEF JobsInv, Shape
<1>15. Follows'
  BY <1>1, <1>14 DEF JobsInv, Shape, Follows
<1>16. NoMissedChange'
  <2> SUFFICES ASSUME NEW s \in Streams, stream[s].pc = "wait",
                      stream[s].chan = channel'[stream[s].id], Present(stream[s].id)'
               PROVE  /\ jobs'[stream[s].id].rev <= stream[s].rev
                      /\ ~adminJobTerminal(jobs'[stream[s].id].status)
    BY <1>1 DEF NoMissedChange
  <2>1. channel'[stream[s].id] = channel[stream[s].id] /\ jobs'[stream[s].id] = jobs[stream[s].id]
    BY <1>1, <1>14 DEF Present
  <2> QED BY <1>1, <2>1 DEF JobsInv, NoMissedChange, Present
<1>17. \A i \in Ids : adminJobTerminal(jobs[i].status) => jobs'[i] \in {jobs[i], NoJob}
  BY <1>5, <1>8, <1>11
<1>21. TableInv'
  <2>1. ASSUME NEW i \in Ids PROVE Present(i)' <=> Lists(order', i)
    <3>1. i \in gone => jobs'[i] = NoJob /\ ~Lists(order', i)
      BY <1>1, <1>20 DEF Lists
    <3>2. i \notin gone => jobs'[i] = js[i] /\ (Lists(order', i) <=> Lists(order, i) \/ i = new)
      BY <1>1, <1>18, <1>20
    <3>3. i # new => (Lists(order, i) <=> jobs[i] # NoJob)
      BY DEF TableInv, Present
    <3> QED BY <1>3, <1>4, <3>1, <3>2, <3>3 DEF Present
  <2> QED BY <1>1, <1>20, <2>1 DEF TableInv
<1>22. TableIsShort'
  <2> SUFFICES ASSUME ~(Len(order') <= MaxJobs), NEW k \in 1..Len(order')
               PROVE  ~adminJobTerminal(jobs'[order'[k]].status)
    BY DEF TableIsShort
  <2>1. ex > 0 /\ order'[k] \in Ids /\ order'[k] \notin gone
    BY <1>20, JobsAssumption
  <2>2. jobs'[order'[k]] = js[order'[k]]
    BY <1>1, <2>1
  <2> QED BY <1>20, <2>1, <2>2
<1> QED BY <1>9, <1>10, <1>12, <1>13, <1>15, <1>16, <1>17, <1>21, <1>22 DEF JobsInv

\* The goroutine's reports and a request's cancellation.
LEMMA JobStep ==
    ASSUME JobsInv, NEW i \in Ids, Work(i) \/ CancelJob(i)
    PROVE  JobsInv' /\ Published /\ (\A k \in Ids : adminJobTerminal(jobs[k].status) => jobs'[k] \in {jobs[k], NoJob})
<1>1. PICK status \in Statuses :
        /\ \/ PublishUnlessOver(i, status)
           \/ Active(i) /\ Publish(i, status)
        /\ adminJobTerminal(status) =>
             i \in (cancelled \cup calls)' \/ work'[i] = "done" \/ UNCHANGED jobs
  <2>1. CASE WorkBegins(i) \/ WorkProgress(i)
    <3>1. "running" \in Statuses /\ ~adminJobTerminal("running")
      BY DEF Statuses, TerminalStatuses, adminJobTerminal
    <3> QED BY <2>1, <3>1 DEF WorkBegins, WorkProgress
  <2>2. CASE WorkEnds(i)
    <3>1. Outcomes \cup {"cancelled"} \subseteq Statuses
      BY JobsAssumption DEF Statuses, TerminalStatuses
    <3>2. work'[i] = "done"
      BY <2>2 DEF WorkEnds, JobsInv, Shape
    <3>3. PICK status \in Outcomes \cup {"cancelled"} : PublishUnlessOver(i, status)
      BY <2>2 DEF WorkEnds
    <3> QED BY <3>1, <3>2, <3>3
  <2>3. CASE CancelJob(i) /\ Active(i)
    <3>1. "cancelled" \in Statuses
      BY DEF Statuses, TerminalStatuses
    <3> QED BY <2>3, <3>1 DEF CancelJob
  <2>4. CASE CancelJob(i) /\ ~Active(i)
    <3>1. "cancelled" \in Statuses
      BY DEF Statuses, TerminalStatuses
    <3> QED BY <2>4, <3>1 DEF CancelJob, PublishUnlessOver
  <2> QED BY <2>1, <2>2, <2>3, <2>4 DEF Work
<1>2. /\ Published
      /\ \A k \in Ids : Active(k) /\ (k # i \/ ~adminJobTerminal(status)) => Active(k)'
  BY <1>1, PublishChanges DEF JobsInv
<1>3. /\ UNCHANGED <<nextID, owner, stream>>
      /\ work' \in [Ids -> {"none", "spawned", "working", "done"}]
      /\ \A k \in Ids : /\ work'[k] = work[k] \/ (k = i /\ work[k] \in {"spawned", "working"})
                        /\ work'[k] \in {"spawned", "working"} => work[k] \in {"spawned", "working"}
      /\ cancelled \cup calls \subseteq (cancelled \cup calls)'
  <2>1. CASE WorkBegins(i)
    BY <2>1 DEF WorkBegins, JobsInv, Shape
  <2>2. CASE WorkProgress(i)
    BY <2>2 DEF WorkProgress, JobsInv, Shape
  <2>3. CASE WorkEnds(i)
    BY <2>3 DEF WorkEnds, JobsInv, Shape
  <2>4. CASE CancelJob(i)
    BY <2>4 DEF CancelJob, JobsInv, Shape
  <2> QED BY <2>1, <2>2, <2>3, <2>4 DEF Work
<1>4. Shape'
  BY <1>2, <1>3 DEF JobsInv, Shape, Published
<1>5. Fresh'
  <2> SUFFICES ASSUME NEW k \in Ids, k > nextID
               PROVE  jobs'[k] = NoJob /\ work'[k] = "none" /\ owner'[k] = "none"
    BY <1>3 DEF Fresh
  <2>1. jobs[k] = NoJob /\ work[k] = "none" /\ owner[k] = "none"
    BY DEF JobsInv, Fresh
  <2>2. jobs'[k] = NoJob
    BY <1>2, <2>1 DEF Published, Present
  <2> QED BY <1>3, <2>1, <2>2
<1>6. UncancelledIsActive'
  <2> SUFFICES ASSUME NEW k \in Ids, work'[k] \in {"spawned", "working"},
                      k \notin (cancelled \cup calls)'
               PROVE  Active(k)' /\ jobs'[k].key = owner'[k]
    BY DEF UncancelledIsActive
  <2>1. Active(k) /\ jobs[k].key = owner[k]
    BY <1>3 DEF JobsInv, UncancelledIsActive
  <2>2. jobs'[k].key = owner'[k]
    BY <1>2, <1>3, <2>1 DEF Published
  <2>3. (k # i \/ ~adminJobTerminal(status)) \/ UNCHANGED jobs
    BY <1>1
  <2>4. Active(k)'
    BY <1>2, <2>1, <2>3 DEF Active, Present
  <2> QED BY <2>2, <2>4
<1>7. OverlapOnlyAfterCancel'
  BY <1>3 DEF JobsInv, OverlapOnlyAfterCancel
<1>8. Follows' /\ NoMissedChange'
  BY <1>2, <1>3, StreamsAfterPublish
<1> QED BY <1>2, <1>4, <1>5, <1>6, <1>7, <1>8 DEF JobsInv, Published

\* The cancel function moves the job from the calls to the cancelled.
LEMMA CallCancelStep ==
    ASSUME JobsInv, NEW i \in Ids, CallCancel(i)
    PROVE  JobsInv'
<1>1. UNCHANGED <<jobs, nextID, channel, owner, work, stream>>
  BY DEF CallCancel, table
<1>2. (cancelled \cup calls)' = cancelled \cup calls
  BY DEF CallCancel
<1> QED BY <1>1, <1>2 DEF JobsInv, Shape, Fresh, UncancelledIsActive, Follows,
           OverlapOnlyAfterCancel, NoMissedChange, Active, Present

\* A stream that goes to wait has just seen the job and its open channel.
LEMMA StreamStep ==
    ASSUME JobsInv, NEW s \in Streams,
           \/ \E i \in Followed, after \in Afters : OpenStream(s, i, after)
           \/ Stream(s) \/ StreamLost(s)
    PROVE  JobsInv'
<1> DEFINE Sound(g) ==
             /\ g \in StreamRecords
             /\ g.pc # "idle" => g.id \in 1..nextID
             /\ g.pc \in {"send", "wait"} => g.chan <= channel[g.id]
             /\ g.pc = "wait" /\ g.chan = channel[g.id] /\ Present(g.id) =>
                   jobs[g.id].rev <= g.rev /\ ~adminJobTerminal(jobs[g.id].status)
<1>1. UNCHANGED <<table, goroutines>>
  BY DEF OpenStream, Stream, StreamObserve, StreamSend, StreamWake, StreamLost
<1>2. Sound(stream[s])
  BY DEF JobsInv, Shape, Follows, NoMissedChange
<1>3. Sound(Idle)
  BY DEF Idle, StreamRecords
<1>4. \E g : Sound(g) /\ stream' = [stream EXCEPT ![s] = g]
  <2>1. ASSUME NEW i \in Followed, NEW after \in Afters, OpenStream(s, i, after)
        PROVE  \E g : Sound(g) /\ stream' = [stream EXCEPT ![s] = g]
    <3> DEFINE g == [Idle EXCEPT !.pc = "observe", !.id = i, !.rev = after]
    <3>1. i \in Ids /\ Present(i) /\ after \in Nat
      BY <2>1, JobsAssumption DEF OpenStream, Ids
    <3>2. i \in 1..nextID
      BY <3>1 DEF JobsInv, Fresh, Shape, Present, Ids
    <3>3. g \in StreamRecords /\ g.pc = "observe" /\ g.id = i
      BY <3>1 DEF Idle, StreamRecords
    <3>4. stream' = [stream EXCEPT ![s] = g]
      BY <2>1 DEF OpenStream
    <3> QED BY <3>2, <3>3, <3>4
  <2>2. CASE StreamObserve(s)
    <3> DEFINE st == stream[s]
               i == st.id
               news == jobs[i].rev > st.rev \/ adminJobTerminal(jobs[i].status)
               g == [st EXCEPT
                       !.pc = IF news THEN "send" ELSE "wait",
                       !.rev = IF news THEN jobs[i].rev ELSE st.rev,
                       !.chan = channel[i],
                       !.status = IF news THEN jobs[i].status ELSE "none"]
    <3>1. stream' = [stream EXCEPT ![s] = IF ~Present(i) THEN Idle ELSE g]
      BY <2>2 DEF StreamObserve
    <3>2. st \in StreamRecords /\ i \in 1..nextID /\ i \in Ids
      BY <1>2, <2>2, JobsAssumption DEF StreamObserve, JobsInv, Shape, StreamRecords, Ids
    <3>3. ASSUME Present(i) PROVE Sound(g)
      <4>1. jobs[i] \in JobRecords
        BY <3>2, <3>3 DEF JobsInv, Shape, Present
      <4>2. channel[i] \in Nat /\ jobs[i].rev \in Nat /\ jobs[i].status \in Statuses /\ st.rev \in Nat
        BY <3>2, <4>1 DEF JobsInv, Shape, JobRecords, StreamRecords
      <4>3. news \in BOOLEAN
        BY DEF adminJobTerminal
      <4>4. ~news => jobs[i].rev <= st.rev /\ ~adminJobTerminal(jobs[i].status)
        BY <4>2
      <4> HIDE DEF news
      <4>5. /\ g \in StreamRecords /\ g.id = i /\ g.chan = channel[i]
            /\ g.pc = "wait" => ~news /\ g.rev = st.rev
        BY <3>2, <4>2, <4>3 DEF StreamRecords
      <4> HIDE DEF g
      <4> QED BY <3>2, <4>2, <4>4, <4>5
    <3> HIDE DEF g
    <3> QED BY <1>3, <3>1, <3>3
  <2>3. CASE StreamSend(s)
    <3> DEFINE g == [stream[s] EXCEPT !.pc = "observe", !.status = "none"]
    <3>1. stream' = [stream EXCEPT ![s] = IF adminJobTerminal(stream[s].status) THEN Idle ELSE g]
      BY <2>3 DEF StreamSend
    <3>2. g \in StreamRecords /\ g.pc = "observe" /\ g.id = stream[s].id
      BY <1>2 DEF StreamRecords
    <3>3. Sound(g)
      BY <1>2, <2>3, <3>2 DEF StreamSend
    <3> HIDE DEF g
    <3> QED BY <1>3, <3>1, <3>3
  <2>4. CASE StreamWake(s)
    <3> DEFINE g == [stream[s] EXCEPT !.pc = "observe"]
    <3>1. stream' = [stream EXCEPT ![s] = g]
      BY <2>4 DEF StreamWake, JobsInv, Shape, StreamRecords
    <3>2. g \in StreamRecords /\ g.pc = "observe" /\ g.id = stream[s].id
      BY <1>2 DEF StreamRecords
    <3>3. Sound(g)
      BY <1>2, <2>4, <3>2 DEF StreamWake
    <3> QED BY <3>1, <3>3
  <2>5. CASE StreamLost(s)
    BY <1>3, <2>5 DEF StreamLost
  <2> QED BY <2>1, <2>2, <2>3, <2>4, <2>5 DEF Stream
<1>5. PICK g : Sound(g) /\ stream' = [stream EXCEPT ![s] = g]
  BY <1>4
<1>6. stream' \in [Streams -> StreamRecords]
      /\ \A q \in Streams : stream'[q] = IF q = s THEN g ELSE stream[q]
  BY <1>5 DEF JobsInv, Shape
<1>7. UNCHANGED <<jobs, nextID, channel, owner, work, cancelled, calls>>
  BY <1>1 DEF table, goroutines
<1>8. Follows'
  BY <1>5, <1>6, <1>7 DEF JobsInv, Follows
<1>9. NoMissedChange'
  BY <1>5, <1>6, <1>7 DEF JobsInv, NoMissedChange, Present
<1>10. Shape' /\ Fresh' /\ UncancelledIsActive' /\ OverlapOnlyAfterCancel'
  BY <1>6, <1>7 DEF JobsInv, Shape, Fresh, UncancelledIsActive, OverlapOnlyAfterCancel,
                    Active, Present
<1> QED BY <1>8, <1>9, <1>10 DEF JobsInv

-----------------------------------------------------------------------------

LEMMA JobsInvInit == Init => JobsInv
<1> SUFFICES ASSUME Init PROVE JobsInv
  OBVIOUS
<1>1. Shape
  <2>1. Idle \in StreamRecords
    BY DEF Idle, StreamRecords
  <2>2. 0 \in 0..MaxStarts
    BY JobsAssumption
  <2> QED BY <2>1, <2>2 DEF Init, Shape
<1>2. Fresh /\ UncancelledIsActive /\ OverlapOnlyAfterCancel
  BY DEF Init, Fresh, UncancelledIsActive, OverlapOnlyAfterCancel
<1>3. Follows /\ NoMissedChange
  BY DEF Init, Follows, NoMissedChange, Idle
<1> QED BY <1>1, <1>2, <1>3 DEF JobsInv

\* Every other step leaves the table's order and its entries.
LEMMA OtherStep ==
    ASSUME JobsInv, TableInv, [Next]_vars, \A key \in Keys : ~Start(key)
    PROVE  TableInv' /\ order' = order
<1>1. ASSUME NEW i \in Ids, Work(i) \/ CancelJob(i) \/ CallCancel(i)
      PROVE  /\ reports' \in 0..MaxProgress /\ cancelled' \subseteq Ids /\ calls' \subseteq Ids
             /\ order' = order
  <2>1. CASE WorkBegins(i)
    BY <2>1 DEF WorkBegins, TableInv
  <2>2. CASE WorkProgress(i)
    BY <2>2, JobsAssumption DEF WorkProgress, TableInv
  <2>3. CASE WorkEnds(i)
    BY <2>3 DEF WorkEnds, TableInv
  <2>4. CASE CancelJob(i)
    BY <2>4 DEF CancelJob, TableInv
  <2>5. CASE CallCancel(i)
    BY <2>5 DEF CallCancel, table, TableInv
  <2> QED BY <1>1, <2>1, <2>2, <2>3, <2>4, <2>5 DEF Work
<1>2. CASE \E i \in Ids : Work(i) \/ CancelJob(i)
  <2>1. PICK i \in Ids : Work(i) \/ CancelJob(i)
    BY <1>2
  <2>2. \A k \in Ids : Present(k)' <=> Present(k)
    BY <2>1, JobStep DEF Published
  <2> QED BY <1>1, <2>1, <2>2 DEF TableInv
<1>3. CASE \E i \in Ids : CallCancel(i)
  <2>1. jobs' = jobs
    BY <1>3 DEF CallCancel, table
  <2> QED BY <1>1, <1>3, <2>1 DEF TableInv, Present
<1>4. CASE \/ \E s \in Streams : \/ \E i \in Followed, after \in Afters : OpenStream(s, i, after)
                               \/ Stream(s) \/ StreamLost(s)
           \/ UNCHANGED vars
  <2>1. UNCHANGED <<jobs, order, reports, cancelled, calls>>
    BY <1>4 DEF OpenStream, Stream, StreamObserve, StreamSend, StreamWake, StreamLost, table,
                goroutines, vars
  <2> QED BY <2>1 DEF TableInv, Present
<1> QED BY <1>2, <1>3, <1>4 DEF Next

\* Every step keeps the invariant and revises no end, and one that changes
\* the order has pruned the table.
LEMMA JobsInvNext ==
    JobsInv /\ TableInv /\ [Next]_vars =>
        /\ JobsInv' /\ TableInv'
        /\ \A i \in Ids : adminJobTerminal(jobs[i].status) => jobs'[i] \in {jobs[i], NoJob}
        /\ order' = order \/ TableIsShort'
<1> SUFFICES ASSUME JobsInv, TableInv, [Next]_vars
             PROVE  /\ JobsInv' /\ TableInv'
                    /\ \A i \in Ids : adminJobTerminal(jobs[i].status) => jobs'[i] \in {jobs[i], NoJob}
                    /\ order' = order \/ TableIsShort'
  OBVIOUS
<1>1. CASE \E key \in Keys : Start(key)
  BY <1>1, StartStep
<1>2. CASE ~ \E key \in Keys : Start(key)
  <2>1. TableInv' /\ order' = order
    BY <1>2, OtherStep
  <2>2. CASE \E i \in Ids : Work(i) \/ CancelJob(i)
    BY <2>1, <2>2, JobStep
  <2>3. CASE \E i \in Ids : CallCancel(i)
    BY <2>1, <2>3, CallCancelStep DEF CallCancel, table
  <2>4. CASE \E s \in Streams :
               \/ \E i \in Followed, after \in Afters : OpenStream(s, i, after)
               \/ Stream(s) \/ StreamLost(s)
    <3>1. JobsInv'
      BY <2>4, StreamStep
    <3>2. jobs' = jobs
      BY <2>4 DEF OpenStream, Stream, StreamObserve, StreamSend, StreamWake, StreamLost, table
    <3> QED BY <2>1, <3>1, <3>2
  <2>5. CASE UNCHANGED vars
    BY <2>1, <2>5 DEF vars, JobsInv, Shape, Fresh, UncancelledIsActive, Follows,
                OverlapOnlyAfterCancel, NoMissedChange, Active, Present
  <2> QED BY <1>2, <2>2, <2>3, <2>4, <2>5 DEF Next
<1> QED BY <1>1, <1>2

LEMMA JobsInvAlways == Spec => [](JobsInv /\ TableInv)
<1>1. Init => JobsInv /\ TableInv
  <2>1. Init => TableInv
    BY JobsAssumption DEF Init, TableInv, Present, Lists, Increasing
  <2> QED BY <2>1, JobsInvInit
<1>2. JobsInv /\ TableInv /\ [Next]_vars => (JobsInv /\ TableInv)'
  BY JobsInvNext
<1> QED BY <1>1, <1>2, PTL DEF Spec

\* The table, the goroutines and the streams always have their types: what
\* pruning leaves of the order is again a sequence of ids.
THEOREM JobsTypeCorrect == Spec => []TypeOK
<1>1. JobsInv /\ TableInv => TypeOK
  BY DEF JobsInv, TableInv, Shape, TypeOK
<1> QED BY <1>1, JobsInvAlways, PTL

\* Pruning never takes the job of a goroutine that nobody has cancelled.
THEOREM RunningJobsAreListed == Spec => []RunningJobsStay
<1>1. JobsInv /\ TableInv => RunningJobsStay
  BY DEF JobsInv, TableInv, UncancelledIsActive, Active, Lists, RunningJobsStay
<1> QED BY <1>1, JobsInvAlways, PTL

\* When a start has changed the table, the table holds no more than maxJobs
\* jobs, or only jobs that are not over: terminal jobs never make it grow.
THEOREM TableStaysShort == Spec => [][order' = order \/ TableIsShort']_vars
<1>1. JobsInv /\ TableInv /\ [Next]_vars => [order' = order \/ TableIsShort']_vars
  BY JobsInvNext
<1> QED BY <1>1, JobsInvAlways, PTL DEF Spec

\* A stream that sleeps on the channel that is open has seen all there is.
THEOREM NoChangeIsMissed == Spec => []NoMissedChange
<1>1. JobsInv /\ TableInv => NoMissedChange
  BY DEF JobsInv
<1> QED BY <1>1, JobsInvAlways, PTL

\* Of two goroutines for one kind and session the older has been cancelled.
THEOREM OverlapsAreCancelled == Spec => []OverlapOnlyAfterCancel
<1>1. JobsInv /\ TableInv => OverlapOnlyAfterCancel
  BY DEF JobsInv
<1> QED BY <1>1, JobsInvAlways, PTL

\* No late result, progress report or cancellation revises how a job ended.
THEOREM EndsAreFinal == Spec => EndIsFinal
<1>1. JobsInv /\ TableInv /\ [Next]_vars =>
        [\A i \in Ids : adminJobTerminal(jobs[i].status) => jobs'[i] \in {jobs[i], NoJob}]_vars
  BY JobsInvNext
<1> QED BY <1>1, JobsInvAlways, PTL DEF Spec, EndIsFinal
================================================================================
