----------------------------- MODULE StatsWriter -----------------------------
(***************************************************************************)
(* How the statistics of a queue reach Redis: the snapshots of             *)
(* src/src/server/stats/stats-listener.ts, the roll-ups of stats-writer.ts *)
(* in the same directory, and the buffer of redis/write-cache.ts that both *)
(* are written through.                                                    *)
(*                                                                         *)
(* Every server hears of every finished job and collects them for the      *)
(* minute its listener is in.  At the end of a minute the owner of the     *)
(* lock buffers the minute's record and the queue's counts, reads the      *)
(* hour's record from Redis, and buffers the sum of the two when the       *)
(* answer comes.  The buffer is sent as one transaction by a timer, and is *)
(* dropped by a server that is no longer the owner.                        *)
(*                                                                         *)
(* All minutes belong to one hour; the day and the week are rolled up as   *)
(* the hour is, the wait times as the latencies, and a job name as the     *)
(* queue.  A snapshot is the set of its jobs.                              *)
(***************************************************************************)
EXTENDS Naturals, Sequences, FiniteSets

CONSTANTS
  Servers,
  NoHour,      \* no record of the hour: none is buffered, or its read has failed
  Minutes,     \* bound: the minutes in which jobs finish
  MaxMinute,   \* bound: the last of them
  MaxJobs,     \* bound: finished jobs
  MaxChanges,  \* bound: times the lock is won or lost
  MaxFaults    \* bound: crashes, and commands that fail

ASSUME StatsAssumption ==
  /\ IsFiniteSet(Servers)
  /\ MaxMinute \in Nat /\ Minutes \subseteq 0..MaxMinute
  /\ MaxJobs \in Nat /\ MaxChanges \in Nat /\ MaxFaults \in Nat
  /\ NoHour \notin [1..MaxJobs -> Nat]

VARIABLES
  finished,   \* the minutes of the finished jobs, in the order of the stream
  isOwner,    \* the lock manager's flag of every server
  listener,   \* the StatsListener of every server
  cache,      \* the WriteCache of every server
  wire,       \* a server's commands that Redis has not executed
  replies,    \* and the answers that the server has not handled
  redis,      \* the records of the minutes and of the hour, and COMPLETED
  log         \* history: changes, faults, taken, written, overlapped (see Init)

vars == <<finished, isOwner, listener, cache, wire, replies, redis, log>>

Jobs == 1..MaxJobs
None == [j \in Jobs |-> 0]
NoMinutes == [m \in 0..MaxMinute |-> {}]

\* The minute of the clock: it goes on with the events.
Now == IF finished = <<>> THEN 0 ELSE finished[Len(finished)]

\* aggregateSnapshots(): a job that is in both is counted twice.
Aggregate(source, base) == [j \in Jobs |-> base[j] + IF j \in source THEN 1 ELSE 0]

\* The transaction that is buffered: the records of minutes and of the hour, each of
\* which writes over its last one, and what is added to the counts.
Empty == [minutes |-> NoMinutes, hour |-> NoHour, counts |-> 0]
IsChanged(buffer) == buffer # Empty

-----------------------------------------------------------------------------
\* nextFlush is the last minute that the next snapshot may be of: a listener
\* begins with the end of the minute after the present one.
Listening(seen, minute) == [seen |-> seen, stats |-> {}, nextFlush |-> minute + 1]

Init ==
  /\ finished = <<>>
  /\ isOwner = [s \in Servers |-> FALSE]
  /\ listener = [s \in Servers |-> Listening(0, 0)]
  /\ cache = [s \in Servers |-> [buffer |-> Empty, isFlushing |-> FALSE]]
  /\ wire = [s \in Servers |-> <<>>]
  /\ replies = [s \in Servers |-> <<>>]
  /\ redis = [minute |-> NoMinutes, hour |-> None, counts |-> 0]
  \* log.taken has the servers and the jobs of their snapshots as an owner, and
  \* log.written those of the records of minutes that were written;
  \* log.overlapped says that a minute was rolled up before the one before it
  \* was in Redis, or that a server has won the lock with an old buffer.
  /\ log = [changes |-> 0, faults |-> 0, taken |-> {}, written |-> {},
            overlapped |-> FALSE]

Finish(m) ==
  /\ m >= Now /\ Len(finished) < MaxJobs
  /\ finished' = Append(finished, m)
  /\ UNCHANGED <<isOwner, listener, cache, wire, replies, redis, log>>

-----------------------------------------------------------------------------
(* The write cache.                                                         *)

Send(s, command) == wire' = [wire EXCEPT ![s] = Append(@, command)]

\* Mutant: the counts survive when the transaction is dropped.
DiscardsTransaction(buffer) == [Empty EXCEPT !.counts = buffer.counts]

\* discardBuffer()
Discarded(buffer) == Empty

\* flush() of a server that is not the owner.
Discard(s) ==
  /\ ~isOwner[s] /\ ~cache[s].isFlushing /\ IsChanged(cache[s].buffer)
  /\ cache' = [cache EXCEPT ![s].buffer = Discarded(@)]
  /\ UNCHANGED <<finished, isOwner, listener, wire, replies, redis, log>>

\* Taking the buffer for exec().
Flushing(c) == [buffer |-> Empty, isFlushing |-> TRUE]

\* flush() of the owner: the transaction, and the counts in the same.
Flush(s) ==
  /\ isOwner[s] /\ ~cache[s].isFlushing /\ IsChanged(cache[s].buffer)
  /\ Send(s, [type |-> "exec", buffer |-> cache[s].buffer])
  /\ cache' = [cache EXCEPT ![s] = Flushing(@)]
  /\ UNCHANGED <<finished, isOwner, listener, replies, redis, log>>

\* Mutant: only a success ends the flush.
EndsOnSuccess(c, failed) == [c EXCEPT !.isFlushing = failed]

FlushEnded(c, failed) == [c EXCEPT !.isFlushing = FALSE]

\* exec() is answered, or has failed.
Flushed(s) ==
  /\ replies[s] # <<>> /\ Head(replies[s]).type = "exec"
  /\ replies' = [replies EXCEPT ![s] = Tail(@)]
  /\ cache' = [cache EXCEPT ![s] = FlushEnded(@, Head(replies[s]).failed)]
  /\ UNCHANGED <<finished, isOwner, listener, wire, redis, log>>

-----------------------------------------------------------------------------
(* Snapshots and roll-ups.                                                  *)

\* Something of the hour is on its way, or was lost on it.
Busy ==
  \E s \in Servers :
    \/ wire[s] # <<>> \/ replies[s] # <<>>
    \/ isOwner[s] /\ IsChanged(cache[s].buffer)

\* updateCounts(): with the latencies, and again with the wait times.
UpdateCounts(jobs) == 2 * Cardinality(jobs)

\* Mutant: the snapshots keep their jobs.
KeepsStats(l) == [l EXCEPT !.nextFlush = @ + 1]

\* takeSnapshot() moves to the next minute, which need not be the present one.
SnapshotTaken(l) == [l EXCEPT !.nextFlush = @ + 1, !.stats = {}]

\* Mutant: every event ends a minute.
EndsAlways(l, minute) == TRUE

\* flushIfNeeded()
NeedsFlush(l, minute) == minute > l.nextFlush

\* writeSnapshot() of a minute, and updateCounts().
Buffered(buffer, jobs, minute) ==
  [minutes |-> [buffer.minutes EXCEPT ![minute] = jobs],
   hour    |-> buffer.hour,
   counts  |-> buffer.counts + UpdateCounts(jobs)]

\* writeStats(): the minute is buffered and the hour is asked for, in one go.
WriteStats(s, jobs, minute) ==
  IF isOwner[s] /\ jobs # {}
    THEN /\ cache' = [cache EXCEPT ![s].buffer = Buffered(@, jobs, minute)]
         /\ Send(s, [type |-> "get", source |-> jobs])
         /\ log' = [log EXCEPT !.taken = @ \cup ({s} \X jobs), !.overlapped = @ \/ Busy]
    ELSE UNCHANGED <<cache, wire, log>>

\* updateStats(), with the next event of the stream.
UpdateStats(s) ==
  LET l == listener[s]
      job == l.seen + 1
      taken == IF NeedsFlush(l, finished[job]) THEN SnapshotTaken(l) ELSE l
  IN
  /\ job <= Len(finished)
  /\ IF NeedsFlush(l, finished[job])
       THEN WriteStats(s, l.stats, l.nextFlush)
       ELSE UNCHANGED <<cache, wire, log>>
  /\ listener' = [listener EXCEPT ![s] =
       [seen |-> job, stats |-> taken.stats \cup {job}, nextFlush |-> taken.nextFlush]]
  /\ UNCHANGED <<finished, isOwner, replies, redis>>

\* writeSnapshot() of the hour.
WriteHour(s, hour) ==
  IF isOwner[s]
    THEN cache' = [cache EXCEPT ![s].buffer.hour = hour]
    ELSE UNCHANGED cache

\* Mutant: the minute is added to its own hour once more.
AddsTwice(source, base) == Aggregate(source, Aggregate(source, base))

\* Mutant: the hour begins anew with every minute.
Restarts(source, base) == Aggregate(source, None)

\* The minute and the hour that was read.
RolledUp(source, base) == Aggregate(source, base)

\* rollupInternal(): the hour is answered.
Rollup(s) ==
  /\ replies[s] # <<>> /\ Head(replies[s]).type = "get"
  /\ replies' = [replies EXCEPT ![s] = Tail(@)]
  /\ LET r == Head(replies[s]) IN
       IF r.base = NoHour THEN UNCHANGED cache
                         ELSE WriteHour(s, RolledUp(r.source, r.base))
  /\ UNCHANGED <<finished, isOwner, listener, wire, redis, log>>

-----------------------------------------------------------------------------
(* Redis executes the commands of a connection in order.                    *)

Reply(s, reply) == replies' = [replies EXCEPT ![s] = Append(@, reply)]

Applied(r, b) ==
  [minute |-> [m \in 0..MaxMinute |->
                 IF b.minutes[m] = {} THEN r.minute[m] ELSE b.minutes[m]],
   hour   |-> IF b.hour = NoHour THEN r.hour ELSE b.hour,
   counts |-> r.counts + b.counts]

\* The jobs of the minutes in a buffer.
JobsIn(buffer) == UNION {buffer.minutes[m] : m \in 0..MaxMinute}

Execute(s) ==
  /\ wire[s] # <<>>
  /\ wire' = [wire EXCEPT ![s] = Tail(@)]
  /\ LET c == Head(wire[s]) IN
       IF c.type = "get"
         THEN /\ Reply(s, [type |-> "get", source |-> c.source, base |-> redis.hour])
              /\ UNCHANGED <<redis, log>>
         ELSE /\ Reply(s, [type |-> "exec", failed |-> FALSE])
              /\ redis' = Applied(redis, c.buffer)
              /\ log' = [log EXCEPT !.written = @ \cup ({s} \X JobsIn(c.buffer))]
  /\ UNCHANGED <<finished, isOwner, listener, cache>>

-----------------------------------------------------------------------------
(* The lock, and faults.  At most one server is the owner, as LockManager    *)
(* has it of those whose lease is not over.                                  *)

Acquire(s) ==
  /\ \A t \in Servers : ~isOwner[t]
  /\ log.changes < MaxChanges
  /\ isOwner' = [isOwner EXCEPT ![s] = TRUE]
  /\ log' = [log EXCEPT !.changes = @ + 1, !.overlapped = @ \/ IsChanged(cache[s].buffer)]
  /\ UNCHANGED <<finished, listener, cache, wire, replies, redis>>

Lose(s) ==
  /\ isOwner[s]
  /\ log.changes < MaxChanges
  /\ isOwner' = [isOwner EXCEPT ![s] = FALSE]
  /\ log' = [log EXCEPT !.changes = @ + 1]
  /\ UNCHANGED <<finished, listener, cache, wire, replies, redis>>

Fault == log' = [log EXCEPT !.faults = @ + 1]

\* A command fails before it is executed.
Fail(s) ==
  /\ wire[s] # <<>> /\ log.faults < MaxFaults
  /\ wire' = [wire EXCEPT ![s] = Tail(@)]
  /\ LET c == Head(wire[s]) IN
       Reply(s, IF c.type = "get"
                  THEN [type |-> "get", source |-> c.source, base |-> NoHour]
                  ELSE [type |-> "exec", failed |-> TRUE])
  /\ Fault
  /\ UNCHANGED <<finished, isOwner, listener, cache, redis>>

\* The process dies and is started again: it listens at '$'.  catchUp() finds no
\* gap: it looks in the series without a granularity, which nobody writes.
Crash(s) ==
  /\ log.faults < MaxFaults
  /\ isOwner' = [isOwner EXCEPT ![s] = FALSE]
  /\ listener' = [listener EXCEPT ![s] = Listening(Len(finished), Now)]
  /\ cache' = [cache EXCEPT ![s] = [buffer |-> Empty, isFlushing |-> FALSE]]
  /\ wire' = [wire EXCEPT ![s] = <<>>]
  /\ replies' = [replies EXCEPT ![s] = <<>>]
  /\ Fault
  /\ UNCHANGED <<finished, redis>>

-----------------------------------------------------------------------------
Step(s) ==
  \/ UpdateStats(s) \/ Rollup(s)
  \/ Flush(s) \/ Discard(s) \/ Flushed(s)
  \/ Execute(s)

Next ==
  \/ \E m \in Minutes : Finish(m)
  \/ \E s \in Servers : Step(s)
  \/ \E s \in Servers : Acquire(s) \/ Lose(s) \/ Fail(s) \/ Crash(s)

Spec == Init /\ [][Next]_vars

-----------------------------------------------------------------------------
(* Properties.                                                              *)

Hours == [Jobs -> Nat]
Minute == [0..MaxMinute -> SUBSET Jobs]
Buffer == [minutes : Minute, hour : Hours \cup {NoHour}, counts : Nat]
Gets == [type : {"get"}, source : SUBSET Jobs]
Execs == [type : {"exec"}, buffer : Buffer]
GetReplies == [type : {"get"}, source : SUBSET Jobs, base : Hours \cup {NoHour}]
ExecReplies == [type : {"exec"}, failed : BOOLEAN]
Pairs == SUBSET (Servers \X Jobs)

TypeOK ==
  /\ finished \in Seq(Minutes) /\ Len(finished) <= MaxJobs
  /\ isOwner \in [Servers -> BOOLEAN]
  /\ listener \in [Servers -> [seen : 0..MaxJobs, stats : SUBSET Jobs, nextFlush : 1..MaxMinute + 1]]
  /\ cache \in [Servers -> [buffer : Buffer, isFlushing : BOOLEAN]]
  /\ wire \in [Servers -> Seq(Gets \cup Execs)]
  /\ replies \in [Servers -> Seq(GetReplies \cup ExecReplies)]
  /\ redis \in [minute : Minute, hour : Hours, counts : Nat]
  /\ log \in [changes : 0..MaxChanges, faults : 0..MaxFaults, taken : Pairs,
              written : Pairs, overlapped : BOOLEAN]

\* The counters of the queue and the records of its minutes are written together
\* or not at all, whatever fails, is discarded, or is buffered while a flush is
\* under way.  Every job is counted twice: with the latencies and with the waits.
CountsMatchRecords == redis.counts = 2 * Cardinality(log.written)

\* How many servers have the job.
Times(pairs, j) == Cardinality({s \in Servers : <<s, j>> \in pairs})

\* At rest, after sending everything.
Idle ==
  \A s \in Servers :
    wire[s] = <<>> /\ replies[s] = <<>> /\ ~IsChanged(cache[s].buffer)

\* Whatever fails and however often the lock changes hands, the hour counts a job
\* at most once for every snapshot that an owner has taken with it.  And without
\* faults and changes of the owner the hour at rest is the sum of the minutes that
\* were written, unless a minute was rolled up before the one before it was in
\* Redis: a listener that lags behind ends a minute with every event, and then an
\* hour's record is written over by one that was read before it.
HourMatchesRecords ==
  /\ \A j \in Jobs : redis.hour[j] <= Times(log.taken, j)
  /\ (Idle /\ log.changes <= 1 /\ log.faults = 0 /\ ~log.overlapped)
       => \A j \in Jobs : redis.hour[j] = Times(log.written, j)

\* Without faults and changes of the owner no job is in the records of two minutes,
\* and none that was written with its minute is lost by a later record.
RecordedOnce ==
  (log.changes <= 1 /\ log.faults = 0) =>
    \A j \in Jobs :
      /\ \A m, n \in 0..MaxMinute : j \in redis.minute[m] \cap redis.minute[n] => m = n
      /\ (\E m \in 0..MaxMinute : j \in redis.minute[m]) <=> \E s \in Servers : <<s, j>> \in log.written

\* Roll-ups that do not overlap never lose what the hour already counts, even if
\* the lock changes hands between the read and the write.
HourNeverLoses ==
  [][~log'.overlapped => \A j \in Jobs : redis'.hour[j] >= redis.hour[j]]_vars

-----------------------------------------------------------------------------
(* Liveness.  The timer of the buffer fires, Redis answers, events arrive.   *)

FairSpec == Spec /\ \A s \in Servers : WF_vars(Step(s))

\* Every buffer is emptied in the end: sent by an owner, or discarded.
BuffersDrain == <>[]Idle
=============================================================================
