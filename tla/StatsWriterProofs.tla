-------------------------- MODULE StatsWriterProofs --------------------------
(***************************************************************************)
(* Theorems about StatsWriter, for any number of servers, jobs, minutes,   *)
(* changes of the owner and faults.                                        *)
(*                                                                         *)
(* What a server has collected goes one way: from the snapshot of the      *)
(* listener to the buffer, to a transaction, to Redis.  Each proof follows *)
(* a job along it and says where the job can be: at most in one place.     *)
(***************************************************************************)
EXTENDS StatsWriter, FiniteSetTheorems, TLAPS

Listeners == [seen : 0..MaxJobs, stats : SUBSET Jobs, nextFlush : 1..MaxMinute + 1]
Caches == [buffer : Buffer, isFlushing : BOOLEAN]
Commands == Gets \cup Execs
Answers == GetReplies \cup ExecReplies
Logs == [changes : 0..MaxChanges, faults : 0..MaxFaults, taken : Pairs,
         written : Pairs, overlapped : BOOLEAN]

-----------------------------------------------------------------------------
(* Types.                                                                   *)

\* The buffer that begins every transaction.
LEMMA EmptyType ==
  /\ Empty \in Buffer
  /\ \A m \in 0..MaxMinute : Empty.minutes[m] = {}
  /\ Empty.hour = NoHour /\ Empty.counts = 0
BY DEF Empty, Buffer, NoMinutes, Minute

\* Rolling up gives an hour.
LEMMA RolledUpType ==
  ASSUME NEW S \in SUBSET Jobs, NEW H \in Hours
  PROVE  /\ RolledUp(S, H) \in Hours
         /\ \A j \in Jobs : RolledUp(S, H)[j] = H[j] + (IF j \in S THEN 1 ELSE 0)
BY DEF RolledUp, Aggregate, Hours

\* Jobs are finitely many, and so is what is counted of them.
LEMMA JobsFinite ==
  /\ Jobs \subseteq Nat
  /\ IsFiniteSet(Jobs)
  /\ \A S \in SUBSET Jobs : IsFiniteSet(S) /\ Cardinality(S) \in Nat
<1>1. IsFiniteSet(Jobs)
  BY FS_Interval, StatsAssumption DEF Jobs
<1>2. Jobs \subseteq Nat
  BY StatsAssumption DEF Jobs
<1>3. \A S \in SUBSET Jobs : IsFiniteSet(S) /\ Cardinality(S) \in Nat
  BY <1>1, FS_Subset, FS_CardinalityType
<1> QED
  BY <1>1, <1>2, <1>3

\* Redis after a transaction.
LEMMA AppliedType ==
  ASSUME NEW r \in [minute : Minute, hour : Hours, counts : Nat], NEW b \in Buffer
  PROVE  Applied(r, b) \in [minute : Minute, hour : Hours, counts : Nat]
<1>1. /\ r.minute \in Minute /\ r.hour \in Hours /\ r.counts \in Nat
      /\ b.minutes \in Minute /\ b.hour \in Hours \cup {NoHour} /\ b.counts \in Nat
  BY DEF Buffer
<1>2. [m \in 0..MaxMinute |-> IF b.minutes[m] = {} THEN r.minute[m] ELSE b.minutes[m]]
        \in Minute
  BY <1>1 DEF Minute
<1>3. /\ (IF b.hour = NoHour THEN r.hour ELSE b.hour) \in Hours
      /\ r.counts + b.counts \in Nat
  BY <1>1
<1> QED
  BY <1>2, <1>3 DEF Applied

\* The jobs of a buffer are jobs.
LEMMA JobsInType ==
  ASSUME NEW b \in Buffer
  PROVE  JobsIn(b) \in SUBSET Jobs
BY DEF JobsIn, Buffer, Minute

\* The buffer after the end of a minute.
LEMMA BufferedType ==
  ASSUME NEW b \in Buffer, NEW jobs \in SUBSET Jobs, NEW minute \in 0..MaxMinute
  PROVE  /\ Buffered(b, jobs, minute) \in Buffer
         /\ Buffered(b, jobs, minute).hour = b.hour
         /\ Buffered(b, jobs, minute).counts = b.counts + UpdateCounts(jobs)
<1>1. UpdateCounts(jobs) \in Nat
  BY JobsFinite DEF UpdateCounts
<1>2. /\ b.minutes \in [0..MaxMinute -> SUBSET Jobs]
      /\ b.hour \in Hours \cup {NoHour} /\ b.counts \in Nat
  BY DEF Buffer, Minute
<1> DEFINE f == b.minutes
<1>3. f \in [0..MaxMinute -> SUBSET Jobs]
  BY <1>2
<1>4. [f EXCEPT ![minute] = jobs] \in [0..MaxMinute -> SUBSET Jobs]
  <2> HIDE DEF f
  <2> QED
    BY <1>3
<1> QED
  BY <1>1, <1>2, <1>4 DEF Buffered, Buffer, Minute

\* The buffer and the commands after the end of a minute.
LEMMA WriteStatsType ==
  ASSUME TypeOK, NEW s \in Servers, NEW jobs \in SUBSET Jobs,
         NEW minute \in 0..MaxMinute, WriteStats(s, jobs, minute)
  PROVE  /\ cache' \in [Servers -> Caches]
         /\ wire' \in [Servers -> Seq(Commands)]
         /\ log' \in Logs
<1>0. /\ cache \in [Servers -> Caches] /\ cache[s].buffer \in Buffer
      /\ wire \in [Servers -> Seq(Commands)]
      /\ log \in Logs
  BY DEF TypeOK, Caches, Commands, Logs
<1>1. CASE isOwner[s] /\ jobs # {}
  <2> DEFINE n == Buffered(cache[s].buffer, jobs, minute)
  <2>1. n \in Buffer
    BY <1>0, BufferedType
  <2>2. cache' = [cache EXCEPT ![s].buffer = n]
    BY <1>1 DEF WriteStats
  <2> HIDE DEF n
  <2>3. cache' \in [Servers -> Caches]
    BY <1>0, <2>1, <2>2 DEF Caches
  <2>4. [type |-> "get", source |-> jobs] \in Commands
    BY DEF Commands, Gets
  <2> DEFINE c == [type |-> "get", source |-> jobs]
  <2>4a. wire' = [wire EXCEPT ![s] = Append(@, c)]
    BY <1>1 DEF WriteStats, Send
  <2> HIDE DEF c
  <2>5. wire' \in [Servers -> Seq(Commands)]
    BY <1>0, <2>4, <2>4a DEF c
  <2>6. {s} \X jobs \in Pairs
    BY DEF Pairs
  <2>7. log.taken \cup ({s} \X jobs) \in Pairs /\ (log.overlapped \/ Busy) \in BOOLEAN
    BY <1>0, <2>6 DEF Logs, Pairs
  <2>8. log' = [log EXCEPT !.taken = @ \cup ({s} \X jobs), !.overlapped = @ \/ Busy]
    BY <1>1 DEF WriteStats
  <2>9. log' \in Logs
    BY <1>0, <2>7, <2>8, Zenon DEF Logs
  <2> QED
    BY <2>3, <2>5, <2>9
<1>2. CASE ~(isOwner[s] /\ jobs # {})
  BY <1>0, <1>2 DEF WriteStats
<1> QED
  BY <1>1, <1>2

\* Each variable has its type at the start.
LEMMA InitType == Init => TypeOK
<1> SUFFICES ASSUME Init PROVE TypeOK
  OBVIOUS
<1>1. finished \in Seq(Minutes) /\ Len(finished) <= MaxJobs
  BY StatsAssumption DEF Init
<1>2. Listening(0, 0) \in Listeners
  BY StatsAssumption DEF Listening, Listeners
<1>3. [buffer |-> Empty, isFlushing |-> FALSE] \in Caches
  BY EmptyType DEF Caches
<1>4. <<>> \in Seq(Commands) /\ <<>> \in Seq(Answers)
  OBVIOUS
<1>5. redis \in [minute : Minute, hour : Hours, counts : Nat]
  BY DEF Init, NoMinutes, Minute, None, Hours
<1>6. log \in Logs
  BY StatsAssumption DEF Init, Logs, Pairs
<1> QED
  BY <1>1, <1>2, <1>3, <1>4, <1>5, <1>6
     DEF Init, TypeOK, Listeners, Caches, Commands, Answers, Logs

\* What TypeOK says, in the names used here.
LEMMA Types ==
  TypeOK <=>
    /\ finished \in Seq(Minutes) /\ Len(finished) <= MaxJobs
    /\ isOwner \in [Servers -> BOOLEAN]
    /\ listener \in [Servers -> Listeners]
    /\ cache \in [Servers -> Caches]
    /\ wire \in [Servers -> Seq(Commands)]
    /\ replies \in [Servers -> Seq(Answers)]
    /\ redis \in [minute : Minute, hour : Hours, counts : Nat]
    /\ log \in Logs
BY DEF TypeOK, Listeners, Caches, Commands, Answers, Logs

\* The command that Redis executes next, and what is left.
LEMMA NextCommand ==
  ASSUME TypeOK, NEW s \in Servers, wire[s] # <<>>
  PROVE  /\ Head(wire[s]) \in Commands
         /\ Tail(wire[s]) \in Seq(Commands)
         /\ Head(wire[s]).type = "get" => Head(wire[s]) \in Gets
         /\ Head(wire[s]).type # "get" => Head(wire[s]) \in Execs
<1>1. wire[s] \in Seq(Commands)
  BY Types
<1> QED
  BY <1>1 DEF Commands, Gets, Execs

\* The answer that a server handles next, and what is left.
LEMMA NextAnswer ==
  ASSUME TypeOK, NEW s \in Servers, replies[s] # <<>>
  PROVE  /\ Head(replies[s]) \in Answers
         /\ Tail(replies[s]) \in Seq(Answers)
         /\ Head(replies[s]).type = "get" => Head(replies[s]) \in GetReplies
         /\ Head(replies[s]).type # "get" => Head(replies[s]) \in ExecReplies
<1>1. replies[s] \in Seq(Answers)
  BY Types
<1> QED
  BY <1>1 DEF Answers, GetReplies, ExecReplies

\* What a listener is after an event, which ends a minute or does not.
LEMMA UpdateStatsTypes ==
  ASSUME TypeOK, NEW s \in Servers, UpdateStats(s)
  PROVE  /\ listener' \in [Servers -> Listeners]
         /\ listener[s].seen + 1 \in Jobs /\ listener[s].seen + 1 <= Len(finished)
         /\ listener'[s].seen = listener[s].seen + 1
         /\ IF NeedsFlush(listener[s], finished[listener[s].seen + 1])
              THEN /\ listener'[s].stats = {listener[s].seen + 1}
                   /\ listener'[s].nextFlush = listener[s].nextFlush + 1
              ELSE /\ listener'[s].stats = listener[s].stats \cup {listener[s].seen + 1}
                   /\ listener'[s].nextFlush = listener[s].nextFlush
         /\ \A t \in Servers \ {s} : listener'[t] = listener[t]
         /\ NeedsFlush(listener[s], finished[listener[s].seen + 1])
              => listener[s].nextFlush \in 0..MaxMinute
<1> DEFINE l == listener[s]
           job == l.seen + 1
           flush == NeedsFlush(l, finished[job])
           n == [seen |-> job, stats |-> (IF flush THEN {} ELSE l.stats) \cup {job},
                 nextFlush |-> IF flush THEN l.nextFlush + 1 ELSE l.nextFlush]
<1>1. l \in Listeners /\ finished \in Seq(Minutes) /\ Len(finished) <= MaxJobs
  BY Types
<1>2. job \in 1..Len(finished)
  BY <1>1 DEF UpdateStats, Listeners
<1>3. job \in Jobs /\ finished[job] \in 0..MaxMinute
  <2>1. finished[job] \in Minutes
    BY <1>1, <1>2
  <2>2. Len(finished) \in Nat
    BY <1>1
  <2>3. Len(finished) <= MaxJobs
    BY <1>1
  <2>4. job \in Nat /\ 1 <= job /\ job <= Len(finished)
    BY <1>2, <2>2
  <2> HIDE DEF job
  <2>5. job \in Jobs
    BY <2>2, <2>3, <2>4, StatsAssumption DEF Jobs
  <2> QED
    BY <2>1, <2>5, StatsAssumption
<1>4. flush => l.nextFlush + 1 \in 1..MaxMinute + 1
  BY <1>1, <1>3, StatsAssumption DEF NeedsFlush, Listeners
<1>5. n \in Listeners
  BY <1>1, <1>3, <1>4, StatsAssumption DEF Listeners, Jobs
<1>6. listener' = [listener EXCEPT ![s] = n]
  <2> DEFINE taken == IF flush THEN SnapshotTaken(l) ELSE l
  <2>1. listener' = [listener EXCEPT ![s] =
          [seen |-> job, stats |-> taken.stats \cup {job}, nextFlush |-> taken.nextFlush]]
    BY DEF UpdateStats
  <2>2. taken = [seen |-> l.seen, stats |-> IF flush THEN {} ELSE l.stats,
                 nextFlush |-> IF flush THEN l.nextFlush + 1 ELSE l.nextFlush]
    <3> HIDE DEF flush, job
    <3> QED
      BY <1>1 DEF SnapshotTaken, Listeners
  <2> HIDE DEF taken, flush, job
  <2>3. taken.stats = (IF flush THEN {} ELSE l.stats)
        /\ taken.nextFlush = (IF flush THEN l.nextFlush + 1 ELSE l.nextFlush)
    BY <2>2
  <2> QED
    BY <2>1, <2>3
<1> HIDE DEF n
<1>7. /\ listener' \in [Servers -> Listeners]
      /\ listener'[s] = n
      /\ \A t \in Servers \ {s} : listener'[t] = listener[t]
  BY <1>5, <1>6, Types
<1>8. /\ n.seen = job
      /\ flush => n.stats = {job} /\ n.nextFlush = l.nextFlush + 1
      /\ ~flush => n.stats = l.stats \cup {job} /\ n.nextFlush = l.nextFlush
  BY DEF n
<1>9. job <= Len(finished)
  BY <1>1, <1>2
<1>10. flush => l.nextFlush \in 0..MaxMinute
  BY <1>1, <1>4, StatsAssumption DEF Listeners
<1> QED
  BY <1>3, <1>7, <1>8, <1>9, <1>10

\* An answer is put behind the others.
LEMMA ReplyType ==
  ASSUME TypeOK, NEW s \in Servers, NEW r \in Answers, Reply(s, r)
  PROVE  replies' \in [Servers -> Seq(Answers)]
BY Types DEF Reply

\* A change of the owner and a fault are counted up to their bounds.
LEMMA CountType ==
  ASSUME log \in Logs
  PROVE  /\ log.changes < MaxChanges => [log EXCEPT !.changes = @ + 1] \in Logs
         /\ log.faults < MaxFaults => [log EXCEPT !.faults = @ + 1] \in Logs
<1>1. log.changes \in 0..MaxChanges /\ log.faults \in 0..MaxFaults
  BY DEF Logs
<1>2. log.changes < MaxChanges => log.changes + 1 \in 0..MaxChanges
  BY <1>1, StatsAssumption
<1>3. log.faults < MaxFaults => log.faults + 1 \in 0..MaxFaults
  BY <1>1, StatsAssumption
<1> QED
  BY <1>2, <1>3 DEF Logs

\* Every step keeps the types.
LEMMA TypeStep == TypeOK /\ [Next]_vars => TypeOK'
<1> SUFFICES ASSUME TypeOK, [Next]_vars PROVE TypeOK'
  OBVIOUS
<1> DEFINE Redis == [minute : Minute, hour : Hours, counts : Nat]
           Events == {f \in Seq(Minutes) : Len(f) <= MaxJobs}
           Typed == /\ finished' \in Events
                    /\ isOwner' \in [Servers -> BOOLEAN]
                    /\ listener' \in [Servers -> Listeners]
                    /\ cache' \in [Servers -> Caches]
                    /\ wire' \in [Servers -> Seq(Commands)]
                    /\ replies' \in [Servers -> Seq(Answers)]
                    /\ redis' \in Redis
                    /\ log' \in Logs
<1>0. /\ finished \in Events
      /\ isOwner \in [Servers -> BOOLEAN]
      /\ listener \in [Servers -> Listeners]
      /\ cache \in [Servers -> Caches]
      /\ wire \in [Servers -> Seq(Commands)]
      /\ replies \in [Servers -> Seq(Answers)]
      /\ redis \in Redis
      /\ log \in Logs
  BY Types
<1> SUFFICES Typed
  BY DEF TypeOK, Listeners, Caches, Commands, Answers, Logs
<1>1. ASSUME NEW m \in Minutes, Finish(m) PROVE Typed
  <2>1. finished' \in Events
    BY <1>0, <1>1, StatsAssumption DEF Finish
  <2> HIDE DEF Events, Redis
  <2> QED
    BY <1>0, <1>1, <2>1 DEF Finish
<1>2. ASSUME NEW s \in Servers, Execute(s) PROVE Typed
  <2> DEFINE c == Head(wire[s])
  <2>1. wire' \in [Servers -> Seq(Commands)]
    BY <1>0, <1>2, NextCommand DEF Execute
  <2>2. CASE c.type = "get"
    <3>1. c \in Gets
      BY <1>2, <2>2, NextCommand DEF Execute
    <3> DEFINE r == [type |-> "get", source |-> c.source, base |-> redis.hour]
    <3>2. r \in Answers
      BY <1>0, <3>1 DEF Gets, Answers, GetReplies
    <3>3. Reply(s, r) /\ UNCHANGED <<finished, isOwner, listener, cache, redis, log>>
      BY <1>2, <2>2 DEF Execute
    <3> HIDE DEF r, Events, Redis
    <3> QED
      BY <1>0, <2>1, <3>2, <3>3, ReplyType
  <2>3. CASE c.type # "get"
    <3>1. c \in Execs
      BY <1>2, <2>3, NextCommand DEF Execute
    <3>2. c.buffer \in Buffer
      BY <3>1 DEF Execs
    <3> DEFINE r == [type |-> "exec", failed |-> FALSE]
    <3>3. r \in Answers
      BY DEF Answers, ExecReplies
    <3>4. Reply(s, r) /\ redis' = Applied(redis, c.buffer)
          /\ log' = [log EXCEPT !.written = @ \cup ({s} \X JobsIn(c.buffer))]
          /\ UNCHANGED <<finished, isOwner, listener, cache>>
      BY <1>2, <2>3 DEF Execute
    <3>5. redis' \in Redis
      BY <1>0, <3>2, <3>4, AppliedType
    <3>6. log.written \cup ({s} \X JobsIn(c.buffer)) \in Pairs
      BY <1>0, <3>2, JobsInType DEF Pairs, Logs
    <3>7. log' \in Logs
      BY <1>0, <3>4, <3>6 DEF Logs
    <3> HIDE DEF r, Events, Redis
    <3> QED
      BY <1>0, <2>1, <3>3, <3>4, <3>5, <3>7, ReplyType
  <2> QED
    BY <2>2, <2>3
<1>3. ASSUME NEW s \in Servers, Fail(s) PROVE Typed
  <2> DEFINE c == Head(wire[s])
             r == IF c.type = "get"
                    THEN [type |-> "get", source |-> c.source, base |-> NoHour]
                    ELSE [type |-> "exec", failed |-> TRUE]
  <2>1. wire' \in [Servers -> Seq(Commands)]
    BY <1>0, <1>3, NextCommand DEF Fail
  <2>2. c.type = "get" => c \in Gets
    BY <1>3, NextCommand DEF Fail
  <2>3. r \in Answers
    BY <2>2 DEF Gets, Answers, GetReplies, ExecReplies
  <2>4. Reply(s, r) /\ UNCHANGED <<finished, isOwner, listener, cache, redis>>
    BY <1>3 DEF Fail
  <2>5. log' \in Logs
    BY <1>0, <1>3, CountType DEF Fail, Fault
  <2> HIDE DEF r, Events, Redis
  <2> QED
    BY <1>0, <2>1, <2>3, <2>4, <2>5, ReplyType
<1> HIDE DEF Events, Redis
<1>4. ASSUME NEW s \in Servers, UpdateStats(s) PROVE Typed
  <2>1. listener' \in [Servers -> Listeners]
    BY <1>4, UpdateStatsTypes
  <2>2. listener[s].stats \in SUBSET Jobs
    BY <1>0 DEF Listeners
  <2>3. /\ cache' \in [Servers -> Caches]
        /\ wire' \in [Servers -> Seq(Commands)]
        /\ log' \in Logs
    <3>1. CASE NeedsFlush(listener[s], finished[listener[s].seen + 1])
      <4>1. listener[s].nextFlush \in 0..MaxMinute
        BY <1>4, <3>1, UpdateStatsTypes
      <4>2. WriteStats(s, listener[s].stats, listener[s].nextFlush)
        BY <1>4, <3>1 DEF UpdateStats
      <4> QED
        BY <2>2, <4>1, <4>2, WriteStatsType
    <3>2. CASE ~NeedsFlush(listener[s], finished[listener[s].seen + 1])
      BY <1>0, <1>4, <3>2 DEF UpdateStats
    <3> QED
      BY <3>1, <3>2
  <2> QED
    BY <1>0, <1>4, <2>1, <2>3 DEF UpdateStats
<1>5. ASSUME NEW s \in Servers, Rollup(s) PROVE Typed
  <2> DEFINE r == Head(replies[s])
             new == RolledUp(r.source, r.base)
  <2>1. r \in GetReplies /\ replies' \in [Servers -> Seq(Answers)]
    BY <1>0, <1>5, NextAnswer DEF Rollup
  <2>2. r.source \in SUBSET Jobs /\ r.base \in Hours \cup {NoHour}
    BY <2>1 DEF GetReplies
  <2>3. UNCHANGED cache
        \/ (r.base # NoHour /\ cache' = [cache EXCEPT ![s].buffer.hour = new])
    BY <1>5 DEF Rollup, WriteHour
  <2>4. cache' \in [Servers -> Caches]
    <3>1. CASE r.base # NoHour /\ cache' = [cache EXCEPT ![s].buffer.hour = new]
      <4>1. new \in Hours
        BY <2>2, <3>1, RolledUpType
      <4> HIDE DEF new
      <4>2. cache[s] \in Caches /\ cache[s].buffer \in Buffer
        BY <1>0 DEF Caches
      <4>3. [cache[s].buffer EXCEPT !.hour = new] \in Buffer
        BY <4>1, <4>2 DEF Buffer
      <4> QED
        BY <1>0, <3>1, <4>2, <4>3 DEF Caches
    <3> QED
      BY <1>0, <2>3, <3>1
  <2> QED
    BY <1>0, <1>5, <2>1, <2>4 DEF Rollup
<1>6. ASSUME NEW s \in Servers, Flush(s) PROVE Typed
  <2>1. cache[s] \in Caches /\ cache[s].buffer \in Buffer
    BY <1>0 DEF Caches
  <2>2. Flushing(cache[s]) \in Caches
    BY EmptyType DEF Flushing, Caches
  <2> DEFINE c == [type |-> "exec", buffer |-> cache[s].buffer]
  <2>3. c \in Commands
    BY <2>1 DEF Commands, Execs
  <2>4. /\ wire' = [wire EXCEPT ![s] = Append(@, c)]
        /\ cache' = [cache EXCEPT ![s] = Flushing(@)]
        /\ UNCHANGED <<finished, isOwner, listener, replies, redis, log>>
    BY <1>6 DEF Flush, Send
  <2> HIDE DEF c
  <2> QED
    BY <1>0, <2>2, <2>3, <2>4
<1>7. ASSUME NEW s \in Servers, Discard(s) PROVE Typed
  <2>1. Discarded(cache[s].buffer) \in Buffer
    BY EmptyType DEF Discarded
  <2>2. cache' \in [Servers -> Caches]
    BY <1>0, <1>7, <2>1 DEF Discard, Caches
  <2> QED
    BY <1>0, <1>7, <2>2 DEF Discard
<1>8. ASSUME NEW s \in Servers, Flushed(s) PROVE Typed
  <2>1. replies' \in [Servers -> Seq(Answers)]
    BY <1>0, <1>8, NextAnswer DEF Flushed
  <2>2. cache' \in [Servers -> Caches]
    BY <1>0, <1>8 DEF Flushed, FlushEnded, Caches
  <2> QED
    BY <1>0, <1>8, <2>1, <2>2 DEF Flushed
<1>9. ASSUME NEW s \in Servers, Acquire(s) PROVE Typed
  <2>1. log.changes + 1 \in 0..MaxChanges
        /\ (log.overlapped \/ IsChanged(cache[s].buffer)) \in BOOLEAN
    BY <1>0, <1>9, StatsAssumption DEF Acquire, Logs
  <2>2. log' = [log EXCEPT !.changes = @ + 1,
                           !.overlapped = @ \/ IsChanged(cache[s].buffer)]
    BY <1>9 DEF Acquire
  <2>3. log' \in Logs
    BY <1>0, <2>1, <2>2, Zenon DEF Logs
  <2> QED
    BY <1>0, <1>9, <2>3 DEF Acquire
<1>10. ASSUME NEW s \in Servers, Lose(s) PROVE Typed
  <2>1. log' \in Logs
    BY <1>0, <1>10, CountType DEF Lose
  <2> QED
    BY <1>0, <1>10, <2>1 DEF Lose
<1>11. ASSUME NEW s \in Servers, Crash(s) PROVE Typed
  <2>1. log' \in Logs
    BY <1>0, <1>11, CountType DEF Crash, Fault
  <2>2. Now \in 0..MaxMinute /\ Len(finished) \in 0..MaxJobs
    <3>1. /\ finished # <<>> => finished[Len(finished)] \in Minutes
          /\ Len(finished) \in Nat /\ Len(finished) <= MaxJobs
      BY Types
    <3>2. 0 \in 0..MaxMinute
      BY StatsAssumption
    <3>3. Now \in 0..MaxMinute
      BY <3>1, <3>2, StatsAssumption DEF Now
    <3>4. Len(finished) \in 0..MaxJobs
      BY <3>1, StatsAssumption
    <3> QED
      BY <3>3, <3>4
  <2>3. Listening(Len(finished), Now) \in Listeners
    <3>1. Now + 1 \in 1..MaxMinute + 1
      BY <2>2, StatsAssumption
    <3> QED
      BY <2>2, <3>1 DEF Listening, Listeners
  <2>4. [buffer |-> Empty, isFlushing |-> FALSE] \in Caches
    BY EmptyType DEF Caches
  <2>5. <<>> \in Seq(Commands) /\ <<>> \in Seq(Answers)
    OBVIOUS
  <2> QED
    BY <1>0, <1>11, <2>1, <2>3, <2>4, <2>5 DEF Crash
<1>12. CASE UNCHANGED vars
  BY <1>0, <1>12 DEF vars
<1> QED
  BY <1>1, <1>2, <1>3, <1>4, <1>5, <1>6, <1>7, <1>8, <1>9, <1>10, <1>11, <1>12
     DEF Next, Step

\* Every variable keeps its type: among other things a listener never goes beyond the
\* events of the stream, nor the minute of a snapshot beyond the last minute.
THEOREM TypeCorrectness == Spec => []TypeOK
BY InitType, TypeStep, PTL DEF Spec

-----------------------------------------------------------------------------
(* Where the jobs of a server are.                                          *)

\* The minutes that a buffer has a record of.
MinutesIn(b) == {m \in 0..MaxMinute : b.minutes[m] # {}}

\* A buffer that counts what it records, once, and whose minutes are over.
Sound(b, l) ==
  /\ b.counts = 2 * Cardinality(JobsIn(b))
  /\ \A m, n \in 0..MaxMinute :
       m # n => \A j \in Jobs : j \in b.minutes[m] => j \notin b.minutes[n]
  /\ \A j \in JobsIn(b) : j <= l.seen /\ j \notin l.stats
  /\ \A m \in MinutesIn(b) : m < l.nextFlush

\* Two buffers that have no job and no minute in common.
Apart(b, c) ==
  /\ \A j \in JobsIn(b) : j \notin JobsIn(c)
  /\ \A m \in MinutesIn(b) : m \notin MinutesIn(c)

\* The listener l, the buffer b, the commands w and the jobs done that have been
\* written are those of one server: a job is in one of them only.
Collected(l, b, w, done) ==
  /\ \A j \in l.stats : j <= l.seen /\ j \notin done
  /\ \A j \in done : j <= l.seen
  /\ Sound(b, l)
  /\ \A j \in JobsIn(b) : j \notin done
  /\ \A k \in DOMAIN w : w[k].type = "exec" =>
       /\ Sound(w[k].buffer, l)
       /\ Apart(w[k].buffer, b)
       /\ \A j \in JobsIn(w[k].buffer) : j \notin done
  /\ \A i, k \in DOMAIN w : i < k /\ w[i].type = "exec" /\ w[k].type = "exec"
       => Apart(w[i].buffer, w[k].buffer)

\* The jobs that s has written with their minute.
Done(s) == {j \in Jobs : <<s, j>> \in log.written}

CollectedInv ==
  \A s \in Servers :
    /\ Collected(listener[s], cache[s].buffer, wire[s], Done(s))
    /\ listener[s].seen <= Len(finished)

\* A command behind the others.
LEMMA Appended ==
  ASSUME NEW w \in Seq(Commands), NEW c \in Commands
  PROVE  /\ Append(w, c) \in Seq(Commands)
         /\ \A k \in DOMAIN Append(w, c) :
              \/ k \in DOMAIN w /\ Append(w, c)[k] = w[k] /\ k < Len(w) + 1
              \/ k = Len(w) + 1 /\ Append(w, c)[k] = c
         /\ \A k \in DOMAIN w : k \in Nat /\ k < Len(w) + 1
         /\ Len(w) \in Nat
OBVIOUS

\* The commands that are left when the first one is executed.
LEMMA Taken ==
  ASSUME NEW w \in Seq(Commands), w # <<>>
  PROVE  /\ Tail(w) \in Seq(Commands)
         /\ 1 \in DOMAIN w /\ Head(w) = w[1]
         /\ \A k \in DOMAIN Tail(w) :
              k \in Nat /\ k + 1 \in DOMAIN w /\ Tail(w)[k] = w[k + 1] /\ 1 < k + 1
OBVIOUS

\* The empty buffer.
LEMMA EmptySound ==
  /\ JobsIn(Empty) = {} /\ MinutesIn(Empty) = {}
  /\ \A l : Sound(Empty, l)
  /\ \A b : Apart(b, Empty) /\ Apart(Empty, b)
<1>1. JobsIn(Empty) = {} /\ MinutesIn(Empty) = {}
  BY EmptyType DEF JobsIn, MinutesIn
<1>2. Empty.counts = 2 * Cardinality(JobsIn(Empty))
  BY <1>1, EmptyType, FS_EmptySet
<1>3. \A l : Sound(Empty, l)
  BY <1>1, <1>2, EmptyType DEF Sound
<1> QED
  BY <1>1, <1>3 DEF Apart

\* Only the jobs, the minutes and the counts of a buffer matter.
LEMMA SameSound ==
  ASSUME NEW b, NEW c, NEW l, Sound(b, l), c.minutes = b.minutes, c.counts = b.counts
  PROVE  /\ JobsIn(c) = JobsIn(b) /\ MinutesIn(c) = MinutesIn(b)
         /\ Sound(c, l)
<1>1. JobsIn(c) = JobsIn(b) /\ MinutesIn(c) = MinutesIn(b)
  BY DEF JobsIn, MinutesIn
<1> QED
  BY <1>1 DEF Sound

\* The parts of a listener.
LEMMA ListenerType ==
  ASSUME NEW l \in Listeners
  PROVE  l.seen \in Nat /\ l.nextFlush \in Nat /\ l.stats \in SUBSET Jobs
BY StatsAssumption DEF Listeners

\* A listener that goes on leaves a buffer sound.
LEMMA LaterSound ==
  ASSUME NEW b \in Buffer, NEW l \in Listeners, NEW n \in Listeners, Sound(b, l),
         n.seen >= l.seen, n.nextFlush >= l.nextFlush,
         \A j \in n.stats : j \in l.stats \/ j > l.seen
  PROVE  Sound(b, n)
<1>1. JobsIn(b) \in SUBSET Jobs /\ MinutesIn(b) \subseteq Nat /\ Jobs \subseteq Nat
  BY JobsInType, JobsFinite, StatsAssumption DEF MinutesIn
<1>2. /\ l.seen \in Nat /\ n.seen \in Nat /\ l.nextFlush \in Nat /\ n.nextFlush \in Nat
      /\ n.stats \subseteq Nat
  BY <1>1, ListenerType
<1>3. \A j \in JobsIn(b) : j <= n.seen /\ j \notin n.stats
  BY <1>1, <1>2 DEF Sound
<1>4. \A m \in MinutesIn(b) : m < n.nextFlush
  BY <1>1, <1>2 DEF Sound
<1> QED
  BY <1>3, <1>4 DEF Sound

\* The buffer with the record of one more minute: it has the jobs of the snapshot, and
\* counts them.
LEMMA BufferedSound ==
  ASSUME NEW b \in Buffer, NEW l \in Listeners, NEW n \in Listeners, Sound(b, l),
         \A j \in l.stats : j <= l.seen,
         l.nextFlush \in 0..MaxMinute,
         n.seen >= l.seen, n.nextFlush = l.nextFlush + 1,
         \A j \in n.stats : j > l.seen
  PROVE  /\ Sound(Buffered(b, l.stats, l.nextFlush), n)
         /\ JobsIn(Buffered(b, l.stats, l.nextFlush)) = JobsIn(b) \cup l.stats
         /\ MinutesIn(Buffered(b, l.stats, l.nextFlush)) \subseteq MinutesIn(b) \cup {l.nextFlush}
<1> DEFINE S == l.stats
           m == l.nextFlush
           c == Buffered(b, S, m)
<1>1. /\ l.seen \in Nat /\ n.seen \in Nat /\ S \in SUBSET Jobs /\ n.stats \in SUBSET Jobs
      /\ m \in Nat /\ m \in 0..MaxMinute /\ n.nextFlush \in Nat /\ Jobs \subseteq Nat
  BY ListenerType, JobsFinite
<1> HIDE DEF S, c, m
<1>2. /\ c \in Buffer
      /\ c.counts = b.counts + UpdateCounts(S)
      /\ c.minutes[m] = S
      /\ \A i \in 0..MaxMinute : i # m => c.minutes[i] = b.minutes[i]
  <2>1. c \in Buffer /\ c.counts = b.counts + UpdateCounts(S)
    BY <1>1, BufferedType DEF c
  <2> DEFINE f == b.minutes
             g == c.minutes
  <2>2. f \in [0..MaxMinute -> SUBSET Jobs]
    BY DEF Buffer, Minute
  <2>3. g = [f EXCEPT ![m] = S]
    BY DEF c, Buffered
  <2> HIDE DEF f, g
  <2>4. g[m] = S /\ \A i \in 0..MaxMinute : i # m => g[i] = f[i]
    BY <1>1, <2>2, <2>3
  <2> QED
    BY <2>1, <2>4 DEF f, g
<1>3. m \notin MinutesIn(b)
  BY <1>1 DEF Sound, m
<1>4. b.minutes[m] = {}
  BY <1>1, <1>3 DEF MinutesIn
<1>5. JobsIn(c) = JobsIn(b) \cup S
  <2>1. \A j : j \in JobsIn(b) <=> \E i \in 0..MaxMinute : j \in b.minutes[i]
    BY DEF JobsIn
  <2>2. \A j : j \in JobsIn(c) <=> \E i \in 0..MaxMinute : j \in c.minutes[i]
    BY DEF JobsIn
  <2>3. m \in 0..MaxMinute
    BY DEF m
  <2> QED
    BY <1>2, <1>4, <2>1, <2>2, <2>3
<1>6. MinutesIn(c) \subseteq MinutesIn(b) \cup {m}
  BY <1>2 DEF MinutesIn
<1>7. JobsIn(b) \cap S = {}
  BY DEF Sound, S
<1>8. c.counts = 2 * Cardinality(JobsIn(c))
  <2>1. JobsIn(b) \in SUBSET Jobs
    BY JobsInType
  <2>2. /\ IsFiniteSet(JobsIn(b)) /\ IsFiniteSet(S)
        /\ Cardinality(JobsIn(b)) \in Nat /\ Cardinality(S) \in Nat
    BY <1>1, <2>1, JobsFinite
  <2>3. Cardinality(JobsIn(b) \cup S)
          = Cardinality(JobsIn(b)) + Cardinality(S) - Cardinality(JobsIn(b) \cap S)
    BY <2>2, FS_Union
  <2>4. Cardinality(JobsIn(b) \cap S) = 0
    BY <1>7, FS_EmptySet
  <2>5. b.counts = 2 * Cardinality(JobsIn(b))
    BY DEF Sound
  <2> QED
    BY <1>2, <1>5, <2>2, <2>3, <2>4, <2>5 DEF UpdateCounts
<1>9. \A i, k \in 0..MaxMinute :
        i # k => \A j \in Jobs : j \in c.minutes[i] => j \notin c.minutes[k]
  <2> SUFFICES ASSUME NEW i \in 0..MaxMinute, NEW k \in 0..MaxMinute, i # k,
                      NEW j \in Jobs, j \in c.minutes[i], j \in c.minutes[k]
               PROVE  FALSE
    OBVIOUS
  <2>1. j \in b.minutes[i] => j \in JobsIn(b)
    BY DEF JobsIn
  <2>2. j \in b.minutes[k] => j \in JobsIn(b)
    BY DEF JobsIn
  <2> QED
    BY <1>2, <1>7, <2>1, <2>2 DEF Sound
<1>10. \A j \in JobsIn(c) : j <= n.seen /\ j \notin n.stats
  <2>1. \A j \in JobsIn(c) : j <= l.seen
    BY <1>5 DEF Sound, S
  <2>2. JobsIn(c) \in SUBSET Jobs
    BY <1>2, JobsInType
  <2>3. \A j \in JobsIn(c) : j \in Nat /\ j <= l.seen
    BY <1>1, <2>1, <2>2
  <2> QED
    BY <1>1, <2>3
<1>11. \A i \in MinutesIn(c) : i < n.nextFlush
  <2>1. \A i \in MinutesIn(b) : i \in Nat /\ i < m
    BY StatsAssumption DEF Sound, m, MinutesIn
  <2>2. n.nextFlush = m + 1
    BY DEF m
  <2> QED
    BY <1>1, <1>6, <2>1, <2>2
<1> QED
  BY <1>5, <1>6, <1>8, <1>9, <1>10, <1>11 DEF Sound, c, S, m

\* What a transaction on the wire has.
LEMMA ExecType ==
  ASSUME NEW w \in Seq(Commands), NEW k \in DOMAIN w, w[k].type = "exec"
  PROVE  /\ w[k] \in Execs /\ w[k].buffer \in Buffer
         /\ JobsIn(w[k].buffer) \in SUBSET Jobs
<1>1. w[k] \in Commands
  OBVIOUS
<1>2. w[k] \in Execs /\ w[k].buffer \in Buffer
  BY <1>1 DEF Commands, Gets, Execs
<1> QED
  BY <1>2, JobsInType

\* A job is heard of: it is newer than all others.  If this ends a minute, and nothing
\* is written, the jobs before it are nowhere.
LEMMA Heard ==
  ASSUME NEW l \in Listeners, NEW n \in Listeners, NEW b \in Buffer,
         NEW w \in Seq(Commands), NEW done \in SUBSET Jobs, Collected(l, b, w, done),
         n.seen = l.seen + 1, n.nextFlush >= l.nextFlush,
         \A j \in n.stats : j \in l.stats \/ j = n.seen
  PROVE  Collected(n, b, w, done)
<1>1. /\ l.seen \in Nat /\ n.seen \in Nat /\ l.stats \in SUBSET Jobs
      /\ n.stats \in SUBSET Jobs /\ Jobs \subseteq Nat
  BY ListenerType, JobsFinite
<1>2. \A c \in Buffer : Sound(c, l) => Sound(c, n)
  <2>1. n.seen >= l.seen /\ \A j \in n.stats : j \in l.stats \/ j > l.seen
    BY <1>1
  <2> QED
    BY <2>1, LaterSound
<1> DEFINE S == l.stats
           e == l.seen
<1>6. /\ \A j \in S : j <= e /\ j \notin done
      /\ \A j \in done : j <= e
  BY DEF Collected
<1>7. /\ \A j \in S \cup done : j \in Nat
      /\ e \in Nat /\ n.seen = e + 1
      /\ \A j \in n.stats : j \in S \/ j = e + 1
  BY <1>1
<1> HIDE DEF S, e
<1>3. \A j \in n.stats : j <= n.seen /\ j \notin done
  BY <1>6, <1>7
<1>4. \A j \in done : j <= n.seen
  BY <1>6, <1>7
<1>5. \A k \in DOMAIN w : w[k].type = "exec" => Sound(w[k].buffer, n)
  BY <1>2, ExecType DEF Collected
<1> QED
  BY <1>2, <1>3, <1>4, <1>5 DEF Collected

\* The owner ends a minute: the snapshot goes to the buffer.
LEMMA Snapped ==
  ASSUME NEW l \in Listeners, NEW n \in Listeners, NEW b \in Buffer,
         NEW w \in Seq(Commands), NEW done \in SUBSET Jobs, Collected(l, b, w, done),
         l.nextFlush \in 0..MaxMinute,
         n.seen = l.seen + 1, n.nextFlush = l.nextFlush + 1, n.stats = {n.seen},
         NEW g \in Gets
  PROVE  Collected(n, Buffered(b, l.stats, l.nextFlush), Append(w, g), done)
<1> DEFINE c == Buffered(b, l.stats, l.nextFlush)
           v == Append(w, g)
<1>1. /\ l.seen \in Nat /\ n.seen \in Nat /\ l.stats \in SUBSET Jobs
      /\ l.nextFlush \in Nat
      /\ n.stats \in SUBSET Jobs /\ Jobs \subseteq Nat
  BY ListenerType, JobsFinite
<1>2. Collected(n, b, w, done)
  BY <1>1, Heard
<1>3. /\ Sound(c, n)
      /\ JobsIn(c) = JobsIn(b) \cup l.stats
      /\ MinutesIn(c) \subseteq MinutesIn(b) \cup {l.nextFlush}
  <2>1. \A j \in l.stats : j <= l.seen
    BY DEF Collected
  <2>2. Sound(b, l)
    BY DEF Collected
  <2>3. n.seen >= l.seen /\ \A j \in n.stats : j > l.seen
    BY <1>1
  <2> QED
    BY <2>1, <2>2, <2>3, BufferedSound
<1>4. g \in Commands /\ g.type # "exec"
  BY DEF Gets, Commands
<1> HIDE DEF c, v
<1>5. \A k \in DOMAIN v : v[k].type = "exec" => k \in DOMAIN w /\ v[k] = w[k]
  BY <1>4, Appended DEF v
<1>6. \A j \in JobsIn(c) : j \notin done
  BY <1>3 DEF Collected
<1>7. \A k \in DOMAIN w : w[k].type = "exec" => Apart(w[k].buffer, c)
  <2> SUFFICES ASSUME NEW k \in DOMAIN w, w[k].type = "exec"
               PROVE  Apart(w[k].buffer, c)
    OBVIOUS
  <2>1. Sound(w[k].buffer, l) /\ Apart(w[k].buffer, b)
    BY DEF Collected
  <2>2. \A j \in JobsIn(w[k].buffer) : j \notin JobsIn(c)
    BY <1>3, <2>1 DEF Sound, Apart
  <2>3. \A m \in MinutesIn(w[k].buffer) : m # l.nextFlush
    BY <1>1, <2>1 DEF Sound
  <2> QED
    BY <1>3, <2>1, <2>2, <2>3 DEF Apart
<1> QED
  BY <1>2, <1>3, <1>5, <1>6, <1>7 DEF Collected, c, v

\* The buffer is sent as a transaction.
LEMMA Sent ==
  ASSUME NEW l \in Listeners, NEW b \in Buffer,
         NEW w \in Seq(Commands), NEW done \in SUBSET Jobs, Collected(l, b, w, done)
  PROVE  Collected(l, Empty, Append(w, [type |-> "exec", buffer |-> b]), done)
<1> DEFINE c == [type |-> "exec", buffer |-> b]
           v == Append(w, c)
<1>1. c \in Commands /\ c.type = "exec" /\ c.buffer = b
  BY DEF Commands, Execs
<1> HIDE DEF c, v
<1>2. /\ \A k \in DOMAIN v :
           \/ k \in DOMAIN w /\ v[k] = w[k] /\ k < Len(w) + 1
           \/ k = Len(w) + 1 /\ v[k] = c
      /\ \A k \in DOMAIN w : k \in Nat
      /\ Len(w) \in Nat
  BY <1>1, Appended DEF v
<1>3. \A k \in DOMAIN v : v[k].type = "exec" =>
        /\ Sound(v[k].buffer, l)
        /\ Apart(v[k].buffer, Empty)
        /\ \A j \in JobsIn(v[k].buffer) : j \notin done
  BY <1>1, <1>2, EmptySound DEF Collected
<1>4. \A i, k \in DOMAIN v : i < k /\ v[i].type = "exec" /\ v[k].type = "exec"
        => Apart(v[i].buffer, v[k].buffer)
  <2> SUFFICES ASSUME NEW i \in DOMAIN v, NEW k \in DOMAIN v,
                      i < k, v[i].type = "exec", v[k].type = "exec"
               PROVE  Apart(v[i].buffer, v[k].buffer)
    OBVIOUS
  <2>1. i \in DOMAIN w /\ v[i] = w[i]
    BY <1>2
  <2> QED
    BY <1>1, <1>2, <2>1 DEF Collected
<1>5. Sound(Empty, l) /\ JobsIn(Empty) = {}
  BY EmptySound
<1> QED
  BY <1>3, <1>4, <1>5 DEF Collected, c, v

\* The buffer is dropped.
LEMMA Dropped ==
  ASSUME NEW l, NEW b, NEW w, NEW done, Collected(l, b, w, done)
  PROVE  Collected(l, Empty, w, done)
BY EmptySound DEF Collected

\* The hour is buffered.
LEMMA HourBuffered ==
  ASSUME NEW l, NEW b, NEW w, NEW done, Collected(l, b, w, done), NEW c,
         c.minutes = b.minutes, c.counts = b.counts
  PROVE  Collected(l, c, w, done)
<1>1. Sound(b, l)
  BY DEF Collected
<1>2. Sound(c, l) /\ JobsIn(c) = JobsIn(b) /\ MinutesIn(c) = MinutesIn(b)
  BY <1>1, SameSound
<1> QED
  BY <1>2 DEF Collected, Apart

\* The first command is executed, or fails.
LEMMA Gone ==
  ASSUME NEW l \in Listeners, NEW b \in Buffer,
         NEW w \in Seq(Commands), NEW done \in SUBSET Jobs, Collected(l, b, w, done),
         w # <<>>
  PROVE  Collected(l, b, Tail(w), done)
<1> DEFINE v == Tail(w)
<1>1. \A k \in DOMAIN v : k \in Nat /\ k + 1 \in DOMAIN w /\ v[k] = w[k + 1]
  BY Taken
<1> HIDE DEF v
<1>2. \A i, k \in DOMAIN v : i < k => i + 1 < k + 1
  BY <1>1
<1> QED
  BY <1>1, <1>2 DEF Collected, v

\* The first command is a transaction, and is executed.
LEMMA Written ==
  ASSUME NEW l \in Listeners, NEW b \in Buffer,
         NEW w \in Seq(Commands), NEW done \in SUBSET Jobs, Collected(l, b, w, done),
         w # <<>>, Head(w).type = "exec"
  PROVE  Collected(l, b, Tail(w), done \cup JobsIn(Head(w).buffer))
<1> DEFINE v == Tail(w)
           x == Head(w).buffer
<1>1. /\ \A k \in DOMAIN v : k \in Nat /\ k + 1 \in DOMAIN w /\ v[k] = w[k + 1] /\ 1 < k + 1
      /\ 1 \in DOMAIN w /\ Head(w) = w[1]
  BY Taken
<1>2. /\ Sound(x, l) /\ Apart(x, b)
      /\ \A k \in DOMAIN v : v[k].type = "exec" => Apart(x, v[k].buffer)
  BY <1>1 DEF Collected
<1>3. Collected(l, b, v, done)
  BY Gone
<1> HIDE DEF v, x
<1> QED
  BY <1>2, <1>3 DEF Collected, Sound, Apart, v, x

\* What the end of a minute buffers and sends.
LEMMA WriteStatsEffect ==
  ASSUME TypeOK, NEW s \in Servers, NEW jobs \in SUBSET Jobs, NEW minute \in 0..MaxMinute,
         WriteStats(s, jobs, minute)
  PROVE  \/ /\ isOwner[s] /\ jobs # {}
            /\ cache'[s].buffer = Buffered(cache[s].buffer, jobs, minute)
            /\ cache'[s].isFlushing = cache[s].isFlushing
            /\ [type |-> "get", source |-> jobs] \in Gets
            /\ wire'[s] = Append(wire[s], [type |-> "get", source |-> jobs])
            /\ \A t \in Servers \ {s} : cache'[t] = cache[t] /\ wire'[t] = wire[t]
            /\ log' = [log EXCEPT !.taken = @ \cup ({s} \X jobs), !.overlapped = @ \/ Busy]
            /\ log'.written = log.written
         \/ /\ ~(isOwner[s] /\ jobs # {})
            /\ UNCHANGED <<cache, wire, log>>
<1>1. CASE isOwner[s] /\ jobs # {}
  <2> DEFINE n == Buffered(cache[s].buffer, jobs, minute)
             g == [type |-> "get", source |-> jobs]
  <2>1. /\ cache' = [cache EXCEPT ![s].buffer = n]
        /\ wire' = [wire EXCEPT ![s] = Append(@, g)]
        /\ log' = [log EXCEPT !.taken = @ \cup ({s} \X jobs), !.overlapped = @ \/ Busy]
    BY <1>1 DEF WriteStats, Send
  <2>2. /\ cache \in [Servers -> Caches] /\ wire \in [Servers -> Seq(Commands)]
        /\ log \in Logs
    BY Types
  <2>3. log'.written = log.written
    BY <2>1, <2>2, Zenon DEF Logs
  <2>4. g \in Gets
    BY DEF Gets
  <2> HIDE DEF n, g
  <2>5. /\ cache'[s].buffer = n /\ wire'[s] = Append(wire[s], g)
        /\ cache'[s].isFlushing = cache[s].isFlushing
        /\ \A t \in Servers \ {s} : cache'[t] = cache[t] /\ wire'[t] = wire[t]
    BY <2>1, <2>2 DEF Caches
  <2> QED
    BY <1>1, <2>1, <2>3, <2>4, <2>5 DEF n, g
<1>2. CASE ~(isOwner[s] /\ jobs # {})
  BY <1>2 DEF WriteStats
<1> QED
  BY <1>1, <1>2

\* What an answer with the hour changes.
LEMMA RollupEffect ==
  ASSUME TypeOK, NEW s \in Servers, Rollup(s)
  PROVE  /\ UNCHANGED <<finished, isOwner, listener, wire, redis, log>>
         /\ replies[s] # <<>> /\ replies'[s] = Tail(replies[s])
         /\ Head(replies[s]) \in GetReplies
         /\ cache'[s].isFlushing = cache[s].isFlushing
         /\ \/ /\ cache' = cache
               /\ ~isOwner[s] \/ Head(replies[s]).base = NoHour
            \/ /\ isOwner[s] /\ Head(replies[s]).base # NoHour
               /\ cache'[s].buffer.minutes = cache[s].buffer.minutes
               /\ cache'[s].buffer.counts = cache[s].buffer.counts
               /\ cache'[s].buffer.hour = RolledUp(Head(replies[s]).source, Head(replies[s]).base)
         /\ \A t \in Servers \ {s} : cache'[t] = cache[t] /\ replies'[t] = replies[t]
<1> DEFINE r == Head(replies[s])
           new == RolledUp(r.source, r.base)
<1>1. /\ cache \in [Servers -> Caches] /\ replies \in [Servers -> Seq(Answers)]
      /\ cache[s] \in Caches /\ cache[s].buffer \in Buffer
  BY Types DEF Caches
<1>2. /\ replies[s] # <<>> /\ r \in GetReplies
      /\ replies' = [replies EXCEPT ![s] = Tail(@)]
      /\ UNCHANGED <<finished, isOwner, listener, wire, redis, log>>
  BY NextAnswer DEF Rollup
<1>3. \/ UNCHANGED cache /\ (~isOwner[s] \/ r.base = NoHour)
      \/ isOwner[s] /\ r.base # NoHour /\ cache' = [cache EXCEPT ![s].buffer.hour = new]
  BY DEF Rollup, WriteHour
<1> HIDE DEF r, new
<1>4. replies'[s] = Tail(replies[s]) /\ \A t \in Servers \ {s} : replies'[t] = replies[t]
  BY <1>1, <1>2
<1>5. CASE UNCHANGED cache /\ (~isOwner[s] \/ r.base = NoHour)
  BY <1>2, <1>4, <1>5 DEF r
<1>6. CASE isOwner[s] /\ r.base # NoHour /\ cache' = [cache EXCEPT ![s].buffer.hour = new]
  <2>1. /\ cache'[s].isFlushing = cache[s].isFlushing
        /\ cache'[s].buffer = [cache[s].buffer EXCEPT !.hour = new]
        /\ \A t \in Servers \ {s} : cache'[t] = cache[t]
    BY <1>1, <1>6 DEF Caches
  <2>2. /\ cache'[s].buffer.minutes = cache[s].buffer.minutes
        /\ cache'[s].buffer.counts = cache[s].buffer.counts
        /\ cache'[s].buffer.hour = new
    BY <1>1, <2>1 DEF Buffer
  <2> QED
    BY <1>2, <1>4, <1>6, <2>1, <2>2 DEF r, new
<1> QED
  BY <1>3, <1>5, <1>6

\* What Redis changes when it executes a command, and what it answers.
LEMMA ExecuteEffect ==
  ASSUME TypeOK, NEW s \in Servers, Execute(s)
  PROVE  /\ UNCHANGED <<finished, isOwner, listener, cache>>
         /\ wire[s] # <<>> /\ wire'[s] = Tail(wire[s])
         /\ \A t \in Servers \ {s} : wire'[t] = wire[t] /\ replies'[t] = replies[t]
         /\ \/ /\ Head(wire[s]) \in Gets
               /\ replies'[s] = Append(replies[s],
                    [type |-> "get", source |-> Head(wire[s]).source, base |-> redis.hour])
               /\ UNCHANGED <<redis, log>>
            \/ /\ Head(wire[s]) \in Execs
               /\ replies'[s] = Append(replies[s], [type |-> "exec", failed |-> FALSE])
               /\ redis' = Applied(redis, Head(wire[s]).buffer)
               /\ log'.written = log.written \cup ({s} \X JobsIn(Head(wire[s]).buffer))
               /\ log'.taken = log.taken /\ log'.changes = log.changes
               /\ log'.faults = log.faults /\ log'.overlapped = log.overlapped
<1> DEFINE c == Head(wire[s])
<1>1. /\ wire \in [Servers -> Seq(Commands)] /\ replies \in [Servers -> Seq(Answers)]
      /\ log \in Logs
  BY Types
<1>2. /\ wire[s] # <<>> /\ wire' = [wire EXCEPT ![s] = Tail(@)]
      /\ UNCHANGED <<finished, isOwner, listener, cache>>
      /\ c.type = "get" => c \in Gets
      /\ c.type # "get" => c \in Execs
  BY NextCommand DEF Execute
<1>3. wire'[s] = Tail(wire[s]) /\ \A t \in Servers \ {s} : wire'[t] = wire[t]
  BY <1>1, <1>2
<1>4. CASE c.type = "get"
  <2> DEFINE r == [type |-> "get", source |-> c.source, base |-> redis.hour]
  <2>1. replies' = [replies EXCEPT ![s] = Append(@, r)] /\ UNCHANGED <<redis, log>>
    BY <1>4 DEF Execute, Reply
  <2> HIDE DEF r, c
  <2>2. replies'[s] = Append(replies[s], r) /\ \A t \in Servers \ {s} : replies'[t] = replies[t]
    BY <1>1, <2>1
  <2> QED
    BY <1>2, <1>3, <1>4, <2>1, <2>2 DEF r, c
<1>5. CASE c.type # "get"
  <2> DEFINE r == [type |-> "exec", failed |-> FALSE]
  <2>1. /\ replies' = [replies EXCEPT ![s] = Append(@, r)]
        /\ redis' = Applied(redis, c.buffer)
        /\ log' = [log EXCEPT !.written = @ \cup ({s} \X JobsIn(c.buffer))]
    BY <1>5 DEF Execute, Reply
  <2> HIDE DEF r, c
  <2>2. replies'[s] = Append(replies[s], r) /\ \A t \in Servers \ {s} : replies'[t] = replies[t]
    BY <1>1, <2>1
  <2>3. /\ log'.written = log.written \cup ({s} \X JobsIn(c.buffer))
        /\ log'.taken = log.taken /\ log'.changes = log.changes
        /\ log'.faults = log.faults /\ log'.overlapped = log.overlapped
    BY <1>1, <2>1 DEF Logs
  <2> QED
    BY <1>2, <1>3, <1>5, <2>1, <2>2, <2>3 DEF r, c
<1> QED
  BY <1>4, <1>5

\* What a command that fails changes.
LEMMA FailEffect ==
  ASSUME TypeOK, NEW s \in Servers, Fail(s)
  PROVE  /\ UNCHANGED <<finished, isOwner, listener, cache, redis>>
         /\ wire[s] # <<>> /\ wire'[s] = Tail(wire[s])
         /\ \A t \in Servers \ {s} : wire'[t] = wire[t] /\ replies'[t] = replies[t]
         /\ log'.taken = log.taken /\ log'.changes = log.changes
         /\ log'.written = log.written /\ log'.overlapped = log.overlapped
         /\ log'.faults = log.faults + 1
         /\ \/ /\ Head(wire[s]) \in Gets
               /\ replies'[s] = Append(replies[s],
                    [type |-> "get", source |-> Head(wire[s]).source, base |-> NoHour])
            \/ /\ Head(wire[s]) \in Execs
               /\ replies'[s] = Append(replies[s], [type |-> "exec", failed |-> TRUE])
<1> DEFINE c == Head(wire[s])
           r == IF c.type = "get"
                  THEN [type |-> "get", source |-> c.source, base |-> NoHour]
                  ELSE [type |-> "exec", failed |-> TRUE]
<1>1. /\ wire \in [Servers -> Seq(Commands)] /\ replies \in [Servers -> Seq(Answers)]
      /\ log \in Logs
  BY Types
<1>2. /\ wire[s] # <<>> /\ wire' = [wire EXCEPT ![s] = Tail(@)]
      /\ UNCHANGED <<finished, isOwner, listener, cache, redis>>
      /\ c.type = "get" => c \in Gets
      /\ c.type # "get" => c \in Execs
      /\ replies' = [replies EXCEPT ![s] = Append(@, r)]
      /\ log' = [log EXCEPT !.faults = @ + 1]
  BY NextCommand DEF Fail, Reply, Fault
<1>3. \/ c \in Gets /\ r = [type |-> "get", source |-> c.source, base |-> NoHour]
      \/ c \in Execs /\ r = [type |-> "exec", failed |-> TRUE]
  BY <1>2
<1> HIDE DEF r, c
<1>4. /\ wire'[s] = Tail(wire[s]) /\ replies'[s] = Append(replies[s], r)
      /\ \A t \in Servers \ {s} : wire'[t] = wire[t] /\ replies'[t] = replies[t]
  BY <1>1, <1>2
<1>5. /\ log'.taken = log.taken /\ log'.changes = log.changes
      /\ log'.written = log.written /\ log'.overlapped = log.overlapped
      /\ log'.faults = log.faults + 1
  BY <1>1, <1>2 DEF Logs
<1> QED
  BY <1>2, <1>3, <1>4, <1>5 DEF c

\* What taking the buffer for a transaction changes.
LEMMA FlushEffect ==
  ASSUME TypeOK, NEW s \in Servers, Flush(s)
  PROVE  /\ UNCHANGED <<finished, isOwner, listener, replies, redis, log>>
         /\ isOwner[s] /\ IsChanged(cache[s].buffer)
         /\ cache'[s].buffer = Empty
         /\ [type |-> "exec", buffer |-> cache[s].buffer] \in Execs
         /\ wire'[s] = Append(wire[s], [type |-> "exec", buffer |-> cache[s].buffer])
         /\ \A t \in Servers \ {s} : cache'[t] = cache[t] /\ wire'[t] = wire[t]
<1> DEFINE c == [type |-> "exec", buffer |-> cache[s].buffer]
<1>1. /\ cache \in [Servers -> Caches] /\ wire \in [Servers -> Seq(Commands)]
      /\ cache[s].buffer \in Buffer
  BY Types DEF Caches
<1>2. c \in Execs
  BY <1>1 DEF Execs
<1>3. /\ UNCHANGED <<finished, isOwner, listener, replies, redis, log>>
      /\ isOwner[s] /\ IsChanged(cache[s].buffer)
      /\ wire' = [wire EXCEPT ![s] = Append(@, c)]
      /\ cache' = [cache EXCEPT ![s] = Flushing(@)]
  BY DEF Flush, Send
<1> HIDE DEF c
<1>4. /\ wire'[s] = Append(wire[s], c) /\ cache'[s] = Flushing(cache[s])
      /\ \A t \in Servers \ {s} : cache'[t] = cache[t] /\ wire'[t] = wire[t]
  BY <1>1, <1>3
<1> QED
  BY <1>2, <1>3, <1>4 DEF c, Flushing

\* What dropping the buffer changes.
LEMMA DiscardEffect ==
  ASSUME TypeOK, NEW s \in Servers, Discard(s)
  PROVE  /\ UNCHANGED <<finished, isOwner, listener, wire, replies, redis, log>>
         /\ ~isOwner[s] /\ cache'[s].buffer = Empty
         /\ \A t \in Servers \ {s} : cache'[t] = cache[t]
BY Types DEF Discard, Discarded, Caches

\* What the end of a flush changes.
LEMMA FlushedEffect ==
  ASSUME TypeOK, NEW s \in Servers, Flushed(s)
  PROVE  /\ UNCHANGED <<finished, isOwner, listener, wire, redis, log>>
         /\ replies[s] # <<>> /\ Head(replies[s]) \in ExecReplies
         /\ replies'[s] = Tail(replies[s])
         /\ \A t \in Servers \ {s} : replies'[t] = replies[t]
         /\ \A t \in Servers : cache'[t].buffer = cache[t].buffer
<1>1. cache \in [Servers -> Caches] /\ replies \in [Servers -> Seq(Answers)]
  BY Types
<1>2. /\ replies[s] # <<>> /\ Head(replies[s]).type = "exec"
      /\ replies' = [replies EXCEPT ![s] = Tail(@)]
      /\ UNCHANGED <<finished, isOwner, listener, wire, redis, log>>
  BY DEF Flushed
<1>3. Head(replies[s]) \in ExecReplies
  BY <1>2, NextAnswer
<1>4. \A t \in Servers : cache'[t].buffer = cache[t].buffer
  BY <1>1 DEF Flushed, FlushEnded, Caches
<1> QED
  BY <1>1, <1>2, <1>3, <1>4

\* What a crash changes.
LEMMA CrashEffect ==
  ASSUME TypeOK, NEW s \in Servers, Crash(s)
  PROVE  /\ UNCHANGED <<finished, redis>>
         /\ ~isOwner'[s] /\ listener'[s] = Listening(Len(finished), Now)
         /\ cache'[s].buffer = Empty /\ wire'[s] = <<>> /\ replies'[s] = <<>>
         /\ \A t \in Servers \ {s} :
              /\ isOwner'[t] = isOwner[t] /\ listener'[t] = listener[t]
              /\ cache'[t] = cache[t] /\ wire'[t] = wire[t] /\ replies'[t] = replies[t]
         /\ log'.taken = log.taken /\ log'.changes = log.changes
         /\ log'.written = log.written /\ log'.overlapped = log.overlapped
         /\ log'.faults = log.faults + 1
<1>1. /\ isOwner \in [Servers -> BOOLEAN] /\ listener \in [Servers -> Listeners]
      /\ cache \in [Servers -> Caches] /\ wire \in [Servers -> Seq(Commands)]
      /\ replies \in [Servers -> Seq(Answers)] /\ log \in Logs
  BY Types
<1>2. /\ ~isOwner'[s] /\ listener'[s] = Listening(Len(finished), Now)
      /\ cache'[s].buffer = Empty /\ wire'[s] = <<>> /\ replies'[s] = <<>>
      /\ \A t \in Servers \ {s} :
           /\ isOwner'[t] = isOwner[t] /\ listener'[t] = listener[t]
           /\ cache'[t] = cache[t] /\ wire'[t] = wire[t] /\ replies'[t] = replies[t]
  BY <1>1 DEF Crash
<1>3. /\ log'.taken = log.taken /\ log'.changes = log.changes
      /\ log'.written = log.written /\ log'.overlapped = log.overlapped
      /\ log'.faults = log.faults + 1
  BY <1>1 DEF Crash, Fault, Logs
<1> QED
  BY <1>2, <1>3 DEF Crash

\* At the start nothing is collected.
LEMMA CollectedInit == Init => CollectedInv
<1> SUFFICES ASSUME Init, NEW s \in Servers
             PROVE  /\ Collected(listener[s], cache[s].buffer, wire[s], Done(s))
                    /\ listener[s].seen <= Len(finished)
  BY DEF CollectedInv
<1>1. /\ listener[s] = Listening(0, 0) /\ cache[s].buffer = Empty /\ wire[s] = <<>>
      /\ Done(s) = {} /\ Len(finished) = 0
  BY DEF Init, Done
<1>2. Listening(0, 0).seen = 0 /\ Listening(0, 0).stats = {}
  BY DEF Listening
<1> QED
  BY <1>1, <1>2, EmptySound DEF Collected

\* Every step leaves a job of a server in one place.
LEMMA CollectedStep == TypeOK /\ TypeOK' /\ CollectedInv /\ [Next]_vars => CollectedInv'
<1> SUFFICES ASSUME TypeOK, TypeOK', CollectedInv, [Next]_vars, NEW t \in Servers
             PROVE  /\ Collected(listener'[t], cache'[t].buffer, wire'[t], Done(t)')
                    /\ listener'[t].seen <= Len(finished')
  BY DEF CollectedInv
<1> DEFINE Goal == /\ Collected(listener'[t], cache'[t].buffer, wire'[t], Done(t)')
                   /\ listener'[t].seen <= Len(finished')
<1>0. /\ Collected(listener[t], cache[t].buffer, wire[t], Done(t))
      /\ listener[t].seen <= Len(finished)
      /\ listener[t] \in Listeners /\ cache[t].buffer \in Buffer
      /\ wire[t] \in Seq(Commands) /\ Done(t) \in SUBSET Jobs
      /\ listener'[t] \in Listeners /\ cache'[t].buffer \in Buffer
  <2>1. /\ listener \in [Servers -> Listeners] /\ cache \in [Servers -> Caches]
        /\ wire \in [Servers -> Seq(Commands)]
    BY Types
  <2>2. listener' \in [Servers -> Listeners] /\ cache' \in [Servers -> Caches]
    BY DEF TypeOK, Listeners, Caches
  <2> QED
    BY <2>1, <2>2 DEF CollectedInv, Done, Caches
<1>1. ASSUME listener'[t] = listener[t], cache'[t].buffer = cache[t].buffer, wire'[t] = wire[t],
             log'.written = log.written, finished' = finished
      PROVE  Goal
  BY <1>0, <1>1 DEF Done
<1>2. ASSUME NEW m \in Minutes, Finish(m) PROVE Goal
  <2>1. Len(finished') = Len(finished) + 1 /\ Len(finished) \in Nat
    BY <1>2, Types DEF Finish
  <2>2. listener[t].seen \in Nat
    BY <1>0, ListenerType
  <2> QED
    BY <1>0, <1>2, <2>1, <2>2 DEF Finish, Done
<1>3. ASSUME NEW s \in Servers, UpdateStats(s) PROVE Goal
  <2>0. UNCHANGED finished
    BY <1>3 DEF UpdateStats
  <2>1. CASE NeedsFlush(listener[s], finished[listener[s].seen + 1])
    <3>1. /\ listener[s].nextFlush \in 0..MaxMinute
          /\ listener[s].stats \in SUBSET Jobs
          /\ WriteStats(s, listener[s].stats, listener[s].nextFlush)
      BY <1>3, <2>1, UpdateStatsTypes, ListenerType, Types DEF UpdateStats
    <3>2. /\ listener'[s].seen = listener[s].seen + 1
          /\ listener'[s].stats = {listener[s].seen + 1}
          /\ listener'[s].nextFlush = listener[s].nextFlush + 1
          /\ listener[s].seen + 1 <= Len(finished)
          /\ \A u \in Servers \ {s} : listener'[u] = listener[u]
      BY <1>3, <2>1, UpdateStatsTypes
    <3>3. CASE isOwner[s] /\ listener[s].stats # {}
      <4> DEFINE g == [type |-> "get", source |-> listener[s].stats]
      <4>1. /\ cache'[s].buffer = Buffered(cache[s].buffer, listener[s].stats, listener[s].nextFlush)
            /\ wire'[s] = Append(wire[s], g) /\ g \in Gets
            /\ \A u \in Servers \ {s} : cache'[u] = cache[u] /\ wire'[u] = wire[u]
            /\ log'.written = log.written
        BY <3>1, <3>3, WriteStatsEffect
      <4> HIDE DEF g
      <4>2. CASE t = s
        <5> DEFINE b == Buffered(cache[t].buffer, listener[t].stats, listener[t].nextFlush)
                   v == Append(wire[t], g)
        <5>1. /\ cache'[t].buffer = b /\ wire'[t] = v
              /\ listener[t].nextFlush \in 0..MaxMinute
              /\ listener'[t].seen = listener[t].seen + 1
              /\ listener'[t].nextFlush = listener[t].nextFlush + 1
              /\ listener'[t].stats = {listener'[t].seen}
          BY <3>1, <3>2, <4>1, <4>2
        <5>2. Collected(listener'[t], b, v, Done(t))
          BY <1>0, <4>1, <5>1, Snapped
        <5> HIDE DEF b, v
        <5> QED
          BY <2>0, <3>2, <4>1, <4>2, <5>1, <5>2 DEF Done
      <4> QED
        BY <1>1, <2>0, <3>2, <4>1, <4>2
    <3>4. CASE ~(isOwner[s] /\ listener[s].stats # {})
      <4>1. UNCHANGED <<cache, wire, log>>
        BY <3>1, <3>4, WriteStatsEffect
      <4>2. CASE t = s
        <5>1. listener'[t].nextFlush >= listener[t].nextFlush
          BY <3>1, <3>2, <4>2, StatsAssumption
        <5>2. \A j \in listener'[t].stats : j \in listener[t].stats \/ j = listener'[t].seen
          BY <3>2, <4>2
        <5>3. Collected(listener'[t], cache[t].buffer, wire[t], Done(t))
          BY <1>0, <3>2, <4>2, <5>1, <5>2, Heard
        <5> QED
          BY <2>0, <3>2, <4>1, <4>2, <5>3 DEF Done
      <4> QED
        BY <1>1, <2>0, <3>2, <4>1, <4>2
    <3> QED
      BY <3>3, <3>4
  <2>2. CASE ~NeedsFlush(listener[s], finished[listener[s].seen + 1])
    <3>1. UNCHANGED <<cache, wire, log>>
      BY <1>3, <2>2 DEF UpdateStats
    <3>2. /\ listener'[s].seen = listener[s].seen + 1
          /\ listener'[s].stats = listener[s].stats \cup {listener[s].seen + 1}
          /\ listener'[s].nextFlush = listener[s].nextFlush
          /\ listener[s].seen + 1 <= Len(finished)
          /\ \A u \in Servers \ {s} : listener'[u] = listener[u]
      BY <1>3, <2>2, UpdateStatsTypes
    <3>3. CASE t = s
      <4>1. listener[s].nextFlush >= listener[s].nextFlush
        BY <1>0, <3>3, ListenerType
      <4> QED
        BY <1>0, <2>0, <3>1, <3>2, <3>3, <4>1, Heard DEF Done
    <3> QED
      BY <1>1, <2>0, <3>1, <3>2, <3>3
  <2> QED
    BY <2>1, <2>2
<1>4. ASSUME NEW s \in Servers, Rollup(s) PROVE Goal
  <2>1. CASE t = s
    <3>1. /\ cache'[t].buffer.minutes = cache[t].buffer.minutes
          /\ cache'[t].buffer.counts = cache[t].buffer.counts
          /\ UNCHANGED <<finished, listener, wire, log>>
      BY <1>4, <2>1, RollupEffect
    <3>2. Collected(listener[t], cache'[t].buffer, wire[t], Done(t))
      BY <1>0, <3>1, HourBuffered
    <3> QED
      BY <1>0, <3>1, <3>2 DEF Done
  <2> QED
    BY <1>1, <1>4, <2>1, RollupEffect
<1>5. ASSUME NEW s \in Servers, Flush(s) PROVE Goal
  <2>1. CASE t = s
    <3> DEFINE v == Append(wire[t], [type |-> "exec", buffer |-> cache[t].buffer])
    <3>1. /\ cache'[t].buffer = Empty /\ wire'[t] = v
          /\ UNCHANGED <<finished, listener, log>>
      BY <1>5, <2>1, FlushEffect
    <3>2. Collected(listener[t], Empty, v, Done(t))
      BY <1>0, Sent
    <3> HIDE DEF v
    <3> QED
      BY <1>0, <3>1, <3>2 DEF Done
  <2> QED
    BY <1>1, <1>5, <2>1, FlushEffect
<1>6. ASSUME NEW s \in Servers, Discard(s) PROVE Goal
  <2>1. CASE t = s
    <3>1. /\ cache'[t].buffer = Empty
          /\ UNCHANGED <<finished, listener, wire, log>>
      BY <1>6, <2>1, DiscardEffect
    <3>2. Collected(listener[t], Empty, wire[t], Done(t))
      BY <1>0, Dropped
    <3> QED
      BY <1>0, <3>1, <3>2 DEF Done
  <2> QED
    BY <1>1, <1>6, <2>1, DiscardEffect
<1>7. ASSUME NEW s \in Servers, Flushed(s) PROVE Goal
  BY <1>1, <1>7, FlushedEffect
<1>8. ASSUME NEW s \in Servers, Execute(s) PROVE Goal
  <2>1. UNCHANGED <<finished, listener, cache>>
    BY <1>8, ExecuteEffect
  <2>2. CASE t = s /\ Head(wire[s]) \in Gets
    <3>1. UNCHANGED log
      BY <1>8, <2>2, ExecuteEffect DEF Gets, Execs
    <3>2. wire[t] # <<>> /\ wire'[t] = Tail(wire[t])
      BY <1>8, <2>2, ExecuteEffect
    <3>3. Collected(listener[t], cache[t].buffer, Tail(wire[t]), Done(t))
      BY <1>0, <3>2, Gone
    <3> QED
      BY <1>0, <2>1, <3>1, <3>2, <3>3 DEF Done
  <2>3. CASE t = s /\ Head(wire[s]) \in Execs
    <3> DEFINE x == Head(wire[s]).buffer
    <3>1. log'.written = log.written \cup ({s} \X JobsIn(x))
      BY <1>8, <2>3, ExecuteEffect DEF Gets, Execs
    <3>2. JobsIn(x) \in SUBSET Jobs /\ Head(wire[s]).type = "exec"
      BY <2>3, JobsInType DEF Execs
    <3> HIDE DEF x
    <3>3. Done(t)' = Done(t) \cup JobsIn(x)
      BY <2>3, <3>1, <3>2 DEF Done
    <3>4. wire[s] # <<>> /\ wire'[s] = Tail(wire[s])
      BY <1>8, ExecuteEffect
    <3> QED
      BY <1>0, <2>1, <2>3, <3>2, <3>3, <3>4, Written DEF x
  <2>4. CASE t # s
    <3>1. wire'[t] = wire[t]
      BY <1>8, <2>4, ExecuteEffect
    <3>2. Done(t)' = Done(t)
      <4> DEFINE x == JobsIn(Head(wire[s]).buffer)
      <4>0. log'.written = log.written \/ log'.written = log.written \cup ({s} \X x)
        BY <1>8, ExecuteEffect
      <4> HIDE DEF x
      <4>1. \A j : <<t, j>> \in log'.written <=> <<t, j>> \in log.written
        BY <2>4, <4>0
      <4> QED
        BY <4>1 DEF Done
    <3> QED
      BY <1>0, <2>1, <3>1, <3>2
  <2> QED
    BY <1>8, <2>2, <2>3, <2>4, ExecuteEffect
<1>9. ASSUME NEW s \in Servers, Fail(s) PROVE Goal
  <2>1. CASE t = s
    <3>1. /\ wire[t] # <<>> /\ wire'[t] = Tail(wire[t]) /\ log'.written = log.written
          /\ UNCHANGED <<finished, listener, cache>>
      BY <1>9, <2>1, FailEffect
    <3>2. Collected(listener[t], cache[t].buffer, Tail(wire[t]), Done(t))
      BY <1>0, <3>1, Gone
    <3> QED
      BY <1>0, <3>1, <3>2 DEF Done
  <2> QED
    BY <1>1, <1>9, <2>1, FailEffect
<1>10. ASSUME NEW s \in Servers, Acquire(s) PROVE Goal
  <2>1. log'.written = log.written
    BY <1>10, Types DEF Acquire, Logs
  <2> QED
    BY <1>1, <1>10, <2>1 DEF Acquire
<1>11. ASSUME NEW s \in Servers, Lose(s) PROVE Goal
  <2>1. log'.written = log.written
    BY <1>11, Types DEF Lose, Logs
  <2> QED
    BY <1>1, <1>11, <2>1 DEF Lose
<1>12. ASSUME NEW s \in Servers, Crash(s) PROVE Goal
  <2>1. CASE t = s
    <3> DEFINE l == Listening(Len(finished), Now)
    <3>1. /\ listener'[t] = l /\ cache'[t].buffer = Empty /\ wire'[t] = <<>>
          /\ log'.written = log.written /\ finished' = finished
      BY <1>12, <2>1, CrashEffect
    <3>2. l.seen = Len(finished) /\ l.stats = {}
      BY DEF Listening
    <3>3. Len(finished) \in Nat /\ listener[t].seen \in Nat /\ Done(t) \subseteq Nat
      <4>1. finished \in Seq(Minutes)
        BY Types
      <4>2. Len(finished) \in Nat
        BY <4>1
      <4>3. listener[t].seen \in Nat
        BY <1>0, ListenerType
      <4> QED
        BY <1>0, <4>2, <4>3, JobsFinite
    <3>4. \A j \in Done(t) : j <= Len(finished)
      BY <1>0, <3>3 DEF Collected
    <3>5. Done(t)' = Done(t)
      BY <3>1 DEF Done
    <3> HIDE DEF l
    <3> QED
      BY <3>1, <3>2, <3>3, <3>4, <3>5, EmptySound DEF Collected
  <2> QED
    BY <1>1, <1>12, <2>1, CrashEffect
<1>13. CASE UNCHANGED vars
  BY <1>1, <1>13 DEF vars
<1> QED
  BY <1>2, <1>3, <1>4, <1>5, <1>6, <1>7, <1>8, <1>9, <1>10, <1>11, <1>12, <1>13
     DEF Next, Step

-----------------------------------------------------------------------------
(* The counts.                                                              *)

\* The pairs of a server with jobs are as many as the jobs, and pairs are finitely many.
LEMMA PairsFinite ==
  /\ \A P \in Pairs : IsFiniteSet(P) /\ Cardinality(P) \in Nat
  /\ \A s \in Servers : \A S \in SUBSET Jobs :
       {s} \X S \in Pairs /\ Cardinality({s} \X S) = Cardinality(S)
<1>1. IsFiniteSet(Servers \X Jobs)
  BY FS_Product, JobsFinite, StatsAssumption
<1>2. \A P \in Pairs : IsFiniteSet(P) /\ Cardinality(P) \in Nat
  BY <1>1, FS_Subset, FS_CardinalityType DEF Pairs
<1>3. ASSUME NEW s \in Servers, NEW S \in SUBSET Jobs
      PROVE  {s} \X S \in Pairs /\ Cardinality({s} \X S) = Cardinality(S)
  <2>1. IsFiniteSet({s}) /\ Cardinality({s}) = 1
    BY FS_Singleton
  <2>2. IsFiniteSet(S) /\ Cardinality(S) \in Nat
    BY JobsFinite
  <2>3. Cardinality({s} \X S) = 1 * Cardinality(S)
    BY <2>1, <2>2, FS_Product
  <2> QED
    BY <2>2, <2>3 DEF Pairs
<1> QED
  BY <1>2, <1>3

\* A transaction adds as much to the counts as it has records of jobs.
LEMMA CountsStep ==
  TypeOK /\ CollectedInv /\ CountsMatchRecords /\ [Next]_vars => CountsMatchRecords'
<1> SUFFICES ASSUME TypeOK, CollectedInv, CountsMatchRecords, [Next]_vars
             PROVE  CountsMatchRecords'
  OBVIOUS
<1>1. ASSUME redis' = redis, log'.written = log.written PROVE CountsMatchRecords'
  BY <1>1 DEF CountsMatchRecords
<1>2. ASSUME NEW s \in Servers, Execute(s) PROVE CountsMatchRecords'
  <2>1. CASE Head(wire[s]) \in Gets
    BY <1>1, <1>2, <2>1, ExecuteEffect DEF Gets, Execs
  <2>2. CASE Head(wire[s]) \in Execs
    <3> DEFINE b == Head(wire[s]).buffer
               P == {s} \X JobsIn(b)
               W == log.written
    <3>1. /\ wire[s] # <<>> /\ redis' = Applied(redis, b)
          /\ log'.written = W \cup P
      BY <1>2, <2>2, ExecuteEffect DEF Gets, Execs
    <3>2. b \in Buffer /\ JobsIn(b) \in SUBSET Jobs /\ Head(wire[s]).type = "exec"
      BY <2>2, JobsInType DEF Execs
    <3>3. redis.counts = 2 * Cardinality(W) /\ redis'.counts = redis.counts + b.counts
      BY <3>1 DEF CountsMatchRecords, Applied
    <3>4. W \in Pairs /\ wire[s] \in Seq(Commands)
      BY Types DEF Logs
    <3>5. 1 \in DOMAIN wire[s] /\ wire[s][1] = Head(wire[s])
      BY <3>1, <3>4
    <3>6. b.counts = 2 * Cardinality(JobsIn(b)) /\ \A j \in JobsIn(b) : j \notin Done(s)
      BY <3>2, <3>5 DEF CollectedInv, Collected, Sound
    <3> HIDE DEF b
    <3>7. P \in Pairs /\ Cardinality(P) = Cardinality(JobsIn(b))
      BY <3>2, PairsFinite
    <3>8. W \cap P = {}
      BY <3>2, <3>6 DEF Done
    <3> HIDE DEF P, W
    <3>9. /\ IsFiniteSet(P) /\ IsFiniteSet(W)
          /\ Cardinality(P) \in Nat /\ Cardinality(W) \in Nat
      BY <3>4, <3>7, PairsFinite
    <3>10. Cardinality(W \cup P) = Cardinality(W) + Cardinality(P)
      <4>1. Cardinality(W \cup P) = Cardinality(W) + Cardinality(P) - Cardinality(W \cap P)
        BY <3>9, FS_Union
      <4>2. Cardinality(W \cap P) = 0
        BY <3>8, FS_EmptySet
      <4> QED
        BY <3>9, <4>1, <4>2
    <3>11. redis'.counts = 2 * Cardinality(log'.written)
      BY <3>1, <3>3, <3>6, <3>7, <3>9, <3>10
    <3> QED
      BY <3>11 DEF CountsMatchRecords
  <2> QED
    BY <1>2, <2>1, <2>2, ExecuteEffect
<1>3. ASSUME NEW s \in Servers, UpdateStats(s) PROVE CountsMatchRecords'
  <2>1. log'.written = log.written
    <3>1. CASE NeedsFlush(listener[s], finished[listener[s].seen + 1])
      <4>1. /\ listener[s].nextFlush \in 0..MaxMinute /\ listener[s].stats \in SUBSET Jobs
            /\ WriteStats(s, listener[s].stats, listener[s].nextFlush)
        BY <1>3, <3>1, UpdateStatsTypes, ListenerType, Types DEF UpdateStats
      <4> QED
        BY <4>1, WriteStatsEffect
    <3>2. CASE ~NeedsFlush(listener[s], finished[listener[s].seen + 1])
      BY <1>3, <3>2 DEF UpdateStats
    <3> QED
      BY <3>1, <3>2
  <2> QED
    BY <1>1, <1>3, <2>1 DEF UpdateStats
<1>4. ASSUME NEW s \in Servers,
             Acquire(s) \/ Lose(s) \/ Fail(s) \/ Crash(s) PROVE CountsMatchRecords'
  <2>1. log \in Logs
    BY Types
  <2>2. log'.written = log.written /\ redis' = redis
    BY <1>4, <2>1, FailEffect, CrashEffect DEF Acquire, Lose, Logs
  <2> QED
    BY <1>1, <2>2
<1>5. ASSUME NEW s \in Servers,
             Rollup(s) \/ Flush(s) \/ Discard(s) \/ Flushed(s) PROVE CountsMatchRecords'
  BY <1>1, <1>5 DEF Rollup, Flush, Discard, Flushed
<1>6. CASE UNCHANGED vars \/ \E m \in Minutes : Finish(m)
  BY <1>1, <1>6 DEF vars, Finish
<1> QED
  BY <1>2, <1>3, <1>4, <1>5, <1>6 DEF Next, Step

\* A job of a server is in one place only: collected by the listener, in the buffer, in a
\* transaction, or written.  So each job is recorded once by each server, however often
\* a minute is written.
THEOREM CollectedOnce == Spec => []CollectedInv
BY InitType, TypeStep, CollectedInit, CollectedStep, PTL DEF Spec

\* CountsMatchRecords holds: the counters and the records of the minutes go together.
THEOREM CountsMatch == Spec => []CountsMatchRecords
<1>1. Init => CountsMatchRecords
  BY FS_EmptySet DEF Init, CountsMatchRecords
<1> QED
  BY <1>1, CollectedOnce, TypeCorrectness, CountsStep, PTL DEF Spec

-----------------------------------------------------------------------------
(* Snapshots that wait for their hour.                                      *)

\* Among the commands w and the answers r is a read of the hour for a snapshot with j.
Waits(w, r, j) ==
  \/ \E k \in DOMAIN w : w[k].type = "get" /\ j \in w[k].source
  \/ \E k \in DOMAIN r : r[k].type = "get" /\ j \in r[k].source

\* Two snapshots of one server that have no job in common.
NoneShared(a, b) ==
  a.type = "get" /\ b.type = "get" => \A j \in a.source : j \notin b.source

\* The reads of a server are for jobs that it had in snapshots as an owner: one for each,
\* and none of them is in the present snapshot.
Asked(l, w, r, had) ==
  /\ \A j \in had : j <= l.seen /\ j \notin l.stats
  /\ \A k \in DOMAIN w : w[k].type = "get" => \A j \in w[k].source : j \in had
  /\ \A k \in DOMAIN r : r[k].type = "get" => \A j \in r[k].source : j \in had
  /\ \A i, k \in DOMAIN w : i < k => NoneShared(w[i], w[k])
  /\ \A i, k \in DOMAIN r : i < k => NoneShared(r[i], r[k])
  /\ \A i \in DOMAIN w, k \in DOMAIN r : NoneShared(w[i], r[k])

\* An answer behind the others, and the answers that are left.
LEMMA Answered ==
  ASSUME NEW r \in Seq(Answers)
  PROVE  /\ \A a \in Answers :
              /\ \A k \in DOMAIN Append(r, a) :
                   \/ k \in DOMAIN r /\ Append(r, a)[k] = r[k] /\ k < Len(r) + 1
                   \/ k = Len(r) + 1 /\ Append(r, a)[k] = a
         /\ \A k \in DOMAIN r : k \in Nat /\ k < Len(r) + 1
         /\ Len(r) \in Nat
         /\ r # <<>> =>
              /\ 1 \in DOMAIN r /\ Head(r) = r[1]
              /\ \A k \in DOMAIN Tail(r) :
                   k \in Nat /\ k + 1 \in DOMAIN r /\ Tail(r)[k] = r[k + 1] /\ 1 < k + 1
OBVIOUS

\* A job is heard of, and nothing is asked for.
LEMMA AskedHeard ==
  ASSUME NEW l \in Listeners, NEW n \in Listeners, NEW w, NEW r, NEW had \in SUBSET Jobs,
         Asked(l, w, r, had),
         n.seen = l.seen + 1, \A j \in n.stats : j \in l.stats \/ j = n.seen
  PROVE  Asked(n, w, r, had)
<1> DEFINE e == l.seen
           S == l.stats
<1>1. /\ e \in Nat /\ n.seen = e + 1 /\ \A j \in had : j \in Nat
      /\ \A j \in n.stats : j \in S \/ j = e + 1
  BY ListenerType, JobsFinite
<1>2. \A j \in had : j <= e /\ j \notin S
  BY DEF Asked
<1> HIDE DEF e, S
<1>3. \A j \in had : j <= n.seen /\ j \notin n.stats
  BY <1>1, <1>2
<1> QED
  BY <1>3 DEF Asked

\* The owner ends a minute, and asks for the hour.
LEMMA AskedMore ==
  ASSUME NEW l \in Listeners, NEW n \in Listeners, NEW w \in Seq(Commands),
         NEW r \in Seq(Answers), NEW had \in SUBSET Jobs,
         Asked(l, w, r, had), NEW g \in Gets, g.source = l.stats,
         \A j \in l.stats : j <= l.seen,
         n.seen = l.seen + 1, n.stats = {n.seen}
  PROVE  /\ Asked(n, Append(w, g), r, had \cup l.stats)
         /\ \A j \in had : Waits(Append(w, g), r, j) => Waits(w, r, j)
<1> DEFINE e == l.seen
           S == l.stats
           v == Append(w, g)
<1>1. /\ e \in Nat /\ n.seen = e + 1 /\ \A j \in had \cup S : j \in Nat
      /\ n.stats = {e + 1} /\ g.source = S /\ \A j \in S : j <= e
  BY ListenerType, JobsFinite
<1>2. \A j \in had : j <= e /\ j \notin S
  BY DEF Asked
<1>3. g \in Commands /\ g.type = "get"
  BY DEF Gets, Commands
<1>4. /\ \A k \in DOMAIN v :
           \/ k \in DOMAIN w /\ v[k] = w[k] /\ k < Len(w) + 1
           \/ k = Len(w) + 1 /\ v[k] = g
      /\ \A k \in DOMAIN w : k \in Nat
      /\ Len(w) \in Nat
  BY <1>3, Appended
<1> HIDE DEF e, S, v
<1>5. \A j \in had \cup S : j <= n.seen /\ j \notin n.stats
  BY <1>1, <1>2
<1>6. \A k \in DOMAIN v : v[k].type = "get" => \A j \in v[k].source : j \in had \cup S
  BY <1>1, <1>4 DEF Asked
<1>7. \A k \in DOMAIN r : r[k].type = "get" => \A j \in r[k].source : j \in had \cup S
  BY DEF Asked
<1>8. \A i, k \in DOMAIN v : i < k => NoneShared(v[i], v[k])
  <2> SUFFICES ASSUME NEW i \in DOMAIN v, NEW k \in DOMAIN v, i < k
               PROVE  NoneShared(v[i], v[k])
    OBVIOUS
  <2>1. i \in DOMAIN w /\ v[i] = w[i]
    BY <1>4
  <2>2. CASE k \in DOMAIN w /\ v[k] = w[k]
    BY <2>1, <2>2 DEF Asked
  <2>3. CASE v[k] = g
    BY <1>1, <1>2, <2>1, <2>3 DEF Asked, NoneShared
  <2> QED
    BY <1>4, <2>2, <2>3
<1>9. \A i \in DOMAIN v, k \in DOMAIN r : NoneShared(v[i], r[k])
  BY <1>1, <1>2, <1>4 DEF Asked, NoneShared
<1>10. \A j \in had : Waits(v, r, j) => Waits(w, r, j)
  BY <1>1, <1>2, <1>4 DEF Waits
<1> QED
  BY <1>5, <1>6, <1>7, <1>8, <1>9, <1>10 DEF Asked, S, v

\* A transaction is sent.
LEMMA AskedSent ==
  ASSUME NEW l, NEW w \in Seq(Commands), NEW r, NEW had, Asked(l, w, r, had), NEW x \in Execs
  PROVE  /\ Asked(l, Append(w, x), r, had)
         /\ \A j : Waits(Append(w, x), r, j) => Waits(w, r, j)
<1> DEFINE v == Append(w, x)
<1>1. x \in Commands /\ x.type # "get"
  BY DEF Execs, Commands
<1>2. \A k \in DOMAIN v : v[k].type = "get" => k \in DOMAIN w /\ v[k] = w[k]
  BY <1>1, Appended
<1> HIDE DEF v
<1> QED
  BY <1>2 DEF Asked, Waits, NoneShared, v

\* The first command is answered: a read goes on to wait, with its answer.
LEMMA AskedAnswered ==
  ASSUME NEW l, NEW w \in Seq(Commands), NEW r \in Seq(Answers), NEW had,
         Asked(l, w, r, had), w # <<>>, NEW a \in Answers,
         a.type = "get" => Head(w).type = "get" /\ Head(w).source = a.source
  PROVE  /\ Asked(l, Tail(w), Append(r, a), had)
         /\ \A j : Waits(Tail(w), Append(r, a), j) => Waits(w, r, j)
<1> DEFINE v == Tail(w)
           q == Append(r, a)
           h == w[1]
<1>1. /\ 1 \in DOMAIN w
      /\ a.type = "get" => h.type = "get" /\ h.source = a.source
      /\ \A k \in DOMAIN v : k \in Nat /\ k + 1 \in DOMAIN w /\ v[k] = w[k + 1] /\ 1 < k + 1
  BY Taken
<1>2. /\ \A k \in DOMAIN q :
           \/ k \in DOMAIN r /\ q[k] = r[k] /\ k < Len(r) + 1
           \/ k = Len(r) + 1 /\ q[k] = a
      /\ \A k \in DOMAIN r : k \in Nat
      /\ Len(r) \in Nat
  BY Answered
<1> HIDE DEF v, q
<1>3. \A k \in DOMAIN v : v[k].type = "get" => \A j \in v[k].source : j \in had
  BY <1>1 DEF Asked
<1>4. \A k \in DOMAIN q : q[k].type = "get" => \A j \in q[k].source : j \in had
  BY <1>1, <1>2 DEF Asked
<1>5. \A i, k \in DOMAIN v : i < k => NoneShared(v[i], v[k])
  <2> SUFFICES ASSUME NEW i \in DOMAIN v, NEW k \in DOMAIN v, i < k
               PROVE  NoneShared(v[i], v[k])
    OBVIOUS
  <2>1. i + 1 < k + 1
    BY <1>1
  <2> QED
    BY <1>1, <2>1 DEF Asked
<1>6. \A i, k \in DOMAIN q : i < k => NoneShared(q[i], q[k])
  <2> SUFFICES ASSUME NEW i \in DOMAIN q, NEW k \in DOMAIN q, i < k
               PROVE  NoneShared(q[i], q[k])
    OBVIOUS
  <2>1. i \in DOMAIN r /\ q[i] = r[i]
    BY <1>2
  <2>2. CASE k \in DOMAIN r /\ q[k] = r[k]
    BY <2>1, <2>2 DEF Asked
  <2>3. CASE q[k] = a
    <3>1. NoneShared(h, r[i])
      BY <2>1 DEF Asked
    <3> QED
      BY <1>1, <2>1, <2>3, <3>1 DEF NoneShared
  <2> QED
    BY <1>2, <2>2, <2>3
<1>7. \A i \in DOMAIN v, k \in DOMAIN q : NoneShared(v[i], q[k])
  <2> SUFFICES ASSUME NEW i \in DOMAIN v, NEW k \in DOMAIN q
               PROVE  NoneShared(v[i], q[k])
    OBVIOUS
  <2>1. CASE k \in DOMAIN r /\ q[k] = r[k]
    BY <1>1, <2>1 DEF Asked
  <2>2. CASE q[k] = a
    <3>1. NoneShared(h, v[i])
      BY <1>1 DEF Asked
    <3> QED
      BY <1>1, <2>2, <3>1 DEF NoneShared
  <2> QED
    BY <1>2, <2>1, <2>2
<1>8. \A j : Waits(v, q, j) => Waits(w, r, j)
  BY <1>1, <1>2 DEF Waits
<1> QED
  BY <1>3, <1>4, <1>5, <1>6, <1>7, <1>8 DEF Asked, v, q

\* The first answer is handled: nothing waits for it any longer.
LEMMA AskedHandled ==
  ASSUME NEW l, NEW w \in Seq(Commands), NEW r \in Seq(Answers), NEW had,
         Asked(l, w, r, had), r # <<>>
  PROVE  /\ Asked(l, w, Tail(r), had)
         /\ \A j : Waits(w, Tail(r), j) => Waits(w, r, j)
         /\ Head(r).type = "get" =>
              \A j \in Head(r).source :
                j \in had /\ Waits(w, r, j) /\ ~Waits(w, Tail(r), j)
<1> DEFINE q == Tail(r)
           h == r[1]
<1>1. /\ 1 \in DOMAIN r /\ Head(r) = h
      /\ \A k \in DOMAIN q : k \in Nat /\ k + 1 \in DOMAIN r /\ q[k] = r[k + 1] /\ 1 < k + 1
  BY Answered
<1> HIDE DEF q
<1>2. \A i, k \in DOMAIN q : i < k => NoneShared(q[i], q[k])
  <2> SUFFICES ASSUME NEW i \in DOMAIN q, NEW k \in DOMAIN q, i < k
               PROVE  NoneShared(q[i], q[k])
    OBVIOUS
  <2>1. i + 1 < k + 1
    BY <1>1
  <2> QED
    BY <1>1, <2>1 DEF Asked
<1>3. Asked(l, w, q, had)
  BY <1>1, <1>2 DEF Asked
<1>4. \A j : Waits(w, q, j) => Waits(w, r, j)
  BY <1>1 DEF Waits
<1>5. ASSUME h.type = "get", NEW j \in h.source
      PROVE  j \in had /\ Waits(w, r, j) /\ ~Waits(w, q, j)
  <2>1. \A k \in DOMAIN q : NoneShared(h, q[k])
    BY <1>1 DEF Asked
  <2>2. \A k \in DOMAIN w : NoneShared(w[k], h)
    BY <1>1 DEF Asked
  <2>3. ~Waits(w, q, j)
    BY <1>5, <2>1, <2>2 DEF Waits, NoneShared
  <2> QED
    BY <1>1, <1>5, <2>3 DEF Asked, Waits
<1> QED
  BY <1>1, <1>3, <1>4, <1>5 DEF q

\* The jobs of the snapshots that s has taken as an owner.
Had(s) == {j \in Jobs : <<s, j>> \in log.taken}

AskedInv == \A s \in Servers : Asked(listener[s], wire[s], replies[s], Had(s))

\* The servers that have taken j as an owner, and wait for no hour for it.
Rolled(j) == {s \in Servers : <<s, j>> \in log.taken /\ ~Waits(wire[s], replies[s], j)}
Tally == [j \in Jobs |-> Cardinality(Rolled(j))]

\* The hour h, if it is one, counts nothing more often than c.
Below(h, c) == h # NoHour => \A j \in Jobs : h[j] <= c[j]

\* Whatever is known of the hour, in Redis, in an answer, in a buffer or in a
\* transaction, counts a job at most as often as it was rolled up.
HoursInv ==
  /\ Below(redis.hour, Tally)
  /\ \A s \in Servers :
       /\ Below(cache[s].buffer.hour, Tally)
       /\ \A k \in DOMAIN wire[s] : wire[s][k].type = "exec" =>
            Below(wire[s][k].buffer.hour, Tally)
       /\ \A k \in DOMAIN replies[s] : replies[s][k].type = "get" =>
            Below(replies[s][k].base, Tally)

\* What a step of s does to its reads: what it had stays, new jobs wait, and a job waits
\* only where it was waiting.
WaitsLess(s) ==
  /\ Asked(listener'[s], wire'[s], replies'[s], Had(s)')
  /\ \A j \in Jobs :
       <<s, j>> \in log.taken =>
         /\ <<s, j>> \in log'.taken
         /\ Waits(wire'[s], replies'[s], j) => Waits(wire[s], replies[s], j)

\* At the start nothing is asked for, and nothing known of the hour.
LEMMA AskedInit == Init => AskedInv /\ HoursInv
<1> SUFFICES ASSUME Init PROVE AskedInv /\ HoursInv
  OBVIOUS
<1>1. ASSUME NEW s \in Servers
      PROVE  /\ Had(s) = {} /\ wire[s] = <<>> /\ replies[s] = <<>>
             /\ cache[s].buffer.hour = NoHour
  BY EmptyType DEF Init, Had
<1>2. AskedInv
  BY <1>1 DEF AskedInv, Asked
<1>3. Below(redis.hour, Tally)
  <2>1. redis.hour = None /\ \A j \in Jobs : Rolled(j) = {}
    BY DEF Init, Rolled
  <2> QED
    BY <2>1, FS_EmptySet DEF Below, Tally, None
<1> QED
  BY <1>1, <1>2, <1>3 DEF HoursInv, Below

\* Every step keeps the reads of a server apart.
LEMMA WaitsStep ==
  ASSUME TypeOK, TypeOK', CollectedInv, AskedInv, [Next]_vars, NEW t \in Servers
  PROVE  WaitsLess(t)
<1>0. /\ Asked(listener[t], wire[t], replies[t], Had(t))
      /\ listener[t] \in Listeners /\ listener'[t] \in Listeners
      /\ wire[t] \in Seq(Commands) /\ replies[t] \in Seq(Answers)
      /\ Had(t) \in SUBSET Jobs
  <2>1. listener' \in [Servers -> Listeners]
    BY DEF TypeOK, Listeners
  <2> QED
    BY <2>1, Types DEF AskedInv, Had
<1>1. ASSUME listener'[t] = listener[t], wire'[t] = wire[t], replies'[t] = replies[t],
             Had(t)' = Had(t)
      PROVE  WaitsLess(t)
  BY <1>0, <1>1 DEF WaitsLess, Had
<1>2. ASSUME NEW s \in Servers, UpdateStats(s) PROVE WaitsLess(t)
  <2>0. /\ UNCHANGED replies
        /\ listener'[s].seen = listener[s].seen + 1
        /\ \A j \in listener'[s].stats : j \in listener[s].stats \/ j = listener'[s].seen
        /\ \A u \in Servers \ {s} : listener'[u] = listener[u]
    <3>1. \/ listener'[s].stats = {listener[s].seen + 1}
          \/ listener'[s].stats = listener[s].stats \cup {listener[s].seen + 1}
      BY <1>2, UpdateStatsTypes
    <3>2. /\ listener'[s].seen = listener[s].seen + 1
          /\ \A u \in Servers \ {s} : listener'[u] = listener[u]
      BY <1>2, UpdateStatsTypes
    <3>3. UNCHANGED replies
      BY <1>2 DEF UpdateStats
    <3> QED
      BY <3>1, <3>2, <3>3
  <2>1. ASSUME UNCHANGED <<wire, log>> PROVE WaitsLess(t)
    <3>1. CASE t = s
      <4>1. Asked(listener'[t], wire[t], replies[t], Had(t))
        BY <1>0, <2>0, <3>1, AskedHeard
      <4> QED
        BY <2>0, <2>1, <4>1 DEF WaitsLess, Had
    <3> QED
      BY <1>1, <2>0, <2>1, <3>1 DEF Had
  <2>2. CASE NeedsFlush(listener[s], finished[listener[s].seen + 1])
    <3>1. /\ listener[s].nextFlush \in 0..MaxMinute
          /\ listener[s].stats \in SUBSET Jobs
          /\ WriteStats(s, listener[s].stats, listener[s].nextFlush)
          /\ listener'[s].stats = {listener'[s].seen}
      BY <1>2, <2>2, UpdateStatsTypes, ListenerType, Types DEF UpdateStats
    <3>2. CASE isOwner[s] /\ listener[s].stats # {}
      <4> DEFINE S == listener[s].stats
                 g == [type |-> "get", source |-> S]
      <4>1. /\ wire'[s] = Append(wire[s], g) /\ g \in Gets
            /\ \A u \in Servers \ {s} : wire'[u] = wire[u]
            /\ log' = [log EXCEPT !.taken = @ \cup ({s} \X S), !.overlapped = @ \/ Busy]
        BY <3>1, <3>2, WriteStatsEffect
      <4>2. log'.taken = log.taken \cup ({s} \X S)
        BY <4>1, Types, Zenon DEF Logs
      <4>3. CASE t = s
        <5>1. \A j \in S : j <= listener[s].seen
          BY DEF CollectedInv, Collected
        <5>2. g.source = S
          OBVIOUS
        <5> DEFINE v == Append(wire[t], g)
        <5>3. /\ Asked(listener'[t], v, replies[t], Had(t) \cup S)
              /\ \A j \in Had(t) : Waits(v, replies[t], j) => Waits(wire[t], replies[t], j)
          <6>1. /\ listener'[t].seen = listener[t].seen + 1
                /\ listener'[t].stats = {listener'[t].seen}
                /\ S = listener[t].stats
            BY <2>0, <3>1, <4>3
          <6> HIDE DEF g, S
          <6>2. \A j \in listener[t].stats : j <= listener[t].seen
            BY <4>3, <5>1, <6>1
          <6> QED
            BY <1>0, <4>1, <5>2, <6>1, <6>2, AskedMore
        <5> HIDE DEF v, g
        <5>4. Had(t)' = Had(t) \cup S /\ log.taken \subseteq log'.taken
          BY <3>1, <4>2, <4>3 DEF Had
        <5>5. wire'[t] = v /\ replies'[t] = replies[t]
          BY <2>0, <4>1, <4>3 DEF v
        <5> QED
          BY <5>3, <5>4, <5>5 DEF WaitsLess, Had
      <4>4. CASE t # s
        <5> HIDE DEF S, g
        <5>1. \A j : <<t, j>> \in log'.taken <=> <<t, j>> \in log.taken
          BY <4>2, <4>4
        <5>2. Had(t)' = Had(t)
          BY <5>1 DEF Had
        <5> QED
          BY <1>1, <2>0, <4>1, <4>4, <5>2
      <4> QED
        BY <4>3, <4>4
    <3>3. CASE ~(isOwner[s] /\ listener[s].stats # {})
      BY <2>1, <3>1, <3>3, WriteStatsEffect
    <3> QED
      BY <3>2, <3>3
  <2>3. CASE ~NeedsFlush(listener[s], finished[listener[s].seen + 1])
    <3>1. UNCHANGED <<wire, log>>
      BY <1>2, <2>3 DEF UpdateStats
    <3> QED
      BY <2>1, <3>1
  <2> QED
    BY <2>2, <2>3
<1>3. ASSUME NEW s \in Servers, Flush(s) PROVE WaitsLess(t)
  <2> DEFINE x == [type |-> "exec", buffer |-> cache[s].buffer]
             v == Append(wire[t], x)
  <2>1. /\ UNCHANGED <<listener, replies, log>>
        /\ x \in Execs /\ wire'[s] = Append(wire[s], x)
        /\ \A u \in Servers \ {s} : wire'[u] = wire[u]
    BY <1>3, FlushEffect
  <2>2. Had(t)' = Had(t)
    BY <2>1 DEF Had
  <2>3. CASE t = s
    <3>1. /\ Asked(listener[t], v, replies[t], Had(t))
          /\ \A j : Waits(v, replies[t], j) => Waits(wire[t], replies[t], j)
      BY <1>0, <2>1, AskedSent
    <3>2. wire'[t] = v
      BY <2>1, <2>3
    <3> HIDE DEF v
    <3> QED
      BY <2>1, <2>2, <3>1, <3>2 DEF WaitsLess
  <2> QED
    BY <1>1, <2>1, <2>2, <2>3
<1>4. ASSUME NEW s \in Servers, NEW a \in Answers, wire[s] # <<>>,
             listener' = listener, log'.taken = log.taken,
             wire'[s] = Tail(wire[s]), replies'[s] = Append(replies[s], a),
             \A u \in Servers \ {s} : wire'[u] = wire[u] /\ replies'[u] = replies[u],
             a.type = "get" => Head(wire[s]).type = "get" /\ Head(wire[s]).source = a.source
      PROVE  WaitsLess(t)
  <2>1. Had(t)' = Had(t)
    BY <1>4 DEF Had
  <2>2. CASE t = s
    <3> DEFINE v == Tail(wire[t])
               q == Append(replies[t], a)
    <3>1. /\ Asked(listener[t], v, q, Had(t))
          /\ \A j : Waits(v, q, j) => Waits(wire[t], replies[t], j)
      BY <1>0, <1>4, <2>2, AskedAnswered
    <3>2. wire'[t] = v /\ replies'[t] = q
      BY <1>4, <2>2
    <3> HIDE DEF v, q
    <3> QED
      BY <1>4, <2>1, <3>1, <3>2 DEF WaitsLess
  <2> QED
    BY <1>1, <1>4, <2>1, <2>2
<1>5. ASSUME NEW s \in Servers, Execute(s) PROVE WaitsLess(t)
  <2> DEFINE c == Head(wire[s])
  <2>1. CASE c \in Gets
    <3> DEFINE a == [type |-> "get", source |-> c.source, base |-> redis.hour]
    <3>1. a \in Answers /\ (a.type = "get" => c.type = "get" /\ c.source = a.source)
      BY <2>1, Types DEF Gets, Answers, GetReplies
    <3>2. replies'[s] = Append(replies[s], a) /\ UNCHANGED log
      BY <1>5, <2>1, ExecuteEffect DEF Gets, Execs
    <3> HIDE DEF a
    <3> QED
      BY <1>4, <1>5, <3>1, <3>2, ExecuteEffect
  <2>2. CASE c \in Execs
    <3> DEFINE a == [type |-> "exec", failed |-> FALSE]
    <3>1. a \in Answers /\ a.type # "get"
      BY DEF Answers, ExecReplies
    <3>2. replies'[s] = Append(replies[s], a) /\ log'.taken = log.taken
      BY <1>5, <2>2, ExecuteEffect DEF Gets, Execs
    <3> HIDE DEF a
    <3> QED
      BY <1>4, <1>5, <3>1, <3>2, ExecuteEffect
  <2> QED
    BY <1>5, <2>1, <2>2, ExecuteEffect
<1>6. ASSUME NEW s \in Servers, Fail(s) PROVE WaitsLess(t)
  <2> DEFINE c == Head(wire[s])
             ga == [type |-> "get", source |-> c.source, base |-> NoHour]
             xa == [type |-> "exec", failed |-> TRUE]
  <2>1. CASE c \in Gets /\ replies'[s] = Append(replies[s], ga)
    <3>1. ga \in Answers /\ (ga.type = "get" => c.type = "get" /\ c.source = ga.source)
      BY <2>1 DEF Gets, Answers, GetReplies
    <3> HIDE DEF ga
    <3> QED
      BY <1>4, <1>6, <2>1, <3>1, FailEffect
  <2>2. CASE c \in Execs /\ replies'[s] = Append(replies[s], xa)
    <3>1. xa \in Answers /\ xa.type # "get"
      BY DEF Answers, ExecReplies
    <3> HIDE DEF xa
    <3> QED
      BY <1>4, <1>6, <2>2, <3>1, FailEffect
  <2> QED
    BY <1>6, <2>1, <2>2, FailEffect
<1>7. ASSUME NEW s \in Servers, replies[s] # <<>>, UNCHANGED <<listener, wire, log>>,
             replies'[s] = Tail(replies[s]),
             \A u \in Servers \ {s} : replies'[u] = replies[u]
      PROVE  WaitsLess(t)
  <2>1. Had(t)' = Had(t)
    BY <1>7 DEF Had
  <2>2. CASE t = s
    <3> DEFINE q == Tail(replies[t])
    <3>1. /\ Asked(listener[t], wire[t], q, Had(t))
          /\ \A j : Waits(wire[t], q, j) => Waits(wire[t], replies[t], j)
      BY <1>0, <1>7, <2>2, AskedHandled
    <3>2. replies'[t] = q
      BY <1>7, <2>2
    <3> HIDE DEF q
    <3> QED
      BY <1>7, <2>1, <3>1, <3>2 DEF WaitsLess
  <2> QED
    BY <1>1, <1>7, <2>1, <2>2
<1>8. ASSUME NEW s \in Servers, Rollup(s) PROVE WaitsLess(t)
  BY <1>7, <1>8, RollupEffect
<1>9. ASSUME NEW s \in Servers, Flushed(s) PROVE WaitsLess(t)
  BY <1>7, <1>9, FlushedEffect
<1>10. ASSUME NEW s \in Servers, Discard(s) PROVE WaitsLess(t)
  <2>1. Had(t)' = Had(t)
    BY <1>10 DEF Discard, Had
  <2> QED
    BY <1>1, <1>10, <2>1 DEF Discard
<1>11. ASSUME NEW s \in Servers, Acquire(s) \/ Lose(s) PROVE WaitsLess(t)
  <2>1. log \in Logs
    BY Types
  <2>2. log'.taken = log.taken
    BY <1>11, <2>1 DEF Acquire, Lose, Logs
  <2>3. Had(t)' = Had(t)
    BY <2>2 DEF Had
  <2> QED
    BY <1>1, <1>11, <2>3 DEF Acquire, Lose
<1>12. ASSUME NEW s \in Servers, Crash(s) PROVE WaitsLess(t)
  <2>1. log'.taken = log.taken /\ finished' = finished
    BY <1>12, CrashEffect
  <2>2. Had(t)' = Had(t)
    BY <2>1 DEF Had
  <2>3. CASE t = s
    <3> DEFINE l == Listening(Len(finished), Now)
    <3>1. listener'[t] = l /\ wire'[t] = <<>> /\ replies'[t] = <<>>
      BY <1>12, <2>3, CrashEffect
    <3>2. l.seen = Len(finished) /\ l.stats = {}
      BY DEF Listening
    <3>3. \A j \in Had(t) : j <= Len(finished)
      <4>1. finished \in Seq(Minutes)
        BY Types
      <4>2. Len(finished) \in Nat
        BY <4>1
      <4>3. listener[t].seen \in Nat /\ \A j \in Had(t) : j \in Nat
        BY <1>0, ListenerType, JobsFinite
      <4>4. listener[t].seen <= Len(finished) /\ \A j \in Had(t) : j <= listener[t].seen
        BY <1>0 DEF CollectedInv, Asked
      <4> QED
        BY <4>2, <4>3, <4>4
    <3>4. Asked(l, <<>>, <<>>, Had(t))
      BY <3>2, <3>3 DEF Asked
    <3>5. \A j : ~Waits(<<>>, <<>>, j)
      BY DEF Waits
    <3> QED
      BY <2>1, <2>2, <3>1, <3>4, <3>5 DEF WaitsLess
  <2> QED
    BY <1>1, <1>12, <2>2, <2>3, CrashEffect
<1>13. CASE UNCHANGED vars \/ \E m \in Minutes : Finish(m)
  <2>1. UNCHANGED <<listener, wire, replies, log>>
    BY <1>13 DEF vars, Finish
  <2>2. Had(t)' = Had(t)
    BY <2>1 DEF Had
  <2> QED
    BY <1>1, <2>1, <2>2
<1> QED
  BY <1>2, <1>3, <1>5, <1>6, <1>8, <1>9, <1>10, <1>11, <1>12, <1>13 DEF Next, Step

\* What has been rolled up stays so.
LEMMA TallyGrows ==
  ASSUME \A t \in Servers : WaitsLess(t)
  PROVE  \A j \in Jobs : /\ Tally[j] \in Nat /\ Tally'[j] \in Nat /\ Tally[j] <= Tally'[j]
                         /\ Rolled(j) \subseteq Rolled(j)'
<1> SUFFICES ASSUME NEW j \in Jobs
             PROVE  /\ Tally[j] \in Nat /\ Tally'[j] \in Nat /\ Tally[j] <= Tally'[j]
                    /\ Rolled(j) \subseteq Rolled(j)'
  OBVIOUS
<1>1. Rolled(j) \subseteq Rolled(j)'
  BY DEF Rolled, WaitsLess
<1>2. Rolled(j) \in SUBSET Servers /\ Rolled(j)' \in SUBSET Servers
  BY DEF Rolled
<1>3. IsFiniteSet(Rolled(j)) /\ IsFiniteSet(Rolled(j)')
  BY <1>2, FS_Subset, StatsAssumption
<1>4. Cardinality(Rolled(j)) \in Nat /\ Cardinality(Rolled(j)') \in Nat
  BY <1>3, FS_CardinalityType
<1>5. Cardinality(Rolled(j)) <= Cardinality(Rolled(j)')
  BY <1>1, <1>3, FS_Subset
<1>6. Tally[j] = Cardinality(Rolled(j)) /\ Tally'[j] = Cardinality(Rolled(j)')
  BY DEF Tally
<1> QED
  BY <1>1, <1>4, <1>5, <1>6

\* An hour that was below the tally stays so.
LEMMA StaysBelow ==
  ASSUME \A t \in Servers : WaitsLess(t), NEW h \in Hours \cup {NoHour}, Below(h, Tally)
  PROVE  Below(h, Tally')
<1> SUFFICES ASSUME h # NoHour, NEW j \in Jobs PROVE h[j] <= Tally'[j]
  BY DEF Below
<1>1. h[j] \in Nat /\ h[j] <= Tally[j]
  BY DEF Below, Hours
<1> QED
  BY <1>1, TallyGrows

\* The answer of the hour is handled: its jobs are rolled up, once more.
LEMMA RolledUpBelow ==
  ASSUME TypeOK, AskedInv, NEW s \in Servers, Rollup(s), \A t \in Servers : WaitsLess(t),
         Head(replies[s]).base # NoHour, Below(Head(replies[s]).base, Tally)
  PROVE  Below(RolledUp(Head(replies[s]).source, Head(replies[s]).base), Tally')
<1> DEFINE S == Head(replies[s]).source
           B == Head(replies[s]).base
<1>1. /\ Head(replies[s]) \in GetReplies /\ replies[s] # <<>>
      /\ replies'[s] = Tail(replies[s]) /\ wire' = wire /\ log' = log
  BY RollupEffect
<1>2. S \in SUBSET Jobs /\ B \in Hours /\ Head(replies[s]).type = "get"
  BY <1>1 DEF GetReplies
<1>3. \A j \in S : j \in Had(s) /\ Waits(wire[s], replies[s], j)
                   /\ ~Waits(wire[s], Tail(replies[s]), j)
  <2>1. wire[s] \in Seq(Commands) /\ replies[s] \in Seq(Answers)
    BY Types
  <2>2. Asked(listener[s], wire[s], replies[s], Had(s))
    BY DEF AskedInv
  <2> QED
    BY <1>1, <1>2, <2>1, <2>2, AskedHandled
<1> HIDE DEF S, B
<1>4. ASSUME NEW j \in S PROVE Tally[j] + 1 <= Tally'[j]
  <2>1. j \in Jobs
    BY <1>2
  <2>2. s \notin Rolled(j)
    BY <1>3 DEF Rolled
  <2>3. s \in Rolled(j)'
    BY <1>1, <1>3 DEF Rolled, Had
  <2>4. Rolled(j) \cup {s} \subseteq Rolled(j)'
    BY <2>1, <2>3, TallyGrows
  <2>5. Rolled(j) \in SUBSET Servers /\ Rolled(j)' \in SUBSET Servers
    BY DEF Rolled
  <2>6. IsFiniteSet(Rolled(j)) /\ IsFiniteSet(Rolled(j)')
    BY <2>5, FS_Subset, StatsAssumption
  <2>7. Cardinality(Rolled(j) \cup {s}) = Cardinality(Rolled(j)) + 1
    BY <2>2, <2>6, FS_AddElement
  <2>8. Cardinality(Rolled(j) \cup {s}) <= Cardinality(Rolled(j)')
    BY <2>4, <2>6, FS_Subset
  <2>9. Tally[j] = Cardinality(Rolled(j)) /\ Tally'[j] = Cardinality(Rolled(j)')
    BY <2>1 DEF Tally
  <2> QED
    BY <2>7, <2>8, <2>9
<1>5. ASSUME NEW j \in Jobs PROVE RolledUp(S, B)[j] <= Tally'[j]
  <2>1. B[j] \in Nat /\ B[j] <= Tally[j]
    BY <1>2 DEF Below, Hours, B
  <2>2. Tally[j] \in Nat /\ Tally'[j] \in Nat /\ Tally[j] <= Tally'[j]
    BY TallyGrows
  <2>3. RolledUp(S, B)[j] = B[j] + (IF j \in S THEN 1 ELSE 0)
    BY <1>2, RolledUpType
  <2> QED
    BY <1>4, <2>1, <2>2, <2>3
<1> QED
  BY <1>5 DEF Below, S, B

\* Every step leaves all that is known of the hour below the tally.
LEMMA HoursStep ==
  ASSUME TypeOK, TypeOK', CollectedInv, AskedInv, HoursInv, [Next]_vars
  PROVE  AskedInv' /\ HoursInv'
<1>0. \A t \in Servers : WaitsLess(t)
  BY WaitsStep
<1>1. AskedInv'
  BY <1>0 DEF AskedInv, WaitsLess
<1> DEFINE Known(t) ==
             /\ Below(cache'[t].buffer.hour, Tally')
             /\ \A k \in DOMAIN wire'[t] : wire'[t][k].type = "exec" =>
                  Below(wire'[t][k].buffer.hour, Tally')
             /\ \A k \in DOMAIN replies'[t] : replies'[t][k].type = "get" =>
                  Below(replies'[t][k].base, Tally')
<1> SUFFICES Below(redis'.hour, Tally') /\ \A t \in Servers : Known(t)
  BY <1>1 DEF HoursInv
<1>2. \A h \in Hours \cup {NoHour} : Below(h, Tally) => Below(h, Tally')
  BY <1>0, StaysBelow
<1>3. Below(redis.hour, Tally')
  BY <1>2, Types DEF HoursInv
<1>4. ASSUME NEW t \in Servers
      PROVE  /\ Below(cache[t].buffer.hour, Tally')
             /\ \A k \in DOMAIN wire[t] : wire[t][k].type = "exec" =>
                  Below(wire[t][k].buffer.hour, Tally')
             /\ \A k \in DOMAIN replies[t] : replies[t][k].type = "get" =>
                  Below(replies[t][k].base, Tally')
             /\ wire[t] \in Seq(Commands) /\ replies[t] \in Seq(Answers)
  <2>1. cache[t].buffer \in Buffer /\ wire[t] \in Seq(Commands) /\ replies[t] \in Seq(Answers)
    BY Types DEF Caches
  <2>2. cache[t].buffer.hour \in Hours \cup {NoHour}
    BY <2>1 DEF Buffer
  <2>3. ASSUME NEW k \in DOMAIN wire[t], wire[t][k].type = "exec"
        PROVE  Below(wire[t][k].buffer.hour, Tally')
    <3>1. wire[t][k].buffer \in Buffer
      BY <2>1, <2>3, ExecType
    <3>2. wire[t][k].buffer.hour \in Hours \cup {NoHour}
      BY <3>1 DEF Buffer
    <3> QED
      BY <1>2, <2>3, <3>2 DEF HoursInv
  <2>4. ASSUME NEW k \in DOMAIN replies[t], replies[t][k].type = "get"
        PROVE  Below(replies[t][k].base, Tally')
    <3>1. replies[t][k] \in Answers
      BY <2>1
    <3>2. replies[t][k].base \in Hours \cup {NoHour}
      BY <2>4, <3>1 DEF Answers, GetReplies, ExecReplies
    <3> QED
      BY <1>2, <2>4, <3>2 DEF HoursInv
  <2> QED
    BY <1>2, <2>1, <2>2, <2>3, <2>4 DEF HoursInv
<1>5. ASSUME NEW t \in Servers, cache'[t].buffer.hour = cache[t].buffer.hour,
             wire'[t] = wire[t], replies'[t] = replies[t]
      PROVE  Known(t)
  BY <1>4, <1>5
<1>6. ASSUME NEW s \in Servers, UpdateStats(s)
      PROVE  Below(redis'.hour, Tally') /\ \A t \in Servers : Known(t)
  <2>1. UNCHANGED <<redis, replies>>
    BY <1>6 DEF UpdateStats
  <2>2. ASSUME UNCHANGED <<cache, wire>>
        PROVE  Below(redis'.hour, Tally') /\ \A t \in Servers : Known(t)
    BY <1>3, <1>5, <2>1, <2>2
  <2>3. CASE NeedsFlush(listener[s], finished[listener[s].seen + 1])
    <3>1. /\ listener[s].nextFlush \in 0..MaxMinute
          /\ listener[s].stats \in SUBSET Jobs
          /\ WriteStats(s, listener[s].stats, listener[s].nextFlush)
      BY <1>6, <2>3, UpdateStatsTypes, ListenerType, Types DEF UpdateStats
    <3>2. CASE isOwner[s] /\ listener[s].stats # {}
      <4> DEFINE g == [type |-> "get", source |-> listener[s].stats]
      <4>1. /\ cache'[s].buffer = Buffered(cache[s].buffer, listener[s].stats, listener[s].nextFlush)
            /\ wire'[s] = Append(wire[s], g) /\ g \in Gets
            /\ \A u \in Servers \ {s} : cache'[u] = cache[u] /\ wire'[u] = wire[u]
        BY <3>1, <3>2, WriteStatsEffect
      <4>2. cache'[s].buffer.hour = cache[s].buffer.hour
        BY <4>1 DEF Buffered
      <4>3. g \in Commands /\ g.type # "exec"
        BY <4>1 DEF Gets, Commands
      <4> HIDE DEF g
      <4>4. \A k \in DOMAIN wire'[s] : wire'[s][k].type = "exec" =>
              k \in DOMAIN wire[s] /\ wire'[s][k] = wire[s][k]
        BY <1>4, <4>1, <4>3, Appended
      <4>5. Known(s)
        BY <1>4, <2>1, <4>2, <4>4
      <4>6. ASSUME NEW t \in Servers, t # s PROVE Known(t)
        BY <1>5, <2>1, <4>1, <4>6
      <4> QED
        BY <1>3, <2>1, <4>5, <4>6
    <3>3. CASE ~(isOwner[s] /\ listener[s].stats # {})
      BY <2>2, <3>1, <3>3, WriteStatsEffect
    <3> QED
      BY <3>2, <3>3
  <2>4. CASE ~NeedsFlush(listener[s], finished[listener[s].seen + 1])
    <3>1. UNCHANGED <<cache, wire, log>>
      BY <1>6, <2>4 DEF UpdateStats
    <3> QED
      BY <2>2, <3>1
  <2> QED
    BY <2>3, <2>4
<1>7. ASSUME NEW s \in Servers, replies[s] # <<>>, replies'[s] = Tail(replies[s])
      PROVE  \A k \in DOMAIN replies'[s] : replies'[s][k].type = "get" =>
               Below(replies'[s][k].base, Tally')
  BY <1>4, <1>7, Answered
<1>8. ASSUME NEW s \in Servers, Rollup(s)
      PROVE  Below(redis'.hour, Tally') /\ \A t \in Servers : Known(t)
  <2>1. /\ UNCHANGED <<wire, redis>> /\ replies[s] # <<>> /\ replies'[s] = Tail(replies[s])
        /\ \A t \in Servers \ {s} : cache'[t] = cache[t] /\ replies'[t] = replies[t]
    BY <1>8, RollupEffect
  <2>2. Below(cache'[s].buffer.hour, Tally')
    <3> DEFINE r == Head(replies[s])
    <3>1. CASE cache' = cache
      BY <1>4, <3>1
    <3>2. CASE r.base # NoHour /\ cache'[s].buffer.hour = RolledUp(r.source, r.base)
      <4>1. r = replies[s][1] /\ 1 \in DOMAIN replies[s] /\ r.type = "get"
        BY <1>4, <1>8, <2>1, Answered, RollupEffect DEF GetReplies
      <4>2. Below(r.base, Tally)
        BY <4>1 DEF HoursInv
      <4> QED
        BY <1>0, <1>8, <3>2, <4>2, RolledUpBelow
    <3> QED
      BY <1>8, <3>1, <3>2, RollupEffect
  <2>3. Known(s)
    BY <1>4, <1>7, <2>1, <2>2
  <2>4. ASSUME NEW t \in Servers, t # s PROVE Known(t)
    BY <1>5, <2>1, <2>4
  <2> QED
    BY ZenonT(60), <1>3, <2>1, <2>3, <2>4
<1>9. ASSUME NEW s \in Servers, Flush(s)
      PROVE  Below(redis'.hour, Tally') /\ \A t \in Servers : Known(t)
  <2> DEFINE x == [type |-> "exec", buffer |-> cache[s].buffer]
  <2>1. /\ UNCHANGED <<redis, replies>>
        /\ x \in Commands /\ x.buffer = cache[s].buffer
        /\ cache'[s].buffer = Empty /\ wire'[s] = Append(wire[s], x)
        /\ \A t \in Servers \ {s} : cache'[t] = cache[t] /\ wire'[t] = wire[t]
    BY <1>9, FlushEffect DEF Commands
  <2> HIDE DEF x
  <2>2. \A k \in DOMAIN wire'[s] :
          wire'[s][k] = x \/ (k \in DOMAIN wire[s] /\ wire'[s][k] = wire[s][k])
    BY <1>4, <2>1, Appended
  <2>3. Below(Empty.hour, Tally')
    BY EmptyType DEF Below
  <2>4. Known(s)
    BY <1>4, <2>1, <2>2, <2>3
  <2>5. ASSUME NEW t \in Servers, t # s PROVE Known(t)
    BY <1>5, <2>1, <2>5
  <2> QED
    BY <1>3, <2>1, <2>4, <2>5
<1>10. ASSUME NEW s \in Servers, Discard(s)
      PROVE  Below(redis'.hour, Tally') /\ \A t \in Servers : Known(t)
  <2>1. Below(Empty.hour, Tally')
    BY EmptyType DEF Below
  <2>2. Known(s)
    BY <1>4, <1>10, <2>1, DiscardEffect
  <2> QED
    BY <1>3, <1>5, <1>10, <2>2, DiscardEffect
<1>11. ASSUME NEW s \in Servers, Flushed(s)
      PROVE  Below(redis'.hour, Tally') /\ \A t \in Servers : Known(t)
  <2>1. Known(s)
    BY <1>4, <1>7, <1>11, FlushedEffect
  <2> QED
    BY <1>3, <1>5, <1>11, <2>1, FlushedEffect
<1>12. ASSUME NEW s \in Servers, NEW a \in Answers, UNCHANGED cache, wire[s] # <<>>,
             wire'[s] = Tail(wire[s]), replies'[s] = Append(replies[s], a),
             \A u \in Servers \ {s} : wire'[u] = wire[u] /\ replies'[u] = replies[u],
             a.type = "get" => Below(a.base, Tally')
      PROVE  \A t \in Servers : Known(t)
  <2>1. \A k \in DOMAIN wire'[s] : k + 1 \in DOMAIN wire[s] /\ wire'[s][k] = wire[s][k + 1]
    BY <1>4, <1>12, Taken
  <2>2. \A k \in DOMAIN replies'[s] :
          replies'[s][k] = a \/ (k \in DOMAIN replies[s] /\ replies'[s][k] = replies[s][k])
    BY <1>4, <1>12, Answered
  <2>3. Known(s)
    BY <1>4, <1>12, <2>1, <2>2
  <2> QED
    BY <1>5, <1>12, <2>3
<1>13. ASSUME NEW s \in Servers, Execute(s)
      PROVE  Below(redis'.hour, Tally') /\ \A t \in Servers : Known(t)
  <2> DEFINE c == Head(wire[s])
  <2>1. CASE c \in Gets
    <3> DEFINE a == [type |-> "get", source |-> c.source, base |-> redis.hour]
    <3>1. a \in Answers /\ a.base = redis.hour
      BY <2>1, Types DEF Gets, Answers, GetReplies
    <3>2. replies'[s] = Append(replies[s], a) /\ UNCHANGED redis
      BY <1>13, <2>1, ExecuteEffect DEF Gets, Execs
    <3> HIDE DEF a
    <3> QED
      BY <1>3, <1>12, <1>13, <3>1, <3>2, ExecuteEffect
  <2>2. CASE c \in Execs
    <3> DEFINE a == [type |-> "exec", failed |-> FALSE]
    <3>1. a \in Answers /\ a.type # "get"
      BY DEF Answers, ExecReplies
    <3>2. replies'[s] = Append(replies[s], a) /\ redis' = Applied(redis, c.buffer)
      BY <1>13, <2>2, ExecuteEffect DEF Gets, Execs
    <3> HIDE DEF a
    <3>3. redis'.hour = IF c.buffer.hour = NoHour THEN redis.hour ELSE c.buffer.hour
      BY <3>2 DEF Applied
    <3>4. Below(c.buffer.hour, Tally')
      <4>1. wire[s] # <<>>
        BY <1>13, ExecuteEffect
      <4>2. c = wire[s][1] /\ 1 \in DOMAIN wire[s] /\ c.type = "exec"
        BY <1>4, <2>2, <4>1, Taken DEF Execs
      <4> QED
        BY <1>4, <4>2
    <3>5. Below(redis'.hour, Tally')
      BY <1>3, <3>3, <3>4
    <3> HIDE DEF c
    <3> QED
      BY <1>12, <1>13, <3>1, <3>2, <3>5, ExecuteEffect
  <2> QED
    BY <1>13, <2>1, <2>2, ExecuteEffect
<1>14. ASSUME NEW s \in Servers, Fail(s)
      PROVE  Below(redis'.hour, Tally') /\ \A t \in Servers : Known(t)
  <2> DEFINE c == Head(wire[s])
             ga == [type |-> "get", source |-> c.source, base |-> NoHour]
             xa == [type |-> "exec", failed |-> TRUE]
  <2>1. CASE c \in Gets /\ replies'[s] = Append(replies[s], ga)
    <3>1. ga \in Answers /\ Below(ga.base, Tally')
      BY <2>1 DEF Gets, Answers, GetReplies, Below
    <3> HIDE DEF ga
    <3> QED
      BY <1>3, <1>12, <1>14, <2>1, <3>1, FailEffect
  <2>2. CASE c \in Execs /\ replies'[s] = Append(replies[s], xa)
    <3>1. xa \in Answers /\ xa.type # "get"
      BY DEF Answers, ExecReplies
    <3> HIDE DEF xa
    <3> QED
      BY <1>3, <1>12, <1>14, <2>2, <3>1, FailEffect
  <2> QED
    BY <1>14, <2>1, <2>2, FailEffect
<1>15. ASSUME NEW s \in Servers, Crash(s)
      PROVE  Below(redis'.hour, Tally') /\ \A t \in Servers : Known(t)
  <2>1. Below(Empty.hour, Tally')
    BY EmptyType DEF Below
  <2>2. Known(s)
    BY <1>15, <2>1, CrashEffect
  <2> QED
    BY <1>3, <1>5, <1>15, <2>2, CrashEffect
<1>16. ASSUME UNCHANGED <<cache, wire, replies, redis>>
      PROVE  Below(redis'.hour, Tally') /\ \A t \in Servers : Known(t)
  BY <1>3, <1>5, <1>16
<1>17. ASSUME NEW s \in Servers, Acquire(s) \/ Lose(s)
      PROVE  Below(redis'.hour, Tally') /\ \A t \in Servers : Known(t)
  BY <1>16, <1>17 DEF Acquire, Lose
<1>18. CASE UNCHANGED vars \/ \E m \in Minutes : Finish(m)
  BY <1>16, <1>18 DEF vars, Finish
<1> QED
  BY <1>6, <1>8, <1>9, <1>10, <1>11, <1>13, <1>14, <1>15, <1>17, <1>18 DEF Next, Step

-----------------------------------------------------------------------------
(* Roll-ups that do not overlap.                                            *)

\* Something of s is on its way, or will be.
Active(s) ==
  \/ wire[s] # <<>> \/ replies[s] # <<>>
  \/ isOwner[s] /\ IsChanged(cache[s].buffer)

\* The hour that s will send.
HourOf(s) == IF isOwner[s] THEN cache[s].buffer.hour ELSE NoHour

\* A read of the hour, or a write of it.
IsRollup(c) == c.type = "get" \/ (c.type = "exec" /\ c.buffer.hour # NoHour)

\* Among the commands w, the answers r and the buffered hour h of a server is one roll-up
\* at most.
OneRollup(w, r, h) ==
  /\ \A i, k \in DOMAIN w : IsRollup(w[i]) /\ IsRollup(w[k]) => i = k
  /\ \A i, k \in DOMAIN r : r[i].type = "get" /\ r[k].type = "get" => i = k
  /\ \A i \in DOMAIN w, k \in DOMAIN r : IsRollup(w[i]) => r[k].type # "get"
  /\ h # NoHour => \A i \in DOMAIN w : ~IsRollup(w[i])
  /\ h # NoHour => \A k \in DOMAIN r : r[k].type # "get"

\* The hour g has lost nothing of h.
NotBefore(g, h) == \A j \in Jobs : g[j] >= h[j]

\* What a roll-up was read from is the hour in Redis, and what it writes is no less.
UpToDate(w, r, h, hour) ==
  /\ h # NoHour => NotBefore(h, hour)
  /\ \A k \in DOMAIN w : w[k].type = "exec" /\ w[k].buffer.hour # NoHour
       => NotBefore(w[k].buffer.hour, hour)
  /\ \A k \in DOMAIN r : r[k].type = "get" /\ r[k].base # NoHour => r[k].base = hour

\* As long as no roll-up has overlapped another, one server is active, with one roll-up.
RollupInv ==
  ~log.overlapped =>
    /\ \A s, t \in Servers : Active(s) /\ Active(t) => s = t
    /\ \A s \in Servers :
         /\ OneRollup(wire[s], replies[s], HourOf(s))
         /\ UpToDate(wire[s], replies[s], HourOf(s), redis.hour)

\* A server that is not active has no roll-up.
LEMMA Inactive ==
  ASSUME NEW s \in Servers, ~Active(s)
  PROVE  HourOf(s) = NoHour /\ wire[s] = <<>> /\ replies[s] = <<>>
BY EmptyType DEF Active, HourOf, IsChanged

\* Where nothing is on its way there is no roll-up, and a buffered hour may go.
LEMMA NoRollup ==
  /\ \A hour : OneRollup(<<>>, <<>>, NoHour) /\ UpToDate(<<>>, <<>>, NoHour, hour)
  /\ \A w, r, h, hour : OneRollup(w, r, h) /\ UpToDate(w, r, h, hour) =>
       OneRollup(w, r, NoHour) /\ UpToDate(w, r, NoHour, hour)
BY DEF OneRollup, UpToDate

\* The end of a minute of a server that is not active: the read is the one roll-up.
LEMMA RollupStarts ==
  ASSUME NEW g \in Gets, NEW hour
  PROVE  /\ OneRollup(Append(<<>>, g), <<>>, NoHour)
         /\ UpToDate(Append(<<>>, g), <<>>, NoHour, hour)
<1> DEFINE v == Append(<<>>, g)
<1>1. <<>> \in Seq(Commands) /\ g \in Commands /\ g.type = "get"
  BY DEF Gets, Commands
<1>2. \A k \in DOMAIN v : k = 1 /\ v[k] = g
  BY <1>1
<1> HIDE DEF v
<1> QED
  BY <1>1, <1>2 DEF OneRollup, UpToDate, v

\* The buffer goes to the wire, with its hour.
LEMMA RollupSent ==
  ASSUME NEW w \in Seq(Commands), NEW r, NEW b \in Buffer, NEW hour,
         OneRollup(w, r, b.hour), UpToDate(w, r, b.hour, hour),
         NEW x \in Execs, x.buffer = b
  PROVE  /\ OneRollup(Append(w, x), r, NoHour)
         /\ UpToDate(Append(w, x), r, NoHour, hour)
<1> DEFINE v == Append(w, x)
<1>1. x \in Commands /\ x.type = "exec"
  BY DEF Execs, Commands
<1>2. \A k \in DOMAIN v : (k \in DOMAIN w /\ v[k] = w[k]) \/ (k = Len(w) + 1 /\ v[k] = x)
  BY <1>1, Appended
<1> HIDE DEF v
<1>3. IsRollup(x) <=> b.hour # NoHour
  BY <1>1 DEF IsRollup
<1>4. OneRollup(v, r, NoHour)
  BY <1>2, <1>3 DEF OneRollup
<1>5. UpToDate(v, r, NoHour, hour)
  BY <1>1, <1>2 DEF UpToDate
<1> QED
  BY <1>4, <1>5 DEF v

\* A read is answered, or a transaction: then the hour may be another, but no roll-up
\* is left that knows the one before it.
LEMMA RollupAnswered ==
  ASSUME NEW w \in Seq(Commands), NEW r \in Seq(Answers), NEW h, NEW hour, NEW new,
         OneRollup(w, r, h), UpToDate(w, r, h, hour), w # <<>>, NEW a \in Answers,
         a.type = "get" => Head(w).type = "get" /\ new = hour /\ a.base \in {hour, NoHour},
         ~IsRollup(Head(w)) => new = hour
  PROVE  /\ OneRollup(Tail(w), Append(r, a), h)
         /\ UpToDate(Tail(w), Append(r, a), h, new)
<1> DEFINE v == Tail(w)
           q == Append(r, a)
           c == Head(w)
<1>1. /\ 1 \in DOMAIN w /\ c = w[1]
      /\ \A k \in DOMAIN v : k \in Nat /\ k + 1 \in DOMAIN w /\ v[k] = w[k + 1] /\ 1 < k + 1
  BY Taken
<1>2. \A k \in DOMAIN q : (k \in DOMAIN r /\ q[k] = r[k]) \/ (k = Len(r) + 1 /\ q[k] = a)
  BY Answered
<1>3. \A i, k \in DOMAIN v : i + 1 = k + 1 => i = k
  BY <1>1
<1> HIDE DEF v, q, c
<1>4. a.type = "get" => IsRollup(c) /\ new = hour
  BY DEF IsRollup, c
<1>5. CASE ~IsRollup(c)
  <2>1. a.type # "get" /\ new = hour
    BY <1>4, <1>5 DEF c
  <2>2. OneRollup(v, q, h)
    BY <1>1, <1>2, <1>3, <2>1 DEF OneRollup
  <2>3. UpToDate(v, q, h, new)
    BY <1>1, <1>2, <2>1 DEF UpToDate
  <2> QED
    BY <2>2, <2>3 DEF v, q
<1>6. CASE IsRollup(c)
  <2>1. /\ \A k \in DOMAIN v : ~IsRollup(v[k])
        /\ \A k \in DOMAIN r : r[k].type # "get"
        /\ h = NoHour
    <3>1. \A k \in DOMAIN v : ~(k + 1 = 1)
      BY <1>1
    <3> QED
      BY <1>1, <1>6, <3>1 DEF OneRollup
  <2>2. OneRollup(v, q, h)
    BY <1>2, <2>1 DEF OneRollup
  <2>3. UpToDate(v, q, h, new)
    <3>1. a.type = "get" /\ a.base # NoHour => a.base = new
      BY DEF c
    <3> QED
      BY <1>2, <2>1, <3>1 DEF UpToDate, IsRollup
  <2> QED
    BY <2>2, <2>3 DEF v, q
<1> QED
  BY <1>5, <1>6

\* An answer is handled; that of a read leaves the hour h that is buffered then.
LEMMA RollupHandled ==
  ASSUME NEW w, NEW r \in Seq(Answers), NEW h, NEW hour, NEW g,
         OneRollup(w, r, h), UpToDate(w, r, h, hour), r # <<>>,
         g = h \/ (Head(r).type = "get" /\ (g # NoHour => NotBefore(g, hour)))
  PROVE  /\ OneRollup(w, Tail(r), g)
         /\ UpToDate(w, Tail(r), g, hour)
<1> DEFINE q == Tail(r)
<1>1. /\ 1 \in DOMAIN r /\ Head(r) = r[1]
      /\ \A k \in DOMAIN q : k \in Nat /\ k + 1 \in DOMAIN r /\ q[k] = r[k + 1] /\ 1 < k + 1
  BY Answered
<1>2. \A i, k \in DOMAIN q : (i + 1 = k + 1 => i = k) /\ ~(k + 1 = 1)
  BY <1>1
<1> HIDE DEF q
<1>3. CASE Head(r).type = "get"
  <2>1. /\ \A k \in DOMAIN q : q[k].type # "get"
        /\ \A i \in DOMAIN w : ~IsRollup(w[i])
    BY <1>1, <1>2, <1>3 DEF OneRollup
  <2>2. h = NoHour
    BY <1>1, <1>3 DEF OneRollup
  <2> QED
    BY <2>1, <2>2 DEF OneRollup, UpToDate, q
<1>4. CASE g = h
  BY <1>1, <1>2, <1>4 DEF OneRollup, UpToDate, q
<1> QED
  BY <1>3, <1>4

\* At the start nobody is active.
LEMMA RollupInit == Init => RollupInv
<1> SUFFICES ASSUME Init PROVE RollupInv
  OBVIOUS
<1>1. \A s \in Servers : ~Active(s)
  BY EmptyType DEF Init, Active, IsChanged
<1> QED
  BY <1>1, Inactive, NoRollup DEF RollupInv

\* A server that acts keeps the only roll-up, and loses nothing of the hour.
LEMMA RollupStep ==
  ASSUME TypeOK, TypeOK', RollupInv, [Next]_vars
  PROVE  RollupInv' /\ (~log'.overlapped => NotBefore(redis'.hour, redis.hour))
<1>0. /\ wire \in [Servers -> Seq(Commands)] /\ replies \in [Servers -> Seq(Answers)]
      /\ cache \in [Servers -> Caches] /\ isOwner \in [Servers -> BOOLEAN]
      /\ redis.hour \in Hours /\ log \in Logs
  BY Types
<1>1. NotBefore(redis.hour, redis.hour)
  BY <1>0 DEF NotBefore, Hours
<1> DEFINE Kept(t) == /\ OneRollup(wire'[t], replies'[t], HourOf(t)')
                      /\ UpToDate(wire'[t], replies'[t], HourOf(t)', redis'.hour)
           Alone == \A s, t \in Servers : Active(s)' /\ Active(t)' => s = t
           Goal == RollupInv' /\ (~log'.overlapped => NotBefore(redis'.hour, redis.hour))
<1>2. ASSUME ~log'.overlapped => Alone /\ (\A t \in Servers : Kept(t))
                                 /\ NotBefore(redis'.hour, redis.hour)
      PROVE  Goal
  BY <1>2 DEF RollupInv
<1>3. ASSUME NEW s \in Servers, Active(s), ~log.overlapped, isOwner' = isOwner,
             \A t \in Servers \ {s} : /\ wire'[t] = wire[t] /\ replies'[t] = replies[t]
                                      /\ cache'[t].buffer = cache[t].buffer,
             Kept(s)
      PROVE  Alone /\ \A t \in Servers : Kept(t)
  <2>1. ASSUME NEW t \in Servers, t # s
        PROVE  /\ ~Active(t)' /\ HourOf(t)' = NoHour
               /\ wire'[t] = <<>> /\ replies'[t] = <<>>
    <3>1. ~Active(t)
      BY <1>3, <2>1 DEF RollupInv
    <3>2. HourOf(t) = NoHour /\ wire[t] = <<>> /\ replies[t] = <<>>
      BY <3>1, Inactive
    <3>3. HourOf(t)' = HourOf(t)
      BY <1>3, <2>1 DEF HourOf
    <3> QED
      BY <1>3, <2>1, <3>1, <3>2, <3>3 DEF Active
  <2>2. \A t \in Servers : Kept(t)
    BY <1>3, <2>1, NoRollup
  <2> QED
    BY <2>1, <2>2
<1>4. ASSUME ~log.overlapped, redis'.hour = redis.hour,
             \A t \in Servers :
               /\ Active(t)' => Active(t)
               /\ \/ wire'[t] = wire[t] /\ replies'[t] = replies[t]
                     /\ HourOf(t)' \in {HourOf(t), NoHour}
                  \/ wire'[t] = <<>> /\ replies'[t] = <<>> /\ HourOf(t)' = NoHour
      PROVE  Alone /\ \A t \in Servers : Kept(t)
  <2>1. Alone
    BY <1>4 DEF RollupInv
  <2>2. ASSUME NEW t \in Servers PROVE Kept(t)
    <3>1. /\ OneRollup(wire[t], replies[t], HourOf(t))
          /\ UpToDate(wire[t], replies[t], HourOf(t), redis.hour)
      BY <1>4 DEF RollupInv
    <3>2. /\ OneRollup(wire[t], replies[t], NoHour)
          /\ UpToDate(wire[t], replies[t], NoHour, redis.hour)
      BY <3>1, NoRollup
    <3>3. CASE wire'[t] = wire[t] /\ replies'[t] = replies[t]
               /\ HourOf(t)' \in {HourOf(t), NoHour}
      BY <1>4, <3>1, <3>2, <3>3
    <3>4. CASE wire'[t] = <<>> /\ replies'[t] = <<>> /\ HourOf(t)' = NoHour
      BY <3>4, NoRollup
    <3> QED
      BY <1>4, <3>3, <3>4
  <2> QED
    BY <2>1, <2>2
<1> HIDE DEF Kept, Alone
<1>5. ASSUME UNCHANGED <<isOwner, wire, replies, cache, redis>>,
             log'.overlapped = log.overlapped
      PROVE  Goal
  <2>1. \A t \in Servers : (Active(t)' <=> Active(t)) /\ HourOf(t)' = HourOf(t)
    BY <1>5 DEF Active, HourOf
  <2> QED
    BY <1>1, <1>2, <1>4, <1>5, <2>1
<1>6. ASSUME NEW s \in Servers, UpdateStats(s) PROVE Goal
  <2>0. UNCHANGED <<redis, replies, isOwner>>
    BY <1>6 DEF UpdateStats
  <2>1. CASE NeedsFlush(listener[s], finished[listener[s].seen + 1])
    <3>1. /\ listener[s].nextFlush \in 0..MaxMinute
          /\ listener[s].stats \in SUBSET Jobs
          /\ WriteStats(s, listener[s].stats, listener[s].nextFlush)
      BY <1>6, <2>1, UpdateStatsTypes, ListenerType, Types DEF UpdateStats
    <3>2. CASE isOwner[s] /\ listener[s].stats # {}
      <4> SUFFICES ASSUME ~log'.overlapped
                   PROVE  Alone /\ \A t \in Servers : Kept(t)
        BY <1>1, <1>2, <2>0
      <4> DEFINE S == listener[s].stats
                 g == [type |-> "get", source |-> S]
      <4>1. /\ cache'[s].buffer = Buffered(cache[s].buffer, S, listener[s].nextFlush)
            /\ wire'[s] = Append(wire[s], g) /\ g \in Gets
            /\ \A u \in Servers \ {s} : cache'[u] = cache[u] /\ wire'[u] = wire[u]
            /\ log' = [log EXCEPT !.taken = @ \cup ({s} \X S), !.overlapped = @ \/ Busy]
        BY <3>1, <3>2, WriteStatsEffect
      <4>2. ~log.overlapped /\ ~Busy
        BY <1>0, <4>1, Zenon DEF Logs
      <4>3. \A t \in Servers : ~Active(t)
        BY <4>2 DEF Busy, Active
      <4> HIDE DEF g, S
      <4>4. \A t \in Servers :
              HourOf(t) = NoHour /\ wire[t] = <<>> /\ replies[t] = <<>>
        BY <4>3, Inactive
      <4>5. ASSUME NEW t \in Servers, t # s
            PROVE  ~Active(t)' /\ Kept(t)
        <5>1. HourOf(t)' = NoHour /\ wire'[t] = <<>> /\ replies'[t] = <<>>
          BY <2>0, <4>1, <4>4, <4>5 DEF HourOf
        <5>2. ~Active(t)'
          BY <2>0, <4>1, <4>3, <4>5 DEF Active
        <5> QED
          BY <5>1, <5>2, NoRollup DEF Kept
      <4>6. Kept(s)
        <5>1. HourOf(s)' = NoHour
          BY <2>0, <4>1, <4>4 DEF HourOf, Buffered
        <5>2. wire'[s] = Append(<<>>, g) /\ replies'[s] = <<>>
          BY <2>0, <4>1, <4>4
        <5> QED
          BY <4>1, <5>1, <5>2, RollupStarts DEF Kept
      <4> QED
        BY <4>5, <4>6 DEF Alone
    <3>3. CASE ~(isOwner[s] /\ listener[s].stats # {})
      BY <1>5, <2>0, <3>1, <3>3, WriteStatsEffect
    <3> QED
      BY <3>2, <3>3
  <2>2. CASE ~NeedsFlush(listener[s], finished[listener[s].seen + 1])
    <3>1. UNCHANGED <<cache, wire, log>>
      BY <1>6, <2>2 DEF UpdateStats
    <3> QED
      BY <1>5, <2>0, <3>1
  <2> QED
    BY <2>1, <2>2
<1>7. ASSUME NEW s \in Servers, ~log.overlapped
      PROVE  /\ OneRollup(wire[s], replies[s], HourOf(s))
             /\ UpToDate(wire[s], replies[s], HourOf(s), redis.hour)
             /\ wire[s] \in Seq(Commands) /\ replies[s] \in Seq(Answers)
             /\ cache[s].buffer \in Buffer
  BY <1>0, <1>7 DEF RollupInv, Caches
<1>8. ASSUME NEW s \in Servers, Flush(s) PROVE Goal
  <2> DEFINE x == [type |-> "exec", buffer |-> cache[s].buffer]
  <2>1. /\ UNCHANGED <<isOwner, redis, replies, log>>
        /\ x \in Execs /\ x.buffer = cache[s].buffer
        /\ isOwner[s] /\ IsChanged(cache[s].buffer)
        /\ cache'[s].buffer = Empty /\ wire'[s] = Append(wire[s], x)
        /\ \A t \in Servers \ {s} : cache'[t] = cache[t] /\ wire'[t] = wire[t]
    BY <1>8, FlushEffect
  <2> HIDE DEF x
  <2> SUFFICES ASSUME ~log.overlapped PROVE Alone /\ \A t \in Servers : Kept(t)
    BY <1>1, <1>2, <2>1
  <2>2. HourOf(s) = cache[s].buffer.hour /\ HourOf(s)' = NoHour
    BY <2>1, EmptyType DEF HourOf
  <2>3. Kept(s)
    BY <1>7, <2>1, <2>2, RollupSent DEF Kept
  <2>4. Active(s)
    BY <2>1 DEF Active
  <2> QED
    BY <1>3, <2>1, <2>3, <2>4
<1>9. ASSUME NEW s \in Servers, Rollup(s) PROVE Goal
  <2> DEFINE r == Head(replies[s])
             new == RolledUp(r.source, r.base)
  <2>1. /\ UNCHANGED <<isOwner, redis, wire, log>>
        /\ replies[s] # <<>> /\ replies'[s] = Tail(replies[s]) /\ r \in GetReplies
        /\ \A t \in Servers \ {s} : cache'[t] = cache[t] /\ replies'[t] = replies[t]
    BY <1>9, RollupEffect DEF Rollup
  <2> SUFFICES ASSUME ~log.overlapped PROVE Alone /\ \A t \in Servers : Kept(t)
    BY <1>1, <1>2, <2>1
  <2>2. r.type = "get" /\ 1 \in DOMAIN replies[s] /\ r = replies[s][1]
    BY <1>7, <2>1, Answered DEF GetReplies
  <2>3. \/ HourOf(s)' = HourOf(s)
        \/ HourOf(s)' # NoHour => NotBefore(HourOf(s)', redis.hour)
    <3>1. CASE cache' = cache
      BY <2>1, <3>1 DEF HourOf
    <3>2. CASE isOwner[s] /\ r.base # NoHour /\ cache'[s].buffer.hour = new
      <4>1. r.base = redis.hour
        BY <1>7, <2>2, <3>2 DEF UpToDate
      <4>2. r.source \in SUBSET Jobs
        BY <2>1 DEF GetReplies
      <4>3. NotBefore(new, redis.hour)
        <5>1. \A j \in Jobs : new[j] = redis.hour[j] + (IF j \in r.source THEN 1 ELSE 0)
          BY <1>0, <4>1, <4>2, RolledUpType
        <5>2. \A j \in Jobs : redis.hour[j] \in Nat
          BY <1>0 DEF Hours
        <5> QED
          BY <5>1, <5>2 DEF NotBefore
      <4> QED
        BY <2>1, <3>2, <4>3 DEF HourOf
    <3> QED
      BY <1>9, <3>1, <3>2, RollupEffect
  <2>4. Kept(s)
    <3> DEFINE g == HourOf(s)'
    <3>1. g = HourOf(s) \/ (r.type = "get" /\ (g # NoHour => NotBefore(g, redis.hour)))
      BY <2>2, <2>3
    <3> HIDE DEF g, r, new
    <3>2. /\ OneRollup(wire[s], Tail(replies[s]), g)
          /\ UpToDate(wire[s], Tail(replies[s]), g, redis.hour)
      BY <1>7, <2>1, <3>1, RollupHandled DEF r
    <3> QED
      BY <2>1, <3>2 DEF Kept, g
  <2>5. Active(s)
    BY <2>1 DEF Active
  <2> QED
    BY <1>3, <2>1, <2>4, <2>5
<1>10. ASSUME NEW s \in Servers, Flushed(s) PROVE Goal
  <2>1. /\ UNCHANGED <<isOwner, redis, wire, log>>
        /\ replies[s] # <<>> /\ replies'[s] = Tail(replies[s])
        /\ \A t \in Servers \ {s} : replies'[t] = replies[t]
        /\ \A t \in Servers : cache'[t].buffer = cache[t].buffer
    BY <1>10, FlushedEffect
  <2> SUFFICES ASSUME ~log.overlapped PROVE Alone /\ \A t \in Servers : Kept(t)
    BY <1>1, <1>2, <2>1
  <2>2. HourOf(s)' = HourOf(s)
    BY <2>1 DEF HourOf
  <2>3. /\ OneRollup(wire[s], Tail(replies[s]), HourOf(s))
        /\ UpToDate(wire[s], Tail(replies[s]), HourOf(s), redis.hour)
    BY <1>7, <2>1, RollupHandled
  <2>4. Kept(s)
    BY <2>1, <2>2, <2>3 DEF Kept
  <2>5. Active(s)
    BY <2>1 DEF Active
  <2> QED
    BY <1>3, <2>1, <2>4, <2>5
<1>11. ASSUME NEW s \in Servers, NEW a \in Answers, ~log.overlapped,
              UNCHANGED <<isOwner, cache>>, wire[s] # <<>>,
              wire'[s] = Tail(wire[s]), replies'[s] = Append(replies[s], a),
              \A t \in Servers \ {s} : wire'[t] = wire[t] /\ replies'[t] = replies[t],
              a.type = "get" => /\ Head(wire[s]).type = "get" /\ redis'.hour = redis.hour
                                /\ a.base \in {redis.hour, NoHour},
              ~IsRollup(Head(wire[s])) => redis'.hour = redis.hour
       PROVE  Alone /\ \A t \in Servers : Kept(t)
  <2>1. HourOf(s)' = HourOf(s)
    BY <1>11 DEF HourOf
  <2> DEFINE new == redis'.hour
  <2>2. /\ a.type = "get" => /\ Head(wire[s]).type = "get" /\ new = redis.hour
                             /\ a.base \in {redis.hour, NoHour}
        /\ ~IsRollup(Head(wire[s])) => new = redis.hour
    BY <1>11
  <2> HIDE DEF new
  <2>3. /\ OneRollup(Tail(wire[s]), Append(replies[s], a), HourOf(s))
        /\ UpToDate(Tail(wire[s]), Append(replies[s], a), HourOf(s), new)
    BY <1>7, <1>11, <2>2, RollupAnswered
  <2>4. Kept(s)
    BY <1>11, <2>1, <2>3 DEF Kept, new
  <2>5. Active(s)
    BY <1>11 DEF Active
  <2> QED
    BY <1>3, <1>11, <2>4, <2>5
<1>12. ASSUME NEW s \in Servers, Execute(s) PROVE Goal
  <2> DEFINE c == Head(wire[s])
  <2>1. CASE c \in Gets
    <3> DEFINE a == [type |-> "get", source |-> c.source, base |-> redis.hour]
    <3>1. a \in Answers /\ a.base = redis.hour /\ c.type = "get"
      BY <2>1, Types DEF Gets, Answers, GetReplies
    <3>2. replies'[s] = Append(replies[s], a) /\ UNCHANGED <<redis, log>>
      BY <1>12, <2>1, ExecuteEffect DEF Gets, Execs
    <3> HIDE DEF a, c
    <3> SUFFICES ASSUME ~log.overlapped PROVE Alone /\ \A t \in Servers : Kept(t)
      BY <1>1, <1>2, <3>2
    <3> QED
      BY <1>11, <1>12, <3>1, <3>2, ExecuteEffect DEF c
  <2>2. CASE c \in Execs
    <3> DEFINE a == [type |-> "exec", failed |-> FALSE]
    <3>1. a \in Answers /\ a.type # "get"
      BY DEF Answers, ExecReplies
    <3>2. /\ replies'[s] = Append(replies[s], a) /\ redis' = Applied(redis, c.buffer)
          /\ log'.overlapped = log.overlapped
      BY <1>12, <2>2, ExecuteEffect DEF Gets, Execs
    <3> HIDE DEF a
    <3>3. redis'.hour = IF c.buffer.hour = NoHour THEN redis.hour ELSE c.buffer.hour
      BY <3>2 DEF Applied
    <3>4. c.type = "exec" /\ (~IsRollup(c) => redis'.hour = redis.hour)
      BY <2>2, <3>3 DEF Execs, IsRollup
    <3>5. wire[s] # <<>>
      BY <1>12, ExecuteEffect
    <3>6. ~log.overlapped => NotBefore(redis'.hour, redis.hour)
      <4> SUFFICES ASSUME ~log.overlapped PROVE NotBefore(redis'.hour, redis.hour)
        OBVIOUS
      <4>1. 1 \in DOMAIN wire[s] /\ c = wire[s][1]
        BY <1>7, <3>5, Taken
      <4>2. c.buffer.hour # NoHour => NotBefore(c.buffer.hour, redis.hour)
        BY <1>7, <3>4, <4>1 DEF UpToDate
      <4> QED
        BY <1>1, <3>3, <4>2
    <3> HIDE DEF c
    <3>7. ~log.overlapped => Alone /\ \A t \in Servers : Kept(t)
      BY <1>11, <1>12, <3>1, <3>2, <3>4, ExecuteEffect DEF c
    <3> QED
      BY <1>2, <3>2, <3>6, <3>7
  <2> QED
    BY <1>12, <2>1, <2>2, ExecuteEffect
<1>13. ASSUME NEW s \in Servers, Fail(s) PROVE Goal
  <2> DEFINE c == Head(wire[s])
             ga == [type |-> "get", source |-> c.source, base |-> NoHour]
             xa == [type |-> "exec", failed |-> TRUE]
  <2>0. UNCHANGED redis /\ log'.overlapped = log.overlapped
    BY <1>13, FailEffect
  <2> SUFFICES ASSUME ~log.overlapped PROVE Alone /\ \A t \in Servers : Kept(t)
    BY <1>1, <1>2, <2>0
  <2>1. CASE c \in Gets /\ replies'[s] = Append(replies[s], ga)
    <3>1. ga \in Answers /\ ga.base = NoHour /\ c.type = "get"
      BY <2>1 DEF Gets, Answers, GetReplies
    <3> HIDE DEF ga, c
    <3> QED
      BY <1>11, <1>13, <2>0, <2>1, <3>1, FailEffect DEF c
  <2>2. CASE c \in Execs /\ replies'[s] = Append(replies[s], xa)
    <3>1. xa \in Answers /\ xa.type # "get"
      BY DEF Answers, ExecReplies
    <3> HIDE DEF xa, c
    <3> QED
      BY <1>11, <1>13, <2>0, <2>2, <3>1, FailEffect DEF c
  <2> QED
    BY <1>13, <2>1, <2>2, FailEffect
<1>14. ASSUME NEW s \in Servers, Discard(s) PROVE Goal
  <2>1. /\ UNCHANGED <<isOwner, redis, wire, replies, log>>
        /\ ~isOwner[s] /\ \A t \in Servers \ {s} : cache'[t] = cache[t]
    BY <1>14, DiscardEffect
  <2>2. \A t \in Servers : (Active(t)' <=> Active(t)) /\ HourOf(t)' = HourOf(t)
    BY <2>1 DEF Active, HourOf
  <2> QED
    BY <1>1, <1>2, <1>4, <2>1, <2>2
<1>15. ASSUME NEW s \in Servers, Acquire(s) PROVE Goal
  <2>1. /\ UNCHANGED <<redis, wire, replies, cache>>
        /\ isOwner' = [isOwner EXCEPT ![s] = TRUE]
        /\ log' = [log EXCEPT !.changes = @ + 1,
                              !.overlapped = @ \/ IsChanged(cache[s].buffer)]
    BY <1>15 DEF Acquire
  <2> SUFFICES ASSUME ~log'.overlapped PROVE Alone /\ \A t \in Servers : Kept(t)
    BY <1>1, <1>2, <2>1
  <2>2. ~log.overlapped /\ ~IsChanged(cache[s].buffer)
    BY <1>0, <2>1, Zenon DEF Logs
  <2>3. \A t \in Servers : t # s => isOwner'[t] = isOwner[t]
    BY <1>0, <2>1
  <2>4. cache[s].buffer.hour = NoHour
    BY <2>2, EmptyType DEF IsChanged
  <2>5. ASSUME NEW t \in Servers
        PROVE  (Active(t)' => Active(t)) /\ HourOf(t)' \in {HourOf(t), NoHour}
    <3>1. CASE t = s
      BY <2>1, <2>2, <2>4, <3>1 DEF Active, HourOf
    <3>2. CASE t # s
      BY <2>1, <2>3, <3>2 DEF Active, HourOf
    <3> QED
      BY <3>1, <3>2
  <2> QED
    BY <1>4, <2>1, <2>2, <2>5
<1>16. ASSUME NEW s \in Servers, Lose(s) PROVE Goal
  <2>1. /\ UNCHANGED <<redis, wire, replies, cache>>
        /\ isOwner' = [isOwner EXCEPT ![s] = FALSE]
        /\ log'.overlapped = log.overlapped
    BY <1>0, <1>16 DEF Lose, Logs
  <2>2. \A t \in Servers : isOwner'[t] => isOwner[t]
    BY <1>0, <2>1
  <2>3. \A t \in Servers : (Active(t)' => Active(t)) /\ HourOf(t)' \in {HourOf(t), NoHour}
    BY <2>1, <2>2 DEF Active, HourOf
  <2> QED
    BY <1>1, <1>2, <1>4, <2>1, <2>3
<1>17. ASSUME NEW s \in Servers, Crash(s) PROVE Goal
  <2>1. /\ UNCHANGED redis /\ log'.overlapped = log.overlapped
        /\ ~isOwner'[s] /\ wire'[s] = <<>> /\ replies'[s] = <<>>
        /\ \A t \in Servers \ {s} :
             /\ isOwner'[t] = isOwner[t] /\ cache'[t] = cache[t]
             /\ wire'[t] = wire[t] /\ replies'[t] = replies[t]
    BY <1>17, CrashEffect
  <2>2. ~Active(s)' /\ HourOf(s)' = NoHour
    BY <2>1 DEF Active, HourOf
  <2>3. \A t \in Servers \ {s} : (Active(t)' <=> Active(t)) /\ HourOf(t)' = HourOf(t)
    BY <2>1 DEF Active, HourOf
  <2> QED
    BY <1>1, <1>2, <1>4, <2>1, <2>2, <2>3
<1>18. CASE UNCHANGED vars \/ \E m \in Minutes : Finish(m)
  BY <1>5, <1>18 DEF vars, Finish
<1> QED
  BY <1>6, <1>8, <1>9, <1>10, <1>12, <1>13, <1>14, <1>15, <1>16, <1>17, <1>18 DEF Next, Step

\* HourNeverLoses holds: without overlapping roll-ups the hour is written by the one server
\* that has read it last, and what was added since the read was added by nobody.
THEOREM HourNeverLosesHolds == Spec => HourNeverLoses
<1>1. RollupInv /\ TypeOK /\ TypeOK' /\ [Next]_vars => RollupInv'
  BY RollupStep
<1>2. Spec => []RollupInv
  BY <1>1, RollupInit, TypeCorrectness, PTL DEF Spec
<1>3. TypeOK /\ TypeOK' /\ RollupInv /\ [Next]_vars =>
        [~log'.overlapped => \A j \in Jobs : redis'.hour[j] >= redis.hour[j]]_vars
  BY RollupStep DEF NotBefore
<1> QED
  BY <1>2, <1>3, TypeCorrectness, PTL DEF Spec, HourNeverLoses

-----------------------------------------------------------------------------
(* One owner, and no faults.                                                *)

\* Whether j is one of the jobs S, as a number.
One(S, j) == IF j \in S THEN 1 ELSE 0

\* With the jobs S the hour h has each of the jobs had, once.
Sums(h, S, had) == \A j \in Jobs : h[j] + One(S, j) = One(had, j)

\* The roll-up that is under way, or else the hour in Redis, counts every job that the
\* owner had, once.
Exact(w, r, h, hour, had) ==
  /\ (/\ \A k \in DOMAIN w : ~IsRollup(w[k])
      /\ \A k \in DOMAIN r : r[k].type # "get"
      /\ h = NoHour)
       => Sums(hour, {}, had)
  /\ h # NoHour => Sums(h, {}, had)
  /\ \A k \in DOMAIN w :
       /\ w[k].type = "get" => Sums(hour, w[k].source, had)
       /\ w[k].type = "exec" /\ w[k].buffer.hour # NoHour => Sums(w[k].buffer.hour, {}, had)
  /\ \A k \in DOMAIN r :
       r[k].type = "get" => r[k].base # NoHour /\ Sums(r[k].base, r[k].source, had)

\* The records of the minutes in Redis are those that the owner has written, each once,
\* and what it had is written, in a transaction, or in the buffer.
Records(l, b, w, minute, done, had) ==
  /\ \A j \in Jobs : j \in done <=> \E m \in 0..MaxMinute : j \in minute[m]
  /\ \A m, n \in 0..MaxMinute :
       m # n => \A j \in Jobs : j \in minute[m] => j \notin minute[n]
  /\ \A m \in 0..MaxMinute : minute[m] # {} =>
       /\ m < l.nextFlush
       /\ m \notin MinutesIn(b)
       /\ \A k \in DOMAIN w : w[k].type = "exec" => m \notin MinutesIn(w[k].buffer)
  /\ \A j \in Jobs : j \in had <=>
       \/ j \in done \/ j \in JobsIn(b)
       \/ \E k \in DOMAIN w : w[k].type = "exec" /\ j \in JobsIn(w[k].buffer)

\* A server that has never been the owner.
Quiet(t) ==
  /\ ~isOwner[t] /\ wire[t] = <<>> /\ replies[t] = <<>> /\ cache[t].buffer = Empty
  /\ Had(t) = {} /\ Done(t) = {}

\* The only server that has ever been the owner.
Sole(s) ==
  /\ isOwner[s]
  /\ \A t \in Servers : t # s => Quiet(t)
  /\ Records(listener[s], cache[s].buffer, wire[s], redis.minute, Done(s), Had(s))
  /\ ~log.overlapped =>
       Exact(wire[s], replies[s], cache[s].buffer.hour, redis.hour, Had(s))

SoleInv ==
  log.changes <= 1 /\ log.faults = 0 =>
    \/ /\ log.changes = 0 /\ \A t \in Servers : Quiet(t)
       /\ redis.hour = None /\ redis.minute = NoMinutes
    \/ log.changes = 1 /\ \E s \in Servers : Sole(s)

\* The hour of a record is none.
LEMMA NoHourType == NoHour \notin Hours
BY StatsAssumption DEF Hours, Jobs

\* The listener goes on.
LEMMA RecordsHeard ==
  ASSUME NEW l \in Listeners, NEW n \in Listeners, NEW b, NEW w, NEW minute, NEW done,
         NEW had, Records(l, b, w, minute, done, had), n.nextFlush >= l.nextFlush
  PROVE  Records(n, b, w, minute, done, had)
<1>1. l.nextFlush \in Nat /\ n.nextFlush \in Nat
  BY ListenerType
<1>2. \A m \in 0..MaxMinute : m \in Nat
  BY StatsAssumption
<1>3. \A m \in 0..MaxMinute : m < l.nextFlush => m < n.nextFlush
  BY <1>1, <1>2
<1> QED
  BY <1>3 DEF Records

\* The owner ends a minute.
LEMMA RecordsSnapped ==
  ASSUME NEW l \in Listeners, NEW n \in Listeners, NEW b, NEW w \in Seq(Commands),
         NEW minute, NEW done, NEW had, Records(l, b, w, minute, done, had),
         NEW c, NEW g \in Gets, n.nextFlush = l.nextFlush + 1,
         JobsIn(c) = JobsIn(b) \cup l.stats,
         MinutesIn(c) \subseteq MinutesIn(b) \cup {l.nextFlush}
  PROVE  Records(n, c, Append(w, g), minute, done, had \cup l.stats)
<1> DEFINE v == Append(w, g)
           S == l.stats
<1>1. l.nextFlush \in Nat /\ n.nextFlush \in Nat
  BY ListenerType
<1>2. \A m \in 0..MaxMinute : m \in Nat
  BY StatsAssumption
<1>3. /\ \A k \in DOMAIN v : v[k].type = "exec" => k \in DOMAIN w /\ v[k] = w[k]
      /\ \A k \in DOMAIN w : w[k].type = "exec" => k \in DOMAIN v /\ v[k] = w[k]
  <2>1. g \in Commands /\ g.type # "exec"
    BY DEF Gets, Commands
  <2>2. \A k \in DOMAIN w : k \in DOMAIN v /\ v[k] = w[k]
    BY <2>1
  <2> QED
    BY <2>1, <2>2, Appended
<1> HIDE DEF v, S
<1>4. \A m \in 0..MaxMinute : minute[m] # {} =>
        /\ m < n.nextFlush
        /\ m \notin MinutesIn(c)
        /\ \A k \in DOMAIN v : v[k].type = "exec" => m \notin MinutesIn(v[k].buffer)
  <2> SUFFICES ASSUME NEW m \in 0..MaxMinute, minute[m] # {}
               PROVE  /\ m < n.nextFlush
                      /\ m \notin MinutesIn(c)
                      /\ \A k \in DOMAIN v : v[k].type = "exec" => m \notin MinutesIn(v[k].buffer)
    OBVIOUS
  <2>1. /\ m < l.nextFlush /\ m \notin MinutesIn(b)
        /\ \A k \in DOMAIN w : w[k].type = "exec" => m \notin MinutesIn(w[k].buffer)
    BY DEF Records
  <2>2. m < n.nextFlush /\ m # l.nextFlush
    BY <1>1, <1>2, <2>1
  <2> QED
    BY <1>3, <2>1, <2>2
<1>5. \A j \in Jobs : j \in had \cup S <=>
        \/ j \in done \/ j \in JobsIn(c)
        \/ \E k \in DOMAIN v : v[k].type = "exec" /\ j \in JobsIn(v[k].buffer)
  BY <1>3 DEF Records, S
<1> QED
  BY <1>4, <1>5 DEF Records, v, S

\* The buffer is sent.
LEMMA RecordsSent ==
  ASSUME NEW l, NEW b, NEW w \in Seq(Commands),
         NEW minute, NEW done, NEW had, Records(l, b, w, minute, done, had),
         NEW x \in Execs, x.buffer = b
  PROVE  Records(l, Empty, Append(w, x), minute, done, had)
<1> DEFINE v == Append(w, x)
<1>1. x \in Commands /\ x.type = "exec"
  BY DEF Execs, Commands
<1>2. /\ \A k \in DOMAIN v : (k \in DOMAIN w /\ v[k] = w[k]) \/ v[k] = x
      /\ \A k \in DOMAIN w : k \in DOMAIN v /\ v[k] = w[k]
      /\ \E k \in DOMAIN v : v[k] = x
  <2>1. \A k \in DOMAIN w : k \in DOMAIN v /\ v[k] = w[k]
    BY <1>1
  <2>2. Len(w) + 1 \in DOMAIN v /\ v[Len(w) + 1] = x
    BY <1>1
  <2> QED
    BY <1>1, <2>1, <2>2, Appended
<1> HIDE DEF v
<1>3. JobsIn(Empty) = {} /\ MinutesIn(Empty) = {}
  BY EmptySound
<1>4. \A j \in Jobs : j \in had <=>
        \/ j \in done \/ j \in JobsIn(Empty)
        \/ \E k \in DOMAIN v : v[k].type = "exec" /\ j \in JobsIn(v[k].buffer)
  BY <1>1, <1>2, <1>3 DEF Records
<1>5. \A m \in 0..MaxMinute : minute[m] # {} =>
        \A k \in DOMAIN v : v[k].type = "exec" => m \notin MinutesIn(v[k].buffer)
  BY <1>2 DEF Records
<1> QED
  BY <1>3, <1>4, <1>5 DEF Records, v

\* A read is executed.
LEMMA RecordsRead ==
  ASSUME NEW l, NEW b, NEW w \in Seq(Commands),
         NEW minute, NEW done, NEW had, Records(l, b, w, minute, done, had),
         w # <<>>, Head(w).type = "get"
  PROVE  Records(l, b, Tail(w), minute, done, had)
<1> DEFINE v == Tail(w)
<1>1. /\ \A k \in DOMAIN v : k + 1 \in DOMAIN w /\ v[k] = w[k + 1]
      /\ \A k \in DOMAIN w : w[k].type = "exec" => k - 1 \in DOMAIN v /\ v[k - 1] = w[k]
  <2>1. w[1].type = "get"
    BY Taken
  <2>2. \A k \in DOMAIN w : k # 1 => k - 1 \in DOMAIN v /\ v[k - 1] = w[k]
    OBVIOUS
  <2>3. \A k \in DOMAIN w : w[k].type = "exec" => k # 1
    BY <2>1
  <2> QED
    BY <2>2, <2>3, Taken
<1> HIDE DEF v
<1> QED
  BY <1>1 DEF Records, v

\* A transaction is executed: its minutes are new.
LEMMA RecordsWritten ==
  ASSUME NEW l, NEW b, NEW w \in Seq(Commands),
         NEW minute \in Minute, NEW done, NEW had, Records(l, b, w, minute, done, had),
         Collected(l, b, w, done),
         w # <<>>, Head(w) \in Execs, NEW new,
         \A m \in 0..MaxMinute :
           new[m] = IF Head(w).buffer.minutes[m] = {} THEN minute[m]
                                                     ELSE Head(w).buffer.minutes[m]
  PROVE  Records(l, b, Tail(w), new, done \cup JobsIn(Head(w).buffer), had)
<1> DEFINE v == Tail(w)
           x == Head(w).buffer
<1>1. /\ 1 \in DOMAIN w /\ w[1].type = "exec" /\ w[1].buffer = x
      /\ \A k \in DOMAIN v : k \in Nat /\ k + 1 \in DOMAIN w /\ v[k] = w[k + 1] /\ 1 < k + 1
  BY Taken DEF Execs
<1>2. \A k \in DOMAIN w : k # 1 => k - 1 \in DOMAIN v /\ v[k - 1] = w[k]
  OBVIOUS
<1>3. /\ Sound(x, l) /\ Apart(x, b) /\ \A j \in JobsIn(x) : j \notin done
      /\ \A k \in DOMAIN v : v[k].type = "exec" => Apart(x, v[k].buffer)
  BY <1>1 DEF Collected
<1>4. x \in Buffer
  BY DEF Execs
<1> HIDE DEF v, x
<1>5. \A m \in 0..MaxMinute :
        /\ m \in MinutesIn(x) => new[m] = x.minutes[m]
        /\ m \notin MinutesIn(x) => new[m] = minute[m]
  BY DEF MinutesIn, x
<1>6. \A m \in 0..MaxMinute : m \in MinutesIn(x) => minute[m] = {}
  BY <1>1 DEF Records
<1>7. \A j : j \in JobsIn(x) <=> \E m \in 0..MaxMinute : m \in MinutesIn(x) /\ j \in x.minutes[m]
  BY DEF JobsIn, MinutesIn
<1>8. \A j \in Jobs : j \in done \cup JobsIn(x) <=> \E m \in 0..MaxMinute : j \in new[m]
  BY <1>5, <1>6, <1>7 DEF Records
<1>9. \A m, n \in 0..MaxMinute :
        m # n => \A j \in Jobs : j \in new[m] => j \notin new[n]
  <2> SUFFICES ASSUME NEW m \in 0..MaxMinute, NEW n \in 0..MaxMinute, m # n,
                      NEW j \in Jobs, j \in new[m], j \in new[n]
               PROVE  FALSE
    OBVIOUS
  <2>1. CASE m \in MinutesIn(x) /\ n \in MinutesIn(x)
    BY <1>3, <1>5, <2>1 DEF Sound
  <2>2. CASE m \in MinutesIn(x) /\ n \notin MinutesIn(x)
    <3>1. j \in JobsIn(x) /\ j \in minute[n]
      BY <1>5, <1>7, <2>2
    <3> QED
      BY <1>3, <3>1 DEF Records
  <2>3. CASE m \notin MinutesIn(x) /\ n \in MinutesIn(x)
    <3>1. j \in JobsIn(x) /\ j \in minute[m]
      BY <1>5, <1>7, <2>3
    <3> QED
      BY <1>3, <3>1 DEF Records
  <2>4. CASE m \notin MinutesIn(x) /\ n \notin MinutesIn(x)
    BY <1>5, <2>4 DEF Records
  <2> QED
    BY <2>1, <2>2, <2>3, <2>4
<1>10. \A m \in 0..MaxMinute : new[m] # {} =>
         /\ m < l.nextFlush
         /\ m \notin MinutesIn(b)
         /\ \A k \in DOMAIN v : v[k].type = "exec" => m \notin MinutesIn(v[k].buffer)
  <2> SUFFICES ASSUME NEW m \in 0..MaxMinute, new[m] # {}
               PROVE  /\ m < l.nextFlush
                      /\ m \notin MinutesIn(b)
                      /\ \A k \in DOMAIN v :
                           v[k].type = "exec" => m \notin MinutesIn(v[k].buffer)
    OBVIOUS
  <2>1. CASE m \in MinutesIn(x)
    BY <1>3, <2>1 DEF Sound, Apart
  <2>2. CASE m \notin MinutesIn(x)
    BY <1>1, <1>5, <2>2 DEF Records
  <2> QED
    BY <2>1, <2>2
<1>11. \A j \in Jobs : j \in had <=>
         \/ j \in done \cup JobsIn(x) \/ j \in JobsIn(b)
         \/ \E k \in DOMAIN v : v[k].type = "exec" /\ j \in JobsIn(v[k].buffer)
  BY <1>1, <1>2 DEF Records
<1> QED
  BY <1>8, <1>9, <1>10, <1>11 DEF Records, v, x

\* The hour of a buffer does not matter to the minutes.
LEMMA RecordsSame ==
  ASSUME NEW l, NEW b, NEW w, NEW minute, NEW done, NEW had, NEW c,
         Records(l, b, w, minute, done, had), c.minutes = b.minutes
  PROVE  Records(l, c, w, minute, done, had)
<1>1. JobsIn(c) = JobsIn(b) /\ MinutesIn(c) = MinutesIn(b)
  BY DEF JobsIn, MinutesIn
<1> QED
  BY <1>1 DEF Records

\* The read of the hour for a snapshot is the only roll-up: the jobs of the snapshot are new.
LEMMA ExactStarts ==
  ASSUME NEW g \in Gets, NEW hour \in Hours, NEW had \in SUBSET Jobs,
         Exact(<<>>, <<>>, NoHour, hour, had), \A j \in g.source : j \notin had
  PROVE  Exact(Append(<<>>, g), <<>>, NoHour, hour, had \cup g.source)
<1> DEFINE v == Append(<<>>, g)
<1>1. <<>> \in Seq(Commands) /\ g \in Commands /\ g.type = "get"
  BY DEF Gets, Commands
<1>2. /\ \A k \in DOMAIN v : k = 1 /\ v[k] = g
      /\ 1 \in DOMAIN v
  BY <1>1
<1> HIDE DEF v
<1>3. Sums(hour, {}, had)
  BY DEF Exact
<1>4. Sums(hour, g.source, had \cup g.source)
  <2> SUFFICES ASSUME NEW j \in Jobs
               PROVE  hour[j] + One(g.source, j) = One(had \cup g.source, j)
    BY DEF Sums
  <2>1. hour[j] \in Nat /\ hour[j] + 0 = One(had, j)
    BY <1>3 DEF Sums, One, Hours
  <2>2. CASE j \in g.source
    BY <2>1, <2>2 DEF One
  <2>3. CASE j \notin g.source
    BY <2>1, <2>3 DEF One
  <2> QED
    BY <2>2, <2>3
<1>5. IsRollup(g)
  BY <1>1 DEF IsRollup
<1> QED
  BY <1>1, <1>2, <1>4, <1>5 DEF Exact, v

\* The buffer is sent, with its hour.
LEMMA ExactSent ==
  ASSUME NEW w \in Seq(Commands), NEW r, NEW b \in Buffer, NEW hour, NEW had,
         Exact(w, r, b.hour, hour, had), NEW x \in Execs, x.buffer = b
  PROVE  Exact(Append(w, x), r, NoHour, hour, had)
<1> DEFINE v == Append(w, x)
<1>1. x \in Commands /\ x.type = "exec"
  BY DEF Execs, Commands
<1>2. /\ \A k \in DOMAIN v : (k \in DOMAIN w /\ v[k] = w[k]) \/ (k = Len(w) + 1 /\ v[k] = x)
      /\ \A k \in DOMAIN w : k \in DOMAIN v /\ v[k] = w[k]
      /\ \E k \in DOMAIN v : v[k] = x
  <2>1. \A k \in DOMAIN w : k \in DOMAIN v /\ v[k] = w[k]
    BY <1>1
  <2>2. Len(w) + 1 \in DOMAIN v /\ v[Len(w) + 1] = x
    BY <1>1
  <2> QED
    BY <1>1, <2>1, <2>2, Appended
<1> HIDE DEF v
<1>3. IsRollup(x) <=> b.hour # NoHour
  BY <1>1 DEF IsRollup
<1> QED
  BY <1>1, <1>2, <1>3 DEF Exact, v

\* The read is executed: its answer has the hour.
LEMMA ExactRead ==
  ASSUME NEW w \in Seq(Commands), NEW r \in Seq(Answers), NEW h, NEW hour, NEW had,
         Exact(w, r, h, hour, had), w # <<>>, Head(w) \in Gets, hour # NoHour,
         NEW a \in Answers, a.type = "get", a.source = Head(w).source, a.base = hour
  PROVE  Exact(Tail(w), Append(r, a), h, hour, had)
<1> DEFINE v == Tail(w)
           q == Append(r, a)
<1>1. /\ 1 \in DOMAIN w /\ w[1].type = "get" /\ w[1].source = a.source
      /\ \A k \in DOMAIN v : k + 1 \in DOMAIN w /\ v[k] = w[k + 1]
  BY Taken DEF Gets
<1>2. /\ \A k \in DOMAIN q : (k \in DOMAIN r /\ q[k] = r[k]) \/ q[k] = a
      /\ \E k \in DOMAIN q : q[k] = a
  <2>1. Len(r) + 1 \in DOMAIN q /\ q[Len(r) + 1] = a
    OBVIOUS
  <2> QED
    BY <2>1, Answered
<1> HIDE DEF v, q
<1>3. Sums(hour, a.source, had)
  BY <1>1 DEF Exact
<1> QED
  BY <1>1, <1>2, <1>3 DEF Exact, v, q

\* A transaction is executed: if it has the hour it is the only roll-up.
LEMMA ExactWritten ==
  ASSUME NEW w \in Seq(Commands), NEW r \in Seq(Answers), NEW h, NEW hour, NEW had,
         Exact(w, r, h, hour, had), OneRollup(w, r, h), w # <<>>, Head(w) \in Execs,
         NEW a \in Answers, a.type # "get", NEW new,
         new = IF Head(w).buffer.hour = NoHour THEN hour ELSE Head(w).buffer.hour
  PROVE  Exact(Tail(w), Append(r, a), h, new, had)
<1> DEFINE v == Tail(w)
           q == Append(r, a)
           x == Head(w).buffer
<1>1. /\ 1 \in DOMAIN w /\ w[1].type = "exec" /\ w[1].buffer = x
      /\ \A k \in DOMAIN v : k \in Nat /\ k + 1 \in DOMAIN w /\ v[k] = w[k + 1] /\ 1 < k + 1
  BY Taken DEF Execs
<1>2. /\ \A k \in DOMAIN q : (k \in DOMAIN r /\ q[k] = r[k]) \/ q[k] = a
      /\ \A k \in DOMAIN r : k \in DOMAIN q /\ q[k] = r[k]
  <2>1. \A k \in DOMAIN r : k \in DOMAIN q /\ q[k] = r[k]
    OBVIOUS
  <2> QED
    BY <2>1, Answered
<1>3. \A k \in DOMAIN w : k # 1 => k - 1 \in DOMAIN v /\ v[k - 1] = w[k]
  OBVIOUS
<1>4. new = IF x.hour = NoHour THEN hour ELSE x.hour
  OBVIOUS
<1> HIDE DEF v, q, x
<1>5. CASE x.hour = NoHour
  <2>1. ~IsRollup(w[1]) /\ new = hour
    BY <1>1, <1>4, <1>5 DEF IsRollup
  <2>2. (\A k \in DOMAIN v : ~IsRollup(v[k])) => \A k \in DOMAIN w : ~IsRollup(w[k])
    BY <1>3, <2>1
  <2> QED
    BY <1>1, <1>2, <2>1, <2>2 DEF Exact, v, q
<1>6. CASE x.hour # NoHour
  <2>1. IsRollup(w[1]) /\ new = x.hour /\ Sums(x.hour, {}, had)
    BY <1>1, <1>4, <1>6 DEF IsRollup, Exact
  <2>2. /\ \A k \in DOMAIN v : ~IsRollup(v[k])
        /\ \A k \in DOMAIN r : r[k].type # "get"
        /\ h = NoHour
    <3>1. \A k \in DOMAIN v : ~(k + 1 = 1)
      BY <1>1
    <3> QED
      BY <1>1, <2>1, <3>1 DEF OneRollup
  <2> QED
    BY <1>2, <2>1, <2>2 DEF Exact, IsRollup, v, q
<1> QED
  BY <1>5, <1>6

\* The hour is answered and rolled up.
LEMMA ExactHandled ==
  ASSUME NEW w, NEW r \in Seq(Answers), NEW h, NEW hour, NEW had,
         Exact(w, r, h, hour, had), OneRollup(w, r, h), r # <<>>, Head(r) \in GetReplies
  PROVE  /\ Head(r).base # NoHour
         /\ Exact(w, Tail(r), RolledUp(Head(r).source, Head(r).base), hour, had)
<1> DEFINE q == Tail(r)
           S == Head(r).source
           base == Head(r).base
           new == RolledUp(S, base)
<1>1. /\ 1 \in DOMAIN r /\ r[1].type = "get" /\ r[1].source = S /\ r[1].base = base
      /\ \A k \in DOMAIN q : k \in Nat /\ k + 1 \in DOMAIN r /\ q[k] = r[k + 1] /\ 1 < k + 1
      /\ S \in SUBSET Jobs /\ base \in Hours \cup {NoHour}
  BY Answered DEF GetReplies
<1> HIDE DEF q, S, base
<1>2. base # NoHour /\ Sums(base, S, had)
  BY <1>1 DEF Exact
<1>3. /\ \A k \in DOMAIN q : q[k].type # "get"
      /\ \A k \in DOMAIN w : ~IsRollup(w[k])
  <2>1. \A k \in DOMAIN q : ~(k + 1 = 1)
    BY <1>1
  <2> QED
    BY <1>1, <2>1 DEF OneRollup
<1>4. new \in Hours /\ \A j \in Jobs : new[j] = base[j] + One(S, j)
  BY <1>1, <1>2, RolledUpType DEF One
<1> HIDE DEF new
<1>5. Sums(new, {}, had)
  <2>1. \A j \in Jobs : new[j] \in Nat /\ new[j] + 0 = One(had, j)
    BY <1>2, <1>4 DEF Sums, Hours
  <2> QED
    BY <2>1 DEF Sums, One
<1>6. new # NoHour
  BY <1>4, NoHourType
<1>7. \A k \in DOMAIN w : w[k].type # "get" /\ ~(w[k].type = "exec" /\ w[k].buffer.hour # NoHour)
  BY <1>3 DEF IsRollup
<1>8. Exact(w, q, new, hour, had)
  BY <1>3, <1>5, <1>6, <1>7 DEF Exact
<1> QED
  BY <1>2, <1>8 DEF new, q, S, base

\* A transaction is answered.
LEMMA ExactFlushed ==
  ASSUME NEW w, NEW r \in Seq(Answers), NEW h, NEW hour, NEW had,
         Exact(w, r, h, hour, had), r # <<>>, Head(r) \in ExecReplies
  PROVE  Exact(w, Tail(r), h, hour, had)
<1> DEFINE q == Tail(r)
<1>1. /\ r[1].type = "exec"
      /\ \A k \in DOMAIN q : k \in Nat /\ k + 1 \in DOMAIN r /\ q[k] = r[k + 1] /\ 1 < k + 1
  BY Answered DEF ExecReplies
<1>2. \A k \in DOMAIN r : k # 1 => k - 1 \in DOMAIN q /\ q[k - 1] = r[k]
  OBVIOUS
<1> HIDE DEF q
<1>3. (\A k \in DOMAIN q : q[k].type # "get") => \A k \in DOMAIN r : r[k].type # "get"
  BY <1>1, <1>2
<1> QED
  BY <1>1, <1>3 DEF Exact, q

\* At the start nobody has been the owner.
LEMMA SoleInit == Init => SoleInv
<1> SUFFICES ASSUME Init PROVE SoleInv
  OBVIOUS
<1>1. /\ log.changes = 0 /\ log.taken = {} /\ log.written = {}
      /\ redis.hour = None /\ redis.minute = NoMinutes
  BY DEF Init
<1>2. \A t \in Servers : Quiet(t)
  BY <1>1 DEF Init, Quiet, Had, Done
<1> QED
  BY <1>1, <1>2 DEF SoleInv

\* The first server that wins the lock is the only one: nothing is recorded yet.
LEMMA SoleStarts ==
  ASSUME TypeOK, NEW s \in Servers, Acquire(s), log.changes = 0,
         \A t \in Servers : Quiet(t), redis.hour = None, redis.minute = NoMinutes
  PROVE  log'.changes = 1 /\ Sole(s)'
<1>1. isOwner \in [Servers -> BOOLEAN] /\ log \in Logs
  BY Types
<1>2. /\ UNCHANGED <<listener, cache, wire, replies, redis>>
      /\ isOwner' = [isOwner EXCEPT ![s] = TRUE]
      /\ log'.changes = log.changes + 1
      /\ log'.taken = log.taken /\ log'.written = log.written
  <2>1. log' = [log EXCEPT !.changes = @ + 1, !.overlapped = @ \/ IsChanged(cache[s].buffer)]
    BY DEF Acquire
  <2>2. /\ log'.changes = log.changes + 1
        /\ log'.taken = log.taken /\ log'.written = log.written
    BY <1>1, <2>1, Zenon DEF Logs
  <2> QED
    BY <2>2 DEF Acquire
<1>3. isOwner'[s] /\ \A t \in Servers : t # s => isOwner'[t] = isOwner[t]
  BY <1>1, <1>2
<1>4. \A t \in Servers : Had(t)' = Had(t) /\ Done(t)' = Done(t)
  BY <1>2 DEF Had, Done
<1>5. \A t \in Servers : t # s => Quiet(t)'
  BY <1>2, <1>3, <1>4 DEF Quiet
<1>6. /\ wire[s] = <<>> /\ replies[s] = <<>> /\ cache[s].buffer = Empty
      /\ Had(s) = {} /\ Done(s) = {}
  BY DEF Quiet
<1>7. Records(listener[s], Empty, <<>>, NoMinutes, {}, {})
  BY EmptySound DEF Records, NoMinutes
<1>8. Exact(<<>>, <<>>, NoHour, None, {})
  BY DEF Exact, Sums, None, One
<1>9. Sole(s)'
  BY <1>2, <1>3, <1>4, <1>5, <1>6, <1>7, <1>8, EmptyType DEF Sole
<1> QED
  BY <1>2, <1>9

\* While nobody has been the owner, a step that is not a fault lets a server win the lock
\* or changes nothing that counts.
LEMMA QuietStep ==
  ASSUME TypeOK, TypeOK', [Next]_vars, log.changes = 0, log'.faults = 0,
         \A t \in Servers : Quiet(t), redis.hour = None, redis.minute = NoMinutes
  PROVE  \/ /\ log'.changes = 0 /\ \A t \in Servers : Quiet(t)'
            /\ redis'.hour = None /\ redis'.minute = NoMinutes
         \/ log'.changes = 1 /\ \E s \in Servers : Sole(s)'
<1> DEFINE Goal == /\ log'.changes = 0 /\ \A t \in Servers : Quiet(t)'
                   /\ redis'.hour = None /\ redis'.minute = NoMinutes
<1>1. ASSUME UNCHANGED <<isOwner, cache, wire, replies, redis, log>>
      PROVE  Goal
  BY <1>1 DEF Quiet, Had, Done
<1>2. \A s \in Servers :
        /\ ~isOwner[s] /\ wire[s] = <<>> /\ replies[s] = <<>>
        /\ ~IsChanged(cache[s].buffer)
  BY DEF Quiet, IsChanged
<1>3. ASSUME NEW s \in Servers, UpdateStats(s) PROVE Goal
  <2>1. UNCHANGED <<isOwner, replies, redis>>
    BY <1>3 DEF UpdateStats
  <2>2. UNCHANGED <<cache, wire, log>>
    BY <1>2, <1>3 DEF UpdateStats, WriteStats
  <2> QED
    BY <1>1, <2>1, <2>2
<1>4. ASSUME NEW s \in Servers, Rollup(s) \/ Flush(s) \/ Discard(s) \/ Flushed(s) \/ Execute(s)
      PROVE  FALSE
  BY <1>2, <1>4 DEF Rollup, Flush, Discard, Flushed, Execute
<1>5. ASSUME NEW s \in Servers, Lose(s) \/ Fail(s) \/ Crash(s) PROVE FALSE
  <2>1. CASE Lose(s) \/ Fail(s)
    BY <1>2, <2>1 DEF Lose, Fail
  <2>2. CASE Crash(s)
    <3>1. log'.faults = log.faults + 1
      BY <2>2, CrashEffect
    <3>2. log.faults \in Nat
      BY Types, StatsAssumption DEF Logs
    <3> QED
      BY <3>1, <3>2
  <2> QED
    BY <1>5, <2>1, <2>2
<1>6. CASE UNCHANGED vars \/ \E m \in Minutes : Finish(m)
  BY <1>1, <1>6 DEF vars, Finish
<1> QED
  BY <1>3, <1>4, <1>5, <1>6, SoleStarts DEF Next, Step

\* The only owner ends a minute with jobs.
LEMMA SoleEndsMinute ==
  ASSUME TypeOK, TypeOK', CollectedInv, AskedInv, NEW s \in Servers, UpdateStats(s), Sole(s),
         NeedsFlush(listener[s], finished[listener[s].seen + 1]), listener[s].stats # {}
  PROVE  Sole(s)' /\ log'.changes = log.changes
<1> DEFINE l == listener[s]
           S == l.stats
           b == cache[s].buffer
           g == [type |-> "get", source |-> S]
           c == Buffered(b, S, l.nextFlush)
<1>1. /\ isOwner[s] /\ \A t \in Servers : t # s => Quiet(t)
      /\ Records(l, b, wire[s], redis.minute, Done(s), Had(s))
      /\ ~log.overlapped => Exact(wire[s], replies[s], b.hour, redis.hour, Had(s))
  BY DEF Sole
<1>2. /\ l \in Listeners /\ b \in Buffer /\ wire[s] \in Seq(Commands)
      /\ listener'[s] \in Listeners /\ redis.hour \in Hours /\ log \in Logs
      /\ Had(s) \in SUBSET Jobs
  <2>1. /\ listener \in [Servers -> Listeners] /\ cache \in [Servers -> Caches]
        /\ wire \in [Servers -> Seq(Commands)] /\ log \in Logs
        /\ redis \in [minute : Minute, hour : Hours, counts : Nat]
    BY Types
  <2>2. listener' \in [Servers -> Listeners]
    BY DEF TypeOK, Listeners
  <2> QED
    BY <2>1, <2>2 DEF Caches, Had
<1>3. /\ l.nextFlush \in 0..MaxMinute /\ S \in SUBSET Jobs
      /\ WriteStats(s, S, l.nextFlush)
      /\ UNCHANGED <<isOwner, replies, redis>>
  BY UpdateStatsTypes, ListenerType, <1>2 DEF UpdateStats
<1>4. /\ listener'[s].seen = l.seen + 1 /\ listener'[s].stats = {l.seen + 1}
      /\ listener'[s].nextFlush = l.nextFlush + 1
  BY UpdateStatsTypes
<1>5. /\ cache'[s].buffer = c /\ wire'[s] = Append(wire[s], g) /\ g \in Gets
      /\ \A u \in Servers \ {s} : cache'[u] = cache[u] /\ wire'[u] = wire[u]
      /\ log' = [log EXCEPT !.taken = @ \cup ({s} \X S), !.overlapped = @ \/ Busy]
  BY <1>1, <1>3, WriteStatsEffect
<1>6. /\ log'.changes = log.changes /\ log'.written = log.written
      /\ log'.taken = log.taken \cup ({s} \X S)
      /\ ~log'.overlapped => ~log.overlapped /\ ~Busy
  BY <1>2, <1>5, Zenon DEF Logs
<1>7. /\ Had(s)' = Had(s) \cup S /\ Done(s)' = Done(s)
      /\ \A t \in Servers : t # s => Had(t)' = Had(t) /\ Done(t)' = Done(t)
  BY <1>3, <1>6 DEF Had, Done
<1>8. \A t \in Servers : t # s => Quiet(t)'
  BY <1>1, <1>3, <1>5, <1>7 DEF Quiet
<1>9. /\ JobsIn(c) = JobsIn(b) \cup S
      /\ MinutesIn(c) \subseteq MinutesIn(b) \cup {l.nextFlush}
      /\ \A j \in Had(s) : j \notin S
  <2>1. Collected(l, b, wire[s], Done(s)) /\ Asked(l, wire[s], replies[s], Had(s))
    BY DEF CollectedInv, AskedInv
  <2>2. /\ Sound(b, l) /\ \A j \in l.stats : j <= l.seen
        /\ \A j \in Had(s) : j \notin S
    BY <2>1 DEF Collected, Asked
  <2>3. l.seen \in Nat /\ listener'[s].seen >= l.seen /\ \A j \in listener'[s].stats : j > l.seen
    BY <1>2, <1>4, ListenerType
  <2> QED
    BY <1>2, <1>3, <1>4, <2>2, <2>3, BufferedSound
<1>10. Records(listener'[s], c, wire'[s], redis.minute, Done(s), Had(s) \cup S)
  <2> DEFINE n == listener'[s]
             w == wire[s]
  <2>1. n \in Listeners /\ n.nextFlush = l.nextFlush + 1 /\ S = l.stats
    BY <1>2, <1>4
  <2>2. Records(l, b, w, redis.minute, Done(s), Had(s)) /\ w \in Seq(Commands) /\ l \in Listeners
    BY <1>1, <1>2
  <2>3. wire'[s] = Append(w, g) /\ g \in Gets
    BY <1>5
  <2> HIDE DEF c, b, g, l, n, w, S
  <2>4. Records(n, c, Append(w, g), redis.minute, Done(s), Had(s) \cup S)
    BY <1>9, <2>1, <2>2, <2>3, RecordsSnapped
  <2> QED
    BY <2>3, <2>4 DEF n
<1>11. ASSUME ~log'.overlapped
       PROVE  Exact(wire'[s], replies[s], c.hour, redis.hour, Had(s) \cup S)
  <2>1. ~log.overlapped /\ wire[s] = <<>> /\ replies[s] = <<>> /\ b = Empty
    BY <1>1, <1>6, <1>11 DEF Busy, IsChanged
  <2>2. b.hour = NoHour /\ c.hour = b.hour
    BY <2>1, EmptyType DEF Buffered
  <2>3. g.source = S
    OBVIOUS
  <2> HIDE DEF c, b, g, S
  <2>4. Exact(Append(<<>>, g), <<>>, NoHour, redis.hour, Had(s) \cup g.source)
    BY <1>1, <1>2, <1>5, <1>9, <2>1, <2>2, <2>3, ExactStarts
  <2> QED
    BY <1>5, <2>1, <2>2, <2>3, <2>4
<1> QED
  BY <1>1, <1>3, <1>5, <1>6, <1>7, <1>8, <1>10, <1>11 DEF Sole

\* The only owner has no roll-up but one.
LEMMA SoleHasOne ==
  ASSUME RollupInv, NEW s \in Servers, Sole(s), ~log.overlapped
  PROVE  OneRollup(wire[s], replies[s], cache[s].buffer.hour)
BY DEF RollupInv, Sole, HourOf

\* Without faults, and as long as the lock stays with it, the only owner stays the only one.
LEMMA SoleStep ==
  ASSUME TypeOK, TypeOK', CollectedInv, AskedInv, RollupInv, [Next]_vars,
         NEW s \in Servers, Sole(s), log.changes = 1, log'.changes <= 1, log'.faults = 0
  PROVE  log'.changes = 1 /\ Sole(s)'
<1> DEFINE l == listener[s]
           b == cache[s].buffer
           w == wire[s]
           r == replies[s]
           Kept == /\ Records(listener'[s], cache'[s].buffer, wire'[s], redis'.minute,
                              Done(s)', Had(s)')
                   /\ ~log'.overlapped =>
                        Exact(wire'[s], replies'[s], cache'[s].buffer.hour, redis'.hour, Had(s)')
           Goal == log'.changes = 1 /\ Sole(s)'
<1>1. /\ isOwner[s] /\ \A t \in Servers : t # s => Quiet(t)
      /\ Records(l, b, w, redis.minute, Done(s), Had(s))
      /\ ~log.overlapped => Exact(w, r, b.hour, redis.hour, Had(s))
      /\ ~log.overlapped => OneRollup(w, r, b.hour)
  BY SoleHasOne DEF Sole
<1>2. /\ l \in Listeners /\ b \in Buffer /\ w \in Seq(Commands) /\ r \in Seq(Answers)
      /\ listener'[s] \in Listeners /\ redis.hour \in Hours /\ redis.minute \in Minute
      /\ log \in Logs
      /\ Collected(l, b, w, Done(s))
  <2>1. /\ listener \in [Servers -> Listeners] /\ cache \in [Servers -> Caches]
        /\ wire \in [Servers -> Seq(Commands)] /\ replies \in [Servers -> Seq(Answers)]
        /\ log \in Logs /\ redis \in [minute : Minute, hour : Hours, counts : Nat]
    BY Types
  <2>2. listener' \in [Servers -> Listeners]
    BY DEF TypeOK, Listeners
  <2> QED
    BY <2>1, <2>2 DEF Caches, CollectedInv
\* Another server has nothing to do but to listen.
<1>3. ASSUME NEW t \in Servers, t # s
      PROVE  /\ ~isOwner[t] /\ wire[t] = <<>> /\ replies[t] = <<>>
             /\ ~IsChanged(cache[t].buffer)
  BY <1>1, <1>3 DEF Quiet, IsChanged
<1>4. ASSUME UNCHANGED isOwner, log'.changes = log.changes,
             \A t \in Servers \ {s} : /\ wire'[t] = wire[t] /\ replies'[t] = replies[t]
                                      /\ cache'[t].buffer = cache[t].buffer
                                      /\ Had(t)' = Had(t) /\ Done(t)' = Done(t),
             Kept
      PROVE  Goal
  <2>1. \A t \in Servers : t # s => Quiet(t)'
    BY <1>1, <1>4 DEF Quiet
  <2> QED
    BY <1>1, <1>4, <2>1 DEF Sole
<1>5. ASSUME UNCHANGED <<isOwner, cache, wire, replies, redis, log>>,
             listener'[s].nextFlush >= l.nextFlush
      PROVE  Goal
  <2>1. Records(listener'[s], b, w, redis.minute, Done(s), Had(s))
    BY <1>1, <1>2, <1>5, RecordsHeard
  <2>2. \A t \in Servers : Had(t)' = Had(t) /\ Done(t)' = Done(t)
    BY <1>5 DEF Had, Done
  <2> QED
    BY <1>1, <1>4, <1>5, <2>1, <2>2
<1>6. l.nextFlush \in Nat
  BY <1>2, ListenerType
<1>7. ASSUME NEW t \in Servers, UpdateStats(t) PROVE Goal
  <2>1. UNCHANGED <<isOwner, replies, redis>>
    BY <1>7 DEF UpdateStats
  <2>2. CASE t # s
    <3>1. UNCHANGED <<cache, wire, log>>
      BY <1>3, <1>7, <2>2 DEF UpdateStats, WriteStats
    <3>2. listener'[s].nextFlush >= l.nextFlush
      BY <1>6, <1>7, <2>2, UpdateStatsTypes
    <3> QED
      BY <1>5, <2>1, <3>1, <3>2
  <2>3. CASE t = s /\ NeedsFlush(l, finished[l.seen + 1]) /\ l.stats # {}
    BY <1>7, <2>3, SoleEndsMinute
  <2>4. CASE t = s /\ ~(NeedsFlush(l, finished[l.seen + 1]) /\ l.stats # {})
    <3>1. UNCHANGED <<cache, wire, log>>
      BY <1>7, <2>4 DEF UpdateStats, WriteStats
    <3>2. listener'[s].nextFlush >= l.nextFlush
      BY <1>6, <1>7, <2>4, UpdateStatsTypes
    <3> QED
      BY <1>5, <2>1, <3>1, <3>2
  <2> QED
    BY <2>2, <2>3, <2>4
<1>8. ASSUME NEW t \in Servers, Rollup(t) PROVE Goal
  <2>1. t = s
    BY <1>3, <1>8, RollupEffect
  <2>2. /\ UNCHANGED <<isOwner, listener, wire, redis, log>>
        /\ r # <<>> /\ replies'[s] = Tail(r) /\ Head(r) \in GetReplies
        /\ \A u \in Servers \ {s} : cache'[u] = cache[u] /\ replies'[u] = replies[u]
        /\ cache'[s].buffer.minutes = b.minutes
        /\ \/ cache' = cache /\ Head(r).base = NoHour
           \/ cache'[s].buffer.hour = RolledUp(Head(r).source, Head(r).base)
    BY <1>1, <1>8, <2>1, RollupEffect
  <2>3. \A u \in Servers : Had(u)' = Had(u) /\ Done(u)' = Done(u)
    BY <2>2 DEF Had, Done
  <2>4. Records(l, cache'[s].buffer, w, redis.minute, Done(s), Had(s))
    BY <1>1, <2>2, RecordsSame
  <2>5. ASSUME ~log.overlapped
        PROVE  Exact(w, Tail(r), cache'[s].buffer.hour, redis.hour, Had(s))
    BY <1>1, <1>2, <2>2, <2>5, ExactHandled
  <2>6. Kept
    BY <2>2, <2>3, <2>4, <2>5
  <2> QED
    BY <1>4, <2>2, <2>3, <2>6
<1>9. ASSUME NEW t \in Servers, Flush(t) PROVE Goal
  <2> DEFINE x == [type |-> "exec", buffer |-> b]
  <2>1. t = s
    BY <1>3, <1>9 DEF Flush
  <2>2. /\ UNCHANGED <<isOwner, listener, redis, replies, log>>
        /\ x \in Execs /\ x.buffer = b
        /\ cache'[s].buffer = Empty /\ wire'[s] = Append(w, x)
        /\ \A u \in Servers \ {s} : cache'[u] = cache[u] /\ wire'[u] = wire[u]
    BY <1>9, <2>1, FlushEffect
  <2>3. \A u \in Servers : Had(u)' = Had(u) /\ Done(u)' = Done(u)
    BY <2>2 DEF Had, Done
  <2> HIDE DEF x
  <2>4. Records(l, Empty, Append(w, x), redis.minute, Done(s), Had(s))
    BY <1>1, <1>2, <2>2, RecordsSent
  <2>5. ASSUME ~log.overlapped
        PROVE  Exact(Append(w, x), r, Empty.hour, redis.hour, Had(s))
    BY <1>1, <1>2, <2>2, <2>5, ExactSent, EmptyType
  <2>6. Kept
    BY <2>2, <2>3, <2>4, <2>5
  <2> QED
    BY <1>4, <2>2, <2>3, <2>6
<1>10. ASSUME NEW t \in Servers, Discard(t) PROVE FALSE
  BY <1>1, <1>3, <1>10 DEF Discard
<1>11. ASSUME NEW t \in Servers, Flushed(t) PROVE Goal
  <2>1. t = s
    BY <1>3, <1>11, FlushedEffect
  <2>2. /\ UNCHANGED <<isOwner, listener, wire, redis, log>>
        /\ r # <<>> /\ replies'[s] = Tail(r) /\ Head(r) \in ExecReplies
        /\ \A u \in Servers \ {s} : replies'[u] = replies[u]
        /\ \A u \in Servers : cache'[u].buffer = cache[u].buffer
    BY <1>11, <2>1, FlushedEffect
  <2>3. \A u \in Servers : Had(u)' = Had(u) /\ Done(u)' = Done(u)
    BY <2>2 DEF Had, Done
  <2>4. ASSUME ~log.overlapped
        PROVE  Exact(w, Tail(r), b.hour, redis.hour, Had(s))
    BY <1>1, <1>2, <2>2, <2>4, ExactFlushed
  <2>5. Kept
    BY <1>1, <2>2, <2>3, <2>4
  <2> QED
    BY <1>4, <2>2, <2>3, <2>5
<1>12. ASSUME NEW t \in Servers, Execute(t) PROVE Goal
  <2>1. t = s
    BY <1>3, <1>12, ExecuteEffect
  <2>2. /\ UNCHANGED <<isOwner, listener, cache>>
        /\ w # <<>> /\ wire'[s] = Tail(w)
        /\ \A u \in Servers \ {s} : wire'[u] = wire[u] /\ replies'[u] = replies[u]
    BY <1>12, <2>1, ExecuteEffect
  <2>3. CASE Head(w) \in Gets
    <3> DEFINE a == [type |-> "get", source |-> Head(w).source, base |-> redis.hour]
    <3>1. UNCHANGED <<redis, log>> /\ replies'[s] = Append(r, a)
      BY <1>12, <2>1, <2>3, ExecuteEffect DEF Gets, Execs
    <3>2. a \in Answers /\ a.type = "get" /\ a.source = Head(w).source /\ a.base = redis.hour
      BY <1>2, <2>3 DEF Answers, GetReplies, Gets
    <3> HIDE DEF a
    <3>3. \A u \in Servers : Had(u)' = Had(u) /\ Done(u)' = Done(u)
      BY <3>1 DEF Had, Done
    <3>4. Records(l, b, Tail(w), redis.minute, Done(s), Had(s))
      BY <1>1, <1>2, <2>2, <2>3, RecordsRead DEF Gets
    <3>5. redis.hour # NoHour
      BY <1>2, NoHourType
    <3>6. ASSUME ~log.overlapped
          PROVE  Exact(Tail(w), Append(r, a), b.hour, redis.hour, Had(s))
      BY <1>1, <1>2, <2>2, <2>3, <3>2, <3>5, <3>6, ExactRead
    <3>7. Kept
      BY <2>2, <3>1, <3>3, <3>4, <3>6
    <3> QED
      BY <1>4, <2>2, <3>1, <3>3, <3>7
  <2>4. CASE Head(w) \in Execs
    <3> DEFINE a == [type |-> "exec", failed |-> FALSE]
               x == Head(w).buffer
    <3>1. /\ replies'[s] = Append(r, a) /\ redis' = Applied(redis, x)
          /\ log'.written = log.written \cup ({s} \X JobsIn(x))
          /\ log'.taken = log.taken /\ log'.changes = log.changes
          /\ log'.overlapped = log.overlapped
      BY <1>12, <2>1, <2>4, ExecuteEffect DEF Gets, Execs
    <3>2. a \in Answers /\ a.type # "get"
      BY DEF Answers, ExecReplies
    <3> HIDE DEF a
    <3>3. x \in Buffer /\ JobsIn(x) \in SUBSET Jobs
      BY <2>4, JobsInType DEF Execs
    <3>4. /\ Had(s)' = Had(s) /\ Done(s)' = Done(s) \cup JobsIn(x)
          /\ \A u \in Servers \ {s} : Had(u)' = Had(u) /\ Done(u)' = Done(u)
      BY <3>1, <3>3 DEF Had, Done
    <3>5. /\ redis'.hour = IF x.hour = NoHour THEN redis.hour ELSE x.hour
          /\ \A m \in 0..MaxMinute :
               redis'.minute[m] = IF x.minutes[m] = {} THEN redis.minute[m] ELSE x.minutes[m]
      BY <3>1 DEF Applied
    <3>6. Records(l, b, Tail(w), redis'.minute, Done(s) \cup JobsIn(x), Had(s))
      BY <1>1, <1>2, <2>2, <2>4, <3>5, RecordsWritten
    <3>7. ASSUME ~log.overlapped
          PROVE  Exact(Tail(w), Append(r, a), b.hour, redis'.hour, Had(s))
      BY <1>1, <1>2, <2>2, <2>4, <3>2, <3>5, <3>7, ExactWritten
    <3>8. Kept
      BY <2>2, <3>1, <3>4, <3>6, <3>7
    <3> QED
      BY <1>4, <2>2, <3>1, <3>4, <3>8
  <2> QED
    BY <1>12, <2>1, <2>3, <2>4, ExecuteEffect
<1>13. ASSUME NEW t \in Servers, Acquire(t) PROVE FALSE
  BY <1>1, <1>13 DEF Acquire
<1>14. ASSUME NEW t \in Servers, Lose(t) PROVE FALSE
  <2>1. log'.changes = log.changes + 1
    BY <1>2, <1>14 DEF Lose, Logs
  <2> QED
    BY <2>1
<1>15. ASSUME NEW t \in Servers, Fail(t) \/ Crash(t) PROVE FALSE
  <2>1. log'.faults = log.faults + 1
    BY <1>15, FailEffect, CrashEffect
  <2>2. log.faults \in Nat
    BY <1>2, StatsAssumption DEF Logs
  <2> QED
    BY <2>1, <2>2
<1>16. CASE UNCHANGED vars \/ \E m \in Minutes : Finish(m)
  <2>1. UNCHANGED <<isOwner, listener, cache, wire, replies, redis, log>>
    BY <1>16 DEF vars, Finish
  <2> QED
    BY <1>5, <1>6, <2>1
<1> QED
  BY <1>7, <1>8, <1>9, <1>10, <1>11, <1>12, <1>13, <1>14, <1>15, <1>16 DEF Next, Step

\* Changes of the owner, and faults, are never fewer.
LEMMA LogGrows ==
  ASSUME TypeOK, TypeOK', [Next]_vars
  PROVE  log'.changes >= log.changes /\ log'.faults >= log.faults
<1>1. log \in Logs /\ log.changes \in Nat /\ log.faults \in Nat
  BY Types, StatsAssumption DEF Logs
<1>2. CASE UNCHANGED log
  BY <1>1, <1>2
<1>3. ASSUME NEW s \in Servers, UpdateStats(s)
      PROVE  log'.changes = log.changes /\ log'.faults = log.faults
  <2>1. \/ UNCHANGED log
        \/ \E jobs : log' = [log EXCEPT !.taken = @ \cup ({s} \X jobs), !.overlapped = @ \/ Busy]
    BY <1>3 DEF UpdateStats, WriteStats
  <2> QED
    BY <1>1, <2>1, Zenon DEF Logs
<1>4. ASSUME NEW s \in Servers, Acquire(s)
      PROVE  log'.changes = log.changes + 1 /\ log'.faults = log.faults
  BY <1>1, <1>4, Zenon DEF Acquire, Logs
<1>5. ASSUME NEW s \in Servers, Lose(s)
      PROVE  log'.changes = log.changes + 1 /\ log'.faults = log.faults
  BY <1>1, <1>5 DEF Lose, Logs
<1>6. ASSUME NEW s \in Servers, Execute(s)
      PROVE  log'.changes = log.changes /\ log'.faults = log.faults
  BY <1>6, ExecuteEffect
<1>7. ASSUME NEW s \in Servers, Fail(s) \/ Crash(s)
      PROVE  log'.changes = log.changes /\ log'.faults = log.faults + 1
  BY <1>7, FailEffect, CrashEffect
<1>8. ASSUME NEW s \in Servers, Rollup(s) \/ Flush(s) \/ Discard(s) \/ Flushed(s)
      PROVE  UNCHANGED log
  BY <1>8 DEF Rollup, Flush, Discard, Flushed
<1>9. UNCHANGED vars \/ (\E m \in Minutes : Finish(m)) => UNCHANGED log
  BY DEF vars, Finish
<1> QED
  BY <1>1, <1>2, <1>3, <1>4, <1>5, <1>6, <1>7, <1>8, <1>9 DEF Next, Step

\* SoleInv is kept.
LEMMA SoleInvStep ==
  TypeOK /\ TypeOK' /\ CollectedInv /\ AskedInv /\ RollupInv /\ SoleInv /\ [Next]_vars
    => SoleInv'
<1> SUFFICES ASSUME TypeOK, TypeOK', CollectedInv, AskedInv, RollupInv, SoleInv, [Next]_vars,
                    log'.changes <= 1, log'.faults = 0
             PROVE  \/ /\ log'.changes = 0 /\ \A t \in Servers : Quiet(t)'
                       /\ redis'.hour = None /\ redis'.minute = NoMinutes
                    \/ log'.changes = 1 /\ \E s \in Servers : Sole(s)'
  BY DEF SoleInv
<1>1. log.changes <= 1 /\ log.faults = 0
  <2>1. log.changes \in Nat /\ log.faults \in Nat
    BY Types, StatsAssumption DEF Logs
  <2>2. log'.changes \in Nat
    BY StatsAssumption DEF TypeOK
  <2> QED
    BY <2>1, <2>2, LogGrows
<1> QED
  BY <1>1, SoleStep, QuietStep DEF SoleInv

\* What a run without faults and changes of the owner shows, at rest and not.
LEMMA SoleMatches ==
  ASSUME TypeOK, SoleInv
  PROVE  /\ RecordedOnce
         /\ (Idle /\ log.changes <= 1 /\ log.faults = 0 /\ ~log.overlapped)
              => \A j \in Jobs : redis.hour[j] = Times(log.written, j)
<1>1. RecordedOnce
  <2> SUFFICES ASSUME log.changes <= 1, log.faults = 0, NEW j \in Jobs
               PROVE  /\ \A m, n \in 0..MaxMinute :
                           j \in redis.minute[m] \cap redis.minute[n] => m = n
                      /\ (\E m \in 0..MaxMinute : j \in redis.minute[m])
                           <=> \E s \in Servers : <<s, j>> \in log.written
    BY DEF RecordedOnce
  <2>1. CASE (\A t \in Servers : Quiet(t)) /\ redis.minute = NoMinutes
    BY <2>1 DEF Quiet, Done, NoMinutes
  <2>2. ASSUME NEW s \in Servers, Sole(s)
        PROVE  /\ \A m, n \in 0..MaxMinute :
                    j \in redis.minute[m] \cap redis.minute[n] => m = n
               /\ (\E m \in 0..MaxMinute : j \in redis.minute[m])
                    <=> \E u \in Servers : <<u, j>> \in log.written
    <3>1. \A u \in Servers : <<u, j>> \in log.written => u = s
      BY <2>2 DEF Sole, Quiet, Done
    <3>2. <<s, j>> \in log.written <=> j \in Done(s)
      BY DEF Done
    <3>3. Records(listener[s], cache[s].buffer, wire[s], redis.minute, Done(s), Had(s))
      BY <2>2 DEF Sole
    <3> QED
      BY <3>1, <3>2, <3>3 DEF Records
  <2> QED
    BY <2>1, <2>2 DEF SoleInv
<1>2. ASSUME Idle, log.changes <= 1, log.faults = 0, ~log.overlapped, NEW j \in Jobs
      PROVE  redis.hour[j] = Times(log.written, j)
  <2> DEFINE R == {s \in Servers : <<s, j>> \in log.written}
  <2>1. CASE (\A t \in Servers : Quiet(t)) /\ redis.hour = None
    <3>1. R = {}
      BY <2>1 DEF Quiet, Done
    <3>2. Cardinality(R) = 0
      BY <3>1, FS_EmptySet
    <3> QED
      BY <2>1, <3>2 DEF Times, None
  <2>2. ASSUME NEW s \in Servers, Sole(s)
        PROVE  redis.hour[j] = Times(log.written, j)
    <3>1. /\ wire[s] = <<>> /\ replies[s] = <<>> /\ cache[s].buffer = Empty
      BY <1>2 DEF Idle, IsChanged
    <3>2. /\ Records(listener[s], Empty, <<>>, redis.minute, Done(s), Had(s))
          /\ Exact(<<>>, <<>>, NoHour, redis.hour, Had(s))
      BY <1>2, <2>2, <3>1, EmptyType DEF Sole
    <3>3. j \in Had(s) <=> j \in Done(s)
      BY <3>2, EmptySound DEF Records
    <3>4. redis.hour[j] + 0 = One(Had(s), j) /\ redis.hour[j] \in Nat
      <4>1. redis.hour \in Hours
        BY Types
      <4>2. Sums(redis.hour, {}, Had(s))
        BY <3>2 DEF Exact
      <4> QED
        BY <4>1, <4>2 DEF Sums, One, Hours
    <3>5. \A u \in Servers : <<u, j>> \in log.written => u = s
      BY <2>2 DEF Sole, Quiet, Done
    <3>6. CASE j \in Done(s)
      <4>1. R = {s}
        BY <3>5, <3>6 DEF Done
      <4>2. Cardinality(R) = 1
        BY <4>1, FS_Singleton
      <4> QED
        BY <3>3, <3>4, <3>6, <4>2 DEF One, Times
    <3>7. CASE j \notin Done(s)
      <4>1. R = {}
        BY <3>5, <3>7 DEF Done
      <4>2. Cardinality(R) = 0
        BY <4>1, FS_EmptySet
      <4> QED
        BY <3>3, <3>4, <3>7, <4>2 DEF One, Times
    <3> QED
      BY <3>6, <3>7
  <2> QED
    BY <1>2, <2>1, <2>2 DEF SoleInv
<1> QED
  BY <1>1, <1>2

\* The hour counts a job no more often than owners have taken it.
LEMMA HourBelowTaken ==
  ASSUME TypeOK, HoursInv, NEW j \in Jobs
  PROVE  redis.hour[j] <= Times(log.taken, j)
<1> DEFINE T == {s \in Servers : <<s, j>> \in log.taken}
<1>1. redis.hour \in Hours /\ redis.hour # NoHour
  BY Types, NoHourType
<1>2. redis.hour[j] \in Nat /\ redis.hour[j] <= Cardinality(Rolled(j))
  BY <1>1 DEF HoursInv, Below, Tally, Hours
<1>3. IsFiniteSet(T) /\ Rolled(j) \subseteq T
  BY StatsAssumption, FS_Subset DEF Rolled
<1>4. /\ Cardinality(Rolled(j)) <= Cardinality(T)
      /\ Cardinality(Rolled(j)) \in Nat /\ Cardinality(T) \in Nat
  BY <1>3, FS_Subset, FS_CardinalityType
<1> QED
  BY <1>2, <1>4 DEF Times

\* What is kept by every step, together.
LEMMA AllKept == Spec => [](AskedInv /\ HoursInv /\ RollupInv /\ SoleInv)
<1>1. TypeOK /\ TypeOK' /\ CollectedInv /\ (AskedInv /\ HoursInv) /\ [Next]_vars
        => (AskedInv /\ HoursInv)'
  BY HoursStep
<1>2. TypeOK /\ TypeOK' /\ RollupInv /\ [Next]_vars => RollupInv'
  BY RollupStep
<1>3. Init => AskedInv /\ HoursInv /\ RollupInv /\ SoleInv
  BY AskedInit, RollupInit, SoleInit
<1> QED
  BY <1>1, <1>2, <1>3, SoleInvStep, CollectedOnce, TypeCorrectness, PTL DEF Spec

\* HourMatchesRecords holds: whatever is known of the hour counts a job at most once for
\* each owner that has rolled it up; and the roll-up of the only owner, if none overlapped
\* another, is the hour that was in Redis and the jobs that it does not have yet.
THEOREM HourMatches == Spec => []HourMatchesRecords
<1>1. TypeOK /\ HoursInv /\ SoleInv => HourMatchesRecords
  BY HourBelowTaken, SoleMatches DEF HourMatchesRecords
<1> QED
  BY <1>1, AllKept, TypeCorrectness, PTL

\* RecordedOnce holds: the minutes of the only owner are written once and in their order,
\* and what it has taken is in Redis, in a transaction or in the buffer.
THEOREM RecordedOnceHolds == Spec => []RecordedOnce
<1>1. TypeOK /\ SoleInv => RecordedOnce
  BY SoleMatches
<1> QED
  BY <1>1, AllKept, TypeCorrectness, PTL
=============================================================================
