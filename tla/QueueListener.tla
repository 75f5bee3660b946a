--------------------------- MODULE QueueListener ---------------------------
(***************************************************************************)
(* What turns the events of a queue's jobs into durations:                 *)
(* src/src/server/queues/queue-listener.ts.  The listener reads the events *)
(* that BullMQ publishes, keeps what it learns of a job in a cache, and    *)
(* emits every finished job with its latency and its wait.  What it does   *)
(* not know it fetches from the job's hash, while it handles other events  *)
(* and the job's hash may change.                                          *)
(*                                                                         *)
(* A time is the position of an event in the stream.  The queue itself is  *)
(* external; an id names one job for ever.                                 *)
(***************************************************************************)
EXTENDS Integers, Sequences, FiniteSetsExt

CONSTANTS
  Jobs,
  NotANumber,   \* NaN, the duration between times that are not both known
  MaxEvents,    \* bound: events of the queue
  MaxFaults     \* bound: pipelines that fail

ASSUME BoundsAssumption == MaxEvents \in Nat \ {0} /\ MaxFaults \in Nat

VARIABLES
  stream,   \* the queue's events: job and kind
  hash,     \* per job: its state and its times in Redis
  heard,    \* how many events were handled or missed, or NotListening
  cache,    \* per job: its object in the cache, or NoObject
  objects,  \* what the objects know, by the event that created them
  wire,     \* the fetches of job data that have not returned
  log       \* history: missed events, emitted and lost finishes, faults, and
            \* hidden, the starts that a late reply may write over

vars == <<stream, hash, heard, cache, objects, wire, log>>

-----------------------------------------------------------------------------
Missing == 0
NotListening == -1
NoObject == 0

NoTimes == [timestamp |-> Missing, processedOn |-> Missing, finishedOn |-> Missing]
Gone == [state |-> "gone", times |-> NoTimes]
NewObject == [times |-> NoTimes, named |-> FALSE]

Kinds == {"waiting", "active", "finished", "removed"}

EventsOf(j) == {i \in DOMAIN stream : stream[i].job = j}

Init ==
  /\ stream = <<>>
  /\ hash = [j \in Jobs |-> Gone]
  /\ heard = NotListening
  /\ cache = [j \in Jobs |-> NoObject]
  /\ objects = [o \in 1..MaxEvents |-> NewObject]
  /\ wire = <<>>
  /\ log = [missed |-> 0, emitted |-> {}, lost |-> {}, faults |-> 0, hidden |-> {}]

-----------------------------------------------------------------------------
(* The queue.                                                               *)

Now == Len(stream) + 1

Publish(j, kind, newHash) ==
  /\ Len(stream) < MaxEvents
  /\ stream' = Append(stream, [job |-> j, kind |-> kind])
  /\ hash' = [hash EXCEPT ![j] = newHash]
  /\ UNCHANGED <<heard, cache, objects, wire, log>>

Add(j) ==
  /\ EventsOf(j) = {}
  /\ Publish(j, "waiting", [state |-> "waiting", times |-> [NoTimes EXCEPT !.timestamp = Now]])

Activate(j) ==
  /\ hash[j].state = "waiting"
  /\ Publish(j, "active", [hash[j] EXCEPT !.state = "active", !.times.processedOn = Now])

\* A job is kept when it finishes, or removed.
Finish(j) ==
  /\ hash[j].state = "active"
  /\ \/ Publish(j, "finished", [hash[j] EXCEPT !.state = "finished", !.times.finishedOn = Now])
     \/ Publish(j, "finished", Gone)

\* A stalled job waits again, and one with attempts left.
Again(j) ==
  /\ hash[j].state = "active"
  /\ Publish(j, "waiting", [hash[j] EXCEPT !.state = "waiting"])

\* Job.retry()
Retry(j) ==
  /\ hash[j].state = "finished"
  /\ Publish(j, "waiting",
       [hash[j] EXCEPT !.state = "waiting", !.times.processedOn = Missing,
                       !.times.finishedOn = Missing])

Remove(j) ==
  /\ hash[j].state \in {"waiting", "finished"}
  /\ Publish(j, "removed", Gone)

-----------------------------------------------------------------------------
(* The listener.                                                            *)

\* startListening(), at '$': earlier events are missed.
Listen ==
  /\ heard = NotListening
  /\ heard' = Len(stream)
  /\ log' = [log EXCEPT !.missed = Len(stream)]
  /\ UNCHANGED <<stream, hash, cache, objects, wire>>

Known(object, field, ts) ==
  IF object.times[field] = Missing THEN [object EXCEPT !.times[field] = ts] ELSE object

\* Mutant: keeps the first start of a job.
handleActiveOnce(object, ts) == Known(object, "processedOn", ts)

\* The event's prev is always there.
handleActive(object, ts) == [object EXCEPT !.times.processedOn = ts]

\* handleWaiting() and handleDelayed(): data.prevState is never there.
handleWaiting(object, ts) == Known(object, "timestamp", ts)

markFinished(object, ts) == [object EXCEPT !.times.finishedOn = ts]

Handled(object, kind, ts) ==
  CASE kind = "active" -> handleActive(object, ts)
    [] kind = "waiting" -> handleWaiting(object, ts)
    [] kind = "finished" -> markFinished(object, ts)
    [] kind = "removed" -> object

needsMeta(object) == ~object.named \/ \E field \in DOMAIN NoTimes : object.times[field] = Missing

Between(from, to) == IF Missing \in {from, to} THEN NotANumber ELSE to - from

\* What is emitted for the finish i with the object o; the rest is history:
\* whether its data were fetched and the job was gone, and whether it was retried.
Emitted(i, o, known, gone) ==
  LET j == stream[i].job
  IN [finish |-> i,
      latency |-> Between(known.times.processedOn, known.times.finishedOn),
      wait |-> Between(known.times.timestamp, known.times.processedOn),
      object |-> o,
      gone |-> gone,
      retried |-> \E k \in EventsOf(j) : k > i /\ stream[k].kind = "waiting"]

Fetching(o) == \E f \in DOMAIN wire : wire[f].object = o

\* The handler of an event, up to where a finished job's data are fetched.  The
\* microtasks of an earlier reply have run.
Handle ==
  /\ heard \in 0..(Len(stream) - 1)
  /\ \A f \in DOMAIN wire : wire[f].state # "answered"
  /\ LET i == heard + 1
         j == stream[i].job
         kind == stream[i].kind
         o == IF cache[j] = NoObject THEN i ELSE cache[j]
         object == Handled(objects[o], kind, i)
         fetches == kind = "finished" /\ needsMeta(object)
     IN /\ heard' = i
        /\ objects' = [objects EXCEPT ![o] = object]
        /\ cache' = [cache EXCEPT ![j] = IF kind = "removed" THEN NoObject ELSE o]
        /\ wire' = IF fetches
                     THEN Append(wire, [object |-> o, finish |-> i, state |-> "sent", hash |-> Gone])
                     ELSE wire
        /\ log' = [log EXCEPT
             !.hidden = IF kind = "active" /\ Fetching(o) THEN @ \cup {i} ELSE @,
             !.emitted = IF kind = "finished" /\ ~fetches
                           THEN @ \cup {Emitted(i, o, object, FALSE)} ELSE @]
  /\ UNCHANGED <<stream, hash>>

\* The cache has a maximum size and age.
Evict(j) ==
  /\ cache[j] # NoObject
  /\ cache' = [cache EXCEPT ![j] = NoObject]
  /\ UNCHANGED <<stream, hash, heard, objects, wire, log>>

\* Mutant: a new fetch takes the place of the ones that have not returned.
LatestIn(f, state) == f = Len(wire) /\ wire[f].state = state

\* The first fetch in the given state
FirstIn(f, state) ==
  f \in DOMAIN wire /\ wire[f].state = state /\ \A g \in 1..(f - 1) : wire[g].state # state

\* Redis executes the pipeline of a fetch.
Execute ==
  /\ \E f \in DOMAIN wire :
       /\ FirstIn(f, "sent")
       /\ wire' = [wire EXCEPT ![f].state = "executed",
                               ![f].hash = hash[stream[wire[f].finish].job]]
  /\ UNCHANGED <<stream, hash, heard, cache, objects, log>>

\* Mutant: writes the whole reply.
LearntWhole(object, reply) == [object EXCEPT !.times = reply]

\* The reply of fetchJobData() is written to the object: the times of a job that
\* has started or finished, its name and its timestamp in any case.
Learnt(object, reply) ==
  [times |-> [field \in DOMAIN NoTimes |->
                IF field # "timestamp" /\ reply.times[field] = Missing
                  THEN object.times[field] ELSE reply.times[field]],
   named |-> reply.state # "gone"]

Answer ==
  /\ \E f \in DOMAIN wire :
       /\ FirstIn(f, "executed")
       /\ objects' = [objects EXCEPT ![wire[f].object] = Learnt(@, wire[f].hash)]
       /\ wire' = [wire EXCEPT ![f].state = "answered"]
  /\ UNCHANGED <<stream, hash, heard, cache, log>>

\* getDurations() returns to markFinished().
EmitFetched ==
  /\ wire # <<>> /\ Head(wire).state = "answered"
  /\ LET f == Head(wire)
         gone == f.hash.state = "gone"
     IN log' = [log EXCEPT
          !.emitted = @ \cup {Emitted(f.finish, f.object, objects[f.object], gone)}]
  /\ wire' = Tail(wire)
  /\ UNCHANGED <<stream, hash, heard, cache, objects>>

\* The pipeline of a fetch fails, and its finish is not emitted.
Fail ==
  /\ wire # <<>> /\ Head(wire).state \in {"sent", "executed"}
  /\ log.faults < MaxFaults
  /\ log' = [log EXCEPT !.faults = @ + 1, !.lost = @ \cup {Head(wire).finish}]
  /\ wire' = Tail(wire)
  /\ UNCHANGED <<stream, hash, heard, cache, objects>>

Next ==
  \/ \E j \in Jobs :
       \/ Add(j) \/ Activate(j) \/ Finish(j) \/ Again(j) \/ Retry(j) \/ Remove(j)
       \/ Evict(j)
  \/ Listen \/ Handle
  \/ Execute \/ Answer \/ EmitFetched \/ Fail

Spec == Init /\ [][Next]_vars

\* The event loop reads the queue's events, and Redis answers.
FairSpec == Spec /\ WF_vars(Handle) /\ WF_vars(Execute) /\ WF_vars(Answer) /\ WF_vars(EmitFetched)

-----------------------------------------------------------------------------
(* Properties.                                                              *)

Ids == 1..MaxEvents
TimesOfJobs == [DOMAIN NoTimes -> 0..MaxEvents]
Hashes == [state : {"gone", "waiting", "active", "finished"}, times : TimesOfJobs]
Durations == (-MaxEvents)..MaxEvents \cup {NotANumber}

\* The type of every variable.
TypeOK ==
  /\ stream \in Seq([job : Jobs, kind : Kinds]) /\ Len(stream) <= MaxEvents
  /\ hash \in [Jobs -> Hashes]
  /\ heard \in NotListening..Len(stream)
  /\ cache \in [Jobs -> {NoObject} \cup Ids]
  /\ objects \in [Ids -> [times : TimesOfJobs, named : BOOLEAN]]
  /\ wire \in Seq([object : Ids, finish : Ids, state : {"sent", "executed", "answered"},
                   hash : Hashes])
  /\ log.missed \in 0..MaxEvents /\ log.faults \in 0..MaxFaults
  /\ log.lost \subseteq Ids /\ log.hidden \subseteq Ids
  /\ log.emitted \subseteq [finish : Ids, latency : Durations, wait : Durations, object : Ids,
                            gone : BOOLEAN, retried : BOOLEAN]

StartOf(i) ==
  Max({k \in EventsOf(stream[i].job) : k < i /\ stream[k].kind = "active"})

\* Every finished job is emitted with the time since its last start and the time
\* from its creation to that start, whatever was missed, evicted or fetched.  They
\* are not numbers only where the listener asked for the job's data and the job was
\* gone: then there is never a wait, since the reply writes over the creation even if
\* the listener has seen it, and no latency if it has not seen the start.  Nothing is
\* said of a finish that was retried before it was emitted, and of a start that was
\* handled while the data of an earlier finish were fetched: the late reply writes
\* over it.
DurationsRight ==
  \A e \in log.emitted :
    LET start == StartOf(e.finish)
        creation == Min(EventsOf(stream[e.finish].job))
    IN e.retried \/ start \in log.hidden
       \/ /\ e.latency = IF e.gone /\ e.object > start THEN NotANumber ELSE e.finish - start
          /\ e.wait = IF e.gone THEN NotANumber ELSE start - creation

\* Every finish that the listener hears of is emitted once its data are fetched,
\* unless the fetch fails: no finish is forgotten behind another one.
FinishesEmitted ==
  <>[](\A i \in Ids : (i > log.missed /\ i <= heard /\ stream[i].kind = "finished")
                        => i \in {e.finish : e \in log.emitted} \cup log.lost)
=============================================================================
