------------------------ MODULE QueueListenerProofs ------------------------
(***************************************************************************)
(* Theorems about QueueListener, for all sets of jobs and any number of    *)
(* events and faults.                                                      *)
(*                                                                         *)
(* The queue orders the events of a job: a finish follows its start, and   *)
(* after a finish that is not retried the job can only be removed.  What   *)
(* the listener knows of such a finish when it emits it was therefore      *)
(* heard at its start, or fetched after it.                                *)
(***************************************************************************)
EXTENDS QueueListener, TLAPS

\* The only member of a set that is none larger, and none smaller.
LEMMA MinMax ==
  ASSUME NEW S \in SUBSET Nat, NEW x \in S
  PROVE  /\ (\A y \in S : x <= y) => Min(S) = x
         /\ (\A y \in S : y <= x) => Max(S) = x
<1>1. ASSUME \A y \in S : x <= y PROVE Min(S) = x
  <2>1. \A y \in S : (\A z \in S : y =< z) => y = x
    <3> SUFFICES ASSUME NEW y \in S, \A z \in S : y =< z PROVE y = x
      OBVIOUS
    <3>1. y <= x /\ x <= y /\ x \in Nat /\ y \in Nat
      BY <1>1
    <3> QED
      BY <3>1
  <2> QED
    BY <1>1, <2>1 DEF Min
<1>2. ASSUME \A y \in S : y <= x PROVE Max(S) = x
  <2>1. \A y \in S : (\A z \in S : y >= z) => y = x
    <3> SUFFICES ASSUME NEW y \in S, \A z \in S : y >= z PROVE y = x
      OBVIOUS
    <3>1. y <= x /\ y >= x /\ x \in Nat /\ y \in Nat
      BY <1>2
    <3> QED
      BY <3>1
  <2>2. \A z \in S : x >= z
    <3> SUFFICES ASSUME NEW z \in S PROVE x >= z
      OBVIOUS
    <3>1. z <= x /\ z \in Nat /\ x \in Nat
      BY <1>2
    <3> QED
      BY <3>1
  <2> QED
    BY <2>1, <2>2 DEF Max
<1> QED
  BY <1>1, <1>2

-----------------------------------------------------------------------------
(* The queue.                                                               *)

Events == [job : Jobs, kind : Kinds]

Creation(j) == Min(EventsOf(j))

Finishes == {i \in DOMAIN stream : stream[i].kind = "finished"}

\* The job of the finish i has not waited again.
Unretried(i) ==
  \A k \in EventsOf(stream[i].job) : k > i => stream[k].kind # "waiting"

QueueTypes ==
  /\ stream \in Seq(Events) /\ Len(stream) <= MaxEvents
  /\ hash \in [Jobs -> Hashes]

\* The hash of a job that has not gone has its creation, and that of an active one its
\* start, which is its last event.
HashRight(j) ==
  /\ hash[j].state = "gone" => hash[j] = Gone
  /\ hash[j].state # "gone" => EventsOf(j) # {} /\ hash[j].times.timestamp = Creation(j)
  /\ hash[j].state = "active" =>
       LET s == hash[j].times.processedOn
       IN s \in EventsOf(j) /\ stream[s].kind = "active" /\ \A k \in EventsOf(j) : k <= s

\* The first event of a job
FirstEvent(j) == EventsOf(j) # {} =>
  Creation(j) \in EventsOf(j) /\ \A k \in EventsOf(j) : Creation(j) <= k

\* The event before a finish is its start.
StartRight(i) ==
  LET s == StartOf(i) j == stream[i].job
  IN /\ s \in EventsOf(j) /\ s < i /\ stream[s].kind = "active"
     /\ \A k \in EventsOf(j) : k < i => k <= s

\* After a finish that is not retried the job is kept as it finished, or goes.
FinishRight(i) ==
  LET j == stream[i].job
  IN Unretried(i) =>
       /\ \A k \in EventsOf(j) : k > i => stream[k].kind = "removed"
       /\ \/ hash[j].state = "gone"
          \/ /\ hash[j].state = "finished"
             /\ hash[j].times.processedOn = StartOf(i) /\ hash[j].times.finishedOn = i

QueueInv ==
  /\ QueueTypes
  /\ \A j \in Jobs : HashRight(j) /\ FirstEvent(j)
  /\ \A i \in Finishes : StartRight(i) /\ FinishRight(i)

\* What the constants and the stream bound.
LEMMA StreamFacts ==
  ASSUME QueueTypes
  PROVE  /\ MaxEvents \in Nat /\ Len(stream) \in Nat /\ DOMAIN stream = 1..Len(stream)
         /\ DOMAIN stream \in SUBSET Ids /\ DOMAIN stream \in SUBSET Nat
         /\ \A i \in DOMAIN stream : stream[i] \in Events /\ stream[i].job \in Jobs
         /\ \A j : EventsOf(j) \in SUBSET (DOMAIN stream)
         /\ \A i \in DOMAIN stream : i \in EventsOf(stream[i].job)
<1>1. stream \in Seq(Events) /\ Len(stream) <= MaxEvents
  BY DEF QueueTypes
<1>2. MaxEvents \in Nat /\ Len(stream) \in Nat /\ DOMAIN stream = 1..Len(stream)
  BY <1>1, BoundsAssumption
<1>3. DOMAIN stream \in SUBSET Ids /\ DOMAIN stream \in SUBSET Nat
  BY <1>1, <1>2 DEF Ids
<1>4. \A i \in DOMAIN stream : stream[i] \in Events /\ stream[i].job \in Jobs
  <2>1. \A i \in DOMAIN stream : stream[i] \in Events
    BY <1>1
  <2> QED
    BY <2>1 DEF Events
<1> QED
  BY <1>2, <1>3, <1>4 DEF EventsOf

\* An event is published: what is known of the earlier ones stays.
LEMMA StreamGrows ==
  ASSUME QueueInv, NEW e \in Events, stream' = Append(stream, e)
  PROVE  LET n == Len(stream) + 1 IN
         /\ n \notin DOMAIN stream /\ \A i \in DOMAIN stream : i < n
         /\ DOMAIN stream' = DOMAIN stream \cup {n} /\ n \in DOMAIN stream' /\ n \in Nat
         /\ stream' \in Seq(Events) /\ Len(stream') = n
         /\ \A i \in DOMAIN stream : stream'[i] = stream[i]
         /\ stream'[n] = e
         /\ \A j : EventsOf(j)' = IF j = e.job THEN EventsOf(j) \cup {n} ELSE EventsOf(j)
         /\ \A i \in DOMAIN stream : StartOf(i)' = StartOf(i)
         /\ \A j \in Jobs : EventsOf(j) # {} => Creation(j)' = Creation(j)
         /\ EventsOf(e.job) = {} => Creation(e.job)' = n
<1> DEFINE n == Len(stream) + 1
<1>1. /\ Len(stream) \in Nat /\ DOMAIN stream = 1..Len(stream) /\ stream \in Seq(Events)
      /\ DOMAIN stream \in SUBSET Nat
      /\ \A j : EventsOf(j) \in SUBSET (DOMAIN stream)
  BY StreamFacts DEF QueueInv, QueueTypes
<1>2. /\ n \notin DOMAIN stream /\ \A i \in DOMAIN stream : i < n
      /\ n \in Nat
  BY <1>1
<1>3. /\ stream' \in Seq(Events) /\ Len(stream') = n /\ DOMAIN stream' = 1..n
      /\ \A i \in DOMAIN stream : stream'[i] = stream[i]
      /\ stream'[n] = e
  BY <1>1
<1>4. DOMAIN stream' = DOMAIN stream \cup {n}
  BY <1>1, <1>3
<1> HIDE DEF n
<1>5. \A j : EventsOf(j)' = IF j = e.job THEN EventsOf(j) \cup {n} ELSE EventsOf(j)
  BY <1>2, <1>3, <1>4 DEF EventsOf
<1>6. ASSUME NEW i \in DOMAIN stream PROVE StartOf(i)' = StartOf(i)
  <2> DEFINE j == stream[i].job
             old == {k \in EventsOf(j) : k < i /\ stream[k].kind = "active"}
             new == {k \in EventsOf(j)' : k < i /\ stream'[k].kind = "active"}
  <2>1. ~(n < i)
    BY <1>1, <1>2
  <2>2. \A k : k \in EventsOf(j)' /\ k < i <=> k \in EventsOf(j) /\ k < i
    BY <1>5, <2>1
  <2>3. \A k \in EventsOf(j) : stream'[k] = stream[k]
    BY <1>1, <1>3
  <2>4. new = old
    BY <2>2, <2>3
  <2>5. stream'[i].job = j
    BY <1>3
  <2>6. StartOf(i) = Max(old)
    BY DEF StartOf
  <2>7. StartOf(i)' = Max(new)
    BY <2>5 DEF StartOf
  <2> QED
    BY <2>4, <2>6, <2>7
<1>7. ASSUME NEW j \in Jobs, EventsOf(j) # {} PROVE Creation(j)' = Creation(j)
  <2> DEFINE S == EventsOf(j)'
  <2>1. Creation(j) \in EventsOf(j) /\ \A k \in EventsOf(j) : Creation(j) <= k
    BY <1>7 DEF QueueInv, FirstEvent
  <2>2. Creation(j) \in DOMAIN stream /\ Creation(j) < n /\ Creation(j) \in Nat
    BY <1>1, <1>2, <2>1
  <2>3. S \in SUBSET Nat /\ Creation(j) \in S
    BY <1>1, <1>2, <1>5, <2>1
  <2>4. \A k \in S : Creation(j) <= k
    BY <1>2, <1>5, <2>1, <2>2
  <2>5. Min(S) = Creation(j)
    <3> HIDE DEF S
    <3> QED
      BY <2>3, <2>4, MinMax
  <2> QED
    BY <2>5 DEF Creation
<1>8. ASSUME EventsOf(e.job) = {} PROVE Creation(e.job)' = n
  <2>1. EventsOf(e.job)' = {n}
    BY <1>5, <1>8
  <2>2. Min({n}) = n
    BY <1>2, MinMax
  <2> QED
    BY <2>1, <2>2 DEF Creation
<1> QED
  BY <1>2, <1>3, <1>4, <1>5, <1>6, <1>7, <1>8 DEF n

\* Whatever is published of a job keeps the order of its events.
LEMMA PublishKeeps ==
  ASSUME QueueInv, NEW j \in Jobs, NEW kind \in Kinds, NEW h \in Hashes, Publish(j, kind, h),
         h.state = "gone" => h = Gone,
         h.state # "gone" =>
           h.times.timestamp = IF EventsOf(j) = {} THEN Now ELSE Creation(j),
         h.state = "active" => kind = "active" /\ h.times.processedOn = Now,
         kind = "finished" => \E s \in EventsOf(j) :
           /\ stream[s].kind = "active" /\ \A k \in EventsOf(j) : k <= s
           /\ h.state = "gone" \/ /\ h.state = "finished" /\ h.times.processedOn = s
                                  /\ h.times.finishedOn = Now,
         \A i \in Finishes : stream[i].job = j /\ Unretried(i)
           => kind = "waiting" \/ (kind = "removed" /\ h.state = "gone")
  PROVE  QueueInv'
<1> DEFINE e == [job |-> j, kind |-> kind]
<1> SUFFICES ASSUME NEW n, n = Len(stream) + 1 PROVE QueueInv'
  OBVIOUS
<1>1. /\ stream' = Append(stream, e) /\ hash' = [hash EXCEPT ![j] = h]
      /\ Len(stream) < MaxEvents /\ n = Now
  BY DEF Publish, Now
<1>2. e \in Events /\ e.job = j /\ e.kind = kind
  BY DEF Events
<1> HIDE DEF e
<1>3. /\ n \notin DOMAIN stream /\ \A i \in DOMAIN stream : i < n
      /\ DOMAIN stream' = DOMAIN stream \cup {n} /\ n \in DOMAIN stream' /\ n \in Nat
      /\ stream' \in Seq(Events) /\ Len(stream') = n
      /\ \A i \in DOMAIN stream : stream'[i] = stream[i]
      /\ stream'[n] = e
      /\ \A l : EventsOf(l)' = IF l = j THEN EventsOf(l) \cup {n} ELSE EventsOf(l)
      /\ \A i \in DOMAIN stream : StartOf(i)' = StartOf(i)
      /\ \A l \in Jobs : EventsOf(l) # {} => Creation(l)' = Creation(l)
      /\ EventsOf(j) = {} => Creation(j)' = n
  BY <1>1, <1>2, StreamGrows
<1>4. /\ MaxEvents \in Nat /\ Len(stream) \in Nat /\ DOMAIN stream = 1..Len(stream)
      /\ DOMAIN stream \in SUBSET Nat
      /\ \A i \in DOMAIN stream : stream[i].job \in Jobs
      /\ \A l : EventsOf(l) \in SUBSET (DOMAIN stream)
      /\ \A i \in DOMAIN stream : i \in EventsOf(stream[i].job)
      /\ hash \in [Jobs -> Hashes]
  BY StreamFacts DEF QueueInv, QueueTypes
<1>5. QueueTypes'
  <2>1. n <= MaxEvents
    BY <1>1, <1>4
  <2>2. hash' \in [Jobs -> Hashes]
    BY <1>1, <1>4
  <2> QED
    BY <1>3, <2>1, <2>2 DEF QueueTypes
<1>6. hash'[j] = h /\ \A l \in Jobs : l # j => hash'[l] = hash[l]
  BY <1>1, <1>4
<1>7. \A l \in Jobs : l # j => EventsOf(l)' = EventsOf(l)
  BY <1>3
<1>8. EventsOf(j)' = EventsOf(j) \cup {n}
  BY <1>3
<1>9. ASSUME NEW l \in Jobs PROVE FirstEvent(l)'
  <2>1. FirstEvent(l)
    BY DEF QueueInv
  <2>2. CASE EventsOf(l) # {}
    <3>1. /\ Creation(l)' = Creation(l) /\ Creation(l) \in EventsOf(l)
          /\ \A k \in EventsOf(l) : Creation(l) <= k
      BY <1>3, <2>1, <2>2 DEF FirstEvent
    <3>2. Creation(l) \in DOMAIN stream /\ Creation(l) < n /\ Creation(l) <= n
      BY <1>3, <1>4, <3>1
    <3>3. Creation(l) \in EventsOf(l)' /\ \A k \in EventsOf(l)' : Creation(l) <= k
      BY <1>3, <3>1, <3>2
    <3> QED
      BY <3>1, <3>3 DEF FirstEvent
  <2>3. CASE EventsOf(l) = {} /\ l = j
    <3>1. Creation(j)' = n /\ EventsOf(j)' = {n}
      BY <1>3, <1>8, <2>3
    <3> QED
      BY <1>3, <2>3, <3>1 DEF FirstEvent
  <2>4. CASE EventsOf(l) = {} /\ l # j
    BY <1>7, <2>4 DEF FirstEvent
  <2> QED
    BY <2>2, <2>3, <2>4
<1>10. ASSUME NEW l \in Jobs, l # j PROVE HashRight(l)'
  <2>1. /\ hash'[l] = hash[l] /\ EventsOf(l)' = EventsOf(l)
        /\ \A k \in EventsOf(l) : stream'[k] = stream[k]
        /\ EventsOf(l) # {} => Creation(l)' = Creation(l)
    BY <1>3, <1>4, <1>6, <1>7, <1>10
  <2>2. HashRight(l)
    BY DEF QueueInv
  <2> QED
    BY <2>1, <2>2 DEF HashRight
<1>11. HashRight(j)'
  <2>1. h.state = "active" =>
          /\ h.times.processedOn \in EventsOf(j)'
          /\ stream'[h.times.processedOn].kind = "active"
          /\ \A k \in EventsOf(j)' : k <= h.times.processedOn
    <3> SUFFICES ASSUME h.state = "active"
                 PROVE  /\ h.times.processedOn \in EventsOf(j)'
                        /\ stream'[h.times.processedOn].kind = "active"
                        /\ \A k \in EventsOf(j)' : k <= h.times.processedOn
      OBVIOUS
    <3>1. h.times.processedOn = n /\ kind = "active"
      BY <1>1
    <3>2. \A k \in EventsOf(j) : k < n /\ k \in Nat
      BY <1>3, <1>4
    <3> QED
      BY <1>2, <1>3, <1>8, <3>1, <3>2
  <2>2. EventsOf(j)' # {}
    BY <1>8
  <2>3. h.state # "gone" => h.times.timestamp = Creation(j)'
    BY <1>1, <1>3
  <2> QED
    BY <1>6, <2>1, <2>2, <2>3 DEF HashRight
<1>12. ASSUME NEW i \in DOMAIN stream, stream[i].kind = "finished"
       PROVE  StartRight(i)' /\ FinishRight(i)'
  <2> SUFFICES ASSUME NEW l, l = stream[i].job, NEW s, s = StartOf(i)
               PROVE  StartRight(i)' /\ FinishRight(i)'
    OBVIOUS
  <2>1. i \in Finishes /\ StartRight(i) /\ FinishRight(i)
    BY <1>12 DEF Finishes, QueueInv
  <2>2. stream'[i].job = l /\ StartOf(i)' = s /\ i < n /\ i \in Nat /\ l \in Jobs
    BY <1>3, <1>4
  <2>3. /\ s \in EventsOf(l) /\ s < i /\ stream[s].kind = "active"
        /\ \A k \in EventsOf(l) : k < i => k <= s
    BY <2>1 DEF StartRight
  <2>4. Unretried(i) =>
          /\ \A k \in EventsOf(l) : k > i => stream[k].kind = "removed"
          /\ \/ hash[l].state = "gone"
             \/ /\ hash[l].state = "finished"
                /\ hash[l].times.processedOn = s /\ hash[l].times.finishedOn = i
    BY <2>1 DEF FinishRight
  <2>5. Unretried(i) <=> \A k \in EventsOf(l) : k > i => stream[k].kind # "waiting"
    BY DEF Unretried
  <2>6. Unretried(i)' <=> \A k \in EventsOf(l)' : k > i => stream'[k].kind # "waiting"
    BY <2>2 DEF Unretried
  <2>7. Unretried(i) /\ l = j => kind = "waiting" \/ (kind = "removed" /\ h.state = "gone")
    BY <2>1
  <2>8. \A k \in EventsOf(l) : stream'[k] = stream[k] /\ k \in EventsOf(l)'
    BY <1>3, <1>4
  <2>9. \A k \in EventsOf(l)' : k \in EventsOf(l) \/ (k = n /\ l = j)
    BY <1>3
  <2>10. ~(n < i)
    BY <1>3, <2>2
  <2>11. /\ s \in EventsOf(l)' /\ s < i /\ stream'[s].kind = "active"
         /\ \A k \in EventsOf(l)' : k < i => k <= s
    BY <2>3, <2>8, <2>9, <2>10
  <2>12. Unretried(i)' => Unretried(i)
    BY <2>5, <2>6, <2>8
  <2>13. l = j => n \in EventsOf(l)' /\ n > i
    BY <1>8, <2>2, <1>3
  <2>14. Unretried(i)' /\ l = j => kind = "removed" /\ h.state = "gone"
    BY <1>2, <1>3, <2>6, <2>7, <2>12, <2>13
  <2>15. Unretried(i)' =>
           /\ \A k \in EventsOf(l)' : k > i => stream'[k].kind = "removed"
           /\ \/ hash'[l].state = "gone"
              \/ /\ hash'[l].state = "finished"
                 /\ hash'[l].times.processedOn = s /\ hash'[l].times.finishedOn = i
    BY <1>2, <1>3, <1>6, <2>2, <2>4, <2>8, <2>9, <2>12, <2>14
  <2>16. StartRight(i)'
    BY <2>2, <2>11 DEF StartRight
  <2>17. FinishRight(i)'
    BY <2>2, <2>15 DEF FinishRight
  <2> QED
    BY <2>16, <2>17
<1>13. ASSUME kind = "finished" PROVE StartRight(n)' /\ FinishRight(n)'
  <2>1. PICK s \in EventsOf(j) :
          /\ stream[s].kind = "active" /\ \A k \in EventsOf(j) : k <= s
          /\ h.state = "gone" \/ /\ h.state = "finished" /\ h.times.processedOn = s
                                 /\ h.times.finishedOn = n
    BY <1>1, <1>13
  <2> DEFINE T == {k \in EventsOf(j)' : k < n /\ stream'[k].kind = "active"}
  <2>2. s \in DOMAIN stream /\ s < n /\ stream'[s] = stream[s] /\ ~(n < n)
    BY <1>3, <1>4, <2>1
  <2>3. s \in T /\ T \in SUBSET Nat /\ \A k \in T : k <= s
    BY <1>3, <1>4, <1>8, <2>1, <2>2
  <2>4. Max(T) = s
    <3> HIDE DEF T
    <3> QED
      BY <2>3, MinMax
  <2>5. stream'[n].job = j
    BY <1>2, <1>3
  <2>6. StartOf(n)' = s
    BY <2>4, <2>5 DEF StartOf
  <2>7. \A k \in EventsOf(j)' : ~(k > n) /\ (k < n => k <= s)
    BY <1>3, <1>4, <1>8, <2>1, <2>2
  <2>8. StartRight(n)'
    BY <1>8, <2>1, <2>2, <2>5, <2>6, <2>7 DEF StartRight
  <2>9. FinishRight(n)'
    BY <1>6, <2>1, <2>5, <2>6, <2>7 DEF FinishRight
  <2> QED
    BY <2>8, <2>9
<1>14. \A i \in Finishes' : (i \in DOMAIN stream /\ stream[i].kind = "finished")
                            \/ (i = n /\ kind = "finished")
  BY <1>2, <1>3 DEF Finishes
<1>15. \A i \in Finishes' : StartRight(i)' /\ FinishRight(i)'
  BY <1>12, <1>13, <1>14
<1>16. \A l \in Jobs : HashRight(l)' /\ FirstEvent(l)'
  BY <1>9, <1>10, <1>11
<1> QED
  BY <1>5, <1>15, <1>16 DEF QueueInv

\* The times of a job are a record.
LEMMA TimesFields ==
  /\ DOMAIN NoTimes = {"timestamp", "processedOn", "finishedOn"}
  /\ \A a, b, c \in 0..MaxEvents :
       [timestamp |-> a, processedOn |-> b, finishedOn |-> c] \in TimesOfJobs
  /\ \A x \in TimesOfJobs :
       /\ x.timestamp \in 0..MaxEvents /\ x.processedOn \in 0..MaxEvents
       /\ x.finishedOn \in 0..MaxEvents
       /\ x = [timestamp |-> x.timestamp, processedOn |-> x.processedOn,
               finishedOn |-> x.finishedOn]
<1>1. DOMAIN NoTimes = {"timestamp", "processedOn", "finishedOn"}
  BY DEF NoTimes
<1>2. \A a, b, c \in 0..MaxEvents :
        [timestamp |-> a, processedOn |-> b, finishedOn |-> c] \in TimesOfJobs
  BY <1>1 DEF TimesOfJobs
<1>3. \A x \in TimesOfJobs :
        /\ x.timestamp \in 0..MaxEvents /\ x.processedOn \in 0..MaxEvents
        /\ x.finishedOn \in 0..MaxEvents
        /\ x = [timestamp |-> x.timestamp, processedOn |-> x.processedOn,
                finishedOn |-> x.finishedOn]
  BY <1>1 DEF TimesOfJobs
<1> QED
  BY <1>1, <1>2, <1>3

\* The hash of a job in a state with some times.
LEMMA HashFields ==
  ASSUME NEW s \in {"gone", "waiting", "active", "finished"},
         NEW a \in 0..MaxEvents, NEW b \in 0..MaxEvents, NEW c \in 0..MaxEvents
  PROVE  LET h == [state |-> s,
                   times |-> [timestamp |-> a, processedOn |-> b, finishedOn |-> c]]
         IN /\ h \in Hashes /\ h.state = s /\ h.times.timestamp = a
            /\ h.times.processedOn = b /\ h.times.finishedOn = c
<1> DEFINE t == [timestamp |-> a, processedOn |-> b, finishedOn |-> c]
<1>1. t \in TimesOfJobs /\ t.timestamp = a /\ t.processedOn = b /\ t.finishedOn = c
  BY TimesFields
<1> HIDE DEF t
<1> DEFINE h == [state |-> s, times |-> t]
<1>2. h \in Hashes /\ h.state = s /\ h.times = t
  BY <1>1 DEF Hashes
<1> QED
  BY <1>1, <1>2 DEF t

\* A record of two fields of which both change
LEMMA BothChange ==
  ASSUME NEW t, NEW x, NEW s, NEW y, NEW h, h = [state |-> t, times |-> x]
  PROVE  [h EXCEPT !.state = s, !.times = y] = [state |-> s, times |-> y]
<1> DEFINE g == [h EXCEPT !.state = s]
<1>1. g = [state |-> s, times |-> x]
  OBVIOUS
<1>2. [h EXCEPT !.state = s, !.times = y] = [g EXCEPT !.times = y]
  OBVIOUS
<1> HIDE DEF g
<1>3. [g EXCEPT !.times = y] = [state |-> s, times |-> y]
  BY <1>1
<1> QED
  BY <1>2, <1>3

\* What the queue changes of a hash when its job goes on
Started(h, s, n) == [h EXCEPT !.state = s, !.times.processedOn = n]
Ended(h, s, n) == [h EXCEPT !.state = s, !.times.finishedOn = n]
Cleared(h, s, n) == [h EXCEPT !.state = s, !.times.processedOn = n, !.times.finishedOn = n]

\* The changes of a hash, field by field
LEMMA ChangedFields ==
  ASSUME NEW t, NEW a, NEW b, NEW c, NEW s, NEW n, NEW h, NEW x,
         h = [state |-> t, times |-> x],
         x = [timestamp |-> a, processedOn |-> b, finishedOn |-> c]
  PROVE  /\ Started(h, s, n) =
              [state |-> s, times |-> [timestamp |-> a, processedOn |-> n, finishedOn |-> c]]
         /\ Ended(h, s, n) =
              [state |-> s, times |-> [timestamp |-> a, processedOn |-> b, finishedOn |-> n]]
         /\ Cleared(h, s, n) =
              [state |-> s, times |-> [timestamp |-> a, processedOn |-> n, finishedOn |-> n]]
<1>1. h.times = x
  OBVIOUS
<1>2. Started(h, s, n) =
        [state |-> s, times |-> [timestamp |-> a, processedOn |-> n, finishedOn |-> c]]
  <2> DEFINE y == [h.times EXCEPT !.processedOn = n]
  <2>1. Started(h, s, n) = [h EXCEPT !.state = s, !.times = y]
    BY DEF Started
  <2>2. y = [timestamp |-> a, processedOn |-> n, finishedOn |-> c]
    BY <1>1
  <2>3. [h EXCEPT !.state = s, !.times = y] = [state |-> s, times |-> y]
    <3> HIDE DEF y
    <3> QED
      BY BothChange
  <2> QED
    BY <2>1, <2>2, <2>3
<1>3. Ended(h, s, n) =
        [state |-> s, times |-> [timestamp |-> a, processedOn |-> b, finishedOn |-> n]]
  <2> DEFINE y == [h.times EXCEPT !.finishedOn = n]
  <2>1. Ended(h, s, n) = [h EXCEPT !.state = s, !.times = y]
    BY DEF Ended
  <2>2. y = [timestamp |-> a, processedOn |-> b, finishedOn |-> n]
    BY <1>1
  <2>3. [h EXCEPT !.state = s, !.times = y] = [state |-> s, times |-> y]
    <3> HIDE DEF y
    <3> QED
      BY BothChange
  <2> QED
    BY <2>1, <2>2, <2>3
<1>4. Cleared(h, s, n) =
        [state |-> s, times |-> [timestamp |-> a, processedOn |-> n, finishedOn |-> n]]
  <2> DEFINE z == [h.times EXCEPT !.processedOn = n]
             y == [z EXCEPT !.finishedOn = n]
  <2>1. Cleared(h, s, n) = [h EXCEPT !.state = s, !.times = y]
    BY DEF Cleared
  <2>2. z = [timestamp |-> a, processedOn |-> n, finishedOn |-> c]
    BY <1>1
  <2>3. y = [timestamp |-> a, processedOn |-> n, finishedOn |-> n]
    <3> HIDE DEF z
    <3> QED
      BY <2>2
  <2>4. [h EXCEPT !.state = s, !.times = y] = [state |-> s, times |-> y]
    <3> HIDE DEF y
    <3> QED
      BY BothChange
  <2> QED
    BY <2>1, <2>3, <2>4
<1> QED
  BY <1>2, <1>3, <1>4

\* The hash of a job that has gone.
LEMMA GoneHash == Gone \in Hashes /\ Gone.state = "gone" /\ Gone.times = NoTimes
<1>1. 0 \in 0..MaxEvents
  BY BoundsAssumption
<1> QED
  BY <1>1, HashFields DEF Gone, NoTimes, Missing

\* What the queue does with a job.
QueueAction(j) ==
  Add(j) \/ Activate(j) \/ Finish(j) \/ Again(j) \/ Retry(j) \/ Remove(j)

\* Whatever the queue does keeps the order of the events of its jobs, and it does nothing
\* with a job that has gone.
LEMMA QueueStep ==
  ASSUME QueueInv, NEW j \in Jobs, QueueAction(j)
  PROVE  /\ QueueInv'
         /\ \E kind \in Kinds, h \in Hashes : Publish(j, kind, h)
         /\ hash[j].state = "gone" => EventsOf(j) = {}
<1>1. /\ hash[j] \in Hashes /\ HashRight(j)
      /\ MaxEvents \in Nat /\ Len(stream) \in Nat /\ DOMAIN stream \in SUBSET Nat
      /\ EventsOf(j) \in SUBSET (DOMAIN stream)
  BY StreamFacts DEF QueueInv, QueueTypes
<1> DEFINE st == hash[j].state
           x == hash[j].times
           n == Now
           Hash(s, a, b, c) ==
             [state |-> s, times |-> [timestamp |-> a, processedOn |-> b, finishedOn |-> c]]
<1>2. /\ x.timestamp \in 0..MaxEvents /\ x.processedOn \in 0..MaxEvents
      /\ x.finishedOn \in 0..MaxEvents
      /\ x = [timestamp |-> x.timestamp, processedOn |-> x.processedOn,
              finishedOn |-> x.finishedOn]
      /\ hash[j] = [state |-> st, times |-> x]
      /\ st \in {"gone", "waiting", "active", "finished"}
  BY <1>1, TimesFields DEF Hashes
<1>3. n \in Nat /\ Missing \in 0..MaxEvents
  BY <1>1 DEF Now, Missing
<1>4. \A s \in {"gone", "waiting", "active", "finished"}, a, b, c \in 0..MaxEvents :
        /\ Hash(s, a, b, c) \in Hashes /\ Hash(s, a, b, c).state = s
        /\ Hash(s, a, b, c).times.timestamp = a
        /\ Hash(s, a, b, c).times.processedOn = b
        /\ Hash(s, a, b, c).times.finishedOn = c
  <2> TAKE s \in {"gone", "waiting", "active", "finished"}, a, b, c \in 0..MaxEvents
  <2> QED
    BY HashFields
<1>5. ASSUME NEW kind, NEW h, Publish(j, kind, h) PROVE n \in 0..MaxEvents
  BY <1>1, <1>5 DEF Publish, Now
<1>6. /\ st = "gone" => hash[j] = Gone
      /\ st # "gone" => EventsOf(j) # {} /\ x.timestamp = Creation(j)
      /\ st = "active" =>
           /\ x.processedOn \in EventsOf(j) /\ stream[x.processedOn].kind = "active"
           /\ \A k \in EventsOf(j) : k <= x.processedOn
  BY <1>1 DEF HashRight
<1>7. \A i \in Finishes : stream[i].job = j /\ Unretried(i) => st \in {"gone", "finished"}
  BY DEF QueueInv, FinishRight
<1>8. \A i \in Finishes : stream[i].job = j => i \in EventsOf(j)
  BY DEF Finishes, EventsOf
<1>9. "waiting" \in Kinds /\ "active" \in Kinds /\ "finished" \in Kinds /\ "removed" \in Kinds
  BY DEF Kinds
<1>10. Gone \in Hashes /\ Gone.state = "gone"
  BY GoneHash
<1>11. CASE Add(j)
  <2>1. EventsOf(j) = {}
        /\ Publish(j, "waiting",
             [state |-> "waiting", times |-> [NoTimes EXCEPT !.timestamp = n]])
    BY <1>11 DEF Add
  <2>2. [NoTimes EXCEPT !.timestamp = n] =
          [timestamp |-> n, processedOn |-> Missing, finishedOn |-> Missing]
    BY DEF NoTimes
  <2> DEFINE h == Hash("waiting", n, Missing, Missing)
  <2>3. Publish(j, "waiting", h)
    BY <2>1, <2>2
  <2>4. h \in Hashes /\ h.state = "waiting" /\ h.times.timestamp = n
    BY <1>3, <1>4, <1>5, <2>3
  <2> HIDE DEF h
  <2> QED
    BY <1>8, <1>9, <2>1, <2>3, <2>4, PublishKeeps
<1>12. CASE Activate(j)
  <2> DEFINE h == Hash("active", x.timestamp, n, x.finishedOn)
  <2>1. st = "waiting" /\ Publish(j, "active",
          [hash[j] EXCEPT !.state = "active", !.times.processedOn = n])
    BY <1>12 DEF Activate
  <2>2. [hash[j] EXCEPT !.state = "active", !.times.processedOn = n] = h
    <3>1. Started(hash[j], "active", n) = h
      BY <1>2, ChangedFields
    <3> QED
      BY <3>1 DEF Started
  <2>3. Publish(j, "active", h)
    BY <2>1, <2>2
  <2>4. /\ h \in Hashes /\ h.state = "active" /\ h.times.timestamp = x.timestamp
        /\ h.times.processedOn = n
    BY <1>2, <1>4, <1>5, <2>3
  <2> HIDE DEF h
  <2> QED
    BY <1>6, <1>7, <1>9, <2>1, <2>3, <2>4, PublishKeeps
<1>13. CASE Finish(j)
  <2> DEFINE h == Hash("finished", x.timestamp, x.processedOn, n)
  <2>1. st = "active" /\ \/ Publish(j, "finished",
                              [hash[j] EXCEPT !.state = "finished", !.times.finishedOn = n])
                         \/ Publish(j, "finished", Gone)
    BY <1>13 DEF Finish
  <2>2. [hash[j] EXCEPT !.state = "finished", !.times.finishedOn = n] = h
    <3>1. Ended(hash[j], "finished", n) = h
      BY <1>2, ChangedFields
    <3> QED
      BY <3>1 DEF Ended
  <2>3. \E s \in EventsOf(j) : /\ s = x.processedOn /\ stream[s].kind = "active"
                               /\ \A k \in EventsOf(j) : k <= s
    BY <1>6, <2>1
  <2>4. ASSUME Publish(j, "finished", h)
        PROVE  /\ h \in Hashes /\ h.state = "finished" /\ h.times.timestamp = x.timestamp
               /\ h.times.processedOn = x.processedOn /\ h.times.finishedOn = n
    BY <1>2, <1>4, <1>5, <2>4
  <2> HIDE DEF h
  <2>5. CASE Publish(j, "finished", h)
    BY <1>6, <1>7, <1>9, <2>1, <2>3, <2>4, <2>5, PublishKeeps
  <2>6. CASE Publish(j, "finished", Gone)
    BY <1>6, <1>7, <1>9, <1>10, <2>1, <2>3, <2>6, PublishKeeps
  <2> QED
    BY <2>1, <2>2, <2>5, <2>6
<1>14. CASE Again(j)
  <2> DEFINE h == Hash("waiting", x.timestamp, x.processedOn, x.finishedOn)
  <2>1. st = "active" /\ Publish(j, "waiting", [hash[j] EXCEPT !.state = "waiting"])
    BY <1>14 DEF Again
  <2>2. [hash[j] EXCEPT !.state = "waiting"] = h
    BY <1>2
  <2>3. Publish(j, "waiting", h)
    BY <2>1, <2>2
  <2>4. h \in Hashes /\ h.state = "waiting" /\ h.times.timestamp = x.timestamp
    BY <1>2, <1>4
  <2> HIDE DEF h
  <2> QED
    BY <1>6, <1>9, <2>1, <2>3, <2>4, PublishKeeps
<1>15. CASE Retry(j)
  <2> DEFINE h == Hash("waiting", x.timestamp, Missing, Missing)
  <2>1. st = "finished" /\ Publish(j, "waiting",
          [hash[j] EXCEPT !.state = "waiting", !.times.processedOn = Missing,
                          !.times.finishedOn = Missing])
    BY <1>15 DEF Retry
  <2>2. [hash[j] EXCEPT !.state = "waiting", !.times.processedOn = Missing,
                        !.times.finishedOn = Missing] = h
    <3>1. Cleared(hash[j], "waiting", Missing) = h
      BY <1>2, ChangedFields
    <3> QED
      BY <3>1 DEF Cleared
  <2>3. Publish(j, "waiting", h)
    BY <2>1, <2>2
  <2>4. h \in Hashes /\ h.state = "waiting" /\ h.times.timestamp = x.timestamp
    BY <1>2, <1>3, <1>4
  <2> HIDE DEF h
  <2> QED
    BY <1>6, <1>9, <2>1, <2>3, <2>4, PublishKeeps
<1>16. CASE Remove(j)
  <2>1. st # "gone" /\ Publish(j, "removed", Gone)
    BY <1>16 DEF Remove
  <2> QED
    BY <1>9, <1>10, <2>1, PublishKeeps
<1> QED
  BY <1>11, <1>12, <1>13, <1>14, <1>15, <1>16 DEF QueueAction

\* What stays of the events when the queue goes on, or does nothing.
Lasting(i) ==
  LET j == stream[i].job IN
  /\ i \in DOMAIN stream' /\ stream'[i] = stream[i]
  /\ StartOf(i)' = StartOf(i)
  /\ Creation(j)' = Creation(j)
  /\ Unretried(i)' => Unretried(i)
  /\ hash[j].state = "gone" => hash'[j].state = "gone"

EventsLast ==
  /\ \A i \in DOMAIN stream : Lasting(i)
  /\ \A i \in DOMAIN stream : \A l : i \in EventsOf(l)' <=> i \in EventsOf(l)
  /\ \A i \in DOMAIN stream' : i \in DOMAIN stream \/ (i \in Nat /\ i > Len(stream))
  /\ Len(stream') \in Nat /\ Len(stream) <= Len(stream')

\* The events last, and a job that has gone has gone for ever.
LEMMA QueueLasts ==
  ASSUME QueueInv, NEW j \in Jobs, QueueAction(j)
  PROVE  EventsLast
<1>1. PICK kind \in Kinds, h \in Hashes : Publish(j, kind, h)
  BY QueueStep
<1> DEFINE e == [job |-> j, kind |-> kind]
<1>2. /\ stream' = Append(stream, e) /\ hash' = [hash EXCEPT ![j] = h]
  BY <1>1 DEF Publish
<1>3. e \in Events /\ e.job = j
  BY DEF Events
<1> HIDE DEF e
<1>4. LET n == Len(stream) + 1 IN
      /\ \A i \in DOMAIN stream : i < n
      /\ DOMAIN stream' = DOMAIN stream \cup {n} /\ n \in DOMAIN stream' /\ n \in Nat
      /\ Len(stream') = n
      /\ \A i \in DOMAIN stream : stream'[i] = stream[i]
      /\ \A l : EventsOf(l)' = IF l = j THEN EventsOf(l) \cup {n} ELSE EventsOf(l)
      /\ \A i \in DOMAIN stream : StartOf(i)' = StartOf(i)
      /\ \A l \in Jobs : EventsOf(l) # {} => Creation(l)' = Creation(l)
  BY <1>2, <1>3, StreamGrows
<1>5. /\ Len(stream) \in Nat /\ DOMAIN stream \in SUBSET Nat
      /\ \A i \in DOMAIN stream : stream[i].job \in Jobs
      /\ \A l : EventsOf(l) \in SUBSET (DOMAIN stream)
      /\ \A i \in DOMAIN stream : i \in EventsOf(stream[i].job)
      /\ hash \in [Jobs -> Hashes]
  BY StreamFacts DEF QueueInv, QueueTypes
<1>6. hash[j].state = "gone" => EventsOf(j) = {}
  BY QueueStep
<1>7. \A i \in DOMAIN stream : ~(i = Len(stream) + 1)
  BY <1>4, <1>5
<1>8. \A i \in DOMAIN stream : \A l : i \in EventsOf(l)' <=> i \in EventsOf(l)
  BY <1>4, <1>7
<1>9. /\ \A i \in DOMAIN stream' : i \in DOMAIN stream \/ (i \in Nat /\ i > Len(stream))
      /\ Len(stream') \in Nat /\ Len(stream) <= Len(stream')
  BY <1>4, <1>5
<1>10. ASSUME NEW i \in DOMAIN stream PROVE Lasting(i)
  <2> SUFFICES ASSUME NEW l, l = stream[i].job PROVE Lasting(i)
    OBVIOUS
  <2>1. stream'[i] = stream[i] /\ StartOf(i)' = StartOf(i) /\ i \in DOMAIN stream'
    BY <1>4
  <2>2. l \in Jobs /\ i \in EventsOf(l)
    BY <1>5
  <2>3. Creation(l)' = Creation(l)
    BY <1>4, <2>2
  <2>4. \A k \in EventsOf(l) : k \in EventsOf(l)' /\ stream'[k] = stream[k]
    BY <1>4, <1>5, <1>8
  <2>5. Unretried(i)' => Unretried(i)
    BY <2>1, <2>4 DEF Unretried
  <2>6. hash[l].state = "gone" => hash'[l].state = "gone"
    BY <1>2, <1>5, <1>6, <2>2
  <2> QED
    BY <2>1, <2>3, <2>5, <2>6 DEF Lasting
<1> QED
  BY <1>8, <1>9, <1>10 DEF EventsLast

\* The events last while the queue does nothing.
LEMMA QueueStays ==
  ASSUME QueueInv, UNCHANGED <<stream, hash>>
  PROVE  /\ QueueInv' /\ EventsLast
         /\ \A i : Unretried(i)' <=> Unretried(i)
         /\ \A j : Creation(j)' = Creation(j) /\ EventsOf(j)' = EventsOf(j)
         /\ \A i : StartOf(i)' = StartOf(i)
         /\ Finishes' = Finishes
<1>1. \A j : EventsOf(j)' = EventsOf(j)
  BY DEF EventsOf
<1>2. \A i : Unretried(i)' <=> Unretried(i)
  BY <1>1 DEF Unretried
<1>3. \A j : Creation(j)' = Creation(j)
  BY <1>1 DEF Creation
<1>4. \A i : StartOf(i)' = StartOf(i)
  BY <1>1 DEF StartOf
<1>5. Finishes' = Finishes
  BY DEF Finishes
<1>6. QueueTypes'
  BY DEF QueueInv, QueueTypes
<1>7. \A j \in Jobs : HashRight(j)' /\ FirstEvent(j)'
  BY <1>1, <1>3 DEF QueueInv, HashRight, FirstEvent
<1>8. \A i \in Finishes : StartRight(i)' /\ FinishRight(i)'
  BY <1>1, <1>2, <1>4 DEF QueueInv, StartRight, FinishRight
<1>9. QueueInv'
  BY <1>5, <1>6, <1>7, <1>8 DEF QueueInv
<1>10. Len(stream) \in Nat /\ Len(stream') = Len(stream)
  BY StreamFacts DEF QueueInv
<1>11. EventsLast
  BY <1>1, <1>2, <1>3, <1>4, <1>10 DEF EventsLast, Lasting
<1> QED
  BY <1>1, <1>2, <1>3, <1>4, <1>5, <1>9, <1>11

-----------------------------------------------------------------------------
(* What the listener knows of a job.                                        *)

Objects == [times : TimesOfJobs, named : BOOLEAN]

Replies == [object : Ids, finish : Ids, state : {"sent", "executed", "answered"},
            hash : Hashes]

Emissions == [finish : Ids, latency : Durations, wait : Durations, object : Ids,
              gone : BOOLEAN, retried : BOOLEAN]

\* The fields of an object.
LEMMA ObjectFields ==
  ASSUME NEW x \in Objects
  PROVE  /\ x.times \in TimesOfJobs /\ x.named \in BOOLEAN
         /\ x = [times |-> x.times, named |-> x.named]
BY DEF Objects

\* One time of an object changes.
LEMMA OneTime ==
  ASSUME NEW x \in Objects, NEW p \in DOMAIN NoTimes, NEW n \in 0..MaxEvents
  PROVE  LET y == [x EXCEPT !.times[p] = n]
         IN /\ y \in Objects /\ y.named = x.named
            /\ y.times[p] = n
            /\ \A q \in DOMAIN NoTimes : q # p => y.times[q] = x.times[q]
<1> DEFINE t == x.times
           b == x.named
           u == [t EXCEPT ![p] = n]
           y == [x EXCEPT !.times[p] = n]
<1>1. t \in TimesOfJobs /\ b \in BOOLEAN /\ x = [times |-> t, named |-> b]
  BY ObjectFields
<1>2. t \in [DOMAIN NoTimes -> 0..MaxEvents]
  BY <1>1 DEF TimesOfJobs
<1>3. /\ u \in [DOMAIN NoTimes -> 0..MaxEvents] /\ u[p] = n
      /\ \A q \in DOMAIN NoTimes : q # p => u[q] = t[q]
  BY <1>2
<1>4. y = [x EXCEPT !.times = u]
  OBVIOUS
<1>5. u \in TimesOfJobs
  BY <1>3 DEF TimesOfJobs
<1> HIDE DEF u
<1>6. y.times = u /\ y.named = b /\ y = [times |-> u, named |-> b]
  BY <1>1, <1>4
<1> HIDE DEF t, b, y
<1>7. y \in Objects
  BY <1>1, <1>5, <1>6 DEF Objects
<1>8. /\ y \in Objects /\ y.named = b
      /\ y.times[p] = n
      /\ \A q \in DOMAIN NoTimes : q # p => y.times[q] = t[q]
  BY <1>3, <1>6, <1>7
<1> QED
  BY <1>8 DEF t, b, y

\* What an event writes to an object
LEMMA HandledFields ==
  ASSUME NEW x \in Objects, NEW kind \in Kinds, NEW n \in Ids
  PROVE  LET y == Handled(x, kind, n)
         IN /\ y \in Objects /\ y.named = x.named
            /\ y.times.timestamp \in {x.times.timestamp, n}
            /\ x.times.timestamp # Missing => y.times.timestamp = x.times.timestamp
            /\ kind # "waiting" => y.times.timestamp = x.times.timestamp
            /\ y.times.processedOn = IF kind = "active" THEN n ELSE x.times.processedOn
            /\ y.times.finishedOn = IF kind = "finished" THEN n ELSE x.times.finishedOn
            /\ kind = "removed" => y = x
<1>1. n \in 0..MaxEvents /\ DOMAIN NoTimes = {"timestamp", "processedOn", "finishedOn"}
  BY TimesFields, BoundsAssumption DEF Ids
<1>2. CASE kind = "active"
  <2>1. Handled(x, kind, n) = [x EXCEPT !.times["processedOn"] = n]
    BY <1>2 DEF Handled, handleActive
  <2> DEFINE y == [x EXCEPT !.times["processedOn"] = n]
  <2>2. /\ y \in Objects /\ y.named = x.named
        /\ y.times["processedOn"] = n
        /\ \A q \in DOMAIN NoTimes : q # "processedOn" => y.times[q] = x.times[q]
    BY <1>1, OneTime
  <2> HIDE DEF y
  <2> QED
    BY <1>1, <1>2, <2>1, <2>2 DEF y
<1>3. CASE kind = "finished"
  <2>1. Handled(x, kind, n) = [x EXCEPT !.times["finishedOn"] = n]
    BY <1>3 DEF Handled, markFinished
  <2> DEFINE y == [x EXCEPT !.times["finishedOn"] = n]
  <2>2. /\ y \in Objects /\ y.named = x.named
        /\ y.times["finishedOn"] = n
        /\ \A q \in DOMAIN NoTimes : q # "finishedOn" => y.times[q] = x.times[q]
    BY <1>1, OneTime
  <2> HIDE DEF y
  <2> QED
    BY <1>1, <1>3, <2>1, <2>2 DEF y
<1>4. CASE kind = "waiting" /\ x.times.timestamp = Missing
  <2>1. Handled(x, kind, n) = [x EXCEPT !.times["timestamp"] = n]
    BY <1>4 DEF Handled, handleWaiting, Known
  <2> DEFINE y == [x EXCEPT !.times["timestamp"] = n]
  <2>2. /\ y \in Objects /\ y.named = x.named
        /\ y.times["timestamp"] = n
        /\ \A q \in DOMAIN NoTimes : q # "timestamp" => y.times[q] = x.times[q]
    BY <1>1, OneTime
  <2> HIDE DEF y
  <2> QED
    BY <1>1, <1>4, <2>1, <2>2 DEF y
<1>5. CASE kind = "removed" \/ (kind = "waiting" /\ x.times.timestamp # Missing)
  <2>1. Handled(x, kind, n) = x
    BY <1>5 DEF Handled, handleWaiting, Known
  <2> QED
    BY <1>5, <2>1
<1> QED
  BY <1>2, <1>3, <1>4, <1>5 DEF Kinds

\* What a reply writes to an object
LEMMA LearntFields ==
  ASSUME NEW x \in Objects, NEW h \in Hashes
  PROVE  LET y == Learnt(x, h)
         IN /\ y \in Objects /\ y.named = (h.state # "gone")
            /\ y.times.timestamp = h.times.timestamp
            /\ y.times.processedOn = IF h.times.processedOn = Missing
                                       THEN x.times.processedOn ELSE h.times.processedOn
            /\ y.times.finishedOn = IF h.times.finishedOn = Missing
                                      THEN x.times.finishedOn ELSE h.times.finishedOn
<1> DEFINE u == [field \in DOMAIN NoTimes |->
                   IF field # "timestamp" /\ h.times[field] = Missing
                     THEN x.times[field] ELSE h.times[field]]
           b == h.state # "gone"
<1>1. Learnt(x, h) = [times |-> u, named |-> b]
  BY DEF Learnt
<1>2. x.times \in [DOMAIN NoTimes -> 0..MaxEvents] /\ h.times \in [DOMAIN NoTimes -> 0..MaxEvents]
  BY ObjectFields DEF TimesOfJobs, Hashes
<1>3. u \in [DOMAIN NoTimes -> 0..MaxEvents]
  BY <1>2
<1>4. DOMAIN NoTimes = {"timestamp", "processedOn", "finishedOn"}
  BY TimesFields
<1>5. /\ u.timestamp = h.times.timestamp
      /\ u.processedOn = IF h.times.processedOn = Missing
                           THEN x.times.processedOn ELSE h.times.processedOn
      /\ u.finishedOn = IF h.times.finishedOn = Missing
                          THEN x.times.finishedOn ELSE h.times.finishedOn
  BY <1>4
<1>6. u \in TimesOfJobs /\ b \in BOOLEAN
  BY <1>3 DEF TimesOfJobs
<1> HIDE DEF u, b
<1>7. [times |-> u, named |-> b] \in Objects
  BY <1>6, Zenon DEF Objects
<1> DEFINE y == Learnt(x, h)
<1>8. y \in Objects /\ y.times = u /\ y.named = b
  BY <1>1, <1>7
<1> HIDE DEF y
<1>9. /\ y \in Objects /\ y.named = b
      /\ y.times.timestamp = h.times.timestamp
      /\ y.times.processedOn = IF h.times.processedOn = Missing
                                 THEN x.times.processedOn ELSE h.times.processedOn
      /\ y.times.finishedOn = IF h.times.finishedOn = Missing
                                THEN x.times.finishedOn ELSE h.times.finishedOn
  BY <1>5, <1>8
<1> QED
  BY <1>9, Zenon DEF y, b

\* A duration
LEMMA BetweenFacts ==
  ASSUME NEW a \in 0..MaxEvents, NEW b \in 0..MaxEvents
  PROVE  /\ Between(a, b) \in Durations
         /\ a # Missing /\ b # Missing => Between(a, b) = b - a
         /\ a = Missing \/ b = Missing => Between(a, b) = NotANumber
<1>1. MaxEvents \in Nat
  BY BoundsAssumption
<1>2. b - a \in (-MaxEvents)..MaxEvents
  BY <1>1
<1> QED
  BY <1>2 DEF Between, Durations

-----------------------------------------------------------------------------
(* The listener.                                                            *)

\* The object that is in the cache is of the job, and has the start that was heard last
\* unless a late reply may have written over it.
CacheRight(j) ==
  LET o == cache[j]
  IN o # NoObject =>
       /\ o \in EventsOf(j) /\ o <= heard
       /\ \A s \in EventsOf(j) :
            (/\ o <= s /\ s <= heard /\ stream[s].kind = "active" /\ s \notin log.hidden
             /\ \A k \in EventsOf(j) : k > s => k > heard)
              => objects[o].times.processedOn = s

\* An object is new until its event is heard, and has the creation when it has the name.
ObjectRight(o) ==
  /\ o > heard => objects[o] = NewObject
  /\ objects[o].named =>
       o \in DOMAIN stream /\ objects[o].times.timestamp = Creation(stream[o].job)

JobOf(r) == stream[r.finish].job

\* A fetch is for a finish that was heard, and its object of the same job.
Owned(r) ==
  /\ r.finish \in Finishes /\ r.finish <= heard
  /\ r.object <= r.finish /\ r.object \in EventsOf(JobOf(r))

\* While the object is in the cache, the starts that are heard are hidden by the fetch.
Covered(r) ==
  r.object = cache[JobOf(r)] =>
    \A s \in EventsOf(JobOf(r)) :
      r.finish < s /\ s <= heard /\ stream[s].kind = "active" => s \in log.hidden

\* A reply is what the job has when it is not retried.
Fetched(r) ==
  LET i == r.finish j == JobOf(r)
  IN r.state # "sent" =>
       \/ r.hash = Gone /\ hash[j].state = "gone"
       \/ /\ r.hash.state # "gone" /\ r.hash.times.timestamp = Creation(j)
          /\ Unretried(i) =>
               r.hash.times.processedOn = StartOf(i) /\ r.hash.times.finishedOn = i

\* What the object knows of a finish that is neither retried nor hidden.
Recalled(r) ==
  LET i == r.finish j == JobOf(r) x == objects[r.object].times
  IN Unretried(i) /\ StartOf(i) \notin log.hidden =>
       /\ x.finishedOn = i
       /\ x.processedOn = IF /\ r.object > StartOf(i)
                             /\ r.state = "answered" => r.hash.state = "gone"
                            THEN Missing ELSE StartOf(i)
       /\ r.state = "answered" =>
            x.timestamp = IF r.hash.state = "gone" THEN Missing ELSE Creation(j)

\* Of two fetches of an object the later one is for a start that is hidden.
Ordered(q, r) ==
  /\ q.finish < r.finish
  /\ q.object = r.object => StartOf(r.finish) \in log.hidden

FetchRight(r) == Owned(r) /\ Covered(r) /\ Fetched(r) /\ Recalled(r)

WireInv ==
  /\ \A f \in DOMAIN wire : FetchRight(wire[f])
  /\ \A f, g \in DOMAIN wire : f < g => Ordered(wire[f], wire[g])

\* What DurationsRight says of a finish.
EmittedRight(e) ==
  LET start == StartOf(e.finish)
      creation == Min(EventsOf(stream[e.finish].job))
  IN e.retried \/ start \in log.hidden
     \/ /\ e.latency = IF e.gone /\ e.object > start THEN NotANumber ELSE e.finish - start
        /\ e.wait = IF e.gone THEN NotANumber ELSE start - creation

ListenerTypes ==
  /\ heard \in NotListening..Len(stream)
  /\ cache \in [Jobs -> {NoObject} \cup Ids]
  /\ objects \in [Ids -> Objects]
  /\ wire \in Seq(Replies)
  /\ log \in [missed : 0..MaxEvents, emitted : SUBSET Emissions, lost : SUBSET Ids,
              faults : 0..MaxFaults, hidden : SUBSET Ids]

CacheInv ==
  /\ \A j \in Jobs : CacheRight(j)
  /\ \A o \in Ids : ObjectRight(o)

EmittedInv == \A e \in log.emitted : e.finish \in Finishes /\ EmittedRight(e)

ListenerInv == ListenerTypes /\ CacheInv /\ WireInv /\ EmittedInv

\* What the types bound.
LEMMA ListenerFacts ==
  ASSUME ListenerTypes, QueueInv
  PROVE  /\ heard \in Int /\ Len(stream) \in Nat /\ heard <= Len(stream) /\ NotListening <= heard
         /\ Ids \in SUBSET Nat /\ Ids \in SUBSET (0..MaxEvents) /\ NoObject \notin Ids
         /\ \A j \in Jobs : cache[j] = NoObject \/ cache[j] \in Ids
         /\ \A o \in Ids : objects[o] \in Objects
         /\ Len(wire) \in Nat /\ DOMAIN wire = 1..Len(wire)
         /\ wire \in [1..Len(wire) -> Replies]
         /\ \A f \in DOMAIN wire : wire[f] \in Replies
         /\ log.hidden \in SUBSET Ids
<1>1. /\ heard \in NotListening..Len(stream)
      /\ cache \in [Jobs -> {NoObject} \cup Ids]
      /\ objects \in [Ids -> Objects]
      /\ wire \in Seq(Replies)
  BY DEF ListenerTypes
<1>2. Len(stream) \in Nat /\ MaxEvents \in Nat
  BY StreamFacts DEF QueueInv
<1>3. /\ Ids \in SUBSET Nat /\ Ids \in SUBSET (0..MaxEvents) /\ NoObject \notin Ids
  BY <1>2 DEF Ids, NoObject
<1>4. heard \in Int /\ heard <= Len(stream) /\ NotListening <= heard
  BY <1>1, <1>2 DEF NotListening
<1>5. /\ \A j \in Jobs : cache[j] = NoObject \/ cache[j] \in Ids
      /\ \A o \in Ids : objects[o] \in Objects
  BY <1>1
<1>6. /\ Len(wire) \in Nat /\ DOMAIN wire = 1..Len(wire)
      /\ wire \in [1..Len(wire) -> Replies]
      /\ \A f \in DOMAIN wire : wire[f] \in Replies
  BY <1>1
<1>7. log.hidden \in SUBSET Ids
  BY DEF ListenerTypes
<1> QED
  BY <1>2, <1>3, <1>4, <1>5, <1>6, <1>7

\* What is right for a fetch stays so, while its object does and the starts that are heard
\* are hidden by it.
LEMMA FetchStays ==
  ASSUME QueueInv, EventsLast, NEW r, FetchRight(r), NEW j, j = JobOf(r),
         heard \in Int, heard' \in Int, heard <= heard', heard <= Len(stream),
         \A s \in log.hidden : s \in log'.hidden,
         \/ objects'[r.object] = objects[r.object]
         \/ ~Unretried(r.finish)
         \/ StartOf(r.finish) \in log.hidden,
         r.object = cache'[j] =>
           /\ r.object = cache[j]
           /\ \A s \in EventsOf(j)' :
                heard < s /\ s <= heard' /\ stream'[s].kind = "active" => s \in log'.hidden
  PROVE  FetchRight(r)'
<1> SUFFICES ASSUME NEW i, i = r.finish, NEW o, o = r.object,
                    NEW st, st = StartOf(i), NEW c, c = Creation(j)
             PROVE  FetchRight(r)'
  OBVIOUS
<1>1. /\ i \in Finishes /\ i <= heard /\ o <= i /\ o \in EventsOf(j)
  BY DEF FetchRight, Owned
<1>2. /\ Len(stream) \in Nat /\ DOMAIN stream = 1..Len(stream)
      /\ \A l : EventsOf(l) \in SUBSET (DOMAIN stream)
      /\ DOMAIN stream \in SUBSET Nat
  BY StreamFacts DEF QueueInv
<1>3. i \in DOMAIN stream /\ stream[i].kind = "finished" /\ j = stream[i].job
  BY <1>1 DEF Finishes, JobOf
<1>4. /\ i \in DOMAIN stream' /\ stream'[i] = stream[i] /\ StartOf(i)' = st
      /\ Creation(j)' = c
      /\ Unretried(i)' => Unretried(i)
      /\ hash[j].state = "gone" => hash'[j].state = "gone"
  BY <1>3 DEF EventsLast, Lasting
<1>5. JobOf(r)' = j
  BY <1>3, <1>4 DEF JobOf
<1>6. Owned(r)'
  <2>1. i \in Finishes'
    BY <1>3, <1>4 DEF Finishes
  <2>2. i <= heard'
    BY <1>1, <1>2, <1>3
  <2>3. o \in EventsOf(j)'
    BY <1>1, <1>2 DEF EventsLast
  <2> QED
    BY <1>1, <1>5, <2>1, <2>2, <2>3 DEF Owned
<1>7. Covered(r)'
  <2> SUFFICES ASSUME o = cache'[j], NEW s \in EventsOf(j)',
                      i < s, s <= heard', stream'[s].kind = "active"
               PROVE  s \in log'.hidden
    BY <1>5 DEF Covered
  <2>1. o = cache[j]
    OBVIOUS
  <2>2. s \in DOMAIN stream \/ (s \in Nat /\ s > Len(stream))
    BY DEF EventsLast, EventsOf
  <2>3. CASE s \in DOMAIN stream /\ s <= heard
    <3>1. s \in EventsOf(j) /\ stream'[s] = stream[s]
      BY <2>3 DEF EventsLast, Lasting
    <3>2. s \in log.hidden
      BY <1>1, <2>1, <2>3, <3>1 DEF FetchRight, Covered
    <3> QED
      BY <3>2
  <2>4. ~(s \in DOMAIN stream /\ s <= heard) => heard < s
    BY <1>2, <2>2
  <2> QED
    BY <2>3, <2>4
<1>8. Fetched(r)'
  <2>1. Fetched(r)
    BY DEF FetchRight
  <2> QED
    BY <1>4, <1>5, <2>1 DEF Fetched
<1>9. Recalled(r)'
  <2>1. Recalled(r)
    BY DEF FetchRight
  <2>2. Unretried(i)' /\ st \notin log'.hidden =>
          Unretried(i) /\ st \notin log.hidden /\ objects'[o] = objects[o]
    BY <1>4
  <2> QED
    BY <1>4, <1>5, <2>1, <2>2 DEF Recalled
<1> QED
  BY <1>6, <1>7, <1>8, <1>9 DEF FetchRight

\* Of two fetches the later one stays hidden.
LEMMA OrderStays ==
  ASSUME EventsLast, NEW q, NEW r, Ordered(q, r), r.finish \in Finishes,
         \A s \in log.hidden : s \in log'.hidden
  PROVE  Ordered(q, r)'
<1>1. r.finish \in DOMAIN stream
  BY DEF Finishes
<1>2. StartOf(r.finish)' = StartOf(r.finish)
  BY <1>1 DEF EventsLast, Lasting
<1> QED
  BY <1>2 DEF Ordered

\* What was emitted stays right.
LEMMA EmissionStays ==
  ASSUME EventsLast, NEW e, e.finish \in Finishes, EmittedRight(e),
         \A s \in log.hidden : s \in log'.hidden
  PROVE  e.finish \in Finishes' /\ EmittedRight(e)'
<1> SUFFICES ASSUME NEW i, i = e.finish, NEW j, j = stream[i].job
             PROVE  e.finish \in Finishes' /\ EmittedRight(e)'
  OBVIOUS
<1>1. i \in DOMAIN stream /\ stream[i].kind = "finished"
  BY DEF Finishes
<1>2. /\ i \in DOMAIN stream' /\ stream'[i] = stream[i] /\ StartOf(i)' = StartOf(i)
      /\ Creation(j)' = Creation(j)
  BY <1>1 DEF EventsLast, Lasting
<1>3. Min(EventsOf(j))' = Min(EventsOf(j))
  BY <1>2 DEF Creation
<1>4. e.finish \in Finishes'
  BY <1>1, <1>2 DEF Finishes
<1> QED
  BY <1>2, <1>3, <1>4 DEF EmittedRight

\* An object that does not change, whose event stays unheard or not, stays right.
LEMMA ObjectStays ==
  ASSUME QueueInv, EventsLast, NEW o \in Ids, ObjectRight(o), objects'[o] = objects[o],
         heard \in Int, heard' \in Int, heard <= heard'
  PROVE  ObjectRight(o)'
<1>1. o \in Nat
  BY StreamFacts DEF QueueInv, Ids
<1>2. o > heard' => objects'[o] = NewObject
  BY <1>1 DEF ObjectRight
<1>3. ASSUME objects'[o].named
      PROVE  (o \in DOMAIN stream /\ objects[o].times.timestamp = Creation(stream[o].job))'
  <2>1. objects[o].named
    BY <1>3
  <2> SUFFICES ASSUME NEW l, l = stream[o].job
               PROVE  (/\ o \in DOMAIN stream
                       /\ objects[o].times.timestamp = Creation(stream[o].job))'
    OBVIOUS
  <2>2. o \in DOMAIN stream /\ objects[o].times.timestamp = Creation(l)
    BY <2>1 DEF ObjectRight
  <2>3. o \in DOMAIN stream' /\ stream'[o] = stream[o] /\ Creation(l)' = Creation(l)
    BY <2>2 DEF EventsLast, Lasting
  <2> QED
    BY <2>2, <2>3
<1> QED
  BY <1>2, <1>3 DEF ObjectRight

\* The cache stays right for a job that nothing is heard of.
LEMMA CacheStays ==
  ASSUME QueueInv, EventsLast, NEW j \in Jobs, CacheRight(j), cache'[j] = cache[j],
         heard \in Int, heard' \in Int, heard <= heard', heard <= Len(stream),
         \A s \in log.hidden : s \in log'.hidden,
         \A s \in EventsOf(j)' : s <= heard' => s <= heard,
         cache[j] # NoObject => objects'[cache[j]] = objects[cache[j]]
  PROVE  CacheRight(j)'
<1> SUFFICES ASSUME NEW o, o = cache[j], o # NoObject PROVE CacheRight(j)'
  BY DEF CacheRight
<1>1. o \in EventsOf(j) /\ o <= heard
  BY DEF CacheRight
<1>2. /\ Len(stream) \in Nat /\ DOMAIN stream \in SUBSET Nat
      /\ \A l : EventsOf(l) \in SUBSET (DOMAIN stream)
  BY StreamFacts DEF QueueInv
<1>3. o \in EventsOf(j)' /\ o <= heard'
  BY <1>1, <1>2 DEF EventsLast
<1>4. ASSUME NEW s \in EventsOf(j)', o <= s, s <= heard', stream'[s].kind = "active",
             s \notin log'.hidden, \A k \in EventsOf(j)' : k > s => k > heard'
      PROVE  objects'[o].times.processedOn = s
  <2>1. s <= heard
    BY <1>4
  <2>2. s \in DOMAIN stream \/ (s \in Nat /\ s > Len(stream))
    BY DEF EventsLast, EventsOf
  <2>3. s \in DOMAIN stream
    BY <1>2, <2>1, <2>2
  <2>4. s \in EventsOf(j) /\ stream'[s] = stream[s]
    BY <2>3 DEF EventsLast, Lasting
  <2>5. ASSUME NEW k \in EventsOf(j), k > s PROVE k > heard
    <3>1. k \in EventsOf(j)' /\ k \in Nat
      BY <1>2, <2>5 DEF EventsLast
    <3>2. k > heard'
      BY <1>4, <2>5, <3>1
    <3> QED
      BY <3>1, <3>2
  <2>6. s \notin log.hidden
    BY <1>4
  <2>7. objects[o].times.processedOn = s
    BY <1>4, <2>1, <2>4, <2>5, <2>6 DEF CacheRight
  <2> QED
    BY <2>7
<1> QED
  BY <1>3, <1>4 DEF CacheRight

-----------------------------------------------------------------------------
(* The steps.                                                               *)

\* What the listener knows stays right while the queue goes on.
LEMMA QueueKeeps ==
  ASSUME QueueInv, ListenerInv, EventsLast, UNCHANGED <<heard, cache, objects, wire, log>>
  PROVE  ListenerInv'
<1>1. /\ heard \in Int /\ Len(stream) \in Nat /\ heard <= Len(stream)
      /\ NotListening <= heard
      /\ \A j \in Jobs : cache[j] = NoObject \/ cache[j] \in Ids
  BY ListenerFacts DEF ListenerInv
<1>2. heard' \in Int /\ heard <= heard' /\ \A s \in log.hidden : s \in log'.hidden
  BY <1>1
<1>3. ListenerTypes'
  <2>1. ListenerTypes /\ Len(stream') \in Nat /\ Len(stream) <= Len(stream')
    BY DEF ListenerInv, EventsLast
  <2>2. heard \in NotListening..Len(stream')
    BY <1>1, <2>1 DEF NotListening
  <2> QED
    BY <2>1, <2>2 DEF ListenerTypes
<1>4. ASSUME NEW j \in Jobs PROVE CacheRight(j)'
  <2>1. CacheRight(j) /\ cache'[j] = cache[j]
    BY DEF ListenerInv, CacheInv
  <2> QED
    BY <1>1, <1>2, <2>1, CacheStays
<1>5. ASSUME NEW o \in Ids PROVE ObjectRight(o)'
  <2>1. ObjectRight(o) /\ objects'[o] = objects[o]
    BY DEF ListenerInv, CacheInv
  <2> QED
    BY <1>1, <1>2, <2>1, ObjectStays
<1>6. ASSUME NEW f \in DOMAIN wire PROVE FetchRight(wire[f])' /\ wire[f].finish \in Finishes
  <2> SUFFICES ASSUME NEW r, r = wire[f], NEW j, j = JobOf(r)
               PROVE  FetchRight(wire[f])' /\ wire[f].finish \in Finishes
    OBVIOUS
  <2>1. FetchRight(r) /\ objects'[r.object] = objects[r.object] /\ cache'[j] = cache[j]
    BY DEF ListenerInv, WireInv
  <2>2. \A s \in EventsOf(j)' : ~(heard < s /\ s <= heard')
    <3>1. \A s \in EventsOf(j)' : s \in DOMAIN stream'
      BY DEF EventsOf
    <3>2. \A s \in DOMAIN stream' : s \in Nat
      BY StreamFacts DEF EventsLast, QueueInv
    <3> QED
      BY <1>1, <3>1, <3>2
  <2>3. FetchRight(r)'
    BY <1>1, <1>2, <2>1, <2>2, FetchStays
  <2>4. FetchRight(wire[f])'
    BY <2>3
  <2> QED
    BY <2>1, <2>4 DEF FetchRight, Owned
<1>7. ASSUME NEW f \in DOMAIN wire, NEW g \in DOMAIN wire, f < g
      PROVE  Ordered(wire[f], wire[g])'
  <2> SUFFICES ASSUME NEW q, q = wire[f], NEW r, r = wire[g] PROVE Ordered(wire[f], wire[g])'
    OBVIOUS
  <2>1. Ordered(q, r) /\ r.finish \in Finishes
    BY <1>6, <1>7 DEF ListenerInv, WireInv
  <2>2. Ordered(q, r)'
    BY <1>2, <2>1, OrderStays
  <2> QED
    BY <2>2
<1>8. CacheInv'
  BY <1>4, <1>5 DEF CacheInv
<1>9. WireInv'
  BY <1>6, <1>7 DEF WireInv
<1>10. EmittedInv'
  <2>1. \A e \in log.emitted : e.finish \in Finishes' /\ EmittedRight(e)'
    BY <1>2, EmissionStays DEF ListenerInv, EmittedInv
  <2> QED
    BY <2>1 DEF EmittedInv
<1> QED
  BY <1>3, <1>8, <1>9, <1>10 DEF ListenerInv

\* What was emitted stays right, and what is emitted is.
LEMMA EmissionsKept ==
  ASSUME EventsLast, EmittedInv, \A s \in log.hidden : s \in log'.hidden,
         \A e \in log'.emitted :
           e \in log.emitted \/ (e.finish \in Finishes' /\ EmittedRight(e)')
  PROVE  EmittedInv'
<1>1. \A e \in log.emitted : e.finish \in Finishes' /\ EmittedRight(e)'
  BY EmissionStays DEF EmittedInv
<1> QED
  BY <1>1 DEF EmittedInv

\* A record of the history in which one field or two change.
LEMMA LogFields ==
  ASSUME ListenerTypes
  PROVE  /\ log.missed \in 0..MaxEvents /\ log.emitted \in SUBSET Emissions
         /\ log.lost \in SUBSET Ids /\ log.faults \in 0..MaxFaults
         /\ log.hidden \in SUBSET Ids
         /\ log = [missed |-> log.missed, emitted |-> log.emitted, lost |-> log.lost,
                   faults |-> log.faults, hidden |-> log.hidden]
BY DEF ListenerTypes

\* The listener starts with nothing in its cache and no fetch.
LEMMA ListenKeeps ==
  ASSUME QueueInv, ListenerInv, Listen
  PROVE  ListenerInv'
<1>1. /\ heard \in Int /\ Len(stream) \in Nat /\ heard <= Len(stream)
      /\ Len(wire) \in Nat /\ DOMAIN wire = 1..Len(wire)
      /\ Ids \in SUBSET Nat
      /\ \A j \in Jobs : cache[j] = NoObject \/ cache[j] \in Ids
  BY ListenerFacts DEF ListenerInv
<1>2. /\ DOMAIN stream \in SUBSET Nat /\ \A l : EventsOf(l) \in SUBSET (DOMAIN stream)
      /\ Len(stream) <= MaxEvents /\ MaxEvents \in Nat
  BY StreamFacts DEF QueueInv, QueueTypes
<1>3. /\ heard = -1 /\ heard' = Len(stream)
      /\ log' = [log EXCEPT !.missed = Len(stream)]
      /\ UNCHANGED <<stream, hash, cache, objects, wire>>
  BY DEF Listen, NotListening
<1>4. EventsLast /\ Finishes' = Finishes
  BY <1>3, QueueStays
<1>5. ASSUME NEW j \in Jobs PROVE cache[j] = NoObject
  <2>1. CacheRight(j)
    BY DEF ListenerInv, CacheInv
  <2>2. cache[j] # NoObject => cache[j] \in DOMAIN stream /\ cache[j] <= -1
    BY <1>2, <1>3, <2>1 DEF CacheRight
  <2> QED
    BY <1>2, <2>2
<1>6. ASSUME NEW f \in DOMAIN wire PROVE FALSE
  <2>1. wire[f].finish \in DOMAIN stream /\ wire[f].finish <= -1
    BY <1>3 DEF ListenerInv, WireInv, FetchRight, Owned, Finishes
  <2> QED
    BY <1>2, <2>1
<1>7. ASSUME NEW o \in Ids PROVE objects[o] = NewObject
  <2>1. ObjectRight(o) /\ o > heard
    BY <1>1, <1>3 DEF ListenerInv, CacheInv
  <2> QED
    BY <2>1 DEF ObjectRight
<1>8. log' \in [missed : 0..MaxEvents, emitted : SUBSET Emissions, lost : SUBSET Ids,
                faults : 0..MaxFaults, hidden : SUBSET Ids]
      /\ log'.hidden = log.hidden /\ log'.emitted = log.emitted
  <2>1. Len(stream) \in 0..MaxEvents
    BY <1>1, <1>2
  <2> QED
    BY <1>3, <2>1, LogFields DEF ListenerInv
<1>9. ListenerTypes'
  <2>1. heard' \in NotListening..Len(stream')
    BY <1>1, <1>3 DEF NotListening
  <2> QED
    BY <1>3, <1>8, <2>1 DEF ListenerTypes, ListenerInv
<1>10. CacheInv'
  <2>1. ~NewObject.named
    BY DEF NewObject
  <2>2. \A o \in Ids : ObjectRight(o)'
    BY <1>3, <1>7, <2>1 DEF ObjectRight
  <2>3. \A j \in Jobs : CacheRight(j)'
    BY <1>3, <1>5 DEF CacheRight
  <2> QED
    BY <2>2, <2>3 DEF CacheInv
<1>11. WireInv'
  BY <1>3, <1>6 DEF WireInv
<1>12. EmittedInv'
  BY <1>4, <1>8, EmissionsKept DEF ListenerInv
<1> QED
  BY <1>9, <1>10, <1>11, <1>12 DEF ListenerInv

\* An object leaves the cache.
LEMMA EvictKeeps ==
  ASSUME QueueInv, ListenerInv, NEW j \in Jobs, Evict(j)
  PROVE  ListenerInv'
<1>1. /\ heard \in Int /\ Len(stream) \in Nat /\ heard <= Len(stream)
      /\ NoObject \notin Ids
      /\ \A f \in DOMAIN wire : wire[f] \in Replies
  BY ListenerFacts DEF ListenerInv
<1>2. /\ cache' = [cache EXCEPT ![j] = NoObject]
      /\ UNCHANGED <<stream, hash, heard, objects, wire, log>>
  BY DEF Evict
<1>3. EventsLast /\ Finishes' = Finishes
      /\ \A l : EventsOf(l)' = EventsOf(l)
  BY <1>2, QueueStays
<1>4. /\ cache \in [Jobs -> {NoObject} \cup Ids]
      /\ cache'[j] = NoObject /\ \A l \in Jobs : l # j => cache'[l] = cache[l]
  BY <1>2 DEF ListenerInv, ListenerTypes
<1>5. ListenerTypes'
  BY <1>2, <1>4 DEF ListenerTypes, ListenerInv
<1>6. ASSUME NEW l \in Jobs PROVE CacheRight(l)'
  <2>1. CASE l = j
    BY <1>4, <2>1 DEF CacheRight
  <2>2. CASE l # j
    <3>1. CacheRight(l) /\ cache'[l] = cache[l]
      BY <1>4, <2>2 DEF ListenerInv, CacheInv
    <3> QED
      BY <1>1, <1>2, <1>3, <3>1, CacheStays
  <2> QED
    BY <2>1, <2>2
<1>7. ASSUME NEW o \in Ids PROVE ObjectRight(o)'
  <2>1. ObjectRight(o)
    BY DEF ListenerInv, CacheInv
  <2> QED
    BY <1>1, <1>2, <1>3, <2>1, ObjectStays
<1>8. ASSUME NEW f \in DOMAIN wire PROVE FetchRight(wire[f])' /\ wire[f].finish \in Finishes
  <2> SUFFICES ASSUME NEW r, r = wire[f], NEW l, l = JobOf(r)
               PROVE  FetchRight(wire[f])' /\ wire[f].finish \in Finishes
    OBVIOUS
  <2>1. FetchRight(r) /\ r.object \in Ids /\ r.finish \in Finishes
    BY <1>1 DEF ListenerInv, WireInv, Replies, FetchRight, Owned
  <2>2. l \in Jobs
    BY <2>1, StreamFacts DEF QueueInv, Finishes, JobOf
  <2>3. r.object = cache'[l] => r.object = cache[l]
    BY <1>1, <1>4, <2>1, <2>2
  <2>4. \A s \in EventsOf(l)' : ~(heard < s /\ s <= heard')
    <3>1. \A s \in EventsOf(l)' : s \in Nat
      BY <1>3, StreamFacts DEF QueueInv
    <3> QED
      BY <1>1, <1>2, <3>1
  <2>5. FetchRight(r)'
    BY <1>1, <1>2, <1>3, <2>1, <2>3, <2>4, FetchStays
  <2>6. FetchRight(wire[f])'
    BY <1>2, <2>5
  <2> QED
    BY <2>1, <2>6
<1>9. ASSUME NEW f \in DOMAIN wire, NEW g \in DOMAIN wire, f < g
      PROVE  Ordered(wire[f], wire[g])'
  <2> SUFFICES ASSUME NEW q, q = wire[f], NEW r, r = wire[g] PROVE Ordered(wire[f], wire[g])'
    OBVIOUS
  <2>1. Ordered(q, r) /\ r.finish \in Finishes
    BY <1>8, <1>9 DEF ListenerInv, WireInv
  <2>2. Ordered(q, r)'
    BY <1>2, <1>3, <2>1, OrderStays
  <2> QED
    BY <1>2, <2>2
<1>10. CacheInv' /\ WireInv'
  BY <1>2, <1>6, <1>7, <1>8, <1>9 DEF CacheInv, WireInv
<1>11. EmittedInv'
  BY <1>2, <1>3, EmissionsKept DEF ListenerInv
<1> QED
  BY <1>5, <1>10, <1>11 DEF ListenerInv

\* What Redis and the reply change of a fetch
Executed(w, f, h) == [w EXCEPT ![f].state = "executed", ![f].hash = h]
Written(w, f) == [w EXCEPT ![f].state = "answered"]

\* The state of a fetch changes, and its reply.
LEMMA ReplyArrives ==
  ASSUME NEW w \in Seq(Replies), NEW f \in DOMAIN w, NEW h \in Hashes
  PROVE  LET v == Executed(w, f, h)
         IN /\ v \in Seq(Replies) /\ Len(v) = Len(w) /\ DOMAIN v = DOMAIN w
            /\ v[f] \in Replies /\ v[f].object = w[f].object /\ v[f].finish = w[f].finish
            /\ v[f].state = "executed" /\ v[f].hash = h
            /\ \A g \in DOMAIN w : g # f => v[g] = w[g]
<1> DEFINE a == [w[f] EXCEPT !.state = "executed"]
           b == [a EXCEPT !.hash = h]
           u == [w EXCEPT ![f] = a]
           v == [w EXCEPT ![f].state = "executed", ![f].hash = h]
<1>1. /\ w[f] \in Replies
      /\ a \in Replies /\ a.object = w[f].object /\ a.finish = w[f].finish
      /\ a.state = "executed"
  <2>1. w[f] \in Replies
    OBVIOUS
  <2> QED
    BY <2>1 DEF Replies
<1>2. u \in Seq(Replies) /\ Len(u) = Len(w) /\ DOMAIN u = DOMAIN w
      /\ u[f] = a /\ \A g \in DOMAIN w : g # f => u[g] = w[g]
  BY <1>1
<1>3. v = [u EXCEPT ![f] = [u[f] EXCEPT !.hash = h]]
  OBVIOUS
<1> HIDE DEF u, v, a
<1>4. b \in Replies /\ b.object = a.object /\ b.finish = a.finish /\ b.state = a.state
      /\ b.hash = h
  BY <1>1 DEF Replies
<1> HIDE DEF b
<1>5. v = [u EXCEPT ![f] = b]
  BY <1>2, <1>3 DEF b
<1>6. /\ v \in Seq(Replies) /\ Len(v) = Len(u) /\ DOMAIN v = DOMAIN u
      /\ v[f] = b /\ \A g \in DOMAIN u : g # f => v[g] = u[g]
  BY <1>2, <1>4, <1>5
<1>7. /\ v \in Seq(Replies) /\ Len(v) = Len(w) /\ DOMAIN v = DOMAIN w
      /\ v[f] \in Replies /\ v[f].object = w[f].object /\ v[f].finish = w[f].finish
      /\ v[f].state = "executed" /\ v[f].hash = h
      /\ \A g \in DOMAIN w : g # f => v[g] = w[g]
  BY <1>1, <1>2, <1>4, <1>6
<1> QED
  BY <1>7 DEF v, Executed

\* The reply is written.
LEMMA ReplyWritten ==
  ASSUME NEW w \in Seq(Replies), NEW f \in DOMAIN w
  PROVE  LET v == Written(w, f)
         IN /\ v \in Seq(Replies) /\ Len(v) = Len(w) /\ DOMAIN v = DOMAIN w
            /\ v[f] \in Replies /\ v[f].object = w[f].object /\ v[f].finish = w[f].finish
            /\ v[f].state = "answered" /\ v[f].hash = w[f].hash
            /\ \A g \in DOMAIN w : g # f => v[g] = w[g]
<1> DEFINE a == [w[f] EXCEPT !.state = "answered"]
           v == [w EXCEPT ![f].state = "answered"]
<1>1. /\ w[f] \in Replies
      /\ a \in Replies /\ a.object = w[f].object /\ a.finish = w[f].finish
      /\ a.state = "answered" /\ a.hash = w[f].hash
  <2>1. w[f] \in Replies
    OBVIOUS
  <2> QED
    BY <2>1 DEF Replies
<1>2. v = [w EXCEPT ![f] = a]
  OBVIOUS
<1> HIDE DEF v, a
<1>3. /\ v \in Seq(Replies) /\ Len(v) = Len(w) /\ DOMAIN v = DOMAIN w
      /\ v[f] = a /\ \A g \in DOMAIN w : g # f => v[g] = w[g]
  BY <1>1, <1>2
<1>4. /\ v \in Seq(Replies) /\ Len(v) = Len(w) /\ DOMAIN v = DOMAIN w
      /\ v[f] \in Replies /\ v[f].object = w[f].object /\ v[f].finish = w[f].finish
      /\ v[f].state = "answered" /\ v[f].hash = w[f].hash
      /\ \A g \in DOMAIN w : g # f => v[g] = w[g]
  BY <1>1, <1>3
<1> QED
  BY <1>4 DEF v, Written

\* The fetches stay in order.
LEMMA OrdersStay ==
  ASSUME ListenerInv, EventsLast, \A s \in log.hidden : s \in log'.hidden,
         DOMAIN wire' = DOMAIN wire,
         \A f \in DOMAIN wire : wire'[f].object = wire[f].object /\ wire'[f].finish = wire[f].finish
  PROVE  (\A f, g \in DOMAIN wire : f < g => Ordered(wire[f], wire[g]))'
<1> SUFFICES ASSUME NEW f \in DOMAIN wire, NEW g \in DOMAIN wire, f < g
             PROVE  Ordered(wire[f], wire[g])'
  OBVIOUS
<1> SUFFICES ASSUME NEW q, q = wire[f], NEW r, r = wire[g], NEW p, p = wire'[f],
                    NEW t, t = wire'[g]
             PROVE  Ordered(p, t)'
  OBVIOUS
<1>1. Ordered(q, r) /\ r.finish \in Finishes
  BY DEF ListenerInv, WireInv, FetchRight, Owned
<1>2. Ordered(q, r)'
  BY <1>1, OrderStays
<1>3. p.object = q.object /\ p.finish = q.finish /\ t.object = r.object /\ t.finish = r.finish
  OBVIOUS
<1> QED
  BY <1>2, <1>3 DEF Ordered

\* The job of a fetch.
LEMMA FetchFacts ==
  ASSUME QueueInv, ListenerInv, NEW f \in DOMAIN wire
  PROVE  LET r == wire[f] IN
         /\ r \in Replies /\ FetchRight(r)
         /\ r.object \in Ids /\ r.finish \in Finishes /\ r.finish \in DOMAIN stream
         /\ r.finish \in Nat /\ stream[r.finish].kind = "finished"
         /\ JobOf(r) = stream[r.finish].job /\ JobOf(r) \in Jobs
         /\ r.finish <= heard /\ r.object <= r.finish /\ r.object \in EventsOf(JobOf(r))
         /\ r.finish \in EventsOf(JobOf(r))
         /\ StartRight(r.finish) /\ FinishRight(r.finish)
         /\ HashRight(JobOf(r))
<1> SUFFICES ASSUME NEW r, r = wire[f]
             PROVE  /\ r \in Replies /\ FetchRight(r)
                    /\ r.object \in Ids /\ r.finish \in Finishes /\ r.finish \in DOMAIN stream
                    /\ r.finish \in Nat /\ stream[r.finish].kind = "finished"
                    /\ JobOf(r) = stream[r.finish].job /\ JobOf(r) \in Jobs
                    /\ r.finish <= heard /\ r.object <= r.finish
                    /\ r.object \in EventsOf(JobOf(r))
                    /\ r.finish \in EventsOf(JobOf(r))
                    /\ StartRight(r.finish) /\ FinishRight(r.finish)
                    /\ HashRight(JobOf(r))
  OBVIOUS
<1>1. r \in Replies /\ FetchRight(r)
  BY ListenerFacts DEF ListenerInv, WireInv
<1>2. r.object \in Ids
  BY <1>1 DEF Replies
<1>3. /\ r.finish \in Finishes /\ r.finish <= heard /\ r.object <= r.finish
      /\ r.object \in EventsOf(JobOf(r))
  BY <1>1 DEF FetchRight, Owned
<1>4. r.finish \in DOMAIN stream /\ stream[r.finish].kind = "finished"
  BY <1>3 DEF Finishes
<1>5. /\ r.finish \in Nat /\ stream[r.finish].job \in Jobs
      /\ r.finish \in EventsOf(stream[r.finish].job)
  BY <1>4, StreamFacts DEF QueueInv
<1>6. StartRight(r.finish) /\ FinishRight(r.finish)
  BY <1>3 DEF QueueInv
<1>7. HashRight(stream[r.finish].job)
  BY <1>5 DEF QueueInv
<1> QED
  BY <1>1, <1>2, <1>3, <1>4, <1>5, <1>6, <1>7 DEF JobOf

\* Redis answers a fetch with what the job has.
LEMMA ExecuteKeeps ==
  ASSUME QueueInv, ListenerInv, Execute
  PROVE  ListenerInv'
<1>1. PICK f \in DOMAIN wire :
        /\ FirstIn(f, "sent")
        /\ wire' = [wire EXCEPT ![f].state = "executed",
                                ![f].hash = hash[stream[wire[f].finish].job]]
  BY DEF Execute
<1>2. UNCHANGED <<stream, hash, heard, cache, objects, log>>
  BY DEF Execute
<1> SUFFICES ASSUME NEW r, r = wire[f], NEW i, i = r.finish, NEW j, j = JobOf(r),
                    NEW h, h = hash[j]
             PROVE  ListenerInv'
  OBVIOUS
<1>3. /\ r \in Replies /\ FetchRight(r) /\ j = stream[i].job /\ j \in Jobs
      /\ i \in EventsOf(j) /\ FinishRight(i) /\ HashRight(j)
  BY FetchFacts
<1>4. r.state = "sent"
  BY <1>1 DEF FirstIn
<1>5. h \in Hashes
  BY <1>3 DEF QueueInv, QueueTypes
<1>6. wire' = Executed(wire, f, h) /\ wire \in Seq(Replies)
  BY <1>1, <1>3 DEF Executed, ListenerInv, ListenerTypes
<1>7. /\ wire' \in Seq(Replies) /\ Len(wire') = Len(wire) /\ DOMAIN wire' = DOMAIN wire
      /\ wire'[f] \in Replies /\ wire'[f].object = wire[f].object
      /\ wire'[f].finish = wire[f].finish
      /\ wire'[f].state = "executed" /\ wire'[f].hash = h
      /\ \A g \in DOMAIN wire : g # f => wire'[g] = wire[g]
  BY <1>5, <1>6, ReplyArrives
<1>8. EventsLast /\ \A l : EventsOf(l)' = EventsOf(l)
  BY <1>2, QueueStays
<1>9. /\ heard \in Int /\ Len(stream) \in Nat /\ heard <= Len(stream)
      /\ \A l : EventsOf(l) \in SUBSET Nat
  BY ListenerFacts, StreamFacts DEF ListenerInv, QueueInv
<1>10. ASSUME NEW t, FetchRight(t) PROVE FetchRight(t)'
  <2> SUFFICES ASSUME NEW l, l = JobOf(t) PROVE FetchRight(t)'
    OBVIOUS
  <2>1. \A s \in EventsOf(l)' : ~(heard < s /\ s <= heard')
    BY <1>2, <1>8, <1>9
  <2> QED
    BY <1>2, <1>8, <1>9, <1>10, <2>1, FetchStays
<1>11. FetchRight(wire[f])'
  <2> SUFFICES ASSUME NEW t, t = wire'[f] PROVE FetchRight(t)'
    OBVIOUS
  <2>1. /\ t.object = r.object /\ t.finish = i /\ t.state = "executed" /\ t.hash = h
        /\ JobOf(t) = j
    BY <1>7 DEF JobOf
  <2>2. Owned(t) /\ Covered(t)
    BY <1>3, <2>1 DEF FetchRight, Owned, Covered
  <2>3. Recalled(t)
    BY <1>3, <1>4, <2>1 DEF FetchRight, Recalled
  <2>4. h.state = "gone" => h = Gone
    BY <1>3 DEF HashRight
  <2>5. h.state # "gone" => h.times.timestamp = Creation(j)
    BY <1>3 DEF HashRight
  <2>6. Unretried(i) /\ h.state # "gone" =>
          h.times.processedOn = StartOf(i) /\ h.times.finishedOn = i
    BY <1>3 DEF FinishRight
  <2>7. Fetched(t)
    BY <2>1, <2>4, <2>5, <2>6 DEF Fetched
  <2>8. FetchRight(t)
    BY <2>2, <2>3, <2>7 DEF FetchRight
  <2> QED
    BY <1>10, <2>8
<1>12. ASSUME NEW g \in DOMAIN wire, g # f PROVE FetchRight(wire[g])'
  <2> SUFFICES ASSUME NEW t, t = wire[g] PROVE FetchRight(wire[g])'
    OBVIOUS
  <2>1. FetchRight(t) /\ wire'[g] = t
    BY <1>7, <1>12, FetchFacts
  <2> QED
    BY <1>10, <2>1
<1>13. WireInv'
  <2>1. \A g \in DOMAIN wire' : FetchRight(wire[g])'
    BY <1>7, <1>11, <1>12
  <2>2. (\A p, g \in DOMAIN wire : p < g => Ordered(wire[p], wire[g]))'
    BY <1>2, <1>7, <1>8, OrdersStay
  <2> QED
    BY <2>1, <2>2 DEF WireInv
<1>14. CacheInv'
  <2>1. \A l \in Jobs : CacheRight(l)'
    BY <1>2, <1>8, <1>9, CacheStays DEF ListenerInv, CacheInv
  <2>2. \A o \in Ids : ObjectRight(o)'
    BY <1>2, <1>8, <1>9, ObjectStays DEF ListenerInv, CacheInv
  <2> QED
    BY <2>1, <2>2 DEF CacheInv
<1>15. EmittedInv'
  BY <1>2, <1>8, EmissionsKept DEF ListenerInv
<1>16. ListenerTypes'
  BY <1>2, <1>7 DEF ListenerTypes, ListenerInv
<1> QED
  BY <1>13, <1>14, <1>15, <1>16 DEF ListenerInv

\* The reply of a fetch is written: it is right for its finish, and no other fetch of the
\* object needs what it writes over.
LEMMA AnswerKeeps ==
  ASSUME QueueInv, ListenerInv, Answer
  PROVE  ListenerInv'
<1>1. PICK f \in DOMAIN wire :
        /\ FirstIn(f, "executed")
        /\ objects' = [objects EXCEPT ![wire[f].object] = Learnt(@, wire[f].hash)]
        /\ wire' = [wire EXCEPT ![f].state = "answered"]
  BY DEF Answer
<1>2. UNCHANGED <<stream, hash, heard, cache, log>>
  BY DEF Answer
<1> SUFFICES ASSUME NEW r, r = wire[f], NEW i, i = r.finish, NEW j, j = JobOf(r),
                    NEW h, h = r.hash, NEW o, o = r.object, NEW x, x = objects[o],
                    NEW y, y = Learnt(x, h), NEW st, st = StartOf(i)
             PROVE  ListenerInv'
  OBVIOUS
<1>3. /\ r \in Replies /\ FetchRight(r) /\ o \in Ids /\ i \in Nat /\ i <= heard /\ o <= i
      /\ o \in EventsOf(j) /\ i \in EventsOf(j) /\ i \in Finishes /\ j \in Jobs
      /\ stream[i].kind = "finished" /\ j = stream[i].job /\ StartRight(i)
  BY FetchFacts
<1>4. r.state = "executed"
  BY <1>1 DEF FirstIn
<1>5. x \in Objects /\ h \in Hashes
  BY <1>3, ListenerFacts DEF ListenerInv, Replies
<1>6. /\ y \in Objects /\ y.named = (h.state # "gone")
      /\ y.times.timestamp = h.times.timestamp
      /\ y.times.processedOn = IF h.times.processedOn = Missing
                                 THEN x.times.processedOn ELSE h.times.processedOn
      /\ y.times.finishedOn = IF h.times.finishedOn = Missing
                                THEN x.times.finishedOn ELSE h.times.finishedOn
  BY <1>5, LearntFields
<1>7. /\ objects \in [Ids -> Objects] /\ objects' \in [Ids -> Objects]
      /\ objects'[o] = y /\ \A p \in Ids : p # o => objects'[p] = objects[p]
  BY <1>1, <1>3, <1>6 DEF ListenerInv, ListenerTypes
<1>8. /\ wire' \in Seq(Replies) /\ Len(wire') = Len(wire) /\ DOMAIN wire' = DOMAIN wire
      /\ wire'[f] \in Replies /\ wire'[f].object = wire[f].object
      /\ wire'[f].finish = wire[f].finish
      /\ wire'[f].state = "answered" /\ wire'[f].hash = wire[f].hash
      /\ \A g \in DOMAIN wire : g # f => wire'[g] = wire[g]
  <2>1. wire' = Written(wire, f) /\ wire \in Seq(Replies)
    BY <1>1 DEF Written, ListenerInv, ListenerTypes
  <2> QED
    BY <2>1, ReplyWritten
<1>9. /\ EventsLast /\ Finishes' = Finishes
      /\ \A l : EventsOf(l)' = EventsOf(l) /\ Creation(l)' = Creation(l)
      /\ \A k : Unretried(k)' <=> Unretried(k)
      /\ \A k : StartOf(k)' = StartOf(k)
  BY <1>2, QueueStays
<1>10. /\ heard \in Int /\ Len(stream) \in Nat /\ heard <= Len(stream)
       /\ \A l : EventsOf(l) \in SUBSET Nat
       /\ \A l : EventsOf(l) \in SUBSET (DOMAIN stream)
       /\ DOMAIN wire = 1..Len(wire) /\ Len(wire) \in Nat
       /\ Ids \in SUBSET Nat
  BY ListenerFacts, StreamFacts DEF ListenerInv, QueueInv
<1>11. /\ st \in EventsOf(j) /\ st \in Nat /\ st # Missing /\ i # Missing /\ st < i
       /\ \A k \in EventsOf(j) : k < i => k <= st
  BY <1>3, <1>10, StreamFacts DEF StartRight, QueueInv, Missing
<1>12. \/ h = Gone /\ hash[j].state = "gone"
       \/ /\ h.state # "gone" /\ h.times.timestamp = Creation(j)
          /\ Unretried(i) => h.times.processedOn = st /\ h.times.finishedOn = i
  BY <1>3, <1>4 DEF FetchRight, Fetched
<1>13. FetchRight(wire[f])'
  <2> SUFFICES ASSUME NEW t, t = wire'[f] PROVE FetchRight(t)'
    OBVIOUS
  <2>1. /\ t.object = o /\ t.finish = i /\ t.state = "answered" /\ t.hash = h
        /\ JobOf(t) = j /\ JobOf(t)' = j
    BY <1>2, <1>3, <1>8 DEF JobOf
  <2>2. Owned(t)'
    BY <1>2, <1>3, <1>9, <2>1 DEF Owned
  <2>3. Covered(t)'
    <3>1. Covered(r)
      BY <1>3 DEF FetchRight
    <3> QED
      BY <1>2, <1>9, <2>1, <3>1 DEF Covered
  <2>4. Fetched(t)'
    BY <1>2, <1>9, <1>12, <2>1 DEF Fetched
  <2>5. ASSUME Unretried(i), st \notin log.hidden
        PROVE  /\ y.times.finishedOn = i
               /\ y.times.processedOn = IF o > st /\ h.state = "gone" THEN Missing ELSE st
               /\ y.times.timestamp = IF h.state = "gone" THEN Missing ELSE Creation(j)
    <3>1. /\ x.times.finishedOn = i
          /\ x.times.processedOn = IF o > st THEN Missing ELSE st
      BY <1>3, <1>4, <2>5 DEF FetchRight, Recalled
    <3>2. CASE h = Gone
      <4>1. /\ h.times.processedOn = Missing /\ h.times.finishedOn = Missing
            /\ h.times.timestamp = Missing /\ h.state = "gone"
        BY <3>2, GoneHash DEF NoTimes
      <4> QED
        BY <1>6, <3>1, <3>2, <4>1
    <3>3. CASE h.state # "gone" /\ h.times.timestamp = Creation(j)
               /\ h.times.processedOn = st /\ h.times.finishedOn = i
      BY <1>6, <1>11, <3>3
    <3> QED
      BY <1>12, <2>5, <3>2, <3>3
  <2>6. Recalled(t)'
    BY <1>2, <1>7, <1>9, <2>1, <2>5 DEF Recalled
  <2> QED
    BY <2>2, <2>3, <2>4, <2>6 DEF FetchRight
<1>14. ASSUME NEW g \in DOMAIN wire, g # f PROVE FetchRight(wire[g])'
  <2> SUFFICES ASSUME NEW t, t = wire[g], NEW l, l = JobOf(t), NEW m, m = t.finish
               PROVE  FetchRight(wire[g])'
    OBVIOUS
  <2>1. /\ FetchRight(t) /\ t.object \in Ids /\ m \in Nat /\ t.object \in EventsOf(l)
        /\ m \in EventsOf(l) /\ FinishRight(m) /\ l = stream[m].job
    BY FetchFacts
  <2>2. /\ f < g => Ordered(r, t)
        /\ g < f => Ordered(t, r)
    BY DEF ListenerInv, WireInv
  <2>3. CASE t.object # o
    <3>1. objects'[t.object] = objects[t.object]
      BY <1>7, <2>1, <2>3
    <3>2. \A s \in EventsOf(l)' : ~(heard < s /\ s <= heard')
      BY <1>2, <1>9, <1>10
    <3>3. FetchRight(t)'
      BY <1>2, <1>9, <1>10, <2>1, <3>1, <3>2, FetchStays
    <3> QED
      BY <1>8, <1>14, <3>3
  <2>4. CASE t.object = o
    <3>1. ~Unretried(m) \/ StartOf(m) \in log.hidden
      <4>1. CASE f < g
        BY <2>2, <2>4, <4>1 DEF Ordered
      <4>2. CASE g < f
        <5>1. m < i
          BY <2>2, <4>2 DEF Ordered
        <5>2. l = j
          BY <1>3, <2>1, <2>4 DEF EventsOf
        <5> QED
          BY <1>3, <2>1, <5>1, <5>2 DEF FinishRight
      <4> QED
        BY <1>10, <1>14, <4>1, <4>2
    <3>2. \A s \in EventsOf(l)' : ~(heard < s /\ s <= heard')
      BY <1>2, <1>9, <1>10
    <3>3. FetchRight(t)'
      BY <1>2, <1>9, <1>10, <2>1, <3>1, <3>2, FetchStays
    <3> QED
      BY <1>8, <1>14, <3>3
  <2> QED
    BY <2>3, <2>4
<1>15. WireInv'
  <2>1. \A g \in DOMAIN wire' : FetchRight(wire[g])'
    BY <1>8, <1>13, <1>14
  <2>2. (\A p, g \in DOMAIN wire : p < g => Ordered(wire[p], wire[g]))'
    BY <1>2, <1>8, <1>9, OrdersStay
  <2> QED
    BY <2>1, <2>2 DEF WireInv
<1>16. ASSUME NEW l \in Jobs PROVE CacheRight(l)'
  <2>1. CacheRight(l)
    BY DEF ListenerInv, CacheInv
  <2>2. CASE cache[l] # o
    <3>1. cache[l] = NoObject \/ cache[l] \in Ids
      BY ListenerFacts DEF ListenerInv
    <3>2. cache[l] # NoObject => objects'[cache[l]] = objects[cache[l]]
      BY <1>7, <2>2, <3>1
    <3> QED
      BY <1>2, <1>9, <1>10, <2>1, <3>2, CacheStays
  <2>3. CASE cache[l] = o
    <3>1. o # NoObject
      BY <1>3, ListenerFacts DEF ListenerInv
    <3>2. l = j
      BY <1>3, <2>1, <2>3, <3>1 DEF CacheRight, EventsOf
    <3>3. ASSUME NEW s \in EventsOf(j), s <= heard, stream[s].kind = "active",
                 s \notin log.hidden, \A k \in EventsOf(j) : k > s => k > heard
          PROVE  FALSE
      <4>1. ~(i < s)
        BY <1>3, <2>3, <3>2, <3>3 DEF FetchRight, Covered
      <4>2. s # i /\ s \in Nat
        BY <1>3, <1>10, <3>3
      <4>3. i > s
        BY <1>3, <4>1, <4>2
      <4> QED
        BY <1>3, <1>10, <3>3, <4>3
    <3>4. \A s \in EventsOf(j) :
            ~(/\ s <= heard /\ stream[s].kind = "active" /\ s \notin log.hidden
              /\ \A k \in EventsOf(j) : k > s => k > heard)
      BY <3>3
    <3>5. /\ cache'[j] = o /\ o \in EventsOf(j)' /\ o <= heard'
      BY <1>2, <1>3, <1>9, <1>10, <2>3, <3>2
    <3> QED
      BY <1>2, <1>9, <3>2, <3>4, <3>5 DEF CacheRight
  <2> QED
    BY <2>2, <2>3
<1>17. ASSUME NEW p \in Ids PROVE ObjectRight(p)'
  <2>1. CASE p # o
    <3>1. objects'[p] = objects[p] /\ ObjectRight(p)
      BY <1>7, <2>1 DEF ListenerInv, CacheInv
    <3> QED
      BY <1>2, <1>9, <1>10, <3>1, ObjectStays
  <2>2. CASE p = o
    <3>1. ~(o > heard')
      BY <1>2, <1>3, <1>10
    <3>2. o \in DOMAIN stream /\ stream[o].job = j
      BY <1>3 DEF EventsOf
    <3>3. h = Gone => h.state = "gone"
      BY GoneHash
    <3>4. y.named => y.times.timestamp = Creation(j)
      BY <1>6, <1>12, <3>3
    <3> QED
      BY <1>2, <1>7, <1>9, <2>2, <3>1, <3>2, <3>4 DEF ObjectRight
  <2> QED
    BY <2>1, <2>2
<1>18. CacheInv'
  BY <1>16, <1>17 DEF CacheInv
<1>19. EmittedInv'
  BY <1>2, <1>9, EmissionsKept DEF ListenerInv
<1>20. ListenerTypes'
  BY <1>2, <1>7, <1>8 DEF ListenerTypes, ListenerInv
<1> QED
  BY <1>15, <1>18, <1>19, <1>20 DEF ListenerInv

\* What is emitted of a finish.
LEMMA EmittedFields ==
  ASSUME QueueInv, NEW i \in Ids, NEW o \in Ids, NEW x \in Objects, NEW g \in BOOLEAN
  PROVE  LET e == Emitted(i, o, x, g) IN
         /\ e \in Emissions /\ e.finish = i /\ e.object = o
         /\ e.latency = Between(x.times.processedOn, x.times.finishedOn)
         /\ e.wait = Between(x.times.timestamp, x.times.processedOn)
         /\ e.gone <=> g
         /\ e.retried <=> ~Unretried(i)
<1> DEFINE lat == Between(x.times.processedOn, x.times.finishedOn)
           wt == Between(x.times.timestamp, x.times.processedOn)
           r == \E k \in EventsOf(stream[i].job) : k > i /\ stream[k].kind = "waiting"
           e == [finish |-> i, latency |-> lat, wait |-> wt, object |-> o, gone |-> g,
                 retried |-> r]
<1>1. Emitted(i, o, x, g) = e
  BY DEF Emitted
<1>2. lat \in Durations /\ wt \in Durations
  <2>1. x.times \in TimesOfJobs
    BY DEF Objects
  <2> QED
    BY <2>1, TimesFields, BetweenFacts
<1>3. r \in BOOLEAN
  OBVIOUS
<1>4. r <=> ~Unretried(i)
  BY DEF Unretried
<1> HIDE DEF lat, wt, r
<1>5. e \in Emissions
  BY <1>2, <1>3, Zenon DEF Emissions
<1>6. /\ e.finish = i /\ e.object = o /\ e.latency = lat /\ e.wait = wt /\ e.gone = g
      /\ e.retried = r
  OBVIOUS
<1> HIDE DEF e
<1>7. /\ e \in Emissions /\ e.finish = i /\ e.object = o
      /\ e.latency = lat /\ e.wait = wt
      /\ e.gone <=> g
      /\ e.retried <=> ~Unretried(i)
  BY <1>4, <1>5, <1>6, Zenon
<1> QED
  BY <1>1, <1>7, Zenon DEF lat, wt

\* A fetch ends: the others stay right.
LEMMA EndedKeeps ==
  ASSUME QueueInv, ListenerInv, wire # <<>>, wire' = Tail(wire),
         UNCHANGED <<stream, hash, heard, cache, objects>>, log'.hidden = log.hidden
  PROVE  wire' \in Seq(Replies) /\ CacheInv' /\ WireInv' /\ EventsLast
<1>1. /\ heard \in Int /\ Len(stream) \in Nat /\ heard <= Len(stream)
      /\ \A l : EventsOf(l) \in SUBSET Nat
      /\ DOMAIN wire = 1..Len(wire) /\ Len(wire) \in Nat /\ wire \in Seq(Replies)
  BY ListenerFacts, StreamFacts DEF ListenerInv, QueueInv, ListenerTypes
<1>2. /\ EventsLast /\ \A l : EventsOf(l)' = EventsOf(l)
  BY QueueStays
<1>3. /\ wire' \in Seq(Replies) /\ DOMAIN wire' \in SUBSET Nat
      /\ \A f \in DOMAIN wire' : f + 1 \in DOMAIN wire /\ wire'[f] = wire[f + 1]
  BY <1>1
<1>4. ASSUME NEW t, FetchRight(t) PROVE FetchRight(t)'
  <2> SUFFICES ASSUME NEW l, l = JobOf(t) PROVE FetchRight(t)'
    OBVIOUS
  <2>1. \A s \in EventsOf(l)' : ~(heard < s /\ s <= heard')
    BY <1>1, <1>2
  <2> QED
    BY <1>1, <1>2, <1>4, <2>1, FetchStays
<1>5. ASSUME NEW f \in DOMAIN wire' PROVE FetchRight(wire[f])'
  <2>1. FetchRight(wire[f + 1])
    BY <1>3 DEF ListenerInv, WireInv
  <2> SUFFICES ASSUME NEW t, t = wire[f + 1] PROVE FetchRight(wire[f])'
    OBVIOUS
  <2>2. FetchRight(t)' /\ wire'[f] = t
    BY <1>3, <1>4, <2>1
  <2> QED
    BY <2>2
<1>6. ASSUME NEW f \in DOMAIN wire', NEW g \in DOMAIN wire', f < g
      PROVE  Ordered(wire[f], wire[g])'
  <2> SUFFICES ASSUME NEW q, q = wire[f + 1], NEW r, r = wire[g + 1]
               PROVE  Ordered(wire[f], wire[g])'
    OBVIOUS
  <2>1. f + 1 \in DOMAIN wire /\ g + 1 \in DOMAIN wire /\ f + 1 < g + 1
    BY <1>3, <1>6
  <2>2. Ordered(q, r) /\ r.finish \in Finishes
    BY <2>1 DEF ListenerInv, WireInv, FetchRight, Owned
  <2>3. Ordered(q, r)'
    BY <1>2, <2>2, OrderStays
  <2>4. wire'[f] = q /\ wire'[g] = r
    BY <1>3
  <2> QED
    BY <2>3, <2>4
<1>7. CacheInv'
  <2>1. \A l \in Jobs : CacheRight(l)'
    BY <1>1, <1>2, CacheStays DEF ListenerInv, CacheInv
  <2>2. \A o \in Ids : ObjectRight(o)'
    BY <1>1, <1>2, ObjectStays DEF ListenerInv, CacheInv
  <2> QED
    BY <2>1, <2>2 DEF CacheInv
<1> QED
  BY <1>2, <1>3, <1>5, <1>6, <1>7 DEF WireInv

\* A fetch that fails takes its finish with it.
LEMMA FailKeeps ==
  ASSUME QueueInv, ListenerInv, Fail
  PROVE  ListenerInv'
<1> SUFFICES ASSUME NEW r, r = Head(wire) PROVE ListenerInv'
  OBVIOUS
<1>1. /\ wire # <<>> /\ log.faults < MaxFaults
      /\ log' = [log EXCEPT !.faults = @ + 1, !.lost = @ \cup {r.finish}]
      /\ wire' = Tail(wire)
      /\ UNCHANGED <<stream, hash, heard, cache, objects>>
  BY DEF Fail
<1>2. r.finish \in Ids
  <2>1. wire \in Seq(Replies)
    BY DEF ListenerInv, ListenerTypes
  <2>2. r \in Replies
    BY <1>1, <2>1
  <2> QED
    BY <2>2 DEF Replies
<1>3. /\ log' = [missed |-> log.missed, emitted |-> log.emitted,
                 lost |-> log.lost \cup {r.finish}, faults |-> log.faults + 1,
                 hidden |-> log.hidden]
      /\ log.missed \in 0..MaxEvents /\ log.emitted \in SUBSET Emissions
      /\ log.lost \in SUBSET Ids /\ log.faults \in 0..MaxFaults
      /\ log.hidden \in SUBSET Ids
  BY <1>1, LogFields DEF ListenerInv
<1>4. log.faults + 1 \in 0..MaxFaults /\ log.lost \cup {r.finish} \in SUBSET Ids
  BY <1>1, <1>2, <1>3, BoundsAssumption
<1>5. /\ log' \in [missed : 0..MaxEvents, emitted : SUBSET Emissions, lost : SUBSET Ids,
                   faults : 0..MaxFaults, hidden : SUBSET Ids]
      /\ log'.hidden = log.hidden /\ log'.emitted = log.emitted
  BY <1>3, <1>4
<1>6. wire' \in Seq(Replies) /\ CacheInv' /\ WireInv' /\ EventsLast
  BY <1>1, <1>5, EndedKeeps
<1>7. EmittedInv'
  BY <1>5, <1>6, EmissionsKept DEF ListenerInv
<1>8. ListenerTypes'
  BY <1>1, <1>5, <1>6 DEF ListenerTypes, ListenerInv
<1> QED
  BY <1>6, <1>7, <1>8 DEF ListenerInv

\* A finish whose data were fetched is emitted with what is right for it.
LEMMA EmitKeeps ==
  ASSUME QueueInv, ListenerInv, EmitFetched
  PROVE  ListenerInv'
<1> SUFFICES ASSUME NEW r, r = Head(wire), NEW i, i = r.finish, NEW j, j = JobOf(r),
                    NEW o, o = r.object, NEW x, x = objects[o], NEW st, st = StartOf(i),
                    NEW g, g = (r.hash.state = "gone"), NEW e, e = Emitted(i, o, x, g)
             PROVE  ListenerInv'
  OBVIOUS
<1>1. /\ wire # <<>> /\ r.state = "answered"
      /\ log' = [log EXCEPT !.emitted = @ \cup {e}]
      /\ wire' = Tail(wire)
      /\ UNCHANGED <<stream, hash, heard, cache, objects>>
  BY DEF EmitFetched
<1>2. 1 \in DOMAIN wire /\ r = wire[1]
  <2>1. wire \in Seq(Replies)
    BY DEF ListenerInv, ListenerTypes
  <2> QED
    BY <1>1, <2>1
<1>3. /\ r \in Replies /\ FetchRight(r) /\ o \in Ids /\ i \in Nat
      /\ i \in Finishes /\ i \in DOMAIN stream /\ j = stream[i].job /\ j \in Jobs
      /\ StartRight(i)
  BY <1>2, FetchFacts
<1>4. x \in Objects /\ i \in Ids
  BY <1>3, ListenerFacts DEF ListenerInv, Replies
<1>5. /\ e \in Emissions /\ e.finish = i /\ e.object = o
      /\ e.latency = Between(x.times.processedOn, x.times.finishedOn)
      /\ e.wait = Between(x.times.timestamp, x.times.processedOn)
      /\ e.gone <=> g
      /\ e.retried <=> ~Unretried(i)
  <2>1. /\ g \in BOOLEAN /\ e = Emitted(i, o, x, g)
        /\ i \in Ids /\ o \in Ids /\ x \in Objects
    BY <1>3, <1>4
  <2> SUFFICES ASSUME NEW k \in BOOLEAN, e = Emitted(i, o, x, k), k <=> g
               PROVE  /\ e \in Emissions /\ e.finish = i /\ e.object = o
                      /\ e.latency = Between(x.times.processedOn, x.times.finishedOn)
                      /\ e.wait = Between(x.times.timestamp, x.times.processedOn)
                      /\ (e.gone <=> k)
                      /\ (e.retried <=> ~Unretried(i))
    BY <2>1
  <2> QED
    BY <2>1, EmittedFields
<1>6. /\ log' = [missed |-> log.missed, emitted |-> log.emitted \cup {e},
                 lost |-> log.lost, faults |-> log.faults, hidden |-> log.hidden]
      /\ log.missed \in 0..MaxEvents /\ log.emitted \in SUBSET Emissions
      /\ log.lost \in SUBSET Ids /\ log.faults \in 0..MaxFaults
      /\ log.hidden \in SUBSET Ids
  BY <1>1, LogFields DEF ListenerInv
<1>7. log.emitted \cup {e} \in SUBSET Emissions
  BY <1>5, <1>6
<1>8. /\ log' \in [missed : 0..MaxEvents, emitted : SUBSET Emissions, lost : SUBSET Ids,
                   faults : 0..MaxFaults, hidden : SUBSET Ids]
      /\ log'.hidden = log.hidden /\ log'.emitted = log.emitted \cup {e}
  BY <1>6, <1>7
<1>9. wire' \in Seq(Replies) /\ CacheInv' /\ WireInv' /\ EventsLast
  BY <1>1, <1>8, EndedKeeps
<1>10. EmittedRight(e)
  <2> SUFFICES ASSUME Unretried(i), st \notin log.hidden
               PROVE  /\ e.latency = IF g /\ o > st THEN NotANumber ELSE i - st
                      /\ e.wait = IF g THEN NotANumber ELSE st - Creation(j)
    BY <1>3, <1>5 DEF EmittedRight, Creation
  <2>1. /\ x.times.finishedOn = i
        /\ x.times.processedOn = IF o > st /\ g THEN Missing ELSE st
        /\ x.times.timestamp = IF g THEN Missing ELSE Creation(j)
    BY <1>1, <1>3 DEF FetchRight, Recalled
  <2>2. /\ x.times.timestamp \in 0..MaxEvents /\ x.times.processedOn \in 0..MaxEvents
        /\ x.times.finishedOn \in 0..MaxEvents
    BY <1>4, ObjectFields, TimesFields
  <2>3. st # Missing /\ i # Missing /\ Creation(j) # Missing
    <3>1. st \in EventsOf(j) /\ Creation(j) \in EventsOf(j)
      BY <1>3 DEF StartRight, QueueInv, FirstEvent
    <3>2. EventsOf(j) \in SUBSET (1..Len(stream)) /\ Len(stream) \in Nat
      BY StreamFacts DEF QueueInv
    <3>3. i \in 1..Len(stream)
      BY <1>3, StreamFacts DEF QueueInv
    <3> QED
      BY <3>1, <3>2, <3>3 DEF Missing
  <2>4. e.latency = IF g /\ o > st THEN NotANumber ELSE i - st
    BY <1>5, <2>1, <2>2, <2>3, BetweenFacts
  <2>5. e.wait = IF g THEN NotANumber ELSE st - Creation(j)
    BY <1>5, <2>1, <2>2, <2>3, BetweenFacts
  <2> QED
    BY <1>5, <2>4, <2>5
<1>11. EmittedInv'
  <2>1. e.finish \in Finishes' /\ EmittedRight(e)'
    BY <1>3, <1>5, <1>8, <1>9, <1>10, EmissionStays
  <2> QED
    BY <1>8, <1>9, <2>1, EmissionsKept DEF ListenerInv
<1>12. ListenerTypes'
  BY <1>1, <1>8, <1>9 DEF ListenerTypes, ListenerInv
<1> QED
  BY <1>9, <1>11, <1>12 DEF ListenerInv

\* The handler of an event keeps what is known right: an object that was in the cache when
\* a job started has its start, and the fetches that have not returned hide it.
LEMMA HandleKeeps ==
  ASSUME QueueInv, ListenerInv, Handle
  PROVE  ListenerInv'
<1>a. SUFFICES ASSUME NEW i, i = heard + 1, NEW j, j = stream[i].job,
                      NEW kind, kind = stream[i].kind,
                      NEW o, o = IF cache[j] = NoObject THEN i ELSE cache[j]
               PROVE  ListenerInv'
  OBVIOUS
<1>b. SUFFICES ASSUME NEW x, x = objects[o], NEW y, y = Handled(x, kind, i),
                      NEW e, e = Emitted(i, o, y, FALSE)
               PROVE  ListenerInv'
  OBVIOUS
<1>c. SUFFICES ASSUME NEW b,
                      b = [object |-> o, finish |-> i, state |-> "sent", hash |-> Gone],
                      NEW hidden,
                      hidden = IF kind = "active" /\ Fetching(o)
                                 THEN log.hidden \cup {i} ELSE log.hidden,
                      NEW emitted,
                      emitted = IF kind = "finished" /\ ~(kind = "finished" /\ needsMeta(y))
                                  THEN log.emitted \cup {e} ELSE log.emitted
               PROVE  ListenerInv'
  OBVIOUS
<1>1. /\ heard \in 0..(Len(stream) - 1)
      /\ heard' = i
      /\ objects' = [objects EXCEPT ![o] = y]
      /\ cache' = [cache EXCEPT ![j] = IF kind = "removed" THEN NoObject ELSE o]
      /\ wire' = IF kind = "finished" /\ needsMeta(y) THEN Append(wire, b) ELSE wire
      /\ log' = [log EXCEPT !.hidden = hidden, !.emitted = emitted]
      /\ UNCHANGED <<stream, hash>>
  BY <1>a, <1>b, <1>c DEF Handle
<1>2. /\ heard \in Int /\ Len(stream) \in Nat /\ heard <= Len(stream)
      /\ Ids \in SUBSET Nat /\ NoObject \notin Ids
      /\ \A l \in Jobs : cache[l] = NoObject \/ cache[l] \in Ids
      /\ \A p \in Ids : objects[p] \in Objects
      /\ Len(wire) \in Nat /\ DOMAIN wire = 1..Len(wire) /\ wire \in Seq(Replies)
      /\ cache \in [Jobs -> {NoObject} \cup Ids] /\ objects \in [Ids -> Objects]
      /\ log.hidden \in SUBSET Ids
  BY ListenerFacts DEF ListenerInv, ListenerTypes
<1>3. /\ DOMAIN stream = 1..Len(stream) /\ DOMAIN stream \in SUBSET Ids
      /\ \A l : EventsOf(l) \in SUBSET (DOMAIN stream)
      /\ \A l : EventsOf(l) \in SUBSET Nat
      /\ \A k \in DOMAIN stream : stream[k] \in Events /\ stream[k].job \in Jobs
      /\ \A k \in DOMAIN stream : k \in EventsOf(stream[k].job)
  BY StreamFacts DEF QueueInv
<1>4. /\ i = heard + 1 /\ j = stream[i].job /\ kind = stream[i].kind
      /\ i \in DOMAIN stream /\ i \in Nat /\ i \in Ids /\ heard < i /\ ~(i <= heard)
  <2>1. i = heard + 1 /\ j = stream[i].job /\ kind = stream[i].kind
    BY <1>a
  <2>2. i \in DOMAIN stream /\ i \in Nat /\ heard < i /\ ~(i <= heard)
    BY <1>1, <1>2, <1>3, <2>1
  <2> QED
    BY <1>3, <2>1, <2>2
<1>5. j \in Jobs /\ i \in EventsOf(j) /\ kind \in Kinds
  BY <1>3, <1>4 DEF Events
<1>6. /\ EventsLast /\ Finishes' = Finishes
      /\ \A l : EventsOf(l)' = EventsOf(l) /\ Creation(l)' = Creation(l)
      /\ \A k : Unretried(k)' <=> Unretried(k)
      /\ \A k : StartOf(k)' = StartOf(k)
  BY <1>1, QueueStays
<1>7. CacheRight(j) /\ HashRight(j) /\ FirstEvent(j)
  BY <1>5 DEF ListenerInv, CacheInv, QueueInv
<1>8. \/ o = i /\ cache[j] = NoObject /\ x = NewObject
      \/ o = cache[j] /\ o \in Ids /\ o \in EventsOf(j) /\ o <= heard
  <2>1. CASE cache[j] = NoObject
    <3>1. ObjectRight(i) /\ i > heard
      BY <1>2, <1>4 DEF ListenerInv, CacheInv
    <3>2. o = i /\ x = objects[i]
      BY <1>a, <1>b, <2>1
    <3> QED
      BY <2>1, <3>1, <3>2 DEF ObjectRight
  <2>2. CASE cache[j] # NoObject
    <3>1. o = cache[j]
      BY <1>a, <2>2
    <3> QED
      BY <1>2, <1>5, <1>7, <2>2, <3>1 DEF CacheRight
  <2> QED
    BY <2>1, <2>2
<1>9. o \in Ids /\ o \in EventsOf(j) /\ o <= i /\ o \in Nat
  BY <1>2, <1>4, <1>5, <1>8
<1>10. /\ x \in Objects /\ x = objects[o]
       /\ y \in Objects /\ y.named = x.named
       /\ x.times.timestamp # Missing => y.times.timestamp = x.times.timestamp
       /\ kind # "waiting" => y.times.timestamp = x.times.timestamp
       /\ y.times.processedOn = IF kind = "active" THEN i ELSE x.times.processedOn
       /\ y.times.finishedOn = IF kind = "finished" THEN i ELSE x.times.finishedOn
       /\ kind = "removed" => y = x
  <2>1. x \in Objects /\ y = Handled(x, kind, i) /\ x = objects[o]
    BY <1>b, <1>2, <1>9
  <2> QED
    BY <1>4, <1>5, <2>1, HandledFields
<1>11. /\ objects' \in [Ids -> Objects] /\ objects'[o] = y
       /\ \A p \in Ids : p # o => objects'[p] = objects[p]
  BY <1>1, <1>2, <1>9, <1>10
<1>12. /\ cache' \in [Jobs -> {NoObject} \cup Ids]
       /\ cache'[j] = IF kind = "removed" THEN NoObject ELSE o
       /\ \A l \in Jobs : l # j => cache'[l] = cache[l]
  BY <1>1, <1>2, <1>5, <1>9
<1>13. /\ log' = [missed |-> log.missed, emitted |-> emitted, lost |-> log.lost,
                  faults |-> log.faults, hidden |-> hidden]
       /\ log.missed \in 0..MaxEvents /\ log.emitted \in SUBSET Emissions
       /\ log.lost \in SUBSET Ids /\ log.faults \in 0..MaxFaults
       /\ log.hidden \in SUBSET Ids
  BY <1>1, LogFields DEF ListenerInv
<1>14. log'.hidden = hidden /\ log'.emitted = emitted
  BY <1>13
<1>15. /\ hidden \in SUBSET Ids /\ \A s \in log.hidden : s \in hidden
       /\ kind = "active" /\ Fetching(o) => i \in hidden
  BY <1>c, <1>2, <1>4
<1>16. \A l \in Jobs : l # j => \A s \in EventsOf(l) : s <= i => s <= heard
  <2>1. \A l \in Jobs : l # j => i \notin EventsOf(l)
    BY <1>5 DEF EventsOf
  <2> QED
    BY <1>2, <1>3, <1>4, <2>1
<1>17. ASSUME NEW l \in Jobs, l # j PROVE CacheRight(l)'
  <2>1. CacheRight(l)
    BY DEF ListenerInv, CacheInv
  <2>2. cache[l] # NoObject => cache[l] # o /\ cache[l] \in Ids
    BY <1>2, <1>9, <1>17, <2>1 DEF CacheRight, EventsOf
  <2>3. cache[l] # NoObject => objects'[cache[l]] = objects[cache[l]]
    BY <1>11, <2>2
  <2>4. \A s \in EventsOf(l)' : s <= heard' => s <= heard
    BY <1>1, <1>6, <1>16, <1>17
  <2>5. /\ cache'[l] = cache[l] /\ heard' \in Int /\ heard <= heard'
        /\ \A s \in log.hidden : s \in log'.hidden
    BY <1>1, <1>2, <1>4, <1>12, <1>14, <1>15, <1>17
  <2> QED
    BY <1>2, <1>6, <2>1, <2>3, <2>4, <2>5, CacheStays
<1>18. CacheRight(j)'
  <2>1. CASE kind = "removed"
    BY <1>12, <2>1 DEF CacheRight
  <2>2. CASE kind # "removed"
    <3>1. cache'[j] = o /\ o \in EventsOf(j)' /\ o <= heard'
      BY <1>1, <1>6, <1>9, <1>12, <2>2
    <3>2. ASSUME NEW s \in EventsOf(j), s <= i, stream[s].kind = "active",
                 \A k \in EventsOf(j) : k > s => k > i
          PROVE  y.times.processedOn = s
      <4>1. ~(i > s)
        BY <1>4, <1>5, <3>2
      <4>2. s = i
        BY <1>3, <1>4, <3>2, <4>1
      <4> QED
        BY <1>4, <1>10, <3>2, <4>2
    <3> QED
      BY <1>1, <1>6, <1>11, <3>1, <3>2 DEF CacheRight
  <2> QED
    BY <2>1, <2>2
<1>19. ASSUME NEW p \in Ids PROVE ObjectRight(p)'
  <2>1. ObjectRight(p)
    BY DEF ListenerInv, CacheInv
  <2>2. CASE p # o
    <3>1. objects'[p] = objects[p] /\ heard' \in Int /\ heard <= heard'
      BY <1>1, <1>2, <1>4, <1>11, <2>2
    <3> QED
      BY <1>2, <1>6, <2>1, <3>1, ObjectStays
  <2>3. CASE p = o
    <3>1. ~(o > heard')
      BY <1>1, <1>4, <1>9
    <3>2. o \in DOMAIN stream /\ stream[o].job = j
      BY <1>9 DEF EventsOf
    <3>3. Creation(j) # Missing
      <4>1. Creation(j) \in EventsOf(j)
        BY <1>5, <1>7 DEF FirstEvent
      <4> QED
        BY <1>2, <1>3, <4>1 DEF Missing
    <3>4. y.named => y.times.timestamp = Creation(j)
      BY <1>10, <2>1, <2>3, <3>2, <3>3 DEF ObjectRight
    <3> QED
      BY <1>1, <1>6, <1>11, <2>3, <3>1, <3>2, <3>4 DEF ObjectRight
  <2> QED
    BY <2>2, <2>3
<1>20. CacheInv'
  BY <1>17, <1>18, <1>19 DEF CacheInv
<1> DEFINE st == StartOf(i)
<1>21. ASSUME kind = "finished"
       PROVE  /\ i \in Finishes /\ st \in EventsOf(j) /\ st < i /\ st \in Nat
              /\ st # Missing /\ i # Missing
              /\ stream[st].kind = "active" /\ \A k \in EventsOf(j) : k < i => k <= st
  <2>1. i \in Finishes
    BY <1>4, <1>21 DEF Finishes
  <2>2. StartRight(i)
    BY <2>1 DEF QueueInv
  <2>3. /\ st \in EventsOf(j) /\ st < i
        /\ stream[st].kind = "active" /\ \A k \in EventsOf(j) : k < i => k <= st
    BY <1>4, <2>2 DEF StartRight
  <2>4. st \in 1..Len(stream) /\ i \in 1..Len(stream)
    BY <1>3, <1>4, <2>3
  <2> QED
    BY <1>2, <2>1, <2>3, <2>4 DEF Missing
<1> HIDE DEF st
<1>32. ASSUME kind = "finished", cache[j] # NoObject
       PROVE  o <= st /\ o \in Nat
  <2>1. o \in EventsOf(j) /\ o <= heard /\ o \in Nat
    BY <1>8, <1>9, <1>32
  <2> QED
    BY <1>2, <1>4, <1>21, <1>32, <2>1
<1>22. ASSUME kind = "finished", cache[j] # NoObject, st \notin log.hidden
       PROVE  x.times.processedOn = st
  <2>1. /\ o = cache[j] /\ o \in EventsOf(j) /\ o <= heard /\ o \in Nat
    BY <1>8, <1>9, <1>22
  <2>2. o <= st /\ st <= heard
    BY <1>2, <1>4, <1>21, <1>22, <1>32, <2>1
  <2>3. \A k \in EventsOf(j) : k > st => k > heard
    BY <1>2, <1>3, <1>4, <1>21, <1>22
  <2>4. objects[o].times.processedOn = st
    BY <1>7, <1>21, <1>22, <2>1, <2>2, <2>3 DEF CacheRight
  <2> QED
    BY <1>10, <2>4
<1>23. ASSUME NEW f \in DOMAIN wire, NEW t, t = wire[f]
       PROVE  /\ FetchRight(t)' /\ t.finish < i /\ t.finish \in Finishes
              /\ kind = "finished" /\ t.object = o => st \in log.hidden
  <2> SUFFICES ASSUME NEW l, l = JobOf(t), NEW m, m = t.finish
               PROVE  /\ FetchRight(t)' /\ m < i /\ m \in Finishes
                      /\ kind = "finished" /\ t.object = o => st \in log.hidden
    OBVIOUS
  <2>1. /\ FetchRight(t) /\ t.object \in Ids /\ m \in Nat /\ t.object \in EventsOf(l)
        /\ m \in EventsOf(l) /\ m \in Finishes /\ FinishRight(m) /\ l = stream[m].job
        /\ l \in Jobs /\ stream[m].kind = "finished" /\ m <= heard /\ t.object <= m
    BY <1>23, FetchFacts
  <2>2. m < i /\ t.object # i
    BY <1>2, <1>4, <2>1
  <2>3. ASSUME t.object = o PROVE l = j /\ o = cache[j] /\ cache[j] # NoObject
    <3>1. l = j
      BY <1>9, <2>1, <2>3 DEF EventsOf
    <3>2. o = cache[j]
      BY <1>8, <2>2, <2>3
    <3> QED
      BY <1>2, <2>1, <2>3, <3>1, <3>2
  <2>4. objects'[t.object] = objects[t.object] \/ ~Unretried(m)
    <3>1. CASE t.object # o
      BY <1>11, <2>1, <3>1
    <3>2. CASE t.object = o
      <4>1. Unretried(m) => kind = "removed"
        BY <1>4, <1>5, <2>1, <2>2, <2>3, <3>2 DEF FinishRight
      <4> QED
        BY <1>10, <1>11, <3>2, <4>1
    <3> QED
      BY <3>1, <3>2
  <2>5. t.object = cache'[l] => t.object = cache[l]
    BY <1>2, <1>12, <2>1, <2>3
  <2>6. ASSUME t.object = cache'[l], NEW s \in EventsOf(l)', heard < s, s <= heard',
               stream'[s].kind = "active"
        PROVE  s \in log'.hidden
    <3>1. s \in EventsOf(l) /\ s <= i /\ stream[s].kind = "active"
      BY <1>1, <1>6, <2>6
    <3>2. l = j
      <4>1. s \in Nat
        BY <1>3, <3>1
      <4> QED
        BY <1>2, <1>16, <2>1, <2>6, <3>1, <4>1
    <3>3. s = i /\ kind = "active"
      <4>1. s \in Nat
        BY <1>3, <3>1
      <4>2. s = i
        BY <1>2, <1>4, <2>6, <3>1, <4>1
      <4> QED
        BY <1>4, <3>1, <4>2
    <3>4. t.object = o
      BY <1>2, <1>12, <2>1, <2>6, <3>2
    <3>5. Fetching(o)
      BY <1>23, <3>4 DEF Fetching
    <3> QED
      BY <1>14, <1>15, <3>3, <3>5
  <2>7. heard' \in Int /\ heard <= heard' /\ \A s \in log.hidden : s \in log'.hidden
    BY <1>1, <1>2, <1>4, <1>14, <1>15
  <2>8. FetchRight(t)'
    BY <1>2, <1>6, <2>1, <2>4, <2>5, <2>6, <2>7, FetchStays
  <2>9. ASSUME kind = "finished", t.object = o PROVE st \in log.hidden
    <3>1. l = j /\ o = cache[j]
      BY <2>3, <2>9
    <3>2. m <= st /\ m # st
      BY <1>21, <2>1, <2>2, <2>9, <3>1
    <3>3. m < st /\ st <= heard
      BY <1>2, <1>4, <1>21, <2>1, <2>9, <3>2
    <3> QED
      BY <1>21, <2>1, <2>9, <3>1, <3>3 DEF FetchRight, Covered
  <2> QED
    BY <2>1, <2>2, <2>8, <2>9
<1>24. ASSUME kind = "finished" /\ needsMeta(y)
       PROVE  /\ b \in Replies /\ FetchRight(b)'
              /\ b.object = o /\ b.finish = i
  <2>1. /\ b \in Replies /\ b.object = o /\ b.finish = i /\ b.state = "sent"
    <3>1. Gone \in Hashes
      BY GoneHash
    <3> QED
      BY <1>c, <1>4, <1>9, <3>1 DEF Replies
  <2>2. JobOf(b)' = j /\ JobOf(b) = j
    BY <1>1, <1>4, <2>1 DEF JobOf
  <2>3. Owned(b)'
    BY <1>1, <1>4, <1>6, <1>9, <1>21, <1>24, <2>1, <2>2 DEF Owned
  <2>4. Covered(b)'
    <3>1. \A s \in EventsOf(j)' : ~(i < s /\ s <= i)
      BY <1>3, <1>4, <1>6
    <3> QED
      BY <1>1, <2>1, <2>2, <3>1 DEF Covered
  <2>5. Fetched(b)'
    BY <2>1 DEF Fetched
  <2>6. y.times.finishedOn = i /\ y.times.processedOn = x.times.processedOn
    BY <1>10, <1>24
  <2>7. st \in log.hidden \/ x.times.processedOn = IF o > st THEN Missing ELSE st
    <3>1. CASE cache[j] # NoObject
      <4>1. o <= st /\ o \in Nat
        BY <1>32, <1>24, <3>1
      <4> QED
        BY <1>21, <1>22, <1>24, <3>1, <4>1
    <3>2. CASE cache[j] = NoObject
      <4>1. o = i /\ x = NewObject
        BY <1>2, <1>8, <3>2
      <4>2. NewObject.times.processedOn = Missing
        BY DEF NewObject, NoTimes
      <4> QED
        BY <1>4, <1>21, <1>24, <4>1, <4>2
    <3> QED
      BY <3>1, <3>2
  <2>8. Recalled(b)'
    <3>1. StartOf(i)' = st
      BY <1>6 DEF st
    <3>2. objects'[o].times = y.times
      BY <1>11
    <3> QED
      BY <1>14, <1>15, <2>1, <2>2, <2>6, <2>7, <3>1, <3>2 DEF Recalled
  <2> QED
    BY <2>1, <2>3, <2>4, <2>5, <2>8 DEF FetchRight
<1>25. WireInv'
  <2> SUFFICES ASSUME NEW n, n = Len(wire) + 1 PROVE WireInv'
    OBVIOUS
  <2>1. ASSUME NEW f \in DOMAIN wire, NEW g \in DOMAIN wire, f < g,
               NEW q, q = wire[f], NEW r, r = wire[g]
        PROVE  Ordered(q, r)'
    <3>1. Ordered(q, r) /\ r.finish \in Finishes
      BY <1>23, <2>1 DEF ListenerInv, WireInv
    <3> QED
      BY <1>6, <1>14, <1>15, <3>1, OrderStays
  <2>2. CASE ~(kind = "finished" /\ needsMeta(y))
    <3>1. wire' = wire
      BY <1>1, <2>2
    <3>2. ASSUME NEW f \in DOMAIN wire PROVE FetchRight(wire[f])'
      <4> SUFFICES ASSUME NEW t, t = wire[f] PROVE FetchRight(wire[f])'
        OBVIOUS
      <4>1. FetchRight(t)'
        BY <1>23
      <4> QED
        BY <3>1, <4>1
    <3>3. ASSUME NEW f \in DOMAIN wire, NEW g \in DOMAIN wire, f < g
          PROVE  Ordered(wire[f], wire[g])'
      <4> SUFFICES ASSUME NEW q, q = wire[f], NEW r, r = wire[g]
                   PROVE  Ordered(wire[f], wire[g])'
        OBVIOUS
      <4>1. Ordered(q, r)'
        BY <2>1, <3>3
      <4> QED
        BY <3>1, <4>1
    <3> QED
      BY <3>1, <3>2, <3>3 DEF WireInv
  <2>3. CASE kind = "finished" /\ needsMeta(y)
    <3>1. b \in Replies /\ FetchRight(b)' /\ b.object = o /\ b.finish = i
      BY <1>24, <2>3
    <3>2. /\ DOMAIN wire' = DOMAIN wire \cup {n} /\ n \in Nat
          /\ \A f \in DOMAIN wire : wire'[f] = wire[f] /\ f < n /\ f \in Nat
          /\ wire'[n] = b
      BY <1>1, <1>2, <2>3, <3>1
    <3>3. ASSUME NEW f \in DOMAIN wire' PROVE FetchRight(wire[f])'
      <4>1. CASE f = n
        BY <3>1, <3>2, <4>1
      <4>2. CASE f \in DOMAIN wire
        <5> SUFFICES ASSUME NEW t, t = wire[f] PROVE FetchRight(wire[f])'
          OBVIOUS
        <5>1. FetchRight(t)'
          BY <1>23, <4>2
        <5> QED
          BY <3>2, <4>2, <5>1
      <4> QED
        BY <3>2, <4>1, <4>2
    <3>4. ASSUME NEW f \in DOMAIN wire', NEW g \in DOMAIN wire', f < g
          PROVE  Ordered(wire[f], wire[g])'
      <4>1. f \in DOMAIN wire
        BY <3>2, <3>4
      <4> SUFFICES ASSUME NEW q, q = wire[f] PROVE Ordered(wire[f], wire[g])'
        OBVIOUS
      <4>2. CASE g = n
        <5>1. q.finish < i /\ (q.object = o => st \in log.hidden)
          BY <1>23, <2>3, <4>1
        <5>2. StartOf(i)' = st
          BY <1>6 DEF st
        <5>3. Ordered(q, b)'
          BY <1>14, <1>15, <3>1, <5>1, <5>2 DEF Ordered
        <5> QED
          BY <3>2, <4>1, <4>2, <5>3
      <4>3. CASE g \in DOMAIN wire
        <5> SUFFICES ASSUME NEW r, r = wire[g] PROVE Ordered(wire[f], wire[g])'
          OBVIOUS
        <5>1. Ordered(q, r)'
          BY <2>1, <3>4, <4>1, <4>3
        <5> QED
          BY <3>2, <4>1, <4>3, <5>1
      <4> QED
        BY <3>2, <4>2, <4>3
    <3> QED
      BY <3>3, <3>4 DEF WireInv
  <2> QED
    BY <2>2, <2>3
<1>26. /\ e \in Emissions /\ e.finish = i /\ e.object = o
       /\ e.latency = Between(y.times.processedOn, y.times.finishedOn)
       /\ e.wait = Between(y.times.timestamp, y.times.processedOn)
       /\ ~e.gone
       /\ e.retried <=> ~Unretried(i)
  <2> SUFFICES ASSUME NEW known \in BOOLEAN, known = FALSE
               PROVE  /\ e \in Emissions /\ e.finish = i /\ e.object = o
                      /\ e.latency = Between(y.times.processedOn, y.times.finishedOn)
                      /\ e.wait = Between(y.times.timestamp, y.times.processedOn)
                      /\ (e.gone <=> known)
                      /\ (e.retried <=> ~Unretried(i))
    OBVIOUS
  <2>1. e = Emitted(i, o, y, known)
    BY <1>b
  <2> QED
    BY <1>4, <1>9, <1>10, <2>1, EmittedFields
<1>27. ASSUME kind = "finished", ~needsMeta(y)
       PROVE  e.finish \in Finishes' /\ EmittedRight(e)'
  <2>1. /\ y.named /\ y.times.timestamp # Missing /\ y.times.processedOn # Missing
        /\ y.times.finishedOn = i
    BY <1>10, <1>27, TimesFields DEF needsMeta
  <2>2. x.named /\ y.times.timestamp = x.times.timestamp
        /\ y.times.processedOn = x.times.processedOn
    BY <1>10, <1>27, <2>1
  <2>3. cache[j] # NoObject
    BY <1>2, <1>8, <2>2 DEF NewObject
  <2>4. x.times.timestamp = Creation(j)
    <3>1. ObjectRight(o) /\ stream[o].job = j
      BY <1>9 DEF ListenerInv, CacheInv, EventsOf
    <3> QED
      BY <1>10, <2>2, <3>1 DEF ObjectRight
  <2>5. /\ y.times.timestamp \in 0..MaxEvents /\ y.times.processedOn \in 0..MaxEvents
        /\ y.times.finishedOn \in 0..MaxEvents
    BY <1>10, ObjectFields, TimesFields
  <2>6. e.latency = i - y.times.processedOn /\ e.wait = y.times.processedOn - Creation(j)
    BY <1>21, <1>26, <1>27, <2>1, <2>2, <2>4, <2>5, BetweenFacts
  <2>7. st \in log.hidden \/ (e.latency = i - st /\ e.wait = st - Creation(j))
    BY <1>22, <1>27, <2>2, <2>3, <2>6
  <2>8. EmittedRight(e)
    BY <1>4, <1>26, <2>7 DEF EmittedRight, Creation, st
  <2> QED
    BY <1>6, <1>14, <1>15, <1>21, <1>26, <1>27, <2>8, EmissionStays
<1>28. /\ emitted \in SUBSET Emissions
       /\ \A d \in emitted : \/ d \in log.emitted
                             \/ d = e /\ kind = "finished" /\ ~needsMeta(y)
  BY <1>c, <1>13, <1>26
<1>29. EmittedInv'
  <2>1. \A d \in log'.emitted :
          d \in log.emitted \/ (d.finish \in Finishes' /\ EmittedRight(d)')
    BY <1>14, <1>27, <1>28
  <2> QED
    BY <1>6, <1>14, <1>15, <2>1, EmissionsKept DEF ListenerInv
<1>30. ListenerTypes'
  <2>1. heard' \in NotListening..Len(stream')
    BY <1>1, <1>2, <1>3, <1>4 DEF NotListening
  <2>2. wire' \in Seq(Replies)
    BY <1>1, <1>2, <1>24
  <2>3. log' \in [missed : 0..MaxEvents, emitted : SUBSET Emissions, lost : SUBSET Ids,
                  faults : 0..MaxFaults, hidden : SUBSET Ids]
    BY <1>13, <1>15, <1>28
  <2> QED
    BY <1>11, <1>12, <2>1, <2>2, <2>3 DEF ListenerTypes
<1> QED
  BY <1>20, <1>25, <1>29, <1>30 DEF ListenerInv

-----------------------------------------------------------------------------
(* The theorems.                                                            *)

\* The queue orders its events, and the listener's knowledge is right, for ever.
LEMMA AlwaysRight == Spec => [](QueueInv /\ ListenerInv)
<1>1. Init => QueueInv /\ ListenerInv
  <2> SUFFICES ASSUME Init PROVE QueueInv /\ ListenerInv
    OBVIOUS
  <2>1. /\ stream = <<>> /\ hash = [j \in Jobs |-> Gone] /\ heard = -1
        /\ cache = [j \in Jobs |-> NoObject]
        /\ objects = [o \in 1..MaxEvents |-> NewObject] /\ wire = <<>>
        /\ log = [missed |-> 0, emitted |-> {}, lost |-> {}, faults |-> 0, hidden |-> {}]
    BY DEF Init, NotListening
  <2>2. MaxEvents \in Nat /\ MaxFaults \in Nat
    BY BoundsAssumption
  <2>3. DOMAIN stream = {} /\ Len(stream) = 0 /\ stream \in Seq(Events)
    BY <2>1
  <2>4. \A j : EventsOf(j) = {}
    BY <2>3 DEF EventsOf
  <2>5. QueueTypes
    BY <2>1, <2>2, <2>3, GoneHash DEF QueueTypes
  <2>6. \A j \in Jobs : HashRight(j) /\ FirstEvent(j)
    <3>1. \A j \in Jobs : hash[j] = Gone
      BY <2>1
    <3> QED
      BY <2>4, <3>1, GoneHash DEF HashRight, FirstEvent
  <2>7. QueueInv
    BY <2>3, <2>5, <2>6 DEF QueueInv, Finishes
  <2>8. NewObject \in Objects /\ ~NewObject.named
    <3>1. NoTimes \in TimesOfJobs
      BY <2>2, TimesFields DEF NoTimes, Missing
    <3> QED
      BY <3>1 DEF NewObject, Objects
  <2>9. ListenerTypes
    <3>1. heard \in NotListening..Len(stream)
      BY <2>1, <2>3 DEF NotListening
    <3>2. /\ cache \in [Jobs -> {NoObject} \cup Ids]
          /\ objects \in [Ids -> Objects] /\ wire \in Seq(Replies)
      BY <2>1, <2>8 DEF Ids
    <3>3. log \in [missed : 0..MaxEvents, emitted : SUBSET Emissions, lost : SUBSET Ids,
                   faults : 0..MaxFaults, hidden : SUBSET Ids]
      BY <2>1, <2>2
    <3> QED
      BY <3>1, <3>2, <3>3 DEF ListenerTypes
  <2>10. CacheInv
    <3>1. \A o \in Ids : objects[o] = NewObject
      BY <2>1 DEF Ids
    <3> QED
      BY <2>1, <2>8, <3>1 DEF CacheInv, CacheRight, ObjectRight
  <2>11. WireInv /\ EmittedInv
    BY <2>1 DEF WireInv, EmittedInv
  <2> QED
    BY <2>7, <2>9, <2>10, <2>11 DEF ListenerInv
<1>2. QueueInv /\ ListenerInv /\ [Next]_vars => (QueueInv /\ ListenerInv)'
  <2> SUFFICES ASSUME QueueInv, ListenerInv, [Next]_vars PROVE QueueInv' /\ ListenerInv'
    OBVIOUS
  <2>1. ASSUME NEW j \in Jobs, QueueAction(j) PROVE QueueInv' /\ ListenerInv'
    <3>1. QueueInv' /\ EventsLast
      BY <2>1, QueueStep, QueueLasts
    <3>2. UNCHANGED <<heard, cache, objects, wire, log>>
      <4>1. PICK kind \in Kinds, h \in Hashes : Publish(j, kind, h)
        BY <2>1, QueueStep
      <4> QED
        BY <4>1 DEF Publish
    <3> QED
      BY <3>1, <3>2, QueueKeeps
  <2>2. CASE UNCHANGED vars
    BY <2>2, QueueStays, QueueKeeps DEF vars
  <2>3. ASSUME NEW j \in Jobs, Evict(j) PROVE QueueInv' /\ ListenerInv'
    <3>1. UNCHANGED <<stream, hash>>
      BY <2>3 DEF Evict
    <3> QED
      BY <2>3, <3>1, QueueStays, EvictKeeps
  <2>4. CASE Listen
    <3>1. UNCHANGED <<stream, hash>>
      BY <2>4 DEF Listen
    <3> QED
      BY <2>4, <3>1, QueueStays, ListenKeeps
  <2>5. CASE Handle
    <3>1. UNCHANGED <<stream, hash>>
      BY <2>5 DEF Handle
    <3> QED
      BY <2>5, <3>1, QueueStays, HandleKeeps
  <2>6. CASE Execute
    <3>1. UNCHANGED <<stream, hash>>
      BY <2>6 DEF Execute
    <3> QED
      BY <2>6, <3>1, QueueStays, ExecuteKeeps
  <2>7. CASE Answer
    <3>1. UNCHANGED <<stream, hash>>
      BY <2>7 DEF Answer
    <3> QED
      BY <2>7, <3>1, QueueStays, AnswerKeeps
  <2>8. CASE EmitFetched
    <3>1. UNCHANGED <<stream, hash>>
      BY <2>8 DEF EmitFetched
    <3> QED
      BY <2>8, <3>1, QueueStays, EmitKeeps
  <2>9. CASE Fail
    <3>1. UNCHANGED <<stream, hash>>
      BY <2>9 DEF Fail
    <3> QED
      BY <2>9, <3>1, QueueStays, FailKeeps
  <2> QED
    BY <2>1, <2>2, <2>3, <2>4, <2>5, <2>6, <2>7, <2>8, <2>9 DEF Next, QueueAction
<1> QED
  BY <1>1, <1>2, PTL DEF Spec

\* Every variable keeps its type.
THEOREM TypeCorrectness == Spec => []TypeOK
<1>1. QueueInv /\ ListenerInv => TypeOK
  <2> SUFFICES ASSUME QueueInv, ListenerInv PROVE TypeOK
    OBVIOUS
  <2>1. /\ stream \in Seq([job : Jobs, kind : Kinds]) /\ Len(stream) <= MaxEvents
        /\ hash \in [Jobs -> Hashes]
    BY DEF QueueInv, QueueTypes, Events
  <2>2. /\ heard \in NotListening..Len(stream)
        /\ cache \in [Jobs -> {NoObject} \cup Ids]
        /\ objects \in [Ids -> [times : TimesOfJobs, named : BOOLEAN]]
        /\ wire \in Seq([object : Ids, finish : Ids,
                         state : {"sent", "executed", "answered"}, hash : Hashes])
    BY DEF ListenerInv, ListenerTypes, Objects, Replies
  <2>3. /\ log.missed \in 0..MaxEvents /\ log.faults \in 0..MaxFaults
        /\ log.lost \subseteq Ids /\ log.hidden \subseteq Ids
        /\ log.emitted \subseteq Emissions
    BY LogFields DEF ListenerInv
  <2> QED
    BY <2>1, <2>2, <2>3 DEF TypeOK, Emissions
<1> QED
  BY <1>1, AlwaysRight, PTL

\* What is emitted for a finish that is neither retried nor overtaken by a late reply is
\* the time since its last start and the time from its creation to that start.  It is not a
\* number exactly when the data were asked for and the job was gone: the wait always, the
\* latency if the start was not seen.  Events and replies never mix the runs of a job, or
\* two jobs.
THEOREM DurationsAreRight == Spec => []DurationsRight
<1>1. QueueInv /\ ListenerInv => DurationsRight
  BY DEF ListenerInv, EmittedInv, EmittedRight, DurationsRight
<1> QED
  BY <1>1, AlwaysRight, PTL
=============================================================================
