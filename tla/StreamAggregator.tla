-------------------------- MODULE StreamAggregator --------------------------
(***************************************************************************)
(* How a server hears of the events of the others: the stream reader of    *)
(* src/src/server/redis/stream-aggregator.ts, as the event buses of        *)
(* src/src/server/redis/event-bus.ts use it.  Every bus subscribes to one  *)
(* stream at offset '$'.  A call of readStream() ends by calling           *)
(* readStream(): it is a loop, and every new subscription starts another.  *)
(* All loops share one connection, where XREAD blocks and where commands   *)
(* are executed and answered in order; CLIENT UNBLOCK and what it answers  *)
(* travel on another.  What happens between two awaits is one action.      *)
(*                                                                         *)
(* The messages of a stream are numbered.  Those of the server itself,     *)
(* which the bus filters by its sender id, are left out.                   *)
(***************************************************************************)
EXTENDS Integers, Sequences, FiniteSets

CONSTANTS
  Streams,       \* the streams of the buses
  Latest,        \* the offset '$'
  NoSub,         \* there is no subscription
  Concurrency,   \* handlers that one reply calls at a time
  Connecting,    \* whether buses may subscribe before the connections are ready
  MaxMessages,   \* bound: messages of a stream
  MaxLoops,      \* bound: loops, and so subscriptions
  MaxFaults      \* bound: reads that fail

ASSUME OffsetAssumption == Latest \notin Nat /\ NoSub \notin Nat /\ Latest # NoSub
ASSUME ConcurrencyAssumption == Concurrency \in Nat \ {0}
ASSUME MaxLoopsAssumption == MaxLoops \in Nat
ASSUME SizeAssumption ==
  IsFiniteSet(Streams) /\ MaxMessages \in Nat /\ MaxFaults \in Nat

VARIABLES
  status,    \* of the connections: readId is a number if "ready" or "closing"
  stream,    \* Redis: how many messages a stream holds
  subs,      \* the cursor of every subscription
  active,    \* readStreamActive
  wire,      \* XREADs on the read connection, and their replies
  unblocks,  \* CLIENT UNBLOCKs on the write connection, and their replies
  loop,      \* what the calls of readStream() are doing
  log        \* history: loops, faults, handled, last, since (see Init)

vars == <<status, stream, subs, active, wire, unblocks, loop, log>>

Loops == 1..MaxLoops

Subscribed == {s \in Streams : subs[s] # NoSub}

-----------------------------------------------------------------------------
At(state) == [state |-> state, todo |-> {}, running |-> 0]

Init ==
  /\ status = IF Connecting THEN "connecting" ELSE "ready"
  /\ stream = [s \in Streams |-> 0]
  /\ subs = [s \in Streams |-> NoSub]
  /\ active = FALSE
  /\ wire = <<>>
  /\ unblocks = <<>>
  /\ loop = [l \in Loops |-> At("none")]
  \* log.handled counts the calls of the bus for a message, log.last is the last
  \* message it was called for; log.since is where the last read of the
  \* subscription began that had the offset '$'.
  /\ log = [loops |-> 0, faults |-> 0,
            handled |-> [s \in Streams |-> [i \in 1..MaxMessages |-> 0]],
            last |-> [s \in Streams |-> 0],
            since |-> [s \in Streams |-> 0]]

\* Both handles connect.  The id of the read connection is asked for only if
\* neither handle is ready before the other is connected.
Connected ==
  /\ status = "connecting"
  /\ status' \in {"ready", "deaf"}
  /\ UNCHANGED <<stream, subs, active, wire, unblocks, loop, log>>

-----------------------------------------------------------------------------
(* The server.                                                              *)

\* Mutant: the id outlives disconnect().
KnowsIdForEver(state) == state \notin {"connecting", "deaf"}

\* readId is a number.
KnowsId(state) == state \in {"ready", "closing"}

\* readStream(), up to the await of the reply.  w and cursors are the commands
\* under way and the cursors at the call; l is not under way.
readStream(l, w, cursors) ==
  LET ids == {s \in Streams : cursors[s] # NoSub}
      knowsId == KnowsId(status)
  IN /\ active' = (knowsId \/ active)
     /\ IF knowsId /\ ids # {}
          THEN /\ wire' = Append(w, [loop |-> l, state |-> "sent",
                                     from |-> cursors, upto |-> cursors,
                                     offset |-> cursors])
               /\ loop' = [loop EXCEPT ![l] = At("reading")]
          ELSE /\ wire' = w
               /\ loop' = [loop EXCEPT ![l] = At("ended")]

\* on() of the first listener of a bus, and subscribe()
Subscribe(s) ==
  /\ status \in {"connecting", "ready", "deaf"}
  /\ s \notin Subscribed
  /\ log.loops < MaxLoops
  /\ subs' = [subs EXCEPT ![s] = Latest]
  /\ log' = [log EXCEPT !.loops = @ + 1,
                        !.handled[s] = [i \in 1..MaxMessages |-> 0],
                        !.last[s] = 0]
  /\ IF active
       THEN /\ active' = FALSE
            /\ unblocks' = Append(unblocks, [loop |-> log.loops + 1, done |-> FALSE])
            /\ UNCHANGED <<wire, loop>>
       ELSE /\ readStream(log.loops + 1, wire, subs')
            /\ UNCHANGED unblocks
  /\ UNCHANGED <<status, stream>>

\* unblock() resolves: subscribe() starts its loop, disconnect() goes on to
\* close the connections, at which the reads under way fail.
Unblocked ==
  /\ unblocks # <<>> /\ Head(unblocks).done
  /\ unblocks' = Tail(unblocks)
  /\ IF Head(unblocks).loop \in Loops
       THEN /\ readStream(Head(unblocks).loop, wire, subs)
            /\ UNCHANGED status
       ELSE /\ status' = "closed"
            /\ wire' = <<>>
            /\ loop' = [l \in Loops |->
                          IF loop[l].state = "reading" THEN At("ended") ELSE loop[l]]
            /\ active' = FALSE
  /\ UNCHANGED <<stream, subs, log>>

\* destroy() of a bus, and unsubscribe()
Unsubscribe(s) ==
  /\ status \in {"connecting", "ready", "deaf"}
  /\ s \in Subscribed
  /\ subs' = [subs EXCEPT ![s] = NoSub]
  /\ UNCHANGED <<status, stream, active, wire, unblocks, loop, log>>

\* disconnect(), up to the await of unblock()
Disconnect ==
  /\ status = "ready"
  /\ status' = "closing"
  /\ active' = FALSE
  /\ unblocks' = Append(unblocks, [loop |-> 0, done |-> FALSE])
  /\ UNCHANGED <<stream, subs, wire, loop, log>>

\* Whether a message of s finds a handler: disconnect() removes them all.
Handles(s) == s \in Subscribed /\ status \notin {"closing", "closed"}

\* The handlers are called for a set of messages.
Call(messages) ==
  LET called == {m \in messages : Handles(m[1])}
      upTo(s) == {m[2] : m \in {n \in called : n[1] = s}}
  IN [log EXCEPT
        !.handled = [s \in Streams |-> [i \in 1..MaxMessages |->
                       log.handled[s][i] + (IF <<s, i>> \in called THEN 1 ELSE 0)]],
        !.last = [s \in Streams |->
                    IF upTo(s) = {} THEN log.last[s]
                    ELSE CHOOSE i \in upTo(s) : \A j \in upTo(s) : j <= i]]

\* Mutant: all are called at once.
StartsAll(todo, n) == {todo}

\* The messages of every stream that may be called first.
Starts(todo, n) ==
  {first \in SUBSET todo :
     /\ Cardinality(first) = (IF Cardinality(todo) < n THEN Cardinality(todo) ELSE n)
     /\ \A m \in first, k \in todo \ first : m[1] = k[1] => m[2] < k[2]}

\* Mutants: the cursor becomes the first message of the reply, or the last one
\* of the stream.
NextCursorFirst(r, s) == r.from[s] + 1
NextCursorEnd(r, s) == stream[s]

NextCursor(r, s) == r.upto[s]

\* The streams of which a reply has messages that are still subscribed
Replied(r) == {s \in Subscribed : r.from[s] # NoSub /\ r.upto[s] # r.from[s]}

\* The reply of an xread() arrives: its messages are handed out, as many at a
\* time as pAll() allows; without messages the next read is sent.
Reply ==
  /\ wire # <<>> /\ Head(wire).state = "replied"
  /\ LET r == Head(wire)
         messages == {m \in Replied(r) \X (1..MaxMessages) :
                        m[2] > r.from[m[1]] /\ m[2] <= r.upto[m[1]]}
     IN IF messages = {}
          THEN /\ readStream(r.loop, Tail(wire), subs)
               /\ UNCHANGED <<subs, log>>
          ELSE /\ active' = FALSE
               /\ wire' = Tail(wire)
               /\ subs' = [s \in Streams |->
                             IF s \in Replied(r) THEN NextCursor(r, s) ELSE subs[s]]
               /\ \E first \in Starts(messages, Concurrency) :
                    /\ loop' = [loop EXCEPT ![r.loop] =
                                  [state |-> "emitting", todo |-> messages \ first,
                                   running |-> Cardinality(first)]]
                    /\ log' = [Call(first) EXCEPT
                         !.since = [s \in Streams |->
                            IF s \in Replied(r) /\ Latest \in {r.offset[s], subs[s]}
                            THEN r.from[s] ELSE @[s]]]
  /\ UNCHANGED <<status, stream, unblocks>>

\* A handler of loop l returns: the next one is called, or the next read sent.
Handled(l) ==
  /\ loop[l].state = "emitting"
  /\ IF loop[l].todo # {}
       THEN /\ \E next \in Starts(loop[l].todo, 1) :
                 /\ loop' = [loop EXCEPT ![l].todo = @ \ next]
                 /\ log' = Call(next)
            /\ UNCHANGED <<active, wire>>
       ELSE /\ UNCHANGED log
            /\ IF loop[l].running > 1
                 THEN /\ loop' = [loop EXCEPT ![l].running = @ - 1]
                      /\ UNCHANGED <<active, wire>>
                 ELSE readStream(l, wire, subs)
  /\ UNCHANGED <<status, stream, subs, unblocks>>

\* An xread() fails, but not because the connection is closed: its loop ends.
ReadFails ==
  /\ log.faults < MaxFaults
  /\ wire # <<>>
  /\ wire' = Tail(wire)
  /\ loop' = [loop EXCEPT ![Head(wire).loop] = At("ended")]
  /\ log' = [log EXCEPT !.faults = @ + 1]
  /\ UNCHANGED <<status, stream, subs, active, unblocks>>

-----------------------------------------------------------------------------
(* Redis.                                                                   *)

\* XADD by another server serves the client that is blocked.
Publish(s) ==
  /\ stream[s] < MaxMessages
  /\ stream' = [stream EXCEPT ![s] = @ + 1]
  /\ wire' = [k \in DOMAIN wire |->
                IF wire[k].state = "blocked" /\ wire[k].from[s] # NoSub
                THEN [wire[k] EXCEPT !.state = "replied", !.upto[s] = stream'[s]]
                ELSE wire[k]]
  /\ UNCHANGED <<status, subs, active, unblocks, loop, log>>

\* XREAD answers at once if there are messages, else it blocks.
ExecuteRead ==
  /\ \E k \in DOMAIN wire :
       /\ wire[k].state = "sent"
       /\ \A j \in 1..(k - 1) : wire[j].state = "replied"
       /\ LET from == [s \in Streams |-> IF wire[k].offset[s] = Latest THEN stream[s]
                                         ELSE wire[k].offset[s]]
              ready == {s \in Streams : from[s] # NoSub /\ from[s] < stream[s]}
          IN /\ wire' = [wire EXCEPT
                  ![k].state = IF ready = {} THEN "blocked" ELSE "replied",
                  ![k].from = from,
                  ![k].upto = [s \in Streams |->
                                 IF s \in ready THEN stream[s] ELSE from[s]]]
  /\ UNCHANGED <<status, stream, subs, active, unblocks, loop, log>>

\* The blocked XREAD ends without messages.
WithoutMessages ==
  [k \in DOMAIN wire |-> IF wire[k].state = "blocked"
                         THEN [wire[k] EXCEPT !.state = "replied"] ELSE wire[k]]

Timeout ==
  /\ \E k \in DOMAIN wire : wire[k].state = "blocked"
  /\ wire' = WithoutMessages
  /\ UNCHANGED <<status, stream, subs, active, unblocks, loop, log>>

ExecuteUnblock ==
  /\ \E k \in DOMAIN unblocks :
       /\ ~unblocks[k].done
       /\ \A j \in 1..(k - 1) : unblocks[j].done
       /\ unblocks' = [unblocks EXCEPT ![k].done = TRUE]
  /\ wire' = WithoutMessages
  /\ UNCHANGED <<status, stream, subs, active, loop, log>>

-----------------------------------------------------------------------------
Next ==
  \/ Connected
  \/ \E s \in Streams : Subscribe(s) \/ Unsubscribe(s) \/ Publish(s)
  \/ Unblocked \/ Reply \/ Disconnect \/ ReadFails
  \/ \E l \in Loops : Handled(l)
  \/ ExecuteRead \/ Timeout \/ ExecuteUnblock

Spec == Init /\ [][Next]_vars

-----------------------------------------------------------------------------
(* Properties.                                                              *)

Cursors == Nat \cup {Latest, NoSub}

\* The type of every variable; no reply has more handlers under way than pAll()
\* allows.
TypeOK ==
  /\ status \in {"connecting", "ready", "deaf", "closing", "closed"}
  /\ stream \in [Streams -> 0..MaxMessages]
  /\ subs \in [Streams -> Cursors]
  /\ active \in BOOLEAN
  /\ wire \in Seq([loop : Loops, state : {"sent", "blocked", "replied"},
                   offset : [Streams -> Cursors], from : [Streams -> Cursors],
                   upto : [Streams -> Cursors]])
  /\ unblocks \in Seq([loop : Loops \cup {0}, done : BOOLEAN])
  /\ loop \in [Loops -> [state : {"none", "reading", "emitting", "ended"},
                        todo : SUBSET (Streams \X (1..MaxMessages)),
                        running : 0..Concurrency]]
  /\ log.loops \in 0..MaxLoops /\ log.faults \in 0..MaxFaults
  /\ log.handled \in [Streams -> [1..MaxMessages -> Nat]]
  /\ log.last \in [Streams -> Nat] /\ log.since \in [Streams -> Nat]

\* Replies to several loops, that began at different offsets, never take the
\* cursor of a subscription back.
CursorsNeverRegress ==
  [][\A s \in Streams : subs[s] \in Nat /\ subs'[s] \in Nat => subs'[s] >= subs[s]]_vars

\* Since the last read of a subscription that began at '$', a message before
\* the cursor has been handed out, or waits for its turn in a loop.
NothingSkipped ==
  status = "ready" =>
    \A s \in Streams : subs[s] \in Nat =>
      \A i \in (log.since[s] + 1)..subs[s] :
        log.handled[s][i] > 0 \/ \E l \in Loops : <<s, i>> \in loop[l].todo

\* A duplicate never has the last word: whatever replies have been handed out, of
\* whichever age, the bus was last called for the message at its cursor.  Replies of
\* more messages than pAll() calls at a time are excepted.
SettledOnLatest ==
  Concurrency >= Cardinality(Streams) * MaxMessages /\ status = "ready"
    => \A s \in Streams : subs[s] \in Nat => log.last[s] = subs[s]

-----------------------------------------------------------------------------
(* Liveness.  Redis executes every command, a blocked XREAD times out, and   *)
(* handlers return.                                                         *)

Fairness ==
  /\ WF_vars(ExecuteRead) /\ WF_vars(Timeout) /\ WF_vars(ExecuteUnblock)
  /\ WF_vars(Reply) /\ WF_vars(Unblocked)
  /\ \A l \in Loops : WF_vars(Handled(l))

FairSpec == Spec /\ Fairness

Lives(l) == loop[l].state \in {"reading", "emitting"}

\* Once a subscription has a cursor, and no read at '$' is under way, every
\* message is heard of as long as a loop lives.
Delivered ==
  \A s \in Streams, i \in 1..MaxMessages :
    (/\ status = "ready" /\ \E l \in Loops : Lives(l)
     /\ subs[s] \in Nat /\ subs[s] < i /\ i <= stream[s]
     /\ \A k \in DOMAIN wire : wire[k].offset[s] # Latest)
    ~> (\/ log.handled[s][i] > 0
        \/ status # "ready" \/ s \notin Subscribed
        \/ \A l \in Loops : ~Lives(l))

\* After disconnect() every loop ends, whatever it was doing.
LoopsEnd == (status = "closing") ~> (\A l \in Loops : ~Lives(l))
=============================================================================
