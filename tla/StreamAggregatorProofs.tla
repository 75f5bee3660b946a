---------------------- MODULE StreamAggregatorProofs ----------------------
(***************************************************************************)
(* Theorems about StreamAggregator, for all sets of streams and any number *)
(* of loops, messages and handlers.                                        *)
(*                                                                         *)
(* Several loops send reads with cursors of different ages on one          *)
(* connection.  The connection executes and answers in order, and a stream *)
(* only grows: a reply with messages therefore ends at least where every   *)
(* earlier one did, and behind the cursor, however old the cursor was with *)
(* which it was sent.                                                      *)
(***************************************************************************)
EXTENDS StreamAggregator, FiniteSetTheorems, WellFoundedInduction, TLAPS

Reads ==
  [loop : Loops, state : {"sent", "blocked", "replied"},
   offset : [Streams -> Cursors], from : [Streams -> Cursors],
   upto : [Streams -> Cursors]]

\* The reply r has messages of s.
Brings(r, s) == r.from[s] # NoSub /\ r.upto[s] # r.from[s]

\* Reads are executed in order: whatever is before one that was executed is
\* answered.
InOrder(w) ==
  \A j, k \in DOMAIN w : j < k /\ w[k].state # "sent" => w[j].state = "replied"

\* Only an answer brings messages.
OnlyAnswersBring(w) ==
  \A k \in DOMAIN w : w[k].state # "replied" => w[k].upto = w[k].from

\* What a reply brings ends between the cursor and the end of the stream.
AheadOfCursor(w, cursors, end) ==
  \A k \in DOMAIN w : \A s \in Streams :
    Brings(w[k], s) =>
      /\ w[k].upto[s] \in Nat
      /\ w[k].upto[s] <= end[s]
      /\ cursors[s] \in Nat => cursors[s] <= w[k].upto[s]

\* Later replies end no earlier.
Growing(w) ==
  \A j, k \in DOMAIN w : \A s \in Streams :
    j < k /\ Brings(w[j], s) /\ Brings(w[k], s) => w[j].upto[s] <= w[k].upto[s]

WireInv(w, cursors, end) ==
  /\ w \in Seq(Reads)
  /\ InOrder(w)
  /\ OnlyAnswersBring(w)
  /\ AheadOfCursor(w, cursors, end)
  /\ Growing(w)

LogRecord ==
  /\ log = [loops |-> log.loops, faults |-> log.faults, handled |-> log.handled,
            last |-> log.last, since |-> log.since]
  /\ log.loops \in Nat

\* The inductive invariant.
CursorInv ==
  /\ stream \in [Streams -> Nat]
  /\ subs \in [Streams -> Cursors]
  /\ \A s \in Streams : subs[s] \in Nat => subs[s] <= stream[s]
  /\ WireInv(wire, subs, stream)
  /\ LogRecord

-----------------------------------------------------------------------------
(* The wire.                                                                *)

\* What a read looks like when it is sent (xread in readStream)
NewRead(l, cursors) ==
  [loop |-> l, state |-> "sent", from |-> cursors, upto |-> cursors,
   offset |-> cursors]

\* A new read brings nothing yet.
LEMMA NewReadBrings ==
  ASSUME NEW l \in Loops, NEW c \in [Streams -> Cursors]
  PROVE  /\ NewRead(l, c) \in Reads
         /\ NewRead(l, c).state = "sent"
         /\ NewRead(l, c).upto = NewRead(l, c).from
         /\ \A s \in Streams : ~Brings(NewRead(l, c), s)
BY DEF NewRead, Reads, Brings

\* Sending a read, behind all others.
LEMMA AppendWire ==
  ASSUME NEW w, NEW held, NEW end, WireInv(w, held, end),
         NEW l \in Loops, NEW c \in [Streams -> Cursors]
  PROVE  WireInv(Append(w, NewRead(l, c)), held, end)
<1> DEFINE r == NewRead(l, c)
           v == Append(w, r)
<1>1. w \in Seq(Reads) /\ r \in Reads
  BY NewReadBrings DEF WireInv
<1>2. /\ v \in Seq(Reads)
      /\ DOMAIN w = 1..Len(w) /\ Len(w) \in Nat
      /\ DOMAIN v = 1..(Len(w) + 1)
      /\ \A k \in DOMAIN w : v[k] = w[k]
      /\ v[Len(w) + 1] = r
  BY <1>1
<1>3. /\ r.state = "sent" /\ r.upto = r.from
      /\ \A s \in Streams : ~Brings(r, s)
  BY NewReadBrings
<1> HIDE DEF r, v
<1>4. \A k \in DOMAIN v : (k \in DOMAIN w /\ v[k] = w[k]) \/ v[k] = r
  BY <1>2
<1>5. InOrder(v)
  <2> SUFFICES ASSUME NEW j \in DOMAIN v, NEW k \in DOMAIN v,
                      j < k, v[k].state # "sent"
               PROVE  v[j].state = "replied"
    BY DEF InOrder
  <2>1. k \in DOMAIN w /\ v[k] = w[k]
    BY <1>3, <1>4
  <2>2. j \in DOMAIN w /\ v[j] = w[j]
    BY <1>2, <2>1
  <2> QED
    BY <2>1, <2>2 DEF WireInv, InOrder
<1>6. OnlyAnswersBring(v)
  BY <1>3, <1>4 DEF WireInv, OnlyAnswersBring
<1>7. AheadOfCursor(v, held, end)
  BY <1>3, <1>4 DEF WireInv, AheadOfCursor
<1>8. Growing(v)
  BY <1>3, <1>4 DEF WireInv, Growing
<1> QED
  BY <1>2, <1>5, <1>6, <1>7, <1>8 DEF WireInv, r, v

\* Taking the oldest answer off.
LEMMA TailWire ==
  ASSUME NEW w, NEW held, NEW end, WireInv(w, held, end), w # <<>>
  PROVE  WireInv(Tail(w), held, end)
<1> DEFINE v == Tail(w)
<1>1. w \in Seq(Reads)
  BY DEF WireInv
<1>2. /\ v \in Seq(Reads)
      /\ \A k \in DOMAIN v : k \in Nat /\ k + 1 \in DOMAIN w /\ v[k] = w[k + 1]
  BY <1>1
<1> HIDE DEF v
<1>3. \A j, k \in DOMAIN v : j < k => j + 1 < k + 1
  BY <1>2
<1>4. InOrder(v)
  BY <1>2, <1>3 DEF WireInv, InOrder
<1>5. OnlyAnswersBring(v)
  BY <1>2 DEF WireInv, OnlyAnswersBring
<1>6. AheadOfCursor(v, held, end)
  BY <1>2 DEF WireInv, AheadOfCursor
<1>7. Growing(v)
  BY <1>2, <1>3 DEF WireInv, Growing
<1> QED
  BY <1>2, <1>4, <1>5, <1>6, <1>7 DEF WireInv, v

\* The empty connection
LEMMA EmptyWire ==
  ASSUME NEW held, NEW end
  PROVE  WireInv(<<>>, held, end)
BY DEF WireInv, InOrder, OnlyAnswersBring, AheadOfCursor, Growing

\* The cursors become others that are not ahead of any answer.
LEMMA OtherCursors ==
  ASSUME NEW w, NEW held, NEW end, WireInv(w, held, end), NEW c,
         \A k \in DOMAIN w : \A s \in Streams :
           Brings(w[k], s) /\ c[s] \in Nat => c[s] <= w[k].upto[s]
  PROVE  WireInv(w, c, end)
BY DEF WireInv, AheadOfCursor

\* readStream() sends one read or none.
LEMMA ReadStreamWire ==
  ASSUME NEW w, NEW held, NEW end, WireInv(w, held, end),
         NEW l \in Loops, NEW c \in [Streams -> Cursors], readStream(l, w, c)
  PROVE  WireInv(wire', held, end)
<1>1. wire' = w \/ wire' = Append(w, NewRead(l, c))
  BY DEF readStream, NewRead
<1> QED
  BY <1>1, AppendWire

\* A blocked read that ends without messages (a time-out, CLIENT UNBLOCK)
LEMMA WithoutMessagesWire ==
  ASSUME WireInv(wire, subs, stream)
  PROVE  WireInv(WithoutMessages, subs, stream)
<1> DEFINE v == WithoutMessages
<1>1. wire \in Seq(Reads)
  BY DEF WireInv
<1>2. /\ v \in Seq(Reads)
      /\ DOMAIN v = DOMAIN wire
      /\ \A k \in DOMAIN v :
           /\ v[k].from = wire[k].from /\ v[k].upto = wire[k].upto
           /\ v[k].state = IF wire[k].state = "blocked" THEN "replied"
                           ELSE wire[k].state
  <2>1. /\ wire \in [1..Len(wire) -> Reads] /\ Len(wire) \in Nat
        /\ DOMAIN wire = 1..Len(wire)
    BY <1>1
  <2>2. \A r \in Reads : /\ [r EXCEPT !.state = "replied"] \in Reads
                         /\ [r EXCEPT !.state = "replied"].from = r.from
                         /\ [r EXCEPT !.state = "replied"].upto = r.upto
                         /\ [r EXCEPT !.state = "replied"].state = "replied"
    BY DEF Reads
  <2>3. v \in [1..Len(wire) -> Reads] /\ DOMAIN v = DOMAIN wire
    BY <2>1, <2>2 DEF WithoutMessages
  <2>4. v \in Seq(Reads)
    BY <2>1, <2>3
  <2>5. ASSUME NEW k \in DOMAIN wire
        PROVE  /\ v[k].from = wire[k].from /\ v[k].upto = wire[k].upto
               /\ v[k].state = IF wire[k].state = "blocked" THEN "replied"
                               ELSE wire[k].state
    BY <2>1, <2>2 DEF WithoutMessages
  <2> QED
    BY <2>3, <2>4, <2>5
<1> HIDE DEF v
<1>3. \A k \in DOMAIN v : \A s \in Streams : Brings(v[k], s) <=> Brings(wire[k], s)
  BY <1>2 DEF Brings
<1>4. InOrder(v)
  BY <1>2 DEF WireInv, InOrder
<1>5. OnlyAnswersBring(v)
  BY <1>2 DEF WireInv, OnlyAnswersBring
<1>6. AheadOfCursor(v, subs, stream)
  BY <1>2, <1>3 DEF WireInv, AheadOfCursor
<1>7. Growing(v)
  BY <1>2, <1>3 DEF WireInv, Growing
<1> QED
  BY <1>2, <1>4, <1>5, <1>6, <1>7 DEF WireInv, v

\* XREAD answers the first read that was not executed: with all messages after
\* its offset, and so with the end of those streams; else it blocks.
LEMMA ExecuteReadWire ==
  ASSUME stream \in [Streams -> Nat],
         \A s \in Streams : subs[s] \in Nat => subs[s] <= stream[s],
         WireInv(wire, subs, stream), ExecuteRead
  PROVE  WireInv(wire', subs, stream)
<1>1. PICK k \in DOMAIN wire :
        /\ wire[k].state = "sent"
        /\ \A j \in 1..(k - 1) : wire[j].state = "replied"
        /\ LET from == [s \in Streams |-> IF wire[k].offset[s] = Latest THEN stream[s]
                                          ELSE wire[k].offset[s]]
               ready == {s \in Streams : from[s] # NoSub /\ from[s] < stream[s]}
           IN wire' = [wire EXCEPT
                ![k].state = IF ready = {} THEN "blocked" ELSE "replied",
                ![k].from = from,
                ![k].upto = [s \in Streams |->
                               IF s \in ready THEN stream[s] ELSE from[s]]]
  BY DEF ExecuteRead
<1> DEFINE from == [s \in Streams |-> IF wire[k].offset[s] = Latest THEN stream[s]
                                      ELSE wire[k].offset[s]]
           ready == {s \in Streams : from[s] # NoSub /\ from[s] < stream[s]}
           upto == [s \in Streams |-> IF s \in ready THEN stream[s] ELSE from[s]]
           state == IF ready = {} THEN "blocked" ELSE "replied"
           v == wire'
<1>2. /\ wire \in Seq(Reads) /\ wire[k] \in Reads
      /\ wire \in [1..Len(wire) -> Reads] /\ Len(wire) \in Nat
      /\ DOMAIN wire = 1..Len(wire) /\ k \in 1..Len(wire)
  BY DEF WireInv
<1>3. /\ wire[k].offset \in [Streams -> Cursors]
      /\ from \in [Streams -> Cursors] /\ upto \in [Streams -> Cursors]
  BY <1>2 DEF Reads, Cursors
<1>4. v = [wire EXCEPT ![k] = [wire[k] EXCEPT !.state = state, !.from = from,
                                              !.upto = upto]]
  BY <1>1, <1>2 DEF Reads
<1>5. /\ state \in {"blocked", "replied"}
      /\ state = "blocked" => upto = from
      /\ \A s \in Streams : upto[s] # from[s] => upto[s] = stream[s]
  BY <1>3
<1> HIDE DEF from, ready, upto, state
<1>6. [wire[k] EXCEPT !.state = state, !.from = from, !.upto = upto] \in Reads
  BY <1>2, <1>3, <1>5 DEF Reads
<1>7. /\ v \in Seq(Reads)
      /\ DOMAIN v = DOMAIN wire
      /\ \A j \in DOMAIN v : j # k => v[j] = wire[j]
      /\ v[k].state = state /\ v[k].from = from /\ v[k].upto = upto
  <2>1. v \in [1..Len(wire) -> Reads]
    BY <1>2, <1>4, <1>6
  <2>2. v[k] = [wire[k] EXCEPT !.state = state, !.from = from, !.upto = upto]
    BY <1>2, <1>4
  <2>3. v[k].state = state /\ v[k].from = from /\ v[k].upto = upto
    BY <1>2, <2>2 DEF Reads
  <2>4. \A j \in DOMAIN wire : j # k => v[j] = wire[j]
    BY <1>2, <1>4
  <2> QED
    BY <1>2, <2>1, <2>3, <2>4
<1>8. \A j \in DOMAIN wire : j < k => wire[j].state = "replied"
  <2>1. \A j \in 1..(k - 1) : wire[j].state = "replied"
    BY <1>1
  <2>2. \A j \in DOMAIN wire : j < k => j \in 1..(k - 1)
    BY <1>2
  <2> QED
    BY <2>1, <2>2
<1>9. \A j \in DOMAIN wire : k < j => wire[j].state = "sent"
  BY <1>1, <1>2 DEF WireInv, InOrder
<1>10. \A s \in Streams : Brings(v[k], s) => v[k].upto[s] = stream[s]
  BY <1>5, <1>7 DEF Brings
<1>11. ASSUME NEW j \in DOMAIN wire, k < j, NEW s \in Streams
       PROVE  ~Brings(v[j], s)
  <2>1. v[j] = wire[j] /\ wire[j].state = "sent"
    BY <1>2, <1>7, <1>9, <1>11
  <2> QED
    BY <2>1 DEF WireInv, OnlyAnswersBring, Brings
<1> HIDE DEF v
<1>12. InOrder(v)
  <2> SUFFICES ASSUME NEW i \in DOMAIN v, NEW j \in DOMAIN v,
                      i < j, v[j].state # "sent"
               PROVE  v[i].state = "replied"
    BY DEF InOrder
  <2>1. j = k \/ (j # k /\ j < k)
    BY <1>2, <1>7, <1>9
  <2>2. i < k
    BY <1>2, <1>7, <2>1
  <2> QED
    BY <1>2, <1>7, <1>8, <2>2
<1>13. OnlyAnswersBring(v)
  BY <1>5, <1>7 DEF WireInv, OnlyAnswersBring
<1>14. AheadOfCursor(v, subs, stream)
  <2> SUFFICES ASSUME NEW j \in DOMAIN v, NEW s \in Streams, Brings(v[j], s)
               PROVE  /\ v[j].upto[s] \in Nat
                      /\ v[j].upto[s] <= stream[s]
                      /\ subs[s] \in Nat => subs[s] <= v[j].upto[s]
    BY DEF AheadOfCursor
  <2>1. CASE j = k
    BY <1>10, <2>1
  <2>2. CASE j # k
    BY <1>7, <2>2 DEF WireInv, AheadOfCursor
  <2> QED
    BY <2>1, <2>2
<1>15. Growing(v)
  <2> SUFFICES ASSUME NEW i \in DOMAIN v, NEW j \in DOMAIN v, NEW s \in Streams,
                      i < j, Brings(v[i], s), Brings(v[j], s)
               PROVE  v[i].upto[s] <= v[j].upto[s]
    BY DEF Growing
  <2>1. j = k \/ j < k
    BY <1>2, <1>7, <1>11
  <2>2. CASE j = k
    BY <1>2, <1>7, <1>10, <2>2 DEF WireInv, AheadOfCursor
  <2>3. CASE j < k
    <3>1. i # k /\ j # k
      BY <1>2, <1>7, <2>3
    <3> QED
      BY <1>7, <3>1 DEF WireInv, Growing
  <2> QED
    BY <2>1, <2>2, <2>3
<1> QED
  BY <1>7, <1>12, <1>13, <1>14, <1>15 DEF WireInv, v

\* XADD answers the blocked read with the new end of the stream, which nothing
\* before it, and no cursor, can be beyond.
LEMMA PublishWire ==
  ASSUME NEW s \in Streams, Publish(s),
         stream \in [Streams -> Nat], subs \in [Streams -> Cursors],
         \A t \in Streams : subs[t] \in Nat => subs[t] <= stream[t],
         WireInv(wire, subs, stream)
  PROVE  /\ WireInv(wire', subs, stream')
         /\ stream' \in [Streams -> Nat]
         /\ \A t \in Streams : subs[t] \in Nat => subs[t] <= stream'[t]
<1> DEFINE v == wire'
           served(k) == wire[k].state = "blocked" /\ wire[k].from[s] # NoSub
<1>1. /\ wire \in Seq(Reads)
      /\ wire \in [1..Len(wire) -> Reads] /\ Len(wire) \in Nat
      /\ DOMAIN wire = 1..Len(wire)
  BY DEF WireInv
<1>2. /\ stream' = [stream EXCEPT ![s] = @ + 1]
      /\ v = [k \in DOMAIN wire |->
                IF served(k)
                THEN [wire[k] EXCEPT !.state = "replied", !.upto[s] = stream'[s]]
                ELSE wire[k]]
  BY DEF Publish
<1>3. /\ stream' \in [Streams -> Nat]
      /\ \A t \in Streams : stream[t] <= stream'[t]
  <2>1. stream' = [stream EXCEPT ![s] = @ + 1]
    BY <1>2
  <2>2. stream[s] + 1 \in Nat
    OBVIOUS
  <2>3. stream' \in [Streams -> Nat]
    BY <2>1, <2>2
  <2>4. \A t \in Streams : stream'[t] = IF t = s THEN stream[t] + 1 ELSE stream[t]
    BY <2>1
  <2> QED
    BY <2>3, <2>4
<1>4. \A t \in Streams : subs[t] \in Nat => subs[t] <= stream'[t]
  BY <1>3
<1>5. ASSUME NEW k \in DOMAIN wire, served(k)
      PROVE  /\ v[k] \in Reads
             /\ v[k].state = "replied" /\ v[k].from = wire[k].from
             /\ v[k].upto = [wire[k].upto EXCEPT ![s] = stream'[s]]
             /\ \A t \in Streams : Brings(v[k], t) =>
                  t = s /\ v[k].upto[t] = stream'[t]
  <2>1. v[k] = [wire[k] EXCEPT !.state = "replied",
                               !.upto = [wire[k].upto EXCEPT ![s] = stream'[s]]]
    BY <1>1, <1>2, <1>5 DEF Reads
  <2>2. wire[k] \in Reads /\ wire[k].upto \in [Streams -> Cursors]
    BY <1>1 DEF Reads
  <2>3. [wire[k].upto EXCEPT ![s] = stream'[s]] \in [Streams -> Cursors]
    BY <1>3, <2>2 DEF Cursors
  <2>4. /\ v[k] \in Reads
        /\ v[k].state = "replied" /\ v[k].from = wire[k].from
        /\ v[k].upto = [wire[k].upto EXCEPT ![s] = stream'[s]]
    BY <2>1, <2>2, <2>3 DEF Reads
  <2>5. wire[k].upto = wire[k].from
    BY <1>5 DEF WireInv, OnlyAnswersBring
  <2> QED
    BY <2>2, <2>4, <2>5 DEF Brings
<1>6. \A k \in DOMAIN wire : ~served(k) => v[k] = wire[k]
  BY <1>2
<1>7. v \in Seq(Reads) /\ DOMAIN v = DOMAIN wire
  <2>1. v \in [1..Len(wire) -> Reads]
    BY <1>1, <1>2, <1>5, <1>6
  <2> QED
    BY <1>1, <2>1
<1>8. ASSUME NEW k \in DOMAIN wire, served(k), NEW j \in DOMAIN wire, k < j
      PROVE  wire[j].state = "sent"
  BY <1>1, <1>8 DEF WireInv, InOrder
<1> HIDE DEF v, served
<1>9. \A k \in DOMAIN wire : v[k].state = "sent" <=> wire[k].state = "sent"
  BY <1>5, <1>6 DEF served
<1>10. \A k \in DOMAIN wire : wire[k].state = "replied" => v[k].state = "replied"
  BY <1>5, <1>6
<1>11. InOrder(v)
  BY <1>7, <1>9, <1>10 DEF WireInv, InOrder
<1>12. OnlyAnswersBring(v)
  BY <1>5, <1>6, <1>7 DEF WireInv, OnlyAnswersBring
<1>13. AheadOfCursor(v, subs, stream')
  <2> SUFFICES ASSUME NEW k \in DOMAIN wire, NEW t \in Streams, Brings(v[k], t)
               PROVE  /\ v[k].upto[t] \in Nat
                      /\ v[k].upto[t] <= stream'[t]
                      /\ subs[t] \in Nat => subs[t] <= v[k].upto[t]
    BY <1>7 DEF AheadOfCursor
  <2>1. CASE served(k)
    <3>1. v[k].upto[t] = stream'[t]
      BY <1>5, <2>1
    <3>2. stream'[t] \in Nat /\ (subs[t] \in Nat => subs[t] <= stream'[t])
      BY <1>3, <1>4
    <3> QED
      BY <3>1, <3>2
  <2>2. CASE ~served(k)
    <3>1. v[k] = wire[k]
      BY <1>6, <2>2
    <3>2. /\ v[k].upto[t] \in Nat
          /\ v[k].upto[t] <= stream[t]
          /\ subs[t] \in Nat => subs[t] <= v[k].upto[t]
      BY <3>1 DEF WireInv, AheadOfCursor
    <3>3. stream[t] \in Nat /\ stream'[t] \in Nat /\ stream[t] <= stream'[t]
      BY <1>3
    <3> QED
      BY <3>2, <3>3
  <2> QED
    BY <2>1, <2>2
<1>14. Growing(v)
  <2> SUFFICES ASSUME NEW j \in DOMAIN wire, NEW k \in DOMAIN wire,
                      NEW t \in Streams, j < k, Brings(v[j], t), Brings(v[k], t)
               PROVE  v[j].upto[t] <= v[k].upto[t]
    BY <1>7 DEF Growing
  <2>1. ~served(j)
    <3> SUFFICES ASSUME served(j) PROVE FALSE
      OBVIOUS
    <3>1. wire[k].state = "sent"
      BY <1>8
    <3>2. v[k] = wire[k]
      BY <1>6, <3>1 DEF served
    <3> QED
      BY <3>1, <3>2 DEF WireInv, OnlyAnswersBring, Brings
  <2>2. v[j] = wire[j]
    BY <1>6, <2>1
  <2>3. CASE served(k)
    <3>1. v[k].upto[t] = stream'[t]
      BY <1>5, <2>3
    <3>2. v[j].upto[t] \in Nat /\ v[j].upto[t] <= stream'[t]
      BY <1>7, <1>13 DEF AheadOfCursor
    <3> QED
      BY <3>1, <3>2
  <2>4. CASE ~served(k)
    BY <1>6, <2>2, <2>4 DEF WireInv, Growing
  <2> QED
    BY <2>3, <2>4
<1> QED
  BY <1>3, <1>4, <1>7, <1>11, <1>12, <1>13, <1>14 DEF WireInv, v

-----------------------------------------------------------------------------
(* The server's steps.                                                      *)

\* What a step does to the cursors
NoRegress ==
  \A s \in Streams : subs[s] \in Nat /\ subs'[s] \in Nat => subs'[s] >= subs[s]

\* A step of the server that leaves streams and cursors alone
LEMMA SameCursors ==
  ASSUME CursorInv, UNCHANGED <<stream, subs>>,
         WireInv(wire', subs, stream), LogRecord'
  PROVE  CursorInv' /\ NoRegress
BY DEF CursorInv, NoRegress

\* The history keeps its fields.
LEMMA LogKept ==
  ASSUME LogRecord
  PROVE  /\ UNCHANGED log => LogRecord'
         /\ \A m : log' = Call(m) => LogRecord'
         /\ \A m, x : log' = [Call(m) EXCEPT !.since = x] => LogRecord'
         /\ \A x : log' = [log EXCEPT !.faults = x] => LogRecord'
<1>1. UNCHANGED log => LogRecord'
  BY DEF LogRecord
<1>2. ASSUME NEW h, NEW x, log' = [log EXCEPT !.handled = h, !.last = x]
      PROVE  LogRecord'
  BY <1>2 DEF LogRecord
<1>3. ASSUME NEW h, NEW x, NEW y,
             log' = [[log EXCEPT !.handled = h, !.last = x] EXCEPT !.since = y]
      PROVE  LogRecord'
  BY <1>3 DEF LogRecord
<1>5. ASSUME NEW x, log' = [log EXCEPT !.faults = x]
      PROVE  LogRecord'
  BY <1>5 DEF LogRecord
<1>6. ASSUME NEW m, log' = Call(m)
      PROVE  LogRecord'
  BY <1>2, <1>6 DEF Call
<1>7. ASSUME NEW m, NEW x, log' = [Call(m) EXCEPT !.since = x]
      PROVE  LogRecord'
  BY <1>3, <1>7 DEF Call
<1> QED
  BY <1>1, <1>5, <1>6, <1>7

\* A new subscription starts at '$', which is no cursor yet.
LEMMA SubscribeStep ==
  ASSUME CursorInv, NEW s \in Streams, Subscribe(s)
  PROVE  CursorInv' /\ NoRegress
<1>1. /\ subs' = [subs EXCEPT ![s] = Latest]
      /\ UNCHANGED stream
      /\ subs \in [Streams -> Cursors]
      /\ log.loops < MaxLoops
      /\ log.loops \in Nat
  BY DEF Subscribe, CursorInv, LogRecord
<1>2. /\ subs' \in [Streams -> Cursors]
      /\ \A t \in Streams : subs'[t] \in Nat => subs'[t] = subs[t]
  BY <1>1, OffsetAssumption DEF Cursors
<1>3. WireInv(wire, subs', stream)
  <2>1. \A k \in DOMAIN wire : \A t \in Streams :
          Brings(wire[k], t) /\ subs'[t] \in Nat => subs'[t] <= wire[k].upto[t]
    BY <1>2 DEF CursorInv, WireInv, AheadOfCursor
  <2> QED
    BY <2>1, OtherCursors DEF CursorInv
<1>4. log.loops + 1 \in Loops
  BY <1>1, MaxLoopsAssumption DEF Loops
<1>5. WireInv(wire', subs', stream)
  <2>1. CASE active
    BY <1>3, <2>1 DEF Subscribe
  <2>2. CASE ~active
    <3>1. readStream(log.loops + 1, wire, subs')
      BY <2>2 DEF Subscribe
    <3> QED
      BY <1>2, <1>3, <1>4, <3>1, ReadStreamWire
  <2> QED
    BY <2>1, <2>2
<1>6. LogRecord'
  <2>1. log' = [log EXCEPT !.loops = log.loops + 1,
                           !.handled = [log.handled EXCEPT
                                          ![s] = [i \in 1..MaxMessages |-> 0]],
                           !.last = [log.last EXCEPT ![s] = 0]]
    BY DEF Subscribe, CursorInv, LogRecord
  <2>2. ASSUME NEW b, NEW c,
               log' = [log EXCEPT !.loops = log.loops + 1,
                                  !.handled = b, !.last = c]
        PROVE  LogRecord'
    <3>1. log = [loops |-> log.loops, faults |-> log.faults,
                 handled |-> log.handled, last |-> log.last,
                 since |-> log.since]
      BY DEF CursorInv, LogRecord
    <3>2. log' = [loops |-> log.loops + 1, faults |-> log.faults,
                  handled |-> b, last |-> c, since |-> log.since]
      BY <2>2, <3>1
    <3>3. log.loops + 1 \in Nat
      BY <1>1
    <3> QED
      BY <3>2, <3>3 DEF LogRecord
  <2> QED
    BY <2>1, <2>2
<1>7. stream' \in [Streams -> Nat] /\ stream' = stream
  BY <1>1 DEF CursorInv
<1>8. \A t \in Streams : subs'[t] \in Nat => subs'[t] <= stream'[t]
  BY <1>2, <1>7 DEF CursorInv
<1>9. \A t \in Streams : subs[t] \in Nat /\ subs'[t] \in Nat => subs'[t] >= subs[t]
  BY <1>2
<1> QED
  BY <1>2, <1>5, <1>6, <1>7, <1>8, <1>9 DEF CursorInv, NoRegress

\* A subscription that ends has no cursor.
LEMMA UnsubscribeStep ==
  ASSUME CursorInv, NEW s \in Streams, Unsubscribe(s)
  PROVE  CursorInv' /\ NoRegress
<1>1. /\ subs' = [subs EXCEPT ![s] = NoSub]
      /\ UNCHANGED <<stream, wire, log>>
      /\ subs \in [Streams -> Cursors]
  BY DEF Unsubscribe, CursorInv
<1>2. /\ subs' \in [Streams -> Cursors]
      /\ \A t \in Streams : subs'[t] \in Nat => subs'[t] = subs[t]
  BY <1>1, OffsetAssumption DEF Cursors
<1>3. WireInv(wire, subs', stream)
  <2>1. \A k \in DOMAIN wire : \A t \in Streams :
          Brings(wire[k], t) /\ subs'[t] \in Nat => subs'[t] <= wire[k].upto[t]
    BY <1>2 DEF CursorInv, WireInv, AheadOfCursor
  <2> QED
    BY <2>1, OtherCursors DEF CursorInv
<1>4. LogRecord'
  BY <1>1, LogKept DEF CursorInv
<1>5. \A t \in Streams : subs[t] \in Nat /\ subs'[t] \in Nat => subs'[t] >= subs[t]
  BY <1>2
<1> QED
  BY <1>1, <1>2, <1>3, <1>4, <1>5 DEF CursorInv, NoRegress

\* unblock() resolves
LEMMA UnblockedStep ==
  ASSUME CursorInv, Unblocked
  PROVE  CursorInv' /\ NoRegress
<1>1. UNCHANGED <<stream, subs, log>>
  BY DEF Unblocked
<1>2. WireInv(wire', subs, stream)
  <2>1. CASE Head(unblocks).loop \in Loops
    <3>1. readStream(Head(unblocks).loop, wire, subs)
      BY <2>1 DEF Unblocked
    <3> QED
      BY <2>1, <3>1, ReadStreamWire DEF CursorInv
  <2>2. CASE Head(unblocks).loop \notin Loops
    BY <2>2, EmptyWire DEF Unblocked
  <2> QED
    BY <2>1, <2>2
<1> QED
  BY <1>1, <1>2, LogKept, SameCursors DEF CursorInv

\* The reply at the head of the wire sets the cursors of the streams of which it
\* brings messages: not behind where they are, and not ahead of the replies
\* that follow.
LEMMA ReplyStep ==
  ASSUME CursorInv, Reply
  PROVE  CursorInv' /\ NoRegress
<1> DEFINE r == Head(wire)
           messages == {m \in Replied(r) \X (1..MaxMessages) :
                          m[2] > r.from[m[1]] /\ m[2] <= r.upto[m[1]]}
<1>1. /\ wire # <<>> /\ wire \in Seq(Reads)
      /\ UNCHANGED stream
      /\ subs \in [Streams -> Cursors] /\ stream \in [Streams -> Nat]
      /\ WireInv(wire, subs, stream)
  BY DEF Reply, CursorInv, WireInv
<1>2. /\ 1 \in DOMAIN wire /\ r = wire[1] /\ r \in Reads
      /\ \A k \in DOMAIN Tail(wire) :
           k + 1 \in DOMAIN wire /\ Tail(wire)[k] = wire[k + 1] /\ 1 < k + 1
  BY <1>1
<1>3. WireInv(Tail(wire), subs, stream)
  BY <1>1, TailWire
<1>4. CASE messages = {}
  <2>1. /\ readStream(r.loop, Tail(wire), subs)
        /\ UNCHANGED <<subs, log>>
    BY <1>4 DEF Reply
  <2>2. r.loop \in Loops
    BY <1>2 DEF Reads
  <2>3. WireInv(wire', subs, stream)
    BY <1>1, <1>3, <2>1, <2>2, ReadStreamWire
  <2> QED
    BY <1>1, <2>1, <2>3, LogKept, SameCursors DEF CursorInv
<1>5. CASE messages # {}
  <2>1. /\ wire' = Tail(wire)
        /\ subs' = [s \in Streams |->
                      IF s \in Replied(r) THEN NextCursor(r, s) ELSE subs[s]]
        /\ \E first \in Starts(messages, Concurrency) :
             log' = [Call(first) EXCEPT
                       !.since = [s \in Streams |->
                          IF s \in Replied(r) /\ Latest \in {r.offset[s], subs[s]}
                          THEN r.from[s] ELSE @[s]]]
    BY <1>5 DEF Reply
  <2>2. LogRecord'
    <3>1. \E m, x : log' = [Call(m) EXCEPT !.since = x]
      BY <2>1
    <3> QED
      BY <3>1, LogKept DEF CursorInv
  <2>3. \A s \in Streams : s \in Replied(r) => Brings(r, s)
    BY DEF Replied, Brings
  <2>4. ASSUME NEW s \in Replied(r)
        PROVE  /\ s \in Streams
               /\ subs'[s] = r.upto[s] /\ r.upto[s] \in Nat
               /\ r.upto[s] <= stream[s]
               /\ subs[s] \in Nat => subs[s] <= r.upto[s]
               /\ \A k \in DOMAIN Tail(wire) :
                    Brings(Tail(wire)[k], s) => r.upto[s] <= Tail(wire)[k].upto[s]
    <3>1. s \in Streams /\ subs'[s] = r.upto[s]
      BY <2>1 DEF Replied, Subscribed, NextCursor
    <3>2. Brings(wire[1], s)
      BY <1>2, <2>3, <2>4, <3>1
    <3>3. /\ r.upto[s] \in Nat
          /\ r.upto[s] <= stream[s]
          /\ subs[s] \in Nat => subs[s] <= r.upto[s]
      BY <1>1, <1>2, <3>1, <3>2 DEF WireInv, AheadOfCursor
    <3>4. \A k \in DOMAIN Tail(wire) :
            Brings(Tail(wire)[k], s) => r.upto[s] <= Tail(wire)[k].upto[s]
      BY <1>1, <1>2, <3>1, <3>2 DEF WireInv, Growing
    <3> QED
      BY <3>1, <3>3, <3>4
  <2>5. \A s \in Streams : s \notin Replied(r) => subs'[s] = subs[s]
    BY <2>1
  <2> HIDE DEF r, messages
  <2>6. subs' \in [Streams -> Cursors]
    <3>1. \A s \in Streams : subs'[s] \in Cursors
      BY <1>1, <2>4, <2>5 DEF Cursors
    <3>2. subs' = [s \in Streams |-> subs'[s]]
      BY <2>1
    <3> QED
      BY <3>1, <3>2
  <2>7. \A s \in Streams : subs'[s] \in Nat => subs'[s] <= stream[s]
    BY <2>4, <2>5 DEF CursorInv
  <2>8. NoRegress
    <3> SUFFICES ASSUME NEW s \in Streams, subs[s] \in Nat, subs'[s] \in Nat
                 PROVE  subs'[s] >= subs[s]
      BY DEF NoRegress
    <3> QED
      BY <2>4, <2>5
  <2>9. WireInv(Tail(wire), subs', stream)
    <3>1. \A k \in DOMAIN Tail(wire) : \A s \in Streams :
            Brings(Tail(wire)[k], s) /\ subs'[s] \in Nat
              => subs'[s] <= Tail(wire)[k].upto[s]
      BY <1>3, <2>4, <2>5 DEF WireInv, AheadOfCursor
    <3> QED
      BY <1>3, <3>1, OtherCursors
  <2> QED
    BY <1>1, <2>1, <2>2, <2>6, <2>7, <2>8, <2>9 DEF CursorInv
<1> QED
  BY <1>4, <1>5

\* A handler of loop l returns.
LEMMA HandledStep ==
  ASSUME CursorInv, NEW l \in Loops, Handled(l)
  PROVE  CursorInv' /\ NoRegress
<1>1. UNCHANGED <<stream, subs>>
  BY DEF Handled
<1>2. LogRecord'
  <2>1. UNCHANGED log \/ \E m : log' = Call(m)
    BY DEF Handled
  <2> QED
    BY <2>1, LogKept DEF CursorInv
<1>3. WireInv(wire', subs, stream)
  <2>1. wire' = wire \/ readStream(l, wire, subs)
    BY DEF Handled
  <2> QED
    BY <2>1, ReadStreamWire DEF CursorInv
<1> QED
  BY <1>1, <1>2, <1>3, SameCursors

-----------------------------------------------------------------------------
(* The theorem.                                                             *)

\* The invariant holds before anybody has subscribed.
LEMMA CursorInit == Init => CursorInv
<1> SUFFICES ASSUME Init PROVE CursorInv
  OBVIOUS
<1>1. /\ stream = [s \in Streams |-> 0] /\ subs = [s \in Streams |-> NoSub]
      /\ wire = <<>>
  BY DEF Init
<1>2. stream \in [Streams -> Nat] /\ subs \in [Streams -> Cursors]
  BY <1>1 DEF Cursors
<1>3. \A s \in Streams : subs[s] \in Nat => subs[s] <= stream[s]
  BY <1>1, OffsetAssumption
<1>4. WireInv(wire, subs, stream)
  BY <1>1, EmptyWire
<1>5. LogRecord
  BY DEF Init, LogRecord
<1> QED
  BY <1>2, <1>3, <1>4, <1>5 DEF CursorInv

\* Every step keeps it, and takes no cursor back.
LEMMA CursorStep == CursorInv /\ [Next]_vars => CursorInv' /\ NoRegress
<1> SUFFICES ASSUME CursorInv, [Next]_vars
             PROVE  CursorInv' /\ NoRegress
  OBVIOUS
<1>1. ASSUME UNCHANGED <<stream, subs, wire, log>>
      PROVE  CursorInv' /\ NoRegress
  BY <1>1, SameCursors, LogKept DEF CursorInv
<1>2. CASE Connected \/ Disconnect \/ UNCHANGED vars
  BY <1>1, <1>2 DEF Connected, Disconnect, vars
<1>3. ASSUME NEW s \in Streams, Publish(s)
      PROVE  CursorInv' /\ NoRegress
  <2>1. /\ WireInv(wire', subs, stream')
        /\ stream' \in [Streams -> Nat]
        /\ \A t \in Streams : subs[t] \in Nat => subs[t] <= stream'[t]
    BY <1>3, PublishWire DEF CursorInv
  <2>2. UNCHANGED <<subs, log>>
    BY <1>3 DEF Publish
  <2> QED
    BY <2>1, <2>2, LogKept DEF CursorInv, NoRegress
<1>4. CASE ReadFails
  <2>1. /\ wire # <<>> /\ wire' = Tail(wire)
        /\ \E x : log' = [log EXCEPT !.faults = x]
        /\ UNCHANGED <<stream, subs>>
    BY <1>4 DEF ReadFails
  <2> QED
    BY <2>1, TailWire, LogKept, SameCursors DEF CursorInv
<1>5. CASE ExecuteRead
  <2>1. UNCHANGED <<stream, subs, log>>
    BY <1>5 DEF ExecuteRead
  <2>2. WireInv(wire', subs, stream)
    BY <1>5, ExecuteReadWire DEF CursorInv
  <2> QED
    BY <2>1, <2>2, LogKept, SameCursors DEF CursorInv
<1>6. CASE Timeout \/ ExecuteUnblock
  <2>1. wire' = WithoutMessages /\ UNCHANGED <<stream, subs, log>>
    BY <1>6 DEF Timeout, ExecuteUnblock
  <2> QED
    BY <2>1, WithoutMessagesWire, LogKept, SameCursors DEF CursorInv
<1> QED
  BY <1>2, <1>3, <1>4, <1>5, <1>6, SubscribeStep, UnsubscribeStep, UnblockedStep,
     ReplyStep, HandledStep DEF Next

\* What holds of cursors, streams and replies under way in every reachable state
\* of any number of loops.
THEOREM CursorInvariance == Spec => []CursorInv
BY CursorInit, CursorStep, PTL DEF Spec

\* No cursor ever goes back, however many loops share the connection and
\* however old the offsets are that they read from.
THEOREM CursorsOnlyAdvance == Spec => CursorsNeverRegress
<1>1. CursorInv /\ [Next]_vars => NoRegress
  BY CursorStep
<1> QED
  BY <1>1, CursorInvariance, PTL DEF Spec, CursorsNeverRegress, NoRegress

-----------------------------------------------------------------------------
(* The messages that are handed out.                                        *)

Messages == Streams \X (1..MaxMessages)

\* There are finitely many messages.
LEMMA MessagesFinite ==
  /\ MaxMessages \in Nat /\ Cardinality(Streams) \in Nat
  /\ \A S \in SUBSET Messages :
       /\ IsFiniteSet(S) /\ Cardinality(S) \in Nat
       /\ Cardinality(S) <= Cardinality(Streams) * MaxMessages
<1>1. MaxMessages \in Nat /\ IsFiniteSet(Streams)
  BY SizeAssumption
<1>2. IsFiniteSet(1..MaxMessages) /\ Cardinality(1..MaxMessages) = MaxMessages
  <2>1. IsFiniteSet(1..MaxMessages)
        /\ Cardinality(1..MaxMessages) = IF 1 > MaxMessages THEN 0 ELSE MaxMessages - 1 + 1
    BY <1>1, FS_Interval
  <2> QED
    BY <1>1, <2>1
<1>3. IsFiniteSet(Messages) /\ Cardinality(Messages) = Cardinality(Streams) * MaxMessages
  BY <1>1, <1>2, FS_Product DEF Messages
<1>4. Cardinality(Streams) \in Nat
  BY <1>1, FS_CardinalityType
<1> SUFFICES ASSUME NEW S \in SUBSET Messages
             PROVE  /\ IsFiniteSet(S) /\ Cardinality(S) \in Nat
                    /\ Cardinality(S) <= Cardinality(Streams) * MaxMessages
  BY <1>1, <1>4
<1>5. IsFiniteSet(S) /\ Cardinality(S) <= Cardinality(Messages)
  BY <1>3, FS_Subset
<1> QED
  BY <1>3, <1>5, FS_CardinalityType

\* Of several messages of a stream one is the last.
LEMMA LastMessage ==
  ASSUME NEW S \in SUBSET (1..MaxMessages), S # {}
  PROVE  \E i \in S : \A j \in S : j <= i
<1> DEFINE Less == {p \in Nat \X Nat : p[1] < p[2]}
           T == {MaxMessages - i : i \in S}
<1>1. MaxMessages \in Nat
  BY SizeAssumption
<1>2. T \in SUBSET Nat /\ T # {}
  BY <1>1
<1>3. IsWellFoundedOn(Less, Nat)
  BY NatLessThanWellFounded DEF OpToRel
<1>4. PICK x \in T : \A y \in T : ~(<<y, x>> \in Less)
  <2> HIDE DEF T, Less
  <2> QED
    BY <1>2, <1>3, WFMin
<1>5. PICK i \in S : x = MaxMessages - i
  BY <1>4
<1>6. ASSUME NEW j \in S PROVE j <= i
  <2>1. MaxMessages - j \in T /\ x \in Nat /\ MaxMessages - j \in Nat
    BY <1>2, <1>4
  <2>2. ~(MaxMessages - j < x)
    BY <1>4, <2>1
  <2>3. i \in Nat /\ j \in Nat
    BY <1>1
  <2> QED
    BY <1>1, <1>5, <2>1, <2>2, <2>3
<1> QED
  BY <1>6

\* What is started of a reply's messages: no more than may be called at a time, and
\* all if there are no more.
LEMMA Started ==
  ASSUME NEW todo \in SUBSET Messages, NEW n \in Nat, NEW first \in Starts(todo, n)
  PROVE  /\ first \in SUBSET todo /\ first \in SUBSET Messages
         /\ Cardinality(first) \in 0..n
         /\ Cardinality(todo) <= n => first = todo
<1>1. /\ first \in SUBSET todo
      /\ Cardinality(first) = (IF Cardinality(todo) < n THEN Cardinality(todo) ELSE n)
  BY DEF Starts
<1>2. Cardinality(todo) \in Nat /\ IsFiniteSet(todo) /\ first \in SUBSET Messages
  BY <1>1, MessagesFinite
<1>3. Cardinality(first) \in 0..n
  BY <1>1, <1>2
<1>4. ASSUME Cardinality(todo) <= n PROVE first = todo
  <2>1. Cardinality(first) = Cardinality(todo)
    BY <1>1, <1>2, <1>4
  <2> QED
    BY <1>1, <1>2, <2>1, FS_Subset
<1> QED
  BY <1>1, <1>2, <1>3, <1>4

\* The calls for a set of messages: of all whose stream has a handler, the last one
\* being the last of its stream.
LEMMA Calls ==
  ASSUME LogRecord, NEW messages \in SUBSET Messages,
         log.handled \in [Streams -> [1..MaxMessages -> Nat]], log.last \in [Streams -> Nat]
  PROVE  /\ Call(messages).handled \in [Streams -> [1..MaxMessages -> Nat]]
         /\ Call(messages).last \in [Streams -> Nat]
         /\ Call(messages).loops = log.loops /\ Call(messages).faults = log.faults
         /\ Call(messages).since = log.since
         /\ Call(messages) = [loops |-> log.loops, faults |-> log.faults,
              handled |-> Call(messages).handled, last |-> Call(messages).last,
              since |-> log.since]
         /\ \A s \in Streams, i \in 1..MaxMessages :
              /\ log.handled[s][i] > 0 => Call(messages).handled[s][i] > 0
              /\ Handles(s) /\ <<s, i>> \in messages => Call(messages).handled[s][i] > 0
         /\ \A s \in Streams : (\A i \in 1..MaxMessages : <<s, i>> \notin messages)
              => Call(messages).last[s] = log.last[s]
         /\ \A s \in Streams, i \in 1..MaxMessages :
              /\ Handles(s) /\ <<s, i>> \in messages
              /\ \A j \in 1..MaxMessages : <<s, j>> \in messages => j <= i
              => Call(messages).last[s] = i
<1> DEFINE called == {m \in messages : Handles(m[1])}
           upTo(s) == {m[2] : m \in {n \in called : n[1] = s}}
           largest(s) == CHOOSE i \in upTo(s) : \A j \in upTo(s) : j <= i
           h == [s \in Streams |-> [i \in 1..MaxMessages |->
                  log.handled[s][i] + (IF <<s, i>> \in called THEN 1 ELSE 0)]]
           x == [s \in Streams |-> IF upTo(s) = {} THEN log.last[s] ELSE largest(s)]
           c == Call(messages)
<1>1. c = [log EXCEPT !.handled = h, !.last = x]
  BY DEF Call
<1>2. \A s : upTo(s) \in SUBSET (1..MaxMessages)
  BY DEF Messages
<1>3. \A s \in Streams, i \in 1..MaxMessages :
        i \in upTo(s) <=> Handles(s) /\ <<s, i>> \in messages
  <2> SUFFICES ASSUME NEW s \in Streams, NEW i \in 1..MaxMessages
               PROVE  i \in upTo(s) <=> Handles(s) /\ <<s, i>> \in messages
    OBVIOUS
  <2>1. <<s, i>>[1] = s /\ <<s, i>>[2] = i
    OBVIOUS
  <2>2. ASSUME i \in upTo(s) PROVE Handles(s) /\ <<s, i>> \in messages
    <3>1. PICK m \in messages : Handles(m[1]) /\ m[1] = s /\ m[2] = i
      BY <2>2
    <3>2. m = <<s, i>>
      BY <3>1 DEF Messages
    <3> QED
      BY <3>1, <3>2
  <2>3. ASSUME Handles(s), <<s, i>> \in messages PROVE i \in upTo(s)
    BY <2>1, <2>3
  <2> QED
    BY <2>2, <2>3
<1>4. ASSUME NEW s, upTo(s) # {}
      PROVE  largest(s) \in upTo(s) /\ \A j \in upTo(s) : j <= largest(s)
  <2> HIDE DEF upTo
  <2>1. \E i \in upTo(s) : \A j \in upTo(s) : j <= i
    BY <1>2, <1>4, LastMessage
  <2> QED
    BY <2>1
<1>5. \A s \in Streams, i \in 1..MaxMessages :
        /\ log.handled[s][i] \in Nat
        /\ h[s][i] \in Nat
        /\ log.handled[s][i] > 0 => h[s][i] > 0
        /\ Handles(s) /\ <<s, i>> \in messages => h[s][i] > 0
  <2> SUFFICES ASSUME NEW s \in Streams, NEW i \in 1..MaxMessages
               PROVE  /\ log.handled[s][i] \in Nat
                      /\ h[s][i] \in Nat
                      /\ log.handled[s][i] > 0 => h[s][i] > 0
                      /\ Handles(s) /\ <<s, i>> \in messages => h[s][i] > 0
    OBVIOUS
  <2>1. log.handled[s][i] \in Nat
    OBVIOUS
  <2>2. h[s][i] = log.handled[s][i] + (IF <<s, i>> \in called THEN 1 ELSE 0)
    OBVIOUS
  <2>3. Handles(s) /\ <<s, i>> \in messages => <<s, i>> \in called
    OBVIOUS
  <2> HIDE DEF h, called
  <2> QED
    BY <2>1, <2>2, <2>3
<1>6. h \in [Streams -> [1..MaxMessages -> Nat]]
  BY <1>5
<1> HIDE DEF called, upTo, largest, h
<1>7. x \in [Streams -> Nat]
  <2>1. \A s \in Streams : largest(s) \in Nat \/ upTo(s) = {}
    BY <1>2, <1>4
  <2> QED
    BY <2>1
<1>8. \A s \in Streams : (\A i \in 1..MaxMessages : <<s, i>> \notin messages)
        => x[s] = log.last[s]
  BY <1>2, <1>3
<1>9. ASSUME NEW s \in Streams, NEW i \in 1..MaxMessages, Handles(s), <<s, i>> \in messages,
             \A j \in 1..MaxMessages : <<s, j>> \in messages => j <= i
      PROVE  x[s] = i
  <2>1. i \in upTo(s) /\ \A j \in upTo(s) : j <= i
    BY <1>2, <1>3, <1>9
  <2>2. largest(s) \in upTo(s) /\ i <= largest(s) /\ largest(s) <= i
    BY <1>4, <2>1
  <2>3. largest(s) = i
    BY <1>2, <2>1, <2>2
  <2> QED
    BY <2>1, <2>3
<1> HIDE DEF x
<1>10. c = [loops |-> log.loops, faults |-> log.faults, handled |-> h, last |-> x,
            since |-> log.since]
  BY <1>1 DEF LogRecord
<1> HIDE DEF c
<1>11. /\ c.handled = h /\ c.last = x /\ c.loops = log.loops /\ c.faults = log.faults
       /\ c.since = log.since
  BY <1>10
<1> QED
  BY <1>5, <1>6, <1>7, <1>8, <1>9, <1>10, <1>11 DEF c

-----------------------------------------------------------------------------
(* The types.                                                               *)

LoopRecords == [state : {"none", "reading", "emitting", "ended"},
                todo : SUBSET Messages, running : 0..Concurrency]
UnblockRecords == [loop : Loops \cup {0}, done : BOOLEAN]

LogTypes ==
  /\ log.loops \in 0..MaxLoops /\ log.faults \in 0..MaxFaults
  /\ log.handled \in [Streams -> [1..MaxMessages -> Nat]]
  /\ log.last \in [Streams -> Nat] /\ log.since \in [Streams -> Nat]

\* What a loop does between its calls.
LEMMA AtType ==
  ASSUME NEW state \in {"none", "reading", "ended"}
  PROVE  /\ At(state) \in LoopRecords
         /\ At(state).state = state /\ At(state).todo = {} /\ At(state).running = 0
BY ConcurrencyAssumption DEF At, LoopRecords

\* readStream() either sends a read or ends its loop.
LEMMA ReadStreamLoop ==
  ASSUME NEW l \in Loops, NEW w, NEW c, readStream(l, w, c),
         loop \in [Loops -> LoopRecords], active \in BOOLEAN
  PROVE  /\ loop' \in [Loops -> LoopRecords] /\ active' \in BOOLEAN
         /\ \A k \in Loops : k # l => loop'[k] = loop[k]
         /\ loop'[l].todo = {}
         /\ \/ wire' = w /\ loop'[l].state = "ended"
            \/ wire' = Append(w, NewRead(l, c)) /\ loop'[l].state = "reading"
<1>1. \/ wire' = w /\ loop' = [loop EXCEPT ![l] = At("ended")]
      \/ wire' = Append(w, NewRead(l, c)) /\ loop' = [loop EXCEPT ![l] = At("reading")]
  BY DEF readStream, NewRead
<1>2. active' \in BOOLEAN
  <2>1. active' = (KnowsId(status) \/ active)
    BY DEF readStream
  <2> QED
    BY <2>1 DEF KnowsId
<1>3. /\ At("ended") \in LoopRecords /\ At("ended").state = "ended" /\ At("ended").todo = {}
      /\ At("reading") \in LoopRecords /\ At("reading").state = "reading"
      /\ At("reading").todo = {}
  BY AtType
<1> QED
  BY <1>1, <1>2, <1>3

\* A subscription starts its messages anew.
LEMMA SubscribeLog ==
  ASSUME LogRecord, LogTypes, NEW s \in Streams, Subscribe(s)
  PROVE  /\ LogTypes' /\ log'.loops = log.loops + 1
         /\ log'.last[s] = 0 /\ log'.since = log.since
         /\ \A t \in Streams : t # s =>
              log'.handled[t] = log.handled[t] /\ log'.last[t] = log.last[t]
<1> DEFINE z == [i \in 1..MaxMessages |-> 0]
           h == [log.handled EXCEPT ![s] = z]
           x == [log.last EXCEPT ![s] = 0]
<1>1. log' = [loops |-> log.loops + 1, faults |-> log.faults, handled |-> h, last |-> x,
              since |-> log.since]
  BY DEF Subscribe, LogRecord
<1>2. /\ log.loops + 1 \in 0..MaxLoops /\ log.faults \in 0..MaxFaults
      /\ log.handled \in [Streams -> [1..MaxMessages -> Nat]]
      /\ log.last \in [Streams -> Nat] /\ log.since \in [Streams -> Nat]
  BY MaxLoopsAssumption DEF LogTypes, Subscribe
<1>3. z \in [1..MaxMessages -> Nat]
  OBVIOUS
<1> HIDE DEF z
<1>4. h \in [Streams -> [1..MaxMessages -> Nat]] /\ x \in [Streams -> Nat] /\ x[s] = 0
  BY <1>2, <1>3
<1>5. \A t \in Streams : t # s => h[t] = log.handled[t] /\ x[t] = log.last[t]
  BY <1>2
<1> HIDE DEF h, x
<1>6. /\ log'.loops = log.loops + 1 /\ log'.faults = log.faults /\ log'.handled = h
      /\ log'.last = x /\ log'.since = log.since
  BY <1>1
<1> QED
  BY <1>2, <1>4, <1>5, <1>6 DEF LogTypes

\* A reply with messages, and what its loop does then.
LEMMA ReplyCases ==
  ASSUME CursorInv, Reply
  PROVE  LET r == Head(wire) IN
         /\ wire # <<>> /\ r = wire[1] /\ 1 \in DOMAIN wire /\ r \in Reads
         /\ r.state = "replied" /\ r.loop \in Loops
         /\ UNCHANGED <<status, stream, unblocks>>
         /\ \/ readStream(r.loop, Tail(wire), subs) /\ UNCHANGED <<subs, log>>
            \/ \E messages \in SUBSET Messages :
                 /\ \A s \in Streams, i \in 1..MaxMessages :
                      <<s, i>> \in messages <=>
                        s \in Replied(r) /\ i > r.from[s] /\ i <= r.upto[s]
                 /\ active' = FALSE /\ wire' = Tail(wire)
                 /\ subs' = [s \in Streams |->
                               IF s \in Replied(r) THEN r.upto[s] ELSE subs[s]]
                 /\ \E first \in Starts(messages, Concurrency) :
                      /\ loop' = [loop EXCEPT ![r.loop] =
                                    [state |-> "emitting", todo |-> messages \ first,
                                     running |-> Cardinality(first)]]
                      /\ log' = [Call(first) EXCEPT
                           !.since = [s \in Streams |->
                              IF s \in Replied(r) /\ Latest \in {r.offset[s], subs[s]}
                              THEN r.from[s] ELSE @[s]]]
<1> DEFINE r == Head(wire)
           messages == {m \in Replied(r) \X (1..MaxMessages) :
                          m[2] > r.from[m[1]] /\ m[2] <= r.upto[m[1]]}
<1>1. /\ wire # <<>> /\ wire \in Seq(Reads) /\ r.state = "replied"
      /\ UNCHANGED <<status, stream, unblocks>>
  BY DEF Reply, CursorInv, WireInv
<1>2. r = wire[1] /\ 1 \in DOMAIN wire /\ r \in Reads
  BY <1>1
<1>3. r.loop \in Loops
  BY <1>2 DEF Reads
<1>4. messages \in SUBSET Messages
  BY DEF Messages, Replied, Subscribed
<1>5. \A s \in Streams, i \in 1..MaxMessages :
        <<s, i>> \in messages <=> s \in Replied(r) /\ i > r.from[s] /\ i <= r.upto[s]
  OBVIOUS
<1>6. \A s \in Streams : NextCursor(r, s) = r.upto[s]
  BY DEF NextCursor
<1>7. IF messages = {}
      THEN readStream(r.loop, Tail(wire), subs) /\ UNCHANGED <<subs, log>>
      ELSE /\ active' = FALSE /\ wire' = Tail(wire)
           /\ subs' = [s \in Streams |-> IF s \in Replied(r) THEN NextCursor(r, s) ELSE subs[s]]
           /\ \E first \in Starts(messages, Concurrency) :
                /\ loop' = [loop EXCEPT ![r.loop] =
                              [state |-> "emitting", todo |-> messages \ first,
                               running |-> Cardinality(first)]]
                /\ log' = [Call(first) EXCEPT
                     !.since = [s \in Streams |->
                        IF s \in Replied(r) /\ Latest \in {r.offset[s], subs[s]}
                        THEN r.from[s] ELSE @[s]]]
  BY DEF Reply
<1> HIDE DEF r, messages
<1>8. CASE messages = {}
  BY <1>1, <1>2, <1>3, <1>7, <1>8 DEF r
<1>9. CASE messages # {}
  <2>1. subs' = [s \in Streams |-> IF s \in Replied(r) THEN r.upto[s] ELSE subs[s]]
    BY <1>6, <1>7, <1>9
  <2> QED
    BY <1>1, <1>2, <1>3, <1>4, <1>5, <1>7, <1>9, <2>1 DEF r
<1> QED
  BY <1>8, <1>9

-----------------------------------------------------------------------------
(* The offsets of the reads.                                                *)

\* Where a read begins: at its offset, or at the end that the stream had when '$' was
\* executed; what it brings is later.
Begins(w, end) ==
  \A k \in DOMAIN w : \A s \in Streams :
    /\ IF w[k].offset[s] = Latest
         THEN w[k].from[s] \in Nat \/ (w[k].state = "sent" /\ w[k].from[s] = Latest)
         ELSE w[k].from[s] = w[k].offset[s]
    /\ w[k].from[s] \in Nat =>
         /\ w[k].from[s] <= end[s]
         /\ Brings(w[k], s) => w[k].from[s] < w[k].upto[s]

\* An offset is a cursor of some time: it is not beyond the cursor, nor beyond what an
\* earlier reply brings, even if the subscription is another one by now.
Behind(w, cursors, end) ==
  \A k \in DOMAIN w : \A s \in Streams : w[k].offset[s] \in Nat =>
    /\ w[k].offset[s] <= end[s]
    /\ cursors[s] \in Nat => w[k].offset[s] <= cursors[s]
    /\ \A j \in DOMAIN w : j < k /\ Brings(w[j], s) => w[k].offset[s] <= w[j].upto[s]

OffsetInv == Begins(wire, stream) /\ Behind(wire, subs, stream)

\* A read is sent with the cursors of the moment.
LEMMA AppendOffsets ==
  ASSUME NEW w, NEW held \in [Streams -> Cursors], NEW end, WireInv(w, held, end),
         Begins(w, end), Behind(w, held, end),
         \A s \in Streams : held[s] \in Nat => held[s] <= end[s],
         NEW l \in Loops
  PROVE  LET v == Append(w, NewRead(l, held)) IN Begins(v, end) /\ Behind(v, held, end)
<1> DEFINE r == NewRead(l, held)
           v == Append(w, r)
<1>1. w \in Seq(Reads) /\ r \in Reads
  BY NewReadBrings DEF WireInv
<1>2. /\ DOMAIN w = 1..Len(w) /\ Len(w) \in Nat
      /\ DOMAIN v = 1..(Len(w) + 1)
      /\ \A k \in DOMAIN w : v[k] = w[k]
      /\ v[Len(w) + 1] = r
  BY <1>1
<1>3. /\ r.state = "sent" /\ r.offset = held /\ r.from = held
      /\ \A s \in Streams : ~Brings(r, s)
  BY NewReadBrings DEF NewRead
<1> HIDE DEF r, v
<1>4. \A k \in DOMAIN v : (k \in DOMAIN w /\ v[k] = w[k]) \/ v[k] = r
  BY <1>2
<1>5. Begins(v, end)
  BY <1>3, <1>4 DEF Begins
<1>6. Behind(v, held, end)
  <2> SUFFICES ASSUME NEW k \in DOMAIN v, NEW s \in Streams, v[k].offset[s] \in Nat
               PROVE  /\ v[k].offset[s] <= end[s]
                      /\ held[s] \in Nat => v[k].offset[s] <= held[s]
                      /\ \A j \in DOMAIN v : j < k /\ Brings(v[j], s)
                           => v[k].offset[s] <= v[j].upto[s]
    BY DEF Behind
  <2>1. CASE k \in DOMAIN w /\ v[k] = w[k]
    BY <1>3, <1>4, <2>1 DEF Behind
  <2>2. CASE v[k] = r
    BY <1>3, <1>4, <2>2 DEF WireInv, AheadOfCursor
  <2> QED
    BY <1>4, <2>1, <2>2
<1> QED
  BY <1>5, <1>6 DEF r, v

\* The oldest read is taken off.
LEMMA TailOffsets ==
  ASSUME NEW w \in Seq(Reads), w # <<>>, NEW held, NEW end, Begins(w, end), Behind(w, held, end)
  PROVE  Begins(Tail(w), end) /\ Behind(Tail(w), held, end)
<1> DEFINE v == Tail(w)
<1>1. \A k \in DOMAIN v : k \in Nat /\ k + 1 \in DOMAIN w /\ v[k] = w[k + 1]
  OBVIOUS
<1> HIDE DEF v
<1>2. \A j, k \in DOMAIN v : j < k => j + 1 < k + 1
  BY <1>1
<1>3. Begins(v, end)
  BY <1>1 DEF Begins
<1>4. Behind(v, held, end)
  BY <1>1, <1>2 DEF Behind
<1> QED
  BY <1>3, <1>4 DEF v

\* readStream() keeps the offsets in order.
LEMMA ReadStreamOffsets ==
  ASSUME NEW w, NEW held \in [Streams -> Cursors], NEW end, WireInv(w, held, end),
         Begins(w, end), Behind(w, held, end),
         \A s \in Streams : held[s] \in Nat => held[s] <= end[s],
         NEW l \in Loops, readStream(l, w, held)
  PROVE  Begins(wire', end) /\ Behind(wire', held, end)
<1>1. wire' = w \/ wire' = Append(w, NewRead(l, held))
  BY DEF readStream, NewRead
<1> QED
  BY <1>1, AppendOffsets

\* Blocked reads end: where they began stays.
LEMMA WithoutMessagesOffsets ==
  ASSUME WireInv(wire, subs, stream), OffsetInv
  PROVE  Begins(WithoutMessages, stream) /\ Behind(WithoutMessages, subs, stream)
<1> DEFINE v == WithoutMessages
<1>1. wire \in [1..Len(wire) -> Reads] /\ DOMAIN wire = 1..Len(wire)
  BY DEF WireInv
<1>2. \A r \in Reads :
        LET e == [r EXCEPT !.state = "replied"] IN
        e.from = r.from /\ e.upto = r.upto /\ e.offset = r.offset /\ e.state = "replied"
  BY DEF Reads
<1>3. /\ DOMAIN v = DOMAIN wire
      /\ \A k \in DOMAIN v :
           /\ v[k].from = wire[k].from /\ v[k].upto = wire[k].upto
           /\ v[k].offset = wire[k].offset
           /\ v[k].state = "sent" <=> wire[k].state = "sent"
  BY <1>1, <1>2 DEF WithoutMessages
<1> HIDE DEF v
<1>4. \A k \in DOMAIN v : \A s \in Streams : Brings(v[k], s) <=> Brings(wire[k], s)
  BY <1>3 DEF Brings
<1>5. Begins(v, stream)
  BY <1>3, <1>4 DEF OffsetInv, Begins
<1>6. Behind(v, subs, stream)
  BY <1>3, <1>4 DEF OffsetInv, Behind
<1> QED
  BY <1>5, <1>6 DEF v

\* A read is executed: '$' becomes the end of the stream.
LEMMA ExecuteReadOffsets ==
  ASSUME CursorInv, OffsetInv, ExecuteRead
  PROVE  OffsetInv'
<1>1. PICK k \in DOMAIN wire :
        LET from == [s \in Streams |-> IF wire[k].offset[s] = Latest THEN stream[s]
                                       ELSE wire[k].offset[s]]
            ready == {s \in Streams : from[s] # NoSub /\ from[s] < stream[s]}
        IN wire' = [wire EXCEPT
             ![k].state = IF ready = {} THEN "blocked" ELSE "replied",
             ![k].from = from,
             ![k].upto = [s \in Streams |-> IF s \in ready THEN stream[s] ELSE from[s]]]
  BY DEF ExecuteRead
<1> DEFINE from == [s \in Streams |-> IF wire[k].offset[s] = Latest THEN stream[s]
                                      ELSE wire[k].offset[s]]
           ready == {s \in Streams : from[s] # NoSub /\ from[s] < stream[s]}
           upto == [s \in Streams |-> IF s \in ready THEN stream[s] ELSE from[s]]
           state == IF ready = {} THEN "blocked" ELSE "replied"
           e == [wire[k] EXCEPT !.state = state, !.from = from, !.upto = upto]
           v == wire'
<1>2. /\ wire \in Seq(Reads) /\ wire[k] \in Reads
      /\ wire \in [1..Len(wire) -> Reads] /\ Len(wire) \in Nat
      /\ DOMAIN wire = 1..Len(wire) /\ k \in 1..Len(wire)
  BY DEF CursorInv, WireInv
<1>3. v = [wire EXCEPT ![k] = e]
  BY <1>1, <1>2 DEF Reads
<1>4. stream \in [Streams -> Nat] /\ UNCHANGED <<stream, subs>>
  BY DEF CursorInv, ExecuteRead
<1>5. /\ \A s \in Streams : from[s] = IF wire[k].offset[s] = Latest THEN stream[s]
                                      ELSE wire[k].offset[s]
      /\ \A s \in Streams :
           upto[s] # from[s] => upto[s] = stream[s] /\ from[s] < stream[s]
  OBVIOUS
<1> HIDE DEF from, ready, upto, state
<1>6. e.offset = wire[k].offset /\ e.from = from /\ e.upto = upto
  BY <1>2 DEF Reads
<1> HIDE DEF e
<1>7. /\ DOMAIN v = DOMAIN wire /\ v[k] = e
      /\ \A j \in DOMAIN v : j # k => v[j] = wire[j]
  BY <1>2, <1>3
<1> HIDE DEF v
<1>8. \A j \in DOMAIN v : v[j].offset = wire[j].offset
  BY <1>6, <1>7
<1>9. Begins(v, stream)
  <2>1. \A s \in Streams : stream[s] \in Nat
    BY <1>4
  <2>2. \A s \in Streams : wire[k].offset[s] \in Nat => wire[k].offset[s] <= stream[s]
    BY DEF OffsetInv, Behind
  <2>3. \A s \in Streams : from[s] \in Nat => from[s] <= stream[s]
    BY <1>5, <2>1, <2>2
  <2>4. \A s \in Streams : Brings(e, s) => from[s] < e.upto[s]
    BY <1>5, <1>6 DEF Brings
  <2>5. \A j \in DOMAIN v : j = k \/ (j \in DOMAIN wire /\ v[j] = wire[j])
    BY <1>7
  <2> QED
    BY <1>5, <1>6, <1>7, <2>1, <2>3, <2>4, <2>5 DEF OffsetInv, Begins
<1>10. \A j \in DOMAIN v : \A s \in Streams : Brings(v[j], s) =>
        (j # k /\ Brings(wire[j], s) /\ v[j].upto[s] = wire[j].upto[s])
        \/ v[j].upto[s] = stream[s]
  BY <1>5, <1>6, <1>7 DEF Brings
<1>11. Behind(v, subs, stream)
  <2> SUFFICES ASSUME NEW i \in DOMAIN v, NEW s \in Streams, v[i].offset[s] \in Nat
               PROVE  /\ v[i].offset[s] <= stream[s]
                      /\ subs[s] \in Nat => v[i].offset[s] <= subs[s]
                      /\ \A j \in DOMAIN v : j < i /\ Brings(v[j], s)
                           => v[i].offset[s] <= v[j].upto[s]
    BY DEF Behind
  <2>1. /\ wire[i].offset[s] \in Nat /\ i \in DOMAIN wire
        /\ v[i].offset[s] = wire[i].offset[s]
    BY <1>7, <1>8
  <2>2. /\ wire[i].offset[s] <= stream[s]
        /\ subs[s] \in Nat => wire[i].offset[s] <= subs[s]
        /\ \A j \in DOMAIN wire : j < i /\ Brings(wire[j], s)
             => wire[i].offset[s] <= wire[j].upto[s]
    BY <2>1 DEF OffsetInv, Behind
  <2> QED
    BY <1>7, <1>10, <2>1, <2>2
<1> QED
  BY <1>4, <1>9, <1>11 DEF OffsetInv, v

\* A message is published: streams and what is brought of them only grow.
LEMMA PublishOffsets ==
  ASSUME CursorInv, OffsetInv, NEW s \in Streams, Publish(s)
  PROVE  OffsetInv'
<1> DEFINE v == wire'
           served(k) == wire[k].state = "blocked" /\ wire[k].from[s] # NoSub
<1>1. /\ wire \in Seq(Reads)
      /\ wire \in [1..Len(wire) -> Reads] /\ DOMAIN wire = 1..Len(wire)
      /\ stream \in [Streams -> Nat]
  BY DEF CursorInv, WireInv
<1>2. /\ stream' = [stream EXCEPT ![s] = @ + 1] /\ UNCHANGED subs
      /\ v = [k \in DOMAIN wire |->
                IF served(k)
                THEN [wire[k] EXCEPT !.state = "replied", !.upto[s] = stream'[s]]
                ELSE wire[k]]
  BY DEF Publish
<1>3. /\ \A t \in Streams :
           stream[t] \in Nat /\ stream'[t] \in Nat /\ stream[t] <= stream'[t]
      /\ stream[s] < stream'[s]
  <2>1. stream' = [stream EXCEPT ![s] = @ + 1]
    BY <1>2
  <2>2. \A t \in Streams : stream'[t] = IF t = s THEN stream[t] + 1 ELSE stream[t]
    BY <1>1, <2>1
  <2>3. \A t \in Streams : stream[t] \in Nat
    BY <1>1
  <2> QED
    BY <2>2, <2>3
<1>4. ASSUME NEW k \in DOMAIN wire, served(k)
      PROVE  /\ v[k].state = "replied" /\ v[k].from = wire[k].from
             /\ v[k].offset = wire[k].offset
             /\ v[k].upto = [wire[k].upto EXCEPT ![s] = stream'[s]]
  <2>1. v[k] = [wire[k] EXCEPT !.state = "replied",
                               !.upto = [wire[k].upto EXCEPT ![s] = stream'[s]]]
    BY <1>1, <1>2, <1>4 DEF Reads
  <2>2. wire[k] \in Reads
    BY <1>1
  <2> QED
    BY <2>1, <2>2 DEF Reads
<1>5. \A k \in DOMAIN wire : ~served(k) => v[k] = wire[k]
  BY <1>2
<1>6. DOMAIN v = DOMAIN wire
  BY <1>2
<1>7. ASSUME NEW k \in DOMAIN wire, NEW t \in Streams, Brings(v[k], t)
      PROVE  (t = s /\ v[k].upto[t] = stream'[t])
             \/ (Brings(wire[k], t) /\ v[k].upto[t] = wire[k].upto[t])
  <2>1. CASE served(k)
    <3>1. wire[k].upto \in [Streams -> Cursors]
      BY <1>1 DEF Reads
    <3> QED
      BY ZenonT(60), <1>4, <1>7, <2>1, <3>1 DEF Brings
  <2>2. CASE ~served(k)
    BY <1>5, <1>7, <2>2
  <2> QED
    BY <2>1, <2>2
<1> HIDE DEF v
<1>8. \A k \in DOMAIN v : /\ v[k].offset = wire[k].offset /\ v[k].from = wire[k].from
                          /\ v[k].state = "sent" <=> wire[k].state = "sent"
  BY <1>4, <1>5, <1>6
<1> HIDE DEF served
<1>9. Begins(v, stream')
  <2> SUFFICES ASSUME NEW k \in DOMAIN v, NEW t \in Streams, v[k].from[t] \in Nat
               PROVE  /\ v[k].from[t] <= stream'[t]
                      /\ Brings(v[k], t) => v[k].from[t] < v[k].upto[t]
    BY <1>6, <1>8 DEF OffsetInv, Begins
  <2>1. /\ k \in DOMAIN wire /\ v[k].from[t] = wire[k].from[t]
        /\ wire[k].from[t] \in Nat
    BY <1>6, <1>8
  <2>2. /\ wire[k].from[t] <= stream[t]
        /\ Brings(wire[k], t) => wire[k].from[t] < wire[k].upto[t]
    BY <2>1 DEF OffsetInv, Begins
  <2> QED
    BY <1>3, <1>7, <2>1, <2>2
<1>10. Behind(v, subs, stream')
  <2> SUFFICES ASSUME NEW i \in DOMAIN v, NEW t \in Streams, v[i].offset[t] \in Nat
               PROVE  /\ v[i].offset[t] <= stream'[t]
                      /\ subs[t] \in Nat => v[i].offset[t] <= subs[t]
                      /\ \A j \in DOMAIN v : j < i /\ Brings(v[j], t)
                           => v[i].offset[t] <= v[j].upto[t]
    BY DEF Behind
  <2>1. /\ wire[i].offset[t] \in Nat /\ i \in DOMAIN wire
        /\ v[i].offset[t] = wire[i].offset[t]
    BY <1>6, <1>8
  <2>2. /\ wire[i].offset[t] <= stream[t]
        /\ subs[t] \in Nat => wire[i].offset[t] <= subs[t]
        /\ \A j \in DOMAIN wire : j < i /\ Brings(wire[j], t)
             => wire[i].offset[t] <= wire[j].upto[t]
    BY <2>1 DEF OffsetInv, Behind
  <2>3. wire[i].offset[t] <= stream'[t]
    BY <1>3, <2>1, <2>2
  <2> QED
    BY <1>6, <1>7, <2>1, <2>2, <2>3
<1> QED
  BY <1>2, <1>9, <1>10 DEF OffsetInv, v

\* The initial state has no reads.
LEMMA OffsetInit == Init => OffsetInv
BY DEF Init, OffsetInv, Begins, Behind

\* Some subscriptions lose their cursor.
LEMMA FewerCursors ==
  ASSUME CursorInv, OffsetInv, NEW c, \A s \in Streams : c[s] \in Nat => c[s] = subs[s]
  PROVE  WireInv(wire, c, stream) /\ Behind(wire, c, stream)
<1>1. \A k \in DOMAIN wire : \A s \in Streams :
        Brings(wire[k], s) /\ c[s] \in Nat => c[s] <= wire[k].upto[s]
  BY DEF CursorInv, WireInv, AheadOfCursor
<1>2. WireInv(wire, c, stream)
  BY <1>1, OtherCursors DEF CursorInv
<1>3. Behind(wire, c, stream)
  BY DEF OffsetInv, Behind
<1> QED
  BY <1>2, <1>3

\* A new subscription has the offset '$'.
LEMMA SubscribeOffsets ==
  ASSUME CursorInv, OffsetInv, NEW s \in Streams, Subscribe(s)
  PROVE  OffsetInv'
<1>1. /\ subs' = [subs EXCEPT ![s] = Latest] /\ UNCHANGED stream
      /\ subs \in [Streams -> Cursors]
  BY DEF Subscribe, CursorInv
<1>2. /\ subs' \in [Streams -> Cursors]
      /\ \A t \in Streams : subs'[t] \in Nat => subs'[t] = subs[t]
  BY <1>1, OffsetAssumption DEF Cursors
<1>3. WireInv(wire, subs', stream) /\ Behind(wire, subs', stream)
  BY <1>2, FewerCursors
<1>4. \A t \in Streams : subs'[t] \in Nat => subs'[t] <= stream[t]
  BY <1>2 DEF CursorInv
<1>5. wire' = wire \/ (log.loops + 1 \in Loops /\ readStream(log.loops + 1, wire, subs'))
  BY MaxLoopsAssumption DEF Subscribe, CursorInv, LogRecord, Loops
<1>6. Begins(wire', stream) /\ Behind(wire', subs', stream)
  BY <1>2, <1>3, <1>4, <1>5, ReadStreamOffsets DEF OffsetInv
<1> QED
  BY <1>1, <1>6 DEF OffsetInv

\* A reply takes the cursor to where the later reads are not beyond.
LEMMA ReplyOffsets ==
  ASSUME CursorInv, OffsetInv, Reply
  PROVE  OffsetInv'
<1> DEFINE r == Head(wire)
           v == Tail(wire)
<1>1. /\ wire # <<>> /\ r = wire[1] /\ 1 \in DOMAIN wire /\ r.loop \in Loops
      /\ UNCHANGED stream
      /\ \/ readStream(r.loop, v, subs) /\ UNCHANGED subs
         \/ /\ wire' = v
            /\ subs' = [s \in Streams |-> IF s \in Replied(r) THEN r.upto[s] ELSE subs[s]]
  BY ReplyCases
<1>2. /\ wire \in Seq(Reads) /\ WireInv(wire, subs, stream) /\ subs \in [Streams -> Cursors]
      /\ \A s \in Streams : subs[s] \in Nat => subs[s] <= stream[s]
  BY DEF CursorInv, WireInv
<1>3. WireInv(v, subs, stream) /\ Begins(v, stream) /\ Behind(v, subs, stream)
  BY <1>1, <1>2, TailWire, TailOffsets DEF OffsetInv
<1>4. \A k \in DOMAIN v : k + 1 \in DOMAIN wire /\ v[k] = wire[k + 1] /\ 1 < k + 1
  BY <1>1, <1>2
<1> HIDE DEF r, v
<1>5. CASE readStream(r.loop, v, subs) /\ UNCHANGED subs
  BY <1>1, <1>2, <1>3, <1>5, ReadStreamOffsets DEF OffsetInv
<1>6. CASE /\ wire' = v
           /\ subs' = [s \in Streams |-> IF s \in Replied(r) THEN r.upto[s] ELSE subs[s]]
  <2>1. Behind(v, subs', stream)
    <3> SUFFICES ASSUME NEW k \in DOMAIN v, NEW s \in Streams, v[k].offset[s] \in Nat,
                        subs'[s] \in Nat
                 PROVE  v[k].offset[s] <= subs'[s]
      BY <1>3 DEF Behind
    <3>1. CASE s \in Replied(r)
      <4>1. Brings(wire[1], s) /\ subs'[s] = wire[1].upto[s]
        BY <1>1, <1>6, <3>1 DEF Replied, Brings
      <4> QED
        BY <1>1, <1>4, <4>1 DEF OffsetInv, Behind
    <3>2. CASE s \notin Replied(r)
      BY <1>3, <1>6, <3>2 DEF Behind
    <3> QED
      BY <3>1, <3>2
  <2> QED
    BY <1>1, <1>3, <1>6, <2>1 DEF OffsetInv
<1> QED
  BY <1>1, <1>5, <1>6

\* Every step keeps the offsets in order.
LEMMA OffsetStep ==
  ASSUME CursorInv, OffsetInv, [Next]_vars
  PROVE  OffsetInv'
<1>1. ASSUME UNCHANGED <<wire, subs, stream>> PROVE OffsetInv'
  BY <1>1 DEF OffsetInv
<1>2. /\ wire \in Seq(Reads) /\ WireInv(wire, subs, stream) /\ subs \in [Streams -> Cursors]
      /\ \A s \in Streams : subs[s] \in Nat => subs[s] <= stream[s]
  BY DEF CursorInv, WireInv
<1>3. CASE Connected \/ Disconnect \/ UNCHANGED vars
  BY <1>1, <1>3 DEF Connected, Disconnect, vars
<1>4. ASSUME NEW s \in Streams, Unsubscribe(s)
      PROVE  OffsetInv'
  <2>1. /\ \A t \in Streams : subs'[t] \in Nat => subs'[t] = subs[t]
        /\ UNCHANGED <<wire, stream>>
    BY <1>2, <1>4, OffsetAssumption DEF Unsubscribe
  <2>2. Behind(wire, subs', stream)
    BY <2>1, FewerCursors
  <2> QED
    BY <2>1, <2>2 DEF OffsetInv
<1>5. CASE Unblocked
  <2>1. UNCHANGED <<subs, stream>>
    BY <1>5 DEF Unblocked
  <2>2. CASE Head(unblocks).loop \in Loops
    <3>1. readStream(Head(unblocks).loop, wire, subs)
      BY <1>5, <2>2 DEF Unblocked
    <3> QED
      BY <1>2, <2>1, <2>2, <3>1, ReadStreamOffsets DEF OffsetInv
  <2>3. CASE Head(unblocks).loop \notin Loops
    <3>1. wire' = <<>>
      BY <1>5, <2>3 DEF Unblocked
    <3> QED
      BY <3>1 DEF OffsetInv, Begins, Behind
  <2> QED
    BY <2>2, <2>3
<1>6. ASSUME NEW l \in Loops, Handled(l)
      PROVE  OffsetInv'
  <2>1. UNCHANGED <<subs, stream>> /\ (wire' = wire \/ readStream(l, wire, subs))
    BY <1>6 DEF Handled
  <2> QED
    BY <1>1, <1>2, <2>1, ReadStreamOffsets DEF OffsetInv
<1>7. CASE ReadFails
  <2>1. wire # <<>> /\ wire' = Tail(wire) /\ UNCHANGED <<subs, stream>>
    BY <1>7 DEF ReadFails
  <2> QED
    BY <1>2, <2>1, TailOffsets DEF OffsetInv
<1>8. CASE Timeout \/ ExecuteUnblock
  <2>1. wire' = WithoutMessages /\ UNCHANGED <<stream, subs>>
    BY <1>8 DEF Timeout, ExecuteUnblock
  <2> QED
    BY <1>2, <2>1, WithoutMessagesOffsets DEF OffsetInv
<1> QED
  BY <1>3, <1>4, <1>5, <1>6, <1>7, <1>8, SubscribeOffsets, ReplyOffsets, PublishOffsets,
     ExecuteReadOffsets DEF Next

-----------------------------------------------------------------------------
(* The types are kept.                                                      *)

\* The reply's calls, in the history.
LEMMA ReplyLog ==
  ASSUME CursorInv, OffsetInv, LogTypes, Reply, NEW first \in SUBSET Messages,
         log' = [Call(first) EXCEPT
           !.since = [s \in Streams |->
              IF s \in Replied(Head(wire)) /\ Latest \in {Head(wire).offset[s], subs[s]}
              THEN Head(wire).from[s] ELSE @[s]]]
  PROVE  /\ LogTypes' /\ log'.loops = log.loops
         /\ log'.handled = Call(first).handled /\ log'.last = Call(first).last
         /\ \A s \in Streams : log'.since[s] =
              IF s \in Replied(Head(wire)) /\ Latest \in {Head(wire).offset[s], subs[s]}
              THEN Head(wire).from[s] ELSE log.since[s]
         /\ \A s \in Replied(Head(wire)) : Head(wire).from[s] \in Nat
<1> DEFINE r == Head(wire)
           c == Call(first)
           z == [s \in Streams |-> IF s \in Replied(r) /\ Latest \in {r.offset[s], subs[s]}
                                   THEN r.from[s] ELSE log.since[s]]
<1>1. /\ c.handled \in [Streams -> [1..MaxMessages -> Nat]]
      /\ c.last \in [Streams -> Nat]
      /\ c.loops = log.loops /\ c.faults = log.faults /\ c.since = log.since
      /\ c = [loops |-> log.loops, faults |-> log.faults, handled |-> c.handled,
              last |-> c.last, since |-> log.since]
  BY Calls DEF CursorInv, LogTypes
<1>2. r = wire[1] /\ 1 \in DOMAIN wire /\ r \in Reads /\ r.state = "replied"
  BY ReplyCases
<1>3. \A s \in Replied(r) : s \in Streams /\ r.from[s] # NoSub
  BY DEF Replied, Subscribed
<1>4. ASSUME NEW s \in Replied(r) PROVE r.from[s] \in Nat
  <2>1. r.from[s] \in Cursors /\ s \in Streams
    BY <1>2, <1>3 DEF Reads
  <2>2. IF r.offset[s] = Latest THEN r.from[s] \in Nat ELSE r.from[s] = r.offset[s]
    BY <1>2, <2>1 DEF OffsetInv, Begins
  <2> QED
    BY <1>3, <2>1, <2>2 DEF Cursors
<1>5. log.since \in [Streams -> Nat] /\ log.faults \in 0..MaxFaults /\ log.loops \in 0..MaxLoops
  BY DEF LogTypes
<1>6. z \in [Streams -> Nat]
  BY <1>4, <1>5
<1>7. log' = [c EXCEPT !.since = z]
  BY <1>1
<1>9. \A s \in Streams : z[s] = IF s \in Replied(r) /\ Latest \in {r.offset[s], subs[s]}
                                THEN r.from[s] ELSE log.since[s]
  OBVIOUS
<1> HIDE DEF r, c, z
<1>10. log' = [loops |-> log.loops, faults |-> log.faults, handled |-> c.handled,
               last |-> c.last, since |-> z]
  BY <1>1, <1>7
<1>11. /\ log'.loops = log.loops /\ log'.faults = log.faults /\ log'.handled = c.handled
       /\ log'.last = c.last /\ log'.since = z
  BY <1>1, <1>10
<1>12. LogTypes'
  BY <1>1, <1>5, <1>6, <1>11 DEF LogTypes
<1> QED
  BY <1>4, <1>9, <1>11, <1>12 DEF r, c

\* What the variables hold besides the cursors.
Types ==
  /\ status \in {"connecting", "ready", "deaf", "closing", "closed"}
  /\ stream \in [Streams -> 0..MaxMessages]
  /\ active \in BOOLEAN
  /\ unblocks \in Seq(UnblockRecords)
  /\ loop \in [Loops -> LoopRecords]
  /\ LogTypes

\* A CLIENT UNBLOCK is sent.
LEMMA AppendUnblock ==
  ASSUME NEW u \in Seq(UnblockRecords), NEW l \in Loops \cup {0}
  PROVE  LET e == [loop |-> l, done |-> FALSE]
             v == Append(u, e)
         IN /\ v \in Seq(UnblockRecords) /\ Len(u) \in Nat
            /\ DOMAIN u = 1..Len(u) /\ DOMAIN v = 1..(Len(u) + 1)
            /\ \A k \in DOMAIN u : v[k] = u[k]
            /\ v[Len(u) + 1] = e /\ e.loop = l
<1> DEFINE e == [loop |-> l, done |-> FALSE]
<1>1. e \in UnblockRecords /\ e.loop = l
  BY DEF UnblockRecords
<1> HIDE DEF e
<1> QED
  BY <1>1 DEF e

\* A CLIENT UNBLOCK is executed: it stays the same otherwise.
LEMMA UnblockDone ==
  ASSUME NEW u \in Seq(UnblockRecords), NEW k \in DOMAIN u
  PROVE  LET v == [u EXCEPT ![k].done = TRUE]
         IN /\ v \in Seq(UnblockRecords) /\ DOMAIN v = DOMAIN u
            /\ \A j \in DOMAIN u : v[j].loop = u[j].loop
<1> DEFINE v == [u EXCEPT ![k].done = TRUE]
           e == [u[k] EXCEPT !.done = TRUE]
<1>1. u[k] \in UnblockRecords
  OBVIOUS
<1>3. v = [u EXCEPT ![k] = e]
  OBVIOUS
<1>4. e \in UnblockRecords /\ e.loop = u[k].loop
  BY <1>1 DEF UnblockRecords
<1> HIDE DEF e, v
<1>5. v \in Seq(UnblockRecords) /\ DOMAIN v = DOMAIN u
  BY <1>3, <1>4
<1>6. \A j \in DOMAIN u : v[j].loop = u[j].loop
  BY <1>3, <1>4
<1> QED
  BY <1>5, <1>6 DEF v

\* The loop of a reply that hands out messages.
LEMMA EmittingLoop ==
  ASSUME loop \in [Loops -> LoopRecords], NEW l \in Loops, NEW messages \in SUBSET Messages,
         NEW first \in Starts(messages, Concurrency),
         loop' = [loop EXCEPT ![l] = [state |-> "emitting", todo |-> messages \ first,
                                      running |-> Cardinality(first)]]
  PROVE  /\ loop' \in [Loops -> LoopRecords]
         /\ loop'[l].state = "emitting" /\ loop'[l].todo = messages \ first
         /\ \A k \in Loops : k # l => loop'[k] = loop[k]
<1> DEFINE e == [state |-> "emitting", todo |-> messages \ first,
                 running |-> Cardinality(first)]
<1>1. Cardinality(first) \in 0..Concurrency
  BY Started, ConcurrencyAssumption
<1>2. e \in LoopRecords /\ e.state = "emitting" /\ e.todo = messages \ first
  BY <1>1 DEF LoopRecords
<1> HIDE DEF e
<1>3. loop' = [loop EXCEPT ![l] = e]
  BY DEF e
<1> QED
  BY <1>2, <1>3

\* The cases of a handler's return.
LEMMA HandledCases ==
  ASSUME loop \in [Loops -> LoopRecords], NEW l \in Loops, Handled(l)
  PROVE  /\ loop[l].state = "emitting" /\ UNCHANGED <<status, stream, subs, unblocks>>
         /\ \/ \E next \in Starts(loop[l].todo, 1) :
                 /\ loop' \in [Loops -> LoopRecords]
                 /\ loop'[l].state = "emitting" /\ loop'[l].todo = loop[l].todo \ next
                 /\ \A k \in Loops : k # l => loop'[k] = loop[k]
                 /\ log' = Call(next) /\ UNCHANGED <<active, wire>>
            \/ /\ loop[l].todo = {} /\ loop' \in [Loops -> LoopRecords]
               /\ loop'[l].state = "emitting" /\ loop'[l].todo = {}
               /\ \A k \in Loops : k # l => loop'[k] = loop[k]
               /\ UNCHANGED <<active, wire, log>>
            \/ loop[l].todo = {} /\ readStream(l, wire, subs) /\ UNCHANGED log
<1>1. loop[l] \in LoopRecords /\ loop[l].state = "emitting"
  BY DEF Handled
<1>2. /\ loop[l].todo \in SUBSET Messages /\ loop[l].running \in 0..Concurrency
      /\ loop[l] = [state |-> loop[l].state, todo |-> loop[l].todo,
                    running |-> loop[l].running]
  BY <1>1 DEF LoopRecords
<1>3. UNCHANGED <<status, stream, subs, unblocks>>
  BY DEF Handled
<1>4. CASE loop[l].todo # {}
  <2>1. PICK next \in Starts(loop[l].todo, 1) :
          /\ loop' = [loop EXCEPT ![l].todo = @ \ next]
          /\ log' = Call(next) /\ UNCHANGED <<active, wire>>
    BY <1>4 DEF Handled
  <2> DEFINE rest == loop[l].todo \ next
             e == [state |-> "emitting", todo |-> rest, running |-> loop[l].running]
  <2>2. [loop[l] EXCEPT !.todo = rest] = e
    BY <1>1, <1>2
  <2>3. loop' = [loop EXCEPT ![l] = e]
    BY <2>1, <2>2
  <2>4. rest \in SUBSET Messages
    BY <1>2
  <2>5. e.state = "emitting" /\ e.todo = rest
    OBVIOUS
  <2>6. e \in LoopRecords
    <3> HIDE DEF rest
    <3> QED
      BY <1>2, <2>4 DEF LoopRecords
  <2> HIDE DEF e
  <2> QED
    BY <1>1, <1>3, <2>1, <2>3, <2>5, <2>6
<1>5. CASE loop[l].todo = {} /\ loop[l].running > 1
  <2>1. loop' = [loop EXCEPT ![l].running = @ - 1] /\ UNCHANGED <<active, wire, log>>
    BY <1>5 DEF Handled
  <2> DEFINE n == loop[l].running - 1
             e == [state |-> "emitting", todo |-> {}, running |-> n]
  <2>2. n \in 0..Concurrency
    BY <1>2, <1>5, ConcurrencyAssumption
  <2>3. loop' = [loop EXCEPT ![l] = [loop[l] EXCEPT !.running = n]]
    BY <2>1
  <2> HIDE DEF n
  <2>4. [loop[l] EXCEPT !.running = n] = e
    BY <1>1, <1>2, <1>5
  <2>5. e \in LoopRecords /\ e.state = "emitting" /\ e.todo = {}
    BY <2>2 DEF LoopRecords
  <2> HIDE DEF e
  <2> QED
    BY <1>1, <1>3, <1>5, <2>1, <2>3, <2>4, <2>5
<1>6. CASE loop[l].todo = {} /\ ~(loop[l].running > 1)
  BY <1>1, <1>3, <1>6 DEF Handled
<1> QED
  BY <1>4, <1>5, <1>6

-----------------------------------------------------------------------------
(* The loops.                                                               *)

\* Every read under way is of another loop, which waits for it.
WireLoops(w, st) ==
  /\ \A k \in DOMAIN w : w[k].loop \in Loops /\ st[w[k].loop].state = "reading"
  /\ \A j, k \in DOMAIN w : w[j].loop = w[k].loop => j = k

\* A loop begins once, when its CLIENT UNBLOCK is answered.
UnblockLoops(u, st, n) ==
  /\ \A l \in Loops : l > n => st[l].state = "none"
  /\ \A k \in DOMAIN u : u[k].loop \in Loops =>
       u[k].loop <= n /\ st[u[k].loop].state = "none"
  /\ \A j, k \in DOMAIN u : u[j].loop \in Loops /\ u[j].loop = u[k].loop => j = k

\* Only a loop that hands messages out has messages to hand out.
IdleLoops(st) == \A l \in Loops : st[l].state # "emitting" => st[l].todo = {}

LoopInv ==
  WireLoops(wire, loop) /\ UnblockLoops(unblocks, loop, log.loops) /\ IdleLoops(loop)

\* The oldest read is taken off, and its loop goes on.
LEMMA TailLoops ==
  ASSUME NEW w \in Seq(Reads), w # <<>>, NEW st, WireLoops(w, st)
  PROVE  /\ Tail(w) \in Seq(Reads) /\ WireLoops(Tail(w), st)
         /\ Head(w).loop \in Loops /\ st[Head(w).loop].state = "reading"
         /\ \A k \in DOMAIN Tail(w) : Tail(w)[k].loop # Head(w).loop
<1> DEFINE v == Tail(w)
<1>1. /\ \A k \in DOMAIN v : k \in Nat /\ k >= 1 /\ k + 1 \in DOMAIN w /\ v[k] = w[k + 1]
      /\ 1 \in DOMAIN w /\ Head(w) = w[1] /\ v \in Seq(Reads)
  OBVIOUS
<1> HIDE DEF v
<1>2. \A j, k \in DOMAIN v : j + 1 = k + 1 => j = k
  BY <1>1
<1>3. \A k \in DOMAIN v : k + 1 # 1
  BY <1>1
<1>4. WireLoops(v, st)
  BY <1>1, <1>2 DEF WireLoops
<1>5. \A k \in DOMAIN v : v[k].loop # Head(w).loop
  BY <1>1, <1>3 DEF WireLoops
<1> QED
  BY <1>1, <1>4, <1>5 DEF v, WireLoops

\* What happens to a loop that waits for no read leaves the reads alone.
LEMMA OtherLoop ==
  ASSUME NEW w, NEW st, NEW st2, NEW l, WireLoops(w, st),
         \A k \in DOMAIN w : w[k].loop # l, \A k \in Loops : k # l => st2[k] = st[k]
  PROVE  WireLoops(w, st2)
<1>1. \A k \in DOMAIN w : w[k].loop \in Loops /\ st2[w[k].loop] = st[w[k].loop]
  BY DEF WireLoops
<1> QED
  BY <1>1 DEF WireLoops

\* A loop that has begun and goes on.
LEMMA BegunLoop ==
  ASSUME NEW u, NEW st, NEW st2, NEW n \in Nat, NEW l, UnblockLoops(u, st, n),
         \A k \in Loops : k # l => st2[k] = st[k],
         l \in Loops, l <= n, \A k \in DOMAIN u : u[k].loop # l
  PROVE  UnblockLoops(u, st2, n)
<1>1. ~(l > n)
  BY DEF Loops
<1>2. \A k \in Loops : k > n => st2[k].state = "none"
  BY <1>1 DEF UnblockLoops
<1>3. \A k \in DOMAIN u : u[k].loop \in Loops =>
        u[k].loop <= n /\ st2[u[k].loop].state = "none"
  BY DEF UnblockLoops
<1> QED
  BY <1>2, <1>3 DEF UnblockLoops

\* readStream() is called by a loop that waits for no read.
LEMMA ReadStreamLoops ==
  ASSUME NEW l \in Loops, NEW w \in Seq(Reads), NEW c \in [Streams -> Cursors],
         readStream(l, w, c), loop \in [Loops -> LoopRecords], active \in BOOLEAN,
         WireLoops(w, loop), IdleLoops(loop), \A k \in DOMAIN w : w[k].loop # l
  PROVE  WireLoops(wire', loop') /\ IdleLoops(loop')
<1> DEFINE r == NewRead(l, c)
           v == Append(w, r)
<1>1. /\ \A k \in Loops : k # l => loop'[k] = loop[k]
      /\ loop'[l].todo = {}
      /\ \/ wire' = w /\ loop'[l].state = "ended"
         \/ wire' = v /\ loop'[l].state = "reading"
  BY ReadStreamLoop
<1>2. IdleLoops(loop')
  BY <1>1 DEF IdleLoops
<1>3. WireLoops(w, loop')
  <2>1. \A k \in Loops : k # l => loop'[k] = loop[k]
    BY <1>1
  <2> QED
    BY <2>1, OtherLoop
<1>4. r \in Reads /\ r.loop = l
  BY NewReadBrings DEF NewRead
<1> HIDE DEF r
<1>5. /\ \A k \in DOMAIN v : (k \in DOMAIN w /\ v[k] = w[k]) \/ (k = Len(w) + 1 /\ v[k] = r)
  BY <1>4
<1> HIDE DEF v
<1>6. ASSUME loop'[l].state = "reading" PROVE WireLoops(v, loop')
  BY <1>3, <1>4, <1>5, <1>6 DEF WireLoops
<1> QED
  BY <1>1, <1>2, <1>3, <1>6

\* A loop that waits for a read or hands messages out has begun.
LEMMA HasBegun ==
  ASSUME LoopInv, LogRecord, NEW l \in Loops, loop[l].state # "none"
  PROVE  l <= log.loops /\ \A k \in DOMAIN unblocks : unblocks[k].loop # l
<1>1. ~(l > log.loops)
  BY DEF LoopInv, UnblockLoops
<1>2. l <= log.loops
  BY <1>1 DEF LogRecord, Loops
<1> QED
  BY <1>2 DEF LoopInv, UnblockLoops

\* A subscription begins a loop, now or when its CLIENT UNBLOCK is answered.
LEMMA SubscribeLoops ==
  ASSUME CursorInv, Types, LoopInv, NEW s \in Streams, Subscribe(s)
  PROVE  Types' /\ LoopInv'
<1> DEFINE n == log.loops + 1
<1>1. /\ n \in Loops /\ log.loops \in Nat /\ n \in Nat /\ log.loops < n
      /\ UNCHANGED <<status, stream>>
  BY MaxLoopsAssumption DEF Subscribe, CursorInv, LogRecord, Loops
<1>2. LogTypes' /\ log'.loops = n
  BY SubscribeLog DEF CursorInv, Types
<1>3. /\ wire \in Seq(Reads) /\ subs' \in [Streams -> Cursors]
      /\ unblocks \in Seq(UnblockRecords) /\ loop \in [Loops -> LoopRecords]
      /\ active \in BOOLEAN
  BY DEF CursorInv, WireInv, Types, Subscribe, Cursors
<1>4. \/ /\ active' = FALSE /\ unblocks' = Append(unblocks, [loop |-> n, done |-> FALSE])
         /\ UNCHANGED <<wire, loop>>
      \/ readStream(n, wire, subs') /\ UNCHANGED unblocks
  BY DEF Subscribe
<1> HIDE DEF n
<1>5. UnblockLoops(unblocks, loop, n) /\ \A k \in DOMAIN unblocks : unblocks[k].loop # n
  <2>1. \A l \in Loops : l > n => l > log.loops
    BY <1>1 DEF Loops
  <2>2. \A k \in DOMAIN unblocks : unblocks[k].loop \in Loops =>
          unblocks[k].loop <= n /\ unblocks[k].loop # n
    BY <1>1 DEF LoopInv, UnblockLoops, Loops
  <2> QED
    BY <1>1, <2>1, <2>2 DEF LoopInv, UnblockLoops
<1>6. loop[n].state = "none" /\ \A k \in DOMAIN wire : wire[k].loop # n
  <2>1. n > log.loops
    BY <1>1
  <2> QED
    BY <1>1, <2>1 DEF LoopInv, UnblockLoops, WireLoops
<1>7. CASE /\ active' = FALSE /\ unblocks' = Append(unblocks, [loop |-> n, done |-> FALSE])
           /\ UNCHANGED <<wire, loop>>
  <2> DEFINE v == unblocks'
             e == [loop |-> n, done |-> FALSE]
  <2>1. /\ v \in Seq(UnblockRecords) /\ Len(unblocks) \in Nat
        /\ DOMAIN unblocks = 1..Len(unblocks) /\ DOMAIN v = 1..(Len(unblocks) + 1)
        /\ \A k \in DOMAIN unblocks : v[k] = unblocks[k]
        /\ v[Len(unblocks) + 1].loop = n
    BY <1>1, <1>3, <1>7, AppendUnblock
  <2>2. Types'
    BY <1>1, <1>2, <1>7, <2>1 DEF Types
  <2> HIDE DEF v
  <2>3. \A k \in DOMAIN v :
          \/ k \in DOMAIN unblocks /\ v[k] = unblocks[k] /\ v[k].loop # n
          \/ k = Len(unblocks) + 1 /\ v[k].loop = n
    BY <1>5, <2>1
  <2>4. UnblockLoops(v, loop, n)
    BY <1>1, <1>5, <1>6, <2>3 DEF UnblockLoops
  <2> QED
    BY <1>2, <1>7, <2>2, <2>4 DEF LoopInv, v
<1>8. CASE readStream(n, wire, subs') /\ UNCHANGED unblocks
  <2>1. /\ loop' \in [Loops -> LoopRecords] /\ active' \in BOOLEAN
        /\ \A k \in Loops : k # n => loop'[k] = loop[k]
    BY <1>1, <1>3, <1>8, ReadStreamLoop
  <2>2. WireLoops(wire', loop') /\ IdleLoops(loop')
    BY <1>1, <1>3, <1>6, <1>8, ReadStreamLoops DEF LoopInv
  <2>3. UnblockLoops(unblocks, loop', n)
    BY <1>1, <1>5, <2>1, BegunLoop
  <2> QED
    BY <1>1, <1>2, <1>8, <2>1, <2>2, <2>3 DEF Types, LoopInv
<1> QED
  BY <1>4, <1>7, <1>8

\* A CLIENT UNBLOCK is answered: its loop begins, or the connections are closed.
LEMMA UnblockedLoops ==
  ASSUME CursorInv, Types, LoopInv, Unblocked
  PROVE  Types' /\ LoopInv'
<1> DEFINE l == Head(unblocks).loop
           v == Tail(unblocks)
<1>1. /\ unblocks # <<>> /\ unblocks' = v /\ UNCHANGED <<stream, subs, log>>
      /\ unblocks \in Seq(UnblockRecords) /\ loop \in [Loops -> LoopRecords]
      /\ active \in BOOLEAN /\ wire \in Seq(Reads) /\ subs \in [Streams -> Cursors]
      /\ log.loops \in Nat /\ LogTypes
  BY DEF Unblocked, Types, CursorInv, WireInv, LogRecord
<1>2. /\ v \in Seq(UnblockRecords) /\ 1 \in DOMAIN unblocks /\ l = unblocks[1].loop
      /\ \A k \in DOMAIN v :
           k \in Nat /\ k >= 1 /\ k + 1 \in DOMAIN unblocks /\ v[k] = unblocks[k + 1]
  BY <1>1
<1>3. LogTypes'
  BY <1>1 DEF LogTypes
<1>4. \/ l \in Loops /\ readStream(l, wire, subs) /\ UNCHANGED status
      \/ /\ status' = "closed" /\ wire' = <<>> /\ active' = FALSE
         /\ loop' = [k \in Loops |->
                       IF loop[k].state = "reading" THEN At("ended") ELSE loop[k]]
  BY DEF Unblocked
<1> HIDE DEF l, v
<1>5. /\ UnblockLoops(v, loop, log.loops)
      /\ l \in Loops => /\ l <= log.loops /\ loop[l].state = "none"
                        /\ \A k \in DOMAIN v : v[k].loop # l
  <2>1. \A k \in DOMAIN v : k + 1 # 1
    BY <1>2
  <2>2. \A j, k \in DOMAIN v : j + 1 = k + 1 => j = k
    BY <1>2
  <2> QED
    BY <1>2, <2>1, <2>2 DEF LoopInv, UnblockLoops
<1>6. CASE l \in Loops /\ readStream(l, wire, subs) /\ UNCHANGED status
  <2>1. /\ loop' \in [Loops -> LoopRecords] /\ active' \in BOOLEAN
        /\ \A k \in Loops : k # l => loop'[k] = loop[k]
    BY <1>1, <1>6, ReadStreamLoop
  <2>2. \A k \in DOMAIN wire : wire[k].loop # l
    BY <1>5, <1>6 DEF LoopInv, WireLoops
  <2>3. WireLoops(wire', loop') /\ IdleLoops(loop')
    BY <1>1, <1>6, <2>2, ReadStreamLoops DEF LoopInv
  <2>4. UnblockLoops(v, loop', log.loops)
    BY <1>1, <1>5, <1>6, <2>1, BegunLoop
  <2> QED
    BY <1>1, <1>2, <1>3, <1>6, <2>1, <2>3, <2>4 DEF Types, LoopInv
<1>7. CASE /\ status' = "closed" /\ wire' = <<>> /\ active' = FALSE
           /\ loop' = [k \in Loops |->
                         IF loop[k].state = "reading" THEN At("ended") ELSE loop[k]]
  <2>1. At("ended") \in LoopRecords /\ At("ended").todo = {}
    BY AtType
  <2>2. /\ loop' \in [Loops -> LoopRecords]
        /\ \A k \in Loops : \/ loop'[k] = loop[k]
                            \/ loop[k].state = "reading" /\ loop'[k].todo = {}
    BY <1>1, <1>7, <2>1
  <2>3. Types'
    BY <1>1, <1>2, <1>3, <1>7, <2>2 DEF Types
  <2>4. IdleLoops(loop')
    BY <2>2 DEF LoopInv, IdleLoops
  <2>5. \A k \in Loops : loop[k].state = "none" => loop'[k].state = "none"
    BY <2>2
  <2>6. UnblockLoops(v, loop', log.loops)
    BY <1>5, <2>5 DEF UnblockLoops
  <2>7. WireLoops(wire', loop')
    BY <1>7 DEF WireLoops
  <2> QED
    BY <1>1, <2>3, <2>4, <2>6, <2>7 DEF LoopInv
<1> QED
  BY <1>4, <1>6, <1>7

\* A reply arrives: its loop hands its messages out, or sends the next read.
LEMMA ReplyLoops ==
  ASSUME CursorInv, OffsetInv, Types, LoopInv, Reply
  PROVE  Types' /\ LoopInv'
<1> DEFINE r == Head(wire)
           v == Tail(wire)
           l == r.loop
<1>1. /\ wire # <<>> /\ l \in Loops /\ UNCHANGED <<status, stream, unblocks>>
      /\ \/ readStream(l, v, subs) /\ UNCHANGED <<subs, log>>
         \/ \E messages \in SUBSET Messages :
              /\ active' = FALSE /\ wire' = v
              /\ \E first \in Starts(messages, Concurrency) :
                   /\ loop' = [loop EXCEPT ![l] =
                                 [state |-> "emitting", todo |-> messages \ first,
                                  running |-> Cardinality(first)]]
                   /\ log' = [Call(first) EXCEPT
                        !.since = [s \in Streams |->
                           IF s \in Replied(r) /\ Latest \in {r.offset[s], subs[s]}
                           THEN r.from[s] ELSE @[s]]]
  BY ReplyCases
<1>2. /\ wire \in Seq(Reads) /\ subs \in [Streams -> Cursors] /\ log.loops \in Nat /\ LogTypes
      /\ loop \in [Loops -> LoopRecords] /\ active \in BOOLEAN /\ LogRecord
      /\ WireLoops(wire, loop) /\ IdleLoops(loop) /\ UnblockLoops(unblocks, loop, log.loops)
  BY DEF CursorInv, WireInv, Types, LogRecord, LoopInv
<1>3. /\ v \in Seq(Reads) /\ WireLoops(v, loop) /\ loop[l].state = "reading"
      /\ \A k \in DOMAIN v : v[k].loop # l
  BY <1>1, <1>2, TailLoops
<1>4. l <= log.loops /\ \A k \in DOMAIN unblocks : unblocks[k].loop # l
  BY <1>1, <1>2, <1>3, HasBegun
<1>5. CASE readStream(l, v, subs) /\ UNCHANGED <<subs, log>>
  <2> HIDE DEF r, v, l
  <2>1. /\ loop' \in [Loops -> LoopRecords] /\ active' \in BOOLEAN
        /\ \A k \in Loops : k # l => loop'[k] = loop[k]
    BY <1>1, <1>2, <1>3, <1>5, ReadStreamLoop
  <2>2. WireLoops(wire', loop') /\ IdleLoops(loop')
    BY <1>1, <1>2, <1>3, <1>5, ReadStreamLoops
  <2>3. UnblockLoops(unblocks, loop', log.loops)
    BY <1>1, <1>2, <1>4, <2>1, BegunLoop
  <2>4. LogTypes'
    BY <1>2, <1>5 DEF LogTypes
  <2> QED
    BY <1>1, <1>5, <2>1, <2>2, <2>3, <2>4 DEF Types, LoopInv
<1>6. ASSUME NEW messages \in SUBSET Messages, NEW first \in Starts(messages, Concurrency),
             active' = FALSE, wire' = v,
             loop' = [loop EXCEPT ![l] =
                        [state |-> "emitting", todo |-> messages \ first,
                         running |-> Cardinality(first)]],
             log' = [Call(first) EXCEPT
               !.since = [s \in Streams |->
                  IF s \in Replied(r) /\ Latest \in {r.offset[s], subs[s]}
                  THEN r.from[s] ELSE @[s]]]
      PROVE  Types' /\ LoopInv'
  <2>1. first \in SUBSET Messages
    BY <1>6, Started, ConcurrencyAssumption
  <2>2. LogTypes' /\ log'.loops = log.loops
    BY <1>2, <1>6, <2>1, ReplyLog
  <2> HIDE DEF r, v, l
  <2>3. /\ loop' \in [Loops -> LoopRecords]
        /\ loop'[l].state = "emitting"
        /\ \A k \in Loops : k # l => loop'[k] = loop[k]
    BY <1>1, <1>2, <1>6, EmittingLoop
  <2>4. WireLoops(v, loop')
    <3>1. /\ WireLoops(v, loop)
          /\ \A k \in DOMAIN v : v[k].loop # l
          /\ \A k \in Loops : k # l => loop'[k] = loop[k]
      BY <1>3, <2>3
    <3>2. \A k \in DOMAIN v :
            v[k].loop \in Loops /\ loop'[v[k].loop] = loop[v[k].loop]
      BY <3>1 DEF WireLoops
    <3> QED
      BY <3>1, <3>2 DEF WireLoops
  <2>5. IdleLoops(loop')
    BY <1>2, <2>3 DEF IdleLoops
  <2>6. UnblockLoops(unblocks, loop', log.loops)
    BY <1>1, <1>2, <1>4, <2>3, BegunLoop
  <2> QED
    BY <1>1, <1>6, <2>2, <2>3, <2>4, <2>5, <2>6 DEF Types, LoopInv
<1> QED
  BY <1>1, <1>5, <1>6

\* A handler returns: the next one is called, or the next read sent.
LEMMA HandledLoops ==
  ASSUME CursorInv, Types, LoopInv, NEW l \in Loops, Handled(l)
  PROVE  Types' /\ LoopInv'
<1>1. /\ wire \in Seq(Reads) /\ subs \in [Streams -> Cursors] /\ log.loops \in Nat /\ LogTypes
      /\ loop \in [Loops -> LoopRecords] /\ active \in BOOLEAN /\ LogRecord
      /\ WireLoops(wire, loop) /\ IdleLoops(loop) /\ UnblockLoops(unblocks, loop, log.loops)
  BY DEF CursorInv, WireInv, Types, LogRecord, LoopInv
<1>2. /\ loop[l].state = "emitting" /\ UNCHANGED <<status, stream, subs, unblocks>>
      /\ \/ \E next \in Starts(loop[l].todo, 1) :
              /\ loop' \in [Loops -> LoopRecords]
              /\ loop'[l].state = "emitting"
              /\ \A k \in Loops : k # l => loop'[k] = loop[k]
              /\ log' = Call(next) /\ UNCHANGED <<active, wire>>
         \/ /\ loop' \in [Loops -> LoopRecords]
            /\ loop'[l].state = "emitting"
            /\ \A k \in Loops : k # l => loop'[k] = loop[k]
            /\ UNCHANGED <<active, wire, log>>
         \/ readStream(l, wire, subs) /\ UNCHANGED log
  BY <1>1, HandledCases
<1>3. l <= log.loops /\ \A k \in DOMAIN unblocks : unblocks[k].loop # l
  BY <1>1, <1>2, HasBegun
<1>4. \A k \in DOMAIN wire : wire[k].loop # l
  BY <1>1, <1>2 DEF WireLoops
<1>5. ASSUME loop' \in [Loops -> LoopRecords], loop'[l].state = "emitting",
             \A k \in Loops : k # l => loop'[k] = loop[k],
             LogTypes', log'.loops = log.loops, UNCHANGED <<active, wire>>
      PROVE  Types' /\ LoopInv'
  <2>1. WireLoops(wire, loop')
    <3>1. /\ WireLoops(wire, loop)
          /\ \A k \in DOMAIN wire : wire[k].loop # l
          /\ \A k \in Loops : k # l => loop'[k] = loop[k]
      BY <1>1, <1>4, <1>5
    <3> QED
      BY <3>1, OtherLoop
  <2>2. IdleLoops(loop')
    BY <1>1, <1>5 DEF IdleLoops
  <2>3. UnblockLoops(unblocks, loop', log.loops)
    BY <1>1, <1>3, <1>5, BegunLoop
  <2> QED
    BY <1>2, <1>5, <2>1, <2>2, <2>3 DEF Types, LoopInv
<1>6. ASSUME NEW next \in Starts(loop[l].todo, 1), log' = Call(next)
      PROVE  LogTypes' /\ log'.loops = log.loops
  <2>1. loop[l].todo \in SUBSET Messages
    BY <1>1 DEF LoopRecords
  <2>2. next \in SUBSET Messages
    BY <1>6, <2>1, Started
  <2> QED
    BY <1>1, <1>6, <2>2, Calls DEF LogTypes
<1>7. CASE UNCHANGED log /\ readStream(l, wire, subs)
  <2>1. /\ loop' \in [Loops -> LoopRecords] /\ active' \in BOOLEAN
        /\ \A k \in Loops : k # l => loop'[k] = loop[k]
    BY <1>1, <1>7, ReadStreamLoop
  <2>2. WireLoops(wire', loop') /\ IdleLoops(loop')
    BY <1>1, <1>4, <1>7, ReadStreamLoops
  <2>3. UnblockLoops(unblocks, loop', log.loops)
    BY <1>1, <1>3, <2>1, BegunLoop
  <2>4. LogTypes'
    BY <1>1, <1>7 DEF LogTypes
  <2> QED
    BY <1>2, <1>7, <2>1, <2>2, <2>3, <2>4 DEF Types, LoopInv
<1>8. UNCHANGED log => LogTypes' /\ log'.loops = log.loops
  BY <1>1 DEF LogTypes
<1> QED
  BY <1>2, <1>5, <1>6, <1>7, <1>8

\* A read fails: its loop ends.
LEMMA ReadFailsLoops ==
  ASSUME CursorInv, Types, LoopInv, ReadFails
  PROVE  Types' /\ LoopInv'
<1> DEFINE l == Head(wire).loop
           v == Tail(wire)
<1>1. /\ wire \in Seq(Reads) /\ subs \in [Streams -> Cursors] /\ log.loops \in Nat /\ LogTypes
      /\ loop \in [Loops -> LoopRecords] /\ active \in BOOLEAN /\ LogRecord
      /\ WireLoops(wire, loop) /\ IdleLoops(loop) /\ UnblockLoops(unblocks, loop, log.loops)
  BY DEF CursorInv, WireInv, Types, LogRecord, LoopInv
<1>2. /\ wire # <<>> /\ wire' = v /\ loop' = [loop EXCEPT ![l] = At("ended")]
      /\ log.faults < MaxFaults /\ log' = [log EXCEPT !.faults = @ + 1]
      /\ UNCHANGED <<status, stream, subs, active, unblocks>>
  BY DEF ReadFails
<1>3. /\ v \in Seq(Reads) /\ WireLoops(v, loop) /\ loop[l].state = "reading" /\ l \in Loops
      /\ \A k \in DOMAIN v : v[k].loop # l
  BY <1>1, <1>2, TailLoops
<1> HIDE DEF l, v
<1>4. l <= log.loops /\ \A k \in DOMAIN unblocks : unblocks[k].loop # l
  BY <1>1, <1>3, HasBegun
<1>5. /\ loop' \in [Loops -> LoopRecords]
      /\ loop'[l].todo = {}
      /\ \A k \in Loops : k # l => loop'[k] = loop[k]
  <2>1. At("ended") \in LoopRecords /\ At("ended").todo = {}
    BY AtType
  <2> QED
    BY <1>1, <1>2, <1>3, <2>1
<1>6. log' = [loops |-> log.loops, faults |-> log.faults + 1, handled |-> log.handled,
              last |-> log.last, since |-> log.since]
  BY <1>1, <1>2 DEF LogRecord
<1>7. log.faults + 1 \in 0..MaxFaults
  BY <1>1, <1>2, SizeAssumption DEF LogTypes
<1>8. LogTypes' /\ log'.loops = log.loops
  BY <1>1, <1>6, <1>7 DEF LogTypes
<1>9. WireLoops(v, loop')
  <2>1. /\ WireLoops(v, loop)
        /\ \A k \in DOMAIN v : v[k].loop # l
        /\ \A k \in Loops : k # l => loop'[k] = loop[k]
    BY <1>3, <1>5
  <2>2. \A k \in DOMAIN v :
          v[k].loop \in Loops /\ loop'[v[k].loop] = loop[v[k].loop]
    BY <2>1 DEF WireLoops
  <2> QED
    BY <2>1, <2>2 DEF WireLoops
<1>10. IdleLoops(loop')
  BY <1>1, <1>5 DEF IdleLoops
<1>11. UnblockLoops(unblocks, loop', log.loops)
  BY <1>1, <1>3, <1>4, <1>5, BegunLoop
<1> QED
  BY <1>2, <1>5, <1>8, <1>9, <1>10, <1>11 DEF Types, LoopInv

\* A read goes on being its loop's, whatever Redis does with it.
LEMMA SameLoops ==
  ASSUME WireLoops(wire, loop), DOMAIN wire' = DOMAIN wire,
         \A k \in DOMAIN wire : wire'[k].loop = wire[k].loop
  PROVE  WireLoops(wire', loop)
BY DEF WireLoops

\* Redis publishes, executes a read, or lets it go.
LEMMA RedisLoops ==
  ASSUME CursorInv,
         (\E s \in Streams : Publish(s)) \/ ExecuteRead \/ wire' = WithoutMessages
  PROVE  /\ DOMAIN wire' = DOMAIN wire
         /\ \A k \in DOMAIN wire : wire'[k].loop = wire[k].loop
<1>1. /\ wire \in Seq(Reads) /\ wire \in [1..Len(wire) -> Reads]
      /\ DOMAIN wire = 1..Len(wire)
  BY DEF CursorInv, WireInv
<1>2. ASSUME NEW s \in Streams, Publish(s)
      PROVE  /\ DOMAIN wire' = DOMAIN wire
             /\ \A k \in DOMAIN wire : wire'[k].loop = wire[k].loop
  <2> DEFINE served(k) == wire[k].state = "blocked" /\ wire[k].from[s] # NoSub
             e(k) == [wire[k] EXCEPT !.state = "replied",
                                     !.upto = [wire[k].upto EXCEPT ![s] = stream'[s]]]
  <2>1. wire' = [k \in DOMAIN wire |->
                   IF served(k)
                   THEN [wire[k] EXCEPT !.state = "replied", !.upto[s] = stream'[s]]
                   ELSE wire[k]]
    BY <1>2 DEF Publish
  <2>2. DOMAIN wire' = DOMAIN wire
    BY <2>1
  <2>3. ASSUME NEW k \in DOMAIN wire, served(k) PROVE wire'[k] = e(k)
    BY <1>1, <2>1, <2>3 DEF Reads
  <2>4. \A k \in DOMAIN wire : ~served(k) => wire'[k] = wire[k]
    BY <2>1
  <2>5. \A k \in DOMAIN wire : e(k).loop = wire[k].loop
    BY <1>1 DEF Reads
  <2> HIDE DEF served, e
  <2> QED
    BY <2>2, <2>3, <2>4, <2>5
<1>3. CASE ExecuteRead
  <2>1. PICK k \in DOMAIN wire :
          LET from == [s \in Streams |-> IF wire[k].offset[s] = Latest THEN stream[s]
                                         ELSE wire[k].offset[s]]
              ready == {s \in Streams : from[s] # NoSub /\ from[s] < stream[s]}
          IN wire' = [wire EXCEPT
               ![k].state = IF ready = {} THEN "blocked" ELSE "replied",
               ![k].from = from,
               ![k].upto = [s \in Streams |-> IF s \in ready THEN stream[s] ELSE from[s]]]
    BY <1>3 DEF ExecuteRead
  <2> DEFINE from == [s \in Streams |-> IF wire[k].offset[s] = Latest THEN stream[s]
                                        ELSE wire[k].offset[s]]
             ready == {s \in Streams : from[s] # NoSub /\ from[s] < stream[s]}
             upto == [s \in Streams |-> IF s \in ready THEN stream[s] ELSE from[s]]
             state == IF ready = {} THEN "blocked" ELSE "replied"
             e == [wire[k] EXCEPT !.state = state, !.from = from, !.upto = upto]
  <2>2. wire' = [wire EXCEPT ![k] = e]
    BY <1>1, <2>1 DEF Reads
  <2> HIDE DEF from, ready, upto, state
  <2>3. e.loop = wire[k].loop
    BY <1>1 DEF Reads
  <2> HIDE DEF e
  <2> QED
    BY <1>1, <2>2, <2>3
<1>4. CASE wire' = WithoutMessages
  <2>1. \A k \in DOMAIN wire : [wire[k] EXCEPT !.state = "replied"].loop = wire[k].loop
    BY <1>1 DEF Reads
  <2> QED
    BY <1>4, <2>1 DEF WithoutMessages
<1> QED
  BY <1>2, <1>3, <1>4

\* Every step keeps the types, and one read or CLIENT UNBLOCK for every loop that waits.
LEMMA LoopStep ==
  ASSUME CursorInv, OffsetInv, Types, LoopInv, [Next]_vars
  PROVE  Types' /\ LoopInv'
<1>1. /\ wire \in Seq(Reads) /\ log.loops \in Nat /\ LogTypes
      /\ WireLoops(wire, loop) /\ IdleLoops(loop) /\ UnblockLoops(unblocks, loop, log.loops)
      /\ unblocks \in Seq(UnblockRecords) /\ stream \in [Streams -> 0..MaxMessages]
  BY DEF CursorInv, WireInv, Types, LogRecord, LoopInv
<1>2. UNCHANGED log => LogTypes'
  BY DEF Types, LogTypes
<1>3. CASE Connected \/ (\E s \in Streams : Unsubscribe(s)) \/ UNCHANGED vars
  BY <1>2, <1>3 DEF Connected, Unsubscribe, vars, Types, LoopInv
<1>4. CASE Disconnect
  <2> DEFINE v == unblocks'
             e == [loop |-> 0, done |-> FALSE]
  <2>1. /\ v = Append(unblocks, e) /\ status' = "closing" /\ active' = FALSE
        /\ UNCHANGED <<stream, subs, wire, loop, log>>
    BY <1>4 DEF Disconnect
  <2>2. /\ v \in Seq(UnblockRecords) /\ Len(unblocks) \in Nat
        /\ DOMAIN unblocks = 1..Len(unblocks) /\ DOMAIN v = 1..(Len(unblocks) + 1)
        /\ \A k \in DOMAIN unblocks : v[k] = unblocks[k]
        /\ v[Len(unblocks) + 1].loop = 0
    BY <1>1, <2>1, AppendUnblock
  <2>3. Types'
    BY <1>2, <2>1, <2>2 DEF Types
  <2> HIDE DEF v
  <2>4. 0 \notin Loops
    BY DEF Loops
  <2>5. \A k \in DOMAIN v : v[k].loop \in Loops => k \in DOMAIN unblocks /\ v[k] = unblocks[k]
    BY <2>2, <2>4
  <2>6. UnblockLoops(v, loop, log.loops)
    BY <1>1, <2>5 DEF UnblockLoops
  <2> QED
    BY <1>1, <2>1, <2>3, <2>6 DEF LoopInv, v
<1>5. ASSUME NEW s \in Streams, Publish(s)
      PROVE  Types' /\ LoopInv'
  <2>1. /\ stream[s] < MaxMessages /\ stream' = [stream EXCEPT ![s] = @ + 1]
        /\ UNCHANGED <<status, subs, active, unblocks, loop, log>>
    BY <1>5 DEF Publish
  <2>2. stream[s] + 1 \in 0..MaxMessages
    BY <1>1, <2>1, SizeAssumption
  <2>3. stream' \in [Streams -> 0..MaxMessages]
    BY <1>1, <2>1, <2>2
  <2>4. WireLoops(wire', loop)
    BY <1>1, <1>5, RedisLoops, SameLoops
  <2> QED
    BY <1>1, <1>2, <2>1, <2>3, <2>4 DEF Types, LoopInv
<1>6. CASE ExecuteRead \/ Timeout
  <2>1. UNCHANGED <<status, stream, subs, active, unblocks, loop, log>>
    BY <1>6 DEF ExecuteRead, Timeout
  <2>2. WireLoops(wire', loop)
    BY <1>1, <1>6, RedisLoops, SameLoops DEF Timeout
  <2> QED
    BY <1>1, <1>2, <2>1, <2>2 DEF Types, LoopInv
<1>7. CASE ExecuteUnblock
  <2>1. PICK k \in DOMAIN unblocks : unblocks' = [unblocks EXCEPT ![k].done = TRUE]
    BY <1>7 DEF ExecuteUnblock
  <2>2. /\ wire' = WithoutMessages
        /\ UNCHANGED <<status, stream, subs, active, loop, log>>
    BY <1>7 DEF ExecuteUnblock
  <2>3. WireLoops(wire', loop)
    BY <1>1, <2>2, RedisLoops, SameLoops
  <2> DEFINE v == unblocks'
  <2>4. /\ v \in Seq(UnblockRecords) /\ DOMAIN v = DOMAIN unblocks
        /\ \A j \in DOMAIN unblocks : v[j].loop = unblocks[j].loop
    BY <1>1, <2>1, UnblockDone
  <2>5. Types'
    BY <1>2, <2>2, <2>4 DEF Types
  <2> HIDE DEF v
  <2>6. UnblockLoops(v, loop, log.loops)
    BY <1>1, <2>4 DEF UnblockLoops
  <2> QED
    BY <1>1, <2>2, <2>3, <2>5, <2>6 DEF LoopInv, v
<1> QED
  BY <1>3, <1>4, <1>5, <1>6, <1>7, SubscribeLoops, UnblockedLoops, ReplyLoops, HandledLoops,
     ReadFailsLoops DEF Next

\* In the initial state no loop has begun.
LEMMA LoopInit == Init => Types /\ LoopInv
<1> SUFFICES ASSUME Init PROVE Types /\ LoopInv
  OBVIOUS
<1>1. At("none") \in LoopRecords /\ At("none").todo = {} /\ At("none").state = "none"
  BY AtType
<1>2. MaxMessages \in Nat /\ MaxFaults \in Nat /\ MaxLoops \in Nat
  BY SizeAssumption, MaxLoopsAssumption
<1>3. /\ log.loops = 0 /\ log.faults = 0 /\ log.last = [s \in Streams |-> 0]
      /\ log.handled = [s \in Streams |-> [i \in 1..MaxMessages |-> 0]]
      /\ log.since = [s \in Streams |-> 0]
  BY DEF Init
<1>4. LogTypes
  BY <1>2, <1>3 DEF LogTypes
<1>5. /\ loop = [l \in Loops |-> At("none")] /\ unblocks = <<>> /\ wire = <<>>
      /\ stream = [s \in Streams |-> 0] /\ active = FALSE
      /\ status \in {"connecting", "ready"}
  BY DEF Init
<1>6. unblocks \in Seq(UnblockRecords) /\ stream \in [Streams -> 0..MaxMessages]
  BY <1>2, <1>5
<1>7. Types
  BY <1>1, <1>4, <1>5, <1>6 DEF Types
<1>8. LoopInv
  BY <1>1, <1>5 DEF LoopInv, WireLoops, UnblockLoops, IdleLoops
<1> QED
  BY <1>7, <1>8

ReaderInv == CursorInv /\ OffsetInv /\ Types /\ LoopInv

\* The cursors, the offsets and the loops hold together.
LEMMA ReaderInvariance == Spec => []ReaderInv
<1>1. Init => ReaderInv
  BY CursorInit, OffsetInit, LoopInit DEF ReaderInv
<1>2. ReaderInv /\ [Next]_vars => ReaderInv'
  BY CursorStep, OffsetStep, LoopStep DEF ReaderInv
<1> QED
  BY <1>1, <1>2, PTL DEF Spec

\* Every variable keeps its type: no reply has more handlers under way than pAll() calls
\* at a time, and the reads of the connection are of loops that exist.
THEOREM TypeCorrectness == Spec => []TypeOK
<1>1. ReaderInv => TypeOK
  BY DEF ReaderInv, CursorInv, WireInv, Types, LogTypes, LoopRecords, UnblockRecords,
         Messages, Reads, TypeOK
<1> QED
  BY <1>1, ReaderInvariance, PTL

-----------------------------------------------------------------------------
(* What is handed out.                                                      *)

\* Handlers are called until disconnect().
Open == status \notin {"closing", "closed"}

\* Since the last read of a subscription at '$', a message before its cursor has been
\* handed out, or waits for its turn.
SkipInv ==
  Open => \A s \in Streams : subs[s] \in Nat =>
    \A i \in (log.since[s] + 1)..subs[s] :
      log.handled[s][i] > 0 \/ \E l \in Loops : <<s, i>> \in loop[l].todo

\* A step that moves no cursor forward loses no message.
LEMMA KeepsSkip ==
  ASSUME SkipInv, ReaderInv, Open' => Open,
         \A s \in Streams : subs'[s] \in Nat =>
           subs'[s] = subs[s] /\ log'.since[s] = log.since[s],
         \A s \in Streams, i \in 1..MaxMessages : Open /\ subs'[s] \in Nat =>
           /\ log.handled[s][i] > 0 => log'.handled[s][i] > 0
           /\ \A l \in Loops : <<s, i>> \in loop[l].todo =>
                <<s, i>> \in loop'[l].todo \/ log'.handled[s][i] > 0
  PROVE  SkipInv'
<1> SUFFICES ASSUME Open', NEW s \in Streams, subs'[s] \in Nat,
                    NEW i \in (log'.since[s] + 1)..subs'[s]
             PROVE  log'.handled[s][i] > 0 \/ \E l \in Loops : <<s, i>> \in loop'[l].todo
  BY DEF SkipInv
<1>1. /\ subs'[s] = subs[s] /\ log'.since[s] = log.since[s]
      /\ subs[s] \in Nat /\ i \in (log.since[s] + 1)..subs[s]
  OBVIOUS
<1>2. log.since[s] \in Nat /\ subs[s] <= stream[s] /\ stream[s] \in 0..MaxMessages
  BY <1>1 DEF ReaderInv, CursorInv, Types, LogTypes
<1>3. i \in 1..MaxMessages
  BY <1>1, <1>2, SizeAssumption
<1>4. log.handled[s][i] > 0 \/ \E l \in Loops : <<s, i>> \in loop[l].todo
  BY <1>1 DEF SkipInv
<1> QED
  BY <1>3, <1>4

\* The cases of a step: the cursors that stay, the messages that are called, and those
\* that wait.
LEMMA QuietSteps ==
  ASSUME ReaderInv, [Next]_vars, ~Reply, \A l \in Loops : ~Handled(l)
  PROVE  /\ Open' => Open
         /\ \A s \in Streams : subs'[s] \in Nat =>
              /\ subs'[s] = subs[s]
              /\ log'.handled[s] = log.handled[s] /\ log'.last[s] = log.last[s]
              /\ log'.since[s] = log.since[s]
         /\ Open' => \A l \in Loops : loop'[l].todo = loop[l].todo
<1>1. /\ subs \in [Streams -> Cursors] /\ loop \in [Loops -> LoopRecords]
      /\ active \in BOOLEAN /\ LogRecord /\ LogTypes
      /\ WireLoops(wire, loop) /\ IdleLoops(loop) /\ UnblockLoops(unblocks, loop, log.loops)
      /\ wire \in Seq(Reads) /\ unblocks \in Seq(UnblockRecords)
  BY DEF ReaderInv, CursorInv, WireInv, Types, LoopInv
<1>2. CASE \/ Connected \/ Disconnect \/ (\E s \in Streams : Publish(s)) \/ ExecuteRead
           \/ Timeout \/ ExecuteUnblock \/ UNCHANGED vars
  <2>1. UNCHANGED <<subs, log, loop>>
    BY <1>2 DEF Connected, Disconnect, Publish, ExecuteRead, Timeout, ExecuteUnblock, vars
  <2>2. Open' => Open
    BY <1>2 DEF Connected, Disconnect, Publish, ExecuteRead, Timeout, ExecuteUnblock, vars,
       Open
  <2> QED
    BY <2>1, <2>2
<1>3. ASSUME NEW t \in Streams, Unsubscribe(t)
      PROVE  /\ Open' => Open
             /\ \A s \in Streams : subs'[s] \in Nat => subs'[s] = subs[s]
             /\ UNCHANGED <<log, loop>>
  BY <1>1, <1>3, OffsetAssumption DEF Unsubscribe, Open
<1>4. ASSUME NEW t \in Streams, Subscribe(t)
      PROVE  /\ Open' => Open
             /\ \A s \in Streams : subs'[s] \in Nat =>
                  /\ subs'[s] = subs[s]
                  /\ log'.handled[s] = log.handled[s] /\ log'.last[s] = log.last[s]
                  /\ log'.since[s] = log.since[s]
             /\ \A l \in Loops : loop'[l].todo = loop[l].todo
  <2> DEFINE n == log.loops + 1
  <2>1. /\ subs' = [subs EXCEPT ![t] = Latest] /\ UNCHANGED status
        /\ n \in Loops /\ log.loops < n
        /\ UNCHANGED loop \/ readStream(n, wire, subs')
    BY <1>1, <1>4, MaxLoopsAssumption DEF Subscribe, LogRecord, Loops
  <2>2. /\ log'.since = log.since
        /\ \A s \in Streams : s # t =>
             log'.handled[s] = log.handled[s] /\ log'.last[s] = log.last[s]
    BY <1>1, <1>4, SubscribeLog
  <2>3. \A s \in Streams : subs'[s] \in Nat => s # t /\ subs'[s] = subs[s]
    BY <1>1, <2>1, OffsetAssumption
  <2> HIDE DEF n
  <2>4. loop[n].state = "none"
    BY <1>1, <2>1 DEF UnblockLoops, LogRecord, Loops
  <2>5. loop[n].todo = {}
    BY <1>1, <2>1, <2>4 DEF IdleLoops
  <2>6. \A l \in Loops : loop'[l].todo = loop[l].todo
    <3>1. CASE UNCHANGED loop
      BY <3>1
    <3>2. CASE readStream(n, wire, subs')
      <4>1. loop'[n].todo = {} /\ \A l \in Loops : l # n => loop'[l] = loop[l]
        BY <1>1, <2>1, <3>2, ReadStreamLoop
      <4> QED
        BY <2>5, <4>1
    <3> QED
      BY <2>1, <3>1, <3>2
  <2> QED
    BY <2>1, <2>2, <2>3, <2>6 DEF Open
<1>5. CASE Unblocked
  <2> DEFINE n == Head(unblocks).loop
  <2>1. /\ UNCHANGED <<subs, log>> /\ unblocks # <<>>
        /\ \/ n \in Loops /\ readStream(n, wire, subs) /\ UNCHANGED status
           \/ status' = "closed"
    BY <1>5 DEF Unblocked
  <2>2. CASE n \in Loops /\ readStream(n, wire, subs) /\ UNCHANGED status
    <3>1. 1 \in DOMAIN unblocks /\ n = unblocks[1].loop
      BY <1>1, <2>1
    <3>2. loop[n].state = "none"
      BY <1>1, <2>2, <3>1 DEF UnblockLoops
    <3>3. loop[n].todo = {}
      BY <1>1, <2>2, <3>2 DEF IdleLoops
    <3> HIDE DEF n
    <3>4. loop'[n].todo = {} /\ \A l \in Loops : l # n => loop'[l] = loop[l]
      BY <1>1, <2>2, ReadStreamLoop
    <3> QED
      BY <2>1, <2>2, <3>3, <3>4 DEF Open
  <2>3. CASE status' = "closed"
    BY <2>1, <2>3 DEF Open
  <2> QED
    BY <2>1, <2>2, <2>3
<1>6. CASE ReadFails
  <2> DEFINE n == Head(wire).loop
  <2>1. /\ UNCHANGED <<status, subs>> /\ wire # <<>>
        /\ loop' = [loop EXCEPT ![n] = At("ended")]
        /\ log' = [log EXCEPT !.faults = @ + 1]
    BY <1>6 DEF ReadFails
  <2>2. n \in Loops /\ loop[n].state = "reading"
    BY <1>1, <2>1, TailLoops
  <2> HIDE DEF n
  <2>3. loop[n].todo = {}
    BY <1>1, <2>2 DEF IdleLoops
  <2>4. At("ended").todo = {}
    BY AtType
  <2>5. \A l \in Loops : loop'[l].todo = loop[l].todo
    BY <1>1, <2>1, <2>2, <2>3, <2>4
  <2>6. log'.handled = log.handled /\ log'.last = log.last /\ log'.since = log.since
    BY <1>1, <2>1 DEF LogRecord
  <2> QED
    BY <2>1, <2>5, <2>6 DEF Open
<1> QED
  BY <1>2, <1>3, <1>4, <1>5, <1>6 DEF Next

\* A handler's return calls the next for what is not called yet, if anything.
LEMMA HandledTodo ==
  ASSUME ReaderInv, NEW l \in Loops, Handled(l)
  PROVE  /\ Open' => Open
         /\ UNCHANGED subs /\ log'.since = log.since
         /\ \E next \in SUBSET loop[l].todo :
              /\ loop'[l].todo = loop[l].todo \ next
              /\ \A k \in Loops : k # l => loop'[k].todo = loop[k].todo
              /\ \/ log' = Call(next)
                 \/ next = {} /\ UNCHANGED log
<1>1. /\ loop \in [Loops -> LoopRecords] /\ active \in BOOLEAN /\ LogTypes /\ LogRecord
  BY DEF ReaderInv, CursorInv, Types
<1>2. /\ UNCHANGED <<status, stream, subs, unblocks>>
      /\ \/ \E next \in Starts(loop[l].todo, 1) :
              /\ loop'[l].todo = loop[l].todo \ next
              /\ \A k \in Loops : k # l => loop'[k] = loop[k]
              /\ log' = Call(next)
         \/ /\ loop[l].todo = {} /\ loop'[l].todo = {}
            /\ \A k \in Loops : k # l => loop'[k] = loop[k]
            /\ UNCHANGED log
         \/ loop[l].todo = {} /\ readStream(l, wire, subs) /\ UNCHANGED log
  BY <1>1, HandledCases
<1>3. ASSUME NEW next \in Starts(loop[l].todo, 1)
      PROVE  next \in SUBSET loop[l].todo /\ next \in SUBSET Messages
  <2>1. loop[l].todo \in SUBSET Messages
    BY <1>1 DEF LoopRecords
  <2> QED
    BY <2>1, Started
<1>4. ASSUME NEW next \in SUBSET Messages, log' = Call(next)
      PROVE  log'.since = log.since
  BY <1>1, <1>4, Calls DEF LogTypes
<1>5. ASSUME loop[l].todo = {}, readStream(l, wire, subs)
      PROVE  loop'[l].todo = {} /\ \A k \in Loops : k # l => loop'[k] = loop[k]
  BY <1>1, <1>5, ReadStreamLoop
<1>6. CASE \E next \in Starts(loop[l].todo, 1) :
             /\ loop'[l].todo = loop[l].todo \ next
             /\ \A k \in Loops : k # l => loop'[k] = loop[k]
             /\ log' = Call(next)
  BY <1>2, <1>3, <1>4, <1>6 DEF Open
<1>7. CASE /\ loop[l].todo = {} /\ loop'[l].todo = {}
           /\ \A k \in Loops : k # l => loop'[k] = loop[k]
           /\ UNCHANGED log
  <2>1. {} \in SUBSET loop[l].todo /\ loop'[l].todo = loop[l].todo \ {}
    BY <1>7
  <2> QED
    BY <1>2, <1>7, <2>1 DEF Open
<1> QED
  BY <1>2, <1>5, <1>6, <1>7

\* A reply's messages: all those of its streams between where it begins and ends are
\* called or wait for their turn.
LEMMA ReplyTodo ==
  ASSUME ReaderInv, Reply
  PROVE  LET r == Head(wire) IN
         /\ UNCHANGED <<status, stream>> /\ r.loop \in Loops /\ loop[r.loop].todo = {}
         /\ \A k \in Loops : k # r.loop => loop'[k] = loop[k]
         /\ \A s \in Replied(r) :
              /\ s \in Streams /\ subs[s] # NoSub /\ r.from[s] \in Nat
              /\ r.upto[s] \in 1..MaxMessages /\ r.from[s] < r.upto[s]
              /\ r.offset[s] = Latest \/ r.offset[s] = r.from[s]
              /\ r.offset[s] \in Nat /\ subs[s] \in Nat => r.from[s] <= subs[s]
         /\ \/ UNCHANGED <<subs, log>> /\ loop'[r.loop].todo = {}
            \/ \E messages \in SUBSET Messages :
                 /\ \A s \in Streams, i \in 1..MaxMessages :
                      <<s, i>> \in messages <=>
                        s \in Replied(r) /\ i > r.from[s] /\ i <= r.upto[s]
                 /\ subs' = [s \in Streams |->
                               IF s \in Replied(r) THEN r.upto[s] ELSE subs[s]]
                 /\ \E first \in Starts(messages, Concurrency) :
                      /\ first \in SUBSET messages /\ first \in SUBSET Messages
                      /\ loop'[r.loop].todo = messages \ first
                      /\ log'.handled = Call(first).handled
                      /\ log'.last = Call(first).last
                      /\ \A s \in Streams : log'.since[s] =
                           IF s \in Replied(r) /\ Latest \in {r.offset[s], subs[s]}
                           THEN r.from[s] ELSE log.since[s]
<1> DEFINE r == Head(wire)
<1>1. /\ loop \in [Loops -> LoopRecords] /\ active \in BOOLEAN /\ LogTypes
      /\ WireLoops(wire, loop) /\ IdleLoops(loop) /\ wire \in Seq(Reads)
      /\ stream \in [Streams -> 0..MaxMessages] /\ CursorInv /\ OffsetInv
  BY DEF ReaderInv, CursorInv, WireInv, Types, LoopInv
<1>2. /\ wire # <<>> /\ r = wire[1] /\ 1 \in DOMAIN wire /\ r \in Reads
      /\ r.loop \in Loops /\ UNCHANGED <<status, stream>>
      /\ \/ readStream(r.loop, Tail(wire), subs) /\ UNCHANGED <<subs, log>>
         \/ \E messages \in SUBSET Messages :
              /\ \A s \in Streams, i \in 1..MaxMessages :
                   <<s, i>> \in messages <=>
                     s \in Replied(r) /\ i > r.from[s] /\ i <= r.upto[s]
              /\ subs' = [s \in Streams |->
                            IF s \in Replied(r) THEN r.upto[s] ELSE subs[s]]
              /\ \E first \in Starts(messages, Concurrency) :
                   /\ loop' = [loop EXCEPT ![r.loop] =
                                 [state |-> "emitting", todo |-> messages \ first,
                                  running |-> Cardinality(first)]]
                   /\ log' = [Call(first) EXCEPT
                        !.since = [s \in Streams |->
                           IF s \in Replied(r) /\ Latest \in {r.offset[s], subs[s]}
                           THEN r.from[s] ELSE @[s]]]
  BY <1>1, ReplyCases
<1>3. loop[r.loop].state = "reading"
  BY <1>1, <1>2, TailLoops
<1>4. loop[r.loop].todo = {}
  BY <1>1, <1>2, <1>3 DEF IdleLoops
<1>5. ASSUME NEW s \in Replied(r)
      PROVE  /\ s \in Streams /\ subs[s] # NoSub /\ r.from[s] \in Nat
             /\ r.upto[s] \in 1..MaxMessages /\ r.from[s] < r.upto[s]
             /\ r.offset[s] = Latest \/ r.offset[s] = r.from[s]
             /\ r.offset[s] \in Nat /\ subs[s] \in Nat => r.from[s] <= subs[s]
  <2>1. s \in Streams /\ subs[s] # NoSub /\ r.from[s] # NoSub /\ r.upto[s] # r.from[s]
    BY DEF Replied, Subscribed
  <2>2. r.from[s] \in Cursors
    BY <1>2, <2>1 DEF Reads
  <2>3. Brings(wire[1], s) /\ r.state = "replied"
    BY <1>2, <2>1 DEF Brings, Reply
  <2>4. /\ IF r.offset[s] = Latest THEN r.from[s] \in Nat ELSE r.from[s] = r.offset[s]
        /\ r.from[s] \in Nat => r.from[s] < r.upto[s]
    BY <1>1, <1>2, <2>1, <2>3 DEF OffsetInv, Begins
  <2>5. r.from[s] \in Nat
    <3>1. CASE r.offset[s] = Latest
      BY <2>4, <3>1
    <3>2. CASE r.from[s] = Latest
      BY <2>4, <3>2
    <3> QED
      BY <2>1, <2>2, <3>2 DEF Cursors
  <2>6. r.upto[s] \in Nat /\ r.upto[s] <= stream[s]
    BY <1>1, <1>2, <2>1, <2>3 DEF CursorInv, WireInv, AheadOfCursor
  <2>7. r.offset[s] \in Nat /\ subs[s] \in Nat => r.offset[s] <= subs[s]
    BY <1>1, <1>2, <2>1 DEF OffsetInv, Behind
  <2>8. stream[s] \in 0..MaxMessages
    BY <1>1, <2>1
  <2>9. r.offset[s] = Latest \/ r.offset[s] = r.from[s]
    BY <2>4
  <2>10. r.offset[s] \in Nat => r.offset[s] = r.from[s]
    BY <2>9, OffsetAssumption
  <2> HIDE DEF r
  <2>11. r.upto[s] \in 1..MaxMessages /\ r.from[s] < r.upto[s]
    BY <2>4, <2>5, <2>6, <2>8, SizeAssumption
  <2> QED
    BY <2>1, <2>5, <2>7, <2>9, <2>10, <2>11
<1>6. CASE readStream(r.loop, Tail(wire), subs) /\ UNCHANGED <<subs, log>>
  <2> HIDE DEF r
  <2>1. loop'[r.loop].todo = {} /\ \A k \in Loops : k # r.loop => loop'[k] = loop[k]
    BY <1>1, <1>2, <1>6, ReadStreamLoop
  <2> QED
    BY <1>2, <1>4, <1>5, <1>6, <2>1 DEF r
<1>7. ASSUME NEW messages \in SUBSET Messages,
             \A s \in Streams, i \in 1..MaxMessages :
               <<s, i>> \in messages <=>
                 s \in Replied(r) /\ i > r.from[s] /\ i <= r.upto[s],
             subs' = [s \in Streams |-> IF s \in Replied(r) THEN r.upto[s] ELSE subs[s]],
             NEW first \in Starts(messages, Concurrency),
             loop' = [loop EXCEPT ![r.loop] =
                        [state |-> "emitting", todo |-> messages \ first,
                         running |-> Cardinality(first)]],
             log' = [Call(first) EXCEPT
               !.since = [s \in Streams |->
                  IF s \in Replied(r) /\ Latest \in {r.offset[s], subs[s]}
                  THEN r.from[s] ELSE @[s]]]
      PROVE  /\ \A k \in Loops : k # r.loop => loop'[k] = loop[k]
             /\ first \in SUBSET messages /\ first \in SUBSET Messages
             /\ loop'[r.loop].todo = messages \ first
             /\ log'.handled = Call(first).handled
             /\ log'.last = Call(first).last
             /\ \A s \in Streams : log'.since[s] =
                  IF s \in Replied(r) /\ Latest \in {r.offset[s], subs[s]}
                  THEN r.from[s] ELSE log.since[s]
  <2>1. first \in SUBSET messages /\ first \in SUBSET Messages
    BY <1>7, Started, ConcurrencyAssumption
  <2>2. /\ log'.handled = Call(first).handled
        /\ log'.last = Call(first).last
        /\ \A s \in Streams : log'.since[s] =
             IF s \in Replied(r) /\ Latest \in {r.offset[s], subs[s]}
             THEN r.from[s] ELSE log.since[s]
    BY <1>1, <1>7, <2>1, ReplyLog
  <2> HIDE DEF r
  <2>3. loop'[r.loop].todo = messages \ first
        /\ \A k \in Loops : k # r.loop => loop'[k] = loop[k]
    BY <1>1, <1>2, <1>7, EmittingLoop
  <2> QED
    BY <2>1, <2>2, <2>3
<1>8. CASE \E messages \in SUBSET Messages :
             /\ \A s \in Streams, i \in 1..MaxMessages :
                  <<s, i>> \in messages <=>
                    s \in Replied(r) /\ i > r.from[s] /\ i <= r.upto[s]
             /\ subs' = [s \in Streams |->
                           IF s \in Replied(r) THEN r.upto[s] ELSE subs[s]]
             /\ \E first \in Starts(messages, Concurrency) :
                  /\ loop' = [loop EXCEPT ![r.loop] =
                                [state |-> "emitting", todo |-> messages \ first,
                                 running |-> Cardinality(first)]]
                  /\ log' = [Call(first) EXCEPT
                       !.since = [s \in Streams |->
                          IF s \in Replied(r) /\ Latest \in {r.offset[s], subs[s]}
                          THEN r.from[s] ELSE @[s]]]
  <2>1. PICK messages \in SUBSET Messages :
          /\ \A s \in Streams, i \in 1..MaxMessages :
               <<s, i>> \in messages <=>
                 s \in Replied(r) /\ i > r.from[s] /\ i <= r.upto[s]
          /\ subs' = [s \in Streams |-> IF s \in Replied(r) THEN r.upto[s] ELSE subs[s]]
          /\ \E first \in Starts(messages, Concurrency) :
               /\ loop' = [loop EXCEPT ![r.loop] =
                             [state |-> "emitting", todo |-> messages \ first,
                              running |-> Cardinality(first)]]
               /\ log' = [Call(first) EXCEPT
                    !.since = [s \in Streams |->
                       IF s \in Replied(r) /\ Latest \in {r.offset[s], subs[s]}
                       THEN r.from[s] ELSE @[s]]]
    BY <1>8
  <2>2. PICK first \in Starts(messages, Concurrency) :
          /\ loop' = [loop EXCEPT ![r.loop] =
                        [state |-> "emitting", todo |-> messages \ first,
                         running |-> Cardinality(first)]]
          /\ log' = [Call(first) EXCEPT
               !.since = [s \in Streams |->
                  IF s \in Replied(r) /\ Latest \in {r.offset[s], subs[s]}
                  THEN r.from[s] ELSE @[s]]]
    BY <2>1
  <2>3. /\ \A k \in Loops : k # r.loop => loop'[k] = loop[k]
        /\ first \in SUBSET messages /\ first \in SUBSET Messages
        /\ loop'[r.loop].todo = messages \ first
        /\ log'.handled = Call(first).handled
        /\ log'.last = Call(first).last
        /\ \A s \in Streams : log'.since[s] =
             IF s \in Replied(r) /\ Latest \in {r.offset[s], subs[s]}
             THEN r.from[s] ELSE log.since[s]
    BY <1>7, <2>1, <2>2
  <2> HIDE DEF r
  <2> QED
    BY <1>2, <1>4, <1>5, <2>1, <2>2, <2>3 DEF r
<1> QED
  BY <1>2, <1>6, <1>8

\* A call for messages adds to what has been handed out.
LEMMA CallAdds ==
  ASSUME ReaderInv, NEW messages \in SUBSET Messages
  PROVE  /\ \A s \in Streams, i \in 1..MaxMessages :
              /\ log.handled[s][i] > 0 => Call(messages).handled[s][i] > 0
              /\ Open /\ subs[s] # NoSub /\ <<s, i>> \in messages
                   => Call(messages).handled[s][i] > 0
         /\ \A s \in Streams : (\A i \in 1..MaxMessages : <<s, i>> \notin messages)
              => Call(messages).last[s] = log.last[s]
         /\ \A s \in Streams, i \in 1..MaxMessages :
              /\ Open /\ subs[s] # NoSub /\ <<s, i>> \in messages
              /\ \A j \in 1..MaxMessages : <<s, j>> \in messages => j <= i
              => Call(messages).last[s] = i
<1>1. LogRecord /\ LogTypes
  BY DEF ReaderInv, CursorInv, Types
<1>2. \A s \in Streams : Open /\ subs[s] # NoSub => Handles(s)
  BY DEF Open, Handles, Subscribed
<1> QED
  BY <1>1, <1>2, Calls DEF LogTypes

\* No step skips a message.
LEMMA SkipStep ==
  ASSUME SkipInv, ReaderInv, [Next]_vars
  PROVE  SkipInv'
<1>1. CASE ~Reply /\ \A l \in Loops : ~Handled(l)
  <2>1. /\ Open' => Open
        /\ \A s \in Streams : subs'[s] \in Nat =>
             /\ subs'[s] = subs[s] /\ log'.handled[s] = log.handled[s]
             /\ log'.since[s] = log.since[s]
        /\ Open' => \A l \in Loops : loop'[l].todo = loop[l].todo
    BY <1>1, QuietSteps
  <2>2. CASE Open'
    BY <2>1, <2>2, KeepsSkip
  <2>3. CASE ~Open'
    BY <2>3 DEF SkipInv
  <2> QED
    BY <2>2, <2>3
<1>2. ASSUME NEW l \in Loops, Handled(l)
      PROVE  SkipInv'
  <2>1. PICK next \in SUBSET loop[l].todo :
          /\ loop'[l].todo = loop[l].todo \ next
          /\ \A k \in Loops : k # l => loop'[k].todo = loop[k].todo
          /\ log' = Call(next) \/ (next = {} /\ UNCHANGED log)
    BY <1>2, HandledTodo
  <2>2. (Open' => Open) /\ UNCHANGED subs /\ log'.since = log.since
    BY <1>2, HandledTodo
  <2>3. next \in SUBSET Messages
    BY <2>1 DEF ReaderInv, Types, LoopRecords
  <2>4. ASSUME NEW s \in Streams, NEW i \in 1..MaxMessages, Open, subs[s] \in Nat
        PROVE  /\ log.handled[s][i] > 0 => log'.handled[s][i] > 0
               /\ \A k \in Loops : <<s, i>> \in loop[k].todo =>
                    <<s, i>> \in loop'[k].todo \/ log'.handled[s][i] > 0
    <3>1. subs[s] # NoSub
      BY <2>4, OffsetAssumption
    <3>2. /\ log.handled[s][i] > 0 => Call(next).handled[s][i] > 0
          /\ <<s, i>> \in next => Call(next).handled[s][i] > 0
      BY <2>3, <2>4, <3>1, CallAdds
    <3>3. /\ log.handled[s][i] > 0 => log'.handled[s][i] > 0
          /\ <<s, i>> \in next => log'.handled[s][i] > 0
      BY <2>1, <3>2
    <3> QED
      BY <2>1, <3>3
  <2> QED
    BY <2>2, <2>4, KeepsSkip
<1>3. CASE Reply
  <2> DEFINE r == Head(wire)
  <2>1. /\ UNCHANGED status /\ r.loop \in Loops /\ loop[r.loop].todo = {}
        /\ \A k \in Loops : k # r.loop => loop'[k] = loop[k]
        /\ \A s \in Replied(r) :
             /\ s \in Streams /\ subs[s] # NoSub /\ r.from[s] \in Nat
             /\ r.upto[s] \in 1..MaxMessages
             /\ r.offset[s] = Latest \/ r.offset[s] = r.from[s]
             /\ r.offset[s] \in Nat /\ subs[s] \in Nat => r.from[s] <= subs[s]
        /\ \/ UNCHANGED <<subs, log>> /\ loop'[r.loop].todo = {}
           \/ \E messages \in SUBSET Messages :
                /\ \A s \in Streams, i \in 1..MaxMessages :
                     <<s, i>> \in messages <=>
                       s \in Replied(r) /\ i > r.from[s] /\ i <= r.upto[s]
                /\ subs' = [s \in Streams |->
                              IF s \in Replied(r) THEN r.upto[s] ELSE subs[s]]
                /\ \E first \in SUBSET messages :
                     /\ first \in SUBSET Messages
                     /\ loop'[r.loop].todo = messages \ first
                     /\ log'.handled = Call(first).handled
                     /\ \A s \in Streams : log'.since[s] =
                          IF s \in Replied(r) /\ Latest \in {r.offset[s], subs[s]}
                          THEN r.from[s] ELSE log.since[s]
    BY <1>3, ReplyTodo
  <2> HIDE DEF r
  <2>2. Open' <=> Open
    BY <2>1 DEF Open
  <2>3. CASE UNCHANGED <<subs, log>> /\ loop'[r.loop].todo = {}
    <3>1. \A l \in Loops : loop'[l].todo = loop[l].todo
      BY <2>1, <2>3
    <3> QED
      BY <2>2, <2>3, <3>1, KeepsSkip
  <2>4. ASSUME NEW messages \in SUBSET Messages, NEW first \in SUBSET messages,
               \A s \in Streams, i \in 1..MaxMessages :
                 <<s, i>> \in messages <=>
                   s \in Replied(r) /\ i > r.from[s] /\ i <= r.upto[s],
               subs' = [s \in Streams |-> IF s \in Replied(r) THEN r.upto[s] ELSE subs[s]],
               first \in SUBSET Messages,
               loop'[r.loop].todo = messages \ first,
               log'.handled = Call(first).handled,
               \A s \in Streams : log'.since[s] =
                 IF s \in Replied(r) /\ Latest \in {r.offset[s], subs[s]}
                 THEN r.from[s] ELSE log.since[s]
        PROVE  SkipInv'
    <3> SUFFICES ASSUME Open', NEW s \in Streams, subs'[s] \in Nat,
                        NEW i \in (log'.since[s] + 1)..subs'[s]
                 PROVE  log'.handled[s][i] > 0 \/ \E l \in Loops : <<s, i>> \in loop'[l].todo
      BY DEF SkipInv
    <3>1. /\ subs[s] \in Cursors /\ log.since[s] \in Nat /\ MaxMessages \in Nat
          /\ stream[s] \in 0..MaxMessages
          /\ subs[s] \in Nat => subs[s] <= stream[s]
      BY SizeAssumption DEF ReaderInv, CursorInv, Types, LogTypes
    <3>2. ASSUME i \in 1..MaxMessages, subs[s] \in Nat, i > log.since[s], i <= subs[s]
          PROVE  log'.handled[s][i] > 0 \/ \E l \in Loops : <<s, i>> \in loop'[l].todo
      <4>1. i \in (log.since[s] + 1)..subs[s]
        BY <3>1, <3>2
      <4>2. log.handled[s][i] > 0 \/ \E l \in Loops : <<s, i>> \in loop[l].todo
        BY <2>2, <3>2, <4>1 DEF SkipInv
      <4>3. log.handled[s][i] > 0 => log'.handled[s][i] > 0
        BY <2>4, <3>2, CallAdds
      <4>4. \A l \in Loops : <<s, i>> \in loop[l].todo => <<s, i>> \in loop'[l].todo
        BY <2>1
      <4> QED
        BY <4>2, <4>3, <4>4
    <3>3. ASSUME s \in Replied(r), i > r.from[s], i <= r.upto[s], i \in 1..MaxMessages
          PROVE  log'.handled[s][i] > 0 \/ \E l \in Loops : <<s, i>> \in loop'[l].todo
      <4>1. <<s, i>> \in messages /\ subs[s] # NoSub
        BY <2>1, <2>4, <3>3
      <4>2. CASE <<s, i>> \in first
        <5>1. Call(first).handled[s][i] > 0
          BY <2>2, <2>4, <3>3, <4>1, <4>2, CallAdds
        <5> QED
          BY <2>4, <5>1
      <4>3. CASE <<s, i>> \notin first
        BY <2>1, <2>4, <4>1, <4>3
      <4> QED
        BY <4>2, <4>3
    <3>4. CASE s \notin Replied(r)
      <4>1. subs'[s] = subs[s] /\ log'.since[s] = log.since[s]
        BY <2>4, <3>4
      <4>2. i \in 1..MaxMessages /\ i > log.since[s] /\ i <= subs[s] /\ subs[s] \in Nat
        BY <3>1, <4>1
      <4> QED
        BY <3>2, <4>2
    <3>5. CASE s \in Replied(r)
      <4>1. /\ subs'[s] = r.upto[s] /\ r.upto[s] \in 1..MaxMessages /\ r.from[s] \in Nat
            /\ log'.since[s] = IF Latest \in {r.offset[s], subs[s]} THEN r.from[s]
                               ELSE log.since[s]
            /\ r.offset[s] = Latest \/ r.offset[s] = r.from[s]
            /\ r.offset[s] \in Nat /\ subs[s] \in Nat => r.from[s] <= subs[s]
            /\ subs[s] # NoSub
        BY <2>1, <2>4, <3>5
      <4>2. i \in Nat /\ i <= r.upto[s] /\ i \in 1..MaxMessages /\ i > log'.since[s]
        BY <3>1, <4>1
      <4>3. CASE i > r.from[s]
        BY <3>3, <3>5, <4>2, <4>3
      <4>4. CASE ~(i > r.from[s])
        <5>1. Latest \notin {r.offset[s], subs[s]} /\ log'.since[s] = log.since[s]
          BY <4>1, <4>2, <4>4
        <5>2. r.offset[s] = r.from[s] /\ subs[s] \in Nat
          BY <3>1, <4>1, <5>1 DEF Cursors
        <5>3. r.from[s] <= subs[s] /\ i <= subs[s]
          BY <4>1, <4>2, <4>4, <5>2
        <5> QED
          BY <3>2, <4>2, <5>1, <5>2, <5>3
      <4> QED
        BY <4>3, <4>4
    <3> QED
      BY <3>4, <3>5
  <2>5. CASE \E messages \in SUBSET Messages :
                /\ \A s \in Streams, i \in 1..MaxMessages :
                     <<s, i>> \in messages <=>
                       s \in Replied(r) /\ i > r.from[s] /\ i <= r.upto[s]
                /\ subs' = [s \in Streams |->
                              IF s \in Replied(r) THEN r.upto[s] ELSE subs[s]]
                /\ \E first \in SUBSET messages :
                     /\ first \in SUBSET Messages
                     /\ loop'[r.loop].todo = messages \ first
                     /\ log'.handled = Call(first).handled
                     /\ \A s \in Streams : log'.since[s] =
                          IF s \in Replied(r) /\ Latest \in {r.offset[s], subs[s]}
                          THEN r.from[s] ELSE log.since[s]
    BY <2>4, <2>5
  <2> QED
    BY <2>1, <2>3, <2>5
<1> QED
  BY <1>1, <1>2, <1>3

\* No message is skipped: whatever replies arrive to loops that began at different
\* offsets, a message between where the last read at '$' began and the cursor has been
\* handed out or waits for its turn.
THEOREM NothingLost == Spec => []NothingSkipped
<1>1. Init => SkipInv
  BY OffsetAssumption DEF Init, SkipInv
<1>2. SkipInv /\ ReaderInv /\ [Next]_vars => SkipInv'
  BY SkipStep
<1>3. SkipInv => NothingSkipped
  BY DEF SkipInv, NothingSkipped, Open
<1> QED
  BY <1>1, <1>2, <1>3, ReaderInvariance, PTL DEF Spec

\* If a reply may call all its handlers at once, none waits, and the bus was last called
\* for the message at its cursor.
LatestInv ==
  Concurrency >= Cardinality(Streams) * MaxMessages /\ Open =>
    /\ \A l \in Loops : loop[l].todo = {}
    /\ \A s \in Streams : subs[s] \in Nat => log.last[s] = subs[s]

\* No step leaves the bus with an older message.
LEMMA LatestStep ==
  ASSUME LatestInv, ReaderInv, [Next]_vars
  PROVE  LatestInv'
<1> SUFFICES ASSUME Concurrency >= Cardinality(Streams) * MaxMessages, Open'
             PROVE  /\ \A l \in Loops : loop'[l].todo = {}
                    /\ \A s \in Streams : subs'[s] \in Nat => log'.last[s] = subs'[s]
  BY DEF LatestInv
<1>1. CASE ~Reply /\ \A l \in Loops : ~Handled(l)
  <2>1. /\ Open
        /\ \A s \in Streams : subs'[s] \in Nat =>
             subs'[s] = subs[s] /\ log'.last[s] = log.last[s]
        /\ \A l \in Loops : loop'[l].todo = loop[l].todo
    BY <1>1, QuietSteps
  <2> QED
    BY <2>1 DEF LatestInv
<1>2. ASSUME NEW l \in Loops, Handled(l)
      PROVE  /\ \A k \in Loops : loop'[k].todo = {}
             /\ \A s \in Streams : subs'[s] \in Nat => log'.last[s] = subs'[s]
  <2>1. PICK next \in SUBSET loop[l].todo :
          /\ loop'[l].todo = loop[l].todo \ next
          /\ \A k \in Loops : k # l => loop'[k].todo = loop[k].todo
          /\ log' = Call(next) \/ (next = {} /\ UNCHANGED log)
    BY <1>2, HandledTodo
  <2>2. Open /\ UNCHANGED subs
    BY <1>2, HandledTodo
  <2>3. next = {}
    BY <2>1, <2>2 DEF LatestInv
  <2>4. \A s \in Streams : Call({}).last[s] = log.last[s]
    <3>1. {} \in SUBSET Messages
      OBVIOUS
    <3> QED
      BY <3>1, CallAdds
  <2>5. \A s \in Streams : log'.last[s] = log.last[s]
    BY <2>1, <2>3, <2>4
  <2> QED
    BY <2>1, <2>2, <2>5 DEF LatestInv
<1>3. CASE Reply
  <2> DEFINE r == Head(wire)
  <2>1. /\ UNCHANGED status /\ loop[r.loop].todo = {}
        /\ \A k \in Loops : k # r.loop => loop'[k] = loop[k]
        /\ \A s \in Replied(r) :
             /\ s \in Streams /\ subs[s] # NoSub /\ r.from[s] \in Nat
             /\ r.upto[s] \in 1..MaxMessages /\ r.from[s] < r.upto[s]
        /\ \/ UNCHANGED <<subs, log>> /\ loop'[r.loop].todo = {}
           \/ \E messages \in SUBSET Messages :
                /\ \A s \in Streams, i \in 1..MaxMessages :
                     <<s, i>> \in messages <=>
                       s \in Replied(r) /\ i > r.from[s] /\ i <= r.upto[s]
                /\ subs' = [s \in Streams |->
                              IF s \in Replied(r) THEN r.upto[s] ELSE subs[s]]
                /\ \E first \in Starts(messages, Concurrency) :
                     /\ loop'[r.loop].todo = messages \ first
                     /\ log'.last = Call(first).last
    BY <1>3, ReplyTodo
  <2> HIDE DEF r
  <2>2. Open
    BY <2>1 DEF Open
  <2>3. CASE UNCHANGED <<subs, log>> /\ loop'[r.loop].todo = {}
    BY <2>1, <2>2, <2>3 DEF LatestInv
  <2>4. ASSUME NEW messages \in SUBSET Messages,
               \A s \in Streams, i \in 1..MaxMessages :
                 <<s, i>> \in messages <=>
                   s \in Replied(r) /\ i > r.from[s] /\ i <= r.upto[s],
               subs' = [s \in Streams |-> IF s \in Replied(r) THEN r.upto[s] ELSE subs[s]],
               NEW first \in Starts(messages, Concurrency),
               loop'[r.loop].todo = messages \ first,
               log'.last = Call(first).last
        PROVE  /\ \A k \in Loops : loop'[k].todo = {}
               /\ \A s \in Streams : subs'[s] \in Nat => log'.last[s] = subs'[s]
    <3>1. first = messages
      <4>1. /\ Cardinality(messages) \in Nat
            /\ Cardinality(messages) <= Cardinality(Streams) * MaxMessages
        BY <2>4, MessagesFinite
      <4>2. Cardinality(Streams) * MaxMessages \in Nat
        <5>1. Cardinality(Streams) \in Nat /\ MaxMessages \in Nat
          BY MessagesFinite
        <5> QED
          BY <5>1
      <4>3. Cardinality(messages) <= Concurrency
        BY <4>1, <4>2, ConcurrencyAssumption
      <4> QED
        BY <2>4, <4>3, Started, ConcurrencyAssumption
    <3>2. \A k \in Loops : loop'[k].todo = {}
      <4>1. loop'[r.loop].todo = {}
        BY <2>4, <3>1
      <4> QED
        BY <2>1, <2>2, <4>1 DEF LatestInv
    <3>3. ASSUME NEW s \in Streams, subs'[s] \in Nat
          PROVE  log'.last[s] = subs'[s]
      <4>1. CASE s \in Replied(r)
        <5>1. /\ subs'[s] = r.upto[s] /\ r.upto[s] \in 1..MaxMessages /\ subs[s] # NoSub
              /\ r.from[s] \in Nat /\ r.from[s] < r.upto[s]
          BY <2>1, <2>4, <4>1
        <5>2. <<s, r.upto[s]>> \in messages
          BY <2>4, <4>1, <5>1
        <5>3. \A j \in 1..MaxMessages : <<s, j>> \in messages => j <= r.upto[s]
          BY <2>4
        <5>4. Call(messages).last[s] = r.upto[s]
          BY <2>2, <5>1, <5>2, <5>3, CallAdds
        <5> QED
          BY <2>4, <3>1, <5>1, <5>4
      <4>2. CASE s \notin Replied(r)
        <5>1. \A i \in 1..MaxMessages : <<s, i>> \notin messages
          BY <2>4, <4>2
        <5>2. Call(messages).last[s] = log.last[s]
          BY <5>1, CallAdds
        <5>3. subs'[s] = subs[s] /\ log'.last[s] = log.last[s]
          BY <2>4, <3>1, <4>2, <5>2
        <5> QED
          BY <2>2, <3>3, <5>3 DEF LatestInv
      <4> QED
        BY <4>1, <4>2
    <3> QED
      BY <3>2, <3>3
  <2>5. CASE \E messages \in SUBSET Messages :
                /\ \A s \in Streams, i \in 1..MaxMessages :
                     <<s, i>> \in messages <=>
                       s \in Replied(r) /\ i > r.from[s] /\ i <= r.upto[s]
                /\ subs' = [s \in Streams |->
                              IF s \in Replied(r) THEN r.upto[s] ELSE subs[s]]
                /\ \E first \in Starts(messages, Concurrency) :
                     /\ loop'[r.loop].todo = messages \ first
                     /\ log'.last = Call(first).last
    BY <2>4, <2>5
  <2> QED
    BY <2>1, <2>3, <2>5
<1> QED
  BY <1>1, <1>2, <1>3

\* A duplicate never has the last word: if a reply may call all its handlers at once, the
\* bus was last called for the message at its cursor, whichever replies overtook others.
THEOREM LatestHasTheLastWord == Spec => []SettledOnLatest
<1>1. Init => LatestInv
  BY AtType, OffsetAssumption DEF Init, LatestInv
<1>2. LatestInv /\ ReaderInv /\ [Next]_vars => LatestInv'
  BY LatestStep
<1>3. LatestInv => SettledOnLatest
  BY DEF LatestInv, SettledOnLatest, Open
<1> QED
  BY <1>1, <1>2, <1>3, ReaderInvariance, PTL DEF Spec
=============================================================================
