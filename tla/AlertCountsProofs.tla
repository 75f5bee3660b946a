-------------------------- MODULE AlertCountsProofs --------------------------
(***************************************************************************)
(* Proofs about AlertCounts: the types, and that the counts and the        *)
(* deleted rules are consistent once the pipelines have been executed, for *)
(* any number of servers, rules, alerts and calls.                         *)
(*                                                                         *)
(* What the order of the commands does not matter for is said of the set   *)
(* of a server's pipelines: a pipeline that changes counts ends with their *)
(* sum, and one that deletes a rule goes on to remove it from the index.   *)
(***************************************************************************)
EXTENDS AlertCounts, FiniteSetTheorems, TLAPS

\* The pipelines among the ones a server waits for.
Pipes(w) == {w[i] : i \in DOMAIN w}

-----------------------------------------------------------------------------
(* Sequences of pipelines.                                                  *)

\* Of a pipeline there is a first command, and a pipeline or nothing after it.
LEMMA FirstCommand ==
  ASSUME NEW p \in Pipelines
  PROVE  /\ Len(p) \in Nat \ {0} /\ DOMAIN p = 1..Len(p)
         /\ Head(p) = p[1] /\ Head(p) \in Commands
         /\ Len(p) # 1 =>
              /\ Tail(p) \in Pipelines /\ Len(Tail(p)) = Len(p) - 1
              /\ \A k \in 1..Len(Tail(p)) : Tail(p)[k] = p[k + 1]
<1>1. p \in Seq(Commands) /\ p # <<>>
  BY DEF Pipelines
<1>2. Len(p) \in Nat \ {0} /\ DOMAIN p = 1..Len(p) /\ Head(p) = p[1] /\ Head(p) \in Commands
  BY <1>1
<1>3. ASSUME Len(p) # 1
      PROVE  /\ Tail(p) \in Pipelines /\ Len(Tail(p)) = Len(p) - 1
             /\ \A k \in 1..Len(Tail(p)) : Tail(p)[k] = p[k + 1]
  <2> DEFINE t == Tail(p)
  <2>1. t \in Seq(Commands) /\ Len(t) = Len(p) - 1 /\ \A k \in 1..Len(t) : t[k] = p[k + 1]
    BY <1>1
  <2>2. Len(<<>>) = 0
    OBVIOUS
  <2> HIDE DEF t
  <2>3. t # <<>>
    BY <1>2, <1>3, <2>1, <2>2
  <2> QED
    BY <2>1, <2>3 DEF Pipelines, t
<1> QED
  BY <1>2, <1>3

\* More pipelines are sent.
LEMMA PipesSent ==
  ASSUME NEW w \in Seq(Pipelines), NEW ps \in Seq(Pipelines)
  PROVE  /\ w \o ps \in Seq(Pipelines)
         /\ Pipes(w \o ps) = Pipes(w) \cup Pipes(ps)
<1> DEFINE v == w \o ps
<1>1. /\ v \in Seq(Pipelines) /\ Len(v) = Len(w) + Len(ps)
      /\ Len(w) \in Nat /\ Len(ps) \in Nat
      /\ DOMAIN v = 1..Len(v) /\ DOMAIN w = 1..Len(w) /\ DOMAIN ps = 1..Len(ps)
      /\ \A i \in 1..Len(w) : v[i] = w[i]
      /\ \A i \in 1..Len(ps) : v[Len(w) + i] = ps[i]
  OBVIOUS
<1>2. \A i \in DOMAIN v : i \in 1..Len(w) \/ (i - Len(w) \in 1..Len(ps) /\ v[i] = ps[i - Len(w)])
  OBVIOUS
<1> HIDE DEF v
<1>3. \A i \in 1..Len(w) : i \in DOMAIN v
  BY <1>1
<1>4. \A i \in 1..Len(ps) : Len(w) + i \in DOMAIN v
  BY <1>1
<1>5. Pipes(v) \subseteq Pipes(w) \cup Pipes(ps)
  BY <1>1, <1>2 DEF Pipes
<1>6. Pipes(w) \cup Pipes(ps) \subseteq Pipes(v)
  BY <1>1, <1>3, <1>4 DEF Pipes
<1> QED
  BY <1>1, <1>5, <1>6 DEF v

\* The sequence of one pipeline.
LEMMA OnePipe ==
  ASSUME NEW p \in Pipelines
  PROVE  <<p>> \in Seq(Pipelines) /\ Pipes(<<p>>) = {p}
BY DEF Pipes

\* One pipeline is sent.
LEMMA PipeSent ==
  ASSUME NEW w \in Seq(Pipelines), NEW p \in Pipelines
  PROVE  /\ w \o <<p>> \in Seq(Pipelines)
         /\ Pipes(w \o <<p>>) = Pipes(w) \cup {p}
BY OnePipe, PipesSent

\* The first command of a server is executed: its pipeline gets shorter, or ends.
LEMMA PipesRest ==
  ASSUME NEW w \in Seq(Pipelines), w # <<>>
  PROVE  /\ Head(w) \in Pipelines /\ Tail(w) \in Seq(Pipelines)
         /\ Rest(w) \in Seq(Pipelines)
         /\ Pipes(w) = Pipes(Tail(w)) \cup {Head(w)}
         /\ Pipes(Rest(w)) = Pipes(Tail(w)) \cup
              IF Len(Head(w)) = 1 THEN {} ELSE {Tail(Head(w))}
<1> DEFINE v == Tail(w)
           h == Head(w)
<1>1. /\ h \in Pipelines /\ v \in Seq(Pipelines) /\ h = w[1]
      /\ DOMAIN w = 1..Len(w) /\ Len(w) \in Nat \ {0}
      /\ DOMAIN v = 1..(Len(w) - 1)
      /\ \A i \in 1..(Len(w) - 1) : v[i] = w[i + 1]
  OBVIOUS
<1> HIDE DEF v, h
<1>2. Pipes(w) = Pipes(v) \cup {h}
  <2>1. \A i \in DOMAIN w : i = 1 \/ (i - 1 \in DOMAIN v /\ v[i - 1] = w[i])
    BY <1>1
  <2>2. 1 \in DOMAIN w /\ \A i \in DOMAIN v : i + 1 \in DOMAIN w
    BY <1>1
  <2> QED
    BY <1>1, <2>1, <2>2 DEF Pipes
<1>3. CASE Len(h) = 1
  BY <1>1, <1>2, <1>3 DEF Rest, v, h
<1>4. CASE Len(h) # 1
  <2> DEFINE t == Tail(h)
  <2>1. t \in Pipelines
    BY <1>1, <1>4, FirstCommand
  <2>2. <<t>> \in Seq(Pipelines) /\ Pipes(<<t>>) = {t}
    BY <2>1, OnePipe
  <2>3. Rest(w) = <<t>> \o v
    BY <1>4 DEF Rest, v, h
  <2> HIDE DEF t
  <2>4. Rest(w) \in Seq(Pipelines) /\ Pipes(Rest(w)) = {t} \cup Pipes(v)
    BY <1>1, <2>2, <2>3, PipesSent
  <2> QED
    BY <1>1, <1>2, <1>4, <2>4 DEF t, v, h
<1> QED
  BY <1>3, <1>4

-----------------------------------------------------------------------------
(* The database.                                                            *)

\* The fields of the database.
LEMMA Fields ==
  ASSUME NEW d \in Database
  PROVE  /\ d.hash \in [Rules -> Hash \cup {Absent}]
         /\ d.alerts \in [Rules -> SUBSET Alerts]
         /\ d.current \in [Rules -> Alerts \cup {NoAlert}]
         /\ d.index \in SUBSET Rules /\ d.total \in Nat
BY DEF Database

\* How many alerts there can be.
LEMMA AlertsFinite ==
  \A S \in SUBSET Alerts : IsFiniteSet(S) /\ Cardinality(S) \in 0..MaxAlerts
<1>1. MaxAlerts \in Nat
  BY CountsAssumption
<1>2. IsFiniteSet(Alerts) /\ Cardinality(Alerts) = MaxAlerts
  <2>1. IsFiniteSet(1..MaxAlerts) /\ Cardinality(1..MaxAlerts) = IF 1 > MaxAlerts THEN 0 ELSE MaxAlerts - 1 + 1
    BY <1>1, FS_Interval
  <2> QED
    BY <1>1, <2>1 DEF Alerts
<1> SUFFICES ASSUME NEW S \in SUBSET Alerts
             PROVE  IsFiniteSet(S) /\ Cardinality(S) \in 0..MaxAlerts
  OBVIOUS
<1>3. IsFiniteSet(S) /\ Cardinality(S) <= MaxAlerts
  BY <1>2, FS_Subset
<1> QED
  BY <1>1, <1>3, FS_CardinalityType

\* The alerts of a rule are written.
LEMMA AlertsSet ==
  ASSUME NEW d \in Database, NEW r \in Rules, NEW S \in SUBSET Alerts
  PROVE  /\ SetAlerts(d, r, S) \in Database
         /\ SetAlerts(d, r, S).hash = d.hash /\ SetAlerts(d, r, S).index = d.index
         /\ SetAlerts(d, r, S).alerts[r] = S
         /\ \A q \in Rules : q # r => SetAlerts(d, r, S).alerts[q] = d.alerts[q]
BY DEF SetAlerts, Database

\* The current alert of a rule is written.
LEMMA CurrentSet ==
  ASSUME NEW d \in Database, NEW r \in Rules, NEW id \in Alerts \cup {NoAlert}
  PROVE  /\ SetCurrent(d, r, id) \in Database
         /\ SetCurrent(d, r, id).hash = d.hash /\ SetCurrent(d, r, id).index = d.index
         /\ SetCurrent(d, r, id).alerts = d.alerts
BY DEF SetCurrent, Database

\* A hash is written.
LEMMA HashSet ==
  ASSUME NEW d \in Database, NEW r \in Rules, NEW h \in Hash \cup {Absent}
  PROVE  /\ SetHash(d, r, h) \in Database
         /\ SetHash(d, r, h).alerts = d.alerts /\ SetHash(d, r, h).index = d.index
         /\ SetHash(d, r, h).hash[r] = h
         /\ \A q \in Rules : q # r => SetHash(d, r, h).hash[q] = d.hash[q]
BY DEF SetHash, Database

\* The count of a rule is updated: a rule that is not active stays so.
LEMMA CountUpdated ==
  ASSUME NEW d \in Database, NEW r \in Rules
  PROVE  /\ UpdateRuleAlertCount(d, r) \in Database
         /\ UpdateRuleAlertCount(d, r).alerts = d.alerts
         /\ UpdateRuleAlertCount(d, r).index = d.index
         /\ \A q \in Rules : IsActive(UpdateRuleAlertCount(d, r), q) => IsActive(d, q)
<1> DEFINE h == [isActive |-> IsActive(d, r), alertCount |-> Cardinality(d.alerts[r])]
           e == UpdateRuleAlertCount(d, r)
<1>1. /\ d.alerts[r] \in SUBSET Alerts
      /\ d.hash[r] \in Hash \cup {Absent}
  BY Fields
<1>2. IsActive(d, r) \in BOOLEAN
  BY <1>1 DEF IsActive, Hash
<1>3. Cardinality(d.alerts[r]) \in 0..MaxAlerts
  BY <1>1, AlertsFinite
<1>4. h \in Hash
  BY <1>2, <1>3, Zenon DEF Hash
<1>5. e = SetHash(d, r, h)
  BY DEF UpdateRuleAlertCount
<1>6. h.isActive = IsActive(d, r)
  BY Zenon
<1> HIDE DEF h, e
<1>7. /\ e \in Database /\ e.alerts = d.alerts /\ e.index = d.index
      /\ e.hash[r] = h
      /\ \A q \in Rules : q # r => e.hash[q] = d.hash[q]
  BY <1>4, <1>5, HashSet
<1>8. \A q \in Rules : IsActive(e, q) => IsActive(d, q)
  <2> SUFFICES ASSUME NEW q \in Rules, IsActive(e, q) PROVE IsActive(d, q)
    OBVIOUS
  <2>1. CASE q = r
    <3>1. e.hash[r].isActive
      BY <2>1 DEF IsActive
    <3> QED
      BY <1>6, <1>7, <2>1, <3>1, Zenon
  <2>2. CASE q # r
    BY <1>7, <2>2 DEF IsActive
  <2> QED
    BY <2>1, <2>2
<1> QED
  BY <1>7, <1>8 DEF e

\* The sum of the counts is a number.
LEMMA SumType ==
  ASSUME NEW d \in Database
  PROVE  SumOfCounts(d) \in Nat
<1>1. \A r \in Counts(d) : r \in Rules /\ d.hash[r].alertCount \in 0..MaxAlerts
  <2>1. \A r \in Counts(d) : r \in Rules /\ d.hash[r] \in Hash
    BY Fields DEF Counts
  <2> QED
    BY <2>1 DEF Hash
<1>2. \A n \in 0..MaxAlerts : 1..n \subseteq 1..MaxAlerts
  BY CountsAssumption
<1>3. Counted(d) \subseteq Rules \X (1..MaxAlerts)
  BY <1>1, <1>2 DEF Counted
<1>4. IsFiniteSet(Rules \X (1..MaxAlerts))
  <2>1. IsFiniteSet(1..MaxAlerts)
    BY CountsAssumption, FS_Interval
  <2> QED
    BY <2>1, CountsAssumption, FS_Product
<1>5. IsFiniteSet(Counted(d))
  BY <1>3, <1>4, FS_Subset
<1> QED
  BY <1>5, FS_CardinalityType DEF SumOfCounts

\* The sum is written.
LEMMA SumUpdated ==
  ASSUME NEW d \in Database
  PROVE  /\ UpdateQueueAlertCount(d) \in Database
         /\ UpdateQueueAlertCount(d).alerts = d.alerts
         /\ UpdateQueueAlertCount(d).index = d.index
         /\ UpdateQueueAlertCount(d).hash = d.hash
         /\ UpdateQueueAlertCount(d).total = SumOfCounts(d)
         /\ SumOfCounts(UpdateQueueAlertCount(d)) = SumOfCounts(d)
<1> DEFINE n == SumOfCounts(d)
           e == UpdateQueueAlertCount(d)
<1>1. n \in Nat
  BY SumType
<1>2. e = [d EXCEPT !.total = n]
  BY DEF UpdateQueueAlertCount
<1> HIDE DEF n, e
<1>3. /\ e \in Database /\ e.alerts = d.alerts /\ e.index = d.index /\ e.hash = d.hash
      /\ e.total = n
  BY <1>1, <1>2 DEF Database
<1>4. Counts(e) = Counts(d)
  BY <1>3 DEF Counts
<1>5. Counted(e) = Counted(d)
  BY <1>3, <1>4 DEF Counted
<1>6. SumOfCounts(e) = n
  BY <1>5 DEF SumOfCounts, n
<1> QED
  BY <1>3, <1>6 DEF n, e

-----------------------------------------------------------------------------
(* What a command does.                                                     *)

\* A rule that has no alerts and gets none.
Silent(d, q) == d.alerts[q] = {} /\ ~IsActive(d, q)

\* What the commands have.
LEMMA CommandFields ==
  ASSUME NEW c \in Commands
  PROVE  /\ c.op \in {"close", "clear", "truncate", "count", "sweep", "delete", "zrem",
                      "zadd", "alert", "del", "hmset", "sum"}
         /\ c.op # "sum" => c.rule \in Rules
         /\ c.op \in {"alert", "del"} => c.id \in Alerts
         /\ c.op = "hmset" => c.count \in 0..MaxAlerts
BY DEF Commands

\* The alert of a rule that is not active is not written.
LEMMA AlertWritten ==
  ASSUME NEW d \in Database, NEW r \in Rules, NEW id \in Alerts
  PROVE  /\ WriteAlert(d, r, id) \in Database
         /\ WriteAlert(d, r, id).index = d.index
         /\ \A q \in Rules : Silent(d, q) => Silent(WriteAlert(d, r, id), q)
<1>1. CASE IsActive(d, r)
  <2> DEFINE S == d.alerts[r] \cup {id}
             a == SetAlerts(d, r, S)
             b == SetCurrent(a, r, id)
             e == UpdateRuleAlertCount(b, r)
  <2>1. S \in SUBSET Alerts
    BY Fields
  <2> HIDE DEF S
  <2>2. /\ a \in Database /\ a.hash = d.hash /\ a.index = d.index
        /\ \A q \in Rules : q # r => a.alerts[q] = d.alerts[q]
    BY <2>1, AlertsSet
  <2> HIDE DEF a
  <2>3. b \in Database /\ b.hash = a.hash /\ b.index = a.index /\ b.alerts = a.alerts
    BY <2>2, CurrentSet
  <2> HIDE DEF b
  <2>4. /\ e \in Database /\ e.alerts = b.alerts /\ e.index = b.index
        /\ \A q \in Rules : IsActive(e, q) => IsActive(b, q)
    BY <2>3, CountUpdated
  <2> HIDE DEF e
  <2>5. \A q \in Rules : Silent(d, q) => q # r /\ Silent(e, q)
    BY <1>1, <2>2, <2>3, <2>4 DEF Silent, IsActive
  <2> QED
    BY <1>1, <2>2, <2>3, <2>4, <2>5 DEF WriteAlert, S, a, b, e
<1>2. CASE ~IsActive(d, r)
  BY <1>2 DEF WriteAlert
<1> QED
  BY <1>1, <1>2

\* Closing a circuit writes no alert that was not there.
LEMMA CircuitClosed ==
  ASSUME NEW d \in Database, NEW r \in Rules
  PROVE  /\ CloseCircuit(d, r) \in Database
         /\ CloseCircuit(d, r).index = d.index
         /\ \A q \in Rules : Silent(d, q) => Silent(CloseCircuit(d, r), q)
<1> DEFINE b == SetCurrent(d, r, NoAlert)
           e == UpdateRuleAlertCount(b, r)
<1>1. b \in Database /\ b.hash = d.hash /\ b.index = d.index /\ b.alerts = d.alerts
  BY CurrentSet
<1> HIDE DEF b
<1>2. /\ e \in Database /\ e.alerts = b.alerts /\ e.index = b.index
      /\ \A q \in Rules : IsActive(e, q) => IsActive(b, q)
  BY <1>1, CountUpdated
<1> HIDE DEF e
<1>3. \A q \in Rules : Silent(d, q) => Silent(b, q) /\ Silent(e, q)
  BY <1>1, <1>2 DEF Silent, IsActive
<1>4. CloseCircuit(d, r) \in {b, e}
  BY DEF CloseCircuit, b, e
<1> QED
  BY <1>1, <1>2, <1>3, <1>4

\* A rule that is deleted is silent.
LEMMA KeysDeleted ==
  ASSUME NEW d \in Database, NEW r \in Rules
  PROVE  /\ DeleteKeys(d, r) \in Database
         /\ DeleteKeys(d, r).index = d.index
         /\ Silent(DeleteKeys(d, r), r)
         /\ \A q \in Rules : Silent(d, q) => Silent(DeleteKeys(d, r), q)
<1> DEFINE h == SetHash(d, r, Absent)
           a == SetAlerts(h, r, {})
           e == SetCurrent(a, r, NoAlert)
<1>1. /\ h \in Database /\ h.alerts = d.alerts /\ h.index = d.index
      /\ h.hash[r] = Absent
      /\ \A q \in Rules : q # r => h.hash[q] = d.hash[q]
  BY HashSet
<1> HIDE DEF h
<1>2. /\ a \in Database /\ a.hash = h.hash /\ a.index = h.index /\ a.alerts[r] = {}
      /\ \A q \in Rules : q # r => a.alerts[q] = h.alerts[q]
  BY <1>1, AlertsSet
<1> HIDE DEF a
<1>3. e \in Database /\ e.hash = a.hash /\ e.index = a.index /\ e.alerts = a.alerts
  BY <1>2, CurrentSet
<1> HIDE DEF e
<1>4. Silent(e, r)
  BY <1>1, <1>2, <1>3 DEF Silent, IsActive
<1>5. ASSUME NEW q \in Rules, q # r, Silent(d, q) PROVE Silent(e, q)
  BY <1>1, <1>2, <1>3, <1>5 DEF Silent, IsActive
<1> QED
  BY <1>1, <1>2, <1>3, <1>4, <1>5 DEF DeleteKeys, h, a, e

\* A rule is saved: no other gets active.
LEMMA HashSaved ==
  ASSUME NEW d \in Database, NEW r \in Rules, NEW count \in 0..MaxAlerts
  PROVE  /\ SaveHash(d, r, count) \in Database
         /\ SaveHash(d, r, count).index = d.index
         /\ \A q \in Rules : q # r /\ Silent(d, q) => Silent(SaveHash(d, r, count), q)
<1> DEFINE h == [isActive |-> TRUE, alertCount |-> count]
<1>1. h \in Hash
  BY DEF Hash
<1> HIDE DEF h
<1> DEFINE e == SetHash(d, r, h)
<1>2. /\ e \in Database /\ e.alerts = d.alerts /\ e.index = d.index
      /\ \A q \in Rules : q # r => e.hash[q] = d.hash[q]
  BY <1>1, HashSet
<1> HIDE DEF e
<1>3. \A q \in Rules : q # r /\ Silent(d, q) => Silent(e, q)
  BY <1>2 DEF Silent, IsActive
<1> QED
  BY <1>2, <1>3 DEF SaveHash, e, h

\* Alerts are removed.
LEMMA AlertsRemoved ==
  ASSUME NEW d \in Database, NEW r \in Rules, NEW S
  PROVE  LET e == SetAlerts(d, r, d.alerts[r] \ S) IN
         e \in Database /\ e.index = d.index /\ \A q \in Rules : Silent(d, q) => Silent(e, q)
<1> DEFINE T == d.alerts[r] \ S
           e == SetAlerts(d, r, T)
<1>1. T \in SUBSET Alerts /\ (d.alerts[r] = {} => T = {})
  BY Fields
<1> HIDE DEF T
<1>2. /\ e \in Database /\ e.hash = d.hash /\ e.index = d.index
      /\ e.alerts[r] = T /\ \A q \in Rules : q # r => e.alerts[q] = d.alerts[q]
  BY <1>1, AlertsSet
<1> HIDE DEF e
<1>3. \A q \in Rules : Silent(d, q) => Silent(e, q)
  BY <1>1, <1>2 DEF Silent, IsActive
<1> QED
  BY <1>2, <1>3 DEF e, T

\* The index is written.
LEMMA IndexSet ==
  ASSUME NEW d \in Database, NEW I \in SUBSET Rules
  PROVE  LET e == [d EXCEPT !.index = I] IN
         /\ e \in Database /\ e.index = I
         /\ \A q \in Rules : Silent(d, q) => Silent(e, q)
<1> DEFINE e == [d EXCEPT !.index = I]
<1>1. /\ e \in Database /\ e.index = I /\ e.alerts = d.alerts /\ e.hash = d.hash
  BY DEF Database
<1> HIDE DEF e
<1>2. \A q \in Rules : Silent(d, q) => Silent(e, q)
  BY <1>1 DEF Silent, IsActive
<1> QED
  BY <1>1, <1>2 DEF e

\* What a command leaves as it is, and what it sees to.
LEMMA EffectOn ==
  ASSUME NEW d \in Database, NEW c \in Commands, NEW gone
  PROVE  LET e == Effect(d, c, gone) IN
         /\ e \in Database
         /\ \A q \in e.index : q \in d.index \/ (c.op = "zadd" /\ q = c.rule)
         /\ c.op = "zrem" => c.rule \notin e.index
         /\ \A q \in Rules : Silent(d, q) /\ ~(c.op = "hmset" /\ c.rule = q) => Silent(e, q)
         /\ c.op = "delete" => Silent(e, c.rule)
         /\ c.op = "sum" => e.total = SumOfCounts(e)
<1> DEFINE e == Effect(d, c, gone)
<1>1. /\ c.op \in {"close", "clear", "truncate", "count", "sweep", "delete", "zrem",
                   "zadd", "alert", "del", "hmset", "sum"}
      /\ c.op # "sum" => c.rule \in Rules
      /\ c.op \in {"alert", "del"} => c.id \in Alerts
      /\ c.op = "hmset" => c.count \in 0..MaxAlerts
  BY CommandFields
<1>2. /\ c.op = "alert" => e = WriteAlert(d, c.rule, c.id)
      /\ c.op = "close" => e = CloseCircuit(d, c.rule)
      /\ c.op = "del" => e = SetAlerts(d, c.rule, d.alerts[c.rule] \ {c.id})
      /\ c.op = "clear" => e = SetAlerts(d, c.rule, {})
      /\ c.op = "truncate" => e = SetAlerts(d, c.rule, d.alerts[c.rule] \ gone)
      /\ c.op \in {"count", "sweep"} => e = UpdateRuleAlertCount(d, c.rule)
  BY DEF Effect
<1>3. /\ c.op = "sum" => e = UpdateQueueAlertCount(d)
      /\ c.op = "delete" => e = DeleteKeys(d, c.rule)
      /\ c.op = "zrem" => e = [d EXCEPT !.index = d.index \ {c.rule}]
      /\ c.op = "hmset" => e = SaveHash(d, c.rule, c.count)
      /\ c.op = "zadd" => e = [d EXCEPT !.index = d.index \cup {c.rule}]
  BY DEF Effect
<1> HIDE DEF e
<1> DEFINE Kept(f) == f \in Database /\ f.index = d.index
                        /\ \A q \in Rules : Silent(d, q) => Silent(f, q)
<1>4. CASE c.op = "alert"
  BY <1>1, <1>2, <1>4, AlertWritten DEF e
<1>5. CASE c.op = "close"
  BY <1>1, <1>2, <1>5, CircuitClosed DEF e
<1>6. CASE c.op \in {"del", "clear", "truncate"}
  <2>1. c.rule \in Rules /\ d.alerts[c.rule] \ d.alerts[c.rule] = {}
    BY <1>1, <1>6
  <2>2. \A S : Kept(SetAlerts(d, c.rule, d.alerts[c.rule] \ S))
    BY <2>1, AlertsRemoved
  <2>3. Kept(SetAlerts(d, c.rule, {}))
    BY <2>1, <2>2
  <2> HIDE DEF Kept
  <2>4. Kept(e)
    BY <1>2, <1>6, <2>2, <2>3
  <2> QED
    BY <1>6, <2>4 DEF e, Kept
<1>7. CASE c.op \in {"count", "sweep"}
  <2>1. /\ e \in Database /\ e.alerts = d.alerts /\ e.index = d.index
        /\ \A q \in Rules : IsActive(e, q) => IsActive(d, q)
    BY <1>1, <1>2, <1>7, CountUpdated
  <2>2. \A q \in Rules : Silent(d, q) => Silent(e, q)
    BY <2>1 DEF Silent
  <2> QED
    BY <1>7, <2>1, <2>2 DEF e
<1>8. CASE c.op = "delete"
  BY <1>1, <1>3, <1>8, KeysDeleted DEF e
<1>9. CASE c.op = "hmset"
  BY <1>1, <1>3, <1>9, HashSaved DEF e
<1>10. CASE c.op \in {"zrem", "zadd"}
  <2>1. d.index \ {c.rule} \in SUBSET Rules /\ d.index \cup {c.rule} \in SUBSET Rules
    BY <1>1, <1>10, Fields
  <2> DEFINE removed == d.index \ {c.rule}
             added == d.index \cup {c.rule}
             f == [d EXCEPT !.index = removed]
             g == [d EXCEPT !.index = added]
  <2>2. removed \in SUBSET Rules /\ added \in SUBSET Rules
    BY <2>1
  <2>3. (c.op = "zrem" => e = f) /\ (c.op = "zadd" => e = g)
    BY <1>3
  <2>4. \A q \in removed : q \in d.index /\ q # c.rule
    OBVIOUS
  <2>5. \A q \in added : q \in d.index \/ q = c.rule
    OBVIOUS
  <2> HIDE DEF removed, added
  <2>6. /\ f \in Database /\ f.index = removed
        /\ \A q \in Rules : Silent(d, q) => Silent(f, q)
    BY <2>2, IndexSet
  <2>7. /\ g \in Database /\ g.index = added
        /\ \A q \in Rules : Silent(d, q) => Silent(g, q)
    BY <2>2, IndexSet
  <2> HIDE DEF f, g
  <2>8. CASE c.op = "zrem"
    BY <2>3, <2>4, <2>6, <2>8 DEF e
  <2>9. CASE c.op = "zadd"
    BY <2>3, <2>5, <2>7, <2>9 DEF e
  <2> QED
    BY <1>10, <2>8, <2>9
<1>11. CASE c.op = "sum"
  <2>1. /\ e \in Database /\ e.alerts = d.alerts /\ e.index = d.index /\ e.hash = d.hash
        /\ e.total = SumOfCounts(e)
    BY <1>3, <1>11, SumUpdated
  <2>2. \A q \in Rules : Silent(d, q) => Silent(e, q)
    BY <2>1 DEF Silent, IsActive
  <2> QED
    BY <1>11, <2>1, <2>2 DEF e
<1> QED
  BY <1>1, <1>4, <1>5, <1>6, <1>7, <1>8, <1>9, <1>10, <1>11

-----------------------------------------------------------------------------
(* Pipelines.                                                               *)

\* A pipeline sums the counts up at its end, unless it only does what no call sums up.
SumsUp(p) ==
  p[Len(p)].op = "sum" \/ \A k \in DOMAIN p : p[k].op \in {"close", "hmset", "zadd"}

\* What deletes a rule takes it from the index after that.
Removes(p) ==
  \A k \in DOMAIN p : p[k].op = "delete" =>
    \E n \in DOMAIN p : n > k /\ p[n].op = "zrem" /\ p[n].rule = p[k].rule

Sound(p) == SumsUp(p) /\ Removes(p)

\* Whether a pipeline, or one of several, has a command for a rule.
Has(p, op, r) == \E k \in DOMAIN p : p[k].op = op /\ p[k].rule = r
Held(w, op, r) == \E p \in Pipes(w) : Has(p, op, r)

\* A pipeline whose first command is executed: what is left is as sound, and has the
\* other commands.
LEMMA PipeShortened ==
  ASSUME NEW p \in Pipelines, Len(p) # 1
  PROVE  /\ Sound(p) => Sound(Tail(p))
         /\ \A op, r : Has(p, op, r) <=>
              (Head(p).op = op /\ Head(p).rule = r) \/ Has(Tail(p), op, r)
         /\ Tail(p)[Len(Tail(p))] = p[Len(p)]
<1> DEFINE t == Tail(p)
           n == Len(p)
<1>1. /\ n \in Nat \ {0} /\ DOMAIN p = 1..n /\ Head(p) = p[1]
      /\ t \in Pipelines /\ Len(t) = n - 1 /\ n # 1
      /\ \A k \in 1..Len(t) : t[k] = p[k + 1]
  BY FirstCommand
<1>2. DOMAIN t = 1..(n - 1)
  BY <1>1, FirstCommand
<1> HIDE DEF t, n
<1>3. t[Len(t)] = p[n]
  <2>1. n - 1 \in 1..Len(t) /\ (n - 1) + 1 = n
    BY <1>1
  <2> QED
    BY <1>1, <2>1
<1>4. \A k \in DOMAIN t : k + 1 \in DOMAIN p /\ t[k] = p[k + 1]
  BY <1>1, <1>2
<1>5. \A k \in DOMAIN p : k = 1 \/ (k - 1 \in DOMAIN t /\ p[k] = t[k - 1])
  BY <1>1, <1>2
<1>6. 1 \in DOMAIN p
  BY <1>1
<1>7. SumsUp(p) => SumsUp(t)
  BY <1>3, <1>4 DEF SumsUp, n
<1>8. ASSUME Removes(p) PROVE Removes(t)
  <2> SUFFICES ASSUME NEW k \in DOMAIN t, t[k].op = "delete"
               PROVE  \E m \in DOMAIN t : m > k /\ t[m].op = "zrem" /\ t[m].rule = t[k].rule
    BY DEF Removes
  <2>1. PICK m \in DOMAIN p : m > k + 1 /\ p[m].op = "zrem" /\ p[m].rule = p[k + 1].rule
    BY <1>4, <1>8 DEF Removes
  <2>2. k \in Nat /\ m \in Nat /\ k >= 1
    BY <1>1, <1>2
  <2>3. m # 1 /\ m - 1 > k
    BY <2>1, <2>2
  <2>4. m - 1 \in DOMAIN t /\ p[m] = t[m - 1]
    BY <1>5, <2>3
  <2> QED
    BY <1>4, <2>1, <2>3, <2>4
<1>9. ASSUME NEW op, NEW r
      PROVE  Has(p, op, r) <=> (Head(p).op = op /\ Head(p).rule = r) \/ Has(t, op, r)
  BY <1>1, <1>4, <1>5, <1>6 DEF Has
<1> QED
  BY <1>3, <1>7, <1>8, <1>9 DEF Sound, t, n

\* A pipeline of one command.
LEMMA PipeEnds ==
  ASSUME NEW p \in Pipelines, Len(p) = 1
  PROVE  /\ \A op, r : Has(p, op, r) <=> Head(p).op = op /\ Head(p).rule = r
         /\ p[Len(p)] = Head(p)
<1>1. DOMAIN p = {1} /\ Head(p) = p[1]
  BY FirstCommand
<1> QED
  BY <1>1 DEF Has

\* The first command of a server is executed: the others stay.
LEMMA CommandsRest ==
  ASSUME NEW w \in Seq(Pipelines), w # <<>>
  PROVE  /\ (\A p \in Pipes(w) : Sound(p)) => \A p \in Pipes(Rest(w)) : Sound(p)
         /\ \A op, r : Held(w, op, r) <=>
              (Head(Head(w)).op = op /\ Head(Head(w)).rule = r) \/ Held(Rest(w), op, r)
         /\ (\E p \in Pipes(w) : p[Len(p)].op = "sum") =>
              Head(Head(w)).op = "sum" \/ \E p \in Pipes(Rest(w)) : p[Len(p)].op = "sum"
<1> DEFINE h == Head(w)
           T == Pipes(Tail(w))
           R == Pipes(Rest(w))
<1>1. /\ h \in Pipelines
      /\ Pipes(w) = T \cup {h}
      /\ R = T \cup IF Len(h) = 1 THEN {} ELSE {Tail(h)}
  BY PipesRest
<1> HIDE DEF h, T, R
<1>2. CASE Len(h) = 1
  <2>1. R = T
    BY <1>1, <1>2
  <2>2. /\ \A op, r : Has(h, op, r) <=> Head(h).op = op /\ Head(h).rule = r
        /\ h[Len(h)] = Head(h)
    BY <1>1, <1>2, PipeEnds
  <2> QED
    BY <1>1, <2>1, <2>2 DEF Held, h, R
<1>3. CASE Len(h) # 1
  <2> DEFINE t == Tail(h)
  <2>1. R = T \cup {t}
    BY <1>1, <1>3
  <2>2. /\ Sound(h) => Sound(t)
        /\ \A op, r : Has(h, op, r) <=> (Head(h).op = op /\ Head(h).rule = r) \/ Has(t, op, r)
        /\ t[Len(t)] = h[Len(h)]
    BY <1>1, <1>3, PipeShortened
  <2> HIDE DEF t
  <2>3. (\A p \in Pipes(w) : Sound(p)) => \A p \in R : Sound(p)
    BY <1>1, <2>1, <2>2
  <2>4. ASSUME NEW op, NEW r
        PROVE  Held(w, op, r) <=> (Head(h).op = op /\ Head(h).rule = r) \/ \E p \in R : Has(p, op, r)
    BY <1>1, <2>1, <2>2 DEF Held
  <2>5. (\E p \in Pipes(w) : p[Len(p)].op = "sum") => \E p \in R : p[Len(p)].op = "sum"
    BY <1>1, <2>1, <2>2
  <2> QED
    BY <2>3, <2>4, <2>5 DEF Held, h, R
<1> QED
  BY <1>2, <1>3

\* A command and the sum.
LEMMA OneSummed ==
  ASSUME NEW c \in Commands, c.op # "delete"
  PROVE  LET p == Aggregated(<<c>>) IN
         p \in Pipelines /\ Sound(p) /\ \A op, r : Has(p, op, r) => op \in {c.op, "sum"}
<1> DEFINE z == [op |-> "sum"]
           s == <<c>>
           p == Append(s, z)
<1>1. z \in Commands /\ z.op = "sum"
  BY DEF Commands
<1>2. Aggregated(<<c>>) = p /\ s \in Seq(Commands) /\ Len(s) = 1 /\ s[1] = c
  BY DEF Aggregated
<1> HIDE DEF z, s
<1>3. /\ p \in Seq(Commands) /\ p # <<>> /\ Len(p) = 2 /\ DOMAIN p = 1..2
      /\ p[1] = c /\ p[2] = z
  <2>1. 1 \in 1..1 /\ 1 + 1 = 2
    OBVIOUS
  <2>2. z \in Commands /\ s \in Seq(Commands)
    BY <1>1, <1>2
  <2>3. /\ p \in Seq(Commands) /\ Len(p) = Len(s) + 1 /\ DOMAIN p = 1..Len(p)
        /\ \A i \in 1..Len(s) : p[i] = s[i]
        /\ p[Len(s) + 1] = z
    BY <2>2
  <2>4. Len(<<>>) = 0
    OBVIOUS
  <2> HIDE DEF p
  <2> QED
    BY <1>2, <2>1, <2>3, <2>4
<1> HIDE DEF p
<1>4. \A k \in DOMAIN p : k = 1 \/ k = 2
  BY <1>3
<1>5. \A k \in DOMAIN p : p[k].op \in {c.op, "sum"}
  BY <1>1, <1>3, <1>4
<1>6. p \in Pipelines /\ SumsUp(p) /\ Removes(p)
  BY <1>1, <1>3, <1>5 DEF Pipelines, SumsUp, Removes
<1>7. \A op, r : Has(p, op, r) => op \in {c.op, "sum"}
  BY <1>5 DEF Has
<1> QED
  BY <1>2, <1>6, <1>7 DEF Sound

\* Two commands and the sum.
LEMMA TwoSummed ==
  ASSUME NEW c \in Commands, NEW d \in Commands, d.op # "delete",
         c.op = "delete" => d.op = "zrem" /\ d.rule = c.rule
  PROVE  LET p == Aggregated(<<c, d>>) IN
         /\ p \in Pipelines /\ Sound(p)
         /\ \A op, r : Has(p, op, r) =>
              op = "sum" \/ (op = c.op /\ c.rule = r) \/ (op = d.op /\ d.rule = r)
<1> DEFINE z == [op |-> "sum"]
           s == <<c, d>>
           p == Append(s, z)
<1>1. z \in Commands /\ z.op = "sum"
  BY DEF Commands
<1>2. /\ Aggregated(<<c, d>>) = p
      /\ s \in Seq(Commands) /\ Len(s) = 2 /\ s[1] = c /\ s[2] = d
  BY DEF Aggregated
<1> HIDE DEF z, s
<1>3. /\ p \in Seq(Commands) /\ p # <<>> /\ Len(p) = 3 /\ DOMAIN p = 1..3
      /\ p[1] = c /\ p[2] = d /\ p[3] = z
  <2>1. 1 \in 1..2 /\ 2 \in 1..2 /\ 2 + 1 = 3
    OBVIOUS
  <2>2. z \in Commands /\ s \in Seq(Commands)
    BY <1>1, <1>2
  <2>3. /\ p \in Seq(Commands) /\ Len(p) = Len(s) + 1 /\ DOMAIN p = 1..Len(p)
        /\ \A i \in 1..Len(s) : p[i] = s[i]
        /\ p[Len(s) + 1] = z
    BY <2>2
  <2>4. Len(<<>>) = 0
    OBVIOUS
  <2> HIDE DEF p
  <2> QED
    BY <1>2, <2>1, <2>3, <2>4
<1> HIDE DEF p
<1>4. (\A k \in DOMAIN p : k = 1 \/ k = 2 \/ k = 3) /\ 2 \in DOMAIN p
  BY <1>3
<1>5. p \in Pipelines /\ SumsUp(p)
  BY <1>1, <1>3 DEF Pipelines, SumsUp
<1>6. Removes(p)
  <2> SUFFICES ASSUME NEW k \in DOMAIN p, p[k].op = "delete"
               PROVE  \E n \in DOMAIN p : n > k /\ p[n].op = "zrem" /\ p[n].rule = p[k].rule
    BY DEF Removes
  <2>1. k = 1
    BY <1>1, <1>3, <1>4
  <2> QED
    BY <1>3, <1>4, <2>1
<1>7. \A op, r : Has(p, op, r) =>
        op = "sum" \/ (op = c.op /\ c.rule = r) \/ (op = d.op /\ d.rule = r)
  BY <1>1, <1>3, <1>4 DEF Has
<1> QED
  BY <1>2, <1>5, <1>6, <1>7 DEF Sound

\* A command that no sum follows.
LEMMA OneAlone ==
  ASSUME NEW c \in Commands, c.op = "close"
  PROVE  <<c>> \in Pipelines /\ Sound(<<c>>) /\ \A op, r : Has(<<c>>, op, r) => op = "close"
<1> DEFINE p == <<c>>
<1>1. p \in Seq(Commands) /\ p # <<>> /\ DOMAIN p = {1} /\ p[1] = c
  OBVIOUS
<1> HIDE DEF p
<1>2. p \in Pipelines /\ SumsUp(p) /\ Removes(p)
  BY <1>1 DEF Pipelines, SumsUp, Removes
<1>3. \A op, r : Has(p, op, r) => op = "close"
  BY <1>1 DEF Has
<1> QED
  BY <1>2, <1>3 DEF Sound, p

\* Two commands that no sum follows.
LEMMA TwoAlone ==
  ASSUME NEW c \in Commands, NEW d \in Commands, c.op = "hmset", d.op = "zadd", NEW q,
         c.rule = q, d.rule = q
  PROVE  /\ <<c, d>> \in Pipelines /\ Sound(<<c, d>>)
         /\ \A op, r : Has(<<c, d>>, op, r) => op \in {"hmset", "zadd"} /\ r = q
<1> DEFINE p == <<c, d>>
<1>1. /\ p \in Seq(Commands) /\ p # <<>> /\ Len(p) = 2 /\ DOMAIN p = 1..2
      /\ p[1] = c /\ p[2] = d
  OBVIOUS
<1> HIDE DEF p
<1>2. \A k \in DOMAIN p : k = 1 \/ k = 2
  BY <1>1
<1>3. p \in Pipelines /\ SumsUp(p) /\ Removes(p)
  BY <1>1, <1>2 DEF Pipelines, SumsUp, Removes
<1>4. \A op, r : Has(p, op, r) => op \in {"hmset", "zadd"} /\ r = q
  BY <1>1, <1>2 DEF Has
<1> QED
  BY <1>3, <1>4 DEF Sound, p

\* The rules are listed for the sweep.
LEMMA Listed ==
  ASSUME NEW S \in SUBSET Rules
  PROVE  SetToSeq(S) \in Seq(S)
<1>1. IsFiniteSet(S)
  BY CountsAssumption, FS_Subset
<1>2. Cardinality(S) \in Nat /\ ExistsBijection(1..Cardinality(S), S)
  BY <1>1, FS_CardinalityType
<1> DEFINE n == Cardinality(S)
           f == SetToSeq(S)
<1>3. \E g : g \in [1..n -> S] /\ IsInjective(g)
  <2>1. PICK g : g \in Bijection(1..n, S)
    BY <1>2 DEF ExistsBijection
  <2>2. g \in [1..n -> S] /\ IsInjective(g)
    BY <2>1 DEF Bijection, Injection, IsInjective
  <2> QED
    BY <2>2
<1>4. f \in [1..n -> S]
  BY <1>3 DEF SetToSeq
<1> QED
  BY <1>2, <1>4

-----------------------------------------------------------------------------
(* The invariant.                                                           *)

PipesInv == \A s \in Servers : \A p \in Pipes(wire[s]) : Sound(p)

\* A pipeline that has its sum before it.
Summing == \E s \in Servers : \E p \in Pipes(wire[s]) : p[Len(p)].op = "sum"

SumInv == ~log.unsummed => db.total = SumOfCounts(db) \/ Summing

\* A rule is not saved while it is deleted, unless that is known; what is deleted is
\* silent, and about to leave the index.
GoneInv ==
  /\ \A r \in log.deleted \ log.crossed :
       Silent(db, r) /\ (r \in db.index => Pending("zrem", r))
  /\ \A r \in Rules \ log.crossed : ~(Saving(r) /\ Deleting(r))

CountsInv == TypeOK /\ PipesInv /\ SumInv /\ GoneInv

\* What is on the way, in terms of the pipelines.
LEMMA PendingHeld ==
  \A op, r : Pending(op, r) <=> \E s \in Servers : Held(wire[s], op, r)
BY DEF Pending, Held, Has, Pipes

\* Pipelines are sent: those that were on the way still are.
LEMMA WireSent ==
  ASSUME TypeOK, PipesInv, NEW s \in Servers, NEW ps \in Seq(Pipelines),
         \A p \in Pipes(ps) : Sound(p), SendAll(s, ps)
  PROVE  /\ wire' \in [Servers -> Seq(Pipelines)] /\ PipesInv'
         /\ Summing => Summing'
         /\ \A op, r : Pending(op, r)' <=> Pending(op, r) \/ Held(ps, op, r)
<1>1. wire \in [Servers -> Seq(Pipelines)] /\ wire[s] \in Seq(Pipelines)
  BY DEF TypeOK
<1>2. /\ wire[s] \o ps \in Seq(Pipelines)
      /\ Pipes(wire[s] \o ps) = Pipes(wire[s]) \cup Pipes(ps)
  BY <1>1, PipesSent
<1>3. /\ wire' = [wire EXCEPT ![s] = wire[s] \o ps]
      /\ wire'[s] = wire[s] \o ps
      /\ \A z \in Servers : z # s => wire'[z] = wire[z]
  BY <1>1 DEF SendAll
<1>4. wire' \in [Servers -> Seq(Pipelines)]
  BY <1>1, <1>2, <1>3
<1>5. /\ Pipes(wire'[s]) = Pipes(wire[s]) \cup Pipes(ps)
      /\ \A z \in Servers : z # s => Pipes(wire'[z]) = Pipes(wire[z])
  BY <1>2, <1>3
<1>6. PipesInv'
  BY <1>5 DEF PipesInv
<1>7. Summing => Summing'
  BY <1>5 DEF Summing
<1>8. \A op, r : Held(wire'[s], op, r) <=> Held(wire[s], op, r) \/ Held(ps, op, r)
  BY <1>5 DEF Held
<1>9. \A z \in Servers : z # s => \A op, r : Held(wire'[z], op, r) <=> Held(wire[z], op, r)
  BY <1>3
<1>10. ASSUME NEW op, NEW r
       PROVE  Pending(op, r)' <=> Pending(op, r) \/ Held(ps, op, r)
  <2>1. Pending(op, r) <=> \E z \in Servers : Held(wire[z], op, r)
    BY PendingHeld
  <2>2. Pending(op, r)' <=> \E z \in Servers : Held(wire'[z], op, r)
    BY DEF Pending, Held, Has, Pipes
  <2> QED
    BY <1>8, <1>9, <2>1, <2>2
<1> QED
  BY <1>4, <1>6, <1>7, <1>10

\* A pipeline is sent that neither saves nor deletes a rule.
LEMMA HarmlessSent ==
  ASSUME CountsInv, NEW s \in Servers, NEW ps \in Seq(Pipelines), SendAll(s, ps),
         \A p \in Pipes(ps) : Sound(p),
         \A op \in {"hmset", "zadd", "delete"} : \A r : ~Held(ps, op, r),
         db' = db, log'.deleted = log.deleted, log'.crossed = log.crossed,
         log'.unsummed = log.unsummed
  PROVE  wire' \in [Servers -> Seq(Pipelines)] /\ PipesInv' /\ SumInv' /\ GoneInv'
<1>1. /\ wire' \in [Servers -> Seq(Pipelines)] /\ PipesInv'
      /\ Summing => Summing'
      /\ \A op, r : Pending(op, r)' <=> Pending(op, r) \/ Held(ps, op, r)
  BY WireSent DEF CountsInv
<1>2. SumInv'
  BY <1>1 DEF CountsInv, SumInv, SumOfCounts, Counted, Counts
<1>3. \A r : (Saving(r)' <=> Saving(r)) /\ (Deleting(r)' <=> Deleting(r))
  BY <1>1 DEF Saving, Deleting
<1>4. GoneInv'
  BY <1>1, <1>3 DEF CountsInv, GoneInv, Silent, IsActive
<1> QED
  BY <1>1, <1>2, <1>4

\* The initial state.
LEMMA CountsInit ==
  ASSUME Init
  PROVE  CountsInv
<1>1. MaxAlerts \in Nat /\ MaxCalls \in Nat /\ Servers # {}
  BY CountsAssumption
<1> DEFINE h == [isActive |-> TRUE, alertCount |-> 0]
<1>2. h \in Hash
  BY <1>1 DEF Hash
<1> HIDE DEF h
<1>3. /\ [r \in Rules |-> h] \in [Rules -> Hash \cup {Absent}]
      /\ [r \in Rules |-> {}] \in [Rules -> SUBSET Alerts]
      /\ [r \in Rules |-> NoAlert] \in [Rules -> Alerts \cup {NoAlert}]
  BY <1>2
<1>4. db = [hash |-> [r \in Rules |-> h], alerts |-> [r \in Rules |-> {}],
            current |-> [r \in Rules |-> NoAlert], index |-> Rules, total |-> 0]
  BY DEF Init, h
<1>5. db \in Database
  BY <1>3, <1>4 DEF Database
<1>6. \A s \in Servers : wire[s] = <<>> /\ Pipes(wire[s]) = {}
  BY DEF Init, Pipes
<1>7. wire \in [Servers -> Seq(Pipelines)]
  BY DEF Init
<1>8. replies \in [Servers -> Seq([rule : Rules, count : 0..MaxAlerts])]
  BY DEF Init
<1>9. copy \in [Servers -> [Rules -> (0..MaxAlerts) \cup {Absent}]]
  BY <1>1 DEF Init
<1>10. owner \in Servers
  BY <1>1 DEF Init
<1>11. /\ log \in [calls : 0..MaxCalls, written : 0..MaxAlerts, deleted : SUBSET Rules,
                   crossed : SUBSET Rules, unsummed : BOOLEAN]
       /\ log.deleted = {}
  BY <1>1 DEF Init
<1>12. TypeOK
  BY <1>5, <1>7, <1>8, <1>9, <1>10, <1>11 DEF TypeOK
<1>13. PipesInv
  BY <1>6 DEF PipesInv
<1>14. db.total = SumOfCounts(db)
  <2>1. \A r \in Counts(db) : db.hash[r].alertCount = 0
    BY <1>4 DEF Counts, h
  <2>2. Counted(db) = {}
    BY <2>1 DEF Counted
  <2> QED
    BY <1>4, <2>2, FS_EmptySet DEF SumOfCounts
<1>15. \A op, r : ~Pending(op, r)
  BY <1>6 DEF Pending
<1> QED
  BY <1>11, <1>12, <1>13, <1>14, <1>15 DEF CountsInv, SumInv, GoneInv, Deleting

\* The calls that neither save nor delete a rule.
LEMMA HarmlessSteps ==
  ASSUME CountsInv, NEW s \in Servers, NEW r \in Rules,
         Alert(s, r) \/ Close(s, r) \/ ClearAlerts(s, r)
           \/ (\E id \in Alerts : DeleteAlert(s, r, id)) \/ Sweep(s)
  PROVE  CountsInv'
<1> DEFINE Steps(ps) == /\ ps \in Seq(Pipelines) /\ SendAll(s, ps)
                        /\ \A p \in Pipes(ps) : Sound(p)
                        /\ \A op \in {"hmset", "zadd", "delete"} : \A q : ~Held(ps, op, q)
<1>1. ASSUME NEW p \in Pipelines, Sound(p), Send(s, p),
             \A op \in {"hmset", "zadd", "delete"} : \A q : ~Has(p, op, q)
      PROVE  \E ps : Steps(ps)
  <2>1. <<p>> \in Seq(Pipelines) /\ Pipes(<<p>>) = {p}
    BY OnePipe
  <2>2. SendAll(s, <<p>>)
    BY <1>1 DEF Send
  <2>3. /\ \A q \in Pipes(<<p>>) : Sound(q)
        /\ \A op \in {"hmset", "zadd", "delete"} : \A q : ~Held(<<p>>, op, q)
    BY <1>1, <2>1 DEF Held
  <2> QED
    BY <2>1, <2>2, <2>3
<1>2. ASSUME Alert(s, r) PROVE \E ps : Steps(ps)
  <2> DEFINE c == [op |-> "alert", rule |-> r, id |-> log.written + 1]
  <2>1. log.written \in 0..MaxAlerts /\ log.calls \in 0..MaxCalls
    BY DEF CountsInv, TypeOK
  <2>2. log.written + 1 \in Alerts
    BY <1>2, <2>1, CountsAssumption DEF Alert, Alerts
  <2>3. c \in Commands /\ c.op = "alert"
    BY <2>2 DEF Commands
  <2>4. Send(s, Aggregated(<<c>>))
    BY <1>2 DEF Alert
  <2> HIDE DEF c
  <2>5. /\ Aggregated(<<c>>) \in Pipelines /\ Sound(Aggregated(<<c>>))
        /\ \A op, q : Has(Aggregated(<<c>>), op, q) => op \in {"alert", "sum"}
    BY <2>3, OneSummed
  <2> QED
    BY <1>1, <2>4, <2>5
<1>3. ASSUME Close(s, r) PROVE \E ps : Steps(ps)
  <2> DEFINE c == On("close", r)
  <2>1. c \in Commands /\ c.op = "close"
    BY DEF Commands, On
  <2>2. Send(s, <<c>>)
    BY <1>3 DEF Close
  <2> HIDE DEF c
  <2>3. <<c>> \in Pipelines /\ Sound(<<c>>) /\ \A op, q : Has(<<c>>, op, q) => op = "close"
    BY <2>1, OneAlone
  <2> QED
    BY <1>1, <2>2, <2>3
<1>4. ASSUME ClearAlerts(s, r) PROVE \E ps : Steps(ps)
  <2> DEFINE c == On("clear", r)
  <2>1. c \in Commands /\ c.op = "clear"
    BY DEF Commands, On
  <2>2. Send(s, Aggregated(<<c>>))
    BY <1>4 DEF ClearAlerts
  <2> HIDE DEF c
  <2>3. /\ Aggregated(<<c>>) \in Pipelines /\ Sound(Aggregated(<<c>>))
        /\ \A op, q : Has(Aggregated(<<c>>), op, q) => op \in {"clear", "sum"}
    BY <2>1, OneSummed
  <2> QED
    BY <1>1, <2>2, <2>3
<1>5. ASSUME NEW id \in Alerts, DeleteAlert(s, r, id)
      PROVE  \E ps : Steps(ps)
  <2> DEFINE c == [op |-> "del", rule |-> r, id |-> id]
             d == On("count", r)
             p == Aggregated(<<c, d>>)
  <2>1. c \in Commands /\ c.op = "del" /\ d \in Commands /\ d.op = "count"
    BY DEF Commands, On
  <2>2. Send(s, p)
    BY <1>5 DEF DeleteAlert
  <2> HIDE DEF c, d
  <2>3. p \in Pipelines /\ Sound(p) /\ \A op, q : Has(p, op, q) => op \in {"del", "count", "sum"}
    BY <2>1, TwoSummed
  <2> QED
    BY <1>1, <2>2, <2>3
<1>6. ASSUME Sweep(s) PROVE \E ps : Steps(ps)
  <2> DEFINE rules == SetToSeq(Registered(s))
             ps == [i \in 1..Len(rules) |-> Prune(rules[i])]
  <2>1. SendAll(s, ps)
    BY <1>6 DEF Sweep
  <2>2. rules \in Seq(Rules)
    <3>1. Registered(s) \in SUBSET Rules
      BY DEF Registered
    <3>2. rules \in Seq(Registered(s))
      BY <3>1, Listed
    <3> HIDE DEF rules
    <3> QED
      BY <3>1, <3>2
  <2> HIDE DEF rules
  <2>3. ASSUME NEW q \in Rules
        PROVE  /\ Prune(q) \in Pipelines /\ Sound(Prune(q))
               /\ \A op, z : Has(Prune(q), op, z) => op \in {"truncate", "sweep", "sum"}
    <3> DEFINE c == On("truncate", q)
               d == On("sweep", q)
               p == Aggregated(<<c, d>>)
    <3>1. c \in Commands /\ c.op = "truncate" /\ d \in Commands /\ d.op = "sweep"
      BY DEF Commands, On
    <3>2. p = Prune(q)
      BY DEF Prune
    <3> HIDE DEF c, d
    <3>3. /\ p \in Pipelines /\ Sound(p)
          /\ \A op, z : Has(p, op, z) => op \in {"truncate", "sweep", "sum"}
      BY <3>1, TwoSummed
    <3> QED
      BY <3>2, <3>3
  <2>4. \A i \in 1..Len(rules) : rules[i] \in Rules /\ Len(rules) \in Nat
    BY <2>2
  <2>5. ps \in Seq(Pipelines) /\ DOMAIN ps = 1..Len(rules)
    <3>1. \A i \in 1..Len(rules) : Prune(rules[i]) \in Pipelines
      BY <2>3, <2>4
    <3>2. Len(rules) \in Nat
      BY <2>2
    <3>3. ps \in [1..Len(rules) -> Pipelines]
      BY <3>1
    <3> QED
      BY <3>2, <3>3
  <2>6. \A p \in Pipes(ps) : \E q \in Rules : p = Prune(q)
    BY <2>4, <2>5 DEF Pipes
  <2> HIDE DEF ps
  <2>7. \A p \in Pipes(ps) : Sound(p)
    BY <2>3, <2>6
  <2>8. \A op \in {"hmset", "zadd", "delete"} : \A q : ~Held(ps, op, q)
    BY <2>3, <2>6 DEF Held
  <2> QED
    BY <2>1, <2>5, <2>7, <2>8
<1>7. \E ps : Steps(ps)
  BY <1>2, <1>3, <1>4, <1>5, <1>6
<1>8. UNCHANGED <<db, replies, copy, owner>>
  BY DEF Alert, Close, ClearAlerts, DeleteAlert, Sweep
<1>9. /\ log'.deleted = log.deleted /\ log'.crossed = log.crossed
      /\ log'.unsummed = log.unsummed
      /\ log' \in [calls : 0..MaxCalls, written : 0..MaxAlerts, deleted : SUBSET Rules,
                   crossed : SUBSET Rules, unsummed : BOOLEAN]
  <2>1. /\ log \in [calls : 0..MaxCalls, written : 0..MaxAlerts, deleted : SUBSET Rules,
                    crossed : SUBSET Rules, unsummed : BOOLEAN]
        /\ MaxCalls \in Nat /\ MaxAlerts \in Nat
    BY CountsAssumption DEF CountsInv, TypeOK
  <2>2. \/ /\ log.calls < MaxCalls /\ log.written < MaxAlerts
           /\ log' = [log EXCEPT !.calls = @ + 1, !.written = @ + 1]
        \/ log.calls < MaxCalls /\ log' = [log EXCEPT !.calls = @ + 1]
        \/ log' = log
    BY DEF Alert, Close, ClearAlerts, DeleteAlert, Sweep, Call, Called
  <2>3. CASE /\ log.calls < MaxCalls /\ log.written < MaxAlerts
             /\ log' = [log EXCEPT !.calls = @ + 1, !.written = @ + 1]
    <3>1. /\ log.calls + 1 \in 0..MaxCalls /\ log.written + 1 \in 0..MaxAlerts
          /\ log.deleted \in SUBSET Rules /\ log.crossed \in SUBSET Rules
          /\ log.unsummed \in BOOLEAN
      BY <2>1, <2>3
    <3>2. log' = [calls |-> log.calls + 1, written |-> log.written + 1,
                  deleted |-> log.deleted, crossed |-> log.crossed, unsummed |-> log.unsummed]
      BY <2>1, <2>3
    <3> QED
      BY <3>1, <3>2
  <2>4. CASE log.calls < MaxCalls /\ log' = [log EXCEPT !.calls = @ + 1]
    BY <2>1, <2>4
  <2>5. CASE log' = log
    BY <2>1, <2>5
  <2> QED
    BY <2>2, <2>3, <2>4, <2>5
<1>10. wire' \in [Servers -> Seq(Pipelines)] /\ PipesInv' /\ SumInv' /\ GoneInv'
  BY <1>7, <1>8, <1>9, HarmlessSent
<1>11. TypeOK'
  BY <1>8, <1>9, <1>10 DEF CountsInv, TypeOK
<1> QED
  BY <1>10, <1>11 DEF CountsInv

\* What the history may hold.
Logs == [calls : 0..MaxCalls, written : 0..MaxAlerts, deleted : SUBSET Rules,
         crossed : SUBSET Rules, unsummed : BOOLEAN]

\* A call that may cross another is noted in the history.
LEMMA LogCrossed ==
  ASSUME log \in Logs, Call, NEW S \in SUBSET Rules,
         log' = [log EXCEPT !.calls = @ + 1, !.crossed = S]
  PROVE  /\ log' \in Logs
         /\ log'.deleted = log.deleted /\ log'.unsummed = log.unsummed /\ log'.crossed = S
<1>1. /\ log.calls + 1 \in 0..MaxCalls /\ log.written \in 0..MaxAlerts
      /\ log.deleted \in SUBSET Rules /\ log.unsummed \in BOOLEAN
  BY CountsAssumption DEF Logs, Call
<1>2. log' = [calls |-> log.calls + 1, written |-> log.written,
              deleted |-> log.deleted, crossed |-> S, unsummed |-> log.unsummed]
  BY DEF Logs
<1> QED
  BY <1>1, <1>2 DEF Logs

\* A rule is deleted: the pipeline goes on to the index.
LEMMA DeleteRuleStep ==
  ASSUME CountsInv, NEW s \in Servers, NEW r \in Rules, DeleteRule(s, r)
  PROVE  CountsInv'
<1> DEFINE c == On("delete", r)
           d == On("zrem", r)
           p == Aggregated(<<c, d>>)
           S == IF Saving(r) THEN log.crossed \cup {r} ELSE log.crossed
<1>1. c \in Commands /\ c.op = "delete" /\ c.rule = r /\ d \in Commands /\ d.op = "zrem" /\ d.rule = r
  BY DEF Commands, On
<1>2. Send(s, p) /\ UNCHANGED <<db, replies, copy, owner>>
  BY DEF DeleteRule
<1>3. log' = [log EXCEPT !.calls = @ + 1, !.crossed = S] /\ Call
  BY DEF DeleteRule
<1> HIDE DEF c, d
<1>4. /\ p \in Pipelines /\ Sound(p)
      /\ \A op, q : Has(p, op, q) =>
           op = "sum" \/ (op = "delete" /\ r = q) \/ (op = "zrem" /\ r = q)
  BY <1>1, TwoSummed
<1> HIDE DEF p
<1>5. <<p>> \in Seq(Pipelines) /\ Pipes(<<p>>) = {p} /\ SendAll(s, <<p>>)
  BY <1>2, <1>4, OnePipe DEF Send
<1> DEFINE ps == <<p>>
<1>6. /\ ps \in Seq(Pipelines) /\ SendAll(s, ps)
      /\ \A q \in Pipes(ps) : Sound(q)
      /\ \A op, q : Held(ps, op, q) =>
           op = "sum" \/ (op = "delete" /\ r = q) \/ (op = "zrem" /\ r = q)
  BY <1>4, <1>5 DEF Held
<1> HIDE DEF ps
<1>7. /\ wire' \in [Servers -> Seq(Pipelines)] /\ PipesInv'
      /\ Summing => Summing'
      /\ \A op, q : Pending(op, q)' <=> Pending(op, q) \/ Held(ps, op, q)
  BY <1>6, WireSent DEF CountsInv
<1>8. log \in Logs /\ S \in SUBSET Rules
  BY DEF CountsInv, TypeOK, Logs
<1> HIDE DEF S
<1>9. /\ log' \in Logs /\ log'.deleted = log.deleted /\ log'.unsummed = log.unsummed
      /\ log'.crossed = S
  BY <1>3, <1>8, LogCrossed
<1>10. SumInv'
  BY <1>2, <1>7, <1>9 DEF CountsInv, SumInv, SumOfCounts, Counted, Counts
<1>11. \A q : (Saving(q)' <=> Saving(q)) /\ (Deleting(q)' => Deleting(q) \/ q = r)
  BY <1>6, <1>7, <1>9 DEF Saving, Deleting
<1>12. \A q \in Rules \ S : ~(Saving(q)' /\ Deleting(q)')
  BY <1>11 DEF CountsInv, GoneInv, S
<1>13. \A q \in log.deleted \ S : Silent(db, q) /\ (q \in db.index => Pending("zrem", q))
  BY DEF CountsInv, GoneInv, S
<1>14. GoneInv'
  BY <1>2, <1>7, <1>9, <1>12, <1>13 DEF GoneInv, Silent, IsActive
<1>15. TypeOK'
  BY <1>2, <1>7, <1>9 DEF CountsInv, TypeOK, Logs
<1> QED
  BY <1>7, <1>10, <1>14, <1>15 DEF CountsInv

\* A rule is saved: whoever deletes it meanwhile is known.
LEMMA SaveRuleStep ==
  ASSUME CountsInv, NEW s \in Servers, NEW r \in Rules, SaveRule(s, r)
  PROVE  CountsInv'
<1> DEFINE c == [op |-> "hmset", rule |-> r, count |-> copy[s][r]]
           d == On("zadd", r)
           p == <<c, d>>
           S == IF Deleting(r) THEN log.crossed \cup {r} ELSE log.crossed
<1>1. /\ c \in Commands /\ c.op = "hmset" /\ c.rule = r
      /\ d \in Commands /\ d.op = "zadd" /\ d.rule = r
  <2>1. copy[s][r] \in 0..MaxAlerts
    BY DEF SaveRule, CountsInv, TypeOK
  <2> QED
    BY <2>1 DEF Commands, On
<1>2. Send(s, p) /\ UNCHANGED <<db, replies, copy, owner>>
  BY DEF SaveRule
<1>3. log' = [log EXCEPT !.calls = @ + 1, !.crossed = S] /\ Call
  BY DEF SaveRule
<1> HIDE DEF c, d
<1>4. /\ p \in Pipelines /\ Sound(p)
      /\ \A op, q : Has(p, op, q) => op \in {"hmset", "zadd"} /\ q = r
  BY <1>1, TwoAlone
<1> HIDE DEF p
<1>5. <<p>> \in Seq(Pipelines) /\ Pipes(<<p>>) = {p} /\ SendAll(s, <<p>>)
  BY <1>2, <1>4, OnePipe DEF Send
<1> DEFINE ps == <<p>>
<1>6. /\ ps \in Seq(Pipelines) /\ SendAll(s, ps)
      /\ \A q \in Pipes(ps) : Sound(q)
      /\ \A op, q : Held(ps, op, q) => op \in {"hmset", "zadd"} /\ q = r
  BY <1>4, <1>5 DEF Held
<1> HIDE DEF ps
<1>7. /\ wire' \in [Servers -> Seq(Pipelines)] /\ PipesInv'
      /\ Summing => Summing'
      /\ \A op, q : Pending(op, q)' <=> Pending(op, q) \/ Held(ps, op, q)
  BY <1>6, WireSent DEF CountsInv
<1>8. log \in Logs /\ S \in SUBSET Rules
  BY DEF CountsInv, TypeOK, Logs
<1> HIDE DEF S
<1>9. /\ log' \in Logs /\ log'.deleted = log.deleted /\ log'.unsummed = log.unsummed
      /\ log'.crossed = S
  BY <1>3, <1>8, LogCrossed
<1>10. SumInv'
  BY <1>2, <1>7, <1>9 DEF CountsInv, SumInv, SumOfCounts, Counted, Counts
<1>11. \A q : (Saving(q)' => Saving(q) \/ q = r) /\ (Deleting(q)' <=> Deleting(q))
  BY <1>6, <1>7, <1>9 DEF Saving, Deleting
<1>12. \A q \in Rules \ S : ~(Saving(q)' /\ Deleting(q)')
  BY <1>11 DEF CountsInv, GoneInv, S
<1>13. \A q \in log.deleted \ S : Silent(db, q) /\ (q \in db.index => Pending("zrem", q))
  BY DEF CountsInv, GoneInv, S
<1>14. GoneInv'
  BY <1>2, <1>7, <1>9, <1>12, <1>13 DEF GoneInv, Silent, IsActive
<1>15. TypeOK'
  BY <1>2, <1>7, <1>9 DEF CountsInv, TypeOK, Logs
<1> QED
  BY <1>7, <1>10, <1>14, <1>15 DEF CountsInv

\* Redis executes a command.
LEMMA ExecuteStep ==
  ASSUME CountsInv, NEW s \in Servers, Execute(s)
  PROVE  CountsInv'
<1> DEFINE w == wire[s]
           h == Head(w)
           c == Head(h)
           D == IF c.op = "delete" THEN log.deleted \cup {c.rule} ELSE log.deleted
           U == c.op # "sum" /\ (log.unsummed \/ Unsummed(c))
           R == Rest(w)
<1>1. wire \in [Servers -> Seq(Pipelines)] /\ w \in Seq(Pipelines) /\ w # <<>>
  BY DEF CountsInv, TypeOK, Execute
<1>2. h \in Pipelines /\ R \in Seq(Pipelines) /\ h \in Pipes(w)
  BY <1>1, PipesRest
<1>3. c \in Commands /\ h \in Seq(Commands)
  BY <1>2, FirstCommand DEF Pipelines
<1>4. PICK gone : db' = Effect(db, c, gone)
  BY DEF Execute
<1>5. wire' = [wire EXCEPT ![s] = R] /\ UNCHANGED <<copy, owner>>
  BY DEF Execute
<1>6. replies' = IF c.op = "sweep"
        THEN [replies EXCEPT ![s] = Append(replies[s],
                [rule |-> c.rule, count |-> Cardinality(db.alerts[c.rule])])]
        ELSE replies
  BY DEF Execute
<1>7. log' = [log EXCEPT !.deleted = D, !.unsummed = U]
  BY DEF Execute
<1>8. /\ (\A p \in Pipes(w) : Sound(p)) => \A p \in Pipes(R) : Sound(p)
      /\ \A op, r : Held(w, op, r) <=> (c.op = op /\ c.rule = r) \/ Held(R, op, r)
      /\ (\E p \in Pipes(w) : p[Len(p)].op = "sum") =>
           c.op = "sum" \/ \E p \in Pipes(R) : p[Len(p)].op = "sum"
  BY <1>1, CommandsRest
<1>9. /\ c.op # "sum" => c.rule \in Rules
      /\ c.op \in {"alert", "del"} => c.id \in Alerts
  BY <1>3, CommandFields
<1>10. Sound(h) /\ h[1] = c /\ 1 \in DOMAIN h
  <2>1. Sound(h)
    BY <1>2 DEF CountsInv, PipesInv
  <2> QED
    BY <1>2, <2>1, FirstCommand
<1> HIDE DEF w, h, c, D, U, R
<1>11. db \in Database /\ log \in Logs
  BY DEF CountsInv, TypeOK, Logs
<1>12. /\ db' \in Database
       /\ \A q \in db'.index : q \in db.index \/ (c.op = "zadd" /\ q = c.rule)
       /\ c.op = "zrem" => c.rule \notin db'.index
       /\ \A q \in Rules : Silent(db, q) /\ ~(c.op = "hmset" /\ c.rule = q) => Silent(db', q)
       /\ c.op = "delete" => Silent(db', c.rule)
       /\ c.op = "sum" => db'.total = SumOfCounts(db')
  BY <1>3, <1>4, <1>11, EffectOn
<1>13. /\ wire' \in [Servers -> Seq(Pipelines)]
       /\ wire'[s] = R /\ \A z \in Servers : z # s => wire'[z] = wire[z]
  BY <1>1, <1>2, <1>5
<1>14. PipesInv'
  BY <1>8, <1>13 DEF CountsInv, PipesInv, w
<1>15. /\ D \in SUBSET Rules /\ U \in BOOLEAN
       /\ log.calls \in 0..MaxCalls /\ log.written \in 0..MaxAlerts /\ log.crossed \in SUBSET Rules
  BY <1>9, <1>11 DEF D, U, Logs
<1>16. log' \in Logs /\ log'.deleted = D /\ log'.crossed = log.crossed
  <2>1. log' = [calls |-> log.calls, written |-> log.written, deleted |-> D,
                crossed |-> log.crossed, unsummed |-> U]
    BY <1>7, <1>11 DEF Logs
  <2> QED
    BY <1>15, <2>1 DEF Logs
<1>17. log'.unsummed = U
  <2>1. DOMAIN log = {"calls", "written", "deleted", "crossed", "unsummed"}
    BY <1>11 DEF Logs
  <2> QED
    BY <1>7, <2>1
<1>18. \A op, r : Pending(op, r) <=> (c.op = op /\ c.rule = r) \/ Pending(op, r)'
  <2> SUFFICES ASSUME NEW op, NEW r
               PROVE  Pending(op, r) <=> (c.op = op /\ c.rule = r) \/ Pending(op, r)'
    OBVIOUS
  <2>1. Pending(op, r) <=> \E z \in Servers : Held(wire[z], op, r)
    BY PendingHeld
  <2>2. Pending(op, r)' <=> \E z \in Servers : Held(wire'[z], op, r)
    BY DEF Pending, Held, Has, Pipes
  <2>3. Held(wire[s], op, r) <=> (c.op = op /\ c.rule = r) \/ Held(wire'[s], op, r)
    BY <1>8, <1>13 DEF w
  <2>4. \A z \in Servers : z # s => (Held(wire'[z], op, r) <=> Held(wire[z], op, r))
    BY <1>13
  <2> QED
    BY <2>1, <2>2, <2>3, <2>4
<1>19. Summing => c.op = "sum" \/ Summing'
  BY <1>8, <1>13 DEF Summing, w
<1>20. SumInv'
  <2> SUFFICES ASSUME ~U PROVE db'.total = SumOfCounts(db') \/ Summing'
    BY <1>17 DEF SumInv
  <2>1. CASE c.op = "sum"
    BY <1>12, <2>1
  <2>2. CASE c.op # "sum"
    <3>1. ~log.unsummed /\ ~Unsummed(c)
      BY <2>2 DEF U
    <3>2. CASE Summing
      BY <1>19, <2>2, <3>2
    <3>3. CASE c.op \in {"close", "hmset", "zadd"} /\ ~Summing
      <4>1. db' = db
        BY <3>1, <3>3 DEF Unsummed
      <4>2. db.total = SumOfCounts(db)
        BY <3>1, <3>3 DEF CountsInv, SumInv
      <4> QED
        BY <4>1, <4>2
    <3>4. CASE c.op \notin {"close", "hmset", "zadd"}
      <4>1. h[Len(h)].op = "sum"
        BY <1>10, <3>4 DEF Sound, SumsUp
      <4>2. Summing
        BY <1>2, <4>1 DEF Summing, w
      <4> QED
        BY <1>19, <2>2, <4>2
    <3> QED
      BY <3>2, <3>3, <3>4
  <2> QED
    BY <2>1, <2>2
<1>21. \A r : (Saving(r)' => Saving(r)) /\ (Deleting(r)' => Deleting(r))
  BY <1>16, <1>18 DEF Saving, Deleting, D
<1>22. ASSUME NEW r, c.op = "delete", r = c.rule
       PROVE  Pending("zrem", r)'
  <2>1. PICK n \in DOMAIN h : n > 1 /\ h[n].op = "zrem" /\ h[n].rule = h[1].rule
    BY <1>10, <1>22 DEF Sound, Removes
  <2>2. Has(h, "zrem", r)
    BY <1>10, <1>22, <2>1 DEF Has
  <2>3. Held(wire[s], "zrem", r)
    BY <1>2, <2>2 DEF Held, w
  <2>4. Pending("zrem", r)
    BY <2>3, PendingHeld
  <2> QED
    BY <1>18, <1>22, <2>4
<1>23. ASSUME NEW r \in D \ log.crossed
       PROVE  Silent(db', r) /\ (r \in db'.index => Pending("zrem", r)')
  <2>1. r \in Rules
    BY <1>15
  <2>2. CASE c.op = "delete" /\ r = c.rule
    BY <1>12, <1>22, <2>2
  <2>3. CASE r \in log.deleted
    <3>1. Silent(db, r) /\ (r \in db.index => Pending("zrem", r))
      BY <1>23, <2>3 DEF CountsInv, GoneInv
    <3>2. ~Saving(r)
      BY <1>23, <2>1, <2>3 DEF CountsInv, GoneInv, Deleting
    <3>3. ~(c.op = "hmset" /\ c.rule = r) /\ ~(c.op = "zadd" /\ c.rule = r)
      BY <1>18, <3>2 DEF Saving
    <3>4. Silent(db', r)
      BY <1>12, <2>1, <3>1, <3>3
    <3>5. ASSUME r \in db'.index PROVE Pending("zrem", r)'
      <4>1. r \in db.index /\ ~(c.op = "zrem" /\ c.rule = r)
        BY <1>12, <3>3, <3>5
      <4> QED
        BY <1>18, <3>1, <4>1
    <3> QED
      BY <3>4, <3>5
  <2> QED
    BY <1>23, <2>2, <2>3 DEF D
<1>24. GoneInv'
  <2>1. \A r \in Rules \ log.crossed : ~(Saving(r)' /\ Deleting(r)')
    BY <1>21 DEF CountsInv, GoneInv
  <2> QED
    BY <1>16, <1>23, <2>1 DEF GoneInv
<1>25. replies' \in [Servers -> Seq([rule : Rules, count : 0..MaxAlerts])]
  <2> DEFINE a == [rule |-> c.rule, count |-> Cardinality(db.alerts[c.rule])]
             A == [rule : Rules, count : 0..MaxAlerts]
             q == Append(replies[s], a)
  <2>1. replies \in [Servers -> Seq(A)]
    BY DEF CountsInv, TypeOK
  <2>2. ASSUME c.op = "sweep" PROVE q \in Seq(A)
    <3>1. c.rule \in Rules /\ db.alerts[c.rule] \in SUBSET Alerts
      BY <1>9, <1>11, <2>2, Fields
    <3>2. a \in A
      BY <3>1, AlertsFinite
    <3>3. replies[s] \in Seq(A)
      BY <2>1
    <3> HIDE DEF a, A
    <3> QED
      BY <3>2, <3>3
  <2>3. CASE c.op = "sweep"
    <3>1. q \in Seq(A)
      BY <2>2, <2>3
    <3>2. replies' = [replies EXCEPT ![s] = q]
      BY <1>6, <2>3
    <3> HIDE DEF q, A
    <3>3. replies' \in [Servers -> Seq(A)]
      BY <2>1, <3>1, <3>2
    <3> QED
      BY <3>3 DEF A
  <2>4. CASE c.op # "sweep"
    BY <1>6, <2>1, <2>4
  <2> QED
    BY <2>3, <2>4
<1>26. TypeOK'
  BY <1>5, <1>12, <1>13, <1>16, <1>25 DEF CountsInv, TypeOK, Logs
<1> QED
  BY <1>14, <1>20, <1>24, <1>26 DEF CountsInv

\* A server dies: what it was sending is not.
LEMMA CrashStep ==
  ASSUME CountsInv, NEW s \in Servers, Crash(s)
  PROVE  CountsInv'
<1> DEFINE S == log.crossed \cup {r \in Rules : Deleting(r)}
           U == log.unsummed \/ wire[s] # <<>>
           f == [r \in Rules |-> IF r \in Counts(db) THEN db.hash[r].alertCount ELSE Absent]
           A == [rule : Rules, count : 0..MaxAlerts]
           B == [Rules -> (0..MaxAlerts) \cup {Absent}]
<1>1. /\ wire' = [wire EXCEPT ![s] = <<>>] /\ replies' = [replies EXCEPT ![s] = <<>>]
      /\ copy' = [copy EXCEPT ![s] = f] /\ UNCHANGED <<db, owner>> /\ Call
  BY DEF Crash
<1>2. log' = [log EXCEPT !.calls = @ + 1, !.unsummed = U, !.crossed = S]
  BY DEF Crash
<1>3. /\ wire \in [Servers -> Seq(Pipelines)] /\ db \in Database /\ log \in Logs
      /\ replies \in [Servers -> Seq(A)] /\ copy \in [Servers -> B]
  BY DEF CountsInv, TypeOK, Logs
<1>4. f \in B
  <2>1. \A r \in Counts(db) : db.hash[r] \in Hash
    BY <1>3, Fields DEF Counts
  <2>2. \A r \in Counts(db) : db.hash[r].alertCount \in 0..MaxAlerts
    BY <2>1 DEF Hash
  <2> QED
    BY <2>2
<1>5. <<>> \in Seq(Pipelines) /\ <<>> \in Seq(A) /\ Pipes(<<>>) = {}
  BY DEF Pipes
<1>6. S \in SUBSET Rules /\ U \in BOOLEAN /\ log.deleted \in SUBSET Rules
  BY <1>3 DEF Logs
<1>7. \A r \in Rules : Deleting(r) => r \in S
  OBVIOUS
<1>8. ~U => ~log.unsummed /\ wire[s] = <<>>
  OBVIOUS
<1> HIDE DEF S, U, f, A, B
<1>9. /\ wire' \in [Servers -> Seq(Pipelines)] /\ wire'[s] = <<>>
      /\ \A z \in Servers : z # s => wire'[z] = wire[z]
      /\ replies' \in [Servers -> Seq(A)] /\ copy' \in [Servers -> B]
  BY <1>1, <1>3, <1>4, <1>5
<1>10. /\ log.calls + 1 \in 0..MaxCalls /\ log.written \in 0..MaxAlerts
  BY <1>1, <1>3, CountsAssumption DEF Logs, Call
<1>11. log' = [calls |-> log.calls + 1, written |-> log.written, deleted |-> log.deleted,
               crossed |-> S, unsummed |-> U]
  BY <1>2, <1>3 DEF Logs
<1>12. log' \in Logs /\ log'.deleted = log.deleted /\ log'.crossed = S
  BY <1>6, <1>10, <1>11 DEF Logs
<1>13. log'.unsummed = U
  BY <1>11
<1>14. PipesInv'
  BY <1>5, <1>9 DEF CountsInv, PipesInv
<1>15. SumInv'
  <2> SUFFICES ASSUME ~U PROVE db'.total = SumOfCounts(db') \/ Summing'
    BY <1>13 DEF SumInv
  <2>1. wire' = wire /\ ~log.unsummed
    BY <1>1, <1>3, <1>8
  <2>2. db.total = SumOfCounts(db) \/ Summing
    BY <2>1 DEF CountsInv, SumInv
  <2>3. db' = db
    BY <1>1
  <2> QED
    BY <2>1, <2>2, <2>3 DEF Summing
<1>16. \A op, r : Pending(op, r)' => Pending(op, r)
  <2> SUFFICES ASSUME NEW op, NEW r, Pending(op, r)' PROVE Pending(op, r)
    OBVIOUS
  <2>1. Pending(op, r)' <=> \E z \in Servers : Held(wire'[z], op, r)
    BY DEF Pending, Held, Has, Pipes
  <2>2. PICK z \in Servers : Held(wire'[z], op, r)
    BY <2>1
  <2>3. z # s
    BY <1>5, <1>9, <2>2 DEF Held
  <2> QED
    BY <1>9, <2>2, <2>3, PendingHeld
<1>17. \A r : Deleting(r)' => Deleting(r)
  BY <1>12, <1>16 DEF Deleting
<1>18. log.deleted \subseteq S
  BY <1>6, <1>7 DEF Deleting
<1>19. GoneInv'
  BY <1>7, <1>12, <1>17, <1>18 DEF GoneInv
<1>20. TypeOK'
  BY <1>1, <1>9, <1>12 DEF CountsInv, TypeOK, Logs, A, B
<1> QED
  BY <1>14, <1>15, <1>19, <1>20 DEF CountsInv

\* What leaves Redis and the pipelines as they are.
LEMMA CopySteps ==
  ASSUME CountsInv, NEW s \in Servers,
         Pruned(s) \/ (\E r \in Rules : Forget(s, r)) \/ Elect(s) \/ UNCHANGED vars
  PROVE  CountsInv'
<1> DEFINE A == [rule : Rules, count : 0..MaxAlerts]
           V == (0..MaxAlerts) \cup {Absent}
<1>1. UNCHANGED <<db, wire>>
  BY DEF Pruned, Forget, Elect, vars
<1>2. log' = log \/ (log.calls < MaxCalls /\ log' = [log EXCEPT !.calls = @ + 1])
  BY DEF Pruned, Forget, Elect, vars, Call, Called
<1>3. /\ log \in Logs /\ replies \in [Servers -> Seq(A)] /\ copy \in [Servers -> [Rules -> V]]
      /\ owner \in Servers
  BY DEF CountsInv, TypeOK, Logs
<1>4. /\ log' \in Logs /\ log'.deleted = log.deleted /\ log'.crossed = log.crossed
      /\ log'.unsummed = log.unsummed
  <2>1. CASE log' = log
    BY <1>3, <2>1
  <2>2. CASE log.calls < MaxCalls /\ log' = [log EXCEPT !.calls = @ + 1]
    <3>1. log.calls + 1 \in 0..MaxCalls
      BY <1>3, <2>2, CountsAssumption DEF Logs
    <3> QED
      BY <1>3, <2>2, <3>1 DEF Logs
  <2> QED
    BY <1>2, <2>1, <2>2
<1>5. replies' \in [Servers -> Seq(A)]
  <2> HIDE DEF A
  <2>1. replies' = replies \/ (replies[s] # <<>> /\ replies' = [replies EXCEPT ![s] = Tail(@)])
    BY DEF Pruned, Forget, Elect, vars
  <2>2. replies[s] \in Seq(A)
    BY <1>3
  <2>3. replies[s] # <<>> => Tail(replies[s]) \in Seq(A)
    BY <2>2
  <2>4. replies' = replies \/ \E q \in Seq(A) : replies' = [replies EXCEPT ![s] = q]
    BY <2>1, <2>3
  <2> QED
    BY <1>3, <2>4
<1>6. copy' \in [Servers -> [Rules -> V]]
  <2>1. CASE Pruned(s)
    <3> DEFINE a == Head(replies[s])
               v == IF copy[s][a.rule] = Absent THEN Absent ELSE a.count
    <3>1. replies[s] \in Seq(A) /\ replies[s] # <<>>
      BY <1>3, <2>1 DEF Pruned
    <3>2. a \in A
      <4> HIDE DEF A
      <4> QED
        BY <3>1
    <3>3. a.rule \in Rules /\ v \in V
      BY <3>2
    <3>4. copy' = [copy EXCEPT ![s][a.rule] = v]
      BY <2>1 DEF Pruned
    <3> HIDE DEF a, v, V
    <3> QED
      BY <1>3, <3>3, <3>4
  <2>2. ASSUME NEW r \in Rules, Forget(s, r) PROVE copy' \in [Servers -> [Rules -> V]]
    <3>1. copy' = [copy EXCEPT ![s][r] = Absent] /\ Absent \in V
      BY <2>2 DEF Forget
    <3> HIDE DEF V
    <3> QED
      BY <1>3, <3>1
  <2>3. CASE copy' = copy
    BY <1>3, <2>3
  <2> QED
    BY <2>1, <2>2, <2>3 DEF Elect, vars
<1>7. owner' \in Servers
  BY <1>3 DEF Pruned, Forget, Elect, vars
<1>8. TypeOK'
  BY <1>1, <1>4, <1>5, <1>6, <1>7 DEF CountsInv, TypeOK, Logs
<1>9. PipesInv' /\ SumInv'
  BY <1>1, <1>4 DEF CountsInv, PipesInv, SumInv, SumOfCounts, Counted, Counts, Summing
<1>10. \A op, r : Pending(op, r)' <=> Pending(op, r)
  BY <1>1 DEF Pending
<1>11. GoneInv'
  BY <1>1, <1>4, <1>10 DEF CountsInv, GoneInv, Silent, IsActive, Saving, Deleting
<1> QED
  BY <1>8, <1>9, <1>11 DEF CountsInv

-----------------------------------------------------------------------------
(* The theorems.                                                            *)

\* Every step keeps the invariant.
LEMMA CountsNext ==
  ASSUME CountsInv, [Next]_vars
  PROVE  CountsInv'
<1>1. CASE UNCHANGED vars
  <2>1. PICK s \in Servers : TRUE
    BY CountsAssumption
  <2> QED
    BY <1>1, <2>1, CopySteps
<1>2. CASE Next
  <2>1. PICK s \in Servers :
          \/ \E r \in Rules :
               \/ Alert(s, r) \/ Close(s, r) \/ ClearAlerts(s, r) \/ DeleteRule(s, r)
               \/ SaveRule(s, r)
               \/ \E id \in Alerts : DeleteAlert(s, r, id)
               \/ Forget(s, r)
          \/ Execute(s) \/ Pruned(s) \/ Sweep(s) \/ Crash(s) \/ Elect(s)
    BY <1>2 DEF Next, Step
  <2>2. ASSUME NEW r \in Rules,
               Alert(s, r) \/ Close(s, r) \/ ClearAlerts(s, r)
                 \/ \E id \in Alerts : DeleteAlert(s, r, id)
        PROVE  CountsInv'
    BY <2>2, HarmlessSteps
  <2>3. ASSUME NEW r \in Rules, DeleteRule(s, r) \/ SaveRule(s, r)
        PROVE  CountsInv'
    BY <2>3, DeleteRuleStep, SaveRuleStep
  <2>4. ASSUME NEW r \in Rules, Forget(s, r)
        PROVE  CountsInv'
    BY <2>4, CopySteps
  <2>5. CASE Pruned(s) \/ Elect(s)
    BY <2>5, CopySteps
  <2>6. CASE Sweep(s)
    <3>1. PICK r \in Rules : TRUE
      BY <2>6 DEF Sweep, Registered
    <3> QED
      BY <2>6, <3>1, HarmlessSteps
  <2>7. CASE Execute(s) \/ Crash(s)
    BY <2>7, ExecuteStep, CrashStep
  <2> QED
    BY <2>1, <2>2, <2>3, <2>4, <2>5, <2>6, <2>7
<1> QED
  BY <1>1, <1>2

\* The invariant holds in every state that the servers can get to.
LEMMA CountsSafe == Spec => []CountsInv
<1>1. Init => CountsInv
  BY CountsInit
<1>2. CountsInv /\ [Next]_vars => CountsInv'
  BY CountsNext
<1> QED
  BY <1>1, <1>2, PTL DEF Spec

\* The stored hashes and alerts, the commands on their way and the servers' copies are
\* of their types: no count is larger than the alerts that were written.
THEOREM TypeCorrectness == Spec => []TypeOK
<1>1. CountsInv => TypeOK
  BY DEF CountsInv
<1> QED
  BY <1>1, CountsSafe, PTL

\* However the commands of the pipelines are mixed, the queue's count is the sum of the
\* rules' counts when all have been executed, unless something has changed them that
\* sums nothing; and what is left of a rule that was deleted is nothing, unless it was
\* saved at the same time.
THEOREM CountsConsistent == Spec => []ConsistentAtRest
<1>1. CountsInv => ConsistentAtRest
  <2> SUFFICES ASSUME CountsInv, AtRest PROVE ConsistentAtRest
    BY DEF ConsistentAtRest
  <2>1. \A s \in Servers : Pipes(wire[s]) = {}
    BY DEF AtRest, Pipes
  <2>2. ~Summing
    BY <2>1 DEF Summing
  <2>3. \A op, r : ~Pending(op, r)
    BY <2>1, PendingHeld DEF Held
  <2> QED
    BY <2>2, <2>3 DEF CountsInv, SumInv, GoneInv, Silent, ConsistentAtRest
<1> QED
  BY <1>1, CountsSafe, PTL
=============================================================================
