----------------------------- MODULE AlertCounts ------------------------------
(***************************************************************************)
(* The alerts of a queue's rules and the counts that are kept of them      *)
(* (src/src/server/rules/rule-storage.ts, commands/rule-scripts.ts and the *)
(* update...AlertCount scripts of the same directory): how many alerts a   *)
(* rule has, in its hash, and how many the rules of the queue have.        *)
(*                                                                         *)
(* A call sends a pipeline, which is no transaction: Redis executes its    *)
(* commands in order, but those of another server in between.  The count   *)
(* of the host is left out: it is always 0, as its script asks for the     *)
(* field of keys that do not exist.                                        *)
(***************************************************************************)
EXTENDS Naturals, Sequences, FiniteSets, SequencesExt

CONSTANTS
  Servers, Rules,
  Absent,      \* no such key, or a rule that is not registered
  NoAlert,     \* the state of a rule has no alert
  MaxAlerts,   \* bound: alerts that are written
  MaxCalls     \* bound: calls, crashes and changes of the owner

ASSUME CountsAssumption ==
  /\ Servers # {} /\ IsFiniteSet(Rules)
  /\ MaxAlerts \in Nat /\ MaxCalls \in Nat
  /\ NoAlert \notin Nat

VARIABLES
  db,       \* Redis: hash, alerts, current, index, total (see Init)
  wire,     \* a server's pipelines, as far as Redis has not executed them
  replies,  \* and the counts of its sweep that it has not handled
  copy,     \* the alertCount of every rule that a server has registered
  owner,    \* the server that has the lock
  log       \* history: calls, written, deleted, crossed, unsummed

vars == <<db, wire, replies, copy, owner, log>>

Alerts == 1..MaxAlerts

\* Every server has registered the rules.
Init ==
  /\ db = [hash    |-> [r \in Rules |-> [isActive |-> TRUE, alertCount |-> 0]],
           alerts  |-> [r \in Rules |-> {}],
           current |-> [r \in Rules |-> NoAlert],  \* alertId of the state
           index   |-> Rules,
           total   |-> 0]                          \* the queue's alert count
  /\ wire = [s \in Servers |-> <<>>]
  /\ replies = [s \in Servers |-> <<>>]
  /\ copy = [s \in Servers |-> [r \in Rules |-> 0]]
  /\ owner = CHOOSE s \in Servers : TRUE
  \* crossed: the rules that were saved while, or after, they were deleted;
  \* unsummed: a count was written and nothing has summed them since.
  /\ log = [calls |-> 0, written |-> 0, deleted |-> {}, crossed |-> {}, unsummed |-> FALSE]

-----------------------------------------------------------------------------
(* Commands of Redis, and scripts.                                          *)

SetHash(d, r, hash) == [d EXCEPT !.hash[r] = hash]
SetAlerts(d, r, alerts) == [d EXCEPT !.alerts[r] = alerts]
SetCurrent(d, r, id) == [d EXCEPT !.current[r] = id]

IsActive(d, r) == d.hash[r] # Absent /\ d.hash[r].isActive

\* Mutant: the alerts are added to the count.
CountsUp(d, r) ==
  SetHash(d, r, [isActive |-> IsActive(d, r), alertCount |->
    Cardinality(d.alerts[r]) + IF d.hash[r] = Absent THEN 0 ELSE d.hash[r].alertCount])

\* updateRuleAlertCount-2.lua; HSET makes a hash where there is none.
UpdateRuleAlertCount(d, r) ==
  SetHash(d, r, [isActive |-> IsActive(d, r), alertCount |-> Cardinality(d.alerts[r])])

Counts(d) == {r \in d.index : d.hash[r] # Absent}
Counted(d) == UNION {{r} \X (1..d.hash[r].alertCount) : r \in Counts(d)}
SumOfCounts(d) == Cardinality(Counted(d))

\* updateQueueAlertCount-2.lua: SORT finds nothing for a rule without a hash.
UpdateQueueAlertCount(d) == [d EXCEPT !.total = SumOfCounts(d)]

\* 'alert'
WriteAlert(d, r, id) ==
  IF IsActive(d, r)
    THEN UpdateRuleAlertCount(SetCurrent(SetAlerts(d, r, d.alerts[r] \cup {id}), r, id), r)
    ELSE d

\* resetAndCloseCircuit(): the current alert, if it is still there, is stored anew.
CloseCircuit(d, r) ==
  LET closed == SetCurrent(d, r, NoAlert) IN
  IF d.current[r] \in d.alerts[r] THEN UpdateRuleAlertCount(closed, r) ELSE closed

DeleteKeys(d, r) == SetCurrent(SetAlerts(SetHash(d, r, Absent), r, {}), r, NoAlert)

SaveHash(d, r, count) == SetHash(d, r, [isActive |-> TRUE, alertCount |-> count])

\* What a command does, gone being what 'truncate' finds too old.
Effect(d, c, gone) ==
  CASE c.op = "alert"    -> WriteAlert(d, c.rule, c.id)
    [] c.op = "close"    -> CloseCircuit(d, c.rule)
    [] c.op = "del"      -> SetAlerts(d, c.rule, d.alerts[c.rule] \ {c.id})
    [] c.op = "clear"    -> SetAlerts(d, c.rule, {})
    [] c.op = "truncate" -> SetAlerts(d, c.rule, d.alerts[c.rule] \ gone)
    [] c.op \in {"count", "sweep"} -> UpdateRuleAlertCount(d, c.rule)
    [] c.op = "sum"      -> UpdateQueueAlertCount(d)
    [] c.op = "delete"   -> DeleteKeys(d, c.rule)
    [] c.op = "zrem"     -> [d EXCEPT !.index = @ \ {c.rule}]
    [] c.op = "hmset"    -> SaveHash(d, c.rule, c.count)
    [] c.op = "zadd"     -> [d EXCEPT !.index = @ \cup {c.rule}]

\* The older alerts that 'truncate' may remove: any or none, as it compares the
\* digits of ids with those of a number below the last one; and never the last.
Removable(c) ==
  IF c.op # "truncate" THEN {{}}
  ELSE SUBSET {a \in db.alerts[c.rule] : \E b \in db.alerts[c.rule] : a < b}

\* What its own pipeline does not sum up.
Unsummed(c) == c.op \in {"close", "hmset", "zadd"} /\ db' # db

\* The pipelines w without the first command.
Rest(w) == IF Len(Head(w)) = 1 THEN Tail(w) ELSE <<Tail(Head(w))>> \o Tail(w)

Execute(s) ==
  /\ wire[s] # <<>>
  /\ wire' = [wire EXCEPT ![s] = Rest(@)]
  /\ LET c == Head(Head(wire[s])) IN
       /\ \E gone \in Removable(c) : db' = Effect(db, c, gone)
       /\ replies' = IF c.op = "sweep"
            THEN [replies EXCEPT ![s] =
                    Append(@, [rule |-> c.rule, count |-> Cardinality(db.alerts[c.rule])])]
            ELSE replies
       /\ log' = [log EXCEPT
            !.deleted = IF c.op = "delete" THEN @ \cup {c.rule} ELSE @,
            !.unsummed = c.op # "sum" /\ (@ \/ Unsummed(c))]
  /\ UNCHANGED <<copy, owner>>

-----------------------------------------------------------------------------
(* The calls.                                                               *)

\* Mutant: the counts are summed before they are changed.
SumsFirst(commands) == <<[op |-> "sum"]>> \o commands

\* pipelineAggregateAlertCounts()
Aggregated(commands) == Append(commands, [op |-> "sum"])

On(op, rule) == [op |-> op, rule |-> rule]

SendAll(s, pipelines) == wire' = [wire EXCEPT ![s] = @ \o pipelines]
Send(s, pipeline) == SendAll(s, <<pipeline>>)

Call == log.calls < MaxCalls
Called == log' = [log EXCEPT !.calls = @ + 1]

\* A command that is on its way.
Pending(op, r) ==
  \E s \in Servers : \E i \in DOMAIN wire[s] : \E k \in DOMAIN wire[s][i] :
    wire[s][i][k].op = op /\ wire[s][i][k].rule = r

Saving(r) == Pending("hmset", r) \/ Pending("zadd", r)

\* writeAlert() of a rule that is registered.
Alert(s, r) ==
  /\ Call /\ copy[s][r] # Absent /\ log.written < MaxAlerts
  /\ Send(s, Aggregated(<<[op |-> "alert", rule |-> r, id |-> log.written + 1]>>))
  /\ log' = [log EXCEPT !.calls = @ + 1, !.written = @ + 1]
  /\ UNCHANGED <<db, replies, copy, owner>>

\* A check that closes the circuit.
Close(s, r) ==
  /\ Call /\ copy[s][r] # Absent
  /\ Send(s, <<On("close", r)>>)
  /\ Called
  /\ UNCHANGED <<db, replies, copy, owner>>

\* deleteAlert() of an alert that the caller has seen.
DeleteAlert(s, r, id) ==
  /\ Call /\ id \in db.alerts[r]
  /\ Send(s, Aggregated(<<[op |-> "del", rule |-> r, id |-> id], On("count", r)>>))
  /\ Called
  /\ UNCHANGED <<db, replies, copy, owner>>

\* clearAlerts() leaves the rule's own count as it is.
ClearAlerts(s, r) ==
  /\ Call
  /\ Send(s, Aggregated(<<On("clear", r)>>))
  /\ Called
  /\ UNCHANGED <<db, replies, copy, owner>>

DeleteRule(s, r) ==
  /\ Call
  /\ Send(s, Aggregated(<<On("delete", r), On("zrem", r)>>))
  /\ log' = [log EXCEPT !.calls = @ + 1, !.crossed = IF Saving(r) THEN @ \cup {r} ELSE @]
  /\ UNCHANGED <<db, replies, copy, owner>>

Deleting(r) == r \in log.deleted \/ Pending("delete", r)

\* saveRule() writes the registered rule's count, and sums nothing.
SaveRule(s, r) ==
  /\ Call /\ copy[s][r] # Absent
  /\ Send(s, <<[op |-> "hmset", rule |-> r, count |-> copy[s][r]], On("zadd", r)>>)
  /\ log' = [log EXCEPT !.calls = @ + 1, !.crossed = IF Deleting(r) THEN @ \cup {r} ELSE @]
  /\ UNCHANGED <<db, replies, copy, owner>>

-----------------------------------------------------------------------------
(* The sweep, the bus, crashes.                                             *)

Registered(s) == {r \in Rules : copy[s][r] # Absent}

\* Mutant: the rule's count is not updated.
PrunesOnly(r) == Aggregated(<<On("truncate", r)>>)

\* pruneAlerts() of the storage
Prune(r) == Aggregated(<<On("truncate", r), On("sweep", r)>>)

\* pruneAlerts() of the rule manager, for the owner's timer: far less often than a
\* pipeline takes.
Sweep(s) ==
  /\ s = owner /\ wire[s] = <<>> /\ replies[s] = <<>>
  /\ Registered(s) # {}
  /\ LET rules == SetToSeq(Registered(s)) IN
       SendAll(s, [i \in 1..Len(rules) |-> Prune(rules[i])])
  /\ UNCHANGED <<db, replies, copy, owner, log>>

\* The registered rule takes the count over.
Pruned(s) ==
  /\ replies[s] # <<>>
  /\ LET a == Head(replies[s]) IN
       copy' = [copy EXCEPT ![s][a.rule] = IF @ = Absent THEN Absent ELSE a.count]
  /\ replies' = [replies EXCEPT ![s] = Tail(@)]
  /\ UNCHANGED <<db, wire, owner, log>>

\* The server hears that the rule is deleted.  (Before its own commands are executed
\* that would only keep it from new calls.)
Forget(s, r) ==
  /\ wire[s] = <<>>
  /\ r \in log.deleted /\ copy[s][r] # Absent
  /\ copy' = [copy EXCEPT ![s][r] = Absent]
  /\ UNCHANGED <<db, wire, replies, owner, log>>

\* The process dies with commands on the way, and loads the rules again.
Crash(s) ==
  /\ Call
  /\ wire' = [wire EXCEPT ![s] = <<>>]
  /\ replies' = [replies EXCEPT ![s] = <<>>]
  /\ copy' = [copy EXCEPT ![s] =
       [r \in Rules |-> IF r \in Counts(db) THEN db.hash[r].alertCount ELSE Absent]]
  /\ log' = [log EXCEPT !.calls = @ + 1, !.unsummed = @ \/ wire[s] # <<>>,
       !.crossed = @ \cup {r \in Rules : Deleting(r)}]
  /\ UNCHANGED <<db, owner>>

Elect(s) ==
  /\ Call /\ owner # s
  /\ owner' = s
  /\ Called
  /\ UNCHANGED <<db, wire, replies, copy>>

-----------------------------------------------------------------------------
Step(s) == Execute(s) \/ Pruned(s) \/ Sweep(s)

Next ==
  \E s \in Servers :
    \/ \E r \in Rules :
         \/ Alert(s, r) \/ Close(s, r) \/ ClearAlerts(s, r) \/ DeleteRule(s, r) \/ SaveRule(s, r)
         \/ \E id \in Alerts : DeleteAlert(s, r, id)
         \/ Forget(s, r)
    \/ Step(s) \/ Crash(s) \/ Elect(s)

Spec == Init /\ [][Next]_vars

\* Redis answers, and the owner's timer fires.
FairSpec == Spec /\ \A s \in Servers : WF_vars(Step(s))

-----------------------------------------------------------------------------
(* Properties.                                                              *)

Hash == [isActive : BOOLEAN, alertCount : 0..MaxAlerts]
Database == [hash : [Rules -> Hash \cup {Absent}], alerts : [Rules -> SUBSET Alerts],
             current : [Rules -> Alerts \cup {NoAlert}], index : SUBSET Rules, total : Nat]

Commands ==
  [op : {"close", "clear", "truncate", "count", "sweep", "delete", "zrem", "zadd"}, rule : Rules]
    \cup [op : {"alert", "del"}, rule : Rules, id : Alerts]
    \cup [op : {"hmset"}, rule : Rules, count : 0..MaxAlerts]
    \cup [op : {"sum"}]
Pipelines == Seq(Commands) \ {<<>>}

TypeOK ==
  /\ db \in Database
  /\ wire \in [Servers -> Seq(Pipelines)]
  /\ replies \in [Servers -> Seq([rule : Rules, count : 0..MaxAlerts])]
  /\ copy \in [Servers -> [Rules -> (0..MaxAlerts) \cup {Absent}]]
  /\ owner \in Servers
  /\ log \in [calls : 0..MaxCalls, written : 0..MaxAlerts, deleted : SUBSET Rules,
              crossed : SUBSET Rules, unsummed : BOOLEAN]

AtRest == \A s \in Servers : wire[s] = <<>>

\* However the pipelines of the servers are mixed, the queue's count at rest is the
\* sum of its rules' counts, unless a rule was saved, a circuit was closed, or a
\* pipeline was cut off, and no pipeline has been executed to its end since then.
\* And a deleted rule has no alerts, whatever was still on its way to it, unless it
\* was saved while it was deleted.
ConsistentAtRest ==
  AtRest =>
    /\ ~log.unsummed => db.total = SumOfCounts(db)
    /\ \A r \in log.deleted \ log.crossed : db.alerts[r] = {} /\ r \notin db.index

\* The sweep sets the counts right that clearAlerts(), saveRule(), and pipelines
\* that were cut off have left, as long as the owner has registered a rule: of every
\* rule that it has registered, and of the queue.
CountsRepaired ==
  <>[](Registered(owner) # {} =>
         /\ db.total = SumOfCounts(db)
         /\ \A r \in Counts(db) \cap Registered(owner) :
              db.hash[r].alertCount = Cardinality(db.alerts[r]))

=============================================================================
