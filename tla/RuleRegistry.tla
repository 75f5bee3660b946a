----------------------------- MODULE RuleRegistry -----------------------------
(***************************************************************************)
(* The rules of a queue: their hashes and their index in Redis             *)
(* (src/src/server/rules/rule-storage.ts) and the rules that each server   *)
(* has registered and evaluates (rule-manager.ts), kept together by the    *)
(* events of the queue's bus (redis/event-bus.ts).                         *)
(*                                                                         *)
(* What a call does between two awaits is one action, and so is a command  *)
(* that Redis executes.  The commands of the queue's client and those of   *)
(* the bus travel on two connections; two calls of a server overlap as     *)
(* freely as the calls of two servers.  Of a rule's data only the metric   *)
(* is kept, by which it is evaluated, and whether its hash can be read:     *)
(* the script writes fields that the schema of a rule does not know.        *)
(*                                                                         *)
(* Left out: the calls of a client that make the script look at the        *)
(* circuit or clear it; what they write into the hash, a check writes too. *)
(***************************************************************************)
EXTENDS Naturals, Sequences, FiniteSets

CONSTANTS
  Servers, Rules, Metrics,
  Absent,        \* Redis has no such key
  Nameless,      \* a hash without the fields of a rule, or without its id
  MaxCalls       \* bound: restarts, and calls of the API that create no rule

ASSUME RegistryAssumption ==
  /\ Absent \notin Metrics /\ Nameless \notin Metrics /\ Absent # Nameless
  /\ MaxCalls \in Nat
  \* A server that does not listen has no inbox, not even an empty one.
  /\ Absent \notin Seq([type : {"added", "updated", "deleted"}, rule : Rules])

VARIABLES
  hash,         \* Redis: the rule's hash
  foreign,      \* Redis: the rules whose hash has a field that the schema refuses,
                \* lastResolvedAt or active
  states,       \* Redis: the rules that have a state key, which start() makes
  index,        \* Redis: the members of the index
  inbox,        \* the bus: the messages of others that a server has not read, or
                \* Absent before its first read of the stream
  metas,        \* _metas: the metricId of every rule that is registered
  metricRules,  \* metricRuleMap: the rules and the metrics they are evaluated for
  work,         \* alerter.start() that registrations have put in the work queue
  calls,        \* the calls under way
  log           \* history: created, deleted, crossed, ... (see Init)

vars == <<hash, foreign, states, index, inbox, metas, metricRules, work, calls, log>>

Init ==
  /\ hash = [r \in Rules |-> Absent]
  /\ foreign = {}
  /\ states = {}
  /\ index = {}
  /\ inbox = [s \in Servers |-> <<>>]
  /\ metas = [s \in Servers |-> [r \in Rules |-> Absent]]
  /\ metricRules = [s \in Servers |-> {}]
  /\ work = [s \in Servers |-> {}]
  /\ calls = [s \in Servers |-> {}]
  \* The sets of the rules that were created and deleted; crossed: saved while,
  \* or after, they were deleted; raced: found by a look-up that ended after the
  \* server had heard of the deletion; unread: looked up before they were stored;
  \* refused: the servers and the rules whose hash the schema has refused them;
  \* unheard: created or deleted while a server was not listening yet; erased: given
  \* to setRuleStatus(); moved: the servers and rules whose metric was changed.
  /\ log = [created |-> {}, deleted |-> {}, crossed |-> {}, raced |-> {}, unread |-> {},
            refused |-> {}, unheard |-> {}, moved |-> {}, erased |-> {}, calls |-> 0]

-----------------------------------------------------------------------------
(* Registration.                                                            *)

\* _registerRule() of every rule that was found, with the metric it was found with.
Register(s, found) ==
  LET new == {r \in Rules : found[r] # Absent /\ metas[s][r] = Absent} IN
  /\ metas' = [metas EXCEPT ![s] = [r \in Rules |-> IF r \in new THEN found[r] ELSE @[r]]]
  /\ metricRules' = [metricRules EXCEPT ![s] = @ \cup {<<r, found[r]>> : r \in new}]
  /\ work' = [work EXCEPT ![s] = @ \cup new]

Only(rule, metric) == [r \in Rules |-> IF r = rule THEN metric ELSE Absent]

\* Mutant: removeRule() forgets the map of the metrics.
RemovesMeta(s, rule) ==
  /\ metas' = [metas EXCEPT ![s][rule] = Absent]
  /\ UNCHANGED metricRules

\* removeRule() and destroyMeta(), which looks up the rule's present metric.
Remove(s, rule) ==
  /\ metas' = [metas EXCEPT ![s][rule] = Absent]
  /\ metricRules' = [metricRules EXCEPT ![s] = @ \ {<<rule, metas[s][rule]>>}]

\* Mutant: whatever is read is a rule.
ParsesAnything(data) == data

\* What getRuleId() and the other fields make of a hash: without an id it is no rule.
Parsed(data) == IF data \in Metrics THEN data ELSE Absent

Stored(rule) == hash[rule] \in Metrics

\* deserializeRule(): the schema throws at a field that it does not know.
Deserialized(rule) == IF rule \in foreign THEN Absent ELSE Parsed(hash[rule])

\* The stored rules that a server has asked for and does not get for that reason.
Refusals(s, asked) == {s} \X {r \in asked \cap foreign : Stored(r)}

-----------------------------------------------------------------------------
(* Calls.                                                                   *)

Begin(s, call) == calls' = [calls EXCEPT ![s] = @ \cup {call}]
Replace(s, call, next) == calls' = [calls EXCEPT ![s] = (@ \ {call}) \cup next]

\* The bus tells the other servers that listen.
Emit(s, type, rule) ==
  inbox' = [t \in Servers |-> IF t = s \/ inbox[t] = Absent THEN inbox[t]
                              ELSE Append(inbox[t], [type |-> type, rule |-> rule])]

Save(rule, metric, new) ==
  [op |-> "save", rule |-> rule, metric |-> metric, new |-> new,
   step |-> "exists", existed |-> FALSE, event |-> "none"]
\* own: for the server's own event, whose emit() waits for it.
Lookup(rule, own) ==
  [op |-> "lookup", rule |-> rule, own |-> own, step |-> "hgetall", found |-> Absent]

MoreCalls == log.calls < MaxCalls

Saving(rule) == \E t \in Servers : \E c \in calls[t] : c.op = "save" /\ c.rule = rule

\* createRule(): the id is new, and EXISTS finds no such key.
Create(s, rule, metric) ==
  /\ rule \notin log.created
  /\ Begin(s, [Save(rule, metric, TRUE) EXCEPT !.step = "hmset"])
  /\ log' = [log EXCEPT !.created = @ \cup {rule}]
  /\ UNCHANGED <<hash, foreign, states, index, inbox, metas, metricRules, work>>

\* updateRule() of a registered rule, after the resolver has changed the registered
\* rule itself.
Update(s, rule, metric) ==
  /\ MoreCalls
  /\ metas[s][rule] # Absent
  /\ metas' = [metas EXCEPT ![s][rule] = metric]
  /\ Begin(s, Save(rule, metric, FALSE))
  /\ log' = [log EXCEPT
       !.calls = @ + 1,
       !.moved = IF metric = metas[s][rule] THEN @ ELSE @ \cup {<<s, rule>>},
       !.crossed = IF rule \in log.deleted THEN @ \cup {rule} ELSE @]
  /\ UNCHANGED <<hash, foreign, states, index, inbox, metricRules, work>>

\* getRule()
GetRule(s, rule) ==
  /\ MoreCalls
  /\ rule \in log.created /\ metas[s][rule] = Absent
  /\ Begin(s, Lookup(rule, FALSE))
  /\ log' = [log EXCEPT !.calls = @ + 1]
  /\ UNCHANGED <<hash, foreign, states, index, inbox, metas, metricRules, work>>

\* deleteRule()
Delete(s, rule) ==
  /\ MoreCalls
  /\ rule \in log.created
  /\ Begin(s, [op |-> "delete", rule |-> rule, step |-> "del"])
  /\ log' = [log EXCEPT
       !.calls = @ + 1,
       !.deleted = @ \cup {rule},
       !.crossed = IF Saving(rule) THEN @ \cup {rule} ELSE @]
  /\ UNCHANGED <<hash, foreign, states, index, inbox, metas, metricRules, work>>

\* setRuleStatus()
SetRuleStatus(s, rule) ==
  /\ MoreCalls
  /\ rule \in log.created
  /\ Begin(s, [op |-> "status", rule |-> rule, step |-> "hset"])
  /\ log' = [log EXCEPT !.calls = @ + 1, !.erased = @ \cup {rule}]
  /\ UNCHANGED <<hash, foreign, states, index, inbox, metas, metricRules, work>>

-----------------------------------------------------------------------------
(* saveRule()                                                               *)

\* EXISTS decides on the event and on whether the id is written.
SaveExists(s, c) ==
  /\ c.op = "save" /\ c.step = "exists"
  /\ Replace(s, c, {[c EXCEPT !.step = "hmset", !.existed = hash[c.rule] # Absent]})
  /\ UNCHANGED <<hash, foreign, states, index, inbox, metas, metricRules, work, log>>

SavedHash(c, data) == IF c.existed /\ data \notin Metrics THEN Nameless ELSE c.metric

SaveHash(s, c) ==
  /\ c.op = "save" /\ c.step = "hmset"
  /\ hash' = [hash EXCEPT ![c.rule] = SavedHash(c, @)]
  /\ Replace(s, c, {[c EXCEPT !.step = "zadd"]})
  /\ UNCHANGED <<foreign, states, index, inbox, metas, metricRules, work, log>>

SaveIndex(s, c) ==
  /\ c.op = "save" /\ c.step = "zadd"
  /\ index' = index \cup {c.rule}
  /\ Replace(s, c, {[c EXCEPT !.step = "saved"]})
  /\ UNCHANGED <<hash, foreign, states, inbox, metas, metricRules, work, log>>

\* Another server is not listening.
Deaf(s) == \E t \in Servers \ {s} : inbox[t] = Absent

\* The event is emitted beside the pipeline: first on the bus ...
SaveEmit(s, c) ==
  /\ c.op = "save" /\ c.step # "exists" /\ c.event = "none"
  /\ Emit(s, IF c.existed THEN "updated" ELSE "added", c.rule)
  /\ Replace(s, c, {[c EXCEPT !.event = "sent"]})
  /\ log' = [log EXCEPT !.unheard = IF Deaf(s) THEN @ \cup {c.rule} ELSE @]
  /\ UNCHANGED <<hash, foreign, states, index, metas, metricRules, work>>

\* ... and then to the server's own handler, which looks up a rule it does not know.
SaveHears(s, c) ==
  /\ c.op = "save" /\ c.event = "sent"
  /\ Replace(s, c, {[c EXCEPT !.event = "heard"]}
                   \cup IF c.existed \/ metas[s][c.rule] # Absent THEN {}
                        ELSE {Lookup(c.rule, TRUE)})
  /\ UNCHANGED <<hash, foreign, states, index, inbox, metas, metricRules, work, log>>

SaveDone(s, c) ==
  /\ c.op = "save" /\ c.step = "saved" /\ c.event = "heard"
  /\ ~\E d \in calls[s] : d.op = "lookup" /\ d.own /\ d.rule = c.rule
  /\ IF c.new
       THEN Register(s, Only(c.rule, c.metric))
       ELSE UNCHANGED <<metas, metricRules, work>>
  /\ Replace(s, c, {})
  /\ UNCHANGED <<hash, foreign, states, index, inbox, log>>

-----------------------------------------------------------------------------
(* getRule() of the storage, and loadRules().                                *)

\* HGETALL
LookupReads(s, c) ==
  /\ c.op = "lookup" /\ c.step = "hgetall"
  /\ Replace(s, c, {[c EXCEPT !.step = "resume", !.found = Deserialized(c.rule)]})
  /\ log' = [log EXCEPT !.unread = IF Stored(c.rule) THEN @ ELSE @ \cup {c.rule},
                        !.refused = @ \cup Refusals(s, {c.rule})]
  /\ UNCHANGED <<hash, foreign, states, index, inbox, metas, metricRules, work>>

LookupDone(s, c) ==
  /\ c.op = "lookup" /\ c.step = "resume"
  /\ Register(s, Only(c.rule, c.found))
  /\ Replace(s, c, {})
  /\ UNCHANGED <<hash, foreign, states, index, inbox, log>>

\* SORT of the index
LoadSorts(s, c) ==
  /\ c.op = "load" /\ c.step = "sort"
  /\ Replace(s, c, {[op |-> "load", step |-> "hgetall", ids |-> index]})
  /\ UNCHANGED <<hash, foreign, states, index, inbox, metas, metricRules, work, log>>

\* HGETALL of what it has answered; a rule that cannot be read is skipped.
LoadReads(s, c) ==
  /\ c.op = "load" /\ c.step = "hgetall"
  /\ LET found == [r \in Rules |-> IF r \in c.ids THEN Deserialized(r) ELSE Absent] IN
       Replace(s, c, {[op |-> "load", step |-> "resume", found |-> found]})
  /\ log' = [log EXCEPT
       !.unread = @ \cup {r \in log.created : r \notin c.ids \/ ~Stored(r)},
       !.refused = @ \cup Refusals(s, c.ids)]
  /\ UNCHANGED <<hash, foreign, states, index, inbox, metas, metricRules, work>>

LoadDone(s, c) ==
  /\ c.op = "load" /\ c.step = "resume"
  /\ Register(s, c.found)
  /\ Replace(s, c, {})
  /\ UNCHANGED <<hash, foreign, states, index, inbox, log>>

-----------------------------------------------------------------------------
(* deleteRule() and setRuleStatus()                                          *)

\* A look-up of the server that has found the rule and not registered it yet.
Finding(s, rule) ==
  \E c \in calls[s] :
    \/ c.op = "lookup" /\ c.rule = rule /\ c.step = "resume" /\ c.found # Absent
    \/ c.op = "load" /\ c.step = "resume" /\ c.found[rule] # Absent

Forget(s, rule) ==
  /\ Remove(s, rule)
  /\ log' = [log EXCEPT !.raced = IF Finding(s, rule) THEN @ \cup {rule} ELSE @]

\* DEL answers how many of the rule's keys there were.
HasKeys(rule) == hash[rule] # Absent \/ rule \in states

\* Mutant: the index is left alone when the keys are gone already.
DeletesHashOnly(s, c) ==
  /\ c.op = "delete" /\ c.step = "del"
  /\ hash' = [hash EXCEPT ![c.rule] = Absent]
  /\ foreign' = foreign \ {c.rule}
  /\ states' = states \ {c.rule}
  /\ Replace(s, c, IF ~HasKeys(c.rule) THEN {} ELSE {[c EXCEPT !.step = "emit"]})
  /\ UNCHANGED <<index, inbox, metas, metricRules, work, log>>

DeleteHash(s, c) ==
  /\ c.op = "delete" /\ c.step = "del"
  /\ hash' = [hash EXCEPT ![c.rule] = Absent]
  /\ foreign' = foreign \ {c.rule}
  /\ states' = states \ {c.rule}
  /\ Replace(s, c, {[c EXCEPT !.step = IF ~HasKeys(c.rule) THEN "zrem-only" ELSE "zrem"]})
  /\ UNCHANGED <<index, inbox, metas, metricRules, work, log>>

DeleteIndex(s, c) ==
  /\ c.op = "delete" /\ c.step \in {"zrem", "zrem-only"}
  /\ index' = index \ {c.rule}
  /\ Replace(s, c, IF c.step = "zrem" THEN {[c EXCEPT !.step = "emit"]} ELSE {})
  /\ UNCHANGED <<hash, foreign, states, inbox, metas, metricRules, work, log>>

\* Whoever is not listening does not hear of it.
DeleteEmit(s, c) ==
  /\ c.op = "delete" /\ c.step = "emit"
  /\ Emit(s, "deleted", c.rule)
  /\ Replace(s, c, {[c EXCEPT !.step = "emitted"]})
  /\ log' = [log EXCEPT !.unheard = IF Deaf(s) THEN @ \cup {c.rule} ELSE @]
  /\ UNCHANGED <<hash, foreign, states, index, metas, metricRules, work>>

\* The server's own handler, and then deleteRule() once more.
DeleteHears(s, c) ==
  /\ c.op = "delete" /\ c.step = "emitted"
  /\ Forget(s, c.rule)
  /\ Replace(s, c, {[c EXCEPT !.step = "remove"]})
  /\ UNCHANGED <<hash, foreign, states, index, inbox, work>>

DeleteDone(s, c) ==
  /\ c.op = "delete" /\ c.step = "remove"
  /\ Forget(s, c.rule)
  /\ Replace(s, c, {})
  /\ UNCHANGED <<hash, foreign, states, index, inbox, work>>

\* HSET of the field 'active', which no rule has, makes a hash where there is none.
StatusHset(s, c) ==
  /\ c.op = "status" /\ c.step = "hset"
  /\ hash' = [hash EXCEPT ![c.rule] = IF @ = Absent THEN Nameless ELSE @]
  /\ foreign' = foreign \cup {c.rule}
  /\ Replace(s, c, {[c EXCEPT !.step = "del"]})
  /\ UNCHANGED <<states, index, inbox, metas, metricRules, work, log>>

\* The answer is not awaited, so there never is one: the hash is deleted and the
\* call throws.
StatusDel(s, c) ==
  /\ c.op = "status" /\ c.step = "del"
  /\ hash' = [hash EXCEPT ![c.rule] = Absent]
  /\ foreign' = foreign \ {c.rule}
  /\ Replace(s, c, {})
  /\ UNCHANGED <<states, index, inbox, metas, metricRules, work, log>>

-----------------------------------------------------------------------------
(* The bus, the work queue, and restarts.                                    *)

\* Mutant: the creation of a rule is not listened to.
HearsDeleted(s, e) ==
  /\ IF e.type = "deleted" THEN Forget(s, e.rule) ELSE UNCHANGED <<metas, metricRules, log>>
  /\ UNCHANGED calls

\* Mutant: the deletion of a rule is not listened to.
HearsAdded(s, e) ==
  /\ IF e.type = "added" /\ metas[s][e.rule] = Absent
       THEN Begin(s, Lookup(e.rule, FALSE)) ELSE UNCHANGED calls
  /\ UNCHANGED <<metas, metricRules, log>>

\* onRuleAdded() and onRuleDeleted(); nothing listens to an update.
Hears(s, e) ==
  /\ IF e.type = "added" /\ metas[s][e.rule] = Absent
       THEN Begin(s, Lookup(e.rule, FALSE)) ELSE UNCHANGED calls
  /\ IF e.type = "deleted" THEN Forget(s, e.rule) ELSE UNCHANGED <<metas, metricRules, log>>

\* The bus calls the handlers for the next event of another server.
Deliver(s) ==
  /\ inbox[s] \notin {Absent, <<>>}
  /\ inbox' = [inbox EXCEPT ![s] = Tail(@)]
  /\ Hears(s, Head(inbox[s]))
  /\ UNCHANGED <<hash, foreign, states, index, work>>

\* The script remembers that the rule is started, and opens the circuit of a rule
\* without options: that leaves a hash with the circuit's fields where the rule was
\* deleted.
Starts(rule) ==
  /\ states' = states \cup {rule}
  /\ hash' = [hash EXCEPT ![rule] = IF @ = Absent /\ rule \notin states THEN Nameless ELSE @]

Start(s, rule) ==
  /\ rule \in work[s]
  /\ work' = [work EXCEPT ![s] = @ \ {rule}]
  /\ Starts(rule)
  /\ UNCHANGED <<foreign, index, inbox, metas, metricRules, calls, log>>

\* An update of a metric evaluates the rules of its map, and the script's check
\* begins with its start.  When it closes the circuit of a rule that has a hash, the
\* hash gets the field lastResolvedAt.  (Whether the circuit is open is kept in
\* RuleCircuit; here a check may find it so whenever there is a rule.)
Evaluate(s, rule) ==
  /\ \E m \in Metrics : <<rule, m>> \in metricRules[s]
  /\ Starts(rule)
  /\ foreign' \in {foreign} \cup IF hash[rule] = Absent THEN {} ELSE {foreign \cup {rule}}
  /\ UNCHANGED <<index, inbox, metas, metricRules, work, calls, log>>

\* The process dies and is started again: it loads the rules and, beside that,
\* begins to listen.
Restart(s) ==
  /\ MoreCalls
  /\ inbox' = [inbox EXCEPT ![s] = Absent]
  /\ metas' = [metas EXCEPT ![s] = [r \in Rules |-> Absent]]
  /\ metricRules' = [metricRules EXCEPT ![s] = {}]
  /\ work' = [work EXCEPT ![s] = {}]
  /\ calls' = [calls EXCEPT ![s] = {[op |-> "load", step |-> "sort"]}]
  /\ log' = [log EXCEPT !.calls = @ + 1,
       !.crossed = @ \cup {r \in Rules : \E c \in calls[s] :
                             c.op \in {"save", "delete"} /\ c.rule = r},
       !.moved = {m \in @ : m[1] # s}]
  /\ UNCHANGED <<hash, foreign, states, index>>

\* The first read of the stream, at '$'.
Listen(s) ==
  /\ inbox[s] = Absent
  /\ inbox' = [inbox EXCEPT ![s] = <<>>]
  /\ UNCHANGED <<hash, foreign, states, index, metas, metricRules, work, calls, log>>

-----------------------------------------------------------------------------
Continue(s) ==
  \E c \in calls[s] :
    \/ SaveExists(s, c) \/ SaveHash(s, c) \/ SaveIndex(s, c) \/ SaveEmit(s, c)
    \/ SaveHears(s, c) \/ SaveDone(s, c)
    \/ LookupReads(s, c) \/ LookupDone(s, c)
    \/ LoadSorts(s, c) \/ LoadReads(s, c) \/ LoadDone(s, c)
    \/ DeleteHash(s, c) \/ DeleteIndex(s, c) \/ DeleteEmit(s, c)
    \/ DeleteHears(s, c) \/ DeleteDone(s, c)
    \/ StatusHset(s, c) \/ StatusDel(s, c)

Step(s) == Continue(s) \/ Deliver(s) \/ Listen(s) \/ \E r \in Rules : Start(s, r) \/ Evaluate(s, r)

Call(s) ==
  \E r \in Rules :
    \/ \E m \in Metrics : Create(s, r, m) \/ Update(s, r, m)
    \/ GetRule(s, r) \/ Delete(s, r) \/ SetRuleStatus(s, r)

Next == \E s \in Servers : Call(s) \/ Step(s) \/ Restart(s)

Spec == Init /\ [][Next]_vars

-----------------------------------------------------------------------------
(* Properties.                                                              *)

TypeOK ==
  /\ hash \in [Rules -> Metrics \cup {Absent, Nameless}]
  /\ foreign \subseteq Rules /\ states \subseteq Rules /\ index \subseteq Rules
  /\ inbox \in [Servers -> Seq([type : {"added", "updated", "deleted"}, rule : Rules])
                            \cup {Absent}]
  /\ metas \in [Servers -> [Rules -> Metrics \cup {Absent}]]
  /\ metricRules \in [Servers -> SUBSET (Rules \X Metrics)]
  /\ work \in [Servers -> SUBSET Rules]
  /\ \A s \in Servers : \A c \in calls[s] : c.op \in {"save", "lookup", "load", "delete", "status"}
  /\ {log.created, log.deleted, log.crossed, log.raced, log.unread, log.unheard, log.erased}
       \subseteq SUBSET Rules
  /\ log.moved \subseteq Servers \X Rules /\ log.refused \subseteq Servers \X Rules

\* Every call has ended and every event is heard.
AtRest ==
  \A s \in Servers : calls[s] = {} /\ work[s] = {} /\ inbox[s] = <<>>

\* The index lists the rules that have a hash, and not what a late script call has
\* left of a deleted one, unless a rule was saved while it was deleted, or its
\* status was set.
IndexListsRules ==
  AtRest => \A r \in Rules \ (log.erased \cup log.crossed) : r \in index <=> Stored(r)

\* A server evaluates no rule that is deleted, unless it has looked the rule up
\* while it heard of the deletion, was not listening yet, or the rule's status was
\* set.
DeletedForgotten ==
  AtRest =>
    \A s \in Servers, r \in Rules \ (log.erased \cup log.crossed \cup log.raced \cup log.unheard) :
      metas[s][r] # Absent => Stored(r)

\* Every server has registered every stored rule, unless some server looked the rule
\* up before it was stored and listed, it was saved across its deletion or a restart,
\* its creation was announced while a server was not listening yet, or this server
\* came for it when the script had written into its hash what the schema refuses.
KnownEverywhere ==
  AtRest => \A s \in Servers, r \in Rules \ (log.crossed \cup log.unread \cup log.unheard) :
    Stored(r) => metas[s][r] # Absent \/ <<s, r>> \in log.refused

\* What a metric's update evaluates is registered, under that metric and no other,
\* unless the server has changed the rule's metric.
EvaluatedAreRegistered ==
  \A s \in Servers, r \in Rules :
    <<s, r>> \notin log.moved =>
      \A m \in Metrics : <<r, m>> \in metricRules[s] <=> metas[s][r] = m

=============================================================================
