-------------------------- MODULE RuleRegistryProofs --------------------------
(***************************************************************************)
(* What holds of the rule registry for any number of servers, rules,       *)
(* metrics and calls.                                                      *)
(***************************************************************************)
EXTENDS RuleRegistry, TLAPS

-----------------------------------------------------------------------------
(* The types.                                                               *)

Found == Metrics \cup {Absent}

Events == [type : {"added", "updated", "deleted"}, rule : Rules]

SaveCalls ==
  [op : {"save"}, rule : Rules, metric : Metrics, new : BOOLEAN,
   step : {"exists", "hmset", "zadd", "saved"}, existed : BOOLEAN,
   event : {"none", "sent", "heard"}]
LookupCalls ==
  [op : {"lookup"}, rule : Rules, own : BOOLEAN, step : {"hgetall", "resume"}, found : Found]
LoadCalls ==
  [op : {"load"}, step : {"sort"}]
  \cup [op : {"load"}, step : {"hgetall"}, ids : SUBSET Rules]
  \cup [op : {"load"}, step : {"resume"}, found : [Rules -> Found]]
DeleteCalls ==
  [op : {"delete"}, rule : Rules,
   step : {"del", "zrem", "zrem-only", "emit", "emitted", "remove"}]
StatusCalls == [op : {"status"}, rule : Rules, step : {"hset", "del"}]

Calls == SaveCalls \cup LookupCalls \cup LoadCalls \cup DeleteCalls \cup StatusCalls

Logs ==
  [created : SUBSET Rules, deleted : SUBSET Rules, crossed : SUBSET Rules,
   raced : SUBSET Rules, unread : SUBSET Rules, refused : SUBSET (Servers \X Rules),
   unheard : SUBSET Rules, moved : SUBSET (Servers \X Rules), erased : SUBSET Rules, calls : Nat]

TypeInv ==
  /\ hash \in [Rules -> Metrics \cup {Absent, Nameless}]
  /\ foreign \in SUBSET Rules
  /\ states \in SUBSET Rules
  /\ index \in SUBSET Rules
  /\ inbox \in [Servers -> Seq(Events) \cup {Absent}]
  /\ metas \in [Servers -> [Rules -> Found]]
  /\ metricRules \in [Servers -> SUBSET (Rules \X Metrics)]
  /\ work \in [Servers -> SUBSET Rules]
  /\ calls \in [Servers -> SUBSET Calls]
  /\ log \in Logs

\* A call is of the type that its operation says.
LEMMA CallTypes ==
  ASSUME NEW c \in Calls
  PROVE  /\ c.op = "save" => c \in SaveCalls
         /\ c.op = "lookup" => c \in LookupCalls
         /\ c.op = "load" => c \in LoadCalls
         /\ c.op = "delete" => c \in DeleteCalls
         /\ c.op = "status" => c \in StatusCalls
         /\ c.op \in {"save", "lookup", "load", "delete", "status"}
BY DEF Calls, SaveCalls, LookupCalls, LoadCalls, DeleteCalls, StatusCalls

\* A load is of the kind that its step says.
LEMMA LoadTypes ==
  ASSUME NEW c \in LoadCalls
  PROVE  /\ c.step = "hgetall" => c.ids \in SUBSET Rules
         /\ c.step = "resume" => c.found \in [Rules -> Found]
BY DEF LoadCalls

\* The calls under way after one has gone on.
LEMMA ReplaceType ==
  ASSUME TypeInv, NEW s \in Servers, NEW c, NEW next \in SUBSET Calls, Replace(s, c, next)
  PROVE  /\ calls' \in [Servers -> SUBSET Calls]
         /\ calls'[s] = (calls[s] \ {c}) \cup next
         /\ \A t \in Servers : t # s => calls'[t] = calls[t]
BY DEF TypeInv, Replace

\* The calls under way after another has begun.
LEMMA BeginType ==
  ASSUME TypeInv, NEW s \in Servers, NEW c \in Calls, Begin(s, c)
  PROVE  /\ calls' \in [Servers -> SUBSET Calls]
         /\ calls'[s] = calls[s] \cup {c}
         /\ \A t \in Servers : t # s => calls'[t] = calls[t]
BY DEF TypeInv, Begin

LEMMA EmitType ==
  ASSUME TypeInv, NEW s \in Servers, NEW type \in {"added", "updated", "deleted"},
         NEW rule \in Rules, Emit(s, type, rule)
  PROVE  inbox' \in [Servers -> Seq(Events) \cup {Absent}]
<1>1. [type |-> type, rule |-> rule] \in Events
  BY DEF Events
<1>2. \A t \in Servers : inbox[t] # Absent =>
        Append(inbox[t], [type |-> type, rule |-> rule]) \in Seq(Events)
  <2> SUFFICES ASSUME NEW t \in Servers, inbox[t] # Absent
               PROVE  Append(inbox[t], [type |-> type, rule |-> rule]) \in Seq(Events)
    OBVIOUS
  <2>1. inbox[t] \in Seq(Events)
    BY DEF TypeInv
  <2> QED
    BY <1>1, <2>1
<1> QED
  BY <1>1, <1>2 DEF TypeInv, Emit

LEMMA RegisterType ==
  ASSUME TypeInv, NEW s \in Servers, NEW found \in [Rules -> Found], Register(s, found)
  PROVE  /\ metas' \in [Servers -> [Rules -> Found]]
         /\ metricRules' \in [Servers -> SUBSET (Rules \X Metrics)]
         /\ work' \in [Servers -> SUBSET Rules]
<1> DEFINE new == {r \in Rules : found[r] # Absent /\ metas[s][r] = Absent}
           now == [r \in Rules |-> IF r \in new THEN found[r] ELSE metas[s][r]]
           more == {<<r, found[r]>> : r \in new}
<1>1. now \in [Rules -> Found]
  BY DEF TypeInv
<1>2. more \subseteq Rules \X Metrics
  BY DEF Found
<1>3. /\ metas' = [metas EXCEPT ![s] = now]
      /\ metricRules' = [metricRules EXCEPT ![s] = metricRules[s] \cup more]
      /\ work' = [work EXCEPT ![s] = work[s] \cup new]
  BY DEF Register
<1>4. new \subseteq Rules
  OBVIOUS
<1> HIDE DEF new, now, more
<1> QED
  BY <1>1, <1>2, <1>3, <1>4 DEF TypeInv

LEMMA RemoveType ==
  ASSUME TypeInv, NEW s \in Servers, NEW rule \in Rules, Remove(s, rule)
  PROVE  /\ metas' \in [Servers -> [Rules -> Found]]
         /\ metricRules' \in [Servers -> SUBSET (Rules \X Metrics)]
BY DEF TypeInv, Remove, Found

\* Whatever is read of a hash, or searched for, is a metric or nothing.
LEMMA ReadType ==
  ASSUME TypeInv
  PROVE  /\ \A r \in Rules : Deserialized(r) \in Found
         /\ \A rule \in Rules, metric \in Found : Only(rule, metric) \in [Rules -> Found]
BY DEF TypeInv, Deserialized, Parsed, Only, Found

\* Only a stored rule can be read, and one that the schema knows every field of can.
LEMMA ReadStored ==
  ASSUME NEW r \in Rules
  PROVE  /\ Deserialized(r) # Absent => Stored(r)
         /\ Stored(r) /\ r \notin foreign => Deserialized(r) # Absent
BY RegistryAssumption DEF Deserialized, Parsed, Stored

\* Whom the schema refuses a rule.
LEMMA RefusalType ==
  ASSUME TypeInv, NEW s \in Servers, NEW asked \in SUBSET Rules
  PROVE  /\ log.refused \cup Refusals(s, asked) \in SUBSET (Servers \X Rules)
         /\ \A r \in asked : Stored(r) /\ r \in foreign => <<s, r>> \in Refusals(s, asked)
BY DEF TypeInv, Logs, Refusals

\* A history that a step adds to.
LEMMA LogType ==
  ASSUME log \in Logs
  PROVE  /\ \A r \in Rules :
              /\ log.created \cup {r} \in SUBSET Rules
              /\ log.deleted \cup {r} \in SUBSET Rules
              /\ log.crossed \cup {r} \in SUBSET Rules
              /\ log.raced \cup {r} \in SUBSET Rules
              /\ log.unread \cup {r} \in SUBSET Rules
              /\ log.unheard \cup {r} \in SUBSET Rules
              /\ log.erased \cup {r} \in SUBSET Rules
         /\ log.calls + 1 \in Nat
BY DEF Logs

LEMMA NewCalls ==
  ASSUME NEW rule \in Rules
  PROVE  /\ \A m \in Metrics, b \in BOOLEAN : Save(rule, m, b) \in SaveCalls
         /\ \A m \in Metrics : [Save(rule, m, TRUE) EXCEPT !.step = "hmset"] \in SaveCalls
         /\ \A b \in BOOLEAN : Lookup(rule, b) \in LookupCalls
         /\ [op |-> "delete", rule |-> rule, step |-> "del"] \in DeleteCalls
         /\ [op |-> "status", rule |-> rule, step |-> "hset"] \in StatusCalls
         /\ [op |-> "load", step |-> "sort"] \in LoadCalls
BY DEF Save, Lookup, SaveCalls, LookupCalls, DeleteCalls, StatusCalls, LoadCalls, Found

\* The types after a call of a client.
LEMMA CallType ==
  ASSUME TypeInv, NEW s \in Servers, Call(s)
  PROVE  TypeInv'
<1>1. PICK rule \in Rules :
        \/ \E m \in Metrics : Create(s, rule, m) \/ Update(s, rule, m)
        \/ GetRule(s, rule) \/ Delete(s, rule) \/ SetRuleStatus(s, rule)
  BY DEF Call
<1>2. ASSUME NEW c \in SaveCalls \cup LookupCalls \cup DeleteCalls \cup StatusCalls, Begin(s, c)
      PROVE  calls' \in [Servers -> SUBSET Calls]
  <2>1. c \in Calls
    BY DEF Calls
  <2> QED
    BY <1>2, <2>1, BeginType
<1>3. log \in Logs
  BY DEF TypeInv
<1>4. ASSUME NEW m \in Metrics, Create(s, rule, m)
      PROVE  TypeInv'
  <2>1. calls' \in [Servers -> SUBSET Calls]
    BY <1>2, <1>4, NewCalls DEF Create
  <2>2. log' \in Logs
    BY <1>3, <1>4 DEF Create, Logs
  <2> QED
    BY <1>4, <2>1, <2>2 DEF Create, TypeInv
<1>5. ASSUME NEW m \in Metrics, Update(s, rule, m)
      PROVE  TypeInv'
  <2>1. calls' \in [Servers -> SUBSET Calls]
    BY <1>2, <1>5, NewCalls DEF Update
  <2>2. log' \in Logs
    <3> DEFINE moved == IF m = metas[s][rule] THEN log.moved ELSE log.moved \cup {<<s, rule>>}
               crossed == IF rule \in log.deleted THEN log.crossed \cup {rule} ELSE log.crossed
    <3>1. moved \in SUBSET (Servers \X Rules) /\ crossed \in SUBSET Rules
      BY <1>3 DEF Logs
    <3>2. log' = [log EXCEPT !.calls = log.calls + 1, !.moved = moved, !.crossed = crossed]
      BY <1>3, <1>5 DEF Update, Logs
    <3>3. log.calls + 1 \in Nat
      BY <1>3, LogType
    <3> HIDE DEF moved, crossed
    <3> QED
      BY <1>3, <3>1, <3>2, <3>3 DEF Logs
  <2>3. metas' \in [Servers -> [Rules -> Found]]
    BY <1>5 DEF Update, TypeInv, Found
  <2> QED
    BY <1>5, <2>1, <2>2, <2>3 DEF Update, TypeInv
<1>6. CASE GetRule(s, rule)
  <2>1. calls' \in [Servers -> SUBSET Calls]
    <3>1. Begin(s, Lookup(rule, FALSE)) /\ FALSE \in BOOLEAN
      BY <1>6 DEF GetRule
    <3> QED
      BY <1>2, <3>1, NewCalls
  <2>2. log' \in Logs
    BY <1>3, <1>6 DEF GetRule, Logs
  <2> QED
    BY <1>6, <2>1, <2>2 DEF GetRule, TypeInv
<1>7. CASE Delete(s, rule)
  <2>1. calls' \in [Servers -> SUBSET Calls]
    <3>1. Begin(s, [op |-> "delete", rule |-> rule, step |-> "del"])
      BY <1>7 DEF Delete
    <3> QED
      BY <1>2, <3>1, NewCalls
  <2>2. log' \in Logs
    <3> DEFINE crossed == IF Saving(rule) THEN log.crossed \cup {rule} ELSE log.crossed
    <3>1. log' = [log EXCEPT !.calls = log.calls + 1, !.deleted = log.deleted \cup {rule},
                             !.crossed = crossed]
      BY <1>3, <1>7 DEF Delete, Logs
    <3>2. crossed \in SUBSET Rules
      BY <1>3 DEF Logs
    <3>3. log.deleted \cup {rule} \in SUBSET Rules /\ log.calls + 1 \in Nat
      BY <1>3, LogType
    <3> HIDE DEF crossed
    <3> QED
      BY <1>3, <3>1, <3>2, <3>3 DEF Logs
  <2> QED
    BY <1>7, <2>1, <2>2 DEF Delete, TypeInv
<1>8. CASE SetRuleStatus(s, rule)
  <2>1. calls' \in [Servers -> SUBSET Calls]
    <3>1. Begin(s, [op |-> "status", rule |-> rule, step |-> "hset"])
      BY <1>8 DEF SetRuleStatus
    <3> QED
      BY <1>2, <3>1, NewCalls
  <2>2. log' \in Logs
    <3>1. log' = [log EXCEPT !.calls = log.calls + 1, !.erased = log.erased \cup {rule}]
      BY <1>3, <1>8 DEF SetRuleStatus, Logs
    <3>2. log.erased \cup {rule} \in SUBSET Rules /\ log.calls + 1 \in Nat
      BY <1>3, LogType
    <3> QED
      BY <1>3, <3>1, <3>2 DEF Logs
  <2> QED
    BY <1>8, <2>1, <2>2 DEF SetRuleStatus, TypeInv
<1> QED
  BY <1>1, <1>4, <1>5, <1>6, <1>7, <1>8

\* The types after a step of saveRule().
LEMMA SaveType ==
  ASSUME TypeInv, NEW s \in Servers, NEW c \in calls[s],
         \/ SaveExists(s, c) \/ SaveHash(s, c) \/ SaveIndex(s, c)
         \/ SaveEmit(s, c) \/ SaveHears(s, c) \/ SaveDone(s, c)
  PROVE  TypeInv'
<1>1. c \in SaveCalls /\ c.rule \in Rules /\ c.metric \in Metrics
  <2>1. c \in Calls /\ c.op = "save"
    BY DEF TypeInv, SaveExists, SaveHash, SaveIndex, SaveEmit, SaveHears, SaveDone
  <2> QED
    BY <2>1, CallTypes DEF SaveCalls
<1>2. SaveCalls \subseteq Calls /\ LookupCalls \subseteq Calls
  BY DEF Calls
<1>3. CASE SaveExists(s, c)
  <2> DEFINE d == [c EXCEPT !.step = "hmset", !.existed = hash[c.rule] # Absent]
  <2>1. d \in SaveCalls
    BY <1>1 DEF SaveCalls
  <2>2. Replace(s, c, {d})
    BY <1>3 DEF SaveExists
  <2> HIDE DEF d
  <2>3. calls' \in [Servers -> SUBSET Calls]
    BY <1>2, <2>1, <2>2, ReplaceType
  <2> QED
    BY <1>3, <2>3 DEF SaveExists, TypeInv
<1>4. CASE SaveHash(s, c)
  <2>1. [c EXCEPT !.step = "zadd"] \in SaveCalls
    BY <1>1 DEF SaveCalls
  <2>2. calls' \in [Servers -> SUBSET Calls]
    BY <1>2, <1>4, <2>1, ReplaceType DEF SaveHash
  <2>3. hash' \in [Rules -> Metrics \cup {Absent, Nameless}]
    BY <1>1, <1>4 DEF SaveHash, SavedHash, TypeInv
  <2> QED
    BY <1>4, <2>2, <2>3 DEF SaveHash, TypeInv
<1>5. CASE SaveIndex(s, c)
  <2>1. [c EXCEPT !.step = "saved"] \in SaveCalls
    BY <1>1 DEF SaveCalls
  <2>2. calls' \in [Servers -> SUBSET Calls]
    BY <1>2, <1>5, <2>1, ReplaceType DEF SaveIndex
  <2> QED
    BY <1>1, <1>5, <2>2 DEF SaveIndex, TypeInv
<1>6. CASE SaveEmit(s, c)
  <2>1. [c EXCEPT !.event = "sent"] \in SaveCalls
    BY <1>1 DEF SaveCalls
  <2>2. calls' \in [Servers -> SUBSET Calls]
    BY <1>2, <1>6, <2>1, ReplaceType DEF SaveEmit
  <2>3. inbox' \in [Servers -> Seq(Events) \cup {Absent}]
    BY <1>1, <1>6, EmitType DEF SaveEmit
  <2>4. log' \in Logs
    BY <1>1, <1>6 DEF SaveEmit, TypeInv, Logs
  <2> QED
    BY <1>6, <2>2, <2>3, <2>4 DEF SaveEmit, TypeInv
<1>7. CASE SaveHears(s, c)
  <2>1. [c EXCEPT !.event = "heard"] \in SaveCalls
    BY <1>1 DEF SaveCalls
  <2>2. Lookup(c.rule, TRUE) \in LookupCalls
    BY <1>1, NewCalls
  <2>3. calls' \in [Servers -> SUBSET Calls]
    BY <1>2, <1>7, <2>1, <2>2, ReplaceType DEF SaveHears
  <2> QED
    BY <1>7, <2>3 DEF SaveHears, TypeInv
<1>8. CASE SaveDone(s, c)
  <2>1. calls' \in [Servers -> SUBSET Calls]
    BY <1>8, ReplaceType DEF SaveDone
  <2>2. Only(c.rule, c.metric) \in [Rules -> Found]
    BY <1>1, ReadType DEF Found
  <2>3. CASE c.new
    BY <1>8, <2>1, <2>2, <2>3, RegisterType DEF SaveDone, TypeInv
  <2>4. CASE ~c.new
    BY <1>8, <2>1, <2>4 DEF SaveDone, TypeInv
  <2> QED
    BY <2>3, <2>4
<1> QED
  BY <1>3, <1>4, <1>5, <1>6, <1>7, <1>8

\* The types after a step of a look-up or of loadRules().
LEMMA LookupType ==
  ASSUME TypeInv, NEW s \in Servers, NEW c \in calls[s],
         \/ LookupReads(s, c) \/ LookupDone(s, c)
         \/ LoadSorts(s, c) \/ LoadReads(s, c) \/ LoadDone(s, c)
  PROVE  TypeInv'
<1>1. c \in Calls
  BY DEF TypeInv
<1>2. LookupCalls \subseteq Calls /\ LoadCalls \subseteq Calls
  BY DEF Calls
<1>3. CASE LookupReads(s, c)
  <2>1. c \in LookupCalls /\ c.rule \in Rules
    BY <1>1, <1>3, CallTypes DEF LookupReads, LookupCalls
  <2>2. [c EXCEPT !.step = "resume", !.found = Deserialized(c.rule)] \in LookupCalls
    BY <2>1, ReadType DEF LookupCalls
  <2>3. Replace(s, c, {[c EXCEPT !.step = "resume", !.found = Deserialized(c.rule)]})
    BY <1>3 DEF LookupReads
  <2>4. calls' \in [Servers -> SUBSET Calls]
    BY <1>2, <2>2, <2>3, ReplaceType
  <2>5. log' \in Logs
    <3> DEFINE unread == IF Stored(c.rule) THEN log.unread ELSE log.unread \cup {c.rule}
               refused == log.refused \cup Refusals(s, {c.rule})
    <3>1. log' = [log EXCEPT !.unread = unread, !.refused = refused]
      BY <1>3 DEF LookupReads, TypeInv, Logs
    <3>2. unread \in SUBSET Rules
      BY <2>1 DEF TypeInv, Logs
    <3>3. refused \in SUBSET (Servers \X Rules)
      BY <2>1, RefusalType
    <3> HIDE DEF unread, refused
    <3> QED
      BY <3>1, <3>2, <3>3 DEF TypeInv, Logs
  <2> QED
    BY <1>3, <2>4, <2>5 DEF LookupReads, TypeInv
<1>4. CASE LookupDone(s, c)
  <2>1. c \in LookupCalls
    BY <1>1, <1>4, CallTypes DEF LookupDone
  <2>2. Only(c.rule, c.found) \in [Rules -> Found]
    BY <2>1, ReadType DEF LookupCalls
  <2>3. calls' \in [Servers -> SUBSET Calls]
    BY <1>4, ReplaceType DEF LookupDone
  <2> QED
    BY <1>4, <2>2, <2>3, RegisterType DEF LookupDone, TypeInv
<1>5. CASE LoadSorts(s, c)
  <2>1. [op |-> "load", step |-> "hgetall", ids |-> index] \in LoadCalls
    BY DEF TypeInv, LoadCalls
  <2>2. calls' \in [Servers -> SUBSET Calls]
    BY <1>2, <1>5, <2>1, ReplaceType DEF LoadSorts
  <2> QED
    BY <1>5, <2>2 DEF LoadSorts, TypeInv
<1>6. CASE LoadReads(s, c)
  <2> DEFINE found == [r \in Rules |-> IF r \in c.ids THEN Deserialized(r) ELSE Absent]
             unread == log.unread \cup {r \in log.created : r \notin c.ids \/ ~Stored(r)}
             refused == log.refused \cup Refusals(s, c.ids)
  <2>1. found \in [Rules -> Found]
    BY ReadType DEF Found
  <2>2. /\ Replace(s, c, {[op |-> "load", step |-> "resume", found |-> found]})
        /\ log' = [log EXCEPT !.unread = unread, !.refused = refused]
    BY <1>6 DEF LoadReads, TypeInv, Logs
  <2>3. unread \in SUBSET Rules /\ refused \in SUBSET (Servers \X Rules)
    <3>1. c.ids \in SUBSET Rules
      BY <1>1, <1>6, CallTypes, LoadTypes DEF LoadReads
    <3>2. refused \in SUBSET (Servers \X Rules)
      BY <3>1, RefusalType
    <3> QED
      BY <3>2 DEF TypeInv, Logs
  <2> HIDE DEF found, unread, refused
  <2>4. [op |-> "load", step |-> "resume", found |-> found] \in LoadCalls
    BY <2>1 DEF LoadCalls
  <2>5. calls' \in [Servers -> SUBSET Calls]
    BY <1>2, <2>2, <2>4, ReplaceType
  <2>6. log' \in Logs
    BY <2>2, <2>3 DEF TypeInv, Logs
  <2> QED
    BY <1>6, <2>5, <2>6 DEF LoadReads, TypeInv
<1>7. CASE LoadDone(s, c)
  <2>1. c.found \in [Rules -> Found]
    BY <1>1, <1>7, CallTypes, LoadTypes DEF LoadDone
  <2>2. calls' \in [Servers -> SUBSET Calls]
    BY <1>7, ReplaceType DEF LoadDone
  <2> QED
    BY <1>7, <2>1, <2>2, RegisterType DEF LoadDone, TypeInv
<1> QED
  BY <1>3, <1>4, <1>5, <1>6, <1>7

LEMMA ForgetType ==
  ASSUME TypeInv, NEW s \in Servers, NEW rule \in Rules, Forget(s, rule)
  PROVE  /\ metas' \in [Servers -> [Rules -> Found]]
         /\ metricRules' \in [Servers -> SUBSET (Rules \X Metrics)]
         /\ log' \in Logs
<1>1. Remove(s, rule)
  BY DEF Forget
<1>2. log' \in Logs
  BY DEF Forget, TypeInv, Logs
<1> QED
  BY <1>1, <1>2, RemoveType

\* The types after a step of deleteRule() or setRuleStatus().
LEMMA DeleteType ==
  ASSUME TypeInv, NEW s \in Servers, NEW c \in calls[s],
         \/ DeleteHash(s, c) \/ DeleteIndex(s, c) \/ DeleteEmit(s, c)
         \/ DeleteHears(s, c) \/ DeleteDone(s, c)
         \/ StatusHset(s, c) \/ StatusDel(s, c)
  PROVE  TypeInv'
<1>1. /\ c \in DeleteCalls \cup StatusCalls /\ c.rule \in Rules
      /\ c.op = "delete" => c \in DeleteCalls
      /\ c.op = "status" => c \in StatusCalls
  <2>1. c \in Calls /\ c.op \in {"delete", "status"}
    BY DEF TypeInv, DeleteHash, DeleteIndex, DeleteEmit, DeleteHears, DeleteDone,
           StatusHset, StatusDel
  <2> QED
    BY <2>1, CallTypes DEF DeleteCalls, StatusCalls
<1>2. DeleteCalls \subseteq Calls /\ StatusCalls \subseteq Calls
  BY DEF Calls
<1>3. CASE DeleteHash(s, c)
  <2> DEFINE d == [c EXCEPT !.step = IF ~HasKeys(c.rule) THEN "zrem-only" ELSE "zrem"]
  <2>1. Replace(s, c, {d})
    BY <1>3 DEF DeleteHash
  <2>2. d \in DeleteCalls
    BY <1>1, <1>3 DEF DeleteHash, DeleteCalls
  <2> HIDE DEF d
  <2>3. calls' \in [Servers -> SUBSET Calls]
    BY <1>2, <2>1, <2>2, ReplaceType
  <2>4. hash' \in [Rules -> Metrics \cup {Absent, Nameless}] /\ foreign' \in SUBSET Rules
    BY <1>3 DEF DeleteHash, TypeInv
  <2> QED
    BY <1>3, <2>3, <2>4 DEF DeleteHash, TypeInv
<1>4. CASE DeleteIndex(s, c)
  <2>1. [c EXCEPT !.step = "emit"] \in DeleteCalls
    BY <1>1, <1>4 DEF DeleteIndex, DeleteCalls
  <2>2. calls' \in [Servers -> SUBSET Calls]
    BY <1>2, <1>4, <2>1, ReplaceType DEF DeleteIndex
  <2> QED
    BY <1>4, <2>2 DEF DeleteIndex, TypeInv
<1>5. CASE DeleteEmit(s, c)
  <2>1. [c EXCEPT !.step = "emitted"] \in DeleteCalls
    BY <1>1, <1>5 DEF DeleteEmit, DeleteCalls
  <2>2. calls' \in [Servers -> SUBSET Calls]
    BY <1>2, <1>5, <2>1, ReplaceType DEF DeleteEmit
  <2>3. inbox' \in [Servers -> Seq(Events) \cup {Absent}]
    BY <1>1, <1>5, EmitType DEF DeleteEmit
  <2>4. log' \in Logs
    BY <1>1, <1>5 DEF DeleteEmit, TypeInv, Logs
  <2> QED
    BY <1>5, <2>2, <2>3, <2>4 DEF DeleteEmit, TypeInv
<1>6. CASE DeleteHears(s, c)
  <2>1. [c EXCEPT !.step = "remove"] \in DeleteCalls
    BY <1>1, <1>6 DEF DeleteHears, DeleteCalls
  <2>2. calls' \in [Servers -> SUBSET Calls]
    BY <1>2, <1>6, <2>1, ReplaceType DEF DeleteHears
  <2>3. Forget(s, c.rule)
    BY <1>6 DEF DeleteHears
  <2> QED
    BY <1>1, <1>6, <2>2, <2>3, ForgetType DEF DeleteHears, TypeInv
<1>7. CASE DeleteDone(s, c)
  <2>1. calls' \in [Servers -> SUBSET Calls]
    BY <1>7, ReplaceType DEF DeleteDone
  <2>2. Forget(s, c.rule)
    BY <1>7 DEF DeleteDone
  <2> QED
    BY <1>1, <1>7, <2>1, <2>2, ForgetType DEF DeleteDone, TypeInv
<1>8. CASE StatusHset(s, c)
  <2>1. [c EXCEPT !.step = "del"] \in StatusCalls
    BY <1>1, <1>8 DEF StatusHset, StatusCalls
  <2>2. calls' \in [Servers -> SUBSET Calls]
    BY <1>2, <1>8, <2>1, ReplaceType DEF StatusHset
  <2>3. hash' \in [Rules -> Metrics \cup {Absent, Nameless}] /\ foreign' \in SUBSET Rules
    BY <1>1, <1>8 DEF StatusHset, TypeInv
  <2> QED
    BY <1>8, <2>2, <2>3 DEF StatusHset, TypeInv
<1>9. CASE StatusDel(s, c)
  <2>1. calls' \in [Servers -> SUBSET Calls]
    BY <1>9, ReplaceType DEF StatusDel
  <2>2. hash' \in [Rules -> Metrics \cup {Absent, Nameless}] /\ foreign' \in SUBSET Rules
    BY <1>9 DEF StatusDel, TypeInv
  <2> QED
    BY <1>9, <2>1, <2>2 DEF StatusDel, TypeInv
<1> QED
  BY <1>3, <1>4, <1>5, <1>6, <1>7, <1>8, <1>9

\* The types after an event, a start, or a restart.
LEMMA ServerType ==
  ASSUME TypeInv, NEW s \in Servers,
         Deliver(s) \/ Listen(s) \/ Restart(s) \/ \E r \in Rules : Start(s, r) \/ Evaluate(s, r)
  PROVE  TypeInv'
<1>1. CASE Deliver(s)
  <2> DEFINE e == Head(inbox[s])
  <2>1. inbox[s] \in Seq(Events) /\ inbox[s] # <<>>
    BY <1>1 DEF Deliver, TypeInv
  <2>2. e \in Events /\ Tail(inbox[s]) \in Seq(Events)
    BY <2>1
  <2>3. inbox' = [inbox EXCEPT ![s] = Tail(inbox[s])] /\ Hears(s, e)
    BY <1>1 DEF Deliver
  <2> HIDE DEF e
  <2>4. inbox' \in [Servers -> Seq(Events) \cup {Absent}]
    BY <2>2, <2>3 DEF TypeInv
  <2>5. e.rule \in Rules
    BY <2>2 DEF Events
  <2>6. calls' \in [Servers -> SUBSET Calls]
    <3>1. Lookup(e.rule, FALSE) \in Calls
      BY <2>5, NewCalls DEF Calls
    <3> QED
      BY <2>3, <3>1, BeginType DEF Hears, TypeInv
  <2>7. /\ metas' \in [Servers -> [Rules -> Found]]
        /\ metricRules' \in [Servers -> SUBSET (Rules \X Metrics)]
        /\ log' \in Logs
    BY <2>3, <2>5, ForgetType DEF Hears, TypeInv
  <2> QED
    BY <1>1, <2>4, <2>6, <2>7 DEF Deliver, TypeInv
<1>2. CASE Listen(s)
  <2>1. <<>> \in Seq(Events)
    OBVIOUS
  <2> QED
    BY <1>2, <2>1 DEF Listen, TypeInv
<1>3. CASE Restart(s)
  <2> DEFINE crossed == log.crossed \cup {r \in Rules : \E c \in calls[s] :
                          c.op \in {"save", "delete"} /\ c.rule = r}
             moved == {m \in log.moved : m[1] # s}
  <2>1. log' = [log EXCEPT !.calls = log.calls + 1, !.crossed = crossed, !.moved = moved]
    BY <1>3 DEF Restart, TypeInv, Logs
  <2>2. /\ crossed \in SUBSET Rules /\ moved \in SUBSET (Servers \X Rules)
        /\ log.calls + 1 \in Nat
    BY DEF TypeInv, Logs
  <2> HIDE DEF crossed, moved
  <2>3. log' \in Logs
    BY <2>1, <2>2 DEF TypeInv, Logs
  <2>4. {[op |-> "load", step |-> "sort"]} \in SUBSET Calls
    BY DEF Calls, LoadCalls
  <2>5. calls' \in [Servers -> SUBSET Calls]
    BY <1>3, <2>4 DEF Restart, TypeInv
  <2>6. metas' \in [Servers -> [Rules -> Found]]
    BY <1>3 DEF Restart, TypeInv, Found
  <2> QED
    BY <1>3, <2>3, <2>5, <2>6 DEF Restart, TypeInv
<1>4. ASSUME NEW r \in Rules, Start(s, r) \/ Evaluate(s, r)
      PROVE  TypeInv'
  <2>1. foreign' \in SUBSET Rules
    <3>1. foreign' \in {foreign, foreign \cup {r}}
      BY <1>4 DEF Start, Evaluate
    <3> QED
      BY <3>1 DEF TypeInv
  <2>2. hash' \in [Rules -> Metrics \cup {Absent, Nameless}] /\ states' \in SUBSET Rules
    BY <1>4 DEF Start, Evaluate, Starts, TypeInv
  <2> QED
    BY <1>4, <2>1, <2>2 DEF Start, Evaluate, TypeInv
<1> QED
  BY <1>1, <1>2, <1>3, <1>4

\* Every step keeps the types.
LEMMA TypeStep ==
  TypeInv /\ [Next]_vars => TypeInv'
<1> SUFFICES ASSUME TypeInv, [Next]_vars
             PROVE  TypeInv'
  OBVIOUS
<1>1. CASE UNCHANGED vars
  BY <1>1 DEF vars, TypeInv
<1>2. ASSUME NEW s \in Servers, Call(s) \/ Step(s) \/ Restart(s)
      PROVE  TypeInv'
  <2>1. ASSUME Continue(s)
        PROVE  TypeInv'
    BY <2>1, SaveType, LookupType, DeleteType DEF Continue
  <2> QED
    BY <1>2, <2>1, CallType, ServerType DEF Step
<1> QED
  BY <1>1, <1>2 DEF Next

LEMMA TypeInit ==
  Init => TypeInv
<1> SUFFICES ASSUME Init
             PROVE  TypeInv
  OBVIOUS
<1>1. <<>> \in Seq(Events)
  OBVIOUS
<1>2. log \in Logs
  BY DEF Init, Logs
<1> QED
  BY <1>1, <1>2 DEF Init, TypeInv, Found

\* Every variable of the registry has its type in every reachable state.
THEOREM TypeCorrectness == Spec => []TypeOK
<1>1. TypeInv => TypeOK
  BY CallTypes DEF TypeInv, TypeOK, Logs, Events, Found
<1> QED
  BY <1>1, TypeInit, TypeStep, PTL DEF Spec

-----------------------------------------------------------------------------
(* What a server evaluates is what it has registered.                       *)

\* The registrations are functions of the servers and the rules.
Registrations ==
  /\ metas = [s \in Servers |-> [r \in Rules |-> metas[s][r]]]
  /\ metricRules = [s \in Servers |-> metricRules[s]]

LogRecord ==
  log = [created |-> log.created, deleted |-> log.deleted, crossed |-> log.crossed,
         raced |-> log.raced, unread |-> log.unread, refused |-> log.refused,
         unheard |-> log.unheard, moved |-> log.moved, erased |-> log.erased, calls |-> log.calls]

\* The inductive invariant: no action needs to know more of the calls.
EvaluatedInv == Registrations /\ LogRecord /\ EvaluatedAreRegistered

\* The history keeps its fields, and who has moved which rule.
LEMMA LogKept ==
  ASSUME LogRecord
  PROVE  /\ UNCHANGED log => LogRecord' /\ UNCHANGED log.moved
         /\ \A x, y : log' = [log EXCEPT !.calls = x, !.crossed = y]
                        => LogRecord' /\ UNCHANGED log.moved
         /\ \A x, y, z : log' = [log EXCEPT !.calls = x, !.deleted = y, !.crossed = z]
                        => LogRecord' /\ UNCHANGED log.moved
         /\ \A x, y : log' = [log EXCEPT !.calls = x, !.erased = y]
                        => LogRecord' /\ UNCHANGED log.moved
         /\ \A x : log' = [log EXCEPT !.calls = x] => LogRecord' /\ UNCHANGED log.moved
         /\ \A x : log' = [log EXCEPT !.created = x] => LogRecord' /\ UNCHANGED log.moved
         /\ \A x : log' = [log EXCEPT !.unheard = x] => LogRecord' /\ UNCHANGED log.moved
         /\ \A x, y : log' = [log EXCEPT !.unread = x, !.refused = y]
                        => LogRecord' /\ UNCHANGED log.moved
         /\ \A x : log' = [log EXCEPT !.raced = x] => LogRecord' /\ UNCHANGED log.moved
BY DEF LogRecord

\* What leaves the registrations alone, and who has moved what.
LEMMA SameRegistrations ==
  ASSUME EvaluatedInv, UNCHANGED <<metas, metricRules>>, LogRecord', UNCHANGED log.moved
  PROVE  EvaluatedInv'
BY DEF EvaluatedInv, Registrations, EvaluatedAreRegistered

\* A rule that a look-up registers is registered and evaluated for the same metric.
LEMMA RegisterStep ==
  ASSUME EvaluatedInv, NEW s \in Servers, NEW found, Register(s, found),
         LogRecord', UNCHANGED log.moved
  PROVE  EvaluatedInv'
<1> DEFINE new == {r \in Rules : found[r] # Absent /\ metas[s][r] = Absent}
           now == [r \in Rules |-> IF r \in new THEN found[r] ELSE metas[s][r]]
           more == {<<r, found[r]>> : r \in new}
<1>1. /\ metas' = [metas EXCEPT ![s] = now]
      /\ metricRules' = [metricRules EXCEPT ![s] = metricRules[s] \cup more]
  BY DEF Register
<1>2. /\ metas = [t \in Servers |-> [r \in Rules |-> metas[t][r]]]
      /\ metricRules = [t \in Servers |-> metricRules[t]]
  BY DEF EvaluatedInv, Registrations
<1> HIDE DEF now, more
<1>3. /\ metas'[s] = now /\ metricRules'[s] = metricRules[s] \cup more
      /\ \A t \in Servers : t # s =>
           metas'[t] = metas[t] /\ metricRules'[t] = metricRules[t]
      /\ DOMAIN metas' = Servers /\ DOMAIN metricRules' = Servers
  BY <1>1, <1>2
<1>4. \A r \in Rules, m \in Metrics :
        <<r, m>> \in more <=> r \in new /\ m = found[r]
  BY DEF more
<1>5. Registrations'
  <2>1. metas' = [t \in Servers |-> metas'[t]]
    BY <1>1, <1>2
  <2>2. metricRules' = [t \in Servers |-> metricRules'[t]]
    BY <1>1, <1>2
  <2>3. \A t \in Servers : metas'[t] = [r \in Rules |-> metas'[t][r]]
    BY <1>2, <1>3 DEF now
  <2> QED
    BY <2>1, <2>2, <2>3 DEF Registrations
<1>6. ASSUME NEW t \in Servers, NEW r \in Rules, <<t, r>> \notin log'.moved, NEW m \in Metrics
      PROVE  <<r, m>> \in metricRules'[t] <=> metas'[t][r] = m
  <2>1. <<r, m>> \in metricRules[t] <=> metas[t][r] = m
    BY <1>6 DEF EvaluatedInv, EvaluatedAreRegistered
  <2>2. CASE t # s
    BY <1>3, <2>1, <2>2
  <2>3. CASE t = s /\ r \in new
    <3>1. metas'[s][r] = found[r]
      BY <1>3, <2>3 DEF now
    <3>2. <<r, m>> \notin metricRules[s]
      BY <2>1, <2>3, RegistryAssumption
    <3> QED
      BY <1>3, <1>4, <2>3, <3>1, <3>2
  <2>4. CASE t = s /\ r \notin new
    <3>1. metas'[s][r] = metas[s][r]
      BY <1>3, <2>4 DEF now
    <3> QED
      BY <1>3, <1>4, <2>1, <2>4, <3>1
  <2> QED
    BY <2>2, <2>3, <2>4
<1> QED
  BY <1>5, <1>6 DEF EvaluatedInv, EvaluatedAreRegistered

\* Nor does a rule that is removed leave its entry, unless it was moved.
LEMMA RemoveStep ==
  ASSUME EvaluatedInv, NEW s \in Servers, NEW rule, Remove(s, rule),
         LogRecord', UNCHANGED log.moved
  PROVE  EvaluatedInv'
<1>1. /\ metas = [t \in Servers |-> [r \in Rules |-> metas[t][r]]]
      /\ metricRules = [t \in Servers |-> metricRules[t]]
  BY DEF EvaluatedInv, Registrations
<1>2. /\ metas' = [metas EXCEPT ![s] = [metas[s] EXCEPT ![rule] = Absent]]
      /\ metricRules' = [metricRules EXCEPT ![s] = metricRules[s] \ {<<rule, metas[s][rule]>>}]
  BY DEF Remove
<1>3. metas[s] = [r \in Rules |-> metas[s][r]]
  BY <1>1
<1>4. /\ metas'[s] = [r \in Rules |-> IF r = rule THEN Absent ELSE metas[s][r]]
      /\ metricRules'[s] = metricRules[s] \ {<<rule, metas[s][rule]>>}
      /\ \A t \in Servers : t # s =>
           metas'[t] = metas[t] /\ metricRules'[t] = metricRules[t]
  BY <1>1, <1>2, <1>3
<1>5. Registrations'
  <2>1. metas' = [t \in Servers |-> metas'[t]]
    BY <1>1, <1>2
  <2>2. metricRules' = [t \in Servers |-> metricRules'[t]]
    BY <1>1, <1>2
  <2>3. \A t \in Servers : metas'[t] = [r \in Rules |-> metas'[t][r]]
    BY <1>1, <1>4
  <2> QED
    BY <2>1, <2>2, <2>3 DEF Registrations
<1>6. ASSUME NEW t \in Servers, NEW r \in Rules, <<t, r>> \notin log'.moved, NEW m \in Metrics
      PROVE  <<r, m>> \in metricRules'[t] <=> metas'[t][r] = m
  <2>1. <<r, m>> \in metricRules[t] <=> metas[t][r] = m
    BY <1>6 DEF EvaluatedInv, EvaluatedAreRegistered
  <2>2. CASE t # s
    BY <1>4, <2>1, <2>2
  <2>3. CASE t = s /\ r = rule
    BY <1>4, <2>1, <2>3, RegistryAssumption
  <2>4. CASE t = s /\ r # rule
    BY <1>4, <2>1, <2>4
  <2> QED
    BY <2>2, <2>3, <2>4
<1> QED
  BY <1>5, <1>6 DEF EvaluatedInv, EvaluatedAreRegistered

\* A rule whose metric is changed counts as moved.
LEMMA UpdateStep ==
  ASSUME EvaluatedInv, NEW s \in Servers, NEW rule \in Rules, NEW metric \in Metrics,
         Update(s, rule, metric)
  PROVE  EvaluatedInv'
<1> DEFINE moved == IF metric = metas[s][rule] THEN log.moved
                    ELSE log.moved \cup {<<s, rule>>}
<1>1. /\ metas = [t \in Servers |-> [r \in Rules |-> metas[t][r]]]
      /\ LogRecord
  BY DEF EvaluatedInv, Registrations
<1>2. /\ metas' = [metas EXCEPT ![s] = [metas[s] EXCEPT ![rule] = metric]]
      /\ UNCHANGED metricRules
      /\ \E x, y : log' = [log EXCEPT !.calls = x, !.moved = moved, !.crossed = y]
  <2>1. log' = [log EXCEPT !.calls = log.calls + 1, !.moved = moved,
                           !.crossed = IF rule \in log.deleted THEN log.crossed \cup {rule}
                                       ELSE log.crossed]
    BY <1>1 DEF Update, LogRecord
  <2> HIDE DEF moved
  <2> QED
    BY <2>1 DEF Update
<1>3. LogRecord' /\ log'.moved = moved
  <2> HIDE DEF moved
  <2> QED
    BY <1>1, <1>2 DEF LogRecord
<1>4. metas[s] = [r \in Rules |-> metas[s][r]]
  BY <1>1
<1>5. /\ metas'[s] = [r \in Rules |-> IF r = rule THEN metric ELSE metas[s][r]]
      /\ \A t \in Servers : t # s => metas'[t] = metas[t]
  BY <1>1, <1>2, <1>4
<1>6. Registrations'
  <2>1. metas' = [t \in Servers |-> metas'[t]]
    BY <1>1, <1>2
  <2>2. \A t \in Servers : metas'[t] = [r \in Rules |-> metas'[t][r]]
    BY <1>1, <1>5
  <2> QED
    BY <1>2, <2>1, <2>2 DEF Registrations, EvaluatedInv
<1>7. ASSUME NEW t \in Servers, NEW r \in Rules, <<t, r>> \notin log'.moved, NEW m \in Metrics
      PROVE  <<r, m>> \in metricRules'[t] <=> metas'[t][r] = m
  <2>1. <<t, r>> \notin log.moved
    BY <1>3, <1>7
  <2>2. <<r, m>> \in metricRules[t] <=> metas[t][r] = m
    BY <1>7, <2>1 DEF EvaluatedInv, EvaluatedAreRegistered
  <2>3. metas'[t][r] = metas[t][r]
    <3>1. CASE t = s /\ r = rule
      BY <1>3, <1>5, <1>7, <3>1
    <3>2. CASE ~(t = s /\ r = rule)
      BY <1>5, <3>2
    <3> QED
      BY <3>1, <3>2
  <2> QED
    BY <1>2, <2>2, <2>3
<1> QED
  BY <1>3, <1>6, <1>7 DEF EvaluatedInv, EvaluatedAreRegistered

\* A server that is started again has registered nothing and moved nothing.
LEMMA RestartStep ==
  ASSUME EvaluatedInv, NEW s \in Servers, Restart(s)
  PROVE  EvaluatedInv'
<1> DEFINE none == [r \in Rules |-> Absent]
           moved == {m \in log.moved : m[1] # s}
<1>1. /\ metas = [t \in Servers |-> [r \in Rules |-> metas[t][r]]]
      /\ metricRules = [t \in Servers |-> metricRules[t]]
      /\ LogRecord
  BY DEF EvaluatedInv, Registrations
<1>2. /\ metas' = [metas EXCEPT ![s] = none]
      /\ metricRules' = [metricRules EXCEPT ![s] = {}]
      /\ \E x, y : log' = [log EXCEPT !.calls = x, !.crossed = y, !.moved = moved]
  <2>1. log' = [log EXCEPT !.calls = log.calls + 1,
                  !.crossed = log.crossed \cup {r \in Rules : \E c \in calls[s] :
                                c.op \in {"save", "delete"} /\ c.rule = r},
                  !.moved = moved]
    BY <1>1 DEF Restart, LogRecord
  <2> HIDE DEF moved
  <2> QED
    BY <2>1 DEF Restart
<1>3. LogRecord' /\ log'.moved = moved
  <2> HIDE DEF moved
  <2> QED
    BY <1>1, <1>2 DEF LogRecord
<1>4. /\ metas'[s] = none /\ metricRules'[s] = {}
      /\ \A t \in Servers : t # s =>
           metas'[t] = metas[t] /\ metricRules'[t] = metricRules[t]
  BY <1>1, <1>2
<1>5. Registrations'
  <2>1. metas' = [t \in Servers |-> metas'[t]]
    BY <1>1, <1>2
  <2>2. metricRules' = [t \in Servers |-> metricRules'[t]]
    BY <1>1, <1>2
  <2>3. \A t \in Servers : metas'[t] = [r \in Rules |-> metas'[t][r]]
    BY <1>1, <1>4
  <2> QED
    BY <2>1, <2>2, <2>3 DEF Registrations
<1>6. ASSUME NEW t \in Servers, NEW r \in Rules, <<t, r>> \notin log'.moved, NEW m \in Metrics
      PROVE  <<r, m>> \in metricRules'[t] <=> metas'[t][r] = m
  <2>1. CASE t = s
    BY <1>4, <2>1, RegistryAssumption
  <2>2. CASE t # s
    <3>1. <<t, r>> \notin log.moved
      BY <1>3, <1>6, <2>2
    <3>2. <<r, m>> \in metricRules[t] <=> metas[t][r] = m
      BY <1>6, <3>1 DEF EvaluatedInv, EvaluatedAreRegistered
    <3> HIDE DEF none, moved
    <3> QED
      BY <1>4, <2>2, <3>2
  <2> QED
    BY <2>1, <2>2
<1> QED
  BY <1>3, <1>5, <1>6 DEF EvaluatedInv, EvaluatedAreRegistered

\* The calls that clients make.
LEMMA CallStep ==
  ASSUME EvaluatedInv, NEW s \in Servers, Call(s)
  PROVE  EvaluatedInv'
<1>1. PICK rule \in Rules :
        \/ \E m \in Metrics : Create(s, rule, m) \/ Update(s, rule, m)
        \/ GetRule(s, rule) \/ Delete(s, rule) \/ SetRuleStatus(s, rule)
  BY DEF Call
<1> LogRecord
  BY DEF EvaluatedInv
<1>2. ASSUME NEW m \in Metrics, Create(s, rule, m)
      PROVE  EvaluatedInv'
  BY <1>2, LogKept, SameRegistrations DEF Create
<1>3. CASE GetRule(s, rule)
  BY <1>3, LogKept, SameRegistrations DEF GetRule
<1>4. CASE Delete(s, rule)
  <2>1. \E x, y, z : log' = [log EXCEPT !.calls = x, !.deleted = y, !.crossed = z]
    BY <1>4 DEF Delete
  <2> QED
    BY <1>4, <2>1, LogKept, SameRegistrations DEF Delete
<1>5. CASE SetRuleStatus(s, rule)
  <2>1. \E x, y : log' = [log EXCEPT !.calls = x, !.erased = y]
    BY <1>5 DEF SetRuleStatus
  <2> QED
    BY <1>5, <2>1, LogKept, SameRegistrations DEF SetRuleStatus
<1> QED
  BY <1>1, <1>2, <1>3, <1>4, <1>5, UpdateStep

\* What goes on with a call that has begun.
LEMMA ContinueStep ==
  ASSUME EvaluatedInv, NEW s \in Servers, Continue(s)
  PROVE  EvaluatedInv'
<1> LogRecord
  BY DEF EvaluatedInv
<1>1. PICK c \in calls[s] :
        \/ SaveExists(s, c) \/ SaveHash(s, c) \/ SaveIndex(s, c) \/ SaveEmit(s, c)
        \/ SaveHears(s, c) \/ SaveDone(s, c)
        \/ LookupReads(s, c) \/ LookupDone(s, c)
        \/ LoadSorts(s, c) \/ LoadReads(s, c) \/ LoadDone(s, c)
        \/ DeleteHash(s, c) \/ DeleteIndex(s, c) \/ DeleteEmit(s, c)
        \/ DeleteHears(s, c) \/ DeleteDone(s, c)
        \/ StatusHset(s, c) \/ StatusDel(s, c)
  BY DEF Continue
<1>2. CASE \/ SaveExists(s, c) \/ SaveHash(s, c) \/ SaveIndex(s, c) \/ SaveHears(s, c)
           \/ LoadSorts(s, c) \/ DeleteHash(s, c) \/ DeleteIndex(s, c)
           \/ StatusHset(s, c) \/ StatusDel(s, c)
  <2>1. UNCHANGED <<metas, metricRules, log>>
    BY <1>2 DEF SaveExists, SaveHash, SaveIndex, SaveHears, LoadSorts, DeleteHash,
                DeleteIndex, StatusHset, StatusDel
  <2> QED
    BY <2>1, LogKept, SameRegistrations
<1>3. CASE SaveEmit(s, c) \/ DeleteEmit(s, c)
  <2>1. /\ UNCHANGED <<metas, metricRules>>
        /\ \E x : log' = [log EXCEPT !.unheard = x]
    BY <1>3 DEF SaveEmit, DeleteEmit
  <2> QED
    BY <2>1, LogKept, SameRegistrations
<1>4. CASE LookupReads(s, c) \/ LoadReads(s, c)
  <2>1. /\ UNCHANGED <<metas, metricRules>>
        /\ \E x, y : log' = [log EXCEPT !.unread = x, !.refused = y]
    BY <1>4 DEF LookupReads, LoadReads
  <2> QED
    BY <2>1, LogKept, SameRegistrations
<1>5. CASE SaveDone(s, c) \/ LookupDone(s, c) \/ LoadDone(s, c)
  <2>1. /\ UNCHANGED log
        /\ \/ \E found : Register(s, found)
           \/ UNCHANGED <<metas, metricRules>>
    BY <1>5 DEF SaveDone, LookupDone, LoadDone
  <2> QED
    BY <2>1, LogKept, RegisterStep, SameRegistrations
<1>6. CASE DeleteHears(s, c) \/ DeleteDone(s, c)
  <2>1. Forget(s, c.rule)
    BY <1>6 DEF DeleteHears, DeleteDone
  <2>2. /\ Remove(s, c.rule)
        /\ \E x : log' = [log EXCEPT !.raced = x]
    BY <2>1 DEF Forget
  <2> QED
    BY <2>2, LogKept, RemoveStep
<1> QED
  BY <1>1, <1>2, <1>3, <1>4, <1>5, <1>6

\* The events of other servers, and whatever else a server does.
LEMMA ServerStep ==
  ASSUME EvaluatedInv, NEW s \in Servers, Step(s)
  PROVE  EvaluatedInv'
<1> LogRecord
  BY DEF EvaluatedInv
<1>1. CASE Deliver(s)
  <2> DEFINE e == Head(inbox[s])
  <2>1. Hears(s, e)
    BY <1>1 DEF Deliver
  <2>2. CASE e.type = "deleted"
    <3>1. /\ Remove(s, e.rule)
          /\ \E x : log' = [log EXCEPT !.raced = x]
      BY <2>1, <2>2 DEF Hears, Forget
    <3> QED
      BY <3>1, LogKept, RemoveStep
  <2>3. CASE e.type # "deleted"
    BY <2>1, <2>3, LogKept, SameRegistrations DEF Hears
  <2> QED
    BY <2>2, <2>3
<1>2. CASE Listen(s) \/ \E r \in Rules : Start(s, r) \/ Evaluate(s, r)
  <2>1. UNCHANGED <<metas, metricRules, log>>
    BY <1>2 DEF Listen, Start, Evaluate
  <2> QED
    BY <2>1, LogKept, SameRegistrations
<1> QED
  BY <1>1, <1>2, ContinueStep DEF Step

\* What an update of a metric evaluates is registered under that metric and no
\* other, unless the server has changed the rule's metric, whatever look-ups,
\* deletions and events cross.
THEOREM EvaluatedOnlyRegistered == Spec => []EvaluatedAreRegistered
<1>1. Init => EvaluatedInv
  <2> SUFFICES ASSUME Init PROVE EvaluatedInv
    OBVIOUS
  <2>1. /\ metas = [s \in Servers |-> [r \in Rules |-> Absent]]
        /\ metricRules = [s \in Servers |-> {}]
        /\ LogRecord
    BY DEF Init, LogRecord
  <2>2. Registrations
    BY <2>1 DEF Registrations
  <2>3. EvaluatedAreRegistered
    BY <2>1, RegistryAssumption DEF EvaluatedAreRegistered
  <2> QED
    BY <2>1, <2>2, <2>3 DEF EvaluatedInv
<1>2. EvaluatedInv /\ [Next]_vars => EvaluatedInv'
  <2> SUFFICES ASSUME EvaluatedInv, [Next]_vars
               PROVE  EvaluatedInv'
    OBVIOUS
  <2>1. CASE UNCHANGED vars
    BY <2>1, LogKept, SameRegistrations DEF vars, EvaluatedInv
  <2>2. CASE Next
    BY <2>2, CallStep, ServerStep, RestartStep DEF Next
  <2> QED
    BY <2>1, <2>2
<1>3. EvaluatedInv => EvaluatedAreRegistered
  BY DEF EvaluatedInv
<1> QED
  BY <1>1, <1>2, <1>3, PTL DEF Spec

-----------------------------------------------------------------------------
(***************************************************************************)
(* What the index of the rules lists, for any number of servers, rules,    *)
(* metrics and calls.                                                      *)
(*                                                                         *)
(* A rule that nobody has deleted or given a status is stored as soon as   *)
(* anybody can know it, and is in the index or will be put there by the    *)
(* save that has stored it.  A rule that is deleted, and was not saved     *)
(* meanwhile, is never stored again, and stays in the index only as long   *)
(* as the deletion that takes it out is under way.                         *)
(***************************************************************************)

\* The server has registered the rule, evaluates it, or is about to.
Knows(s, r) ==
  \/ metas[s][r] # Absent \/ r \in work[s] \/ Finding(s, r)
  \/ \E m \in Metrics : <<r, m>> \in metricRules[s]

SaveOf(c, r) == c.op = "save" /\ c.rule = r

\* The save has written the hash, or is one of a rule that there was.
Later(c) == c.step \in {"zadd", "saved"} \/ c.existed \/ ~c.new

Removing(c, r) == c.op = "delete" /\ c.rule = r /\ c.step \in {"zrem", "zrem-only"}

Indexing(r) == \E s \in Servers : \E c \in calls[s] : SaveOf(c, r) /\ c.step = "zadd"
Unindexing(r) == \E s \in Servers : \E c \in calls[s] : Removing(c, r)

Living(r) ==
  /\ hash[r] # Nameless
  /\ r \in index => Stored(r)
  /\ \A s \in Servers : Knows(s, r) => Stored(r)
  /\ \A s \in Servers : \A c \in calls[s] : SaveOf(c, r) /\ Later(c) => Stored(r)
  /\ Stored(r) /\ r \notin log.crossed => r \in index \/ Indexing(r)

Leaving(r) ==
  /\ ~Saving(r)
  /\ Stored(r) => r \in index
  /\ Unindexing(r) => ~Stored(r)
  /\ r \in index => Stored(r) \/ Unindexing(r)

\* The inductive invariant.
LifeInv ==
  /\ log.deleted \subseteq log.created
  /\ \A s \in Servers : \A c \in calls[s] :
       /\ c.op = "delete" => c.rule \in log.deleted
       /\ c.op = "status" => c.rule \in log.erased
  /\ \A r \in Rules \ (log.deleted \cup log.erased) : Living(r)
  /\ \A r \in log.deleted \ (log.crossed \cup log.erased) : Leaving(r)

\* Which calls are under way after one has gone on.
LEMMA Goes ==
  ASSUME TypeInv, NEW s \in Servers, NEW c, NEW next, Replace(s, c, next)
  PROVE  /\ \A t \in Servers : \A d \in calls'[t] : d \in calls[t] \/ (t = s /\ d \in next)
         /\ \A t \in Servers : \A d \in calls[t] : d \in calls'[t] \/ (t = s /\ d = c)
         /\ next \subseteq calls'[s]
BY DEF TypeInv, Replace

\* Which calls are under way after another has begun.
LEMMA Begins ==
  ASSUME TypeInv, NEW s \in Servers, NEW c, Begin(s, c)
  PROVE  /\ \A t \in Servers : \A d \in calls'[t] : d \in calls[t] \/ (t = s /\ d = c)
         /\ \A t \in Servers : calls[t] \subseteq calls'[t]
         /\ c \in calls'[s]
BY DEF TypeInv, Begin

\* What a step leaves of a living rule if it does not touch the rule's keys.
LEMMA LivingFrame ==
  ASSUME NEW r \in Rules, Living(r), UNCHANGED <<hash, index>>, log.crossed \subseteq log'.crossed,
         \A s \in Servers : Knows(s, r)' => Knows(s, r) \/ Stored(r),
         \A s \in Servers : \A c \in calls'[s] :
           SaveOf(c, r) /\ Later(c) => Stored(r) \/ c \in calls[s],
         Indexing(r) => Indexing(r)' \/ r \in log'.crossed
  PROVE  Living(r)'
BY DEF Living, Stored

\* And what it leaves of a rule that is deleted.
LEMMA LeavingFrame ==
  ASSUME NEW r \in Rules, Leaving(r), UNCHANGED <<hash, index>>,
         Unindexing(r)' <=> Unindexing(r), Saving(r)' => Saving(r)
  PROVE  Leaving(r)'
BY DEF Leaving, Stored

\* The calls of the history are known to it after every step.
LEMMA CallsFrame ==
  ASSUME LifeInv, log.deleted \subseteq log'.deleted, log.erased \subseteq log'.erased,
         \A s \in Servers : \A c \in calls'[s] :
           c \in calls[s] \/ (/\ c.op = "delete" => c.rule \in log'.deleted
                              /\ c.op = "status" => c.rule \in log'.erased)
  PROVE  \A s \in Servers : \A c \in calls'[s] :
           /\ c.op = "delete" => c.rule \in log'.deleted
           /\ c.op = "status" => c.rule \in log'.erased
BY DEF LifeInv

\* EXISTS of saveRule() finds a living rule only when it is stored.
LEMMA SaveExistsLife ==
  ASSUME TypeInv, LifeInv, NEW s \in Servers, NEW c \in calls[s], SaveExists(s, c)
  PROVE  LifeInv'
<1> DEFINE d == [c EXCEPT !.step = "hmset", !.existed = hash[c.rule] # Absent]
<1>1. /\ Replace(s, c, {d})
      /\ UNCHANGED <<hash, states, index, inbox, metas, metricRules, work, log>>
      /\ c.op = "save" /\ c.step = "exists"
  BY DEF SaveExists
<1>2. c \in SaveCalls
  BY <1>1, CallTypes DEF TypeInv
<1>3. /\ d.op = "save" /\ d.rule = c.rule /\ d.step = "hmset" /\ d.new = c.new
      /\ d.existed = (hash[c.rule] # Absent)
  BY <1>2 DEF SaveCalls
<1> HIDE DEF d
<1>4. /\ \A t \in Servers : \A e \in calls'[t] : e \in calls[t] \/ (t = s /\ e = d)
      /\ \A t \in Servers : \A e \in calls[t] : e \in calls'[t] \/ (t = s /\ e = c)
      /\ d \in calls'[s]
  BY <1>1, Goes
<1>5. ASSUME NEW r \in Rules, Living(r)
      PROVE  Living(r)'
  <2>1. \A t \in Servers : Knows(t, r)' => Knows(t, r)
    BY <1>1, <1>3, <1>4 DEF Knows, Finding
  <2>2. SaveOf(d, r) /\ Later(d) => Stored(r)
    BY <1>1, <1>3, <1>5 DEF SaveOf, Later, Living, Stored, TypeInv
  <2>3. Indexing(r) => Indexing(r)'
    BY <1>1, <1>4 DEF Indexing
  <2> QED
    BY <1>1, <1>4, <1>5, <2>1, <2>2, <2>3, LivingFrame
<1>6. ASSUME NEW r \in Rules, Leaving(r)
      PROVE  Leaving(r)'
  <2>1. Unindexing(r)' <=> Unindexing(r)
    BY <1>1, <1>3, <1>4 DEF Unindexing, Removing
  <2>2. Saving(r)' => Saving(r)
    BY <1>1, <1>3, <1>4 DEF Saving
  <2> QED
    BY <1>1, <1>6, <2>1, <2>2, LeavingFrame
<1>7. \A t \in Servers : \A e \in calls'[t] :
        /\ e.op = "delete" => e.rule \in log'.deleted
        /\ e.op = "status" => e.rule \in log'.erased
  BY <1>1, <1>3, <1>4, CallsFrame
<1> QED
  BY <1>1, <1>5, <1>6, <1>7 DEF LifeInv, TypeInv, Logs

\* The hash of a living rule is written whole, and its index follows.
LEMMA SaveHashLife ==
  ASSUME TypeInv, LifeInv, NEW s \in Servers, NEW c \in calls[s], SaveHash(s, c)
  PROVE  LifeInv'
<1> DEFINE d == [c EXCEPT !.step = "zadd"]
<1>1. /\ Replace(s, c, {d})
      /\ hash' = [hash EXCEPT ![c.rule] = SavedHash(c, hash[c.rule])]
      /\ UNCHANGED <<states, index, inbox, metas, metricRules, work, log>>
      /\ c.op = "save" /\ c.step = "hmset"
  BY DEF SaveHash
<1>2. c \in SaveCalls
  BY <1>1, CallTypes DEF TypeInv
<1>3. /\ d.op = "save" /\ d.rule = c.rule /\ d.step = "zadd"
      /\ c.rule \in Rules /\ c.metric \in Metrics
  BY <1>2 DEF SaveCalls
<1> HIDE DEF d
<1>4. /\ \A t \in Servers : \A e \in calls'[t] : e \in calls[t] \/ (t = s /\ e = d)
      /\ \A t \in Servers : \A e \in calls[t] : e \in calls'[t] \/ (t = s /\ e = c)
      /\ d \in calls'[s]
  BY <1>1, Goes
<1>5. /\ hash'[c.rule] = SavedHash(c, hash[c.rule])
      /\ \A r \in Rules : r # c.rule => hash'[r] = hash[r]
  BY <1>1, <1>3 DEF TypeInv
<1>6. ASSUME NEW r \in Rules, Living(r)
      PROVE  Living(r)'
  <2>1. \A t \in Servers : Knows(t, r)' => Knows(t, r)
    BY <1>1, <1>3, <1>4 DEF Knows, Finding
  <2>2. CASE r = c.rule
    <3>1. c.existed => Stored(r)
      BY <1>1, <1>6, <2>2 DEF Living, SaveOf, Later
    <3>2. hash'[r] = c.metric
      BY <1>5, <2>2, <3>1 DEF SavedHash, Stored
    <3>3. Stored(r)' /\ hash'[r] # Nameless
      BY <1>3, <3>2, RegistryAssumption DEF Stored
    <3>4. Indexing(r)'
      BY <1>3, <1>4, <2>2 DEF Indexing, SaveOf
    <3> QED
      BY <3>3, <3>4 DEF Living
  <2>3. CASE r # c.rule
    <3>1. hash'[r] = hash[r]
      BY <1>5, <2>3
    <3>2. \A t \in Servers : \A e \in calls'[t] : SaveOf(e, r) => e \in calls[t]
      BY <1>3, <1>4, <2>3 DEF SaveOf
    <3>3. Indexing(r) => Indexing(r)'
      BY <1>1, <1>4 DEF Indexing
    <3> QED
      BY <1>1, <1>6, <2>1, <3>1, <3>2, <3>3 DEF Living, Stored
  <2> QED
    BY <2>2, <2>3
<1>7. ASSUME NEW r \in Rules, Leaving(r)
      PROVE  Leaving(r)'
  <2>1. r # c.rule
    BY <1>1, <1>7 DEF Leaving, Saving
  <2>2. hash'[r] = hash[r]
    BY <1>5, <2>1
  <2>3. Unindexing(r)' <=> Unindexing(r)
    BY <1>1, <1>3, <1>4 DEF Unindexing, Removing
  <2>4. Saving(r)' => Saving(r)
    BY <1>1, <1>3, <1>4 DEF Saving
  <2> QED
    BY <1>1, <1>7, <2>2, <2>3, <2>4 DEF Leaving, Stored
<1>8. \A t \in Servers : \A e \in calls'[t] :
        /\ e.op = "delete" => e.rule \in log'.deleted
        /\ e.op = "status" => e.rule \in log'.erased
  BY <1>1, <1>3, <1>4, CallsFrame
<1> QED
  BY <1>1, <1>6, <1>7, <1>8 DEF LifeInv, TypeInv, Logs

\* The index gets a rule whose hash is written.
LEMMA SaveIndexLife ==
  ASSUME TypeInv, LifeInv, NEW s \in Servers, NEW c \in calls[s], SaveIndex(s, c)
  PROVE  LifeInv'
<1> DEFINE d == [c EXCEPT !.step = "saved"]
<1>1. /\ Replace(s, c, {d})
      /\ index' = index \cup {c.rule}
      /\ UNCHANGED <<hash, states, inbox, metas, metricRules, work, log>>
      /\ c.op = "save" /\ c.step = "zadd"
  BY DEF SaveIndex
<1>2. c \in SaveCalls
  BY <1>1, CallTypes DEF TypeInv
<1>3. d.op = "save" /\ d.rule = c.rule /\ d.step = "saved"
  BY <1>2 DEF SaveCalls
<1> HIDE DEF d
<1>4. /\ \A t \in Servers : \A e \in calls'[t] : e \in calls[t] \/ (t = s /\ e = d)
      /\ \A t \in Servers : \A e \in calls[t] : e \in calls'[t] \/ (t = s /\ e = c)
  BY <1>1, Goes
<1>5. ASSUME NEW r \in Rules, Living(r)
      PROVE  Living(r)'
  <2>1. \A t \in Servers : Knows(t, r)' => Knows(t, r)
    BY <1>1, <1>3, <1>4 DEF Knows, Finding
  <2>2. r = c.rule => Stored(r)
    BY <1>1, <1>5 DEF Living, SaveOf, Later
  <2>3. \A t \in Servers : \A e \in calls'[t] :
          SaveOf(e, r) /\ Later(e) => Stored(r)
    BY <1>3, <1>4, <1>5, <2>2 DEF Living, SaveOf
  <2>4. Indexing(r) => Indexing(r)' \/ r \in index'
    BY <1>1, <1>4 DEF Indexing, SaveOf
  <2> QED
    BY <1>1, <1>5, <2>1, <2>2, <2>3, <2>4 DEF Living, Stored
<1>6. ASSUME NEW r \in Rules, Leaving(r)
      PROVE  Leaving(r)'
  <2>1. r # c.rule
    BY <1>1, <1>6 DEF Leaving, Saving
  <2>2. Unindexing(r)' <=> Unindexing(r)
    BY <1>1, <1>3, <1>4 DEF Unindexing, Removing
  <2>3. Saving(r)' => Saving(r)
    BY <1>1, <1>3, <1>4 DEF Saving
  <2> QED
    BY <1>1, <1>6, <2>1, <2>2, <2>3 DEF Leaving, Stored
<1>7. \A t \in Servers : \A e \in calls'[t] :
        /\ e.op = "delete" => e.rule \in log'.deleted
        /\ e.op = "status" => e.rule \in log'.erased
  BY <1>1, <1>3, <1>4, CallsFrame
<1> QED
  BY <1>1, <1>5, <1>6, <1>7 DEF LifeInv, TypeInv, Logs

\* The events of a save change nothing about its rule.
LEMMA SaveEventLife ==
  ASSUME TypeInv, LifeInv, NEW s \in Servers, NEW c \in calls[s],
         SaveEmit(s, c) \/ SaveHears(s, c)
  PROVE  LifeInv'
<1> DEFINE d == [c EXCEPT !.event = IF c.event = "none" THEN "sent" ELSE "heard"]
           l == Lookup(c.rule, TRUE)
<1>1. /\ \E next : next \subseteq {d, l} /\ d \in next /\ Replace(s, c, next)
      /\ UNCHANGED <<hash, states, index, metas, metricRules, work>>
      /\ UNCHANGED <<log.created, log.deleted, log.erased, log.crossed>>
      /\ c.op = "save"
  <2>1. log' = log \/ \E x : log' = [log EXCEPT !.unheard = x]
    BY DEF SaveEmit, SaveHears
  <2>2. UNCHANGED <<log.created, log.deleted, log.erased, log.crossed>>
    BY <2>1 DEF TypeInv, Logs
  <2>3. CASE SaveEmit(s, c)
    <3>1. Replace(s, c, {d})
      BY <2>3 DEF SaveEmit
    <3> HIDE DEF d, l
    <3> QED
      BY <2>2, <2>3, <3>1 DEF SaveEmit
  <2>4. CASE SaveHears(s, c)
    <3>1. Replace(s, c, {d} \cup IF c.existed \/ metas[s][c.rule] # Absent THEN {} ELSE {l})
      BY <2>4 DEF SaveHears
    <3> HIDE DEF d, l
    <3> QED
      BY <2>2, <2>4, <3>1 DEF SaveHears
  <2> QED
    BY <2>3, <2>4
<1>2. c \in SaveCalls
  BY <1>1, CallTypes DEF TypeInv
<1>3. /\ d.op = "save" /\ d.rule = c.rule /\ d.step = c.step /\ d.new = c.new
      /\ d.existed = c.existed
      /\ l.op = "lookup" /\ l.step = "hgetall"
  BY <1>2 DEF SaveCalls, Lookup
<1> HIDE DEF d, l
<1>4. /\ \A t \in Servers : \A e \in calls'[t] : e \in calls[t] \/ (t = s /\ e \in {d, l})
      /\ \A t \in Servers : \A e \in calls[t] : e \in calls'[t] \/ (t = s /\ e = c)
      /\ d \in calls'[s]
  BY <1>1, Goes
<1>5. ASSUME NEW r \in Rules, Living(r)
      PROVE  Living(r)'
  <2>1. \A t \in Servers : Knows(t, r)' => Knows(t, r)
    BY <1>1, <1>3, <1>4 DEF Knows, Finding
  <2>2. \A t \in Servers : \A e \in calls'[t] :
          SaveOf(e, r) /\ Later(e) => Stored(r) \/ e \in calls[t]
    <3>1. SaveOf(d, r) /\ Later(d) => Stored(r)
      BY <1>1, <1>3, <1>5 DEF SaveOf, Later, Living
    <3>2. ~SaveOf(l, r)
      BY <1>3 DEF SaveOf
    <3> QED
      BY <1>4, <3>1, <3>2
  <2>3. Indexing(r) => Indexing(r)'
    BY <1>1, <1>3, <1>4 DEF Indexing, SaveOf
  <2> QED
    BY <1>1, <1>5, <2>1, <2>2, <2>3, LivingFrame
<1>6. ASSUME NEW r \in Rules, Leaving(r)
      PROVE  Leaving(r)'
  <2>1. Unindexing(r)' <=> Unindexing(r)
    BY <1>1, <1>3, <1>4 DEF Unindexing, Removing
  <2>2. Saving(r)' => Saving(r)
    BY <1>1, <1>3, <1>4 DEF Saving
  <2> QED
    BY <1>1, <1>6, <2>1, <2>2, LeavingFrame
<1>7. \A t \in Servers : \A e \in calls'[t] :
        /\ e.op = "delete" => e.rule \in log'.deleted
        /\ e.op = "status" => e.rule \in log'.erased
  BY <1>1, <1>3, <1>4, CallsFrame
<1> QED
  BY <1>1, <1>5, <1>6, <1>7 DEF LifeInv, TypeInv, Logs

\* Whoever registers a rule that is stored knows a rule that is stored.
LEMMA RegisterKnows ==
  ASSUME TypeInv, NEW s \in Servers, NEW found \in [Rules -> Found], Register(s, found),
         NEW r \in Rules, found[r] # Absent => Stored(r),
         \A t \in Servers : Finding(t, r)' => Finding(t, r),
         NEW t \in Servers, Knows(t, r)'
  PROVE  Knows(t, r) \/ Stored(r)
<1> DEFINE new == {q \in Rules : found[q] # Absent /\ metas[s][q] = Absent}
           now == [q \in Rules |-> IF q \in new THEN found[q] ELSE metas[s][q]]
           more == {<<q, found[q]>> : q \in new}
<1>1. /\ metas' = [metas EXCEPT ![s] = now]
      /\ metricRules' = [metricRules EXCEPT ![s] = metricRules[s] \cup more]
      /\ work' = [work EXCEPT ![s] = work[s] \cup new]
  BY DEF Register
<1>2. /\ r \in new => Stored(r)
      /\ r \notin new => now[r] = metas[s][r]
      /\ \A m \in Metrics : <<r, m>> \in more => r \in new
  OBVIOUS
<1> HIDE DEF new, now, more
<1>3. /\ metas'[s] = now /\ work'[s] = work[s] \cup new
      /\ metricRules'[s] = metricRules[s] \cup more
      /\ t # s => metas'[t] = metas[t] /\ work'[t] = work[t] /\ metricRules'[t] = metricRules[t]
  BY <1>1 DEF TypeInv
<1> QED
  BY <1>2, <1>3 DEF Knows

\* The end of a save, of a look-up or of a load registers what is stored.
LEMMA DoneLife ==
  ASSUME TypeInv, LifeInv, NEW s \in Servers, NEW c \in calls[s],
         SaveDone(s, c) \/ LookupDone(s, c) \/ LoadDone(s, c)
  PROVE  LifeInv'
<1>1. /\ Replace(s, c, {})
      /\ UNCHANGED <<hash, states, index, inbox, log>>
      /\ c.op \in {"save", "lookup", "load"}
      /\ c.op = "save" => c.step = "saved"
  BY DEF SaveDone, LookupDone, LoadDone
<1>2. /\ \A t \in Servers : \A e \in calls'[t] : e \in calls[t]
      /\ \A t \in Servers : \A e \in calls[t] : e \in calls'[t] \/ (t = s /\ e = c)
  BY <1>1, Goes
<1>3. ASSUME NEW r \in Rules, Living(r)
      PROVE  Living(r)'
  <2>1. \A t \in Servers : Finding(t, r)' => Finding(t, r)
    BY <1>2 DEF Finding
  <2>2. ASSUME NEW t \in Servers, Knows(t, r)'
        PROVE  Knows(t, r) \/ Stored(r)
    <3>1. CASE SaveDone(s, c)
      <4>1. c \in SaveCalls
        BY <3>1, CallTypes DEF TypeInv, SaveDone
      <4>2. Only(c.rule, c.metric) \in [Rules -> Found]
        BY <4>1, ReadType DEF SaveCalls, Found
      <4>3. Only(c.rule, c.metric)[r] # Absent => Stored(r)
        <5>1. SaveOf(c, c.rule) /\ Later(c)
          BY <3>1 DEF SaveDone, SaveOf, Later
        <5> QED
          BY <1>3, <5>1 DEF Only, Living
      <4>4. CASE c.new
        BY <2>1, <2>2, <3>1, <4>2, <4>3, <4>4, RegisterKnows DEF SaveDone
      <4>5. CASE ~c.new
        <5>1. UNCHANGED <<metas, metricRules, work>>
          BY <3>1, <4>5 DEF SaveDone
        <5> QED
          BY <2>1, <2>2, <5>1 DEF Knows
      <4> QED
        BY <4>4, <4>5
    <3>2. CASE LookupDone(s, c)
      <4>1. c \in LookupCalls
        BY <3>2, CallTypes DEF TypeInv, LookupDone
      <4>2. Only(c.rule, c.found) \in [Rules -> Found]
        BY <4>1, ReadType DEF LookupCalls
      <4>3. Only(c.rule, c.found)[r] # Absent => Finding(s, r)
        BY <3>2 DEF LookupDone, Only, Finding
      <4>4. Finding(s, r) => Stored(r)
        BY <1>3 DEF Living, Knows
      <4> QED
        BY <2>1, <2>2, <3>2, <4>2, <4>3, <4>4, RegisterKnows DEF LookupDone
    <3>3. CASE LoadDone(s, c)
      <4>1. c.found \in [Rules -> Found]
        BY <3>3, CallTypes, LoadTypes DEF TypeInv, LoadDone
      <4>2. c.found[r] # Absent => Finding(s, r)
        BY <3>3 DEF LoadDone, Finding
      <4>3. Finding(s, r) => Stored(r)
        BY <1>3 DEF Living, Knows
      <4> QED
        BY <2>1, <2>2, <3>3, <4>1, <4>2, <4>3, RegisterKnows DEF LoadDone
    <3> QED
      BY <3>1, <3>2, <3>3
  <2>3. Indexing(r) => Indexing(r)'
    BY <1>1, <1>2 DEF Indexing, SaveOf
  <2> QED
    BY <1>1, <1>2, <1>3, <2>2, <2>3, LivingFrame
<1>4. ASSUME NEW r \in Rules, Leaving(r)
      PROVE  Leaving(r)'
  <2>1. Unindexing(r)' <=> Unindexing(r)
    BY <1>1, <1>2 DEF Unindexing, Removing
  <2>2. Saving(r)' => Saving(r)
    BY <1>2 DEF Saving
  <2> QED
    BY <1>1, <1>4, <2>1, <2>2, LeavingFrame
<1>5. \A t \in Servers : \A e \in calls'[t] :
        /\ e.op = "delete" => e.rule \in log'.deleted
        /\ e.op = "status" => e.rule \in log'.erased
  BY <1>1, <1>2, CallsFrame
<1> QED
  BY <1>1, <1>3, <1>4, <1>5 DEF LifeInv, TypeInv, Logs

\* A look-up or a load finds of a living rule what is stored.
LEMMA ReadsLife ==
  ASSUME TypeInv, LifeInv, NEW s \in Servers, NEW c \in calls[s],
         LookupReads(s, c) \/ LoadSorts(s, c) \/ LoadReads(s, c)
  PROVE  LifeInv'
<1>1. PICK d :
        /\ Replace(s, c, {d})
        /\ d.op \in {"lookup", "load"}
        /\ \A r \in Rules :
             \/ d.op = "lookup" /\ d.rule = r /\ d.step = "resume" /\ d.found # Absent
             \/ d.op = "load" /\ d.step = "resume" /\ d.found[r] # Absent
             => Stored(r)
  <2>1. CASE LookupReads(s, c)
    <3> DEFINE d == [c EXCEPT !.step = "resume", !.found = Deserialized(c.rule)]
    <3>1. c \in LookupCalls /\ Replace(s, c, {d})
      BY <2>1, CallTypes DEF TypeInv, LookupReads
    <3>2. d.op = "lookup" /\ d.rule = c.rule /\ d.found = Deserialized(c.rule)
      BY <3>1 DEF LookupCalls
    <3> HIDE DEF d
    <3>3. \A r \in Rules : d.rule = r /\ d.found # Absent => Stored(r)
      BY <3>2, ReadStored
    <3> QED
      BY <3>1, <3>2, <3>3
  <2>2. CASE LoadSorts(s, c)
    <3> DEFINE d == [op |-> "load", step |-> "hgetall", ids |-> index]
    <3>1. Replace(s, c, {d}) /\ d.op = "load" /\ d.step = "hgetall"
      BY <2>2 DEF LoadSorts
    <3> HIDE DEF d
    <3> QED
      BY <3>1
  <2>3. CASE LoadReads(s, c)
    <3> DEFINE found == [r \in Rules |-> IF r \in c.ids THEN Deserialized(r) ELSE Absent]
               d == [op |-> "load", step |-> "resume", found |-> found]
    <3>1. Replace(s, c, {d})
      BY <2>3 DEF LoadReads
    <3>2. \A r \in Rules : found[r] # Absent => Stored(r)
      BY ReadStored
    <3> HIDE DEF found
    <3>3. d.op = "load" /\ d.found = found
      OBVIOUS
    <3> HIDE DEF d
    <3> QED
      BY <3>1, <3>2, <3>3
  <2> QED
    BY <2>1, <2>2, <2>3
<1>2. /\ UNCHANGED <<hash, states, index, inbox, metas, metricRules, work>>
      /\ UNCHANGED <<log.created, log.deleted, log.erased, log.crossed>>
      /\ c.op \in {"lookup", "load"}
  <2>1. log' = log \/ \E x, y : log' = [log EXCEPT !.unread = x, !.refused = y]
    BY DEF LookupReads, LoadSorts, LoadReads
  <2>2. UNCHANGED <<log.created, log.deleted, log.erased, log.crossed>>
    BY <2>1 DEF TypeInv, Logs
  <2> QED
    BY <2>2 DEF LookupReads, LoadSorts, LoadReads
<1>3. /\ \A t \in Servers : \A e \in calls'[t] : e \in calls[t] \/ (t = s /\ e = d)
      /\ \A t \in Servers : \A e \in calls[t] : e \in calls'[t] \/ (t = s /\ e = c)
  BY <1>1, Goes
<1>4. ASSUME NEW r \in Rules, Living(r)
      PROVE  Living(r)'
  <2>1. \A t \in Servers : Finding(t, r)' => Finding(t, r) \/ Stored(r)
    BY <1>1, <1>3 DEF Finding
  <2>2. \A t \in Servers : Knows(t, r)' => Knows(t, r) \/ Stored(r)
    BY <1>2, <2>1 DEF Knows
  <2>3. \A t \in Servers : \A e \in calls'[t] : SaveOf(e, r) => e \in calls[t]
    BY <1>1, <1>3 DEF SaveOf
  <2>4. Indexing(r) => Indexing(r)'
    BY <1>2, <1>3 DEF Indexing, SaveOf
  <2> QED
    BY <1>2, <1>4, <2>2, <2>3, <2>4, LivingFrame
<1>5. ASSUME NEW r \in Rules, Leaving(r)
      PROVE  Leaving(r)'
  <2>1. Unindexing(r)' <=> Unindexing(r)
    BY <1>1, <1>2, <1>3 DEF Unindexing, Removing
  <2>2. Saving(r)' => Saving(r)
    BY <1>1, <1>3 DEF Saving
  <2> QED
    BY <1>2, <1>5, <2>1, <2>2, LeavingFrame
<1>6. \A t \in Servers : \A e \in calls'[t] :
        /\ e.op = "delete" => e.rule \in log'.deleted
        /\ e.op = "status" => e.rule \in log'.erased
  BY <1>1, <1>2, <1>3, CallsFrame
<1> QED
  BY <1>2, <1>4, <1>5, <1>6 DEF LifeInv, TypeInv, Logs

\* The keys of a deleted rule go first, and its entry in the index after them.
LEMMA DeleteKeysLife ==
  ASSUME TypeInv, LifeInv, NEW s \in Servers, NEW c \in calls[s],
         DeleteHash(s, c) \/ DeleteIndex(s, c)
  PROVE  LifeInv'
<1>1. /\ UNCHANGED <<inbox, metas, metricRules, work, log>>
      /\ c.op = "delete"
      /\ c \in DeleteCalls
  <2>1. c.op = "delete"
    BY DEF DeleteHash, DeleteIndex
  <2> QED
    BY <2>1, CallTypes DEF TypeInv, DeleteHash, DeleteIndex
<1>2. c.rule \in Rules /\ c.rule \in log.deleted
  BY <1>1 DEF DeleteCalls, LifeInv
<1>3. PICK next :
        /\ Replace(s, c, next)
        /\ \A d \in next : d.op = "delete" /\ d.rule = c.rule
        /\ DeleteHash(s, c) => \E d \in next : d.step \in {"zrem", "zrem-only"}
        /\ DeleteIndex(s, c) => \A d \in next : d.step = "emit"
  <2>1. CASE DeleteHash(s, c)
    <3> DEFINE step == IF ~HasKeys(c.rule) THEN "zrem-only" ELSE "zrem"
               d == [c EXCEPT !.step = step]
    <3>1. Replace(s, c, {d}) /\ step \in {"zrem", "zrem-only"}
      BY <2>1 DEF DeleteHash
    <3>2. d.op = "delete" /\ d.rule = c.rule /\ d.step = step
      BY <1>1 DEF DeleteCalls
    <3>3. c.step = "del"
      BY <2>1 DEF DeleteHash
    <3>4. ~DeleteIndex(s, c)
      BY <3>3 DEF DeleteIndex
    <3> HIDE DEF d, step
    <3> QED
      BY <3>1, <3>2, <3>4
  <2>2. CASE DeleteIndex(s, c)
    <3> DEFINE d == [c EXCEPT !.step = "emit"]
    <3>1. \E next : next \subseteq {d} /\ Replace(s, c, next)
      BY <2>2 DEF DeleteIndex
    <3>2. d.op = "delete" /\ d.rule = c.rule /\ d.step = "emit"
      BY <1>1 DEF DeleteCalls
    <3>3. ~DeleteHash(s, c)
      BY <2>2 DEF DeleteIndex, DeleteHash
    <3> HIDE DEF d
    <3> QED
      BY <3>1, <3>2, <3>3
  <2> QED
    BY <2>1, <2>2
<1>4. /\ \A t \in Servers : \A e \in calls'[t] : e \in calls[t] \/ (t = s /\ e \in next)
      /\ \A t \in Servers : \A e \in calls[t] : e \in calls'[t] \/ (t = s /\ e = c)
      /\ next \subseteq calls'[s]
  BY <1>3, Goes
<1>5. \A r \in Rules : r # c.rule => hash'[r] = hash[r] /\ (r \in index' <=> r \in index)
  BY DEF DeleteHash, DeleteIndex, TypeInv
<1>6. ASSUME NEW r \in Rules, Living(r), r \notin log.deleted
      PROVE  Living(r)'
  <2>1. r # c.rule
    BY <1>2, <1>6
  <2>2. \A t \in Servers : Knows(t, r)' => Knows(t, r)
    BY <1>1, <1>3, <1>4 DEF Knows, Finding
  <2>3. \A t \in Servers : \A e \in calls'[t] : SaveOf(e, r) => e \in calls[t]
    BY <1>3, <1>4 DEF SaveOf
  <2>4. Indexing(r) => Indexing(r)'
    BY <1>1, <1>4 DEF Indexing, SaveOf
  <2> QED
    BY <1>1, <1>5, <1>6, <2>1, <2>2, <2>3, <2>4 DEF Living, Stored
<1>7. ASSUME NEW r \in Rules, Leaving(r)
      PROVE  Leaving(r)'
  <2>1. Saving(r)' => Saving(r)
    BY <1>3, <1>4 DEF Saving
  <2>2. CASE r # c.rule
    <3>1. Unindexing(r)' <=> Unindexing(r)
      BY <1>1, <1>3, <1>4, <2>2 DEF Unindexing, Removing
    <3> QED
      BY <1>5, <1>7, <2>1, <2>2, <3>1 DEF Leaving, Stored
  <2>3. CASE r = c.rule /\ DeleteHash(s, c)
    <3>1. hash'[r] = Absent
      BY <1>2, <2>3 DEF DeleteHash, TypeInv
    <3>2. ~Stored(r)'
      BY <3>1, RegistryAssumption DEF Stored
    <3>3. Unindexing(r)'
      BY <1>3, <1>4, <2>3 DEF Unindexing, Removing
    <3> QED
      BY <1>7, <2>1, <3>2, <3>3 DEF Leaving
  <2>4. CASE r = c.rule /\ DeleteIndex(s, c)
    <3>1. Unindexing(r)
      BY <1>1, <2>4 DEF Unindexing, Removing, DeleteIndex
    <3>2. ~Stored(r) /\ hash' = hash /\ r \notin index'
      BY <1>7, <2>4, <3>1 DEF Leaving, DeleteIndex
    <3> QED
      BY <1>7, <2>1, <3>2 DEF Leaving, Stored
  <2> QED
    BY <2>2, <2>3, <2>4
<1>8. \A t \in Servers : \A e \in calls'[t] :
        /\ e.op = "delete" => e.rule \in log'.deleted
        /\ e.op = "status" => e.rule \in log'.erased
  BY <1>1, <1>2, <1>3, <1>4, CallsFrame
<1> QED
  BY <1>1, <1>6, <1>7, <1>8 DEF LifeInv, TypeInv, Logs

\* A server that forgets a rule knows no more than before.
LEMMA ForgetKnows ==
  ASSUME TypeInv, NEW s \in Servers, NEW rule \in Rules, Forget(s, rule), UNCHANGED work,
         NEW r \in Rules, \A t \in Servers : Finding(t, r)' => Finding(t, r)
  PROVE  /\ \A t \in Servers : Knows(t, r)' => Knows(t, r)
         /\ UNCHANGED <<log.created, log.deleted, log.erased, log.crossed>>
<1>1. \E x : log' = [log EXCEPT !.raced = x]
  BY DEF Forget
<1>2. UNCHANGED <<log.created, log.deleted, log.erased, log.crossed>>
  BY <1>1 DEF TypeInv, Logs
<1>3. \A t \in Servers : /\ metas'[t][r] = metas[t][r] \/ metas'[t][r] = Absent
                         /\ metricRules'[t] \subseteq metricRules[t]
  BY DEF Forget, Remove, TypeInv
<1> QED
  BY <1>2, <1>3 DEF Knows

\* What is left of a deletion tells the servers, which forget the rule.
LEMMA DeleteEventLife ==
  ASSUME TypeInv, LifeInv, NEW s \in Servers, NEW c \in calls[s],
         DeleteEmit(s, c) \/ DeleteHears(s, c) \/ DeleteDone(s, c)
  PROVE  LifeInv'
<1>1. /\ UNCHANGED <<hash, states, index, work>>
      /\ c.op = "delete" /\ c \in DeleteCalls
      /\ c.step \notin {"zrem", "zrem-only"}
  <2>1. c.op = "delete" /\ c.step \in {"emit", "emitted", "remove"}
    BY DEF DeleteEmit, DeleteHears, DeleteDone
  <2> QED
    BY <2>1, CallTypes DEF TypeInv, DeleteEmit, DeleteHears, DeleteDone
<1>2. c.rule \in Rules /\ c.rule \in log.deleted
  BY <1>1 DEF DeleteCalls, LifeInv
<1>3. PICK next :
        /\ Replace(s, c, next)
        /\ \A d \in next : /\ d.op = "delete" /\ d.rule = c.rule
                           /\ d.step \notin {"zrem", "zrem-only"}
  <2>1. ASSUME NEW step \in {"emitted", "remove"}, Replace(s, c, {[c EXCEPT !.step = step]})
        PROVE  \E next :
                 /\ Replace(s, c, next)
                 /\ \A d \in next : /\ d.op = "delete" /\ d.rule = c.rule
                                    /\ d.step \notin {"zrem", "zrem-only"}
    <3> DEFINE d == [c EXCEPT !.step = step]
    <3>1. d.op = "delete" /\ d.rule = c.rule /\ d.step = step
      BY <1>1 DEF DeleteCalls
    <3>2. Replace(s, c, {d})
      BY <2>1
    <3> HIDE DEF d
    <3> QED
      BY <3>1, <3>2
  <2> QED
    BY <2>1 DEF DeleteEmit, DeleteHears, DeleteDone
<1>4. /\ \A t \in Servers : \A e \in calls'[t] : e \in calls[t] \/ (t = s /\ e \in next)
      /\ \A t \in Servers : \A e \in calls[t] : e \in calls'[t] \/ (t = s /\ e = c)
  BY <1>3, Goes
<1>5. \A r \in Rules, t \in Servers : Finding(t, r)' => Finding(t, r)
  BY <1>3, <1>4 DEF Finding
<1>6. /\ \A r \in Rules, t \in Servers : Knows(t, r)' => Knows(t, r)
      /\ UNCHANGED <<log.created, log.deleted, log.erased, log.crossed>>
  <2>1. CASE DeleteEmit(s, c)
    <3>1. UNCHANGED <<metas, metricRules>> /\ \E x : log' = [log EXCEPT !.unheard = x]
      BY <2>1 DEF DeleteEmit
    <3>2. UNCHANGED <<log.created, log.deleted, log.erased, log.crossed>>
      BY <3>1 DEF TypeInv, Logs
    <3> QED
      BY <1>1, <1>5, <3>1, <3>2 DEF Knows
  <2>2. CASE DeleteHears(s, c) \/ DeleteDone(s, c)
    <3>1. Forget(s, c.rule)
      BY <2>2 DEF DeleteHears, DeleteDone
    <3> QED
      BY <1>1, <1>2, <1>5, <3>1, ForgetKnows
  <2> QED
    BY <2>1, <2>2
<1>7. ASSUME NEW r \in Rules, Living(r)
      PROVE  Living(r)'
  <2>1. \A t \in Servers : \A e \in calls'[t] : SaveOf(e, r) => e \in calls[t]
    BY <1>3, <1>4 DEF SaveOf
  <2>2. Indexing(r) => Indexing(r)'
    BY <1>1, <1>4 DEF Indexing, SaveOf
  <2> QED
    BY <1>1, <1>6, <1>7, <2>1, <2>2, LivingFrame
<1>8. ASSUME NEW r \in Rules, Leaving(r)
      PROVE  Leaving(r)'
  <2>1. Unindexing(r)' <=> Unindexing(r)
    BY <1>1, <1>3, <1>4 DEF Unindexing, Removing
  <2>2. Saving(r)' => Saving(r)
    BY <1>3, <1>4 DEF Saving
  <2> QED
    BY <1>1, <1>8, <2>1, <2>2, LeavingFrame
<1>9. \A t \in Servers : \A e \in calls'[t] :
        /\ e.op = "delete" => e.rule \in log'.deleted
        /\ e.op = "status" => e.rule \in log'.erased
  BY <1>2, <1>3, <1>4, <1>6, CallsFrame
<1> QED
  BY <1>6, <1>7, <1>8, <1>9 DEF LifeInv, TypeInv, Logs

\* A status is set of a rule that the history has among the erased.
LEMMA StatusLife ==
  ASSUME TypeInv, LifeInv, NEW s \in Servers, NEW c \in calls[s],
         StatusHset(s, c) \/ StatusDel(s, c)
  PROVE  LifeInv'
<1>1. /\ UNCHANGED <<states, index, inbox, metas, metricRules, work, log>>
      /\ c.op = "status" /\ c \in StatusCalls
  <2>1. c.op = "status"
    BY DEF StatusHset, StatusDel
  <2> QED
    BY <2>1, CallTypes DEF TypeInv, StatusHset, StatusDel
<1>2. c.rule \in log.erased
  BY <1>1 DEF LifeInv
<1>3. PICK next :
        /\ Replace(s, c, next)
        /\ \A d \in next : d.op = "status" /\ d.rule = c.rule
  <2> DEFINE d == [c EXCEPT !.step = "del"]
  <2>1. Replace(s, c, {d}) \/ Replace(s, c, {})
    BY DEF StatusHset, StatusDel
  <2>2. d.op = "status" /\ d.rule = c.rule
    BY <1>1 DEF StatusCalls
  <2> HIDE DEF d
  <2> QED
    BY <2>1, <2>2
<1>4. /\ \A t \in Servers : \A e \in calls'[t] : e \in calls[t] \/ (t = s /\ e \in next)
      /\ \A t \in Servers : \A e \in calls[t] : e \in calls'[t] \/ (t = s /\ e = c)
  BY <1>3, Goes
<1>5. \A r \in Rules \ log.erased : hash'[r] = hash[r]
  BY <1>2 DEF StatusHset, StatusDel, TypeInv
<1>6. ASSUME NEW r \in Rules \ log.erased, Living(r)
      PROVE  Living(r)'
  <2>1. \A t \in Servers : Knows(t, r)' => Knows(t, r)
    BY <1>1, <1>3, <1>4 DEF Knows, Finding
  <2>2. \A t \in Servers : \A e \in calls'[t] : SaveOf(e, r) => e \in calls[t]
    BY <1>3, <1>4 DEF SaveOf
  <2>3. Indexing(r) => Indexing(r)'
    BY <1>1, <1>4 DEF Indexing, SaveOf
  <2> QED
    BY <1>1, <1>5, <1>6, <2>1, <2>2, <2>3 DEF Living, Stored
<1>7. ASSUME NEW r \in Rules \ log.erased, Leaving(r)
      PROVE  Leaving(r)'
  <2>1. Unindexing(r)' <=> Unindexing(r)
    BY <1>1, <1>3, <1>4 DEF Unindexing, Removing
  <2>2. Saving(r)' => Saving(r)
    BY <1>3, <1>4 DEF Saving
  <2> QED
    BY <1>1, <1>5, <1>7, <2>1, <2>2 DEF Leaving, Stored
<1>8. \A t \in Servers : \A e \in calls'[t] :
        /\ e.op = "delete" => e.rule \in log'.deleted
        /\ e.op = "status" => e.rule \in log'.erased
  BY <1>1, <1>2, <1>3, <1>4, CallsFrame
<1> QED
  BY <1>1, <1>6, <1>7, <1>8 DEF LifeInv, TypeInv, Logs

\* A call that begins knows no more than its server does.
LEMMA BeginLiving ==
  ASSUME TypeInv, NEW s \in Servers, NEW d, Begin(s, d), UNCHANGED <<hash, index>>,
         log.crossed \subseteq log'.crossed, NEW r \in Rules, Living(r),
         d.op \in {"lookup", "load"} => d.step # "resume",
         SaveOf(d, r) /\ Later(d) => Stored(r),
         \A t \in Servers :
           /\ metas'[t][r] # Absent => Knows(t, r)
           /\ r \in work'[t] => Knows(t, r)
           /\ metricRules'[t] \subseteq metricRules[t]
  PROVE  Living(r)'
<1>1. /\ \A t \in Servers : \A e \in calls'[t] : e \in calls[t] \/ (t = s /\ e = d)
      /\ \A t \in Servers : calls[t] \subseteq calls'[t]
  BY Begins
<1>2. \A t \in Servers : Finding(t, r)' => Finding(t, r)
  BY <1>1 DEF Finding
<1>3. \A t \in Servers : Knows(t, r)' => Knows(t, r)
  BY <1>2 DEF Knows
<1>4. \A t \in Servers : \A e \in calls'[t] :
        SaveOf(e, r) /\ Later(e) => Stored(r) \/ e \in calls[t]
  BY <1>1
<1>5. Indexing(r) => Indexing(r)'
  BY <1>1 DEF Indexing
<1> QED
  BY <1>3, <1>4, <1>5, LivingFrame

\* Nor does it take anything out of the index.
LEMMA BeginLeaving ==
  ASSUME TypeInv, NEW s \in Servers, NEW d, Begin(s, d), UNCHANGED <<hash, index>>,
         NEW r \in Rules, Leaving(r), ~SaveOf(d, r), ~Removing(d, r)
  PROVE  Leaving(r)'
<1>1. /\ \A t \in Servers : \A e \in calls'[t] : e \in calls[t] \/ (t = s /\ e = d)
      /\ \A t \in Servers : calls[t] \subseteq calls'[t]
  BY Begins
<1>2. Unindexing(r)' <=> Unindexing(r)
  BY <1>1 DEF Unindexing
<1>3. Saving(r)' => Saving(r)
  BY <1>1 DEF Saving, SaveOf
<1> QED
  BY <1>2, <1>3, LeavingFrame

\* createRule() takes an id that nobody has used.
LEMMA CreateLife ==
  ASSUME TypeInv, LifeInv, NEW s \in Servers, NEW rule \in Rules, NEW metric \in Metrics,
         Create(s, rule, metric)
  PROVE  LifeInv'
<1> DEFINE d == [Save(rule, metric, TRUE) EXCEPT !.step = "hmset"]
<1>1. /\ Begin(s, d)
      /\ UNCHANGED <<hash, states, index, inbox, metas, metricRules, work>>
      /\ rule \notin log.created
      /\ log' = [log EXCEPT !.created = log.created \cup {rule}]
  BY DEF Create
<1>2. /\ UNCHANGED <<log.deleted, log.erased, log.crossed>>
      /\ log'.created = log.created \cup {rule}
  BY <1>1 DEF TypeInv, Logs
<1>3. d.op = "save" /\ d.rule = rule /\ d.step = "hmset" /\ d.new /\ ~d.existed
  BY DEF Save
<1> HIDE DEF d
<1>4. ASSUME NEW r \in Rules, Living(r)
      PROVE  Living(r)'
  BY <1>1, <1>2, <1>3, <1>4, BeginLiving DEF Later, Knows
<1>5. ASSUME NEW r \in log.deleted, Leaving(r)
      PROVE  Leaving(r)'
  <2>1. r \in Rules /\ r # rule
    BY <1>1 DEF LifeInv, TypeInv, Logs
  <2> QED
    BY <1>1, <1>3, <1>5, <2>1, BeginLeaving DEF SaveOf, Removing
<1>6. \A t \in Servers : \A e \in calls'[t] : e \in calls[t] \/ (t = s /\ e = d)
  BY <1>1, Begins
<1>7. \A t \in Servers : \A e \in calls'[t] :
        /\ e.op = "delete" => e.rule \in log'.deleted
        /\ e.op = "status" => e.rule \in log'.erased
  BY <1>2, <1>3, <1>6, CallsFrame
<1> QED
  BY <1>2, <1>4, <1>5, <1>7 DEF LifeInv

\* updateRule() is given a rule that the server has registered, and so one that is
\* stored; a rule that is deleted counts as crossed from then on.
LEMMA UpdateLife ==
  ASSUME TypeInv, LifeInv, NEW s \in Servers, NEW rule \in Rules, NEW metric \in Metrics,
         Update(s, rule, metric)
  PROVE  LifeInv'
<1> DEFINE d == Save(rule, metric, FALSE)
           moved == IF metric = metas[s][rule] THEN log.moved ELSE log.moved \cup {<<s, rule>>}
           crossed == IF rule \in log.deleted THEN log.crossed \cup {rule} ELSE log.crossed
<1>1. /\ Begin(s, d)
      /\ UNCHANGED <<hash, states, index, inbox, metricRules, work>>
      /\ metas[s][rule] # Absent
      /\ metas' = [metas EXCEPT ![s][rule] = metric]
      /\ log' = [log EXCEPT !.calls = log.calls + 1, !.moved = moved, !.crossed = crossed]
  BY DEF Update, TypeInv, Logs
<1>2. d.op = "save" /\ d.rule = rule
  BY DEF Save
<1>3. log.crossed \subseteq crossed /\ (rule \in log.deleted => rule \in crossed)
  OBVIOUS
<1> HIDE DEF d, moved, crossed
<1>4. UNCHANGED <<log.created, log.deleted, log.erased>> /\ log'.crossed = crossed
  BY <1>1 DEF TypeInv, Logs
<1>5. ASSUME NEW r \in Rules, Living(r)
      PROVE  Living(r)'
  <2>1. \A t \in Servers : metas'[t][r] # Absent => Knows(t, r)
    BY <1>1 DEF Knows, TypeInv
  <2>2. SaveOf(d, r) => Stored(r)
    <3>1. r = rule => Knows(s, r)
      BY <1>1 DEF Knows
    <3> QED
      BY <1>2, <1>5, <3>1 DEF SaveOf, Living
  <2>3. \A t \in Servers : r \in work'[t] => Knows(t, r)
    BY <1>1 DEF Knows
  <2> QED
    BY <1>1, <1>2, <1>3, <1>4, <1>5, <2>1, <2>2, <2>3, BeginLiving
<1>6. ASSUME NEW r \in log.deleted \ crossed, Leaving(r)
      PROVE  Leaving(r)'
  <2>1. r \in Rules /\ r # rule
    BY <1>3 DEF TypeInv, Logs
  <2> QED
    BY <1>1, <1>2, <1>6, <2>1, BeginLeaving DEF SaveOf, Removing
<1>7. \A t \in Servers : \A e \in calls'[t] : e \in calls[t] \/ (t = s /\ e = d)
  BY <1>1, Begins
<1>8. \A t \in Servers : \A e \in calls'[t] :
        /\ e.op = "delete" => e.rule \in log'.deleted
        /\ e.op = "status" => e.rule \in log'.erased
  BY <1>2, <1>4, <1>7, CallsFrame
<1> QED
  BY <1>3, <1>4, <1>5, <1>6, <1>8 DEF LifeInv

\* getRule() and setRuleStatus() begin with the question and with the history.
LEMMA QuestionLife ==
  ASSUME TypeInv, LifeInv, NEW s \in Servers, NEW rule \in Rules,
         GetRule(s, rule) \/ SetRuleStatus(s, rule)
  PROVE  LifeInv'
<1>1. PICK d, erased :
        /\ Begin(s, d)
        /\ log' = [log EXCEPT !.calls = log.calls + 1, !.erased = erased]
        /\ log.erased \subseteq erased
        /\ \/ d.op = "lookup" /\ d.step = "hgetall"
           \/ d.op = "status" /\ d.rule \in erased
  <2>1. CASE GetRule(s, rule)
    <3>1. /\ Begin(s, Lookup(rule, FALSE))
          /\ log' = [log EXCEPT !.calls = log.calls + 1, !.erased = log.erased]
      BY <2>1 DEF GetRule, TypeInv, Logs
    <3>2. Lookup(rule, FALSE).op = "lookup" /\ Lookup(rule, FALSE).step = "hgetall"
      BY DEF Lookup
    <3> QED
      BY <3>1, <3>2
  <2>2. CASE SetRuleStatus(s, rule)
    <3> DEFINE d == [op |-> "status", rule |-> rule, step |-> "hset"]
    <3>1. /\ Begin(s, d)
          /\ log' = [log EXCEPT !.calls = log.calls + 1, !.erased = log.erased \cup {rule}]
      BY <2>2 DEF SetRuleStatus
    <3>2. d.op = "status" /\ d.rule \in log.erased \cup {rule}
      OBVIOUS
    <3> HIDE DEF d
    <3> QED
      BY <3>1, <3>2
  <2> QED
    BY <2>1, <2>2
<1>2. /\ UNCHANGED <<log.created, log.deleted, log.crossed>>
      /\ log'.erased = erased
  BY <1>1 DEF TypeInv, Logs
<1>3. UNCHANGED <<hash, states, index, inbox, metas, metricRules, work>>
  BY DEF GetRule, SetRuleStatus
<1>4. ASSUME NEW r \in Rules, Living(r)
      PROVE  Living(r)'
  BY <1>1, <1>2, <1>3, <1>4, BeginLiving DEF SaveOf, Knows
<1>5. ASSUME NEW r \in Rules, Leaving(r)
      PROVE  Leaving(r)'
  BY <1>1, <1>3, <1>5, BeginLeaving DEF SaveOf, Removing
<1>6. \A t \in Servers : \A e \in calls'[t] : e \in calls[t] \/ (t = s /\ e = d)
  BY <1>1, Begins
<1>7. \A t \in Servers : \A e \in calls'[t] :
        /\ e.op = "delete" => e.rule \in log'.deleted
        /\ e.op = "status" => e.rule \in log'.erased
  BY <1>1, <1>2, <1>6, CallsFrame
<1> QED
  BY <1>1, <1>2, <1>4, <1>5, <1>7 DEF LifeInv, TypeInv, Logs

\* A rule that nobody saves when its deletion begins is in the index if it is stored.
LEMMA DeleteLife ==
  ASSUME TypeInv, LifeInv, NEW s \in Servers, NEW rule \in Rules, Delete(s, rule)
  PROVE  LifeInv'
<1> DEFINE d == [op |-> "delete", rule |-> rule, step |-> "del"]
           crossed == IF Saving(rule) THEN log.crossed \cup {rule} ELSE log.crossed
<1>1. /\ Begin(s, d)
      /\ UNCHANGED <<hash, states, index, inbox, metas, metricRules, work>>
      /\ rule \in log.created
      /\ log' = [log EXCEPT !.calls = log.calls + 1, !.deleted = log.deleted \cup {rule},
                            !.crossed = crossed]
  BY DEF Delete, TypeInv, Logs
<1>2. d.op = "delete" /\ d.rule = rule /\ d.step = "del"
  OBVIOUS
<1>3. log.crossed \subseteq crossed /\ (Saving(rule) => rule \in crossed)
  OBVIOUS
<1> HIDE DEF d, crossed
<1>4. /\ UNCHANGED <<log.created, log.erased>>
      /\ log'.deleted = log.deleted \cup {rule} /\ log'.crossed = crossed
  BY <1>1 DEF TypeInv, Logs
<1>5. ASSUME NEW r \in Rules, Living(r)
      PROVE  Living(r)'
  BY <1>1, <1>2, <1>3, <1>4, <1>5, BeginLiving DEF SaveOf, Knows
<1>6. ASSUME NEW r \in Rules \ (crossed \cup log.erased), r \in log.deleted \cup {rule}
      PROVE  Leaving(r)
  <2>1. CASE r \in log.deleted
    BY <1>3, <1>6, <2>1 DEF LifeInv
  <2>2. CASE r \notin log.deleted
    <3>1. r = rule /\ Living(r) /\ ~Saving(r) /\ r \notin log.crossed
      BY <1>3, <1>6, <2>2 DEF LifeInv
    <3>2. ~Indexing(r)
      BY <3>1 DEF Indexing, Saving, SaveOf
    <3>3. ~Unindexing(r)
      BY <2>2 DEF Unindexing, Removing, LifeInv
    <3> QED
      BY <3>1, <3>2, <3>3 DEF Leaving, Living
  <2> QED
    BY <2>1, <2>2
<1>7. ASSUME NEW r \in Rules, Leaving(r)
      PROVE  Leaving(r)'
  BY <1>1, <1>2, <1>7, BeginLeaving DEF SaveOf, Removing
<1>8. \A t \in Servers : \A e \in calls'[t] : e \in calls[t] \/ (t = s /\ e = d)
  BY <1>1, Begins
<1>9. \A t \in Servers : \A e \in calls'[t] :
        /\ e.op = "delete" => e.rule \in log'.deleted
        /\ e.op = "status" => e.rule \in log'.erased
  BY <1>2, <1>4, <1>8, CallsFrame
<1> QED
  BY <1>1, <1>4, <1>5, <1>6, <1>7, <1>9 DEF LifeInv, TypeInv, Logs

\* What a step leaves that makes no call, and lets no server know of another rule.
LEMMA QuietLife ==
  ASSUME TypeInv, LifeInv, UNCHANGED <<hash, index, calls, work>>,
         UNCHANGED <<log.created, log.deleted, log.erased, log.crossed>>,
         \A r \in Rules, t \in Servers : Knows(t, r)' => Knows(t, r)
  PROVE  LifeInv'
<1>1. ASSUME NEW r \in Rules, Living(r)
      PROVE  Living(r)'
  <2>1. Indexing(r)' <=> Indexing(r)
    BY DEF Indexing
  <2> QED
    BY <1>1, <2>1, LivingFrame
<1>2. ASSUME NEW r \in Rules, Leaving(r)
      PROVE  Leaving(r)'
  <2>1. (Unindexing(r)' <=> Unindexing(r)) /\ (Saving(r)' <=> Saving(r))
    BY DEF Unindexing, Saving
  <2> QED
    BY <1>2, <2>1, LeavingFrame
<1> QED
  BY <1>1, <1>2 DEF LifeInv, TypeInv, Logs

\* An event of another server: a rule that is new is looked up, one that is deleted
\* is forgotten.
LEMMA DeliverLife ==
  ASSUME TypeInv, LifeInv, NEW s \in Servers, Deliver(s)
  PROVE  LifeInv'
<1> DEFINE e == Head(inbox[s])
<1>1. Hears(s, e) /\ UNCHANGED <<hash, states, index, work>>
  BY DEF Deliver
<1>2. e.rule \in Rules
  <2>1. inbox[s] \in Seq(Events) /\ inbox[s] # <<>>
    BY DEF Deliver, TypeInv
  <2>2. e \in Events
    BY <2>1
  <2> QED
    BY <2>2 DEF Events
<1> HIDE DEF e
<1>3. CASE e.type = "deleted"
  <2>1. Forget(s, e.rule) /\ UNCHANGED calls
    BY <1>1, <1>3 DEF Hears
  <2>2. \A r \in Rules, t \in Servers : Finding(t, r)' => Finding(t, r)
    BY <2>1 DEF Finding
  <2>3. /\ \A r \in Rules, t \in Servers : Knows(t, r)' => Knows(t, r)
        /\ UNCHANGED <<log.created, log.deleted, log.erased, log.crossed>>
    BY <1>1, <1>2, <2>1, <2>2, ForgetKnows
  <2> QED
    BY <1>1, <2>1, <2>3, QuietLife
<1>4. CASE e.type # "deleted" /\ UNCHANGED calls
  <2>1. UNCHANGED <<metas, metricRules, log>>
    BY <1>1, <1>4 DEF Hears
  <2>2. \A r \in Rules, t \in Servers : Knows(t, r)' => Knows(t, r)
    BY <1>1, <1>4, <2>1 DEF Knows, Finding
  <2> QED
    BY <1>1, <1>4, <2>1, <2>2, QuietLife
<1>5. CASE e.type # "deleted" /\ Begin(s, Lookup(e.rule, FALSE))
  <2> DEFINE d == Lookup(e.rule, FALSE)
  <2>1. UNCHANGED <<metas, metricRules, log>> /\ Begin(s, d)
    BY <1>1, <1>5 DEF Hears
  <2>2. d.op = "lookup" /\ d.step = "hgetall"
    BY DEF Lookup
  <2> HIDE DEF d
  <2>3. ASSUME NEW r \in Rules, Living(r)
        PROVE  Living(r)'
    BY <1>1, <2>1, <2>2, <2>3, BeginLiving DEF SaveOf, Knows
  <2>4. ASSUME NEW r \in Rules, Leaving(r)
        PROVE  Leaving(r)'
    BY <1>1, <2>1, <2>2, <2>4, BeginLeaving DEF SaveOf, Removing
  <2>5. \A t \in Servers : \A c \in calls'[t] : c \in calls[t] \/ (t = s /\ c = d)
    BY <2>1, Begins
  <2>6. \A t \in Servers : \A c \in calls'[t] :
          /\ c.op = "delete" => c.rule \in log'.deleted
          /\ c.op = "status" => c.rule \in log'.erased
    BY <2>1, <2>2, <2>5, CallsFrame
  <2> QED
    BY <2>1, <2>3, <2>4, <2>6 DEF LifeInv, TypeInv, Logs
<1> QED
  BY <1>1, <1>3, <1>4, <1>5 DEF Hears

\* A script that starts a rule makes a hash only where there is none, and a server
\* starts a living rule only where there is one.
LEMMA StartsLife ==
  ASSUME TypeInv, LifeInv, NEW s \in Servers, NEW rule \in Rules,
         Start(s, rule) \/ Evaluate(s, rule)
  PROVE  LifeInv'
<1>1. /\ Starts(rule)
      /\ UNCHANGED <<index, inbox, metas, metricRules, calls, log>>
      /\ Knows(s, rule)
      /\ \A t \in Servers : work'[t] \subseteq work[t]
  BY DEF Start, Evaluate, Knows, TypeInv
<1>2. /\ \A r \in Rules : r # rule => hash'[r] = hash[r]
      /\ hash'[rule] = hash[rule] \/ (hash[rule] = Absent /\ hash'[rule] = Nameless)
  BY <1>1 DEF Starts, TypeInv
<1>3. ASSUME NEW r \in Rules, Living(r)
      PROVE  Living(r)'
  <2>1. hash'[r] = hash[r]
    <3>1. r = rule => Stored(r)
      BY <1>1, <1>3 DEF Living
    <3> QED
      BY <1>2, <3>1, RegistryAssumption DEF Stored
  <2>2. \A t \in Servers : Knows(t, r)' => Knows(t, r)
    BY <1>1 DEF Knows, Finding
  <2>3. Indexing(r)' <=> Indexing(r)
    BY <1>1 DEF Indexing
  <2> QED
    BY <1>1, <1>3, <2>1, <2>2, <2>3 DEF Living, Stored
<1>4. ASSUME NEW r \in Rules, Leaving(r)
      PROVE  Leaving(r)'
  <2>1. Stored(r)' <=> Stored(r)
    BY <1>2, RegistryAssumption DEF Stored
  <2>2. (Unindexing(r)' <=> Unindexing(r)) /\ (Saving(r)' <=> Saving(r))
    BY <1>1 DEF Unindexing, Saving
  <2> QED
    BY <1>1, <1>4, <2>1, <2>2 DEF Leaving
<1> QED
  BY <1>1, <1>3, <1>4 DEF LifeInv, TypeInv, Logs

\* The calls of a process that dies end with it; what they were about to put into
\* the index, or to take out, the history has among what was crossed.
LEMMA RestartLife ==
  ASSUME TypeInv, LifeInv, NEW s \in Servers, Restart(s)
  PROVE  LifeInv'
<1> DEFINE d == [op |-> "load", step |-> "sort"]
           moved == {m \in log.moved : m[1] # s}
           crossed == log.crossed \cup {r \in Rules : \E c \in calls[s] :
                                          c.op \in {"save", "delete"} /\ c.rule = r}
<1>1. /\ calls' = [calls EXCEPT ![s] = {d}]
      /\ log' = [log EXCEPT !.calls = log.calls + 1, !.crossed = crossed, !.moved = moved]
      /\ UNCHANGED <<hash, states, index>>
  BY DEF Restart, TypeInv, Logs
<1>2. d.op = "load" /\ d.step = "sort"
  OBVIOUS
<1>3. /\ log.crossed \subseteq crossed
      /\ \A r \in Rules : \A c \in calls[s] :
           c.op \in {"save", "delete"} /\ c.rule = r => r \in crossed
  OBVIOUS
<1> HIDE DEF d, moved, crossed
<1>4. UNCHANGED <<log.created, log.deleted, log.erased>> /\ log'.crossed = crossed
  BY <1>1 DEF TypeInv, Logs
<1>5. calls'[s] = {d} /\ \A t \in Servers : t # s => calls'[t] = calls[t]
  BY <1>1 DEF TypeInv
<1>6. /\ \A r \in Rules : metas'[s][r] = Absent
      /\ work'[s] = {} /\ metricRules'[s] = {}
      /\ \A t \in Servers : t # s =>
           metas'[t] = metas[t] /\ work'[t] = work[t] /\ metricRules'[t] = metricRules[t]
  BY DEF Restart, TypeInv
<1>7. ASSUME NEW r \in Rules, Living(r)
      PROVE  Living(r)'
  <2>1. \A t \in Servers : Knows(t, r)' => Knows(t, r)
    <3>1. ~Finding(s, r)'
      BY <1>2, <1>5 DEF Finding
    <3>2. ~Knows(s, r)'
      BY <1>6, <3>1 DEF Knows
    <3>3. \A t \in Servers : t # s => (Knows(t, r)' <=> Knows(t, r))
      BY <1>5, <1>6 DEF Knows, Finding
    <3> QED
      BY <3>2, <3>3
  <2>2. \A t \in Servers : \A e \in calls'[t] : SaveOf(e, r) => e \in calls[t]
    BY <1>2, <1>5 DEF SaveOf
  <2>3. Indexing(r) => Indexing(r)' \/ r \in crossed
    BY <1>3, <1>5 DEF Indexing, SaveOf
  <2> QED
    BY <1>1, <1>3, <1>4, <1>7, <2>1, <2>2, <2>3, LivingFrame
<1>8. ASSUME NEW r \in Rules \ crossed, Leaving(r)
      PROVE  Leaving(r)'
  <2>1. Unindexing(r)' <=> Unindexing(r)
    BY <1>2, <1>3, <1>5 DEF Unindexing, Removing
  <2>2. Saving(r)' => Saving(r)
    BY <1>2, <1>5 DEF Saving
  <2> QED
    BY <1>1, <1>8, <2>1, <2>2, LeavingFrame
<1>9. \A t \in Servers : \A e \in calls'[t] :
        /\ e.op = "delete" => e.rule \in log'.deleted
        /\ e.op = "status" => e.rule \in log'.erased
  BY <1>2, <1>4, <1>5, CallsFrame
<1> QED
  BY <1>3, <1>4, <1>7, <1>8, <1>9 DEF LifeInv, TypeInv, Logs

LEMMA LifeStep ==
  ASSUME TypeInv, LifeInv, NEW s \in Servers, Call(s) \/ Step(s) \/ Restart(s)
  PROVE  LifeInv'
<1>1. CASE Call(s)
  <2>1. PICK rule \in Rules :
          \/ \E m \in Metrics : Create(s, rule, m) \/ Update(s, rule, m)
          \/ GetRule(s, rule) \/ Delete(s, rule) \/ SetRuleStatus(s, rule)
    BY <1>1 DEF Call
  <2> QED
    BY <2>1, CreateLife, UpdateLife, QuestionLife, DeleteLife
<1>2. CASE Continue(s)
  <2>1. PICK c \in calls[s] :
          \/ SaveExists(s, c) \/ SaveHash(s, c) \/ SaveIndex(s, c) \/ SaveEmit(s, c)
          \/ SaveHears(s, c) \/ SaveDone(s, c)
          \/ LookupReads(s, c) \/ LookupDone(s, c)
          \/ LoadSorts(s, c) \/ LoadReads(s, c) \/ LoadDone(s, c)
          \/ DeleteHash(s, c) \/ DeleteIndex(s, c) \/ DeleteEmit(s, c)
          \/ DeleteHears(s, c) \/ DeleteDone(s, c)
          \/ StatusHset(s, c) \/ StatusDel(s, c)
    BY <1>2 DEF Continue
  <2> QED
    BY <2>1, SaveExistsLife, SaveHashLife, SaveIndexLife, SaveEventLife, DoneLife, ReadsLife,
       DeleteKeysLife, DeleteEventLife, StatusLife
<1>3. CASE Listen(s)
  <2>1. UNCHANGED <<hash, index, metas, metricRules, work, calls, log>>
    BY <1>3 DEF Listen
  <2>2. \A r \in Rules, t \in Servers : Knows(t, r)' => Knows(t, r)
    BY <2>1 DEF Knows, Finding
  <2> QED
    BY <2>1, <2>2, QuietLife
<1>4. CASE Deliver(s) \/ Restart(s) \/ \E r \in Rules : Start(s, r) \/ Evaluate(s, r)
  BY <1>4, DeliverLife, RestartLife, StartsLife
<1> QED
  BY <1>1, <1>2, <1>3, <1>4 DEF Step

\* Together with the types, this holds in every reachable state.
LEMMA LifeInvariance == Spec => [](TypeInv /\ LifeInv)
<1>1. Init => LifeInv
  <2> SUFFICES ASSUME Init PROVE LifeInv
    OBVIOUS
  <2>1. /\ log.deleted = {} /\ log.created = {}
        /\ \A s \in Servers : calls[s] = {}
    BY DEF Init
  <2>2. ASSUME NEW r \in Rules
        PROVE  Living(r)
    <3>1. /\ hash[r] = Absent /\ r \notin index
          /\ \A s \in Servers : /\ metas[s][r] = Absent /\ work[s] = {}
                                /\ metricRules[s] = {}
      BY DEF Init
    <3>2. ~Stored(r) /\ hash[r] # Nameless
      BY <3>1, RegistryAssumption DEF Stored
    <3>3. \A s \in Servers : ~Knows(s, r)
      BY <2>1, <3>1 DEF Knows, Finding
    <3> QED
      BY <2>1, <3>1, <3>2, <3>3 DEF Living
  <2> QED
    BY <2>1, <2>2 DEF LifeInv
<1>2. TypeInv /\ LifeInv /\ [Next]_vars => LifeInv'
  <2> SUFFICES ASSUME TypeInv, LifeInv, [Next]_vars
               PROVE  LifeInv'
    OBVIOUS
  <2>1. CASE UNCHANGED vars
    <3>1. UNCHANGED <<hash, index, metas, metricRules, work, calls, log>>
      BY <2>1 DEF vars
    <3>2. \A r \in Rules, t \in Servers : Knows(t, r)' => Knows(t, r)
      BY <3>1 DEF Knows, Finding
    <3> QED
      BY <3>1, <3>2, QuietLife
  <2>2. CASE Next
    BY <2>2, LifeStep DEF Next
  <2> QED
    BY <2>1, <2>2
<1> QED
  BY <1>1, <1>2, TypeInit, TypeStep, PTL DEF Spec

\* When every call has ended and every event is heard, the index lists the rules
\* that have a hash, whatever saves, deletions, look-ups, starts of scripts and
\* restarts have crossed, but for the rules that were saved while they were deleted
\* or whose status was set.
THEOREM IndexListsStored == Spec => []IndexListsRules
<1>1. LifeInv => IndexListsRules
  <2> SUFFICES ASSUME LifeInv, AtRest, NEW r \in Rules \ (log.erased \cup log.crossed)
               PROVE  r \in index <=> Stored(r)
    BY DEF IndexListsRules
  <2>1. ~Indexing(r) /\ ~Unindexing(r)
    BY DEF AtRest, Indexing, Unindexing
  <2> QED
    BY <2>1 DEF LifeInv, Living, Leaving
<1> QED
  BY <1>1, LifeInvariance, PTL

-----------------------------------------------------------------------------
(***************************************************************************)
(* Which rules the servers know when everything is quiet.                  *)
(*                                                                         *)
(* A rule that is created is registered by every server, or there is       *)
(* something on the way to it that will register the rule: the creation    *)
(* itself, its event, a look-up or a load.  A rule that is deleted is      *)
(* known to no server but those to which its deletion is on the way.  What *)
(* is on the way is lost only in the cases that the history records.       *)
(***************************************************************************)

\* A look-up or a load that has found the rule.
Finds(c, r) ==
  \/ c.op = "lookup" /\ c.rule = r /\ c.step = "resume" /\ c.found # Absent
  \/ c.op = "load" /\ c.step = "resume" /\ c.found[r] # Absent

\* The server has registered the rule or is about to.
Holds(s, r) == metas[s][r] # Absent \/ Finding(s, r)

DeleteOf(c, r) == c.op = "delete" /\ c.rule = r

\* The deletion of a rule that has still to delete its keys.
Deleting(r) == \E t \in Servers : \E c \in calls[t] : DeleteOf(c, r) /\ c.step = "del"

\* It has deleted them, and will tell every server.
Telling(c, r) == DeleteOf(c, r) /\ c.step \in {"zrem", "emit"}

\* An event that waits for the server.
Told(s, e) == inbox[s] # Absent /\ \E i \in 1..Len(inbox[s]) : inbox[s][i] = e

Deleted(r) == [type |-> "deleted", rule |-> r]
Added(r) == [type |-> "added", rule |-> r]

\* A deletion of the rule is on the way to the server.
Going(s, r) ==
  \/ \E t \in Servers : \E c \in calls[t] : Telling(c, r)
  \/ \E c \in calls[s] : DeleteOf(c, r) /\ c.step \in {"emitted", "remove"}
  \/ Told(s, Deleted(r))

Creates(c, r) == SaveOf(c, r) /\ c.new /\ ~c.existed /\ c.step # "exists"

\* A look-up or a load that has found the rule, or has not read yet.
Looks(c, r) ==
  \/ c.op = "lookup" /\ c.rule = r /\ (c.step = "resume" => c.found # Absent)
  \/ c.op = "load" /\ (c.step = "resume" => c.found[r] # Absent)

\* The rule is on the way to the server.
Coming(s, r) ==
  \/ \E t \in Servers : \E c \in calls[t] : Creates(c, r) /\ (t = s \/ c.event = "none")
  \/ Told(s, Added(r))
  \/ \E c \in calls[s] : Looks(c, r)

\* Nobody forgets a rule that nobody deletes, and a rule that is deleted is stored
\* only until its keys are.
KnownInv ==
  /\ \A r \in Rules \ log.created : ~Stored(r) /\ ~Saving(r) /\ \A s \in Servers : ~Holds(s, r)
  /\ \A s \in Servers, r \in Rules : Told(s, Deleted(r)) => r \in log.deleted
  /\ \A r \in log.deleted \ log.crossed : ~Saving(r) /\ (Stored(r) => Deleting(r))
  /\ \A r \in log.created \ (log.deleted \cup log.crossed \cup log.unread \cup log.unheard) :
       \A s \in Servers :
         metas[s][r] # Absent \/ Coming(s, r) \/ <<s, r>> \in log.refused

ForgetInv ==
  \A r \in log.deleted \ (log.erased \cup log.crossed \cup log.raced \cup log.unheard) :
    \A s \in Servers : Holds(s, r) => Stored(r) \/ Going(s, r)

\* What every step keeps of the rules and of what is on the way to the servers.
Grows ==
  /\ log.created \subseteq log'.created /\ log.deleted \subseteq log'.deleted
  /\ log.crossed \subseteq log'.crossed /\ log.raced \subseteq log'.raced
  /\ log.unread \subseteq log'.unread /\ log.unheard \subseteq log'.unheard
  /\ log.refused \subseteq log'.refused /\ log.erased \subseteq log'.erased

KeyStep(r) ==
  /\ Stored(r)' => Stored(r) \/ Saving(r)
  /\ Saving(r)' =>
       \/ Saving(r)
       \/ r \in log'.created /\ (r \in log'.deleted => r \in log'.crossed)
  /\ Deleting(r) /\ Stored(r)' => Deleting(r)' \/ r \in log'.crossed
  /\ r \in log'.deleted =>
       \/ r \in log.deleted \/ r \in log'.crossed
       \/ Deleting(r)' /\ ~Saving(r) /\ ~Saving(r)' /\ (Stored(r) => Stored(r)')

HearStep(s, r) ==
  /\ Holds(s, r)' => Holds(s, r) \/ Stored(r) \/ Saving(r)
  /\ Stored(r) => Stored(r)' \/ r \in log'.erased \/ Going(s, r)'
  /\ Going(s, r) /\ Holds(s, r)' =>
       Going(s, r)' \/ r \in log'.crossed \cup log'.raced \cup log'.unheard
  /\ Told(s, Deleted(r))' => Told(s, Deleted(r)) \/ r \in log'.deleted

KnowStep(s, r) ==
  metas[s][r] # Absent \/ Coming(s, r) \/ r \in log'.created \ log.created =>
    \/ metas'[s][r] # Absent \/ Coming(s, r)' \/ r \notin log'.created
    \/ r \in log'.deleted \cup log'.crossed \cup log'.unread \cup log'.unheard
    \/ <<s, r>> \in log'.refused

Tells ==
  /\ Grows
  /\ \A r \in Rules : KeyStep(r) /\ \A s \in Servers : HearStep(s, r) /\ KnowStep(s, r)

\* Steps of this kind keep what is known of the rules that exist ...
LEMMA KnownStep ==
  ASSUME TypeInv, TypeInv', KnownInv, Tells
  PROVE  KnownInv'
<1>1. ASSUME NEW r \in Rules \ log'.created
      PROVE  ~Stored(r)' /\ ~Saving(r)' /\ \A s \in Servers : ~Holds(s, r)'
  <2>1. r \notin log.created
    BY <1>1 DEF Tells, Grows
  <2>2. ~Stored(r) /\ ~Saving(r) /\ \A s \in Servers : ~Holds(s, r)
    BY <2>1 DEF KnownInv
  <2> QED
    BY <1>1, <2>2 DEF Tells, KeyStep, HearStep
<1>2. ASSUME NEW s \in Servers, NEW r \in Rules, Told(s, Deleted(r))'
      PROVE  r \in log'.deleted
  BY <1>2 DEF KnownInv, Tells, HearStep, Grows
<1>3. ASSUME NEW r \in log'.deleted \ log'.crossed
      PROVE  ~Saving(r)' /\ (Stored(r)' => Deleting(r)')
  <2>1. r \in Rules
    BY <1>3 DEF TypeInv, Logs
  <2>2. KeyStep(r)
    BY <2>1 DEF Tells
  <2>3. CASE r \in log.deleted
    <3>1. ~Saving(r) /\ (Stored(r) => Deleting(r))
      BY <1>3, <2>3 DEF KnownInv, Tells, Grows
    <3> QED
      BY <1>3, <2>2, <3>1 DEF KeyStep
  <2>4. CASE r \notin log.deleted
    BY <1>3, <2>2, <2>4 DEF KeyStep
  <2> QED
    BY <2>3, <2>4
<1>4. ASSUME NEW r \in log'.created
                   \ (log'.deleted \cup log'.crossed \cup log'.unread \cup log'.unheard),
             NEW s \in Servers, <<s, r>> \notin log'.refused
      PROVE  metas'[s][r] # Absent \/ Coming(s, r)'
  <2>1. r \in Rules
    BY <1>4 DEF TypeInv, Logs
  <2>2. KnowStep(s, r)
    BY <2>1 DEF Tells
  <2>3. r \in log.created => metas[s][r] # Absent \/ Coming(s, r)
    BY <1>4 DEF KnownInv, Tells, Grows
  <2> QED
    BY <1>4, <2>2, <2>3 DEF KnowStep
<1> QED
  BY <1>1, <1>2, <1>3, <1>4 DEF KnownInv

\* ... and that those who hold a deleted rule will hear of it.
LEMMA ForgetStep ==
  ASSUME TypeInv, TypeInv', LifeInv, KnownInv, ForgetInv, Tells
  PROVE  ForgetInv'
<1> SUFFICES ASSUME NEW r \in log'.deleted \ (log'.erased \cup log'.crossed
                                                \cup log'.raced \cup log'.unheard),
                    NEW s \in Servers, Holds(s, r)', ~Stored(r)'
             PROVE  Going(s, r)'
  BY DEF ForgetInv
<1>1. r \in Rules
  BY DEF TypeInv, Logs
<1>2. KeyStep(r) /\ HearStep(s, r) /\ Grows
  BY <1>1 DEF Tells
<1>3. r \notin log.erased \cup log.crossed \cup log.raced \cup log.unheard
  BY <1>2 DEF Grows
<1>4. ~Stored(r) \/ Going(s, r)'
  BY <1>2 DEF HearStep
<1>5. CASE r \in log.deleted /\ ~Stored(r)
  <2>1. ~Saving(r)
    BY <1>3, <1>5 DEF KnownInv
  <2>2. Holds(s, r)
    BY <1>2, <1>5, <2>1 DEF HearStep
  <2>3. Going(s, r)
    BY <1>3, <1>5, <2>2 DEF ForgetInv
  <2> QED
    BY <1>2, <2>3 DEF HearStep
<1>6. CASE r \notin log.deleted /\ ~Stored(r)
  <2>1. ~Saving(r)
    BY <1>2, <1>6 DEF KeyStep
  <2>2. Holds(s, r)
    BY <1>2, <1>6, <2>1 DEF HearStep
  <2>3. Living(r)
    BY <1>1, <1>3, <1>6 DEF LifeInv
  <2> QED
    BY <1>6, <2>2, <2>3 DEF Living, Knows, Holds
<1> QED
  BY <1>4, <1>5, <1>6

\* A call goes on, ends, or makes way for others: what it was to tell and to find is
\* told, found and registered by those that follow it, or what they have registered.
LEMMA CallTells ==
  ASSUME TypeInv, NEW s \in Servers, NEW c \in calls[s], NEW next, Replace(s, c, next),
         UNCHANGED inbox, Grows, UNCHANGED <<log.created, log.deleted>>,
         \A r \in Rules : Stored(r)' => Stored(r) \/ Saving(r),
         \A r \in Rules : Stored(r) => Stored(r)' \/ r \in log'.erased,
         \A t \in Servers, r \in Rules : metas[t][r] # Absent => metas'[t][r] # Absent,
         \A t \in Servers, r \in Rules : metas'[t][r] # Absent => Holds(t, r) \/ Saving(r),
         \A r \in Rules : ~(DeleteOf(c, r) /\ c.step \in {"del", "emitted", "remove"}),
         \A e \in next : e.op = "save" => c.op = "save" /\ e.rule = c.rule,
         \A e \in next, r \in Rules : Finds(e, r) => Finds(c, r) \/ Stored(r),
         \A r \in Rules : Telling(c, r) => \E e \in next : Telling(e, r),
         \A r \in Rules : Creates(c, r) =>
            \/ \E e \in next : Creates(e, r) /\ (c.event = "none" => e.event = "none")
            \/ c.event # "none" /\ metas'[s][r] # Absent,
         \A r \in Rules : Looks(c, r) =>
            \/ \E e \in next : Looks(e, r)
            \/ metas'[s][r] # Absent \/ r \in log'.unread \/ r \notin log.created
            \/ <<s, r>> \in log'.refused
  PROVE  Tells
<1>1. /\ \A t \in Servers : \A e \in calls'[t] : e \in calls[t] \/ (t = s /\ e \in next)
      /\ \A t \in Servers : \A e \in calls[t] : e \in calls'[t] \/ (t = s /\ e = c)
      /\ next \subseteq calls'[s]
  BY Goes
<1>2. \A t \in Servers, e \in Events : Told(t, e)' <=> Told(t, e)
  BY DEF Told
<1>3. \A r \in Rules : Deleted(r) \in Events /\ Added(r) \in Events
  BY DEF Deleted, Added, Events
<1>4. ASSUME NEW r \in Rules
      PROVE  KeyStep(r)
  <2>1. Saving(r)' => Saving(r)
    BY <1>1 DEF Saving
  <2>2. Deleting(r) => Deleting(r)'
    BY <1>1 DEF Deleting
  <2> QED
    BY <2>1, <2>2 DEF KeyStep
<1>5. ASSUME NEW r \in Rules, NEW t \in Servers
      PROVE  HearStep(t, r)
  <2>1. Finding(t, r)' => Finding(t, r) \/ Stored(r)
    <3> SUFFICES ASSUME NEW e \in calls'[t], Finds(e, r)
                 PROVE  Finding(t, r) \/ Stored(r)
      BY DEF Finding, Finds
    <3>1. CASE e \in calls[t]
      BY <3>1 DEF Finding, Finds
    <3>2. CASE t = s /\ e \in next
      BY <3>2 DEF Finding, Finds
    <3> QED
      BY <1>1, <3>1, <3>2
  <2>2. Holds(t, r)' => Holds(t, r) \/ Stored(r) \/ Saving(r)
    BY <2>1 DEF Holds
  <2>3. Going(t, r) => Going(t, r)'
    <3>1. ASSUME NEW u \in Servers, NEW e \in calls[u], Telling(e, r)
          PROVE  Going(t, r)'
      <4>1. CASE e \in calls'[u]
        BY <3>1, <4>1 DEF Going
      <4>2. CASE u = s /\ e = c
        <5>1. PICK f \in next : Telling(f, r)
          BY <3>1, <4>2
        <5> QED
          BY <1>1, <5>1 DEF Going
      <4> QED
        BY <1>1, <4>1, <4>2
    <3>2. ASSUME NEW e \in calls[t], DeleteOf(e, r), e.step \in {"emitted", "remove"}
          PROVE  Going(t, r)'
      <4>1. e \in calls'[t]
        BY <1>1, <3>2
      <4> QED
        BY <3>2, <4>1 DEF Going
    <3>3. Told(t, Deleted(r)) => Going(t, r)'
      BY <1>2, <1>3 DEF Going
    <3> QED
      BY <3>1, <3>2, <3>3 DEF Going
  <2> QED
    BY <1>2, <1>3, <2>2, <2>3 DEF HearStep
<1>6. ASSUME NEW r \in Rules, NEW t \in Servers
      PROVE  KnowStep(t, r)
  <2> SUFFICES ASSUME metas[t][r] # Absent \/ Coming(t, r),
                      r \in log.created, r \notin log'.unread, <<t, r>> \notin log'.refused
               PROVE  metas'[t][r] # Absent \/ Coming(t, r)'
    BY DEF KnowStep
  <2>1. ASSUME NEW u \in Servers, NEW e \in calls[u], Creates(e, r), u = t \/ e.event = "none"
        PROVE  metas'[t][r] # Absent \/ Coming(t, r)'
    <3>1. CASE e \in calls'[u]
      BY <2>1, <3>1 DEF Coming
    <3>2. CASE u = s /\ e = c
      <4>1. CASE c.event # "none" /\ metas'[s][r] # Absent
        BY <2>1, <3>2, <4>1
      <4>2. CASE \E f \in next : Creates(f, r) /\ (c.event = "none" => f.event = "none")
        <5>1. PICK f \in next : Creates(f, r) /\ (c.event = "none" => f.event = "none")
          BY <4>2
        <5>2. f \in calls'[s]
          BY <1>1
        <5> QED
          BY <2>1, <3>2, <5>1, <5>2 DEF Coming
      <4> QED
        BY <2>1, <3>2, <4>1, <4>2
    <3> QED
      BY <1>1, <3>1, <3>2
  <2>2. ASSUME NEW e \in calls[t], Looks(e, r)
        PROVE  metas'[t][r] # Absent \/ Coming(t, r)'
    <3>1. CASE e \in calls'[t]
      BY <2>2, <3>1 DEF Coming
    <3>2. CASE t = s /\ e = c
      <4>1. CASE metas'[s][r] # Absent
        BY <3>2, <4>1
      <4>2. CASE \E f \in next : Looks(f, r)
        <5>1. PICK f \in next : Looks(f, r)
          BY <4>2
        <5>2. f \in calls'[s]
          BY <1>1
        <5> QED
          BY <3>2, <5>1, <5>2 DEF Coming
      <4> QED
        BY <2>2, <3>2, <4>1, <4>2
    <3> QED
      BY <1>1, <3>1, <3>2
  <2>3. Told(t, Added(r)) => Coming(t, r)'
    BY <1>2, <1>3 DEF Coming
  <2> QED
    BY <2>1, <2>2, <2>3 DEF Coming
<1> QED
  BY <1>4, <1>5, <1>6 DEF Tells

\* A step that adds nothing to the history of the rules.
LEMMA LogStays ==
  ASSUME TypeInv, log' = log
  PROVE  Grows /\ UNCHANGED <<log.created, log.deleted, log.erased>>
BY DEF Grows

\* saveRule() up to its event, and beside it.
LEMMA SaveTells ==
  ASSUME TypeInv, NEW s \in Servers, NEW c \in calls[s],
         SaveExists(s, c) \/ SaveHash(s, c) \/ SaveIndex(s, c) \/ SaveHears(s, c)
  PROVE  Tells
<1>1. c \in SaveCalls /\ c.op = "save" /\ c.rule \in Rules /\ c.metric \in Metrics
  <2>1. c.op = "save"
    BY DEF SaveExists, SaveHash, SaveIndex, SaveHears
  <2>2. c \in SaveCalls
    BY <2>1, CallTypes DEF TypeInv
  <2> QED
    BY <2>1, <2>2 DEF SaveCalls
<1>2. PICK d, next :
        /\ Replace(s, c, next)
        /\ d \in next /\ \A e \in next : e = d \/ e = Lookup(c.rule, TRUE)
        /\ d.op = "save" /\ d.rule = c.rule
        /\ \A r \in Rules : Creates(c, r) => Creates(d, r)
        /\ c.event = "none" => d.event = "none"
  <2>1. CASE SaveExists(s, c)
    <3> DEFINE d == [c EXCEPT !.step = "hmset", !.existed = hash[c.rule] # Absent]
    <3>1. Replace(s, c, {d}) /\ c.step = "exists"
      BY <2>1 DEF SaveExists
    <3>2. d.op = "save" /\ d.rule = c.rule /\ d.event = c.event
      BY <1>1 DEF SaveCalls
    <3> HIDE DEF d
    <3>3. \A r \in Rules : ~Creates(c, r)
      BY <3>1 DEF Creates
    <3> DEFINE next == {d}
    <3>4. /\ Replace(s, c, next)
          /\ d \in next /\ \A e \in next : e = d \/ e = Lookup(c.rule, TRUE)
      BY <3>1
    <3>5. /\ d.op = "save" /\ d.rule = c.rule
          /\ c.event = "none" => d.event = "none"
      BY <3>1, <3>2
    <3> HIDE DEF next
    <3> QED
      BY <3>3, <3>4, <3>5
  <2>2. CASE SaveHash(s, c)
    <3> DEFINE d == [c EXCEPT !.step = "zadd"]
    <3>1. Replace(s, c, {d})
      BY <2>2 DEF SaveHash
    <3>2. /\ d.op = "save" /\ d.rule = c.rule /\ d.event = c.event /\ d.step = "zadd"
          /\ d.new = c.new /\ d.existed = c.existed
      BY <1>1 DEF SaveCalls
    <3> HIDE DEF d
    <3>3. \A r \in Rules : Creates(c, r) => Creates(d, r)
      BY <3>2 DEF Creates, SaveOf
    <3> DEFINE next == {d}
    <3>4. /\ Replace(s, c, next)
          /\ d \in next /\ \A e \in next : e = d \/ e = Lookup(c.rule, TRUE)
      BY <3>1
    <3>5. /\ d.op = "save" /\ d.rule = c.rule
          /\ c.event = "none" => d.event = "none"
      BY <3>1, <3>2
    <3> HIDE DEF next
    <3> QED
      BY <3>3, <3>4, <3>5
  <2>3. CASE SaveIndex(s, c)
    <3> DEFINE d == [c EXCEPT !.step = "saved"]
    <3>1. Replace(s, c, {d})
      BY <2>3 DEF SaveIndex
    <3>2. /\ d.op = "save" /\ d.rule = c.rule /\ d.event = c.event /\ d.step = "saved"
          /\ d.new = c.new /\ d.existed = c.existed
      BY <1>1 DEF SaveCalls
    <3> HIDE DEF d
    <3>3. \A r \in Rules : Creates(c, r) => Creates(d, r)
      BY <3>2 DEF Creates, SaveOf
    <3> DEFINE next == {d}
    <3>4. /\ Replace(s, c, next)
          /\ d \in next /\ \A e \in next : e = d \/ e = Lookup(c.rule, TRUE)
      BY <3>1
    <3>5. /\ d.op = "save" /\ d.rule = c.rule
          /\ c.event = "none" => d.event = "none"
      BY <3>1, <3>2
    <3> HIDE DEF next
    <3> QED
      BY <3>3, <3>4, <3>5
  <2>4. CASE SaveHears(s, c)
    <3> DEFINE d == [c EXCEPT !.event = "heard"]
               next == {d} \cup IF c.existed \/ metas[s][c.rule] # Absent THEN {}
                                ELSE {Lookup(c.rule, TRUE)}
    <3>1. Replace(s, c, next) /\ c.event = "sent"
      BY <2>4 DEF SaveHears
    <3>2. /\ d.op = "save" /\ d.rule = c.rule /\ d.step = c.step
          /\ d.new = c.new /\ d.existed = c.existed
      BY <1>1 DEF SaveCalls
    <3>3. d \in next /\ \A e \in next : e = d \/ e = Lookup(c.rule, TRUE)
      OBVIOUS
    <3> HIDE DEF d, next
    <3>4. \A r \in Rules : Creates(c, r) => Creates(d, r)
      BY <3>2 DEF Creates, SaveOf
    <3> QED
      BY <3>1, <3>2, <3>3, <3>4
  <2> QED
    BY <2>1, <2>2, <2>3, <2>4
<1>3. /\ Lookup(c.rule, TRUE).op = "lookup" /\ Lookup(c.rule, TRUE).step = "hgetall"
      /\ UNCHANGED <<inbox, metas, log>>
  BY DEF Lookup, SaveExists, SaveHash, SaveIndex, SaveHears
<1>4. Grows /\ UNCHANGED <<log.created, log.deleted>>
  BY <1>3, LogStays
<1>5. \A r \in Rules : /\ Stored(r)' => Stored(r) \/ Saving(r)
                       /\ Stored(r) => Stored(r)'
  <2>1. CASE UNCHANGED hash
    BY <2>1 DEF Stored
  <2>2. CASE SaveHash(s, c)
    <3>1. /\ hash'[c.rule] = SavedHash(c, hash[c.rule])
          /\ \A r \in Rules : r # c.rule => hash'[r] = hash[r]
      BY <1>1, <2>2 DEF SaveHash, TypeInv
    <3>2. Saving(c.rule)
      BY <1>1 DEF Saving
    <3> QED
      BY <1>1, <3>1, <3>2 DEF SavedHash, Stored
  <2> QED
    BY <2>1, <2>2 DEF SaveExists, SaveIndex, SaveHears
<1>6. /\ \A r \in Rules : ~DeleteOf(c, r) /\ ~Telling(c, r) /\ ~Looks(c, r)
      /\ \A e \in next, r \in Rules : ~Finds(e, r)
      /\ \A e \in next : e.op = "save" => e.rule = c.rule
  BY <1>1, <1>2, <1>3 DEF DeleteOf, Telling, Looks, Finds
<1>7. \A t \in Servers, r \in Rules : metas'[t][r] # Absent => Holds(t, r)
  BY <1>3 DEF Holds
<1>8. \A r \in Rules : Creates(c, r) =>
        \E e \in next : Creates(e, r) /\ (c.event = "none" => e.event = "none")
  BY <1>2
<1> QED
  BY <1>1, <1>2, <1>3, <1>4, <1>5, <1>6, <1>7, <1>8, CallTells

\* What is read of a hash has not changed what is on the way, unless nothing was found.
LEMMA ReadTells ==
  ASSUME TypeInv, NEW s \in Servers, NEW c \in calls[s],
         LookupReads(s, c) \/ LoadSorts(s, c) \/ LoadReads(s, c)
  PROVE  Tells
<1>1. c.op \in {"lookup", "load"} /\ UNCHANGED <<hash, inbox, metas>>
  BY DEF LookupReads, LoadSorts, LoadReads
<1>2. Grows /\ UNCHANGED <<log.created, log.deleted>>
  <2>1. \/ log' = log
        \/ \E x, y : /\ log' = [log EXCEPT !.unread = x, !.refused = y]
                     /\ log.unread \subseteq x /\ log.refused \subseteq y
    <3>1. CASE LookupReads(s, c)
      <4> DEFINE x == IF Stored(c.rule) THEN log.unread ELSE log.unread \cup {c.rule}
                 y == log.refused \cup Refusals(s, {c.rule})
      <4>1. log' = [log EXCEPT !.unread = x, !.refused = y]
        BY <3>1 DEF LookupReads, TypeInv, Logs
      <4>2. log.unread \subseteq x /\ log.refused \subseteq y
        OBVIOUS
      <4> HIDE DEF x, y
      <4> QED
        BY <4>1, <4>2
    <3>2. CASE LoadSorts(s, c)
      BY <3>2 DEF LoadSorts
    <3>3. CASE LoadReads(s, c)
      <4> DEFINE x == log.unread \cup {r \in log.created : r \notin c.ids \/ ~Stored(r)}
                 y == log.refused \cup Refusals(s, c.ids)
      <4>1. log' = [log EXCEPT !.unread = x, !.refused = y]
        BY <3>3 DEF LoadReads, TypeInv, Logs
      <4>2. log.unread \subseteq x /\ log.refused \subseteq y
        OBVIOUS
      <4> HIDE DEF x, y
      <4> QED
        BY <4>1, <4>2
    <3> QED
      BY <3>1, <3>2, <3>3
  <2> QED
    BY <2>1 DEF Grows, TypeInv, Logs
<1>3. PICK d :
        /\ Replace(s, c, {d})
        /\ d.op \in {"lookup", "load"}
        /\ \A r \in Rules : Finds(d, r) => Stored(r)
        /\ \A r \in Rules : Looks(c, r) =>
             \/ Looks(d, r) \/ r \in log'.unread \/ r \notin log.created
             \/ <<s, r>> \in log'.refused
  <2>1. CASE LookupReads(s, c)
    <3> DEFINE d == [c EXCEPT !.step = "resume", !.found = Deserialized(c.rule)]
    <3>1. c \in LookupCalls /\ Replace(s, c, {d})
      BY <2>1, CallTypes DEF TypeInv, LookupReads
    <3>2. d.op = "lookup" /\ d.rule = c.rule /\ d.found = Deserialized(c.rule)
      BY <3>1 DEF LookupCalls
    <3>3. Deserialized(c.rule) = Absent => c.rule \in log'.unread \/ <<s, c.rule>> \in log'.refused
      <4>1. c.rule \in Rules
        BY <3>1 DEF LookupCalls
      <4>2. /\ ~Stored(c.rule) => c.rule \in log'.unread
            /\ log'.refused = log.refused \cup Refusals(s, {c.rule})
        BY <2>1 DEF LookupReads, TypeInv, Logs
      <4>3. Stored(c.rule) /\ c.rule \in foreign => <<s, c.rule>> \in Refusals(s, {c.rule})
        BY <4>1, RefusalType
      <4> QED
        BY <4>1, <4>2, <4>3, ReadStored
    <3> HIDE DEF d
    <3>4. \A r \in Rules : Finds(d, r) => Stored(r)
      BY <3>2, ReadStored DEF Finds
    <3>5. \A r \in Rules : Looks(c, r) =>
            Looks(d, r) \/ r \in log'.unread \/ <<s, r>> \in log'.refused
      BY <2>1, <3>2, <3>3 DEF Looks, LookupReads
    <3> QED
      BY <3>1, <3>2, <3>4, <3>5
  <2>2. CASE LoadSorts(s, c)
    <3> DEFINE d == [op |-> "load", step |-> "hgetall", ids |-> index]
    <3>1. Replace(s, c, {d}) /\ d.op = "load" /\ d.step = "hgetall"
      BY <2>2 DEF LoadSorts
    <3> HIDE DEF d
    <3> QED
      BY <3>1 DEF Finds, Looks
  <2>3. CASE LoadReads(s, c)
    <3> DEFINE found == [r \in Rules |-> IF r \in c.ids THEN Deserialized(r) ELSE Absent]
               d == [op |-> "load", step |-> "resume", found |-> found]
               missed == {r \in log.created : r \notin c.ids \/ ~Stored(r)}
    <3>1. /\ Replace(s, c, {d}) /\ log'.unread = log.unread \cup missed
          /\ log'.refused = log.refused \cup Refusals(s, c.ids)
      BY <2>3 DEF LoadReads, TypeInv, Logs
    <3>2. \A r \in Rules : found[r] # Absent => Stored(r)
      BY ReadStored
    <3>3. \A r \in Rules : \/ found[r] # Absent \/ r \in missed \/ r \notin log.created
                          \/ <<s, r>> \in log'.refused
      <4>1. c.ids \in SUBSET Rules
        BY <2>3, CallTypes, LoadTypes DEF LoadReads, TypeInv
      <4>2. \A r \in c.ids : Stored(r) /\ r \in foreign => <<s, r>> \in log'.refused
        BY <3>1, <4>1, RefusalType
      <4> QED
        BY <4>2, ReadStored
    <3> HIDE DEF found, missed
    <3>4. d.op = "load" /\ d.found = found
      OBVIOUS
    <3> HIDE DEF d
    <3>5. missed \subseteq log'.unread
      BY <3>1
    <3>6. \A r \in Rules : Finds(d, r) => Stored(r)
      BY <3>2, <3>4 DEF Finds
    <3>7. \A r \in Rules : \/ Looks(d, r) \/ r \in log'.unread \/ r \notin log.created
                          \/ <<s, r>> \in log'.refused
      BY <3>3, <3>4, <3>5 DEF Looks
    <3> QED
      BY <3>1, <3>4, <3>6, <3>7
  <2> QED
    BY <2>1, <2>2, <2>3
<1>4. \A r \in Rules : Stored(r)' <=> Stored(r)
  BY <1>1 DEF Stored
<1>5. \A t \in Servers, r \in Rules : metas'[t][r] # Absent => Holds(t, r)
  BY <1>1 DEF Holds
<1>6. \A r \in Rules : ~DeleteOf(c, r) /\ ~Telling(c, r) /\ ~Creates(c, r)
  BY <1>1 DEF DeleteOf, Telling, Creates, SaveOf
<1>7. /\ \A e \in {d} : e.op = "save" => c.op = "save" /\ e.rule = c.rule
      /\ \A e \in {d}, r \in Rules : Finds(e, r) => Finds(c, r) \/ Stored(r)
      /\ \A r \in Rules : Looks(c, r) =>
            \/ \E e \in {d} : Looks(e, r)
            \/ metas'[s][r] # Absent \/ r \in log'.unread \/ r \notin log.created
            \/ <<s, r>> \in log'.refused
  BY <1>3
<1>8. Replace(s, c, {d})
  BY <1>3
<1> QED
  BY <1>1, <1>2, <1>4, <1>5, <1>6, <1>7, <1>8, CallTells

\* Who registers what was found has registered just that, beside what it had before.
LEMMA RegisterHolds ==
  ASSUME TypeInv, NEW s \in Servers, NEW found \in [Rules -> Found], Register(s, found)
  PROVE  /\ \A t \in Servers, r \in Rules : metas[t][r] # Absent => metas'[t][r] # Absent
         /\ \A t \in Servers, r \in Rules :
              metas'[t][r] # Absent => metas[t][r] # Absent \/ (t = s /\ found[r] # Absent)
         /\ \A r \in Rules : found[r] # Absent => metas'[s][r] # Absent
<1> DEFINE new == {q \in Rules : found[q] # Absent /\ metas[s][q] = Absent}
           now == [q \in Rules |-> IF q \in new THEN found[q] ELSE metas[s][q]]
<1>1. metas' = [metas EXCEPT ![s] = now]
  BY DEF Register
<1>2. \A r \in Rules : /\ metas[s][r] # Absent => now[r] # Absent
                       /\ now[r] # Absent => metas[s][r] # Absent \/ found[r] # Absent
                       /\ found[r] # Absent => now[r] # Absent
  OBVIOUS
<1> HIDE DEF new, now
<1>3. metas'[s] = now /\ \A t \in Servers : t # s => metas'[t] = metas[t]
  BY <1>1 DEF TypeInv
<1> QED
  BY <1>2, <1>3

\* The end of a save, a look-up or a load: what it was to bring is registered.
LEMMA DoneTells ==
  ASSUME TypeInv, NEW s \in Servers, NEW c \in calls[s],
         SaveDone(s, c) \/ LookupDone(s, c) \/ LoadDone(s, c)
  PROVE  Tells
<1>1. /\ Replace(s, c, {}) /\ UNCHANGED <<hash, inbox, log>>
      /\ c.op \in {"save", "lookup", "load"}
  BY DEF SaveDone, LookupDone, LoadDone
<1>2. Grows /\ UNCHANGED <<log.created, log.deleted>>
  BY <1>1, LogStays
<1>3. /\ c.op = "save" => c \in SaveCalls
      /\ c.op = "lookup" => c \in LookupCalls
      /\ c.op = "load" => c \in LoadCalls
  BY CallTypes DEF TypeInv
<1>4. /\ \A t \in Servers, r \in Rules : metas[t][r] # Absent => metas'[t][r] # Absent
      /\ \A t \in Servers, r \in Rules : metas'[t][r] # Absent => Holds(t, r) \/ Saving(r)
      /\ \A r \in Rules : Looks(c, r) => metas'[s][r] # Absent
      /\ \A r \in Rules : Creates(c, r) => c.event # "none" /\ metas'[s][r] # Absent
  <2>1. CASE SaveDone(s, c)
    <3>1. c.op = "save" /\ c.event = "heard"
      BY <2>1 DEF SaveDone
    <3>2. c.rule \in Rules /\ c.metric \in Metrics
      BY <1>3, <3>1 DEF SaveCalls
    <3>3. \A r \in Rules : ~Looks(c, r)
      BY <3>1 DEF Looks
    <3>4. CASE ~c.new
      BY <2>1, <3>3, <3>4 DEF SaveDone, Creates, Holds
    <3>5. CASE c.new
      <4> DEFINE found == Only(c.rule, c.metric)
      <4>1. found \in [Rules -> Found] /\ Register(s, found)
        BY <2>1, <3>2, <3>5, ReadType DEF SaveDone, Found
      <4>2. /\ found[c.rule] # Absent
            /\ \A r \in Rules : found[r] # Absent => r = c.rule
        BY <3>2, RegistryAssumption DEF Only
      <4> HIDE DEF found
      <4>3. Saving(c.rule)
        BY <3>1 DEF Saving
      <4> QED
        BY <3>1, <3>3, <4>1, <4>2, <4>3, RegisterHolds DEF Holds, Creates, SaveOf
    <3> QED
      BY <3>4, <3>5
  <2>2. CASE LookupDone(s, c)
    <3>1. c.op = "lookup" /\ c.step = "resume"
      BY <2>2 DEF LookupDone
    <3>2. c.rule \in Rules /\ c.found \in Found
      BY <1>3, <3>1 DEF LookupCalls
    <3> DEFINE found == Only(c.rule, c.found)
    <3>3. found \in [Rules -> Found] /\ Register(s, found)
      BY <2>2, <3>2, ReadType DEF LookupDone
    <3>4. \A r \in Rules : found[r] # Absent <=> r = c.rule /\ c.found # Absent
      BY DEF Only
    <3> HIDE DEF found
    <3>5. \A r \in Rules : found[r] # Absent <=> Looks(c, r)
      BY <3>1, <3>4 DEF Looks
    <3>6. \A r \in Rules : found[r] # Absent => Finding(s, r)
      BY <3>1, <3>4 DEF Finding
    <3>7. \A r \in Rules : ~Creates(c, r)
      BY <3>1 DEF Creates, SaveOf
    <3> QED
      BY <3>3, <3>5, <3>6, <3>7, RegisterHolds DEF Holds
  <2>3. CASE LoadDone(s, c)
    <3>1. c.op = "load" /\ c.step = "resume" /\ Register(s, c.found)
      BY <2>3 DEF LoadDone
    <3>2. c.found \in [Rules -> Found]
      BY <1>3, <3>1, LoadTypes
    <3>3. \A r \in Rules : c.found[r] # Absent <=> Looks(c, r)
      BY <3>1 DEF Looks
    <3>4. \A r \in Rules : c.found[r] # Absent => Finding(s, r)
      BY <3>1 DEF Finding
    <3>5. \A r \in Rules : ~Creates(c, r)
      BY <3>1 DEF Creates, SaveOf
    <3> QED
      BY <3>1, <3>2, <3>3, <3>4, <3>5, RegisterHolds DEF Holds
  <2> QED
    BY <2>1, <2>2, <2>3
<1>5. \A r \in Rules : Stored(r)' <=> Stored(r)
  BY <1>1 DEF Stored
<1>6. \A r \in Rules : ~DeleteOf(c, r) /\ ~Telling(c, r)
  BY <1>1 DEF DeleteOf, Telling
<1> QED
  BY <1>1, <1>2, <1>4, <1>5, <1>6, CallTells

\* The index of a deleted rule, and setRuleStatus(), which deletes what it has read.
LEMMA KeysTell ==
  ASSUME TypeInv, LifeInv, NEW s \in Servers, NEW c \in calls[s],
         DeleteIndex(s, c) \/ StatusHset(s, c) \/ StatusDel(s, c)
  PROVE  Tells
<1>1. UNCHANGED <<inbox, metas, log>> /\ c.op \in {"delete", "status"}
  BY DEF DeleteIndex, StatusHset, StatusDel
<1>2. Grows /\ UNCHANGED <<log.created, log.deleted, log.erased>>
  BY <1>1, LogStays
<1>3. PICK next :
        /\ Replace(s, c, next)
        /\ \A e \in next : e.op \in {"delete", "status"}
        /\ \A r \in Rules : Telling(c, r) => \E e \in next : Telling(e, r)
        /\ \A r \in Rules : ~(DeleteOf(c, r) /\ c.step \in {"del", "emitted", "remove"})
  <2>1. CASE DeleteIndex(s, c)
    <3> DEFINE d == [c EXCEPT !.step = "emit"]
    <3>1. /\ Replace(s, c, IF c.step = "zrem" THEN {d} ELSE {})
          /\ c.op = "delete" /\ c.step \in {"zrem", "zrem-only"}
      BY <2>1 DEF DeleteIndex
    <3>2. c \in DeleteCalls
      BY <3>1, CallTypes DEF TypeInv
    <3>3. d.op = "delete" /\ d.rule = c.rule /\ d.step = "emit"
      BY <3>2 DEF DeleteCalls
    <3> HIDE DEF d
    <3>4. c.step = "zrem" => Replace(s, c, {d})
      BY <3>1
    <3>5. c.step # "zrem" => Replace(s, c, {})
      BY <3>1
    <3>6. \A r \in Rules : Telling(c, r) => c.step = "zrem" /\ Telling(d, r)
      BY <3>1, <3>3 DEF Telling, DeleteOf
    <3> QED
      BY <3>1, <3>3, <3>4, <3>5, <3>6
  <2>2. CASE StatusHset(s, c)
    <3> DEFINE d == [c EXCEPT !.step = "del"]
    <3>1. Replace(s, c, {d}) /\ c.op = "status"
      BY <2>2 DEF StatusHset
    <3>2. c \in StatusCalls
      BY <3>1, CallTypes DEF TypeInv
    <3>3. d.op = "status"
      BY <3>2 DEF StatusCalls
    <3> HIDE DEF d
    <3> QED
      BY <3>1, <3>3 DEF Telling, DeleteOf
  <2>3. CASE StatusDel(s, c)
    BY <2>3 DEF StatusDel, Telling, DeleteOf
  <2> QED
    BY <2>1, <2>2, <2>3
<1>4. \A r \in Rules : /\ Stored(r)' => Stored(r)
                       /\ Stored(r) => Stored(r)' \/ r \in log'.erased
  <2>1. CASE UNCHANGED hash
    BY <2>1 DEF Stored
  <2>2. CASE StatusHset(s, c)
    BY <2>2, RegistryAssumption DEF StatusHset, Stored, TypeInv
  <2>3. CASE StatusDel(s, c)
    <3>1. c.rule \in log'.erased
      BY <1>2, <2>3 DEF StatusDel, LifeInv
    <3>2. /\ \A r \in Rules : r # c.rule => hash'[r] = hash[r]
          /\ c.rule \in Rules => hash'[c.rule] = Absent
      BY <2>3 DEF StatusDel, TypeInv
    <3> QED
      BY <3>1, <3>2, RegistryAssumption DEF Stored
  <2> QED
    BY <2>1, <2>2, <2>3 DEF DeleteIndex
<1>5. \A t \in Servers, r \in Rules : metas'[t][r] # Absent => Holds(t, r)
  BY <1>1 DEF Holds
<1>6. \A r \in Rules : ~Creates(c, r) /\ ~Looks(c, r)
  BY <1>1 DEF Creates, SaveOf, Looks
<1>7. /\ \A e \in next : e.op # "save"
      /\ \A e \in next, r \in Rules : ~Finds(e, r)
  BY <1>3 DEF Finds
<1> QED
  BY <1>1, <1>2, <1>3, <1>4, <1>5, <1>6, <1>7, CallTells

\* A call begins.  A rule that is new is created by it, and one that is deleted from now
\* on is deleted by it.
LEMMA BeginTells ==
  ASSUME TypeInv, NEW s \in Servers, NEW d, Begin(s, d), UNCHANGED <<hash, inbox>>, Grows,
         \A t \in Servers, r \in Rules : metas'[t][r] # Absent <=> metas[t][r] # Absent,
         d.op = "save" => d.rule \in log'.created
                          /\ (d.rule \in log'.deleted => d.rule \in log'.crossed),
         \A r \in Rules : ~Finds(d, r),
         \A r \in log'.deleted \ (log.deleted \cup log'.crossed) :
           ~Saving(r) /\ DeleteOf(d, r) /\ d.step = "del",
         \A r \in log'.created \ log.created : Creates(d, r) /\ d.event = "none"
  PROVE  Tells
<1>1. /\ \A t \in Servers : \A e \in calls'[t] : e \in calls[t] \/ (t = s /\ e = d)
      /\ \A t \in Servers : calls[t] \subseteq calls'[t]
      /\ d \in calls'[s]
  BY Begins
<1>2. \A t \in Servers, e \in Events : Told(t, e)' <=> Told(t, e)
  BY DEF Told
<1>3. \A r \in Rules : Deleted(r) \in Events /\ Added(r) \in Events
  BY DEF Deleted, Added, Events
<1>4. \A r \in Rules : Stored(r)' <=> Stored(r)
  BY DEF Stored
<1>5. ASSUME NEW r \in Rules
      PROVE  KeyStep(r)
  <2>1. Saving(r)' => Saving(r) \/ (d.op = "save" /\ d.rule = r)
    BY <1>1 DEF Saving
  <2>2. Deleting(r) => Deleting(r)'
    BY <1>1 DEF Deleting
  <2>3. DeleteOf(d, r) /\ d.step = "del" => Deleting(r)'
    BY <1>1 DEF Deleting
  <2>4. DeleteOf(d, r) => d.op # "save"
    BY DEF DeleteOf
  <2>5. r \in log'.deleted =>
          \/ r \in log.deleted \/ r \in log'.crossed
          \/ Deleting(r)' /\ ~Saving(r) /\ ~Saving(r)'
    BY <2>1, <2>3, <2>4
  <2> QED
    BY <1>4, <2>1, <2>2, <2>5 DEF KeyStep
<1>6. ASSUME NEW r \in Rules, NEW t \in Servers
      PROVE  HearStep(t, r) /\ KnowStep(t, r)
  <2>1. Finding(t, r)' => Finding(t, r)
    BY <1>1 DEF Finding, Finds
  <2>2. Holds(t, r)' => Holds(t, r)
    BY <2>1 DEF Holds
  <2>3. Going(t, r) => Going(t, r)'
    BY <1>1, <1>2, <1>3 DEF Going
  <2>4. Coming(t, r) => Coming(t, r)'
    BY <1>1, <1>2, <1>3 DEF Coming
  <2>5. r \in log'.created \ log.created => Coming(t, r)'
    BY <1>1 DEF Coming
  <2> QED
    BY <1>2, <1>3, <1>4, <2>2, <2>3, <2>4, <2>5 DEF HearStep, KnowStep
<1> QED
  BY <1>5, <1>6 DEF Tells

\* The calls of the clients.
LEMMA ClientTells ==
  ASSUME TypeInv, LifeInv, KnownInv, NEW s \in Servers, NEW rule \in Rules,
         \/ \E m \in Metrics : Create(s, rule, m) \/ Update(s, rule, m)
         \/ GetRule(s, rule) \/ Delete(s, rule) \/ SetRuleStatus(s, rule)
  PROVE  Tells
<1>1. ASSUME NEW m \in Metrics, Create(s, rule, m)
      PROVE  Tells
  <2> DEFINE d == [Save(rule, m, TRUE) EXCEPT !.step = "hmset"]
  <2>1. /\ Begin(s, d) /\ rule \notin log.created
        /\ UNCHANGED <<hash, inbox, metas>>
        /\ log' = [log EXCEPT !.created = log.created \cup {rule}]
    BY <1>1 DEF Create, TypeInv, Logs
  <2>2. /\ d.op = "save" /\ d.rule = rule /\ d.new /\ ~d.existed
        /\ d.step = "hmset" /\ d.event = "none"
    BY DEF Save
  <2> HIDE DEF d
  <2>3. /\ log'.created = log.created \cup {rule}
        /\ UNCHANGED <<log.deleted, log.crossed, log.raced, log.unread, log.refused, log.unheard,
                       log.erased>>
    BY <2>1 DEF TypeInv, Logs
  <2>4. Grows
    BY <2>3 DEF Grows
  <2>5. rule \notin log'.deleted
    BY <2>1, <2>3 DEF LifeInv
  <2>6. /\ \A r \in Rules : ~Finds(d, r)
        /\ Creates(d, rule)
    BY <2>2 DEF Finds, Creates, SaveOf
  <2>7. \A r \in log'.created \ log.created : Creates(d, r) /\ d.event = "none"
    BY <2>2, <2>3, <2>6
  <2> QED
    BY <2>1, <2>2, <2>3, <2>4, <2>5, <2>6, <2>7, BeginTells
<1>2. ASSUME NEW m \in Metrics, Update(s, rule, m)
      PROVE  Tells
  <2> DEFINE d == Save(rule, m, FALSE)
             moved == IF m = metas[s][rule] THEN log.moved ELSE log.moved \cup {<<s, rule>>}
             crossed == IF rule \in log.deleted THEN log.crossed \cup {rule} ELSE log.crossed
  <2>1. /\ Begin(s, d) /\ metas[s][rule] # Absent
        /\ UNCHANGED <<hash, inbox>>
        /\ metas' = [metas EXCEPT ![s][rule] = m]
        /\ log' = [log EXCEPT !.calls = log.calls + 1, !.moved = moved, !.crossed = crossed]
    BY <1>2 DEF Update, TypeInv, Logs
  <2>2. d.op = "save" /\ d.rule = rule
    BY DEF Save
  <2>3. log.crossed \subseteq crossed /\ (rule \in log.deleted => rule \in crossed)
    OBVIOUS
  <2> HIDE DEF d, moved, crossed
  <2>4. /\ log'.crossed = crossed
        /\ UNCHANGED <<log.created, log.deleted, log.raced, log.unread, log.refused, log.unheard,
                       log.erased>>
    BY <2>1 DEF TypeInv, Logs
  <2>5. Grows
    BY <2>3, <2>4 DEF Grows
  <2>6. rule \in log.created
    BY <2>1 DEF KnownInv, Holds
  <2>7. \A t \in Servers, r \in Rules : metas'[t][r] # Absent <=> metas[t][r] # Absent
    BY <2>1, RegistryAssumption DEF TypeInv
  <2>8. \A r \in Rules : ~Finds(d, r)
    BY <2>2 DEF Finds
  <2>9. log'.deleted = log.deleted /\ log'.created = log.created
    BY <2>4
  <2> QED
    BY <2>1, <2>2, <2>3, <2>4, <2>5, <2>6, <2>7, <2>8, <2>9, BeginTells
<1>3. CASE GetRule(s, rule)
  <2> DEFINE d == Lookup(rule, FALSE)
  <2>1. Begin(s, d) /\ UNCHANGED <<hash, inbox, metas>> /\ d.op = "lookup" /\ d.step = "hgetall"
    BY <1>3 DEF GetRule, Lookup
  <2> HIDE DEF d
  <2>2. Grows /\ UNCHANGED <<log.created, log.deleted>>
    BY <1>3 DEF GetRule, Grows, TypeInv, Logs
  <2>3. \A r \in Rules : ~Finds(d, r)
    BY <2>1 DEF Finds
  <2> QED
    BY <2>1, <2>2, <2>3, BeginTells
<1>4. CASE Delete(s, rule)
  <2> DEFINE d == [op |-> "delete", rule |-> rule, step |-> "del"]
             crossed == IF Saving(rule) THEN log.crossed \cup {rule} ELSE log.crossed
  <2>1. /\ Begin(s, d) /\ UNCHANGED <<hash, inbox, metas>>
        /\ log' = [log EXCEPT !.calls = log.calls + 1, !.deleted = log.deleted \cup {rule},
                              !.crossed = crossed]
    BY <1>4 DEF Delete, TypeInv, Logs
  <2>2. d.op = "delete" /\ d.step = "del" /\ DeleteOf(d, rule) /\ \A r \in Rules : ~Finds(d, r)
    BY DEF DeleteOf, Finds
  <2>3. log.crossed \subseteq crossed /\ (Saving(rule) => rule \in crossed)
    OBVIOUS
  <2> HIDE DEF d, crossed
  <2>4. /\ log'.crossed = crossed /\ log'.deleted = log.deleted \cup {rule}
        /\ UNCHANGED <<log.created, log.raced, log.unread, log.refused, log.unheard,
                       log.erased>>
    BY <2>1 DEF TypeInv, Logs
  <2>5. Grows
    BY <2>3, <2>4 DEF Grows
  <2>6. \A r \in log'.deleted \ (log.deleted \cup log'.crossed) :
          ~Saving(r) /\ DeleteOf(d, r) /\ d.step = "del"
    BY <2>2, <2>3, <2>4
  <2>7. log'.created = log.created
    BY <2>4
  <2> QED
    BY <2>1, <2>2, <2>5, <2>6, <2>7, BeginTells
<1>5. CASE SetRuleStatus(s, rule)
  <2> DEFINE d == [op |-> "status", rule |-> rule, step |-> "hset"]
  <2>1. Begin(s, d) /\ UNCHANGED <<hash, inbox, metas>> /\ d.op = "status"
    BY <1>5 DEF SetRuleStatus
  <2> HIDE DEF d
  <2>2. Grows /\ UNCHANGED <<log.created, log.deleted>>
    BY <1>5 DEF SetRuleStatus, Grows, TypeInv, Logs
  <2>3. \A r \in Rules : ~Finds(d, r)
    BY <2>1 DEF Finds
  <2> QED
    BY <2>1, <2>2, <2>3, BeginTells
<1> QED
  BY <1>1, <1>2, <1>3, <1>4, <1>5

\* An event reaches every other server that listens, behind what waits there already.
LEMMA EmitTells ==
  ASSUME TypeInv, NEW s \in Servers, NEW type \in {"added", "updated", "deleted"},
         NEW rule \in Rules, Emit(s, type, rule)
  PROVE  /\ \A t \in Servers, e \in Events : Told(t, e) => Told(t, e)'
         /\ \A t \in Servers, e \in Events :
              Told(t, e)' => Told(t, e) \/ e = [type |-> type, rule |-> rule]
         /\ \A t \in Servers : t # s /\ inbox[t] # Absent =>
              Told(t, [type |-> type, rule |-> rule])'
<1> DEFINE new == [type |-> type, rule |-> rule]
<1>1. new \in Events
  BY DEF Events
<1>2. ASSUME NEW t \in Servers, t # s, inbox[t] # Absent
      PROVE  /\ inbox[t] \in Seq(Events) /\ inbox'[t] \in Seq(Events) /\ inbox'[t] # Absent
             /\ Len(inbox'[t]) = Len(inbox[t]) + 1 /\ inbox'[t][Len(inbox[t]) + 1] = new
             /\ \A i \in 1..Len(inbox[t]) : inbox'[t][i] = inbox[t][i]
  <2>1. inbox[t] \in Seq(Events) /\ inbox'[t] = Append(inbox[t], new)
    BY <1>2 DEF Emit, TypeInv
  <2> HIDE DEF new
  <2>2. inbox'[t] \in Seq(Events)
    BY <1>1, <2>1
  <2>3. inbox'[t] # Absent
    BY <2>2, RegistryAssumption DEF Events
  <2> QED
    BY <1>1, <2>1, <2>2, <2>3
<1>3. \A t \in Servers : t = s \/ inbox[t] = Absent => inbox'[t] = inbox[t]
  BY DEF Emit
<1> HIDE DEF new
<1>4. ASSUME NEW t \in Servers, NEW e \in Events, Told(t, e)
      PROVE  Told(t, e)'
  <2>1. CASE t # s /\ inbox[t] # Absent
    <3>1. PICK i \in 1..Len(inbox[t]) : inbox[t][i] = e
      BY <1>4 DEF Told
    <3>2. i \in 1..Len(inbox'[t]) /\ inbox'[t][i] = e /\ inbox'[t] # Absent
      BY <1>2, <2>1, <3>1
    <3> QED
      BY <3>2 DEF Told
  <2> QED
    BY <1>3, <1>4, <2>1 DEF Told
<1>5. ASSUME NEW t \in Servers, NEW e \in Events, Told(t, e)'
      PROVE  Told(t, e) \/ e = new
  <2>1. CASE t # s /\ inbox[t] # Absent
    <3>1. PICK i \in 1..Len(inbox'[t]) : inbox'[t][i] = e
      BY <1>5 DEF Told
    <3>2. i \in 1..Len(inbox[t]) \/ i = Len(inbox[t]) + 1
      BY <1>2, <2>1, <3>1
    <3>3. i \in 1..Len(inbox[t]) => inbox[t][i] = e
      BY <1>2, <2>1, <3>1
    <3> QED
      BY <1>2, <2>1, <3>1, <3>2, <3>3 DEF Told
  <2> QED
    BY <1>3, <1>5, <2>1 DEF Told
<1>6. ASSUME NEW t \in Servers, t # s, inbox[t] # Absent
      PROVE  Told(t, new)'
  <2>1. Len(inbox[t]) + 1 \in 1..Len(inbox'[t])
    BY <1>2, <1>6
  <2> QED
    BY <1>2, <1>6, <2>1 DEF Told
<1> QED
  BY <1>4, <1>5, <1>6 DEF new

\* Whoever listens is told of a rule that is saved for the first time.
LEMMA SaveEmitTells ==
  ASSUME TypeInv, NEW s \in Servers, NEW c \in calls[s], SaveEmit(s, c)
  PROVE  Tells
<1> DEFINE d == [c EXCEPT !.event = "sent"]
           type == IF c.existed THEN "updated" ELSE "added"
           unheard == IF Deaf(s) THEN log.unheard \cup {c.rule} ELSE log.unheard
<1>1. /\ Replace(s, c, {d}) /\ Emit(s, type, c.rule)
      /\ UNCHANGED <<hash, metas>> /\ c.op = "save" /\ c.event = "none"
      /\ log' = [log EXCEPT !.unheard = unheard]
  BY DEF SaveEmit, TypeInv, Logs
<1>2. c \in SaveCalls
  BY <1>1, CallTypes DEF TypeInv
<1>3. /\ c.rule \in Rules /\ c.existed \in BOOLEAN
      /\ d.op = "save" /\ d.rule = c.rule /\ d.step = c.step
      /\ d.new = c.new /\ d.existed = c.existed
  BY <1>2 DEF SaveCalls
<1>4. /\ type \in {"added", "updated", "deleted"} /\ type # "deleted"
      /\ ~c.existed => type = "added"
      /\ log.unheard \subseteq unheard /\ (Deaf(s) => c.rule \in unheard)
  OBVIOUS
<1> HIDE DEF d, type, unheard
<1>5. /\ log'.unheard = unheard
      /\ UNCHANGED <<log.created, log.deleted, log.crossed, log.raced, log.unread, log.refused,
                     log.erased>>
  BY <1>1 DEF TypeInv, Logs
<1>6. Grows
  BY <1>4, <1>5 DEF Grows
<1>7. /\ \A t \in Servers : \A e \in calls'[t] : e \in calls[t] \/ (t = s /\ e = d)
      /\ \A t \in Servers : \A e \in calls[t] : e \in calls'[t] \/ (t = s /\ e = c)
      /\ d \in calls'[s]
  BY <1>1, Goes
<1>8. /\ \A t \in Servers, e \in Events : Told(t, e) => Told(t, e)'
      /\ \A t \in Servers, e \in Events :
           Told(t, e)' => Told(t, e) \/ e = [type |-> type, rule |-> c.rule]
      /\ \A t \in Servers : t # s /\ inbox[t] # Absent =>
           Told(t, [type |-> type, rule |-> c.rule])'
  BY <1>1, <1>3, <1>4, EmitTells
<1>9. \A r \in Rules : /\ Deleted(r) \in Events /\ Added(r) \in Events
                       /\ Deleted(r) # [type |-> type, rule |-> c.rule]
  BY <1>4 DEF Deleted, Added, Events
<1>10. \A r \in Rules : Stored(r)' <=> Stored(r)
  BY <1>1 DEF Stored
<1>11. ASSUME NEW r \in Rules
       PROVE  KeyStep(r)
  <2>1. Saving(r)' => Saving(r)
    BY <1>1, <1>3, <1>7 DEF Saving
  <2>2. Deleting(r) => Deleting(r)'
    BY <1>1, <1>7 DEF Deleting, DeleteOf
  <2> QED
    BY <1>5, <1>10, <2>1, <2>2 DEF KeyStep
<1>12. ASSUME NEW r \in Rules, NEW t \in Servers
       PROVE  HearStep(t, r)
  <2>1. Holds(t, r)' => Holds(t, r)
    BY <1>1, <1>3, <1>7 DEF Holds, Finding
  <2>2. Going(t, r) => Going(t, r)'
    BY <1>1, <1>7, <1>8, <1>9 DEF Going, Telling, DeleteOf
  <2> QED
    BY <1>8, <1>9, <1>10, <2>1, <2>2 DEF HearStep
<1>13. ASSUME NEW r \in Rules, NEW t \in Servers
       PROVE  KnowStep(t, r)
  <2>1. ASSUME NEW u \in Servers, NEW e \in calls[u], Creates(e, r), u = t \/ e.event = "none",
               r \notin log'.unheard
        PROVE  Coming(t, r)'
    <3>1. CASE e \in calls'[u]
      BY <2>1, <3>1 DEF Coming
    <3>2. CASE u = s /\ e = c
      <4>1. r = c.rule /\ ~c.existed /\ Creates(d, r)
        BY <1>3, <2>1, <3>2 DEF Creates, SaveOf
      <4>2. CASE t = s
        BY <1>7, <4>1, <4>2 DEF Coming
      <4>3. CASE t # s
        <5>1. inbox[t] # Absent
          BY <1>4, <1>5, <2>1, <4>1, <4>3 DEF Deaf
        <5>2. Told(t, Added(r))'
          BY <1>4, <1>8, <4>1, <4>3, <5>1 DEF Added
        <5> QED
          BY <5>2 DEF Coming
      <4> QED
        BY <4>2, <4>3
    <3> QED
      BY <1>7, <3>1, <3>2
  <2>2. ASSUME NEW e \in calls[t], Looks(e, r)
        PROVE  Coming(t, r)'
    <3>1. e # c
      BY <1>1, <2>2 DEF Looks
    <3> QED
      BY <1>7, <2>2, <3>1 DEF Coming
  <2>3. Told(t, Added(r)) => Coming(t, r)'
    BY <1>8, <1>9 DEF Coming
  <2> QED
    BY <1>1, <1>5, <2>1, <2>2, <2>3 DEF KnowStep, Coming
<1> QED
  BY <1>6, <1>11, <1>12, <1>13 DEF Tells

\* The keys of a rule are deleted: if it had a hash, every server will hear of that.
LEMMA DeleteHashTells ==
  ASSUME TypeInv, LifeInv, NEW s \in Servers, NEW c \in calls[s], DeleteHash(s, c)
  PROVE  Tells
<1> DEFINE d == [c EXCEPT !.step = IF ~HasKeys(c.rule) THEN "zrem-only" ELSE "zrem"]
<1>1. /\ Replace(s, c, {d}) /\ UNCHANGED <<inbox, metas, log>>
      /\ c.op = "delete" /\ c.step = "del"
      /\ hash' = [hash EXCEPT ![c.rule] = Absent]
  BY DEF DeleteHash
<1>2. c \in DeleteCalls /\ c.rule \in log.deleted
  BY <1>1, CallTypes DEF TypeInv, LifeInv
<1>3. /\ c.rule \in Rules /\ d.op = "delete" /\ d.rule = c.rule
      /\ d.step \in {"zrem", "zrem-only"} /\ (HasKeys(c.rule) => d.step = "zrem")
  BY <1>2 DEF DeleteCalls
<1> HIDE DEF d
<1>4. Grows
  BY <1>1, LogStays
<1>5. /\ \A t \in Servers : \A e \in calls'[t] : e \in calls[t] \/ (t = s /\ e = d)
      /\ \A t \in Servers : \A e \in calls[t] : e \in calls'[t] \/ (t = s /\ e = c)
      /\ d \in calls'[s]
  BY <1>1, Goes
<1>6. \A t \in Servers, e \in Events : Told(t, e)' <=> Told(t, e)
  BY <1>1 DEF Told
<1>7. \A r \in Rules : Deleted(r) \in Events /\ Added(r) \in Events
  BY DEF Deleted, Added, Events
<1>8. /\ ~Stored(c.rule)' /\ (Stored(c.rule) => Telling(d, c.rule))
      /\ \A r \in Rules : r # c.rule => (Stored(r)' <=> Stored(r))
  BY <1>1, <1>3, RegistryAssumption DEF Stored, HasKeys, Telling, DeleteOf, TypeInv
<1>9. ASSUME NEW r \in Rules
      PROVE  KeyStep(r)
  <2>1. Saving(r)' => Saving(r)
    BY <1>3, <1>5 DEF Saving
  <2>2. Deleting(r) => Deleting(r)' \/ r = c.rule
    BY <1>5 DEF Deleting, DeleteOf
  <2> QED
    BY <1>1, <1>8, <2>1, <2>2 DEF KeyStep
<1>10. ASSUME NEW r \in Rules, NEW t \in Servers
       PROVE  HearStep(t, r) /\ KnowStep(t, r)
  <2>1. Holds(t, r)' => Holds(t, r)
    BY <1>1, <1>3, <1>5 DEF Holds, Finding
  <2>2. Going(t, r) => Going(t, r)'
    BY <1>1, <1>5, <1>6, <1>7 DEF Going, Telling
  <2>3. Stored(r) => Stored(r)' \/ Going(t, r)'
    BY <1>5, <1>8 DEF Going
  <2>4. Coming(t, r) => Coming(t, r)'
    BY <1>1, <1>5, <1>6, <1>7 DEF Coming, Creates, SaveOf, Looks
  <2> QED
    BY <1>1, <1>6, <1>7, <2>1, <2>2, <2>3, <2>4 DEF HearStep, KnowStep
<1> QED
  BY <1>4, <1>9, <1>10 DEF Tells

\* Whoever listens is told of the deletion, and the server itself follows.
LEMMA DeleteEmitTells ==
  ASSUME TypeInv, LifeInv, NEW s \in Servers, NEW c \in calls[s], DeleteEmit(s, c)
  PROVE  Tells
<1> DEFINE d == [c EXCEPT !.step = "emitted"]
           unheard == IF Deaf(s) THEN log.unheard \cup {c.rule} ELSE log.unheard
<1>1. /\ Replace(s, c, {d}) /\ Emit(s, "deleted", c.rule)
      /\ UNCHANGED <<hash, metas>> /\ c.op = "delete" /\ c.step = "emit"
      /\ log' = [log EXCEPT !.unheard = unheard]
  BY DEF DeleteEmit, TypeInv, Logs
<1>2. c \in DeleteCalls /\ c.rule \in log.deleted
  BY <1>1, CallTypes DEF TypeInv, LifeInv
<1>3. c.rule \in Rules /\ d.op = "delete" /\ d.rule = c.rule /\ d.step = "emitted"
  BY <1>2 DEF DeleteCalls
<1>4. log.unheard \subseteq unheard /\ (Deaf(s) => c.rule \in unheard)
  OBVIOUS
<1> HIDE DEF d, unheard
<1>5. /\ log'.unheard = unheard
      /\ UNCHANGED <<log.created, log.deleted, log.crossed, log.raced, log.unread, log.refused,
                     log.erased>>
  BY <1>1 DEF TypeInv, Logs
<1>6. Grows
  BY <1>4, <1>5 DEF Grows
<1>7. /\ \A t \in Servers : \A e \in calls'[t] : e \in calls[t] \/ (t = s /\ e = d)
      /\ \A t \in Servers : \A e \in calls[t] : e \in calls'[t] \/ (t = s /\ e = c)
      /\ d \in calls'[s]
  BY <1>1, Goes
<1>8. /\ \A t \in Servers, e \in Events : Told(t, e) => Told(t, e)'
      /\ \A t \in Servers, e \in Events : Told(t, e)' => Told(t, e) \/ e = Deleted(c.rule)
      /\ \A t \in Servers : t # s /\ inbox[t] # Absent => Told(t, Deleted(c.rule))'
  BY <1>1, <1>3, EmitTells DEF Deleted
<1>9. \A r \in Rules : /\ Deleted(r) \in Events /\ Added(r) \in Events
                       /\ Deleted(r) = Deleted(c.rule) => r = c.rule
  BY DEF Deleted, Added, Events
<1>10. \A r \in Rules : Stored(r)' <=> Stored(r)
  BY <1>1 DEF Stored
<1>11. ASSUME NEW r \in Rules
       PROVE  KeyStep(r)
  <2>1. Saving(r)' => Saving(r)
    BY <1>3, <1>7 DEF Saving
  <2>2. Deleting(r) => Deleting(r)'
    BY <1>1, <1>7 DEF Deleting
  <2> QED
    BY <1>5, <1>10, <2>1, <2>2 DEF KeyStep
<1>12. ASSUME NEW r \in Rules, NEW t \in Servers
       PROVE  HearStep(t, r)
  <2>1. Holds(t, r)' => Holds(t, r)
    BY <1>1, <1>3, <1>7 DEF Holds, Finding
  <2>2. Going(t, r) => Going(t, r)' \/ r \in log'.unheard
    <3>1. ASSUME NEW u \in Servers, NEW e \in calls[u], Telling(e, r)
          PROVE  Going(t, r)' \/ r \in log'.unheard
      <4>1. CASE e \in calls'[u]
        BY <3>1, <4>1 DEF Going
      <4>2. CASE u = s /\ e = c
        <5>1. r = c.rule
          BY <3>1, <4>2 DEF Telling, DeleteOf
        <5>2. CASE t = s
          BY <1>3, <1>7, <5>1, <5>2 DEF Going, DeleteOf
        <5>3. CASE t # s
          <6>1. inbox[t] # Absent \/ r \in log'.unheard
            BY <1>4, <1>5, <5>1, <5>3 DEF Deaf
          <6> QED
            BY <1>8, <5>1, <5>3, <6>1 DEF Going
        <5> QED
          BY <5>2, <5>3
      <4> QED
        BY <1>7, <4>1, <4>2
    <3>2. ASSUME NEW e \in calls[t], DeleteOf(e, r), e.step \in {"emitted", "remove"}
          PROVE  Going(t, r)'
      <4>1. e \in calls'[t]
        BY <1>1, <1>7, <3>2
      <4> QED
        BY <3>2, <4>1 DEF Going
    <3>3. Told(t, Deleted(r)) => Going(t, r)'
      BY <1>8, <1>9 DEF Going
    <3> QED
      BY <3>1, <3>2, <3>3 DEF Going
  <2>3. Told(t, Deleted(r))' => Told(t, Deleted(r)) \/ r \in log'.deleted
    BY <1>2, <1>5, <1>8, <1>9
  <2> QED
    BY <1>10, <2>1, <2>2, <2>3 DEF HearStep
<1>13. ASSUME NEW r \in Rules, NEW t \in Servers
       PROVE  KnowStep(t, r)
  <2>1. Coming(t, r) => Coming(t, r)'
    BY <1>1, <1>7, <1>8, <1>9 DEF Coming, Creates, SaveOf, Looks
  <2> QED
    BY <1>1, <1>5, <2>1 DEF KnowStep
<1> QED
  BY <1>6, <1>11, <1>12, <1>13 DEF Tells

\* A server that hears of a deletion holds the rule no more, unless it has just found it.
LEMMA ForgetHolds ==
  ASSUME TypeInv, NEW s \in Servers, NEW rule \in Rules, Forget(s, rule)
  PROVE  /\ metas'[s][rule] = Absent
         /\ \A t \in Servers, r \in Rules : t # s \/ r # rule => metas'[t][r] = metas[t][r]
         /\ Finding(s, rule) => rule \in log'.raced
         /\ Grows /\ UNCHANGED <<log.created, log.deleted>>
<1> DEFINE raced == IF Finding(s, rule) THEN log.raced \cup {rule} ELSE log.raced
<1>1. log' = [log EXCEPT !.raced = raced] /\ metas' = [metas EXCEPT ![s][rule] = Absent]
  BY DEF Forget, Remove, TypeInv, Logs
<1>2. log.raced \subseteq raced /\ (Finding(s, rule) => rule \in raced)
  OBVIOUS
<1> HIDE DEF raced
<1>3. /\ log'.raced = raced
      /\ UNCHANGED <<log.created, log.deleted, log.crossed, log.unread, log.refused, log.unheard,
                     log.erased>>
  BY <1>1 DEF TypeInv, Logs
<1>4. Grows
  BY <1>2, <1>3 DEF Grows
<1> QED
  BY <1>1, <1>2, <1>3, <1>4 DEF TypeInv

\* The server's own handler of a deletion, and deleteRule() after it.
LEMMA DeleteEventTells ==
  ASSUME TypeInv, LifeInv, NEW s \in Servers, NEW c \in calls[s],
         DeleteHears(s, c) \/ DeleteDone(s, c)
  PROVE  Tells
<1>1. /\ UNCHANGED <<hash, inbox>> /\ Forget(s, c.rule)
      /\ c.op = "delete" /\ c.step \in {"emitted", "remove"}
  BY DEF DeleteHears, DeleteDone
<1>2. c \in DeleteCalls /\ c.rule \in log.deleted
  BY <1>1, CallTypes DEF TypeInv, LifeInv
<1>3. c.rule \in Rules
  BY <1>2 DEF DeleteCalls
<1>4. PICK next : Replace(s, c, next) /\ \A e \in next : e.op = "delete" /\ e.step = "remove"
  <2>1. CASE DeleteHears(s, c)
    <3> DEFINE d == [c EXCEPT !.step = "remove"]
    <3>1. Replace(s, c, {d})
      BY <2>1 DEF DeleteHears
    <3>2. d.op = "delete" /\ d.step = "remove"
      BY <1>1, <1>2 DEF DeleteCalls
    <3> HIDE DEF d
    <3> QED
      BY <3>1, <3>2
  <2>2. CASE DeleteDone(s, c)
    BY <2>2 DEF DeleteDone
  <2> QED
    BY <2>1, <2>2
<1>5. /\ \A t \in Servers : \A e \in calls'[t] : e \in calls[t] \/ (t = s /\ e \in next)
      /\ \A t \in Servers : \A e \in calls[t] : e \in calls'[t] \/ (t = s /\ e = c)
  BY <1>4, Goes
<1>6. \A t \in Servers, e \in Events : Told(t, e)' <=> Told(t, e)
  BY <1>1 DEF Told
<1>7. \A r \in Rules : Deleted(r) \in Events /\ Added(r) \in Events
  BY DEF Deleted, Added, Events
<1>8. \A r \in Rules : Stored(r)' <=> Stored(r)
  BY <1>1 DEF Stored
<1>9. /\ metas'[s][c.rule] = Absent
      /\ \A t \in Servers, r \in Rules : t # s \/ r # c.rule => metas'[t][r] = metas[t][r]
      /\ Finding(s, c.rule) => c.rule \in log'.raced
      /\ Grows /\ UNCHANGED <<log.created, log.deleted>>
  BY <1>1, <1>3, ForgetHolds
<1>10. ASSUME NEW r \in Rules
       PROVE  KeyStep(r)
  <2>1. Saving(r)' => Saving(r)
    BY <1>4, <1>5 DEF Saving
  <2>2. Deleting(r) => Deleting(r)'
    BY <1>1, <1>5 DEF Deleting
  <2> QED
    BY <1>8, <1>9, <2>1, <2>2 DEF KeyStep
<1>11. ASSUME NEW r \in Rules, NEW t \in Servers
       PROVE  HearStep(t, r)
  <2>1. Finding(t, r)' => Finding(t, r)
    BY <1>4, <1>5 DEF Finding
  <2>2. Holds(t, r)' => Holds(t, r)
    BY <1>9, <2>1 DEF Holds
  <2>3. Going(t, r) => Going(t, r)' \/ (t = s /\ r = c.rule)
    BY <1>1, <1>5, <1>6, <1>7 DEF Going, Telling, DeleteOf
  <2>4. t = s /\ r = c.rule /\ Holds(t, r)' => r \in log'.raced
    BY <1>9, <2>1 DEF Holds
  <2> QED
    BY <1>6, <1>7, <1>8, <2>2, <2>3, <2>4 DEF HearStep
<1>12. ASSUME NEW r \in Rules, NEW t \in Servers
       PROVE  KnowStep(t, r)
  <2>1. Coming(t, r) => Coming(t, r)'
    BY <1>1, <1>5, <1>6, <1>7 DEF Coming, Creates, SaveOf, Looks
  <2>2. metas[t][r] # Absent => metas'[t][r] # Absent \/ r \in log'.deleted
    BY <1>2, <1>9
  <2> QED
    BY <1>9, <2>1, <2>2 DEF KnowStep
<1> QED
  BY <1>9, <1>10, <1>11, <1>12 DEF Tells

\* What waits behind the first event goes on waiting.
LEMMA Taken ==
  ASSUME TypeInv, NEW s \in Servers, inbox[s] \notin {Absent, <<>>},
         inbox' = [inbox EXCEPT ![s] = Tail(inbox[s])]
  PROVE  /\ Head(inbox[s]) \in Events
         /\ \A t \in Servers, e \in Events :
              Told(t, e) => Told(t, e)' \/ (t = s /\ e = Head(inbox[s]))
         /\ \A t \in Servers, e \in Events : Told(t, e)' => Told(t, e)
         /\ Told(s, Head(inbox[s]))
<1>1. inbox[s] \in Seq(Events) /\ inbox[s] # <<>> /\ inbox[s] # Absent
  BY DEF TypeInv
<1>2. /\ inbox'[s] = Tail(inbox[s])
      /\ \A t \in Servers : t # s => inbox'[t] = inbox[t]
  BY DEF TypeInv
<1>3. inbox'[s] \in Seq(Events) /\ Len(inbox[s]) \in Nat /\ Len(inbox[s]) >= 1
  BY <1>1, <1>2
<1>4. inbox'[s] # Absent
  BY <1>3, RegistryAssumption DEF Events
<1>5. /\ Len(inbox'[s]) = Len(inbox[s]) - 1
      /\ \A i \in 1..Len(inbox'[s]) : inbox'[s][i] = inbox[s][i + 1]
  <2>1. ASSUME NEW q \in Seq(Events), q # <<>>
        PROVE  Len(Tail(q)) = Len(q) - 1 /\ \A i \in 1..Len(Tail(q)) : Tail(q)[i] = q[i + 1]
    BY <2>1
  <2> QED
    BY <1>1, <1>2, <2>1
<1>6. Head(inbox[s]) = inbox[s][1] /\ Head(inbox[s]) \in Events
  BY <1>1
<1>7. ASSUME NEW e \in Events, Told(s, e)
      PROVE  Told(s, e)' \/ e = Head(inbox[s])
  <2>1. PICK i \in 1..Len(inbox[s]) : inbox[s][i] = e
    BY <1>7 DEF Told
  <2>2. CASE i # 1
    <3>1. i - 1 \in 1..Len(inbox'[s]) /\ (i - 1) + 1 = i
      BY <1>3, <1>5, <2>2
    <3>2. inbox'[s][i - 1] = e
      BY <1>5, <2>1, <3>1
    <3> QED
      BY <1>4, <3>1, <3>2 DEF Told
  <2> QED
    BY <1>6, <2>1, <2>2
<1>8. ASSUME NEW e \in Events, Told(s, e)'
      PROVE  Told(s, e)
  <2>1. PICK i \in 1..Len(inbox'[s]) : inbox'[s][i] = e
    BY <1>8 DEF Told
  <2>2. i + 1 \in 1..Len(inbox[s])
    BY <1>3, <1>5
  <2>3. inbox[s][i + 1] = e
    BY <1>5, <2>1
  <2> QED
    BY <1>1, <2>2, <2>3 DEF Told
<1>9. Told(s, Head(inbox[s]))
  BY <1>1, <1>3, <1>6 DEF Told
<1>10. \A t \in Servers, e \in Events : t # s => (Told(t, e)' <=> Told(t, e))
  BY <1>2 DEF Told
<1> QED
  BY <1>6, <1>7, <1>8, <1>9, <1>10

\* The event of another server: a deletion is followed, and a creation looked up.
LEMMA DeliverTells ==
  ASSUME TypeInv, LifeInv, KnownInv, NEW s \in Servers, Deliver(s)
  PROVE  Tells
<1> DEFINE e == Head(inbox[s])
           l == Lookup(e.rule, FALSE)
<1>1. /\ inbox[s] \notin {Absent, <<>>} /\ inbox' = [inbox EXCEPT ![s] = Tail(inbox[s])]
      /\ UNCHANGED hash /\ Hears(s, e)
  BY DEF Deliver
<1>2. /\ e \in Events
      /\ \A t \in Servers, f \in Events : Told(t, f) => Told(t, f)' \/ (t = s /\ f = e)
      /\ \A t \in Servers, f \in Events : Told(t, f)' => Told(t, f)
      /\ Told(s, e)
  BY <1>1, Taken
<1>3. e.rule \in Rules /\ e = [type |-> e.type, rule |-> e.rule]
  BY <1>2 DEF Events
<1>4. l.op = "lookup" /\ l.rule = e.rule /\ l.step = "hgetall"
  BY DEF Lookup
<1> HIDE DEF e, l
<1>5. /\ \A t \in Servers : \A d \in calls'[t] : d \in calls[t] \/ (t = s /\ d = l)
      /\ \A t \in Servers : calls[t] \subseteq calls'[t]
      /\ e.type = "added" => metas[s][e.rule] # Absent \/ l \in calls'[s]
  <2>1. CASE e.type = "added" /\ metas[s][e.rule] = Absent
    <3>1. Begin(s, l)
      BY <1>1, <2>1 DEF Hears, l
    <3> QED
      BY <3>1, Begins
  <2>2. CASE ~(e.type = "added" /\ metas[s][e.rule] = Absent)
    BY <1>1, <2>2 DEF Hears
  <2> QED
    BY <2>1, <2>2
<1>6. /\ e.type = "deleted" => metas'[s][e.rule] = Absent
      /\ \A t \in Servers, r \in Rules :
           t # s \/ r # e.rule \/ e.type # "deleted" => metas'[t][r] = metas[t][r]
      /\ e.type = "deleted" /\ Finding(s, e.rule) => e.rule \in log'.raced
      /\ Grows /\ UNCHANGED <<log.created, log.deleted>>
  <2>1. CASE e.type = "deleted"
    <3>1. Forget(s, e.rule)
      BY <1>1, <2>1 DEF Hears
    <3> QED
      BY <1>3, <2>1, <3>1, ForgetHolds
  <2>2. CASE e.type # "deleted"
    <3>1. UNCHANGED <<metas, log>>
      BY <1>1, <2>2 DEF Hears
    <3> QED
      BY <2>2, <3>1, LogStays
  <2> QED
    BY <2>1, <2>2
<1>7. e.type = "deleted" => e.rule \in log.deleted
  BY <1>2, <1>3 DEF KnownInv, Deleted
<1>8. \A r \in Rules : /\ Deleted(r) \in Events /\ Added(r) \in Events
                       /\ Deleted(r) = e => r = e.rule /\ e.type = "deleted"
                       /\ Added(r) = e => r = e.rule /\ e.type = "added"
  BY DEF Deleted, Added, Events
<1>9. \A r \in Rules : Stored(r)' <=> Stored(r)
  BY <1>1 DEF Stored
<1>10. ASSUME NEW r \in Rules
       PROVE  KeyStep(r)
  <2>1. Saving(r)' => Saving(r)
    BY <1>4, <1>5 DEF Saving
  <2>2. Deleting(r) => Deleting(r)'
    BY <1>5 DEF Deleting
  <2> QED
    BY <1>6, <1>9, <2>1, <2>2 DEF KeyStep
<1>11. ASSUME NEW r \in Rules, NEW t \in Servers
       PROVE  HearStep(t, r)
  <2>1. Finding(t, r)' => Finding(t, r)
    BY <1>4, <1>5 DEF Finding
  <2>2. Holds(t, r)' => Holds(t, r)
    BY <1>3, <1>6, <2>1 DEF Holds
  <2>3. Going(t, r) => Going(t, r)' \/ (t = s /\ Deleted(r) = e)
    BY <1>2, <1>5, <1>8 DEF Going
  <2>4. t = s /\ Deleted(r) = e /\ Holds(t, r)' => r \in log'.raced
    BY <1>6, <1>8, <2>1 DEF Holds
  <2> QED
    BY <1>2, <1>8, <1>9, <2>2, <2>3, <2>4 DEF HearStep
<1>12. ASSUME NEW r \in Rules, NEW t \in Servers
       PROVE  KnowStep(t, r)
  <2>1. Coming(t, r) => Coming(t, r)' \/ (t = s /\ Added(r) = e)
    BY <1>2, <1>5, <1>8 DEF Coming
  <2>2. t = s /\ Added(r) = e => metas'[t][r] # Absent \/ Coming(t, r)'
    <3>1. l \in calls'[s] /\ r = e.rule => Coming(s, r)'
      BY <1>4 DEF Coming, Looks
    <3>2. e.type = "added" => metas'[s][e.rule] = metas[s][e.rule]
      BY <1>3, <1>6
    <3> QED
      BY <1>5, <1>8, <3>1, <3>2
  <2>3. metas[t][r] # Absent => metas'[t][r] # Absent \/ r \in log'.deleted
    BY <1>6, <1>7
  <2> QED
    BY <1>6, <2>1, <2>2, <2>3 DEF KnowStep
<1> QED
  BY <1>6, <1>10, <1>11, <1>12 DEF Tells

\* The starts of rules and a first read of the stream change nothing of that.
LEMMA QuietTells ==
  ASSUME TypeInv, NEW s \in Servers,
         Listen(s) \/ \E r \in Rules : Start(s, r) \/ Evaluate(s, r)
  PROVE  Tells
<1>1. UNCHANGED <<metas, calls, log>>
  BY DEF Listen, Start, Evaluate
<1>2. Grows
  BY <1>1, LogStays
<1>3. \A t \in Servers, e \in Events : Told(t, e)' <=> Told(t, e)
  <2>1. CASE Listen(s)
    <3>1. inbox[s] = Absent /\ inbox'[s] = <<>> /\ \A t \in Servers : t # s => inbox'[t] = inbox[t]
      BY <2>1 DEF Listen, TypeInv
    <3>2. 1..Len(inbox'[s]) = {}
      BY <3>1
    <3> QED
      BY <3>1, <3>2 DEF Told
  <2>2. CASE UNCHANGED inbox
    BY <2>2 DEF Told
  <2> QED
    BY <2>1, <2>2 DEF Start, Evaluate
<1>4. \A r \in Rules : Stored(r)' <=> Stored(r)
  <2>1. CASE UNCHANGED hash
    BY <2>1 DEF Stored
  <2>2. CASE \E r \in Rules : Starts(r)
    BY <2>2, RegistryAssumption DEF Starts, Stored, TypeInv
  <2> QED
    BY <2>1, <2>2 DEF Listen, Start, Evaluate
<1>5. \A r \in Rules : Deleted(r) \in Events /\ Added(r) \in Events
  BY DEF Deleted, Added, Events
<1>6. ASSUME NEW r \in Rules
      PROVE  KeyStep(r)
  <2>1. (Saving(r)' <=> Saving(r)) /\ (Deleting(r)' <=> Deleting(r))
    BY <1>1 DEF Saving, Deleting
  <2> QED
    BY <1>1, <1>4, <2>1 DEF KeyStep
<1>7. ASSUME NEW r \in Rules, NEW t \in Servers
      PROVE  HearStep(t, r) /\ KnowStep(t, r)
  <2>1. Holds(t, r)' <=> Holds(t, r)
    BY <1>1 DEF Holds, Finding
  <2>2. Going(t, r) => Going(t, r)'
    BY <1>1, <1>3, <1>5 DEF Going
  <2>3. Coming(t, r) => Coming(t, r)'
    BY <1>1, <1>3, <1>5 DEF Coming
  <2> QED
    BY <1>1, <1>3, <1>4, <1>5, <2>1, <2>2, <2>3 DEF HearStep, KnowStep
<1> QED
  BY <1>2, <1>6, <1>7 DEF Tells

\* A server that is started again looks for every rule; what it was to tell is crossed.
LEMMA RestartTells ==
  ASSUME TypeInv, NEW s \in Servers, Restart(s)
  PROVE  Tells
<1> DEFINE d == [op |-> "load", step |-> "sort"]
           moved == {m \in log.moved : m[1] # s}
           crossed == log.crossed \cup {r \in Rules : \E c \in calls[s] :
                                          c.op \in {"save", "delete"} /\ c.rule = r}
<1>1. /\ calls' = [calls EXCEPT ![s] = {d}]
      /\ log' = [log EXCEPT !.calls = log.calls + 1, !.crossed = crossed, !.moved = moved]
      /\ inbox' = [inbox EXCEPT ![s] = Absent]
      /\ UNCHANGED hash
  BY DEF Restart, TypeInv, Logs
<1>2. d.op = "load" /\ d.step = "sort"
  OBVIOUS
<1>3. /\ log.crossed \subseteq crossed
      /\ \A r \in Rules : \A c \in calls[s] :
           c.op \in {"save", "delete"} /\ c.rule = r => r \in crossed
  OBVIOUS
<1> HIDE DEF d, moved, crossed
<1>4. /\ log'.crossed = crossed
      /\ UNCHANGED <<log.created, log.deleted, log.raced, log.unread, log.refused, log.unheard,
                       log.erased>>
  BY <1>1 DEF TypeInv, Logs
<1>5. Grows
  BY <1>3, <1>4 DEF Grows
<1>6. calls'[s] = {d} /\ \A t \in Servers : t # s => calls'[t] = calls[t]
  BY <1>1 DEF TypeInv
<1>7. /\ \A r \in Rules : metas'[s][r] = Absent
      /\ \A t \in Servers : t # s => metas'[t] = metas[t]
  BY DEF Restart, TypeInv
<1>8. /\ \A e \in Events : ~Told(s, e)'
      /\ \A t \in Servers, e \in Events : t # s => (Told(t, e)' <=> Told(t, e))
  BY <1>1 DEF Told, TypeInv
<1>9. \A r \in Rules : Stored(r)' <=> Stored(r)
  BY <1>1 DEF Stored
<1>10. \A r \in Rules : Deleted(r) \in Events /\ Added(r) \in Events
  BY DEF Deleted, Added, Events
<1>11. ASSUME NEW r \in Rules
       PROVE  KeyStep(r)
  <2>1. Saving(r)' => Saving(r)
    BY <1>2, <1>6 DEF Saving
  <2>2. Deleting(r) => Deleting(r)' \/ r \in crossed
    BY <1>3, <1>6 DEF Deleting, DeleteOf
  <2> QED
    BY <1>4, <1>9, <2>1, <2>2 DEF KeyStep
<1>12. ASSUME NEW r \in Rules, NEW t \in Servers
       PROVE  HearStep(t, r) /\ KnowStep(t, r)
  <2>1. CASE t = s
    <3>1. ~Holds(s, r)'
      BY <1>2, <1>6, <1>7 DEF Holds, Finding
    <3>2. Coming(s, r)'
      BY <1>2, <1>6 DEF Coming, Looks
    <3> QED
      BY <1>8, <1>9, <1>10, <2>1, <3>1, <3>2 DEF HearStep, KnowStep
  <2>2. CASE t # s
    <3>1. Holds(t, r)' <=> Holds(t, r)
      BY <1>6, <1>7, <2>2 DEF Holds, Finding
    <3>2. Going(t, r) => Going(t, r)' \/ r \in crossed
      BY <1>3, <1>6, <1>8, <1>10, <2>2 DEF Going, Telling, DeleteOf
    <3>3. Coming(t, r) => Coming(t, r)' \/ r \in crossed
      BY <1>3, <1>6, <1>8, <1>10, <2>2 DEF Coming, Creates, SaveOf
    <3> QED
      BY <1>4, <1>7, <1>8, <1>9, <1>10, <2>2, <3>1, <3>2, <3>3 DEF HearStep, KnowStep
  <2> QED
    BY <2>1, <2>2
<1> QED
  BY <1>5, <1>11, <1>12 DEF Tells

\* Every step of every server is of that kind.
LEMMA AllTell ==
  ASSUME TypeInv, LifeInv, KnownInv, NEW s \in Servers, Call(s) \/ Step(s) \/ Restart(s)
  PROVE  Tells
<1>1. CASE Call(s)
  <2>1. PICK rule \in Rules :
          \/ \E m \in Metrics : Create(s, rule, m) \/ Update(s, rule, m)
          \/ GetRule(s, rule) \/ Delete(s, rule) \/ SetRuleStatus(s, rule)
    BY <1>1 DEF Call
  <2> QED
    BY <2>1, ClientTells
<1>2. CASE Continue(s)
  <2>1. PICK c \in calls[s] :
          \/ SaveExists(s, c) \/ SaveHash(s, c) \/ SaveIndex(s, c) \/ SaveEmit(s, c)
          \/ SaveHears(s, c) \/ SaveDone(s, c)
          \/ LookupReads(s, c) \/ LookupDone(s, c)
          \/ LoadSorts(s, c) \/ LoadReads(s, c) \/ LoadDone(s, c)
          \/ DeleteHash(s, c) \/ DeleteIndex(s, c) \/ DeleteEmit(s, c)
          \/ DeleteHears(s, c) \/ DeleteDone(s, c)
          \/ StatusHset(s, c) \/ StatusDel(s, c)
    BY <1>2 DEF Continue
  <2> QED
    BY <2>1, SaveTells, SaveEmitTells, DoneTells, ReadTells, KeysTell, DeleteHashTells,
       DeleteEmitTells, DeleteEventTells
<1>3. CASE Deliver(s) \/ Listen(s) \/ Restart(s) \/ \E r \in Rules : Start(s, r) \/ Evaluate(s, r)
  BY <1>3, DeliverTells, QuietTells, RestartTells
<1> QED
  BY <1>1, <1>2, <1>3 DEF Step

\* In every reachable state.
LEMMA TellingInvariance == Spec => [](KnownInv /\ ForgetInv)
<1>1. Init => KnownInv /\ ForgetInv
  <2> SUFFICES ASSUME Init PROVE KnownInv /\ ForgetInv
    OBVIOUS
  <2>1. /\ log.deleted = {} /\ log.created = {}
        /\ \A s \in Servers : calls[s] = {} /\ inbox[s] = <<>>
        /\ \A r \in Rules : hash[r] = Absent /\ \A s \in Servers : metas[s][r] = Absent
    BY DEF Init
  <2>2. \A r \in Rules : ~Stored(r) /\ ~Saving(r) /\ \A s \in Servers : ~Holds(s, r)
    BY <2>1, RegistryAssumption DEF Stored, Saving, Holds, Finding
  <2>3. \A s \in Servers, r \in Rules : ~Told(s, Deleted(r))
    <3> SUFFICES ASSUME NEW s \in Servers PROVE 1..Len(inbox[s]) = {}
      BY DEF Told
    <3> QED
      BY <2>1
  <2> QED
    BY <2>1, <2>2, <2>3 DEF KnownInv, ForgetInv
<1>2. /\ TypeInv /\ LifeInv /\ KnownInv /\ ForgetInv /\ TypeInv' /\ [Next]_vars
      => KnownInv' /\ ForgetInv'
  <2> SUFFICES ASSUME TypeInv, LifeInv, KnownInv, ForgetInv, TypeInv', [Next]_vars
               PROVE  KnownInv' /\ ForgetInv'
    OBVIOUS
  <2>1. CASE UNCHANGED vars
    BY <2>1 DEF vars, KnownInv, ForgetInv, Stored, Saving, Holds, Finding, Told, Going,
                Deleting, Coming
  <2>2. CASE Next
    <3>1. Tells
      BY <2>2, AllTell DEF Next
    <3> QED
      BY <3>1, KnownStep, ForgetStep
  <2> QED
    BY <2>1, <2>2
<1> QED
  BY <1>1, <1>2, LifeInvariance, PTL DEF Spec

\* When every call has ended and every event is heard, no server has a rule registered
\* that is deleted, whatever look-ups, deletions of other servers and restarts came
\* between, but for the cases that the history records.
THEOREM DeletedRulesForgotten == Spec => []DeletedForgotten
<1>1. LifeInv /\ ForgetInv => DeletedForgotten
  <2> SUFFICES ASSUME LifeInv, ForgetInv, AtRest, NEW s \in Servers,
                      NEW r \in Rules \ (log.erased \cup log.crossed \cup log.raced
                                           \cup log.unheard),
                      metas[s][r] # Absent
               PROVE  Stored(r)
    BY DEF DeletedForgotten
  <2>1. CASE r \in log.deleted
    <3>1. 1..Len(inbox[s]) = {}
      BY DEF AtRest
    <3>2. ~Going(s, r)
      BY <3>1 DEF AtRest, Going, Told
    <3> QED
      BY <2>1, <3>2 DEF ForgetInv, Holds
  <2>2. CASE r \notin log.deleted
    BY <2>2 DEF LifeInv, Living, Knows
  <2> QED
    BY <2>1, <2>2
<1> QED
  BY <1>1, LifeInvariance, TellingInvariance, PTL

\* When every call has ended and every event is heard, every server has registered every
\* rule that is stored, whichever server created it, but for the cases that the history
\* records.
THEOREM RulesKnownEverywhere == Spec => []KnownEverywhere
<1>1. KnownInv => KnownEverywhere
  <2> SUFFICES ASSUME KnownInv, AtRest, NEW s \in Servers,
                      NEW r \in Rules \ (log.crossed \cup log.unread \cup log.unheard),
                      Stored(r), <<s, r>> \notin log.refused
               PROVE  metas[s][r] # Absent
    BY DEF KnownEverywhere
  <2>1. r \in log.created
    BY DEF KnownInv
  <2>2. r \notin log.deleted
    BY DEF KnownInv, AtRest, Deleting
  <2>3. ~Coming(s, r)
    <3>1. 1..Len(inbox[s]) = {}
      BY DEF AtRest
    <3> QED
      BY <3>1 DEF AtRest, Coming, Told
  <2> QED
    BY <2>1, <2>2, <2>3 DEF KnownInv
<1> QED
  BY <1>1, TellingInvariance, PTL
=============================================================================
