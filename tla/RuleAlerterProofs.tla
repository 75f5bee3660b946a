-------------------------- MODULE RuleAlerterProofs --------------------------
(***************************************************************************)
(* What holds of the alerters of a rule for any number of servers, alert   *)
(* ids and results under way, and for all options: every step of theirs is *)
(* a step of the circuit; no alert is sent twice; a rule that is seen      *)
(* triggered has its alert; an alerter at rest agrees with the circuit; an *)
(* event is notified once, and once more for every trouble at most.        *)
(*                                                                         *)
(* An alert is sent in one place: by the answer to the command that wrote  *)
(* it.  Its id was unused until then, so no other answer names it.  What   *)
(* an alerter believes is right as far as it goes: what it does not know   *)
(* yet is on the way to it, in the order in which Redis did it.  An alert  *)
(* is written from a turn of a server, and there are only as many turns as *)
(* the troubles explain.                                                   *)
(***************************************************************************)
EXTENDS RuleAlerter, RuleCircuitProofs, FiniteSetTheorems

-----------------------------------------------------------------------------
(* The connections.                                                         *)

Wires == [Servers -> Seq(Commands)]

LEMMA CommandType ==
  ASSUME NEW op \in {"check", "alert", "clear", "mark", "start"},
         NEW level \in ErrorLevels, NEW was \in BOOLEAN
  PROVE  Command(op, level, was) \in Commands
BY DEF Command, Commands, CommandsOf

LEMMA SendType ==
  ASSUME wire \in Wires, NEW s \in Servers, NEW w \in Seq(Commands),
         NEW c \in Commands, Send(w, s, c)
  PROVE  /\ wire' \in Wires
         /\ wire'[s] = Append(w, c)
         /\ \A t \in Servers : t # s => wire'[t] = wire[t]
<1>1. Append(w, c) \in Seq(Commands)
  OBVIOUS
<1> QED
  BY <1>1 DEF Send, Wires

LEMMA PopType ==
  ASSUME wire \in Wires, NEW s \in Servers, wire[s] # <<>>
  PROVE  /\ Head(wire[s]) \in Commands /\ Tail(wire[s]) \in Seq(Commands)
         /\ [wire EXCEPT ![s] = Tail(@)] \in Wires
         /\ Head(wire[s]) = wire[s][1] /\ 1 \in DOMAIN wire[s]
<1>1. wire[s] \in Seq(Commands)
  BY DEF Wires
<1>2. Head(wire[s]) \in Commands /\ Tail(wire[s]) \in Seq(Commands)
  BY <1>1
<1> QED
  BY <1>1, <1>2 DEF Wires

\* A reply changes its command, and one that fits keeps the types.
LEMMA ReplyPlaces ==
  ASSUME wire \in Wires, NEW s \in Servers, NEW i \in DOMAIN wire[s], NEW reply,
         Reply(s, i, reply)
  PROVE  /\ DOMAIN wire'[s] = DOMAIN wire[s]
         /\ wire'[s][i] = [wire[s][i] EXCEPT !.reply = reply]
         /\ \A j \in DOMAIN wire[s] : j # i => wire'[s][j] = wire[s][j]
         /\ \A t \in Servers : t # s => wire'[t] = wire[t]
<1> DEFINE c == [wire[s][i] EXCEPT !.reply = reply]
           w == [wire[s] EXCEPT ![i] = c]
<1>1. wire[s] \in Seq(Commands)
  BY DEF Wires
<1>2. wire' = [wire EXCEPT ![s] = w]
  BY DEF Reply
<1> HIDE DEF c
<1>3. /\ DOMAIN w = DOMAIN wire[s] /\ w[i] = c
      /\ \A j \in DOMAIN wire[s] : j # i => w[j] = wire[s][j]
  BY <1>1
<1> HIDE DEF w
<1>4. wire'[s] = w /\ \A t \in Servers : t # s => wire'[t] = wire[t]
  BY <1>2 DEF Wires
<1> QED
  BY <1>3, <1>4 DEF c

LEMMA ReplyType ==
  ASSUME wire \in Wires, NEW s \in Servers, NEW i \in DOMAIN wire[s], NEW reply,
         [wire[s][i] EXCEPT !.reply = reply] \in Commands, Reply(s, i, reply)
  PROVE  wire' \in Wires
<1> DEFINE c == [wire[s][i] EXCEPT !.reply = reply]
           w == [wire[s] EXCEPT ![i] = c]
<1>1. wire[s] \in Seq(Commands)
  BY DEF Wires
<1>2. wire' = [wire EXCEPT ![s] = w]
  BY DEF Reply
<1>3. c \in Commands
  OBVIOUS
<1> HIDE DEF c
<1>4. w \in Seq(Commands)
  BY <1>1, <1>3
<1> HIDE DEF w
<1> QED
  BY <1>2, <1>4 DEF Wires

\* What a command is, by its operation.
LEMMA CommandFields ==
  ASSUME NEW c \in Commands
  PROVE  /\ c.level \in ErrorLevels /\ c.was \in BOOLEAN
         /\ c.op \in {"check", "alert", "clear", "mark", "start"}
         /\ c.op = "check" /\ c.reply.done => c.reply \in CheckReplies
         /\ c.op = "alert" /\ c.reply.done => c.reply \in AlertReplies
BY DEF Commands, CommandsOf, NoReply

LEMMA RepliedCommand ==
  ASSUME NEW c \in Commands, NEW reply,
         \/ c.op = "check" /\ reply \in CheckReplies
         \/ c.op = "alert" /\ reply \in AlertReplies
         \/ c.op \in {"clear", "mark", "start"} /\ reply = [done |-> TRUE]
  PROVE  [c EXCEPT !.reply = reply] \in Commands
BY DEF Commands, CommandsOf

-----------------------------------------------------------------------------
(* Every step of the alerters is one of the circuit.                        *)

\* A check, a start and a query, a mark and a clear, the writing of an alert
\* and the save of another server: what the circuit sees is RuleCircuit's own.
LEMMA CircuitStep == AllTypeOK /\ [AllNext]_allVars => [Next]_vars
<1> SUFFICES ASSUME AllTypeOK, [AllNext]_allVars
             PROVE  [Next]_vars
  OBVIOUS
<1>0. /\ wire \in Wires /\ db.rule.state \in RuleStates
      /\ db.rule.isActive \in BOOLEAN /\ opts \in Options
  BY DEF AllTypeOK, Wires, TypeOK, Database
<1>1. ASSUME NEW s \in Servers,
             \/ \E level \in ErrorLevels : HandleResult(s, level)
             \/ Checked(s) \/ Written(s) \/ ClearDone(s)
             \/ Dispatched(s) \/ Marked(s)
             \/ StartAlerter(s) \/ Started(s)
             \/ GainLock(s) \/ LoseLock(s) \/ Crash(s)
      PROVE  UNCHANGED vars
  BY <1>1 DEF HandleResult, Checked, Written, ClearDone, Dispatched, Marked,
              StartAlerter, Started, GainLock, LoseLock, Crash, Fault
<1>2. ASSUME NEW s \in Servers, ExecuteCheck(s)
      PROVE  Next
  <2>1. PICK i \in DOMAIN wire[s] : Check(wire[s][i].level)
    BY <1>2 DEF ExecuteCheck
  <2>2. wire[s][i] \in Commands
    BY <1>0, <2>1 DEF Wires
  <2> QED
    BY <2>1, <2>2, CommandFields DEF Next
<1>3. ASSUME NEW s \in Servers, ExecuteAlert(s)
      PROVE  [Next]_vars
  <2> DEFINE id == CHOOSE a \in AlertIds : db.alerts[a] = "unused"
  <2>1. PICK i \in DOMAIN wire[s] :
          IF db.rule.isActive
            THEN /\ \E a \in AlertIds : db.alerts[a] = "unused"
                 /\ Alert(id, wire[s][i].level)
            ELSE UNCHANGED vars
    BY <1>3 DEF ExecuteAlert
  <2>2. wire[s][i].level \in ErrorLevels
    <3>1. wire[s][i] \in Commands
      BY <1>0, <2>1 DEF Wires
    <3> QED
      BY <3>1, CommandFields
  <2>3. ASSUME \E a \in AlertIds : db.alerts[a] = "unused"
        PROVE  id \in AlertIds
    BY <2>3
  <2> HIDE DEF id
  <2> QED
    BY <2>1, <2>2, <2>3 DEF Next
<1>4. ASSUME NEW s \in Servers,
             ExecuteMark(s) \/ ExecuteStart(s) \/ ExecuteClear(s)
      PROVE  Next
  BY <1>4 DEF ExecuteMark, ExecuteStart, ExecuteClear, Next
<1>5. CASE Query \/ UpdateRule \/ TimePasses
  <2>1. CASE Query
    BY <2>1 DEF Query, Next
  <2>2. CASE UpdateRule
    <3>1. PICK active \in BOOLEAN, options \in Options :
            SaveRule(active, db.rule.state, options)
      BY <1>0, <2>2 DEF UpdateRule, Deactivate, UpdateOptions
    <3> QED
      BY <1>0, <3>1 DEF Next
  <2>3. CASE TimePasses
    BY <2>3 DEF TimePasses, Next
  <2> QED
    BY <1>5, <2>1, <2>2, <2>3
<1>6. CASE UNCHANGED allVars
  BY <1>6 DEF allVars
<1> QED
  BY <1>1, <1>2, <1>3, <1>4, <1>5, <1>6 DEF AllNext

-----------------------------------------------------------------------------
(* The types.                                                               *)

Logs ==
  [period : Nat, of : [AlertIds -> Nat], sent : [AlertIds -> Nat],
   resets : Nat, faults : Nat, overlaps : Nat, queries : Nat]

Named == AlertIds \cup {NoAlert, EmptyAlert}

\* The type of what the circuit does not have.
LocalTypeOK ==
  /\ alerter \in [Servers -> Alerters]
  /\ unstarted \subseteq Servers
  /\ wire \in Wires
  /\ sending \in [Servers -> SUBSET (AlertIds \cup {EmptyAlert})]
  /\ owners \subseteq Servers
  /\ log \in Logs

LEMMA TypeParts == AllTypeOK <=> TypeOK /\ LocalTypeOK
BY DEF AllTypeOK, LocalTypeOK, Wires, Logs

\* A save changes no more than the rule hash, and does not activate the rule; one
\* that leaves it active is of other options.
LEMMA UpdatedRule ==
  ASSUME AllTypeOK, UpdateRule
  PROVE  /\ db'.st = db.st /\ db'.alerts = db.alerts /\ IsOpen' = IsOpen
         /\ db'.rule.isActive => db.rule.isActive
         /\ UNCHANGED <<now, local, owners, log>>
         /\ opts' = opts \/ hist'.saves = hist.saves + 1
         /\ hist.saves \in Nat /\ hist'.saves \in {hist.saves, hist.saves + 1}
         /\ opts' = opts => ~db'.rule.isActive
<1>1. /\ db \in Database /\ hist \in HistType
  BY DEF AllTypeOK, TypeOK, HistType
<1>2. ASSUME NEW active \in BOOLEAN, NEW options,
             SaveRule(active, db.rule.state, options)
      PROVE  /\ db'.st = db.st /\ db'.alerts = db.alerts
             /\ db'.rule.isActive = active
             /\ now' = now
             /\ opts' = options
             /\ IF options = opts THEN hist' = hist
                ELSE hist'.saves = hist.saves + 1
  BY <1>1, <1>2 DEF SaveRule, Database, HistType
<1>3. PICK active \in BOOLEAN, options \in Options :
        /\ SaveRule(active, db.rule.state, options)
        /\ active => db.rule.isActive /\ options # opts
        /\ UNCHANGED <<local, owners, log>>
  <2>1. db.rule.isActive \in BOOLEAN /\ opts \in Options
    BY <1>1 DEF AllTypeOK, TypeOK, Database
  <2> QED
    BY <2>1 DEF UpdateRule, Deactivate, UpdateOptions
<1> QED
  BY <1>1, <1>2, <1>3 DEF IsOpen, HistType

LEMMA NewAlerterType ==
  ASSUME TypeOK, NEW active \in BOOLEAN
  PROVE  NewAlerter(active) \in Alerters
<1>1. opts.recoveryWindow \in Nat
  BY OptionFacts DEF AlertOptions
<1> QED
  BY <1>1 DEF NewAlerter, Alerters

LEMMA AllInitType == AllInit => AllTypeOK
<1> SUFFICES ASSUME AllInit PROVE AllTypeOK
  OBVIOUS
<1>1. TypeOK
  BY InitInvariant DEF AllInit, IInv
<1>2. db.rule.isActive \in BOOLEAN
  BY <1>1 DEF TypeOK, Database
<1>3. alerter \in [Servers -> Alerters]
  BY <1>1, <1>2, NewAlerterType DEF AllInit
<1>4. <<>> \in Seq(Commands)
  OBVIOUS
<1>5. wire \in Wires
  BY <1>4 DEF AllInit, Wires
<1>6. log \in Logs
  BY DEF AllInit, Logs
<1> QED
  BY <1>1, <1>3, <1>5, <1>6, TypeParts DEF LocalTypeOK, AllInit

\* dispatchAlert() and the dispatch of a reset
LEMMA DispatchType ==
  ASSUME LocalTypeOK, NEW s \in Servers,
         \/ \E alert \in Named : Dispatch(s, alert)
         \/ DispatchReset(s)
  PROVE  /\ sending' \in [Servers -> SUBSET (AlertIds \cup {EmptyAlert})]
         /\ log' \in Logs
<1>1. ASSUME NEW alert \in Named, Dispatch(s, alert)
      PROVE  /\ sending' \in [Servers -> SUBSET (AlertIds \cup {EmptyAlert})]
             /\ log' \in Logs
  <2>1. sending' \in [Servers -> SUBSET (AlertIds \cup {EmptyAlert})]
    BY <1>1 DEF Dispatch, LocalTypeOK, Named
  <2>2. CASE alert \in AlertIds /\ s \in owners
    <3>1. [log.sent EXCEPT ![alert] = @ + 1] \in [AlertIds -> Nat]
      BY <2>2 DEF LocalTypeOK, Logs
    <3>2. log' = [log EXCEPT !.sent = [log.sent EXCEPT ![alert] = @ + 1]]
      BY <1>1, <2>2 DEF Dispatch, LocalTypeOK, Logs
    <3> QED
      BY <2>1, <3>1, <3>2 DEF LocalTypeOK, Logs
  <2>3. CASE ~(alert \in AlertIds /\ s \in owners)
    BY <1>1, <2>1, <2>3 DEF Dispatch, LocalTypeOK
  <2> QED
    BY <2>2, <2>3
<1>2. CASE DispatchReset(s)
  BY <1>2 DEF DispatchReset, LocalTypeOK, Logs
<1> QED
  BY <1>1, <1>2

LEMMA ClearedType ==
  ASSUME NEW a \in Alerters
  PROVE  Cleared(a) \in Alerters
BY DEF Cleared, Alerters

LEMMA UpdatedType ==
  ASSUME NEW a \in Alerters, NEW c \in Commands, c.op = "check", c.reply.done
  PROVE  updateLocalState(a, c) \in Alerters
<1>1. c.reply \in CheckReplies /\ c.level \in ErrorLevels
  BY CommandFields
<1>2. getRuleState(c.level) \in RuleStates
  BY <1>1 DEF getRuleState, ErrorLevels, RuleStates
<1> HIDE DEF getRuleState
<1>3. /\ c.reply.open \in BOOLEAN /\ c.reply.notify \in BOOLEAN /\ c.reply.endDelay \in Nat
      /\ (c.reply.status # "inactive") \in BOOLEAN
  BY <1>1 DEF CheckReplies
<1> DEFINE active == c.reply.status # "inactive"
           failedAt == IF c.reply.open THEN a.lastFailedAt ELSE 0
           open == c.reply.open
           notify == c.reply.notify
           endDelay == c.reply.endDelay
           state == getRuleState(c.level)
<1>4. /\ active \in BOOLEAN /\ failedAt \in Nat /\ open \in BOOLEAN
      /\ notify \in BOOLEAN /\ endDelay \in Nat
      /\ state \in RuleStates \cup {"undefined"}
  BY <1>2, <1>3 DEF Alerters
<1>5. updateLocalState(a, c) =
        [a EXCEPT !.tripped = open, !.isActive = active, !.warmupEnd = endDelay,
                  !.shouldNotify = notify, !.ruleState = state,
                  !.lastFailedAt = failedAt]
  BY DEF updateLocalState
<1> HIDE DEF active, failedAt, open, notify, endDelay, state
<1> QED
  BY <1>4, <1>5 DEF Alerters

LEMMA CheckedType ==
  ASSUME AllTypeOK, NEW s \in Servers, Checked(s)
  PROVE  LocalTypeOK'
<1> DEFINE c == Head(wire[s])
           updated == updateLocalState(alerter[s], c)
           final == [updated EXCEPT !.alert = AlertLeft(updated),
                        !.lastFailedAt = IF c.level # "NONE" THEN now ELSE @]
<1>1. LocalTypeOK /\ now \in Nat
  BY TypeParts DEF TypeOK
<1>2. wire \in Wires /\ wire[s] # <<>> /\ c.op = "check" /\ c.reply.done
  BY <1>1 DEF Checked, LocalTypeOK
<1>3. c \in Commands /\ Tail(wire[s]) \in Seq(Commands)
      /\ [wire EXCEPT ![s] = Tail(@)] \in Wires
  BY <1>2, PopType
<1> HIDE DEF c
<1>4. updated \in Alerters
  BY <1>1, <1>2, <1>3, UpdatedType DEF LocalTypeOK
<1> HIDE DEF updated
<1>5. final \in Alerters
  BY <1>1, <1>4 DEF Alerters, AlertLeft
<1>6. final.alert = NoAlert
  BY <1>4 DEF AlertLeft, Alerters
<1> HIDE DEF final
<1>7. Cleared(final) \in Alerters /\ c.level \in ErrorLevels
  BY <1>3, <1>5, ClearedType, CommandFields
<1>8. /\ unstarted' = unstarted /\ owners' = owners
      /\ IF NeedsAlert(c)
           THEN /\ alerter' = [alerter EXCEPT ![s] = updated]
                /\ Send(Tail(wire[s]), s, Command("alert", c.level, FALSE))
                /\ UNCHANGED <<sending, log>>
           ELSE /\ alerter' = [alerter EXCEPT ![s] =
                     IF c.was /\ ~c.reply.open THEN Cleared(final) ELSE final]
                /\ wire' = [wire EXCEPT ![s] = Tail(@)]
                /\ IF c.level # "NONE" /\ c.reply.notify
                     THEN Dispatch(s, final.alert)
                     ELSE UNCHANGED <<sending, log>>
  BY DEF Checked, c, updated, final
<1>9. alerter' \in [Servers -> Alerters]
  BY <1>1, <1>4, <1>5, <1>7, <1>8 DEF LocalTypeOK
<1>10. wire' \in Wires
  <2>1. Command("alert", c.level, FALSE) \in Commands
    BY <1>7, CommandType
  <2> QED
    BY <1>2, <1>3, <1>8, <2>1, SendType
<1>11. sending' \in [Servers -> SUBSET (AlertIds \cup {EmptyAlert})] /\ log' \in Logs
  BY <1>1, <1>6, <1>8, DispatchType DEF Named, LocalTypeOK
<1> QED
  BY <1>1, <1>8, <1>9, <1>10, <1>11 DEF LocalTypeOK

LEMMA WrittenType ==
  ASSUME AllTypeOK, NEW s \in Servers, Written(s)
  PROVE  LocalTypeOK'
<1> DEFINE c == Head(wire[s])
           alert == c.reply.alert
           resets == c.level = "NONE" /\ alert # NoAlert /\ ~InCooldown(s)
<1>1. LocalTypeOK /\ now \in Nat
  BY TypeParts DEF TypeOK
<1>2. wire \in Wires /\ wire[s] # <<>> /\ c.op = "alert" /\ c.reply.done
  BY <1>1 DEF Written, LocalTypeOK
<1>3. c \in Commands /\ Tail(wire[s]) \in Seq(Commands)
      /\ [wire EXCEPT ![s] = Tail(@)] \in Wires
  BY <1>2, PopType
<1> HIDE DEF c
<1>4. alert \in Named
  BY <1>2, <1>3, CommandFields DEF AlertReplies, Named
<1>5. /\ unstarted' = unstarted /\ owners' = owners
      /\ alerter' = [alerter EXCEPT
                       ![s].alert = IF resets THEN NoAlert ELSE alert,
                       ![s].lastFailedAt = IF c.level = "NONE" THEN @ ELSE now]
      /\ \/ Send(Tail(wire[s]), s, Command("clear", "NONE", FALSE))
         \/ wire' = [wire EXCEPT ![s] = Tail(@)]
      /\ Dispatch(s, alert) \/ UNCHANGED <<sending, log>>
  BY DEF Written, c, alert, resets
<1> HIDE DEF alert, resets
<1>6. alerter' \in [Servers -> Alerters]
  <2>1. alerter[s] \in Alerters
    BY <1>1 DEF LocalTypeOK
  <2>2. [alerter[s] EXCEPT !.alert = IF resets THEN NoAlert ELSE alert,
                           !.lastFailedAt = IF c.level = "NONE" THEN @ ELSE now]
          \in Alerters
    BY <1>1, <1>4, <2>1 DEF Alerters, Named
  <2> QED
    BY <1>1, <1>5, <2>2 DEF LocalTypeOK
<1>7. wire' \in Wires
  <2>1. Command("clear", "NONE", FALSE) \in Commands
    BY CommandType DEF ErrorLevels
  <2> QED
    BY <1>2, <1>3, <1>5, <2>1, SendType
<1>8. sending' \in [Servers -> SUBSET (AlertIds \cup {EmptyAlert})] /\ log' \in Logs
  BY <1>1, <1>4, <1>5, DispatchType DEF LocalTypeOK
<1> QED
  BY <1>1, <1>5, <1>6, <1>7, <1>8 DEF LocalTypeOK

\* The other answers
LEMMA AnswerType ==
  ASSUME AllTypeOK, NEW s \in Servers,
         ClearDone(s) \/ Marked(s) \/ Started(s)
  PROVE  LocalTypeOK'
<1>1. LocalTypeOK
  BY TypeParts
<1>2. wire \in Wires /\ alerter[s] \in Alerters
  BY <1>1 DEF LocalTypeOK
<1>3. wire[s] # <<>> /\ wire' = [wire EXCEPT ![s] = Tail(@)]
  BY DEF ClearDone, Marked, Started
<1>4. wire' \in Wires
  BY <1>2, <1>3, PopType
<1>5. CASE ClearDone(s)
  <2>1. alerter' \in [Servers -> Alerters]
    BY <1>1, <1>2, <1>5, ClearedType DEF ClearDone, LocalTypeOK
  <2> QED
    BY <1>1, <1>4, <1>5, <2>1, DispatchType DEF ClearDone, LocalTypeOK
<1>6. CASE Marked(s)
  BY <1>1, <1>4, <1>6 DEF Marked, LocalTypeOK
<1>7. CASE Started(s)
  <2>1. [alerter[s] EXCEPT !.ruleState = "NORMAL"] \in Alerters
    BY <1>2 DEF Alerters, RuleStates
  <2>2. alerter' \in [Servers -> Alerters]
    BY <1>1, <1>7, <2>1 DEF Started, LocalTypeOK
  <2> QED
    BY <1>1, <1>4, <1>7, <2>2 DEF Started, LocalTypeOK
<1> QED
  BY <1>5, <1>6, <1>7

\* What is sent
LEMMA SentType ==
  ASSUME AllTypeOK, NEW s \in Servers,
         \/ \E level \in ErrorLevels : HandleResult(s, level)
         \/ Dispatched(s) \/ StartAlerter(s)
  PROVE  LocalTypeOK'
<1>1. LocalTypeOK
  BY TypeParts
<1>2. wire \in Wires /\ wire[s] \in Seq(Commands) /\ alerter[s] \in Alerters
  BY <1>1 DEF LocalTypeOK, Wires
<1>3. ASSUME NEW level \in ErrorLevels, HandleResult(s, level)
      PROVE  LocalTypeOK'
  <2>1. Command("check", level, alerter[s].tripped) \in Commands
    BY <1>2, CommandType DEF Alerters
  <2>2. wire' \in Wires
    BY <1>2, <1>3, <2>1, SendType DEF HandleResult
  <2>3. log' \in Logs
    BY <1>1, <1>3 DEF HandleResult, LocalTypeOK, Logs
  <2> QED
    BY <1>1, <1>3, <2>2, <2>3 DEF HandleResult, LocalTypeOK
<1>4. CASE Dispatched(s)
  <2>1. Command("mark", "NONE", FALSE) \in Commands
    BY CommandType DEF ErrorLevels
  <2>2. Send(wire[s], s, Command("mark", "NONE", FALSE)) \/ wire' = wire
    BY <1>4 DEF Dispatched
  <2>3. wire' \in Wires
    BY <1>2, <2>1, <2>2, SendType
  <2>4. sending' \in [Servers -> SUBSET (AlertIds \cup {EmptyAlert})]
    BY <1>1, <1>4 DEF Dispatched, LocalTypeOK
  <2> QED
    BY <1>1, <1>4, <2>3, <2>4 DEF Dispatched, LocalTypeOK
<1>5. CASE StartAlerter(s)
  <2>1. Command("start", "NONE", FALSE) \in Commands
    BY CommandType DEF ErrorLevels
  <2>2. wire' \in Wires
    BY <1>2, <1>5, <2>1, SendType DEF StartAlerter
  <2> QED
    BY <1>1, <1>5, <2>2 DEF StartAlerter, LocalTypeOK
<1> QED
  BY <1>3, <1>4, <1>5

\* What Redis executes
LEMMA ExecutedType ==
  ASSUME AllTypeOK, TypeOK', NEW s \in Servers, Executed(s)
  PROVE  LocalTypeOK'
<1>1. LocalTypeOK /\ TypeOK
  BY TypeParts
<1>2. wire \in Wires /\ \A i \in DOMAIN wire[s] : wire[s][i] \in Commands
  BY <1>1 DEF LocalTypeOK, Wires
<1>3. UNCHANGED <<alerter, unstarted, sending, owners>>
  BY DEF Executed, ExecuteCheck, ExecuteAlert, ExecuteMark, ExecuteStart, ExecuteClear
<1>4. CASE ExecuteCheck(s)
  <2> DEFINE reply == CheckReply(Start(Loaded), db')
  <2>1. PICK i \in DOMAIN wire[s] : wire[s][i].op = "check" /\ Reply(s, i, reply)
    BY <1>4 DEF ExecuteCheck, IsNext
  <2>2. reply \in CheckReplies
    <3>1. CheckStatus(Start(Loaded)) \in {"ok", "warmup", "inactive"}
      BY DEF CheckStatus
    <3>2. now \in Nat /\ now + opts.warmupWindow \in Nat
      BY <1>1, OptionFacts DEF TypeOK, AlertOptions
    <3>3. db'.st.notifyPending \in BOOLEAN
      BY DEF TypeOK, Database, StateHash
    <3> QED
      BY <3>1, <3>2, <3>3 DEF CheckReply, CheckReplies
  <2> HIDE DEF reply
  <2>3. wire' \in Wires
    BY <1>2, <2>1, <2>2, RepliedCommand, ReplyType
  <2>4. log' \in Logs
    BY <1>1, <1>4 DEF ExecuteCheck, CountPeriod, LocalTypeOK, Logs
  <2> QED
    BY <1>1, <1>3, <2>3, <2>4 DEF LocalTypeOK
<1>5. CASE ExecuteAlert(s)
  <2> DEFINE id == CHOOSE a \in AlertIds : db.alerts[a] = "unused"
  <2>1. PICK i \in DOMAIN wire[s] :
          /\ wire[s][i].op = "alert"
          /\ IF db.rule.isActive
               THEN /\ \E a \in AlertIds : db.alerts[a] = "unused"
                    /\ Reply(s, i, [done |-> TRUE,
                                    alert |-> IF wire[s][i].level = "NONE" THEN NoAlert ELSE id])
                    /\ log' = [log EXCEPT !.of[id] = log.period]
               ELSE /\ Reply(s, i, [done |-> TRUE, alert |-> EmptyAlert])
                    /\ UNCHANGED log
    BY <1>5 DEF ExecuteAlert, IsNext
  <2>2. ASSUME db.rule.isActive
        PROVE  id \in AlertIds
    BY <2>1, <2>2
  <2> HIDE DEF id
  <2>3. PICK alert \in Named : Reply(s, i, [done |-> TRUE, alert |-> alert])
    BY <2>1, <2>2 DEF Named
  <2>4. [done |-> TRUE, alert |-> alert] \in AlertReplies
    BY DEF AlertReplies, Named
  <2>5. wire' \in Wires
    BY <1>2, <2>1, <2>3, <2>4, RepliedCommand, ReplyType
  <2>6. log' \in Logs
    <3>1. log \in Logs /\ log.of \in [AlertIds -> Nat] /\ log.period \in Nat
      BY <1>1 DEF LocalTypeOK, Logs
    <3> DEFINE of == [log.of EXCEPT ![id] = log.period]
    <3>2. of \in [AlertIds -> Nat]
      BY <3>1
    <3>3. log' = log \/ log' = [log EXCEPT !.of = of]
      BY <2>1, <3>1 DEF Logs
    <3> HIDE DEF of
    <3> QED
      BY <3>1, <3>2, <3>3 DEF Logs
  <2> QED
    BY <1>1, <1>3, <2>5, <2>6 DEF LocalTypeOK
<1>6. CASE ExecuteMark(s) \/ ExecuteStart(s) \/ ExecuteClear(s)
  <2>1. PICK i \in DOMAIN wire[s] :
          /\ wire[s][i].op \in {"clear", "mark", "start"}
          /\ Reply(s, i, [done |-> TRUE])
    BY <1>6 DEF ExecuteMark, ExecuteStart, ExecuteClear, IsNext
  <2>2. wire' \in Wires
    BY <1>2, <2>1, RepliedCommand, ReplyType
  <2>3. log' \in Logs
    BY <1>1, <1>6 DEF ExecuteMark, ExecuteStart, ExecuteClear, CountPeriod, LocalTypeOK, Logs
  <2> QED
    BY <1>1, <1>3, <2>2, <2>3 DEF LocalTypeOK
<1> QED
  BY <1>4, <1>5, <1>6 DEF Executed

\* What happens around: queries, time, the lock and crashes
LEMMA AroundType ==
  ASSUME AllTypeOK,
         \/ Query \/ UpdateRule \/ TimePasses
         \/ \E s \in Servers : GainLock(s) \/ LoseLock(s) \/ Crash(s)
         \/ UNCHANGED allVars
  PROVE  LocalTypeOK'
<1>1. LocalTypeOK /\ TypeOK
  BY TypeParts
<1>2. CASE Query \/ UpdateRule \/ TimePasses \/ UNCHANGED allVars
  <2>1. UNCHANGED <<local, owners>>
    BY <1>2, UpdatedRule DEF Query, TimePasses, allVars
  <2>2. log' \in Logs
    <3>1. CountPeriod \in Logs
      BY <1>1 DEF CountPeriod, LocalTypeOK, Logs
    <3>2. log' = log \/ log' = [CountPeriod EXCEPT !.queries = @ + 1]
      BY <1>2, UpdatedRule DEF Query, TimePasses, allVars
    <3> QED
      BY <1>1, <3>1, <3>2 DEF LocalTypeOK, Logs
  <2> QED
    BY <1>1, <2>1, <2>2 DEF LocalTypeOK, local
<1>3. ASSUME NEW s \in Servers, GainLock(s) \/ LoseLock(s) \/ Crash(s)
      PROVE  LocalTypeOK'
  <2>1. log' \in Logs
    <3>1. log' = [log EXCEPT !.faults = @ + 1]
      BY <1>3 DEF GainLock, LoseLock, Crash, Fault
    <3> QED
      BY <1>1, <3>1 DEF LocalTypeOK, Logs
  <2>2. owners' \subseteq Servers
    <3>1. owners' \in {owners \cup {s}, owners \ {s}}
      BY <1>3 DEF GainLock, LoseLock, Crash
    <3> QED
      BY <1>1, <3>1 DEF LocalTypeOK
  <2>3. CASE GainLock(s) \/ LoseLock(s)
    <3>1. UNCHANGED local
      BY <2>3 DEF GainLock, LoseLock
    <3> QED
      BY <1>1, <2>1, <2>2, <3>1 DEF LocalTypeOK, local
  <2>4. CASE Crash(s)
    <3>1. db.rule.isActive \in BOOLEAN /\ <<>> \in Seq(Commands)
      BY <1>1 DEF TypeOK, Database
    <3>2. alerter' \in [Servers -> Alerters]
      BY <1>1, <2>4, <3>1, NewAlerterType DEF Crash, LocalTypeOK
    <3>3. wire' \in Wires
      BY <1>1, <2>4, <3>1 DEF Crash, LocalTypeOK, Wires
    <3> QED
      BY <1>1, <2>1, <2>2, <2>4, <3>2, <3>3 DEF Crash, LocalTypeOK
  <2> QED
    BY <1>3, <2>3, <2>4
<1> QED
  BY <1>2, <1>3

LEMMA StepType == IInv /\ AllTypeOK /\ [AllNext]_allVars => IInv' /\ AllTypeOK'
<1> SUFFICES ASSUME IInv, AllTypeOK, [AllNext]_allVars
             PROVE  IInv' /\ AllTypeOK'
  OBVIOUS
<1>1. IInv' /\ TypeOK'
  BY CircuitStep, StepInvariant DEF IInv
<1>2. LocalTypeOK'
  BY <1>1, CheckedType, WrittenType, AnswerType, SentType, ExecutedType, AroundType
  DEF AllNext, Executed
<1>3. AllTypeOK'
  BY <1>1, <1>2 DEF AllTypeOK, LocalTypeOK, TypeOK, Wires, Logs
<1> QED
  BY <1>1, <1>3

LEMMA TypeInvariance == AllSpec => [](IInv /\ AllTypeOK)
<1>1. AllInit => IInv /\ AllTypeOK
  BY InitInvariant, AllInitType DEF AllInit
<1> QED
  BY <1>1, StepType, PTL DEF AllSpec

\* Every variable has its type in every reachable state, for any number of
\* servers and results under way: what is read from a reply is in it.
THEOREM AllTypeCorrectness == AllSpec => []AllTypeOK
BY TypeInvariance, PTL

\* Whatever the alerters of however many servers do, the circuit is that of
\* RuleCircuit: all that is proved of it holds under them.
THEOREM AlertersKeepCircuit == AllSpec => Spec
<1>1. AllInit => Init
  BY DEF AllInit
<1> QED
  BY <1>1, TypeInvariance, CircuitStep, PTL DEF AllSpec, Spec

-----------------------------------------------------------------------------
(* Calls, and what they leave.                                              *)

\* A check starts the rule, and counts its result.
LEMMA CheckLeads ==
  ASSUME IInv, NEW level \in ErrorLevels, Check(level)
  PROVE  LET d == Start(Loaded)
             e == CheckNotify(d, level)
         IN /\ d \in CallData /\ d.st.isStarted
            /\ Calm(Loaded, d)
            /\ e \in CallData /\ db' = Ended(e)
            /\ db'.st = e.st /\ db'.alerts = e.alerts /\ db'.rule = e.rule
            /\ Tends(Loaded, e)
            /\ opts' = opts /\ now' = now
<1> DEFINE d == Start(Loaded)
           e == CheckNotify(d, level)
<1>1. TypeOK /\ now >= Epoch /\ Loaded \in CallData /\ Fresh(Loaded)
  BY LoadedFacts DEF IInv
<1>2. Calm(Loaded, d) /\ d.st.isStarted
  BY <1>1, StartCalm
<1>3. d \in CallData /\ Tends(Loaded, d)
  BY <1>1, StartTends DEF Tends
<1>4. db' = Ended(e) /\ opts' = opts /\ now' = now
  BY DEF Check
<1> HIDE DEF d
<1>5. e \in CallData /\ Tends(d, e)
  BY <1>1, <1>3, CheckNotifyTends DEF Tends
<1> HIDE DEF e
<1> QED
  BY <1>2, <1>3, <1>4, <1>5, TendsTransitive, EndedFacts DEF d, e

\* The other calls that update the circuit
LEMMA CallLeads ==
  ASSUME IInv, NEW e, NEW updates, CalmCall(e, updates)
  PROVE  /\ Calm(Loaded, e) /\ e \in CallData
         /\ db' = Ended(e)
         /\ db'.st = e.st /\ db'.alerts = e.alerts /\ db'.rule = e.rule
         /\ opts' = opts /\ now' = now
BY EndedFacts DEF CalmCall, Call, Calm

\* As long as no options were saved, they are the first ones.
LEMMA OptionsStay ==
  ASSUME IInv, AllTypeOK, [AllNext]_allVars, hist'.saves = 0
  PROVE  opts' = opts /\ hist.saves = 0 /\ ~hist.saved
<1>1. hist \in HistType /\ (hist.saves = 0 => ~hist.saved)
  BY DEF IInv, TypeOK, HistType
<1>2. ASSUME NEW level, Check(level)
      PROVE  opts' = opts /\ hist'.saves = hist.saves
  BY <1>2 DEF Check
<1>3. ASSUME NEW e, NEW updates, Call(e, updates)
      PROVE  opts' = opts /\ hist'.saves = hist.saves
  BY <1>1, <1>3 DEF Call, HistType
<1>4. MarkNotify => opts' = opts /\ hist'.saves = hist.saves
  BY <1>1 DEF MarkNotify, HistType
<1>5. Tick => opts' = opts /\ hist'.saves = hist.saves
  BY DEF Tick
<1>6. UNCHANGED vars => opts' = opts /\ hist'.saves = hist.saves
  BY DEF vars
<1>7. UpdateRule => opts' = opts /\ hist'.saves = hist.saves
  BY <1>1, UpdatedRule DEF HistType
<1>8. ASSUME NEW s \in Servers,
             \/ \E level \in ErrorLevels : HandleResult(s, level)
             \/ Checked(s) \/ Written(s) \/ ClearDone(s)
             \/ Dispatched(s) \/ Marked(s)
             \/ StartAlerter(s) \/ Started(s)
             \/ GainLock(s) \/ LoseLock(s) \/ Crash(s)
      PROVE  UNCHANGED vars
  BY <1>8 DEF HandleResult, Checked, Written, ClearDone, Dispatched, Marked,
              StartAlerter, Started, GainLock, LoseLock, Crash, Fault
<1>9. ASSUME NEW s \in Servers,
             \/ ExecuteCheck(s) \/ ExecuteAlert(s) \/ ExecuteMark(s)
             \/ ExecuteStart(s) \/ ExecuteClear(s)
      PROVE  opts' = opts /\ hist'.saves = hist.saves
  <2>1. \/ \E level : Check(level)
        \/ StartRule \/ Clear \/ MarkNotify \/ UNCHANGED vars
        \/ \E id, level : Alert(id, level)
    BY <1>9 DEF ExecuteCheck, ExecuteAlert, ExecuteMark, ExecuteStart, ExecuteClear
  <2> QED
    BY <1>2, <1>3, <1>4, <1>6, <2>1 DEF StartRule, Clear, Alert
<1>10. Query => opts' = opts /\ hist'.saves = hist.saves
  BY <1>3 DEF Query, QueryState
<1>11. opts' = opts /\ hist'.saves = hist.saves
  BY <1>5, <1>6, <1>7, <1>8, <1>9, <1>10 DEF AllNext, TimePasses, allVars, vars
<1> QED
  BY <1>1, <1>11

-----------------------------------------------------------------------------
(* No alert is sent twice.                                                  *)

\* The i-th command of s in w is answered with the alert a.
Names(w, s, i, a) ==
  i \in DOMAIN w[s] /\ w[s][i].op = "alert" /\ w[s][i].reply.done /\ w[s][i].reply.alert = a

\* An alert whose answer is under way has not been sent, and one that is not
\* written yet is in no answer and has not been sent either.
SentOf(a) ==
  /\ log.sent[a] <= 1
  /\ db.alerts[a] = "unused" =>
       log.sent[a] = 0 /\ \A s \in Servers, i \in Nat : ~Names(wire, s, i, a)
  /\ \A s \in Servers, i \in Nat : Names(wire, s, i, a) =>
       /\ log.sent[a] = 0
       /\ \A t \in Servers, j \in Nat : Names(wire, t, j, a) => t = s /\ j = i

SentInv == \A a \in AlertIds : SentOf(a)

\* No call but the one for it makes an alert known, and none forgets one.
LEMMA AlertsStayKnown ==
  ASSUME IInv, NEW a \in AlertIds,
         \/ \E level \in ErrorLevels : Check(level)
         \/ StartRule \/ StopRule \/ Clear \/ QueryState
         \/ MarkNotify
         \/ \E active \in BOOLEAN, state \in RuleStates, options \in Options :
              SaveRule(active, state, options)
         \/ \E id \in AlertIds : DeleteAlert(id)
         \/ Tick \/ UNCHANGED vars
  PROVE  db'.alerts[a] = "unused" <=> db.alerts[a] = "unused"
<1> DEFINE Same == db'.alerts[a] = "unused" <=> db.alerts[a] = "unused"
<1>1. /\ TypeOK /\ Loaded \in CallData /\ Loaded.alerts = db.alerts
      /\ db \in Database /\ db.alerts \in [AlertIds -> AlertStatuses]
  BY LoadedFacts DEF IInv, TypeOK, Database
<1>2. ASSUME NEW e, Tends(Loaded, e), db' = Ended(e)
      PROVE  Same
  <2>1. db'.alerts = e.alerts
    BY <1>2, EndedFacts DEF Tends
  <2> QED
    BY <1>1, <1>2, <2>1 DEF Tends, ClosesAloud
<1>3. ASSUME NEW level \in ErrorLevels, Check(level)
      PROVE  Same
  BY <1>2, <1>3, CheckLeads
<1>4. CASE StartRule \/ StopRule \/ Clear \/ QueryState
  BY <1>1, <1>2, <1>4, StartTends, StopTends, ClearStateTends, UpdateCircuitTends
  DEF StartRule, StopRule, Clear, QueryState, Call
<1>5. CASE MarkNotify
  <2>1. MarkNotification(Loaded).alerts = db.alerts
    BY <1>1 DEF MarkNotification, CallData
  <2> QED
    BY <1>5, <2>1 DEF MarkNotify, Ended
<1>6. ASSUME NEW active \in BOOLEAN, NEW state \in RuleStates, NEW options \in Options,
             SaveRule(active, state, options)
      PROVE  Same
  BY <1>1, <1>6 DEF SaveRule, Database
<1>7. ASSUME NEW id \in AlertIds, DeleteAlert(id)
      PROVE  Same
  <2>1. db'.alerts = [db.alerts EXCEPT ![id] = "deleted"] /\ db.alerts[id] # "unused"
    BY <1>1, <1>7 DEF DeleteAlert, Database
  <2> QED
    BY <1>1, <2>1
<1>8. CASE Tick \/ UNCHANGED vars
  BY <1>8 DEF Tick, vars
<1> QED
  BY <1>3, <1>4, <1>5, <1>6, <1>7, <1>8

\* An alert that was written remains known.
LEMMA AlertsStayUsed ==
  ASSUME IInv, [Next]_vars, NEW a \in AlertIds, db'.alerts[a] = "unused"
  PROVE  db.alerts[a] = "unused"
<1>1. ASSUME NEW id \in AlertIds, NEW level \in ErrorLevels, Alert(id, level)
      PROVE  db.alerts[a] = "unused"
  <2>1. db.alerts \in [AlertIds -> AlertStatuses]
    BY DEF IInv, TypeOK, Database
  <2> QED
    BY <1>1, <2>1, AlertWritten
<1> QED
  BY <1>1, AlertsStayKnown DEF Next

\* What s names after a step it named before, d places later; the others name
\* what they did.
Keeps(s, d, a) ==
  \A t \in Servers, i \in Nat :
    Names(wire', t, i, a) =>
      IF t = s THEN Names(wire, t, i + d, a) ELSE Names(wire, t, i, a)

UsedStays == \A a \in AlertIds : db'.alerts[a] = "unused" => db.alerts[a] = "unused"

LEMMA KeepsSent ==
  ASSUME SentInv, UsedStays, NEW s \in Servers, NEW d \in Nat,
         NEW a \in AlertIds, Keeps(s, d, a), log'.sent[a] = log.sent[a]
  PROVE  SentOf(a)'
<1>0. SentOf(a)
  BY DEF SentInv
<1>1. \A t \in Servers, i \in Nat :
        Names(wire', t, i, a) => \E k \in {i, i + d} : k \in Nat /\ Names(wire, t, k, a)
  BY DEF Keeps
<1>2. \A t, u \in Servers, i, j \in Nat :
        Names(wire', t, i, a) /\ Names(wire', u, j, a) => u = t /\ j = i
  <2> SUFFICES ASSUME NEW t \in Servers, NEW u \in Servers, NEW i \in Nat, NEW j \in Nat,
                      Names(wire', t, i, a), Names(wire', u, j, a)
               PROVE  u = t /\ j = i
    OBVIOUS
  <2>1. u = t
    BY <1>0, <1>1 DEF SentOf
  <2>2. CASE t = s
    <3>1. Names(wire, s, i + d, a) /\ Names(wire, s, j + d, a)
      BY <2>1, <2>2 DEF Keeps
    <3>2. i + d = j + d
      BY <1>0, <3>1 DEF SentOf
    <3> QED
      BY <2>1, <3>2
  <2>3. CASE t # s
    BY <1>0, <2>1, <2>3 DEF Keeps, SentOf
  <2> QED
    BY <2>2, <2>3
<1>3. \A t \in Servers, i \in Nat : Names(wire', t, i, a) => log.sent[a] = 0
  BY <1>0, <1>1 DEF SentOf
<1>4. db'.alerts[a] = "unused" =>
        log.sent[a] = 0 /\ \A t \in Servers, i \in Nat : ~Names(wire', t, i, a)
  BY <1>0, <1>1 DEF SentOf, UsedStays
<1>5. log.sent[a] <= 1
  BY <1>0 DEF SentOf
<1> QED
  BY <1>2, <1>3, <1>4, <1>5 DEF SentOf

\* What is left after an answer stands one place later before.
LEMMA TailPlaces ==
  ASSUME NEW q \in Seq(Commands), q # <<>>
  PROVE  \A i \in DOMAIN Tail(q) :
           i \in Nat /\ i + 1 \in DOMAIN q /\ Tail(q)[i] = q[i + 1]
OBVIOUS

LEMMA AppendPlaces ==
  ASSUME NEW q \in Seq(Commands), NEW c \in Commands
  PROVE  \A i \in DOMAIN Append(q, c) :
           Append(q, c)[i] = c \/ (i \in DOMAIN q /\ Append(q, c)[i] = q[i])
<1> SUFFICES ASSUME NEW i \in DOMAIN Append(q, c)
             PROVE  Append(q, c)[i] = c \/ (i \in DOMAIN q /\ Append(q, c)[i] = q[i])
  OBVIOUS
<1>1. CASE i = Len(q) + 1
  BY <1>1
<1>2. CASE i \in 1..Len(q)
  BY <1>2
<1> QED
  BY <1>1, <1>2

\* A command that is sent names nothing yet.
LEMMA CommandFresh ==
  ASSUME NEW op \in {"check", "alert", "clear", "mark", "start"},
         NEW level \in ErrorLevels, NEW was \in BOOLEAN
  PROVE  Command(op, level, was) \in Commands /\ ~Command(op, level, was).reply.done
BY CommandType DEF Command, NoReply

LEMMA SendKeeps ==
  ASSUME wire \in Wires, NEW s \in Servers, NEW c \in Commands, ~c.reply.done,
         Send(wire[s], s, c)
  PROVE  \A a \in AlertIds : Keeps(s, 0, a)
<1>1. wire[s] \in Seq(Commands)
  BY DEF Wires
<1>2. wire'[s] = Append(wire[s], c) /\ \A t \in Servers : t # s => wire'[t] = wire[t]
  BY <1>1, SendType
<1>3. \A i \in DOMAIN wire'[s] :
        wire'[s][i] = c \/ (i \in DOMAIN wire[s] /\ wire'[s][i] = wire[s][i])
  BY <1>1, <1>2, AppendPlaces
<1>4. \A i \in Nat : i + 0 = i
  OBVIOUS
<1> SUFFICES ASSUME NEW a \in AlertIds, NEW t \in Servers, NEW i \in Nat,
                    Names(wire', t, i, a)
             PROVE  Names(wire, t, i, a)
  BY <1>4 DEF Keeps
<1>5. CASE t = s
  BY <1>3, <1>5 DEF Names
<1>6. CASE t # s
  BY <1>2, <1>6 DEF Names
<1> QED
  BY <1>5, <1>6

LEMMA ReplaceKeeps ==
  ASSUME wire \in Wires, NEW s \in Servers, NEW c \in Commands, ~c.reply.done,
         wire[s] # <<>>, Send(Tail(wire[s]), s, c)
  PROVE  \A a \in AlertIds : Keeps(s, 1, a)
<1>1. wire[s] \in Seq(Commands) /\ Tail(wire[s]) \in Seq(Commands)
  BY PopType DEF Wires
<1>2. /\ wire'[s] = Append(Tail(wire[s]), c)
      /\ \A t \in Servers : t # s => wire'[t] = wire[t]
  BY <1>1, SendType
<1>3. \A i \in DOMAIN wire'[s] :
        wire'[s][i] = c \/ (i \in DOMAIN Tail(wire[s]) /\ wire'[s][i] = Tail(wire[s])[i])
  BY <1>1, <1>2, AppendPlaces
<1>4. \A i \in DOMAIN wire'[s] :
        wire'[s][i] = c \/ (i + 1 \in DOMAIN wire[s] /\ wire'[s][i] = wire[s][i + 1])
  BY <1>1, <1>3, TailPlaces
<1> SUFFICES ASSUME NEW a \in AlertIds, NEW t \in Servers, NEW i \in Nat,
                    Names(wire', t, i, a)
             PROVE  IF t = s THEN Names(wire, t, i + 1, a) ELSE Names(wire, t, i, a)
  BY DEF Keeps
<1>5. CASE t = s
  BY <1>4, <1>5 DEF Names
<1>6. CASE t # s
  BY <1>2, <1>6 DEF Names
<1> QED
  BY <1>5, <1>6

LEMMA PopKeeps ==
  ASSUME wire \in Wires, NEW s \in Servers, wire[s] # <<>>,
         wire' = [wire EXCEPT ![s] = Tail(@)]
  PROVE  \A a \in AlertIds : Keeps(s, 1, a)
<1>1. wire[s] \in Seq(Commands)
  BY DEF Wires
<1>2. wire'[s] = Tail(wire[s]) /\ \A t \in Servers : t # s => wire'[t] = wire[t]
  BY DEF Wires
<1>3. \A i \in DOMAIN Tail(wire[s]) :
        i + 1 \in DOMAIN wire[s] /\ Tail(wire[s])[i] = wire[s][i + 1]
  BY <1>1, TailPlaces
<1> SUFFICES ASSUME NEW a \in AlertIds, NEW t \in Servers, NEW i \in Nat,
                    Names(wire', t, i, a)
             PROVE  IF t = s THEN Names(wire, t, i + 1, a) ELSE Names(wire, t, i, a)
  BY DEF Keeps
<1>4. CASE t = s
  <2>1. i \in DOMAIN Tail(wire[s]) /\ wire'[s][i] = Tail(wire[s])[i]
    BY <1>2, <1>4 DEF Names
  <2>2. i + 1 \in DOMAIN wire[s] /\ wire'[s][i] = wire[s][i + 1]
    BY <1>3, <2>1
  <2> QED
    BY <1>4, <2>2 DEF Names
<1>5. CASE t # s
  BY <1>2, <1>5 DEF Names
<1> QED
  BY <1>4, <1>5

\* A reply that names no alert
LEMMA ReplyKeeps ==
  ASSUME wire \in Wires, NEW s \in Servers, NEW i \in DOMAIN wire[s], NEW reply,
         Reply(s, i, reply),
         wire[s][i].op = "alert" => reply.alert \notin AlertIds
  PROVE  \A a \in AlertIds : Keeps(s, 0, a)
<1>1. wire[s][i] \in Commands /\ wire[s] \in Seq(Commands)
  BY DEF Wires
<1>2. /\ DOMAIN wire'[s] = DOMAIN wire[s]
      /\ wire'[s][i] = [wire[s][i] EXCEPT !.reply = reply]
      /\ \A j \in DOMAIN wire[s] : j # i => wire'[s][j] = wire[s][j]
      /\ \A t \in Servers : t # s => wire'[t] = wire[t]
  BY ReplyPlaces
<1>3. wire'[s][i].op = wire[s][i].op /\ wire'[s][i].reply = reply
  BY <1>1, <1>2 DEF Commands, CommandsOf
<1> SUFFICES ASSUME NEW a \in AlertIds, NEW t \in Servers, NEW j \in Nat,
                    Names(wire', t, j, a)
             PROVE  Names(wire, t, j, a)
  <2>1. \A j \in Nat : j + 0 = j
    OBVIOUS
  <2> QED
    BY <2>1 DEF Keeps
<1>4. CASE t = s /\ j = i
  BY <1>3, <1>4 DEF Names
<1>5. CASE ~(t = s /\ j = i)
  BY <1>2, <1>5 DEF Names
<1> QED
  BY <1>4, <1>5

\* A reply changes nothing for the alerts it does not name.
LEMMA OtherReplyKeeps ==
  ASSUME wire \in Wires, NEW s \in Servers, NEW i \in DOMAIN wire[s], NEW reply,
         Reply(s, i, reply), NEW a \in AlertIds, reply.alert # a
  PROVE  Keeps(s, 0, a)
<1>1. wire[s][i] \in Commands /\ wire[s] \in Seq(Commands)
  BY DEF Wires
<1>2. /\ DOMAIN wire'[s] = DOMAIN wire[s]
      /\ wire'[s][i] = [wire[s][i] EXCEPT !.reply = reply]
      /\ \A j \in DOMAIN wire[s] : j # i => wire'[s][j] = wire[s][j]
      /\ \A t \in Servers : t # s => wire'[t] = wire[t]
  BY ReplyPlaces
<1>3. wire'[s][i].reply = reply
  BY <1>1, <1>2 DEF Commands, CommandsOf
<1> SUFFICES ASSUME NEW t \in Servers, NEW j \in Nat, Names(wire', t, j, a)
             PROVE  Names(wire, t, j, a)
  <2>1. \A j \in Nat : j + 0 = j
    OBVIOUS
  <2> QED
    BY <2>1 DEF Keeps
<1>4. CASE t = s /\ j = i
  BY <1>3, <1>4 DEF Names
<1>5. CASE ~(t = s /\ j = i)
  BY <1>2, <1>5 DEF Names
<1> QED
  BY <1>4, <1>5

LEMMA SameKeeps ==
  ASSUME NEW s \in Servers, wire' = wire
  PROVE  \A a \in AlertIds : Keeps(s, 0, a)
<1>1. \A j \in Nat : j + 0 = j
  OBVIOUS
<1> QED
  BY <1>1 DEF Keeps, Names

\* What dispatchAlert() counts
LEMMA DispatchSent ==
  ASSUME log \in Logs, NEW s \in Servers, NEW alert \in Named, Dispatch(s, alert)
  PROVE  \/ log'.sent = log.sent
         \/ alert \in AlertIds /\ log'.sent = [log.sent EXCEPT ![alert] = @ + 1]
<1>1. CASE alert \in AlertIds /\ s \in owners
  <2>1. log' = [log EXCEPT !.sent = [log.sent EXCEPT ![alert] = @ + 1]]
    BY <1>1 DEF Dispatch, Logs
  <2> QED
    BY <1>1, <2>1 DEF Logs
<1>2. CASE ~(alert \in AlertIds /\ s \in owners)
  BY <1>2 DEF Dispatch
<1> QED
  BY <1>1, <1>2

LEMMA CheckedSent ==
  ASSUME AllTypeOK, SentInv, UsedStays, NEW s \in Servers, Checked(s)
  PROVE  SentInv'
<1> DEFINE c == Head(wire[s])
<1>1. LocalTypeOK
  BY TypeParts
<1>2. wire \in Wires /\ log \in Logs /\ wire[s] # <<>>
  BY <1>1 DEF Checked, LocalTypeOK
<1>3. c \in Commands /\ Tail(wire[s]) \in Seq(Commands) /\ c.level \in ErrorLevels
  BY <1>2, PopType, CommandFields
<1>4. /\ \/ Send(Tail(wire[s]), s, Command("alert", c.level, FALSE))
         \/ wire' = [wire EXCEPT ![s] = Tail(@)]
      /\ Dispatch(s, NoAlert) \/ UNCHANGED <<sending, log>>
  <2> DEFINE updated == updateLocalState(alerter[s], c)
             final == [updated EXCEPT !.alert = AlertLeft(updated),
                          !.lastFailedAt = IF c.level # "NONE" THEN now ELSE @]
  <2>1. updated \in Alerters
    BY <1>1, <1>3, UpdatedType DEF LocalTypeOK, Checked
  <2> HIDE DEF updated
  <2>2. final.alert = NoAlert
    BY <2>1 DEF AlertLeft, Alerters
  <2> HIDE DEF final
  <2>3. /\ \/ Send(Tail(wire[s]), s, Command("alert", c.level, FALSE))
           \/ wire' = [wire EXCEPT ![s] = Tail(@)]
        /\ Dispatch(s, final.alert) \/ UNCHANGED <<sending, log>>
    BY DEF Checked, updated, final
  <2> QED
    BY <2>2, <2>3
<1> HIDE DEF c
<1>5. \A a \in AlertIds : Keeps(s, 1, a)
  <2>1. ASSUME Send(Tail(wire[s]), s, Command("alert", c.level, FALSE))
        PROVE  \A a \in AlertIds : Keeps(s, 1, a)
    <3> DEFINE sent == Command("alert", c.level, FALSE)
    <3>1. sent \in Commands /\ ~sent.reply.done
      BY <1>3, CommandFresh
    <3>2. Send(Tail(wire[s]), s, sent)
      BY <2>1
    <3> HIDE DEF sent
    <3> QED
      BY <1>2, <3>1, <3>2, ReplaceKeeps
  <2> QED
    BY <1>2, <1>4, <2>1, PopKeeps
<1>6. log'.sent = log.sent
  BY <1>2, <1>4, DispatchSent, NoAlertAssumption DEF Named
<1> QED
  BY <1>5, <1>6, KeepsSent DEF SentInv

\* The one place that sends an alert: its answer is gone with it.
LEMMA WrittenSent ==
  ASSUME AllTypeOK, AllTypeOK', SentInv, UsedStays, NEW s \in Servers, Written(s)
  PROVE  SentInv'
<1> DEFINE c == Head(wire[s])
<1>1. LocalTypeOK
  BY TypeParts
<1>2. wire \in Wires /\ log \in Logs /\ wire[s] # <<>> /\ c.op = "alert" /\ c.reply.done
  BY <1>1 DEF Written, LocalTypeOK
<1>3. c \in Commands /\ c = wire[s][1] /\ 1 \in DOMAIN wire[s]
  BY <1>2, PopType
<1> HIDE DEF c
<1>4. PICK alert \in Named : alert = c.reply.alert
  BY <1>2, <1>3, CommandFields DEF AlertReplies, Named
<1>5. alert \in AlertIds => Names(wire, s, 1, alert)
  BY <1>2, <1>3, <1>4 DEF Names
<1>6. /\ \/ Send(Tail(wire[s]), s, Command("clear", "NONE", FALSE))
         \/ wire' = [wire EXCEPT ![s] = Tail(@)]
      /\ Dispatch(s, alert) \/ UNCHANGED <<sending, log>>
  BY <1>4 DEF Written, c
<1>7. \A a \in AlertIds : Keeps(s, 1, a)
  <2>1. ASSUME Send(Tail(wire[s]), s, Command("clear", "NONE", FALSE))
        PROVE  \A a \in AlertIds : Keeps(s, 1, a)
    <3> DEFINE clear == Command("clear", "NONE", FALSE)
    <3>1. clear \in Commands /\ ~clear.reply.done
      BY CommandFresh DEF ErrorLevels
    <3>2. Send(Tail(wire[s]), s, clear)
      BY <2>1
    <3> HIDE DEF clear
    <3> QED
      BY <1>2, <3>1, <3>2, ReplaceKeeps
  <2> QED
    BY <1>2, <1>6, <2>1, PopKeeps
<1>8. CASE log'.sent = log.sent
  BY <1>7, <1>8, KeepsSent DEF SentInv
<1>9. CASE alert \in AlertIds /\ log'.sent = [log.sent EXCEPT ![alert] = @ + 1]
  <2>0. SentOf(alert) /\ Names(wire, s, 1, alert) /\ Keeps(s, 1, alert)
    BY <1>5, <1>7, <1>9 DEF SentInv
  <2>1. log.sent[alert] = 0 /\ log.sent \in [AlertIds -> Nat]
    BY <1>2, <2>0 DEF SentOf, Logs
  <2>2. log'.sent[alert] = 1
    BY <1>9, <2>1
  <2>3. ASSUME NEW t \in Servers, NEW i \in Nat, Names(wire', t, i, alert)
        PROVE  FALSE
    <3>1. i # 0
      <4>1. wire'[t] \in Seq(Commands)
        BY DEF AllTypeOK
      <4>2. 0 \notin DOMAIN wire'[t]
        BY <4>1
      <4> QED
        BY <2>3, <4>2 DEF Names
    <3>2. CASE t = s
      <4>1. Names(wire, s, i + 1, alert)
        BY <2>0, <2>3, <3>2 DEF Keeps
      <4>2. i + 1 = 1
        BY <2>0, <4>1 DEF SentOf
      <4> QED
        BY <3>1, <4>2
    <3>3. CASE t # s
      <4>1. Names(wire, t, i, alert)
        BY <2>0, <2>3, <3>3 DEF Keeps
      <4> QED
        BY <2>0, <3>3, <4>1 DEF SentOf
    <3> QED
      BY <3>2, <3>3
  <2>4. db'.alerts[alert] # "unused"
    BY <1>9, <2>0 DEF SentOf, UsedStays
  <2>5. SentOf(alert)'
    BY <2>2, <2>3, <2>4 DEF SentOf
  <2>6. ASSUME NEW a \in AlertIds, a # alert
        PROVE  SentOf(a)'
    <3>1. log'.sent[a] = log.sent[a]
      BY <1>9, <2>1, <2>6
    <3> QED
      BY <1>7, <3>1, KeepsSent
  <2> QED
    BY <2>5, <2>6 DEF SentInv
<1> QED
  BY <1>2, <1>4, <1>6, <1>8, <1>9, DispatchSent

\* The other steps of a server send no alert.
LEMMA ServerSent ==
  ASSUME AllTypeOK, SentInv, UsedStays, NEW s \in Servers,
         \/ \E level \in ErrorLevels : HandleResult(s, level)
         \/ ClearDone(s) \/ Dispatched(s) \/ Marked(s) \/ StartAlerter(s) \/ Started(s)
  PROVE  SentInv'
<1>1. wire \in Wires /\ log \in Logs
  BY TypeParts DEF LocalTypeOK
<1>2. log'.sent = log.sent
  BY <1>1 DEF HandleResult, ClearDone, DispatchReset, Dispatched, Marked, StartAlerter,
              Started, Logs
<1>3. CASE ClearDone(s) \/ Marked(s) \/ Started(s)
  <2>1. \A a \in AlertIds : Keeps(s, 1, a)
    BY <1>1, <1>3, PopKeeps DEF ClearDone, Marked, Started
  <2> QED
    BY <1>2, <2>1, KeepsSent DEF SentInv
<1>4. CASE \E level \in ErrorLevels : HandleResult(s, level)
  <2>1. PICK level \in ErrorLevels :
          Send(wire[s], s, Command("check", level, alerter[s].tripped))
    BY <1>4 DEF HandleResult
  <2> DEFINE c == Command("check", level, alerter[s].tripped)
  <2>2. alerter[s].tripped \in BOOLEAN
    BY TypeParts DEF LocalTypeOK, Alerters
  <2>3. c \in Commands /\ ~c.reply.done /\ Send(wire[s], s, c)
    BY <2>1, <2>2, CommandFresh
  <2> HIDE DEF c
  <2> QED
    BY <1>1, <1>2, <2>3, SendKeeps, KeepsSent DEF SentInv
<1>5. CASE Dispatched(s)
  <2> DEFINE c == Command("mark", "NONE", FALSE)
  <2>1. c \in Commands /\ ~c.reply.done
    BY CommandFresh DEF ErrorLevels
  <2>2. Send(wire[s], s, c) \/ wire' = wire
    BY <1>5 DEF Dispatched
  <2> HIDE DEF c
  <2> QED
    BY <1>1, <1>2, <2>1, <2>2, SendKeeps, SameKeeps, KeepsSent DEF SentInv
<1>6. CASE StartAlerter(s)
  <2> DEFINE c == Command("start", "NONE", FALSE)
  <2>1. c \in Commands /\ ~c.reply.done
    BY CommandFresh DEF ErrorLevels
  <2>2. Send(wire[s], s, c)
    BY <1>6 DEF StartAlerter
  <2> HIDE DEF c
  <2> QED
    BY <1>1, <1>2, <2>1, <2>2, SendKeeps, KeepsSent DEF SentInv
<1> QED
  BY <1>3, <1>4, <1>5, <1>6

\* Redis answers a command that names no alert.
LEMMA ExecutedSent ==
  ASSUME AllTypeOK, AllTypeOK', SentInv, UsedStays, NEW s \in Servers,
         ExecuteCheck(s) \/ ExecuteMark(s) \/ ExecuteStart(s) \/ ExecuteClear(s)
  PROVE  SentInv'
<1>1. wire \in Wires /\ wire' \in Wires /\ log \in Logs
  BY TypeParts DEF LocalTypeOK, AllTypeOK, Wires
<1>2. log'.sent = log.sent
  BY <1>1 DEF ExecuteCheck, ExecuteMark, ExecuteStart, ExecuteClear, CountPeriod, Logs
<1>3. PICK i \in DOMAIN wire[s], reply \in {[done |-> TRUE], CheckReply(Start(Loaded), db')} :
        Reply(s, i, reply) /\ wire[s][i].op # "alert"
  BY DEF ExecuteCheck, ExecuteMark, ExecuteStart, ExecuteClear, IsNext
<1>4. \A a \in AlertIds : Keeps(s, 0, a)
  BY <1>1, <1>3, ReplyKeeps
<1> QED
  BY <1>2, <1>4, KeepsSent DEF SentInv

\* The id that a reply names was in use nowhere before.
LEMMA AlertSent ==
  ASSUME IInv, AllTypeOK, SentInv, UsedStays, NEW s \in Servers, ExecuteAlert(s)
  PROVE  SentInv'
<1>1. wire \in Wires /\ log \in Logs
  BY TypeParts DEF LocalTypeOK
<1>2. PICK i \in DOMAIN wire[s] :
        /\ wire[s][i].op = "alert" /\ ~wire[s][i].reply.done
        /\ LET id == CHOOSE a \in AlertIds : db.alerts[a] = "unused"
               level == wire[s][i].level
           IN IF db.rule.isActive
                THEN /\ \E a \in AlertIds : db.alerts[a] = "unused"
                     /\ Alert(id, level)
                     /\ Reply(s, i, [done |-> TRUE,
                                     alert |-> IF level = "NONE" THEN NoAlert ELSE id])
                     /\ log' = [log EXCEPT !.of[id] = log.period]
                ELSE /\ Reply(s, i, [done |-> TRUE, alert |-> EmptyAlert])
                     /\ UNCHANGED <<vars, log>>
  BY DEF ExecuteAlert, IsNext
<1>3. log'.sent = log.sent
  BY <1>1, <1>2 DEF Logs
<1>4. PICK alert \in Named :
        /\ Reply(s, i, [done |-> TRUE, alert |-> alert])
        /\ alert \in AlertIds =>
             /\ db.alerts[alert] = "unused"
             /\ \E level \in ErrorLevels : Alert(alert, level)
  <2>1. CASE ~db.rule.isActive
    BY <1>2, <2>1, EmptyAlertAssumption DEF Named
  <2>2. CASE db.rule.isActive
    <3>1. PICK id \in AlertIds :
            /\ db.alerts[id] = "unused"
            /\ Alert(id, wire[s][i].level)
            /\ Reply(s, i, [done |-> TRUE,
                            alert |-> IF wire[s][i].level = "NONE" THEN NoAlert ELSE id])
      BY <1>2, <2>2
    <3>2. wire[s][i].level \in ErrorLevels
      BY <1>1, CommandFields DEF Wires
    <3> QED
      BY <3>1, <3>2, NoAlertAssumption DEF Named
  <2> QED
    BY <2>1, <2>2
<1>5. ASSUME NEW a \in AlertIds, a # alert
      PROVE  Keeps(s, 0, a)
  BY <1>1, <1>4, <1>5, OtherReplyKeeps
<1>6. ASSUME NEW a \in AlertIds, a # alert
      PROVE  SentOf(a)'
  BY <1>3, <1>5, <1>6, KeepsSent
<1>7. CASE alert \in AlertIds
  <2>1. SentOf(alert) /\ db.alerts[alert] = "unused"
    BY <1>4, <1>7 DEF SentInv
  <2>2. log.sent[alert] = 0 /\ \A t \in Servers, j \in Nat : ~Names(wire, t, j, alert)
    BY <2>1 DEF SentOf
  <2>3. \A t \in Servers, j \in Nat : Names(wire', t, j, alert) => t = s /\ j = i
    <3>1. /\ DOMAIN wire'[s] = DOMAIN wire[s]
          /\ \A j \in DOMAIN wire[s] : j # i => wire'[s][j] = wire[s][j]
          /\ \A t \in Servers : t # s => wire'[t] = wire[t]
      BY <1>1, <1>4, ReplyPlaces
    <3> QED
      BY <2>2, <3>1 DEF Names
  <2>4. db'.alerts[alert] # "unused"
    <3>1. db'.alerts = [db.alerts EXCEPT ![alert] = "open"]
      BY <1>4, <1>7, AlertWritten
    <3>2. alert \in DOMAIN db.alerts
      BY <1>7 DEF AllTypeOK, TypeOK, Database
    <3> QED
      BY <3>1, <3>2
  <2>5. SentOf(alert)'
    BY <1>3, <2>2, <2>3, <2>4 DEF SentOf
  <2> QED
    BY <1>6, <2>5 DEF SentInv
<1>8. CASE alert \notin AlertIds
  BY <1>6, <1>8 DEF SentInv
<1> QED
  BY <1>7, <1>8

\* What happens around: a crash forgets answers.
LEMMA AroundSent ==
  ASSUME AllTypeOK, SentInv, UsedStays,
         \/ \E s \in Servers : GainLock(s) \/ LoseLock(s) \/ Crash(s)
         \/ Query \/ UpdateRule \/ TimePasses \/ UNCHANGED allVars
  PROVE  SentInv'
<1>1. wire \in Wires /\ log \in Logs
  BY TypeParts DEF LocalTypeOK
<1>2. log'.sent = log.sent
  BY <1>1, UpdatedRule
  DEF GainLock, LoseLock, Crash, Fault, Query, CountPeriod, TimePasses, allVars, Logs
<1>3. wire' = wire \/ \E s \in Servers : wire' = [wire EXCEPT ![s] = <<>>]
  BY UpdatedRule DEF GainLock, LoseLock, Crash, Query, TimePasses, local, allVars
<1>4. \A t \in Servers, i \in Nat, a \in AlertIds :
        Names(wire', t, i, a) => Names(wire, t, i, a)
  <2>1. \A t \in Servers : wire'[t] = wire[t] \/ wire'[t] = <<>>
    BY <1>1, <1>3 DEF Wires
  <2> QED
    BY <2>1 DEF Names
<1> QED
  BY <1>2, <1>4 DEF SentInv, SentOf, UsedStays

LEMMA StepSent ==
  IInv /\ AllTypeOK /\ SentInv /\ [AllNext]_allVars => SentInv'
<1> SUFFICES ASSUME IInv, AllTypeOK, SentInv, [AllNext]_allVars
             PROVE  SentInv'
  OBVIOUS
<1>1. AllTypeOK' /\ [Next]_vars
  BY StepType, CircuitStep
<1>2. UsedStays
  BY <1>1, AlertsStayUsed DEF UsedStays
<1> QED
  BY <1>1, <1>2, CheckedSent, WrittenSent, ServerSent, ExecutedSent, AlertSent, AroundSent
  DEF AllNext

LEMMA SentInvariance == AllSpec => []SentInv
<1>1. AllInit => SentInv
  <2> SUFFICES ASSUME AllInit
               PROVE  SentInv
    OBVIOUS
  <2>1. \A a \in AlertIds : log.sent[a] = 0
    <3>1. log.sent = [a \in AlertIds |-> 0]
      BY DEF AllInit
    <3> QED
      BY <3>1
  <2>2. ASSUME NEW s \in Servers, NEW i \in Nat, NEW a \in AlertIds, Names(wire, s, i, a)
        PROVE  FALSE
    <3>1. wire[s] = <<>>
      BY DEF AllInit
    <3>2. i \in DOMAIN wire[s]
      BY <2>2 DEF Names
    <3> QED
      BY <3>1, <3>2
  <2> SUFFICES ASSUME NEW a \in AlertIds
               PROVE  SentOf(a)
    BY DEF SentInv
  <2>3. log.sent[a] = 0
    BY <2>1
  <2> QED
    BY <2>2, <2>3 DEF SentOf
<1> QED
  BY <1>1, StepSent, TypeInvariance, PTL DEF AllSpec

\* No alert is sent twice, for any number of servers, owners and results under
\* way: dispatchAlert() runs once for the one answer that brings an alert's id.
THEOREM SendsOnce == AllSpec => []SentOnce
<1>1. SentInv => SentOnce
  BY DEF SentInv, SentOf, SentOnce
<1> QED
  BY <1>1, SentInvariance, PTL

\* What Redis does for a command to write an alert
LEMMA AlertCases ==
  ASSUME AllTypeOK, NEW s \in Servers, ExecuteAlert(s)
  PROVE  \E i \in DOMAIN wire[s], alert \in Named :
           /\ IsNext(s, i, "alert")
           /\ Reply(s, i, [done |-> TRUE, alert |-> alert])
           /\ \/ /\ ~db.rule.isActive /\ UNCHANGED vars
              \/ /\ db.rule.isActive
                 /\ wire[s][i].level = "NONE" => alert = NoAlert
                 /\ \E id \in AlertIds : Alert(id, wire[s][i].level)
           /\ wire[s][i].level \in ErrorLevels
<1>1. wire \in Wires
  BY TypeParts DEF LocalTypeOK
<1>2. PICK i \in DOMAIN wire[s] :
        /\ IsNext(s, i, "alert")
        /\ LET id == CHOOSE a \in AlertIds : db.alerts[a] = "unused"
               level == wire[s][i].level
           IN IF db.rule.isActive
                THEN /\ \E a \in AlertIds : db.alerts[a] = "unused"
                     /\ Alert(id, level)
                     /\ Reply(s, i, [done |-> TRUE,
                                     alert |-> IF level = "NONE" THEN NoAlert ELSE id])
                ELSE /\ Reply(s, i, [done |-> TRUE, alert |-> EmptyAlert])
                     /\ UNCHANGED <<vars, log>>
  BY DEF ExecuteAlert
<1>3. wire[s][i].level \in ErrorLevels
  BY <1>1, CommandFields DEF Wires
<1>4. CASE ~db.rule.isActive
  <2>1. Reply(s, i, [done |-> TRUE, alert |-> EmptyAlert]) /\ UNCHANGED vars
    BY <1>2, <1>4
  <2>2. EmptyAlert \in Named
    BY DEF Named
  <2> QED
    BY <1>2, <1>3, <1>4, <2>1, <2>2
<1>5. CASE db.rule.isActive
  <2>1. PICK id \in AlertIds :
          /\ Alert(id, wire[s][i].level)
          /\ Reply(s, i, [done |-> TRUE,
                          alert |-> IF wire[s][i].level = "NONE" THEN NoAlert ELSE id])
    BY <1>2, <1>5
  <2> DEFINE alert == IF wire[s][i].level = "NONE" THEN NoAlert ELSE id
  <2>2. alert \in Named /\ (wire[s][i].level = "NONE" => alert = NoAlert)
    BY DEF Named
  <2>3. Reply(s, i, [done |-> TRUE, alert |-> alert])
    BY <2>1
  <2> HIDE DEF alert
  <2> QED
    BY <1>2, <1>3, <1>5, <2>1, <2>2, <2>3
<1> QED
  BY <1>4, <1>5

-----------------------------------------------------------------------------
(* What the calls of an alerter leave of the circuit.                       *)

\* Without a recovery window, a call that counts no result neither opens nor
\* closes the circuit of a rule with a threshold.
LEMMA CalmKeepsCircuit ==
  ASSUME TypeOK, NEW d \in CallData, NEW e, Calm(d, e), Settled(d),
         opts.failureThreshold > 0, opts.recoveryWindow = 0
  PROVE  e.st.circuit = d.st.circuit
<1>1. /\ d.st.circuit \in {"OPEN", "CLOSED"} /\ e.st.circuit \in {"OPEN", "CLOSED"}
      /\ ~CooledDown(d)
  BY SMTT(30) DEF Calm, CallData, StateHash, CooledDown
<1> QED
  BY <1>1 DEF Calm

\* updateCircuit starts and stops nothing; a circuit that stays open is left
\* alone, and one that opens has warmed up as long as before.
LEMMA UpdateCircuitKeeps ==
  ASSUME TypeOK, NEW d \in CallData
  PROVE  LET u == UpdateCircuit(d)
         IN /\ u \in CallData
            /\ u.st.isStarted = d.st.isStarted
            /\ u.st.circuit = "OPEN" => u.st.warmupStart = d.st.warmupStart
            /\ u.st.circuit = "OPEN" /\ d.st.circuit = "OPEN" => u = d
<1>1. d.st \in StateHash
  BY DEF CallData
<1>2. /\ Tripped(d).isStarted = d.st.isStarted
      /\ Tripped(d).warmupStart = d.st.warmupStart
      /\ Recovered(d).isStarted = d.st.isStarted /\ Recovered(d).circuit = "CLOSED"
  BY <1>1 DEF Tripped, Recovered, EmptyState, StateHash
<1> QED
  BY <1>2, UpdateCircuitCases

\* Counting a result touches the counters of the hash and nothing else.
LEMMA ResultCounts ==
  ASSUME TypeOK, NEW d \in CallData, NEW level \in ErrorLevels,
         NEW e \in {HandleFailure(d, level), HandleSuccess(d)}
  PROVE  /\ e \in CallData /\ e.alerts = d.alerts /\ e.rule = d.rule
         /\ e.st.isStarted = d.st.isStarted /\ e.st.warmupStart = d.st.warmupStart
         /\ e.st.circuit = d.st.circuit /\ e.st.alertId = d.st.alertId
<1> DEFINE f == d.mem.failures + 1
           n == d.mem.successes + 1
           bad == [d.st EXCEPT !.errorType = RuleStateOf(level), !.lastFailure = now,
                               !.failures = f, !.successes = 0,
                               !.totalFailures = @ + 1]
           good == [d.st EXCEPT !.successes = n]
           badCopy == [d.mem EXCEPT !.failures = f, !.successes = 0]
           goodCopy == [d.mem EXCEPT !.successes = n]
<1>1. d.st \in StateHash /\ d.mem \in Copies /\ now \in Nat
  BY DEF CallData, TypeOK
<1>2. f \in Nat /\ n \in Nat /\ d.st.totalFailures + 1 \in Nat
  BY <1>1 DEF StateHash, Copies
<1>3. e = [d EXCEPT !.st = bad, !.mem = badCopy]
        \/ e = [d EXCEPT !.st = good, !.mem = goodCopy]
  BY DEF HandleFailure, HandleSuccess, CallData
<1> HIDE DEF f, n
<1>4. bad \in StateHash /\ good \in StateHash
  <2>1. RuleStateOf(level) \in {NoError, "WARNING", "ERROR"}
    BY DEF RuleStateOf
  <2> QED
    BY <1>1, <1>2, <2>1 DEF StateHash
<1>5. badCopy \in Copies /\ goodCopy \in Copies
  BY <1>1, <1>2 DEF Copies
<1>6. \A st \in {bad, good} :
        /\ st.isStarted = d.st.isStarted /\ st.warmupStart = d.st.warmupStart
        /\ st.circuit = d.st.circuit /\ st.alertId = d.st.alertId
  BY <1>1 DEF StateHash
<1> HIDE DEF bad, good, badCopy, goodCopy
<1>7. /\ e \in CallData /\ e.alerts = d.alerts /\ e.rule = d.rule
      /\ e.st \in {bad, good}
  BY <1>3, <1>4, <1>5 DEF CallData
<1> QED
  BY <1>6, <1>7

\* A checked result starts and stops nothing, nor does it touch the alert of
\* a circuit that stays open.
LEMMA CheckNotifyKeeps ==
  ASSUME TypeOK, NEW d \in CallData, NEW level \in ErrorLevels
  PROVE  LET u == CheckNotify(d, level)
         IN /\ u \in CallData
            /\ u.st.isStarted = d.st.isStarted
            /\ u.st.circuit = "OPEN" => u.st.warmupStart = d.st.warmupStart
            /\ u.st.circuit = "OPEN" /\ d.st.circuit = "OPEN" =>
                 u.alerts = d.alerts /\ u.st.alertId = d.st.alertId
<1>1. CASE CheckNotify(d, level) = d
  BY <1>1
<1>2. ASSUME NEW e \in {HandleFailure(d, level), HandleSuccess(d)},
             CheckNotify(d, level) = UpdateCircuit(e)
      PROVE  LET u == CheckNotify(d, level)
             IN /\ u \in CallData
                /\ u.st.isStarted = d.st.isStarted
                /\ u.st.circuit = "OPEN" => u.st.warmupStart = d.st.warmupStart
                /\ u.st.circuit = "OPEN" /\ d.st.circuit = "OPEN" =>
                     u.alerts = d.alerts /\ u.st.alertId = d.st.alertId
  BY <1>2, ResultCounts, UpdateCircuitKeeps
<1> QED
  BY <1>1, <1>2 DEF CheckNotify

\* What the writing of an alert and a mark change of the hash.
LEMMA WriteAlertKeeps ==
  ASSUME IInv, NEW id \in AlertIds, NEW level \in ErrorLevels, Alert(id, level)
  PROVE  /\ db'.st = [db.st EXCEPT !.alertId = id]
         /\ db'.alerts = [db.alerts EXCEPT ![id] = "open"]
         /\ UNCHANGED <<opts, now>>
<1> DEFINE a == [Loaded EXCEPT !.st.alertId = id, !.alerts[id] = "open"]
           e == EmitEvent(a, "alert.triggered", id)
<1>1. /\ Loaded \in CallData /\ Loaded.st = db.st /\ db.st \in StateHash
  BY LoadedFacts
<1>2. a \in CallData /\ a.st = [db.st EXCEPT !.alertId = id]
  BY <1>1 DEF CallData, StateHash, AlertStatuses
<1>3. "alert.triggered" \in EventNames /\ RuleStateOf(level) \in RuleStates
  BY DEF EventNames, RuleStateOf, RuleStates
<1> HIDE DEF a
<1>4. e \in CallData /\ e.st = a.st
  BY <1>2, <1>3, EmitEventType
<1> HIDE DEF e
<1>5. UpdateRuleState(e, RuleStateOf(level)).st = e.st
  BY <1>3, <1>4, UpdateRuleStateType
<1>6. /\ db'.st \in {e.st, UpdateRuleState(e, RuleStateOf(level)).st}
      /\ UNCHANGED <<opts, now>>
  BY DEF Alert, Call, Ended, WriteAlert, e, a
<1> QED
  BY <1>2, <1>4, <1>5, <1>6, AlertWritten

LEMMA MarkKeeps ==
  ASSUME IInv, MarkNotify
  PROVE  /\ db'.alerts = db.alerts /\ db'.st.alertId = db.st.alertId
         /\ db'.st.circuit = db.st.circuit /\ db'.st.isStarted = db.st.isStarted
         /\ db'.st.warmupStart = db.st.warmupStart
         /\ db'.rule = db.rule
<1> DEFINE e == MarkNotification(Loaded)
<1>1. /\ Loaded \in CallData /\ Loaded.st = db.st /\ db.st \in StateHash
      /\ Loaded.alerts = db.alerts /\ Loaded.rule = db.rule
  BY LoadedFacts
<1>2. /\ e.alerts = db.alerts /\ e.st.alertId = db.st.alertId
      /\ e.st.circuit = db.st.circuit /\ e.st.isStarted = db.st.isStarted
      /\ e.st.warmupStart = db.st.warmupStart
      /\ e.rule = db.rule
  BY <1>1 DEF MarkNotification, CallData, StateHash
<1> QED
  BY <1>2 DEF MarkNotify, Ended

\* With a threshold, the circuit does not open before the rule is started and
\* has warmed up.
OpenWhenWarm(d) ==
  opts.failureThreshold > 0 /\ d.st.circuit = "OPEN" =>
    d.st.isStarted /\ ~IsWarmingUp(d)

LEMMA StartKeepsWarm ==
  ASSUME TypeOK, now >= Epoch, NEW d \in CallData, Fresh(d), Settled(d),
         OpenWhenWarm(d)
  PROVE  /\ Start(d) \in CallData /\ Start(d).st.isStarted
         /\ OpenWhenWarm(Start(d))
<1>1. Calm(d, Start(d)) /\ Start(d).st.isStarted /\ Start(d) \in CallData
  BY StartCalm DEF Calm
<1>2. CASE d.st.isStarted
  BY <1>1, <1>2 DEF Start
<1>3. CASE ~d.st.isStarted
  <2>1. opts.failureThreshold > 0 => d.st.circuit # "OPEN"
    BY <1>3 DEF OpenWhenWarm
  <2>2. d.st.circuit \in {"OPEN", "CLOSED"}
    BY DEF CallData, StateHash
  <2>3. opts.failureThreshold > 0 => Start(d).st.circuit # "OPEN"
    BY <1>1, <2>1, <2>2 DEF Calm
  <2> QED
    BY <1>1, <2>3 DEF OpenWhenWarm
<1> QED
  BY <1>2, <1>3

LEMMA CheckKeepsWarm ==
  ASSUME IInv, ~hist.saved, OpenWhenWarm(db), NEW level \in ErrorLevels, Check(level)
  PROVE  OpenWhenWarm(db)'
<1> DEFINE d == Start(Loaded)
           e == CheckNotify(d, level)
<1>1. /\ TypeOK /\ now >= Epoch /\ Loaded \in CallData /\ Fresh(Loaded)
      /\ Settled(Loaded) /\ OpenWhenWarm(Loaded)
  BY LoadedFacts DEF IInv, OpenWhenWarm, IsWarmingUp
<1>2. d \in CallData /\ d.st.isStarted /\ OpenWhenWarm(d)
  BY <1>1, StartKeepsWarm
<1>3. db'.st = e.st /\ opts' = opts /\ now' = now
  BY CheckLeads
<1> HIDE DEF d
<1>4. CASE CheckStatus(d) # "ok"
  <2>1. e = d
    BY <1>4 DEF CheckNotify
  <2> QED
    BY <1>2, <1>3, <2>1 DEF OpenWhenWarm, IsWarmingUp
<1>5. CASE CheckStatus(d) = "ok"
  <2>1. ~IsWarmingUp(d)
    BY <1>5 DEF CheckStatus
  <2>2. e.st.isStarted /\ (e.st.circuit = "OPEN" => e.st.warmupStart = d.st.warmupStart)
    BY <1>1, <1>2, CheckNotifyKeeps
  <2> HIDE DEF e
  <2> QED
    BY <1>3, <2>1, <2>2 DEF OpenWhenWarm, IsWarmingUp
<1> QED
  BY <1>4, <1>5

\* A call that opens no circuit with a threshold, and leaves one that stays
\* open as started and as warm as it was.
LEMMA CallKeepsWarm ==
  ASSUME IInv, ~hist.saved, OpenWhenWarm(db), NEW e, NEW updates, CalmCall(e, updates),
         e.st.circuit = "OPEN" /\ db.st.circuit = "OPEN" =>
           e.st.isStarted = db.st.isStarted /\ e.st.warmupStart = db.st.warmupStart
  PROVE  OpenWhenWarm(db)'
<1>1. /\ Loaded.st = db.st /\ db'.st = e.st /\ opts' = opts /\ now' = now
      /\ db.st.circuit \in {"OPEN", "CLOSED"}
      /\ Calm(Loaded, e) /\ Settled(Loaded)
  BY LoadedFacts, CallLeads DEF StateHash
<1>2. opts.failureThreshold > 0 /\ e.st.circuit = "OPEN" => db.st.circuit = "OPEN"
  BY <1>1 DEF Calm
<1> QED
  BY <1>1, <1>2 DEF OpenWhenWarm, IsWarmingUp

\* What clearState leaves of an open circuit that stays open.
LEMMA ClearStateKeeps ==
  ASSUME TypeOK, NEW d \in CallData
  PROVE  /\ ClearState(d).st.isStarted = d.st.isStarted
         /\ ClearState(d).st.circuit = "OPEN" =>
              ClearState(d).st.warmupStart = d.st.warmupStart
<1>1. ResetAlert(d) \in CallData /\ ResetAlert(d).st = d.st
  BY ResetAlertType
<1> QED
  BY <1>1, UpdateCircuitKeeps DEF ClearState

LEMMA StepKeepsWarm ==
  ASSUME IInv, AllTypeOK, hist.saves = 0 => OpenWhenWarm(db), [AllNext]_allVars,
         hist'.saves = 0
  PROVE  OpenWhenWarm(db)'
<1>0. /\ TypeOK /\ now >= Epoch /\ Loaded \in CallData /\ Loaded.st = db.st
      /\ Fresh(Loaded) /\ Settled(Loaded)
      /\ OpenWhenWarm(Loaded) /\ OpenWhenWarm(db) /\ wire \in Wires
      /\ now \in Nat /\ opts \in AlertOptions /\ db.st \in StateHash
      /\ ~hist.saved /\ opts' = opts
  BY OptionsStay, LoadedFacts, OptionFacts, TypeParts
  DEF IInv, OpenWhenWarm, IsWarmingUp, LocalTypeOK, TypeOK
<1>1. CASE UNCHANGED vars
  BY <1>0, <1>1 DEF vars, OpenWhenWarm, IsWarmingUp
<1>2. ASSUME NEW s \in Servers, ExecuteCheck(s)
      PROVE  OpenWhenWarm(db)'
  <2>1. PICK i \in DOMAIN wire[s] : Check(wire[s][i].level)
    BY <1>2 DEF ExecuteCheck
  <2>2. wire[s][i].level \in ErrorLevels
    BY <1>0, <2>1, CommandFields DEF Wires
  <2> QED
    BY <1>0, <2>1, <2>2, CheckKeepsWarm
<1>3. ASSUME StartRule
      PROVE  OpenWhenWarm(db)'
  <2>1. OpenWhenWarm(Start(Loaded))
    BY <1>0, <1>3, StartKeepsWarm
  <2>2. db'.st = Start(Loaded).st /\ now' = now
    BY <1>3, CallsAreCalm, CallLeads
  <2> QED
    BY <1>0, <2>1, <2>2 DEF OpenWhenWarm, IsWarmingUp
<1>4. ASSUME Clear
      PROVE  OpenWhenWarm(db)'
  <2>1. CalmCall(ClearState(Loaded), TRUE)
    BY <1>4, CallsAreCalm
  <2> QED
    BY <1>0, <2>1, ClearStateKeeps, CallKeepsWarm
<1>5. ASSUME QueryState
      PROVE  OpenWhenWarm(db)'
  <2>1. CalmCall(UpdateCircuit(Loaded), TRUE)
    BY <1>5, CallsAreCalm
  <2> QED
    BY <1>0, <2>1, UpdateCircuitKeeps, CallKeepsWarm
<1>6. ASSUME UNCHANGED <<opts, now>>, db'.st.circuit = db.st.circuit,
             db'.st.isStarted = db.st.isStarted, db'.st.warmupStart = db.st.warmupStart
      PROVE  OpenWhenWarm(db)'
  BY <1>0, <1>6 DEF OpenWhenWarm, IsWarmingUp
<1>7. ASSUME NEW s \in Servers, ExecuteAlert(s)
      PROVE  OpenWhenWarm(db)'
  <2>1. CASE UNCHANGED vars
    BY <1>1, <2>1
  <2>2. CASE \E id \in AlertIds, level \in ErrorLevels : Alert(id, level)
    <3>1. PICK id \in AlertIds, level \in ErrorLevels : Alert(id, level)
      BY <2>2
    <3>2. db'.st = [db.st EXCEPT !.alertId = id] /\ UNCHANGED <<opts, now>>
      BY <3>1, WriteAlertKeeps
    <3>3. /\ db'.st.circuit = db.st.circuit /\ db'.st.isStarted = db.st.isStarted
          /\ db'.st.warmupStart = db.st.warmupStart
      BY <1>0, <3>2 DEF StateHash
    <3> QED
      BY <1>6, <3>2, <3>3
  <2> QED
    BY <1>7, <2>1, <2>2, AlertCases
<1>8. ASSUME MarkNotify
      PROVE  OpenWhenWarm(db)'
  <2>1. UNCHANGED <<opts, now>>
    BY <1>8 DEF MarkNotify
  <2> QED
    BY <1>6, <1>8, <2>1, MarkKeeps
<1>9. CASE UpdateRule
  BY <1>0, <1>6, <1>9, UpdatedRule
<1>10. CASE TimePasses
  <2>1. db' = db /\ opts' = opts /\ now' = now + 1
    BY <1>10 DEF TimePasses, Tick
  <2>2. db.st.warmupStart \in Nat /\ opts.warmupWindow \in Nat
    BY <1>0 DEF StateHash, AlertOptions
  <2> QED
    BY <1>0, <2>1, <2>2 DEF OpenWhenWarm, IsWarmingUp
<1>11. ASSUME NEW s \in Servers,
              ExecuteStart(s) \/ ExecuteClear(s) \/ ExecuteMark(s)
       PROVE  OpenWhenWarm(db)'
  BY <1>3, <1>4, <1>8, <1>11 DEF ExecuteStart, ExecuteClear, ExecuteMark
<1>12. CASE Query
  BY <1>5, <1>12 DEF Query
<1>13. ASSUME NEW s \in Servers,
             \/ \E level \in ErrorLevels : HandleResult(s, level)
             \/ Checked(s) \/ Written(s) \/ ClearDone(s)
             \/ Dispatched(s) \/ Marked(s)
             \/ StartAlerter(s) \/ Started(s)
             \/ GainLock(s) \/ LoseLock(s) \/ Crash(s)
      PROVE  UNCHANGED vars
  BY <1>13 DEF HandleResult, Checked, Written, ClearDone, Dispatched, Marked,
              StartAlerter, Started, GainLock, LoseLock, Crash, Fault
<1>14. CASE UNCHANGED allVars
  BY <1>1, <1>14 DEF allVars
<1> QED
  BY <1>1, <1>2, <1>7, <1>9, <1>10, <1>11, <1>12, <1>13, <1>14 DEF AllNext

\* No call of the script activates a rule.
LEMMA UpdateActive ==
  ASSUME TypeOK, NEW d \in CallData
  PROVE  /\ \A x \in RuleStates : UpdateRuleState(d, x).rule.isActive = d.rule.isActive
         /\ UpdateCircuit(d).rule.isActive = d.rule.isActive
         /\ ClearState(d).rule.isActive = d.rule.isActive
<1>1. ASSUME NEW f \in CallData, NEW x \in RuleStates
      PROVE  UpdateRuleState(f, x).rule.isActive = f.rule.isActive
    BY DEF UpdateRuleState, EmitEvent, CallData
<1>2. ASSUME NEW f \in CallData
      PROVE  UpdateCircuit(f).rule.isActive = f.rule.isActive
  <2>1. OpenCircuit(f).rule.isActive = f.rule.isActive
    <3> DEFINE x == IF f.st.errorType = NoError THEN "WARNING" ELSE f.st.errorType
    <3>1. x \in RuleStates
      BY DEF CallData, StateHash, RuleStates, NoError
    <3> HIDE DEF x
    <3>2. UpdateRuleState(f, x) \in CallData
      BY <3>1, UpdateRuleStateType
    <3>3. OpenCircuit(f).rule = UpdateRuleState(f, x).rule
      BY <3>2 DEF OpenCircuit, x, CallData
    <3> QED
      BY <1>1, <3>1, <3>3
  <2>2. CloseCircuit(f).rule.isActive = f.rule.isActive
    <3> DEFINE r == ResetAlert(f)
    <3>1. r \in CallData /\ r.rule = f.rule /\ "NORMAL" \in RuleStates
      BY ResetAlertType DEF RuleStates
    <3> HIDE DEF r
    <3>2. UpdateRuleState(r, "NORMAL") \in CallData
      BY <3>1, UpdateRuleStateType
    <3>3. CloseCircuit(f).rule = UpdateRuleState(r, "NORMAL").rule
      BY <3>2 DEF CloseCircuit, r, CallData
    <3> QED
      BY <1>1, <3>1, <3>3
  <2> QED
    BY <2>1, <2>2 DEF UpdateCircuit
<1>3. ResetAlert(d) \in CallData /\ ResetAlert(d).rule = d.rule
  BY ResetAlertType
<1> QED
  BY <1>1, <1>2, <1>3 DEF ClearState

LEMMA StartActive ==
  ASSUME TypeOK, NEW d \in CallData
  PROVE  Start(d).rule.isActive = d.rule.isActive
<1>1. CASE d.st.isStarted
  BY <1>1 DEF Start
<1>2. CASE ~d.st.isStarted
  <2> DEFINE s == [d EXCEPT !.st.isStarted = TRUE]
             c == ClearState(s)
  <2>1. s \in CallData /\ s.rule = d.rule
    BY DEF CallData, StateHash
  <2> HIDE DEF s
  <2>2. c.rule.isActive = d.rule.isActive /\ c \in CallData
    <3>1. ResetAlert(s) \in CallData
      BY <2>1, ResetAlertType
    <3> QED
      BY <2>1, <3>1, UpdateActive, UpdateCircuitKeeps DEF ClearState
  <2> HIDE DEF c
  <2>3. [c EXCEPT !.st.warmupStart = now].rule = c.rule
    BY <2>2 DEF CallData
  <2> QED
    BY <1>2, <2>2, <2>3 DEF Start, c, s
<1> QED
  BY <1>1, <1>2

LEMMA CheckNotifyActive ==
  ASSUME TypeOK, NEW d \in CallData, NEW level \in ErrorLevels
  PROVE  CheckNotify(d, level).rule.isActive = d.rule.isActive
<1>1. ASSUME NEW e \in {HandleFailure(d, level), HandleSuccess(d)}
      PROVE  UpdateCircuit(e).rule.isActive = d.rule.isActive
  BY ResultCounts, UpdateActive
<1> QED
  BY <1>1 DEF CheckNotify

\* A rule is active after a step only if it was before: no alerter activates
\* it, and neither does the other server.
LEMMA StepActive ==
  ASSUME IInv, AllTypeOK, [AllNext]_allVars, db'.rule.isActive
  PROVE  db.rule.isActive
<1>0. /\ TypeOK /\ now >= Epoch /\ Loaded \in CallData /\ Loaded.st = db.st
      /\ Loaded.rule = db.rule /\ Fresh(Loaded) /\ wire \in Wires
  BY LoadedFacts, TypeParts DEF IInv, LocalTypeOK, TypeOK, Database
<1>1. CASE db' = db
  BY <1>1
<1>2. ASSUME NEW s \in Servers, ExecuteCheck(s)
      PROVE  db.rule.isActive
  <2>1. PICK i \in DOMAIN wire[s] : Check(wire[s][i].level)
    BY <1>2 DEF ExecuteCheck
  <2>2. wire[s][i].level \in ErrorLevels
    BY <1>0, <2>1, CommandFields DEF Wires
  <2>3. /\ db'.rule = CheckNotify(Start(Loaded), wire[s][i].level).rule
        /\ Start(Loaded) \in CallData
    BY <2>1, <2>2, CheckLeads
  <2> QED
    BY <1>0, <2>2, <2>3, StartActive, CheckNotifyActive
<1>3. ASSUME StartRule \/ Clear \/ QueryState
      PROVE  db.rule.isActive
  <2>1. \/ db'.rule = Start(Loaded).rule
        \/ db'.rule = ClearState(Loaded).rule
        \/ db'.rule = UpdateCircuit(Loaded).rule
    BY <1>3, CallsAreCalm, CallLeads
  <2> QED
    BY <1>0, <2>1, StartActive, UpdateActive
<1>4. ASSUME NEW s \in Servers, ExecuteAlert(s)
      PROVE  db.rule.isActive
  <2>1. UNCHANGED vars \/ db.rule.isActive
    BY <1>4, AlertCases
  <2> QED
    BY <2>1 DEF vars
<1>5. ASSUME MarkNotify
      PROVE  db.rule.isActive
  BY <1>5, MarkKeeps
<1>6. CASE UpdateRule
  BY <1>6, UpdatedRule
<1>7. CASE TimePasses
  BY <1>7 DEF TimePasses, Tick
<1>8. ASSUME NEW s \in Servers,
              ExecuteStart(s) \/ ExecuteClear(s) \/ ExecuteMark(s)
       PROVE  db.rule.isActive
  BY <1>3, <1>5, <1>8 DEF ExecuteStart, ExecuteClear, ExecuteMark
<1>9. CASE Query
  BY <1>3, <1>9 DEF Query
<1>10. ASSUME NEW s \in Servers,
             \/ \E level \in ErrorLevels : HandleResult(s, level)
             \/ Checked(s) \/ Written(s) \/ ClearDone(s)
             \/ Dispatched(s) \/ Marked(s)
             \/ StartAlerter(s) \/ Started(s)
             \/ GainLock(s) \/ LoseLock(s) \/ Crash(s)
      PROVE  db' = db
  BY <1>10 DEF HandleResult, Checked, Written, ClearDone, Dispatched, Marked, vars,
              StartAlerter, Started, GainLock, LoseLock, Crash, Fault
<1>11. CASE UNCHANGED allVars
  BY <1>1, <1>11 DEF allVars, vars
<1> QED
  BY <1>1, <1>2, <1>4, <1>6, <1>7, <1>8, <1>9, <1>10, <1>11 DEF AllNext

-----------------------------------------------------------------------------
(* An active rule is not reset.                                             *)

\* Where the commands of s stand after one was sent, answered, or both.
LEMMA SentPlaces ==
  ASSUME wire \in Wires, NEW s \in Servers, NEW c \in Commands, Send(wire[s], s, c)
  PROVE  /\ \A i \in DOMAIN wire[s] : i \in DOMAIN wire'[s] /\ wire'[s][i] = wire[s][i]
         /\ \A i \in DOMAIN wire'[s] :
              i \in DOMAIN wire[s] \/ (i = Len(wire[s]) + 1 /\ wire'[s][i] = c)
         /\ Len(wire[s]) + 1 \in DOMAIN wire'[s] /\ wire'[s][Len(wire[s]) + 1] = c
<1> DEFINE w == wire[s]
<1>1. w \in Seq(Commands)
  BY DEF Wires
<1>2. wire'[s] = Append(w, c)
  BY <1>1, SendType
<1> HIDE DEF w
<1>3. /\ \A i \in DOMAIN w : i \in DOMAIN Append(w, c) /\ Append(w, c)[i] = w[i]
      /\ \A i \in DOMAIN Append(w, c) :
           i \in DOMAIN w \/ (i = Len(w) + 1 /\ Append(w, c)[i] = c)
      /\ Len(w) + 1 \in DOMAIN Append(w, c) /\ Append(w, c)[Len(w) + 1] = c
  BY <1>1
<1> QED
  BY <1>2, <1>3 DEF w

LEMMA PoppedPlaces ==
  ASSUME wire \in Wires, NEW s \in Servers, wire[s] # <<>>,
         wire' = [wire EXCEPT ![s] = Tail(@)]
  PROVE  /\ \A i \in DOMAIN wire'[s] :
              i \in Nat /\ i > 0 /\ i + 1 \in DOMAIN wire[s] /\ wire'[s][i] = wire[s][i + 1]
         /\ \A i \in DOMAIN wire[s] :
              i = 1 \/ (i > 1 /\ i - 1 \in DOMAIN wire'[s] /\ wire'[s][i - 1] = wire[s][i])
         /\ DOMAIN wire[s] \subseteq Nat
<1> DEFINE w == wire[s]
<1>1. w \in Seq(Commands) /\ w # <<>>
  BY DEF Wires
<1>2. wire'[s] = Tail(w)
  BY DEF Wires
<1> HIDE DEF w
<1>3. /\ \A i \in DOMAIN Tail(w) :
           i \in Nat /\ i > 0 /\ i + 1 \in DOMAIN w /\ Tail(w)[i] = w[i + 1]
      /\ \A i \in DOMAIN w :
           i = 1 \/ (i > 1 /\ i - 1 \in DOMAIN Tail(w) /\ Tail(w)[i - 1] = w[i])
      /\ DOMAIN w \subseteq Nat
  BY <1>1
<1> QED
  BY <1>2, <1>3 DEF w

LEMMA ReplacedPlaces ==
  ASSUME wire \in Wires, NEW s \in Servers, NEW c \in Commands, wire[s] # <<>>,
         Send(Tail(wire[s]), s, c)
  PROVE  /\ \A i \in DOMAIN wire'[s] :
              /\ i \in Nat /\ i > 0
              /\ \/ i + 1 \in DOMAIN wire[s] /\ wire'[s][i] = wire[s][i + 1]
                 \/ i = Len(wire[s]) /\ wire'[s][i] = c
         /\ \A i \in DOMAIN wire[s] :
              i = 1 \/ (i > 1 /\ i - 1 \in DOMAIN wire'[s] /\ wire'[s][i - 1] = wire[s][i])
         /\ Len(wire[s]) \in DOMAIN wire'[s] /\ wire'[s][Len(wire[s])] = c
         /\ DOMAIN wire[s] = 1..Len(wire[s])
<1> DEFINE w == wire[s]
           v == Append(Tail(w), c)
<1>1. w \in Seq(Commands) /\ w # <<>>
  BY DEF Wires
<1>2. wire'[s] = v
  <2>1. Tail(w) \in Seq(Commands)
    BY <1>1
  <2> QED
    BY <2>1, SendType
<1> HIDE DEF w
<1>3. /\ Tail(w) \in Seq(Commands) /\ Len(Tail(w)) = Len(w) - 1
      /\ \A i \in DOMAIN Tail(w) : i + 1 \in DOMAIN w /\ Tail(w)[i] = w[i + 1]
      /\ Len(w) \in Nat /\ Len(w) > 0 /\ DOMAIN w = 1..Len(w)
  BY <1>1
<1>4. /\ DOMAIN v = 1..Len(w) /\ v[Len(w)] = c
      /\ \A i \in 1..(Len(w) - 1) : v[i] = Tail(w)[i] /\ i \in DOMAIN Tail(w)
  BY <1>3
<1> HIDE DEF v
<1>5. \A i \in DOMAIN v : i \in 1..(Len(w) - 1) \/ i = Len(w)
  BY <1>3, <1>4
<1>6. \A i \in DOMAIN v :
        /\ i \in Nat /\ i > 0
        /\ (i + 1 \in DOMAIN w /\ v[i] = w[i + 1]) \/ (i = Len(w) /\ v[i] = c)
  BY <1>3, <1>4, <1>5
<1>7. \A i \in DOMAIN w : i = 1 \/ (i > 1 /\ i - 1 \in DOMAIN v /\ v[i - 1] = w[i])
  <2> SUFFICES ASSUME NEW i \in DOMAIN w, i # 1
               PROVE  i > 1 /\ i - 1 \in DOMAIN v /\ v[i - 1] = w[i]
    OBVIOUS
  <2>1. i - 1 \in 1..(Len(w) - 1) /\ i > 1 /\ (i - 1) + 1 = i
    BY <1>3
  <2>2. v[i - 1] = Tail(w)[i - 1] /\ Tail(w)[i - 1] = w[(i - 1) + 1] /\ i - 1 \in DOMAIN v
    BY <1>3, <1>4, <2>1
  <2> QED
    BY <2>1, <2>2
<1>8. Len(w) \in DOMAIN v
  BY <1>3, <1>4
<1> QED
  BY <1>2, <1>3, <1>4, <1>6, <1>7, <1>8 DEF w

\* The answer to an alert without a level brings no alert, and so nothing is
\* cleared.
Harmless(c) ==
  /\ c.op # "clear"
  /\ c.op = "alert" /\ c.reply.done /\ c.level = "NONE" => c.reply.alert = NoAlert

\* The circuit has answered a check of s.
Answer(c) == c.op = "check" /\ c.reply.done

NoResets(s) == \A i \in DOMAIN wire[s] : Harmless(wire[s][i])

LEMMA OthersNoResets ==
  ASSUME NEW s \in Servers, NoResets(s), wire'[s] = wire[s]
  PROVE  NoResets(s)'
BY DEF NoResets

LEMMA SentNoResets ==
  ASSUME wire \in Wires, NEW s \in Servers, NoResets(s),
         NEW c \in Commands, c.op # "clear", ~c.reply.done,
         Send(wire[s], s, c)
  PROVE  NoResets(s)'
BY SentPlaces DEF NoResets, Harmless

LEMMA PoppedNoResets ==
  ASSUME wire \in Wires, NEW s \in Servers, NoResets(s), wire[s] # <<>>,
         wire' = [wire EXCEPT ![s] = Tail(@)]
  PROVE  NoResets(s)'
BY PoppedPlaces DEF NoResets

LEMMA RepliedNoResets ==
  ASSUME wire \in Wires, NEW s \in Servers, NoResets(s), NEW i \in DOMAIN wire[s],
         NEW reply, Reply(s, i, reply),
         wire[s][i].op = "alert" /\ wire[s][i].level = "NONE" => reply.alert = NoAlert
  PROVE  NoResets(s)'
<1>1. wire[s][i] \in Commands
  BY DEF Wires
<1>2. /\ DOMAIN wire'[s] = DOMAIN wire[s]
      /\ wire'[s][i] = [wire[s][i] EXCEPT !.reply = reply]
      /\ \A j \in DOMAIN wire[s] : j # i => wire'[s][j] = wire[s][j]
  BY ReplyPlaces
<1>3. /\ wire'[s][i].op = wire[s][i].op /\ wire'[s][i].level = wire[s][i].level
      /\ wire'[s][i].reply = reply
  BY <1>1, <1>2 DEF Commands, CommandsOf
<1>4. Harmless(wire[s][i])
  BY DEF NoResets
<1> SUFFICES ASSUME NEW j \in DOMAIN wire'[s]
             PROVE  Harmless(wire'[s][j])
  BY DEF NoResets
<1>5. CASE j = i
  BY <1>3, <1>4, <1>5 DEF Harmless
<1>6. CASE j # i
  BY <1>2, <1>6 DEF NoResets
<1> QED
  BY <1>5, <1>6

\* While the rule is active, what a written alert is answered with leads to no
\* clear: the answer is taken, and that is all.
LEMMA WrittenPops ==
  ASSUME AllTypeOK, NEW s \in Servers, NoResets(s), Written(s)
  PROVE  /\ wire[s] # <<>> /\ wire' = [wire EXCEPT ![s] = Tail(@)]
         /\ wire[s][1].op = "alert" /\ wire[s][1].reply.done
         /\ alerter'[s].tripped = alerter[s].tripped
<1>1. wire \in Wires /\ wire[s] # <<>> /\ alerter \in [Servers -> Alerters]
  BY TypeParts DEF LocalTypeOK, Written
<1>2. Head(wire[s]) = wire[s][1] /\ 1 \in DOMAIN wire[s]
  BY <1>1, PopType
<1>3. Harmless(Head(wire[s]))
  BY <1>2 DEF NoResets
<1>4. wire' = [wire EXCEPT ![s] = Tail(@)]
  BY <1>3 DEF Written, Harmless
<1>5. alerter'[s].tripped = alerter[s].tripped
  <2> DEFINE x == [alerter[s] EXCEPT
                     !.alert = alerter'[s].alert, !.lastFailedAt = alerter'[s].lastFailedAt]
  <2>1. PICK al, at : alerter' = [alerter EXCEPT ![s].alert = al, ![s].lastFailedAt = at]
    BY DEF Written
  <2>2. alerter'[s] = [alerter[s] EXCEPT !.alert = al, !.lastFailedAt = at]
    BY <1>1, <2>1
  <2>3. alerter[s] \in Alerters
    BY <1>1
  <2> QED
    BY <2>2, <2>3 DEF Alerters
<1> QED
  BY <1>1, <1>2, <1>4, <1>5 DEF Written

\* What checkAlert()'s answer leads to.
LEMMA CheckedCases ==
  ASSUME AllTypeOK, NEW s \in Servers, Checked(s)
  PROVE  LET c == wire[s][1]
         IN /\ wire[s] # <<>> /\ 1 \in DOMAIN wire[s] /\ c \in Commands
            /\ Answer(c)
            /\ UNCHANGED vars
            /\ alerter'[s].tripped = c.reply.open
            /\ IF NeedsAlert(c)
                 THEN \E a \in Commands :
                        /\ a.op = "alert" /\ ~a.reply.done
                        /\ Send(Tail(wire[s]), s, a)
                 ELSE wire' = [wire EXCEPT ![s] = Tail(@)]
<1> DEFINE c == Head(wire[s])
           updated == updateLocalState(alerter[s], c)
           final == [updated EXCEPT !.alert = AlertLeft(updated),
                        !.lastFailedAt = IF c.level # "NONE" THEN now ELSE @]
<1>1. LocalTypeOK /\ now \in Nat
  BY TypeParts DEF TypeOK
<1>2. wire \in Wires /\ wire[s] # <<>> /\ c.op = "check" /\ c.reply.done
  BY <1>1 DEF Checked, LocalTypeOK
<1>3. c \in Commands /\ c = wire[s][1] /\ 1 \in DOMAIN wire[s]
  BY <1>2, PopType
<1>4. /\ UNCHANGED vars
      /\ IF NeedsAlert(c)
           THEN /\ alerter' = [alerter EXCEPT ![s] = updated]
                /\ Send(Tail(wire[s]), s, Command("alert", c.level, FALSE))
           ELSE /\ alerter' = [alerter EXCEPT ![s] =
                     IF c.was /\ ~c.reply.open THEN Cleared(final) ELSE final]
                /\ wire' = [wire EXCEPT ![s] = Tail(@)]
  BY DEF Checked, c, updated, final
<1> HIDE DEF c
<1>5. updated \in Alerters /\ updated.tripped = c.reply.open
  <2>1. alerter[s] \in Alerters
    BY <1>1 DEF LocalTypeOK
  <2>2. updated \in Alerters
    BY <1>2, <1>3, <2>1, UpdatedType
  <2>3. updated.tripped = c.reply.open
    BY <2>1 DEF updateLocalState, Alerters
  <2> QED
    BY <2>2, <2>3
<1> HIDE DEF updated
<1>6. final \in Alerters /\ final.tripped = c.reply.open
  BY <1>1, <1>5 DEF Alerters, AlertLeft
<1> HIDE DEF final
<1>7. Cleared(final).tripped = FALSE
  BY <1>6 DEF Cleared, Alerters
<1>8. c.reply.open \in BOOLEAN /\ c.level \in ErrorLevels
  BY <1>2, <1>3, CommandFields DEF CheckReplies
<1>9. alerter'[s].tripped = c.reply.open
  <2>1. alerter'[s] \in {updated, final, Cleared(final)}
    BY <1>1, <1>4 DEF LocalTypeOK
  <2>2. alerter'[s] = Cleared(final) => ~c.reply.open \/ Cleared(final) = final \/ alerter'[s] \in {updated, final}
    BY <1>1, <1>4 DEF LocalTypeOK
  <2> QED
    BY <1>5, <1>6, <1>7, <1>8, <2>1, <2>2
<1>10. NeedsAlert(c) =>
         \E a \in Commands :
           a.op = "alert" /\ ~a.reply.done /\ Send(Tail(wire[s]), s, a)
  <2> DEFINE a == Command("alert", c.level, FALSE)
  <2>1. a \in Commands /\ ~a.reply.done
    BY <1>8, CommandFresh
  <2>2. a.op = "alert"
    BY DEF Command
  <2>3. NeedsAlert(c) => Send(Tail(wire[s]), s, a)
    BY <1>4
  <2> HIDE DEF a
  <2> QED
    BY <2>1, <2>2, <2>3
<1> QED
  BY <1>2, <1>3, <1>4, <1>9, <1>10 DEF Answer

\* What is sent besides alerts and clears: a result, a mark or a start.
LEMMA SentCases ==
  ASSUME AllTypeOK, NEW s \in Servers,
         \/ \E level \in ErrorLevels : HandleResult(s, level)
         \/ Dispatched(s) \/ StartAlerter(s)
  PROVE  /\ UNCHANGED <<vars, alerter>>
         /\ \/ wire' = wire
            \/ \E c \in Commands :
                 /\ ~c.reply.done /\ Send(wire[s], s, c)
                 /\ \/ c.op \in {"mark", "start"}
                    \/ /\ c.op = "check" /\ c.was = alerter[s].tripped
                       /\ s \in owners
                       /\ InFlight(s) = 0 \/ log'.overlaps = log.overlaps + 1
<1>1. wire \in Wires /\ alerter[s] \in Alerters /\ log \in Logs
  BY TypeParts DEF LocalTypeOK
<1>2. ASSUME NEW level \in ErrorLevels, HandleResult(s, level)
      PROVE  \E c \in Commands :
               /\ ~c.reply.done /\ Send(wire[s], s, c)
               /\ c.op = "check" /\ c.was = alerter[s].tripped /\ s \in owners
               /\ InFlight(s) = 0 \/ log'.overlaps = log.overlaps + 1
  <2> DEFINE c == Command("check", level, alerter[s].tripped)
  <2>1. c \in Commands /\ ~c.reply.done
    BY <1>1, CommandFresh DEF Alerters
  <2>2. c.op = "check" /\ c.was = alerter[s].tripped
    BY DEF Command
  <2>3. Send(wire[s], s, c) /\ s \in owners
    BY <1>2 DEF HandleResult
  <2>4. InFlight(s) = 0 \/ log'.overlaps = log.overlaps + 1
    <3>1. InFlight(s) # 0 => log' = [log EXCEPT !.overlaps = @ + 1]
      BY <1>2 DEF HandleResult
    <3> QED
      BY <1>1, <3>1 DEF Logs
  <2> HIDE DEF c
  <2> QED
    BY <2>1, <2>2, <2>3, <2>4
<1>3. ASSUME NEW op \in {"mark", "start"}, Send(wire[s], s, Command(op, "NONE", FALSE))
      PROVE  \E c \in Commands :
               ~c.reply.done /\ Send(wire[s], s, c) /\ c.op \in {"mark", "start"}
  <2> DEFINE c == Command(op, "NONE", FALSE)
  <2>1. c \in Commands /\ ~c.reply.done
    BY CommandFresh DEF ErrorLevels
  <2>2. c.op \in {"mark", "start"} /\ Send(wire[s], s, c)
    BY <1>3 DEF Command
  <2> HIDE DEF c
  <2> QED
    BY <2>1, <2>2
<1>4. CASE Dispatched(s)
  BY <1>3, <1>4 DEF Dispatched
<1>5. CASE StartAlerter(s)
  BY <1>3, <1>5 DEF StartAlerter
<1>6. UNCHANGED <<vars, alerter>>
  BY DEF HandleResult, Dispatched, StartAlerter
<1> QED
  BY <1>2, <1>4, <1>5, <1>6

\* While a rule is active, no step of any server asks for a reset.
LEMMA StepNoResets ==
  ASSUME IInv, AllTypeOK, [AllNext]_allVars, db'.rule.isActive,
         NEW s \in Servers, NoResets(s)
  PROVE  NoResets(s)'
<1>1. wire \in Wires /\ db.rule.isActive
  BY StepActive, TypeParts DEF LocalTypeOK
<1>2. ASSUME NEW t \in Servers,
             \/ \E level \in ErrorLevels : HandleResult(t, level)
             \/ Dispatched(t) \/ StartAlerter(t)
      PROVE  NoResets(s)'
  <2>1. CASE wire' = wire
    BY <2>1 DEF NoResets
  <2>2. CASE \E c \in Commands :
               ~c.reply.done /\ c.op # "clear" /\ Send(wire[t], t, c)
    <3>1. PICK c \in Commands :
            ~c.reply.done /\ c.op # "clear" /\ Send(wire[t], t, c)
      BY <2>2
    <3>2. CASE t = s
      BY <1>1, <3>1, <3>2, SentNoResets
    <3>3. CASE t # s
      <4>1. wire'[s] = wire[s]
        BY <1>1, <3>1, <3>3 DEF Send, Wires
      <4> QED
        BY <4>1, OthersNoResets
    <3> QED
      BY <3>2, <3>3
  <2> QED
    BY <1>2, <2>1, <2>2, SentCases
<1>3. ASSUME NEW t \in Servers, wire[t] # <<>>, wire' = [wire EXCEPT ![t] = Tail(@)]
      PROVE  NoResets(s)'
  <2>1. CASE t = s
    BY <1>1, <1>3, <2>1, PoppedNoResets
  <2>2. CASE t # s
    <3>1. wire'[s] = wire[s]
      BY <1>1, <1>3, <2>2 DEF Wires
    <3> QED
      BY <3>1, OthersNoResets
  <2> QED
    BY <2>1, <2>2
<1>4. ASSUME NEW t \in Servers, Checked(t)
      PROVE  NoResets(s)'
  <2>1. CASE ~NeedsAlert(wire[t][1])
    BY <1>3, <1>4, <2>1, CheckedCases
  <2>2. CASE NeedsAlert(wire[t][1])
    <3>1. PICK a \in Commands :
            a.op = "alert" /\ ~a.reply.done /\ Send(Tail(wire[t]), t, a)
      BY <1>4, <2>2, CheckedCases
    <3>2. wire[t] # <<>>
      BY <1>4, CheckedCases
    <3>3. CASE t = s
      BY <1>1, <3>1, <3>2, <3>3, ReplacedPlaces DEF NoResets, Harmless
    <3>4. CASE t # s
      <4>1. wire'[s] = wire[s]
        BY <1>1, <3>1, <3>4 DEF Send, Wires
      <4> QED
        BY <4>1, OthersNoResets
    <3> QED
      BY <3>3, <3>4
  <2> QED
    BY <2>1, <2>2
<1>5. ASSUME NEW t \in Servers, Written(t)
      PROVE  NoResets(s)'
  <2>1. CASE t = s
    BY <1>3, <1>5, <2>1, WrittenPops
  <2>2. CASE t # s
    <3>1. wire'[s] = wire[s]
      BY <1>1, <1>5, <2>2 DEF Written, Send, Wires
    <3> QED
      BY <3>1, OthersNoResets
  <2> QED
    BY <2>1, <2>2
<1>6. ASSUME NEW t \in Servers, ClearDone(t) \/ Marked(t) \/ Started(t)
      PROVE  NoResets(s)'
  BY <1>3, <1>6 DEF ClearDone, Marked, Started
<1>7. ASSUME NEW t \in Servers, NEW i \in DOMAIN wire[t], NEW reply, Reply(t, i, reply),
             wire[t][i].op = "alert" /\ wire[t][i].level = "NONE" => reply.alert = NoAlert
      PROVE  NoResets(s)'
  <2>1. CASE t = s
    BY <1>1, <1>7, <2>1, RepliedNoResets
  <2>2. CASE t # s
    <3>1. wire'[s] = wire[s]
      BY <1>1, <1>7, <2>2, ReplyPlaces
    <3> QED
      BY <3>1, OthersNoResets
  <2> QED
    BY <2>1, <2>2
<1>8. ASSUME NEW t \in Servers,
             ExecuteCheck(t) \/ ExecuteMark(t) \/ ExecuteStart(t) \/ ExecuteClear(t)
      PROVE  NoResets(s)'
  <2>1. PICK i \in DOMAIN wire[t], reply \in {[done |-> TRUE], CheckReply(Start(Loaded), db')} :
          Reply(t, i, reply) /\ wire[t][i].op # "alert"
    BY <1>8 DEF ExecuteCheck, ExecuteMark, ExecuteStart, ExecuteClear, IsNext
  <2> QED
    BY <1>7, <2>1
<1>9. ASSUME NEW t \in Servers, ExecuteAlert(t)
      PROVE  NoResets(s)'
  <2>1. PICK i \in DOMAIN wire[t], alert \in Named :
          /\ Reply(t, i, [done |-> TRUE, alert |-> alert])
          /\ wire[t][i].level = "NONE" => alert = NoAlert
    BY <1>1, <1>9, AlertCases
  <2> QED
    BY <1>7, <2>1
<1>10. CASE \/ Query \/ UpdateRule \/ TimePasses \/ UNCHANGED allVars
            \/ \E t \in Servers : GainLock(t) \/ LoseLock(t)
  <2>1. wire' = wire
    BY <1>10, UpdatedRule DEF Query, TimePasses, allVars, GainLock, LoseLock, local
  <2> QED
    BY <2>1, OthersNoResets
<1>11. ASSUME NEW t \in Servers, Crash(t)
       PROVE  NoResets(s)'
  <2>1. wire'[s] = wire[s] \/ wire'[s] = <<>>
    BY <1>1, <1>11 DEF Crash, Wires
  <2> QED
    BY <2>1 DEF NoResets
<1> QED
  BY <1>2, <1>4, <1>5, <1>6, <1>8, <1>9, <1>10, <1>11 DEF AllNext

\* The rule is not active, or no server resets it.
ActiveInv ==
  /\ hist.saves = 0 => OpenWhenWarm(db)
  /\ db.rule.isActive => \A s \in Servers : NoResets(s)

LEMMA StepActiveInv ==
  IInv /\ AllTypeOK /\ ActiveInv /\ [AllNext]_allVars => ActiveInv'
BY StepKeepsWarm, StepActive, StepNoResets DEF ActiveInv

-----------------------------------------------------------------------------
(* A triggered rule has its alert.                                          *)

Results == {"check", "alert"}

HasAlert == db.st.alertId # NoAlert /\ db.alerts[db.st.alertId] = "open"

\* The circuit has answered a check of s, which s has not looked at yet.
Told(s) == \E i \in DOMAIN wire[s] : Answer(wire[s][i])

\* An alert of s is on its way to Redis.
Owed(s) ==
  \E i \in DOMAIN wire[s] : wire[s][i].op = "alert" /\ ~wire[s][i].reply.done

\* At most one result of s is under way.
Alone(s) ==
  \A i, j \in DOMAIN wire[s] :
    wire[s][i].op \in Results /\ wire[s][j].op \in Results => i = j

\* s believes the rule triggered while the circuit is open, and its alert is
\* open or about to be.
BelievesRight(s) ==
  alerter[s].tripped /\ ~Told(s) => IsOpen /\ (HasAlert \/ Owed(s))

\* A check under way remembers what s believes, and one that found the circuit
\* open is right; unless it is the one that triggered the rule, the alert is
\* open.
CheckRight(s) ==
  \A i \in DOMAIN wire[s] :
    LET c == wire[s][i]
    IN /\ c.op = "check" /\ ~c.reply.done => (c.was => alerter[s].tripped)
       /\ Answer(c) /\ c.reply.open =>
            c.reply.status = "ok" /\ IsOpen /\ (c.was => HasAlert)

AlerterRight(s) == Alone(s) /\ BelievesRight(s) /\ CheckRight(s)

AlertInv ==
  db.rule.isActive /\ log.overlaps = 0 /\ log.queries = 0 =>
    /\ IsOpen => db.st.isStarted
    /\ \A s \in Servers : Servers = {s} => AlerterRight(s)

LEMMA NothingInFlight ==
  ASSUME wire \in Wires, NEW s \in Servers, InFlight(s) = 0
  PROVE  \A i \in DOMAIN wire[s] : wire[s][i].op \notin Results
<1> DEFINE n == Len(wire[s])
           under == {i \in DOMAIN wire[s] : wire[s][i].op \in {"check", "alert"}}
<1>1. wire[s] \in Seq(Commands)
  BY DEF Wires
<1>2. n \in Nat /\ DOMAIN wire[s] = 1..n
  BY <1>1
<1>3. IsFiniteSet(1..n)
  <2>1. n \in Int
    BY <1>2
  <2> HIDE DEF n
  <2> QED
    BY <2>1, FS_Interval
<1>4. under \in SUBSET (1..n)
  BY <1>2
<1>5. IsFiniteSet(under)
  BY <1>3, <1>4, FS_Subset
<1>6. Cardinality(under) = 0
  BY DEF InFlight
<1>7. under = {}
  BY <1>5, <1>6, FS_EmptySet
<1> QED
  BY <1>7 DEF Results

\* The circuit and the beliefs are as they were, and so is every command.
LEMMA SameRight ==
  ASSUME NEW s \in Servers, AlerterRight(s), wire'[s] = wire[s],
         alerter'[s].tripped = alerter[s].tripped,
         IsOpen' = IsOpen, HasAlert' = HasAlert
  PROVE  AlerterRight(s)'
BY DEF AlerterRight, Alone, BelievesRight, CheckRight, Told, Owed, Answer

LEMMA SentRight ==
  ASSUME wire \in Wires, NEW s \in Servers, AlerterRight(s),
         NEW c \in Commands, ~c.reply.done, Send(wire[s], s, c),
         UNCHANGED <<vars, alerter>>,
         c.op \in Results => /\ \A i \in DOMAIN wire[s] : wire[s][i].op \notin Results
                             /\ c.was => alerter[s].tripped
  PROVE  AlerterRight(s)'
<1> DEFINE n == Len(wire[s]) + 1
<1>1. /\ \A i \in DOMAIN wire[s] : i \in DOMAIN wire'[s] /\ wire'[s][i] = wire[s][i]
      /\ \A i \in DOMAIN wire'[s] : i \in DOMAIN wire[s] \/ (i = n /\ wire'[s][i] = c)
  BY SentPlaces
<1> HIDE DEF n
<1>2. /\ IsOpen' = IsOpen /\ HasAlert' = HasAlert
      /\ alerter'[s].tripped = alerter[s].tripped
  BY DEF vars, IsOpen, HasAlert
<1>3. Alone(s)'
  BY <1>1 DEF AlerterRight, Alone
<1>4. BelievesRight(s)'
  <2>1. Told(s) => Told(s)'
    BY <1>1 DEF Told
  <2>2. Owed(s) => Owed(s)'
    BY <1>1 DEF Owed
  <2> QED
    BY <1>2, <2>1, <2>2 DEF AlerterRight, BelievesRight
<1>5. CheckRight(s)'
  <2> SUFFICES ASSUME NEW i \in DOMAIN wire'[s]
               PROVE  /\ wire'[s][i].op = "check" /\ ~wire'[s][i].reply.done =>
                           (wire'[s][i].was => alerter'[s].tripped)
                      /\ Answer(wire'[s][i]) /\ wire'[s][i].reply.open =>
                           /\ wire'[s][i].reply.status = "ok" /\ IsOpen'
                           /\ wire'[s][i].was => HasAlert'
    BY DEF CheckRight, Answer
  <2>1. CASE i \in DOMAIN wire[s]
    BY <1>1, <1>2, <2>1 DEF AlerterRight, CheckRight
  <2>2. CASE wire'[s][i] = c
    BY <1>2, <2>2 DEF Answer, Results
  <2> QED
    BY <1>1, <2>1, <2>2
<1> QED
  BY <1>3, <1>4, <1>5 DEF AlerterRight

\* An answer is taken that changes no belief.
LEMMA PoppedRight ==
  ASSUME wire \in Wires, NEW s \in Servers, AlerterRight(s), wire[s] # <<>>,
         wire' = [wire EXCEPT ![s] = Tail(@)], UNCHANGED vars,
         alerter'[s].tripped = alerter[s].tripped,
         wire[s][1].op # "check", wire[s][1].reply.done
  PROVE  AlerterRight(s)'
<1>1. /\ \A i \in DOMAIN wire'[s] :
           i \in Nat /\ i > 0 /\ i + 1 \in DOMAIN wire[s] /\ wire'[s][i] = wire[s][i + 1]
      /\ \A i \in DOMAIN wire[s] :
           i = 1 \/ (i > 1 /\ i - 1 \in DOMAIN wire'[s] /\ wire'[s][i - 1] = wire[s][i])
  BY PoppedPlaces
<1>2. IsOpen' = IsOpen /\ HasAlert' = HasAlert
  BY DEF vars, IsOpen, HasAlert
<1>3. Alone(s)'
  <2> SUFFICES ASSUME NEW i \in DOMAIN wire'[s], NEW j \in DOMAIN wire'[s],
                      wire'[s][i].op \in Results, wire'[s][j].op \in Results
               PROVE  i = j
    BY DEF Alone
  <2>1. i + 1 = j + 1
    BY <1>1 DEF AlerterRight, Alone
  <2> QED
    BY <1>1, <2>1
<1>4. BelievesRight(s)'
  <2>0. \A j \in DOMAIN wire[s] : j # 1 => \E k \in DOMAIN wire'[s] : wire'[s][k] = wire[s][j]
    BY <1>1
  <2>1. Told(s) => Told(s)'
    BY <2>0 DEF Told, Answer
  <2>2. Owed(s) => Owed(s)'
    BY <2>0 DEF Owed
  <2> QED
    BY <1>2, <2>1, <2>2 DEF AlerterRight, BelievesRight
<1>5. CheckRight(s)'
  BY <1>1, <1>2 DEF AlerterRight, CheckRight, Answer
<1> QED
  BY <1>3, <1>4, <1>5 DEF AlerterRight

LEMMA CheckedRight ==
  ASSUME AllTypeOK, NEW s \in Servers, AlerterRight(s), Checked(s)
  PROVE  AlerterRight(s)'
<1> DEFINE c == wire[s][1]
           n == Len(wire[s])
<1>1. /\ wire[s] # <<>> /\ 1 \in DOMAIN wire[s] /\ c \in Commands /\ Answer(c)
      /\ UNCHANGED vars /\ alerter'[s].tripped = c.reply.open
      /\ wire \in Wires
  BY CheckedCases, TypeParts DEF LocalTypeOK
<1>2. IsOpen' = IsOpen /\ HasAlert' = HasAlert
  BY <1>1 DEF vars, IsOpen, HasAlert
<1>3. \A i \in DOMAIN wire[s] : i # 1 => wire[s][i].op \notin Results
  BY <1>1 DEF AlerterRight, Alone, Answer, Results
<1>4. c.reply.open => c.reply.status = "ok" /\ IsOpen /\ (c.was => HasAlert)
  BY <1>1 DEF AlerterRight, CheckRight
<1>5. CASE ~NeedsAlert(c)
  <2>1. wire' = [wire EXCEPT ![s] = Tail(@)]
    BY <1>5, CheckedCases
  <2>2. \A i \in DOMAIN wire'[s] : wire'[s][i].op \notin Results
    <3>1. \A i \in DOMAIN wire'[s] :
            i \in Nat /\ i > 0 /\ i + 1 \in DOMAIN wire[s] /\ wire'[s][i] = wire[s][i + 1]
      BY <1>1, <2>1, PoppedPlaces
    <3>2. \A i \in Nat : i > 0 => i + 1 # 1
      OBVIOUS
    <3> QED
      BY <1>3, <3>1, <3>2
  <2>3. c.reply.open => c.was
    BY <1>4, <1>5 DEF NeedsAlert
  <2> QED
    BY <1>1, <1>2, <1>4, <2>2, <2>3
    DEF AlerterRight, Alone, BelievesRight, CheckRight, Answer, Results
<1>6. CASE NeedsAlert(c)
  <2>1. PICK a \in Commands :
          a.op = "alert" /\ ~a.reply.done /\ Send(Tail(wire[s]), s, a)
    BY <1>6, CheckedCases
  <2>2. /\ \A i \in DOMAIN wire'[s] :
             /\ i \in Nat /\ i > 0
             /\ \/ i + 1 \in DOMAIN wire[s] /\ wire'[s][i] = wire[s][i + 1]
                \/ i = n /\ wire'[s][i] = a
        /\ n \in DOMAIN wire'[s] /\ wire'[s][n] = a
    BY <1>1, <2>1, ReplacedPlaces
  <2> HIDE DEF n
  <2>3. \A i \in DOMAIN wire'[s] : wire'[s][i].op \in Results => i = n /\ wire'[s][i] = a
    <3>2. \A i \in Nat : i > 0 => i + 1 # 1
      OBVIOUS
    <3> QED
      BY <1>3, <2>2, <3>2
  <2>4. Alone(s)'
    BY <2>3 DEF Alone
  <2>5. Owed(s)'
    BY <2>1, <2>2 DEF Owed
  <2>6. BelievesRight(s)'
    BY <1>1, <1>2, <1>4, <2>5 DEF BelievesRight
  <2>7. CheckRight(s)'
    BY <2>1, <2>3 DEF CheckRight, Answer, Results
  <2> QED
    BY <2>4, <2>6, <2>7 DEF AlerterRight
<1> QED
  BY <1>5, <1>6

\* A reply to a command that is no check
LEMMA RepliedRight ==
  ASSUME wire \in Wires, NEW s \in Servers, AlerterRight(s),
         NEW i \in DOMAIN wire[s], NEW reply, Reply(s, i, reply), reply.done,
         wire[s][i].op # "check",
         alerter' = alerter, IsOpen' = IsOpen,
         IsOpen /\ (HasAlert \/ wire[s][i].op = "alert") => HasAlert'
  PROVE  AlerterRight(s)'
<1>1. wire[s][i] \in Commands
  BY DEF Wires
<1>2. /\ DOMAIN wire'[s] = DOMAIN wire[s]
      /\ wire'[s][i] = [wire[s][i] EXCEPT !.reply = reply]
      /\ \A j \in DOMAIN wire[s] : j # i => wire'[s][j] = wire[s][j]
  BY ReplyPlaces
<1>3. wire'[s][i].op = wire[s][i].op /\ wire'[s][i].reply = reply
  BY <1>1, <1>2 DEF Commands, CommandsOf
<1>4. \A j \in DOMAIN wire[s] : wire'[s][j].op = wire[s][j].op
  BY <1>2, <1>3
<1>5. Alone(s)'
  BY <1>2, <1>4 DEF AlerterRight, Alone
<1>6. BelievesRight(s)'
  <2>1. Told(s) => Told(s)'
    BY <1>2, <1>3 DEF Told, Answer
  <2>2. Owed(s) => Owed(s)' \/ wire[s][i].op = "alert"
    BY <1>2 DEF Owed
  <2> QED
    BY <2>1, <2>2 DEF AlerterRight, BelievesRight
<1>7. CheckRight(s)'
  <2> SUFFICES ASSUME NEW j \in DOMAIN wire'[s]
               PROVE  /\ wire'[s][j].op = "check" /\ ~wire'[s][j].reply.done =>
                           (wire'[s][j].was => alerter'[s].tripped)
                      /\ Answer(wire'[s][j]) /\ wire'[s][j].reply.open =>
                           /\ wire'[s][j].reply.status = "ok" /\ IsOpen'
                           /\ wire'[s][j].was => HasAlert'
    BY DEF CheckRight, Answer
  <2>1. CASE j = i
    BY <1>3, <2>1 DEF Answer
  <2>2. CASE j # i
    BY <1>2, <2>2 DEF AlerterRight, CheckRight
  <2> QED
    BY <2>1, <2>2
<1> QED
  BY <1>5, <1>6, <1>7 DEF AlerterRight

\* What Redis does for a check: the circuit is started if need be.
LEMMA CheckSteps ==
  ASSUME IInv, AllTypeOK, NEW s \in Servers, ExecuteCheck(s)
  PROVE  \E i \in DOMAIN wire[s], reply \in CheckReplies :
           /\ IsNext(s, i, "check") /\ Reply(s, i, reply)
           /\ reply = CheckReply(Start(Loaded), db')
           /\ Check(wire[s][i].level)
           /\ wire[s][i].level \in ErrorLevels
           /\ reply.open => reply.status = "ok" /\ IsOpen'
<1>1. wire \in Wires /\ TypeOK /\ TypeOK'
  <2>1. [AllNext]_allVars
    BY DEF AllNext
  <2> QED
    BY <2>1, StepType, TypeParts DEF LocalTypeOK, AllTypeOK
<1> DEFINE reply == CheckReply(Start(Loaded), db')
<1>2. PICK i \in DOMAIN wire[s] :
        /\ IsNext(s, i, "check")
        /\ Check(wire[s][i].level)
        /\ Reply(s, i, reply)
  BY DEF ExecuteCheck
<1>3. wire[s][i].level \in ErrorLevels
  BY <1>1, CommandFields DEF Wires
<1>4. reply \in CheckReplies
  <2>1. CheckStatus(Start(Loaded)) \in {"ok", "warmup", "inactive"}
    BY DEF CheckStatus
  <2>2. now \in Nat /\ now + opts.warmupWindow \in Nat
    BY <1>1, OptionFacts DEF TypeOK, AlertOptions
  <2>3. db'.st.notifyPending \in BOOLEAN
    BY <1>1 DEF TypeOK, Database, StateHash
  <2> QED
    BY <2>1, <2>2, <2>3 DEF CheckReply, CheckReplies
<1>5. reply.open => reply.status = "ok" /\ IsOpen'
  BY DEF CheckReply, IsOpen
<1> HIDE DEF reply
<1>6. reply = CheckReply(Start(Loaded), db')
  BY DEF reply
<1> QED
  BY <1>2, <1>3, <1>4, <1>5, <1>6

\* A check that finds the circuit open and leaves it open leaves its alert.
LEMMA ExecuteCheckRight ==
  ASSUME IInv, AllTypeOK, NEW s \in Servers, AlerterRight(s), ExecuteCheck(s),
         IsOpen => db.st.isStarted
  PROVE  AlerterRight(s)'
<1>1. wire \in Wires /\ TypeOK /\ Loaded \in CallData /\ Loaded.st = db.st
      /\ Loaded.alerts = db.alerts
  BY TypeParts, LoadedFacts DEF LocalTypeOK, IInv, TypeOK, Database
<1>2. PICK i \in DOMAIN wire[s], reply \in CheckReplies :
        /\ IsNext(s, i, "check") /\ Reply(s, i, reply)
        /\ Check(wire[s][i].level)
        /\ wire[s][i].level \in ErrorLevels
        /\ reply.open => reply.status = "ok" /\ IsOpen'
  BY CheckSteps
<1>3. wire[s][i].op = "check" /\ ~wire[s][i].reply.done /\ wire[s][i] \in Commands
  BY <1>1, <1>2 DEF IsNext, Wires
<1>4. /\ DOMAIN wire'[s] = DOMAIN wire[s]
      /\ wire'[s][i] = [wire[s][i] EXCEPT !.reply = reply]
      /\ \A j \in DOMAIN wire[s] : j # i => wire'[s][j] = wire[s][j]
  BY <1>1, <1>2, ReplyPlaces
<1>5. /\ wire'[s][i].op = "check" /\ wire'[s][i].reply = reply
      /\ wire'[s][i].was = wire[s][i].was /\ reply.done
  BY <1>3, <1>4 DEF Commands, CommandsOf, CheckReplies
<1>6. \A j \in DOMAIN wire[s] : j # i => wire[s][j].op \notin Results
  BY <1>3 DEF AlerterRight, Alone, Results
<1>7. Alone(s)'
  BY <1>4, <1>5, <1>6 DEF Alone, Results
<1>8. Told(s)'
  BY <1>4, <1>5 DEF Told, Answer
<1>9. wire[s][i].was /\ reply.open => HasAlert'
  <2> SUFFICES ASSUME wire[s][i].was, reply.open
               PROVE  HasAlert'
    OBVIOUS
  <2>1. alerter[s].tripped
    BY <1>3 DEF AlerterRight, CheckRight
  <2>2. ~Told(s) /\ ~Owed(s)
    BY <1>3, <1>6 DEF Told, Owed, Answer, Results
  <2>3. IsOpen /\ HasAlert /\ db.st.isStarted
    BY <2>1, <2>2 DEF AlerterRight, BelievesRight
  <2>4. Start(Loaded) = Loaded
    BY <1>1, <2>3 DEF Start
  <2>5. db'.alerts = db.alerts /\ db'.st.alertId = db.st.alertId
    <3>1. /\ db'.st = CheckNotify(Loaded, wire[s][i].level).st
          /\ db'.alerts = CheckNotify(Loaded, wire[s][i].level).alerts
      BY <1>2, <2>4, CheckLeads
    <3>2. db'.st.circuit = "OPEN" /\ db.st.circuit = "OPEN"
      BY <1>2, <2>3 DEF IsOpen
    <3> QED
      BY <1>1, <1>2, <3>1, <3>2, CheckNotifyKeeps
  <2> QED
    BY <2>3, <2>5 DEF HasAlert
<1>10. CheckRight(s)'
  <2> SUFFICES ASSUME NEW j \in DOMAIN wire'[s]
               PROVE  /\ wire'[s][j].op = "check" /\ ~wire'[s][j].reply.done =>
                           (wire'[s][j].was => alerter'[s].tripped)
                      /\ Answer(wire'[s][j]) /\ wire'[s][j].reply.open =>
                           /\ wire'[s][j].reply.status = "ok" /\ IsOpen'
                           /\ wire'[s][j].was => HasAlert'
    BY DEF CheckRight, Answer
  <2>1. CASE j = i
    BY <1>2, <1>5, <1>9, <2>1
  <2>2. CASE j # i
    BY <1>4, <1>6, <2>2 DEF Answer, Results
  <2> QED
    BY <2>1, <2>2
<1> QED
  BY <1>7, <1>8, <1>10 DEF AlerterRight, BelievesRight

\* The other commands that an active rule executes: a written alert is open,
\* and a start or a mark leaves an open circuit and its alert alone.
LEMMA ExecuteOtherRight ==
  ASSUME IInv, AllTypeOK, NEW s \in Servers, AlerterRight(s), NoResets(s),
         ExecuteAlert(s) \/ ExecuteMark(s) \/ ExecuteStart(s) \/ ExecuteClear(s),
         IsOpen => db.st.isStarted, db.rule.isActive
  PROVE  AlerterRight(s)'
<1>1. /\ wire \in Wires /\ TypeOK /\ Loaded \in CallData /\ Loaded.st = db.st
      /\ Loaded.alerts = db.alerts /\ db.st \in StateHash
      /\ db.alerts \in [AlertIds -> AlertStatuses]
      /\ now >= Epoch /\ Fresh(Loaded)
  BY TypeParts, LoadedFacts DEF LocalTypeOK, IInv, TypeOK, Database
<1>2. CASE ExecuteAlert(s)
  <2>1. PICK i \in DOMAIN wire[s], alert \in Named :
          /\ IsNext(s, i, "alert")
          /\ Reply(s, i, [done |-> TRUE, alert |-> alert])
          /\ wire[s][i].level \in ErrorLevels
          /\ \E id \in AlertIds : Alert(id, wire[s][i].level)
    BY <1>2, AlertCases
  <2>2. PICK id \in AlertIds : Alert(id, wire[s][i].level)
    BY <2>1
  <2>3. /\ db'.st = [db.st EXCEPT !.alertId = id]
        /\ db'.alerts = [db.alerts EXCEPT ![id] = "open"]
    BY <2>1, <2>2, WriteAlertKeeps
  <2>4. /\ db'.st.circuit = db.st.circuit /\ db'.st.alertId = id
        /\ db'.st.isStarted = db.st.isStarted
        /\ db'.alerts[id] = "open"
    BY <1>1, <2>3 DEF StateHash
  <2>5. IsOpen' = IsOpen /\ HasAlert'
    BY <2>4, NoAlertAssumption DEF IsOpen, HasAlert
  <2>6. alerter' = alerter /\ wire[s][i].op # "check"
    BY <1>2, <2>1 DEF ExecuteAlert, IsNext
  <2> QED
    BY <1>1, <2>1, <2>4, <2>5, <2>6, RepliedRight
<1>3. CASE ExecuteMark(s)
  <2>1. PICK i \in DOMAIN wire[s] : IsNext(s, i, "mark") /\ Reply(s, i, [done |-> TRUE])
    BY <1>3 DEF ExecuteMark
  <2>2. /\ db'.alerts = db.alerts /\ db'.st.alertId = db.st.alertId
        /\ db'.st.circuit = db.st.circuit /\ db'.st.isStarted = db.st.isStarted
    BY <1>3, MarkKeeps DEF ExecuteMark
  <2>3. IsOpen' = IsOpen /\ HasAlert' = HasAlert
    BY <2>2 DEF IsOpen, HasAlert
  <2>4. alerter' = alerter /\ wire[s][i].op = "mark"
    BY <1>3, <2>1 DEF ExecuteMark, IsNext
  <2> QED
    BY <1>1, <2>1, <2>2, <2>3, <2>4, RepliedRight
<1>4. CASE ExecuteStart(s)
  <2>1. PICK i \in DOMAIN wire[s] : IsNext(s, i, "start") /\ Reply(s, i, [done |-> TRUE])
    BY <1>4 DEF ExecuteStart
  <2>2. /\ alerter' = alerter /\ wire[s][i].op = "start"
        /\ db'.st = Start(Loaded).st /\ db'.alerts = Start(Loaded).alerts
    BY <1>4, <2>1, CallsAreCalm, CallLeads DEF ExecuteStart, IsNext
  <2>3. db'.st.isStarted
    BY <1>1, <2>2, StartCalm
  <2>4. CASE db.st.isStarted
    <3>1. db'.st = db.st /\ db'.alerts = db.alerts
      BY <1>1, <2>2, <2>4 DEF Start
    <3>2. IsOpen' = IsOpen /\ HasAlert' = HasAlert
      BY <1>1, <3>1 DEF IsOpen, HasAlert
    <3> QED
      BY <1>1, <2>1, <2>2, <2>3, <3>2, RepliedRight
  <2>5. CASE ~db.st.isStarted
    <3>1. ~IsOpen
      BY <2>5
    <3>2. /\ alerter[s].tripped => Told(s)
          /\ \A j \in DOMAIN wire[s] : Answer(wire[s][j]) => ~wire[s][j].reply.open
      BY <3>1 DEF AlerterRight, BelievesRight, CheckRight
    <3>3. wire[s][i] \in Commands
      BY <1>1 DEF Wires
    <3> DEFINE reply == [done |-> TRUE]
    <3>a. Reply(s, i, reply)
      BY <2>1
    <3> HIDE DEF reply
    <3>4. /\ DOMAIN wire'[s] = DOMAIN wire[s]
          /\ wire'[s][i] = [wire[s][i] EXCEPT !.reply = reply]
          /\ \A j \in DOMAIN wire[s] : j # i => wire'[s][j] = wire[s][j]
      BY <1>1, <3>a, ReplyPlaces
    <3>5. wire'[s][i].op = "start"
      BY <2>2, <3>3, <3>4 DEF Commands, CommandsOf
    <3>6. Alone(s)'
      BY <2>2, <3>4, <3>5 DEF AlerterRight, Alone, Results
    <3>7. Told(s) => Told(s)'
      BY <2>2, <3>4, <3>5 DEF Told, Answer
    <3>8. CheckRight(s)'
      <4> SUFFICES ASSUME NEW j \in DOMAIN wire'[s], wire'[s][j].op = "check"
                   PROVE  /\ ~wire'[s][j].reply.done =>
                               (wire'[s][j].was => alerter'[s].tripped)
                          /\ Answer(wire'[s][j]) => ~wire'[s][j].reply.open
        BY DEF CheckRight, Answer
      <4>1. j # i /\ j \in DOMAIN wire[s] /\ wire'[s][j] = wire[s][j]
        BY <3>4, <3>5
      <4> QED
        BY <2>2, <3>2, <4>1 DEF AlerterRight, CheckRight
    <3> QED
      BY <2>2, <2>3, <3>2, <3>6, <3>7, <3>8 DEF AlerterRight, BelievesRight
  <2> QED
    BY <2>4, <2>5
<1>5. CASE ExecuteClear(s)
  <2>1. PICK i \in DOMAIN wire[s] : wire[s][i].op = "clear"
    BY <1>5 DEF ExecuteClear, IsNext
  <2> QED
    BY <2>1 DEF NoResets, Harmless
<1> QED
  BY <1>2, <1>3, <1>4, <1>5

\* Troubles are counted and never forgotten.
LEMMA TroublesGrow ==
  ASSUME AllTypeOK, [AllNext]_allVars
  PROVE  /\ log'.overlaps = 0 => log.overlaps = 0
         /\ log'.queries = 0 => log.queries = 0
         /\ log'.faults = 0 => log.faults = 0
         /\ log'.overlaps >= log.overlaps /\ log'.faults >= log.faults
<1>1. log \in Logs /\ wire \in Wires /\ alerter \in [Servers -> Alerters]
  BY TypeParts DEF LocalTypeOK
<1> DEFINE Same == /\ log'.overlaps = log.overlaps /\ log'.queries = log.queries
                   /\ log'.faults = log.faults
<1>2. ASSUME NEW s \in Servers, NEW alert, Dispatch(s, alert)
      PROVE  Same
  BY <1>1, <1>2 DEF Dispatch, Logs
<1>3. ASSUME NEW s \in Servers, Checked(s) \/ Written(s)
      PROVE  Same
  BY <1>2, <1>3 DEF Checked, Written
<1>4. ASSUME NEW s \in Servers,
             \/ ClearDone(s) \/ Dispatched(s) \/ Marked(s) \/ StartAlerter(s) \/ Started(s)
             \/ ExecuteMark(s) \/ ExecuteAlert(s)
      PROVE  Same
  BY <1>1, <1>4 DEF ClearDone, DispatchReset, Dispatched, Marked, StartAlerter, Started,
                    ExecuteMark, ExecuteAlert, Logs
<1>5. ASSUME log' = CountPeriod
      PROVE  Same
  BY <1>1, <1>5 DEF CountPeriod, Logs
<1>6. ASSUME NEW s \in Servers, ExecuteCheck(s) \/ ExecuteStart(s) \/ ExecuteClear(s)
      PROVE  Same
  BY <1>5, <1>6 DEF ExecuteCheck, ExecuteStart, ExecuteClear
<1>7. ASSUME NEW s \in Servers, \E level \in ErrorLevels : HandleResult(s, level)
      PROVE  /\ log'.overlaps \in {log.overlaps, log.overlaps + 1}
             /\ log'.queries = log.queries /\ log'.faults = log.faults
  BY <1>1, <1>7 DEF HandleResult, Logs
<1>8. ASSUME NEW s \in Servers, GainLock(s) \/ LoseLock(s) \/ Crash(s)
      PROVE  /\ log'.overlaps = log.overlaps
             /\ log'.queries = log.queries /\ log'.faults = log.faults + 1
  BY <1>1, <1>8 DEF GainLock, LoseLock, Crash, Fault, Logs
<1>9. log.overlaps \in Nat /\ log.faults \in Nat
  BY <1>1 DEF Logs
<1>10. CASE Query
  <2>1. CountPeriod \in Logs /\ CountPeriod.overlaps = log.overlaps
        /\ CountPeriod.faults = log.faults /\ CountPeriod.queries = log.queries
    BY <1>1 DEF CountPeriod, Logs
  <2>2. log' = [CountPeriod EXCEPT !.queries = @ + 1]
    BY <1>10 DEF Query
  <2>3. /\ log'.overlaps = log.overlaps /\ log'.faults = log.faults
        /\ log'.queries = log.queries + 1
    BY <2>1, <2>2 DEF Logs
  <2>4. log.queries + 1 # 0
    BY <1>1 DEF Logs
  <2> QED
    BY <1>9, <2>3, <2>4
<1>11. ASSUME UpdateRule \/ TimePasses \/ UNCHANGED allVars
       PROVE  Same
  <2>1. UpdateRule => log' = log
    BY UpdatedRule
  <2>2. TimePasses => log' = log
    BY DEF TimePasses
  <2>3. UNCHANGED allVars => log' = log
    BY DEF allVars
  <2> QED
    BY <1>11, <2>1, <2>2, <2>3
<1>12. \/ Query \/ Same
       \/ /\ log'.overlaps \in {log.overlaps, log.overlaps + 1}
          /\ log'.queries = log.queries /\ log'.faults = log.faults
       \/ /\ log'.overlaps = log.overlaps
          /\ log'.queries = log.queries /\ log'.faults = log.faults + 1
  BY <1>3, <1>4, <1>6, <1>7, <1>8, <1>11 DEF AllNext
<1> HIDE DEF Same
<1>13. CASE Same
  BY <1>9, <1>13 DEF Same
<1>14. CASE /\ log'.overlaps \in {log.overlaps, log.overlaps + 1}
            /\ log'.queries = log.queries /\ log'.faults = log.faults
  BY <1>9, <1>14
<1>15. CASE /\ log'.overlaps = log.overlaps
            /\ log'.queries = log.queries /\ log'.faults = log.faults + 1
  BY <1>9, <1>15
<1> QED
  BY <1>10, <1>12, <1>13, <1>14, <1>15

\* The circuit stays one of a started rule under the same commands.
LEMMA ExecuteOtherStarted ==
  ASSUME IInv, AllTypeOK, NEW s \in Servers, NoResets(s), db.rule.isActive,
         ExecuteAlert(s) \/ ExecuteMark(s) \/ ExecuteStart(s) \/ ExecuteClear(s),
         IsOpen => db.st.isStarted
  PROVE  IsOpen' => db'.st.isStarted
<1>1. /\ TypeOK /\ now >= Epoch /\ Loaded \in CallData /\ Fresh(Loaded)
      /\ db.st \in StateHash
  BY LoadedFacts DEF IInv, TypeOK, Database
<1>2. CASE ExecuteAlert(s)
  <2>1. PICK i \in DOMAIN wire[s], id \in AlertIds :
          Alert(id, wire[s][i].level) /\ wire[s][i].level \in ErrorLevels
    BY <1>2, AlertCases
  <2>2. db'.st = [db.st EXCEPT !.alertId = id]
    BY <2>1, WriteAlertKeeps
  <2>3. db'.st.circuit = db.st.circuit /\ db'.st.isStarted = db.st.isStarted
    BY <1>1, <2>2 DEF StateHash
  <2> QED
    BY <2>3 DEF IsOpen
<1>3. CASE ExecuteMark(s)
  BY <1>3, MarkKeeps DEF ExecuteMark, IsOpen
<1>4. CASE ExecuteStart(s)
  BY <1>1, <1>4, StartCalm, CallsAreCalm, CallLeads DEF ExecuteStart
<1>5. CASE ExecuteClear(s)
  <2>1. PICK i \in DOMAIN wire[s] : wire[s][i].op = "clear"
    BY <1>5 DEF ExecuteClear, IsNext
  <2> QED
    BY <2>1 DEF NoResets, Harmless
<1> QED
  BY <1>2, <1>3, <1>4, <1>5

LEMMA StepAlert ==
  IInv /\ AllTypeOK /\ ActiveInv /\ AlertInv /\ [AllNext]_allVars => AlertInv'
<1> SUFFICES ASSUME IInv, AllTypeOK, ActiveInv, AlertInv, [AllNext]_allVars,
                    db'.rule.isActive, log'.overlaps = 0, log'.queries = 0
             PROVE  /\ IsOpen' => db'.st.isStarted
                    /\ \A s \in Servers : Servers = {s} => AlerterRight(s)'
  BY DEF AlertInv
<1>1. /\ db.rule.isActive /\ log.overlaps = 0 /\ log.queries = 0
      /\ wire \in Wires /\ log \in Logs /\ alerter \in [Servers -> Alerters]
  BY StepActive, TroublesGrow, TypeParts DEF LocalTypeOK
<1>2. /\ IsOpen => db.st.isStarted
      /\ \A s \in Servers : NoResets(s)
      /\ \A s \in Servers : Servers = {s} => AlerterRight(s)
  BY <1>1 DEF AlertInv, ActiveInv
<1>3. ASSUME UNCHANGED vars
      PROVE  IsOpen' => db'.st.isStarted
  BY <1>2, <1>3 DEF vars, IsOpen
<1>4. ASSUME NEW t \in Servers,
             \/ \E level \in ErrorLevels : HandleResult(t, level)
             \/ Dispatched(t) \/ StartAlerter(t)
      PROVE  /\ IsOpen' => db'.st.isStarted
             /\ \A s \in Servers : Servers = {s} => AlerterRight(s)'
  <2>1. UNCHANGED <<vars, alerter>>
    BY <1>4, SentCases
  <2>2. ASSUME NEW s \in Servers, Servers = {s}
        PROVE  AlerterRight(s)'
    <3>1. t = s /\ AlerterRight(s)
      BY <1>2, <2>2
    <3>2. CASE wire' = wire
      BY <2>1, <3>1, <3>2, SameRight DEF vars, IsOpen, HasAlert
    <3>3. ASSUME NEW c \in Commands, ~c.reply.done, Send(wire[s], s, c),
                 \/ c.op \in {"mark", "start"}
                 \/ c.op = "check" /\ c.was = alerter[s].tripped /\ InFlight(s) = 0
          PROVE  AlerterRight(s)'
      <4>1. c.op \in Results =>
              /\ \A i \in DOMAIN wire[s] : wire[s][i].op \notin Results
              /\ c.was => alerter[s].tripped
        BY <1>1, <3>3, NothingInFlight DEF Results
      <4> QED
        BY <1>1, <2>1, <3>1, <3>3, <4>1, SentRight
    <3> QED
      BY <1>1, <1>4, <3>1, <3>2, <3>3, SentCases
  <2> QED
    BY <1>3, <2>1, <2>2
<1>5. ASSUME NEW t \in Servers, Checked(t)
      PROVE  /\ IsOpen' => db'.st.isStarted
             /\ \A s \in Servers : Servers = {s} => AlerterRight(s)'
  <2>1. UNCHANGED vars
    BY <1>5 DEF Checked
  <2> QED
    BY <1>2, <1>3, <1>5, <2>1, CheckedRight
<1>6. ASSUME NEW t \in Servers, Written(t) \/ ClearDone(t) \/ Marked(t) \/ Started(t)
      PROVE  /\ IsOpen' => db'.st.isStarted
             /\ \A s \in Servers : Servers = {s} => AlerterRight(s)'
  <2>1. UNCHANGED vars
    BY <1>6 DEF Written, ClearDone, Marked, Started
  <2>2. ~ClearDone(t)
    <3>1. ClearDone(t) => wire[t] # <<>> /\ Head(wire[t]).op = "clear"
      BY DEF ClearDone
    <3>2. wire[t] # <<>> => Head(wire[t]) = wire[t][1] /\ 1 \in DOMAIN wire[t]
      BY <1>1, PopType
    <3> QED
      BY <1>2, <3>1, <3>2 DEF NoResets, Harmless
  <2>3. /\ wire[t] # <<>> /\ wire' = [wire EXCEPT ![t] = Tail(@)]
        /\ alerter'[t].tripped = alerter[t].tripped
        /\ wire[t][1].op # "check" /\ wire[t][1].reply.done
    <3>1. CASE Written(t)
      BY <1>2, <3>1, WrittenPops
    <3>2. CASE Marked(t) \/ Started(t)
      <4>1. wire[t] # <<>> /\ wire' = [wire EXCEPT ![t] = Tail(@)]
            /\ Head(wire[t]).op \in {"mark", "start"} /\ Head(wire[t]).reply.done
        BY <3>2 DEF Marked, Started
      <4>2. Head(wire[t]) = wire[t][1]
        BY <1>1, <4>1, PopType
      <4>3. alerter'[t].tripped = alerter[t].tripped
        <5>1. alerter[t] \in Alerters /\ alerter'[t] \in
                {alerter[t], [alerter[t] EXCEPT !.ruleState = "NORMAL"]}
          BY <1>1, <3>2 DEF Marked, Started
        <5> QED
          BY <5>1 DEF Alerters
      <4> QED
        BY <4>1, <4>2, <4>3
    <3> QED
      BY <1>6, <2>2, <3>1, <3>2
  <2> QED
    BY <1>1, <1>2, <1>3, <2>1, <2>3, PoppedRight
<1>7. ASSUME NEW t \in Servers, ExecuteCheck(t)
      PROVE  /\ IsOpen' => db'.st.isStarted
             /\ \A s \in Servers : Servers = {s} => AlerterRight(s)'
  <2>1. db'.st.isStarted
    <3>1. PICK i \in DOMAIN wire[t] :
            Check(wire[t][i].level) /\ wire[t][i].level \in ErrorLevels
      BY <1>7, CheckSteps
    <3>2. /\ Start(Loaded) \in CallData /\ Start(Loaded).st.isStarted
          /\ db'.st = CheckNotify(Start(Loaded), wire[t][i].level).st
      BY <3>1, CheckLeads
    <3>3. TypeOK
      BY DEF IInv
    <3> QED
      BY <3>1, <3>2, <3>3, CheckNotifyKeeps
  <2> QED
    BY <1>2, <1>7, <2>1, ExecuteCheckRight
<1>8. ASSUME NEW t \in Servers,
             ExecuteAlert(t) \/ ExecuteMark(t) \/ ExecuteStart(t) \/ ExecuteClear(t),
             Servers = {t}
      PROVE  AlerterRight(t)'
  BY <1>1, <1>2, <1>8, ExecuteOtherRight
<1>9. ASSUME NEW t \in Servers,
             ExecuteAlert(t) \/ ExecuteMark(t) \/ ExecuteStart(t) \/ ExecuteClear(t)
      PROVE  IsOpen' => db'.st.isStarted
  BY <1>1, <1>2, <1>9, ExecuteOtherStarted
<1>10. CASE TimePasses \/ UNCHANGED allVars \/ \E t \in Servers : GainLock(t) \/ LoseLock(t)
  <2>1. db' = db /\ UNCHANGED local
    BY <1>10 DEF TimePasses, Tick, allVars, vars, GainLock, LoseLock, Fault
  <2>2. IsOpen' = IsOpen /\ HasAlert' = HasAlert
    BY <2>1 DEF IsOpen, HasAlert
  <2> QED
    BY <1>2, <2>1, <2>2, SameRight DEF local
<1>11. ASSUME NEW t \in Servers, Crash(t)
       PROVE  /\ IsOpen' => db'.st.isStarted
              /\ \A s \in Servers : Servers = {s} => AlerterRight(s)'
  <2>1. UNCHANGED vars
    BY <1>11 DEF Crash, Fault
  <2>2. ASSUME NEW s \in Servers, Servers = {s}
        PROVE  AlerterRight(s)'
    <3>1. t = s
      BY <2>2
    <3>2. wire'[s] = <<>> /\ ~alerter'[s].tripped
      BY <1>1, <1>11, <3>1 DEF Crash, Wires, NewAlerter
    <3> QED
      BY <3>2 DEF AlerterRight, Alone, BelievesRight, CheckRight
  <2> QED
    BY <1>3, <2>1, <2>2
<1>12. ~Query
  <2>1. ASSUME Query
        PROVE  log'.queries # 0
    <3>1. CountPeriod \in Logs /\ CountPeriod.queries = log.queries
      BY <1>1 DEF CountPeriod, Logs
    <3>2. log' = [CountPeriod EXCEPT !.queries = @ + 1]
      BY <2>1 DEF Query
    <3>3. log'.queries = log.queries + 1 /\ log.queries \in Nat
      BY <1>1, <3>1, <3>2 DEF Logs
    <3> QED
      BY <3>3
  <2> QED
    BY <2>1
<1>13. CASE UpdateRule
  <2>1. UNCHANGED local /\ IsOpen' = IsOpen /\ HasAlert' = HasAlert
        /\ db'.st.isStarted = db.st.isStarted
    BY <1>13, UpdatedRule DEF HasAlert
  <2> QED
    BY <1>2, <2>1, SameRight DEF local
<1> QED
  BY <1>4, <1>5, <1>6, <1>7, <1>8, <1>9, <1>10, <1>11, <1>12, <1>13 DEF AllNext

LEMMA ActiveInvariance == AllSpec => [](IInv /\ AllTypeOK /\ ActiveInv)
<1>1. AllInit => ActiveInv
  <2> SUFFICES ASSUME AllInit
               PROVE  ActiveInv
    OBVIOUS
  <2>1. db.st.circuit = "CLOSED"
    BY DEF AllInit, Init, EmptyState
  <2>2. \A s \in Servers : wire[s] = <<>>
    BY DEF AllInit
  <2> QED
    BY <2>1, <2>2 DEF ActiveInv, OpenWhenWarm, NoResets
<1> QED
  BY <1>1, StepActiveInv, TypeInvariance, PTL DEF AllSpec

\* A rule with one alerter whose results do not overlap is never seen
\* triggered without its alert being open, through any crash and any change of
\* the lock: the result that triggers it writes the alert, and nothing closes
\* the alert while the circuit stays open.
THEOREM TriggeredRulesHaveAlerts == AllSpec => []TrippedHasAlert
<1>1. AllInit => AlertInv
  <2> SUFFICES ASSUME AllInit
               PROVE  AlertInv
    OBVIOUS
  <2>1. ~IsOpen
    BY DEF AllInit, Init, EmptyState, IsOpen
  <2>2. \A s \in Servers : wire[s] = <<>> /\ ~alerter[s].tripped
    BY DEF AllInit, NewAlerter
  <2> QED
    BY <2>1, <2>2 DEF AlertInv, AlerterRight, Alone, BelievesRight, CheckRight
<1>2. AlertInv => TrippedHasAlert
  <2> SUFFICES ASSUME AlertInv, NEW s \in Servers, Servers = {s},
                      log.overlaps = 0, log.queries = 0, Quiet(s),
                      db.rule.isActive, alerter[s].tripped
               PROVE  HasAlert
    BY DEF TrippedHasAlert, HasAlert
  <2>1. AlerterRight(s)
    BY DEF AlertInv
  <2>2. ~Told(s) /\ ~Owed(s)
    BY DEF Quiet, Told, Owed, Answer
  <2> QED
    BY <2>1, <2>2 DEF AlerterRight, BelievesRight
<1> QED
  BY <1>1, <1>2, StepAlert, ActiveInvariance, PTL DEF AllSpec

-----------------------------------------------------------------------------
(* What an alerter knows, or will know once it looks at its answers.        *)

\* Redis executes the commands of s in order.
InOrder(s) ==
  \A i, j \in DOMAIN wire[s] :
    i < j /\ wire[s][j].reply.done => wire[s][i].reply.done

LastAnswer(s, i) ==
  Answer(wire[s][i]) /\ \A j \in DOMAIN wire[s] : j > i => ~Answer(wire[s][j])

\* The last of the answers that s has yet to look at says that the circuit is
\* open; without one, s believes it already.
ThinksOpen(s) ==
  \/ ~Told(s) /\ alerter[s].tripped
  \/ \E i \in DOMAIN wire[s] : LastAnswer(s, i) /\ wire[s][i].reply.open

LEMMA SameThought ==
  ASSUME NEW s \in Servers, wire'[s] = wire[s],
         alerter'[s].tripped = alerter[s].tripped
  PROVE  /\ InOrder(s) => InOrder(s)'
         /\ ThinksOpen(s)' <=> ThinksOpen(s)
BY DEF InOrder, ThinksOpen, LastAnswer, Told, Answer

LEMMA SentThought ==
  ASSUME wire \in Wires, NEW s \in Servers, InOrder(s),
         NEW c \in Commands, ~c.reply.done, Send(wire[s], s, c),
         alerter'[s].tripped = alerter[s].tripped
  PROVE  InOrder(s)' /\ (ThinksOpen(s)' <=> ThinksOpen(s))
<1> DEFINE n == Len(wire[s])
<1>1. wire[s] \in Seq(Commands)
  BY DEF Wires
<1>2. n \in Nat /\ DOMAIN wire[s] = 1..n
  BY <1>1
<1>3. /\ \A i \in DOMAIN wire[s] : i \in DOMAIN wire'[s] /\ wire'[s][i] = wire[s][i]
      /\ \A i \in DOMAIN wire'[s] : i \in DOMAIN wire[s] \/ (i = n + 1 /\ wire'[s][i] = c)
  BY SentPlaces
<1> HIDE DEF n
<1>4. InOrder(s)'
  <2> SUFFICES ASSUME NEW i \in DOMAIN wire'[s], NEW j \in DOMAIN wire'[s],
                      i < j, wire'[s][j].reply.done
               PROVE  wire'[s][i].reply.done
    BY DEF InOrder
  <2>1. j \in DOMAIN wire[s]
    BY <1>3
  <2>2. i \in DOMAIN wire[s]
    <3>1. j <= n /\ i # n + 1
      BY <1>2, <2>1
    <3> QED
      BY <1>3, <3>1
  <2> QED
    BY <1>3, <2>1, <2>2 DEF InOrder
<1>5. \A i \in DOMAIN wire'[s] :
        Answer(wire'[s][i]) => i \in DOMAIN wire[s] /\ wire'[s][i] = wire[s][i]
  BY <1>3 DEF Answer
<1>6. Told(s)' <=> Told(s)
  BY <1>3, <1>5 DEF Told, Answer
<1>7. \A i \in DOMAIN wire[s] : LastAnswer(s, i)' <=> LastAnswer(s, i)
  BY <1>3, <1>5 DEF LastAnswer, Answer
<1>8. \A i \in DOMAIN wire'[s] : LastAnswer(s, i)' => i \in DOMAIN wire[s]
  BY <1>5 DEF LastAnswer, Answer
<1> QED
  BY <1>3, <1>4, <1>6, <1>7, <1>8 DEF ThinksOpen

\* The first answer was taken, and what s learns from it is the same.
LEMMA TakenThought ==
  ASSUME wire \in Wires, NEW s \in Servers, InOrder(s),
         wire[s] # <<>>, 1 \in DOMAIN wire[s],
         \A i \in DOMAIN wire'[s] :
           /\ i \in Nat /\ i > 0
           /\ \/ i + 1 \in DOMAIN wire[s] /\ wire'[s][i] = wire[s][i + 1]
              \/ i = Len(wire[s]) /\ ~wire'[s][i].reply.done,
         \A i \in DOMAIN wire[s] :
           i = 1 \/ (i > 1 /\ i - 1 \in DOMAIN wire'[s] /\ wire'[s][i - 1] = wire[s][i]),
         alerter'[s].tripped =
           IF Answer(wire[s][1]) THEN wire[s][1].reply.open ELSE alerter[s].tripped
  PROVE  InOrder(s)' /\ (ThinksOpen(s)' <=> ThinksOpen(s))
<1> DEFINE n == Len(wire[s])
<1>1. wire[s] \in Seq(Commands)
  BY DEF Wires
<1>2. n \in Nat /\ DOMAIN wire[s] = 1..n
  BY <1>1
<1> HIDE DEF n
<1>3. InOrder(s)'
  <2> SUFFICES ASSUME NEW i \in DOMAIN wire'[s], NEW j \in DOMAIN wire'[s],
                      i < j, wire'[s][j].reply.done
               PROVE  wire'[s][i].reply.done
    BY DEF InOrder
  <2>1. j + 1 \in DOMAIN wire[s] /\ wire'[s][j] = wire[s][j + 1] /\ j \in Nat /\ i \in Nat
    OBVIOUS
  <2>2. i + 1 \in DOMAIN wire[s] /\ wire'[s][i] = wire[s][i + 1]
    <3>1. j + 1 <= n /\ i # n
      BY <1>2, <2>1
    <3> QED
      BY <3>1 DEF n
  <2>3. i + 1 < j + 1
    BY <2>1
  <2> QED
    BY <2>1, <2>2, <2>3 DEF InOrder
<1>4. \A i \in DOMAIN wire'[s] : Answer(wire'[s][i]) =>
        i \in Nat /\ i + 1 \in DOMAIN wire[s] /\ i + 1 # 1 /\ wire'[s][i] = wire[s][i + 1]
  BY DEF Answer
<1>5. \A i \in DOMAIN wire[s] : i # 1 =>
        i \in Nat /\ i - 1 \in DOMAIN wire'[s] /\ wire'[s][i - 1] = wire[s][i]
  BY <1>2
<1>6. Told(s)' <=> \E i \in DOMAIN wire[s] : i # 1 /\ Answer(wire[s][i])
  BY <1>4, <1>5 DEF Told, Answer
<1>7. \A i \in DOMAIN wire'[s] : LastAnswer(s, i)' =>
        LastAnswer(s, i + 1) /\ i + 1 \in DOMAIN wire[s] /\ wire'[s][i] = wire[s][i + 1]
  <2> SUFFICES ASSUME NEW i \in DOMAIN wire'[s], LastAnswer(s, i)'
               PROVE  /\ LastAnswer(s, i + 1) /\ i + 1 \in DOMAIN wire[s]
                      /\ wire'[s][i] = wire[s][i + 1]
    OBVIOUS
  <2>1. i + 1 \in DOMAIN wire[s] /\ wire'[s][i] = wire[s][i + 1] /\ i \in Nat
    BY <1>4 DEF LastAnswer, Answer
  <2>2. ASSUME NEW j \in DOMAIN wire[s], j > i + 1, Answer(wire[s][j])
        PROVE  FALSE
    <3>1. j # 1 /\ j - 1 > i
      BY <1>2, <2>1, <2>2
    <3>2. j - 1 \in DOMAIN wire'[s] /\ wire'[s][j - 1] = wire[s][j]
      BY <3>1
    <3> QED
      BY <2>2, <3>1, <3>2 DEF LastAnswer, Answer
  <2> QED
    BY <2>1, <2>2 DEF LastAnswer, Answer
<1>8. \A i \in DOMAIN wire[s] : i # 1 /\ LastAnswer(s, i) =>
        LastAnswer(s, i - 1)' /\ i - 1 \in DOMAIN wire'[s] /\ wire'[s][i - 1] = wire[s][i]
  <2> SUFFICES ASSUME NEW i \in DOMAIN wire[s], i # 1, LastAnswer(s, i)
               PROVE  /\ LastAnswer(s, i - 1)' /\ i - 1 \in DOMAIN wire'[s]
                      /\ wire'[s][i - 1] = wire[s][i]
    OBVIOUS
  <2>1. i - 1 \in DOMAIN wire'[s] /\ wire'[s][i - 1] = wire[s][i] /\ i \in Nat
    BY <1>5
  <2>2. ASSUME NEW j \in DOMAIN wire'[s], j > i - 1, Answer(wire'[s][j])
        PROVE  FALSE
    <3>1. j + 1 \in DOMAIN wire[s] /\ wire'[s][j] = wire[s][j + 1] /\ j + 1 > i
      BY <1>4, <2>1, <2>2
    <3> QED
      BY <2>2, <3>1 DEF LastAnswer
  <2> QED
    BY <2>1, <2>2 DEF LastAnswer, Answer
<1>9. CASE Told(s)'
  <2>1. ~LastAnswer(s, 1)
    BY <1>2, <1>6, <1>9 DEF LastAnswer
  <2>2. Told(s)
    BY <1>6, <1>9 DEF Told
  <2> QED
    BY <1>3, <1>7, <1>8, <1>9, <2>1, <2>2 DEF ThinksOpen
<1>10. CASE ~Told(s)'
  <2>1. \A i \in DOMAIN wire[s] : i # 1 => ~Answer(wire[s][i])
    BY <1>6, <1>10
  <2>2. \A i \in DOMAIN wire'[s] : ~LastAnswer(s, i)'
    BY <1>10 DEF Told, LastAnswer, Answer
  <2>3. ThinksOpen(s)' <=> alerter'[s].tripped
    BY <1>10, <2>2 DEF ThinksOpen
  <2>4. CASE Answer(wire[s][1])
    <3>1. LastAnswer(s, 1) /\ Told(s)
      BY <1>2, <2>1, <2>4 DEF LastAnswer, Told
    <3>2. \A i \in DOMAIN wire[s] : LastAnswer(s, i) => i = 1
      BY <2>1 DEF LastAnswer
    <3> QED
      BY <1>3, <2>3, <2>4, <3>1, <3>2 DEF ThinksOpen
  <2>5. CASE ~Answer(wire[s][1])
    <3>1. ~Told(s) /\ \A i \in DOMAIN wire[s] : ~LastAnswer(s, i)
      BY <2>1, <2>5 DEF LastAnswer, Told
    <3> QED
      BY <1>3, <2>3, <2>5, <3>1 DEF ThinksOpen
  <2> QED
    BY <2>4, <2>5
<1> QED
  BY <1>9, <1>10

\* Replies keep their order.
LEMMA ReplyInOrder ==
  ASSUME wire \in Wires, NEW s \in Servers, InOrder(s),
         NEW i \in DOMAIN wire[s], NEW reply, Reply(s, i, reply), reply.done,
         \A j \in 1..(i - 1) : wire[s][j].reply.done
  PROVE  InOrder(s)'
<1>1. wire[s][i] \in Commands /\ wire[s] \in Seq(Commands)
  BY DEF Wires
<1>2. /\ DOMAIN wire'[s] = DOMAIN wire[s]
      /\ wire'[s][i] = [wire[s][i] EXCEPT !.reply = reply]
      /\ \A j \in DOMAIN wire[s] : j # i => wire'[s][j] = wire[s][j]
  BY ReplyPlaces
<1>3. wire'[s][i].reply = reply
  BY <1>1, <1>2 DEF Commands, CommandsOf
<1>4. \A j \in DOMAIN wire[s] : j \in Nat /\ j > 0 /\ (j < i => j \in 1..(i - 1))
  BY <1>1
<1> SUFFICES ASSUME NEW j \in DOMAIN wire[s], NEW k \in DOMAIN wire[s],
                    j < k, wire'[s][k].reply.done
             PROVE  wire'[s][j].reply.done
  BY <1>2 DEF InOrder
<1>5. CASE j = i
  BY <1>3, <1>5
<1>6. CASE j # i /\ k = i
  BY <1>2, <1>4, <1>6
<1>7. CASE j # i /\ k # i
  BY <1>2, <1>7 DEF InOrder
<1> QED
  BY <1>5, <1>6, <1>7

\* A reply to a command that is no check tells s nothing.
LEMMA RepliedThought ==
  ASSUME wire \in Wires, NEW s \in Servers, InOrder(s),
         NEW i \in DOMAIN wire[s], NEW reply, Reply(s, i, reply), reply.done,
         wire[s][i].op # "check", \A j \in 1..(i - 1) : wire[s][j].reply.done,
         alerter' = alerter
  PROVE  InOrder(s)' /\ (ThinksOpen(s)' <=> ThinksOpen(s))
<1>1. wire[s][i] \in Commands /\ wire[s] \in Seq(Commands)
  BY DEF Wires
<1>2. /\ DOMAIN wire'[s] = DOMAIN wire[s]
      /\ wire'[s][i] = [wire[s][i] EXCEPT !.reply = reply]
      /\ \A j \in DOMAIN wire[s] : j # i => wire'[s][j] = wire[s][j]
  BY ReplyPlaces
<1>3. wire'[s][i].op = wire[s][i].op /\ wire'[s][i].reply = reply
  BY <1>1, <1>2 DEF Commands, CommandsOf
<1>4. InOrder(s)'
  BY ReplyInOrder
<1>5. \A j \in DOMAIN wire[s] :
        /\ Answer(wire'[s][j]) <=> Answer(wire[s][j])
        /\ Answer(wire[s][j]) => wire'[s][j] = wire[s][j]
  BY <1>2, <1>3 DEF Answer
<1>6. Told(s)' <=> Told(s)
  BY <1>2, <1>5 DEF Told, Answer
<1>7. \A j \in DOMAIN wire[s] :
        /\ LastAnswer(s, j)' <=> LastAnswer(s, j)
        /\ LastAnswer(s, j) => wire'[s][j] = wire[s][j]
  BY <1>2, <1>5 DEF LastAnswer, Answer
<1> QED
  BY <1>2, <1>4, <1>6, <1>7 DEF ThinksOpen

\* The reply to a check is the last answer: it is what s will know.
LEMMA AnsweredThought ==
  ASSUME wire \in Wires, NEW s \in Servers, InOrder(s),
         NEW i \in DOMAIN wire[s], NEW reply, Reply(s, i, reply), reply.done,
         wire[s][i].op = "check", ~wire[s][i].reply.done,
         \A j \in 1..(i - 1) : wire[s][j].reply.done
  PROVE  InOrder(s)' /\ (ThinksOpen(s)' <=> reply.open)
<1>1. wire[s][i] \in Commands /\ wire[s] \in Seq(Commands)
  BY DEF Wires
<1>2. /\ DOMAIN wire'[s] = DOMAIN wire[s]
      /\ wire'[s][i] = [wire[s][i] EXCEPT !.reply = reply]
      /\ \A j \in DOMAIN wire[s] : j # i => wire'[s][j] = wire[s][j]
  BY ReplyPlaces
<1>3. wire'[s][i].op = "check" /\ wire'[s][i].reply = reply
  BY <1>1, <1>2 DEF Commands, CommandsOf
<1>4. InOrder(s)'
  BY ReplyInOrder
<1>5. Told(s)'
  BY <1>2, <1>3 DEF Told, Answer
<1>6. ASSUME NEW j \in DOMAIN wire[s], j > i
      PROVE  ~Answer(wire'[s][j])
  <2>1. wire'[s][j] = wire[s][j] /\ ~wire[s][j].reply.done
    BY <1>1, <1>2, <1>6 DEF InOrder
  <2> QED
    BY <2>1 DEF Answer
<1>7. LastAnswer(s, i)'
  BY <1>2, <1>3, <1>6 DEF LastAnswer, Answer
<1>8. ASSUME NEW j \in DOMAIN wire[s], LastAnswer(s, j)'
      PROVE  j = i
  <2>1. i \in Nat /\ j \in Nat
    BY <1>1
  <2>2. ~(i > j) /\ ~(j > i)
    BY <1>2, <1>6, <1>7, <1>8 DEF LastAnswer, Answer
  <2> QED
    BY <2>1, <2>2
<1> QED
  BY <1>2, <1>3, <1>4, <1>5, <1>7, <1>8 DEF ThinksOpen

\* s takes an answer, perhaps in exchange for a command to write an alert: it
\* knows what it would have known.
LEMMA AnswerThought ==
  ASSUME AllTypeOK, NEW s \in Servers, InOrder(s), NoResets(s),
         Checked(s) \/ Written(s) \/ ClearDone(s) \/ Marked(s) \/ Started(s)
  PROVE  InOrder(s)' /\ (ThinksOpen(s)' <=> ThinksOpen(s))
<1>1. wire \in Wires /\ alerter \in [Servers -> Alerters]
  BY TypeParts DEF LocalTypeOK
<1>2. ASSUME wire[s] # <<>>, 1 \in DOMAIN wire[s], wire' = [wire EXCEPT ![s] = Tail(@)],
             alerter'[s].tripped =
               IF Answer(wire[s][1]) THEN wire[s][1].reply.open ELSE alerter[s].tripped
      PROVE  InOrder(s)' /\ (ThinksOpen(s)' <=> ThinksOpen(s))
  BY <1>1, <1>2, PoppedPlaces, TakenThought
<1>3. CASE Checked(s)
  <2>1. /\ wire[s] # <<>> /\ 1 \in DOMAIN wire[s] /\ Answer(wire[s][1])
        /\ alerter'[s].tripped = wire[s][1].reply.open
        /\ \/ wire' = [wire EXCEPT ![s] = Tail(@)]
           \/ \E a \in Commands :
                a.op = "alert" /\ ~a.reply.done /\ Send(Tail(wire[s]), s, a)
    BY <1>3, CheckedCases
  <2>2. ASSUME NEW a \in Commands, ~a.reply.done, Send(Tail(wire[s]), s, a)
        PROVE  InOrder(s)' /\ (ThinksOpen(s)' <=> ThinksOpen(s))
    <3>1. /\ \A i \in DOMAIN wire'[s] :
               /\ i \in Nat /\ i > 0
               /\ \/ i + 1 \in DOMAIN wire[s] /\ wire'[s][i] = wire[s][i + 1]
                  \/ i = Len(wire[s]) /\ ~wire'[s][i].reply.done
          /\ \A i \in DOMAIN wire[s] :
               i = 1 \/ (i > 1 /\ i - 1 \in DOMAIN wire'[s] /\ wire'[s][i - 1] = wire[s][i])
      BY <1>1, <2>1, <2>2, ReplacedPlaces
    <3> QED
      BY <1>1, <2>1, <3>1, TakenThought
  <2> QED
    BY <1>2, <2>1, <2>2
<1>4. CASE Written(s)
  <2>1. /\ wire[s] # <<>> /\ wire' = [wire EXCEPT ![s] = Tail(@)]
        /\ wire[s][1].op = "alert" /\ alerter'[s].tripped = alerter[s].tripped
    BY <1>4, WrittenPops
  <2>2. 1 \in DOMAIN wire[s] /\ ~Answer(wire[s][1])
    BY <1>1, <2>1, PopType DEF Answer
  <2> QED
    BY <1>2, <2>1, <2>2
<1>5. CASE Marked(s) \/ Started(s)
  <2>1. wire[s] # <<>> /\ wire' = [wire EXCEPT ![s] = Tail(@)]
        /\ Head(wire[s]).op \in {"mark", "start"}
    BY <1>5 DEF Marked, Started
  <2>2. 1 \in DOMAIN wire[s] /\ ~Answer(wire[s][1])
    BY <1>1, <2>1, PopType DEF Answer
  <2>3. alerter'[s].tripped = alerter[s].tripped
    <3>1. alerter[s] \in Alerters /\ alerter'[s] \in
            {alerter[s], [alerter[s] EXCEPT !.ruleState = "NORMAL"]}
      BY <1>1, <1>5 DEF Marked, Started
    <3> QED
      BY <3>1 DEF Alerters
  <2> QED
    BY <1>2, <2>1, <2>2, <2>3
<1>6. ~ClearDone(s)
  <2>1. ClearDone(s) => wire[s] # <<>> /\ Head(wire[s]).op = "clear"
    BY DEF ClearDone
  <2>2. wire[s] # <<>> => Head(wire[s]) = wire[s][1] /\ 1 \in DOMAIN wire[s]
    BY <1>1, PopType
  <2> QED
    BY <2>1, <2>2 DEF NoResets, Harmless
<1> QED
  BY <1>3, <1>4, <1>5, <1>6

\* Redis executes anything but a check.
LEMMA ExecuteOtherThought ==
  ASSUME AllTypeOK, NEW s \in Servers, InOrder(s),
         ExecuteAlert(s) \/ ExecuteMark(s) \/ ExecuteStart(s) \/ ExecuteClear(s)
  PROVE  InOrder(s)' /\ (ThinksOpen(s)' <=> ThinksOpen(s))
<1>1. wire \in Wires
  BY TypeParts DEF LocalTypeOK
<1>2. PICK i \in DOMAIN wire[s], op \in {"alert", "mark", "start", "clear"},
           reply \in AlertReplies \cup {[done |-> TRUE]} :
        IsNext(s, i, op) /\ Reply(s, i, reply) /\ reply.done
  <2>1. CASE ExecuteAlert(s)
    <3>1. PICK i \in DOMAIN wire[s], alert \in Named :
            IsNext(s, i, "alert") /\ Reply(s, i, [done |-> TRUE, alert |-> alert])
      BY <2>1, AlertCases
    <3> DEFINE reply == [done |-> TRUE, alert |-> alert]
    <3>2. reply.done /\ Reply(s, i, reply) /\ reply \in AlertReplies
      BY <3>1 DEF Named, AlertReplies
    <3> HIDE DEF reply
    <3> QED
      BY <3>1, <3>2
  <2>2. CASE ExecuteMark(s) \/ ExecuteStart(s) \/ ExecuteClear(s)
    <3> DEFINE reply == [done |-> TRUE]
    <3>1. reply.done /\ reply \in {[done |-> TRUE]}
      OBVIOUS
    <3>2. \E i \in DOMAIN wire[s], op \in {"mark", "start", "clear"} :
            IsNext(s, i, op) /\ Reply(s, i, reply)
      BY <2>2 DEF ExecuteMark, ExecuteStart, ExecuteClear
    <3> HIDE DEF reply
    <3> QED
      BY <3>1, <3>2
  <2> QED
    BY <2>1, <2>2
<1>3. wire[s][i].op # "check" /\ \A j \in 1..(i - 1) : wire[s][j].reply.done
  BY <1>2 DEF IsNext
<1>4. alerter' = alerter
  BY DEF ExecuteAlert, ExecuteMark, ExecuteStart, ExecuteClear
<1> QED
  BY <1>1, <1>2, <1>3, <1>4, RepliedThought

\* Redis executes a check.
LEMMA ExecuteCheckThought ==
  ASSUME IInv, AllTypeOK, NEW s \in Servers, InOrder(s), ExecuteCheck(s)
  PROVE  InOrder(s)' /\ (ThinksOpen(s)' <=> CheckReply(Start(Loaded), db').open)
<1>1. wire \in Wires
  BY TypeParts DEF LocalTypeOK
<1>2. PICK i \in DOMAIN wire[s], reply \in CheckReplies :
        /\ IsNext(s, i, "check") /\ Reply(s, i, reply)
        /\ reply = CheckReply(Start(Loaded), db')
  BY CheckSteps
<1>3. /\ wire[s][i].op = "check" /\ ~wire[s][i].reply.done /\ reply.done
      /\ \A j \in 1..(i - 1) : wire[s][j].reply.done
  BY <1>2 DEF IsNext, CheckReplies
<1> QED
  BY <1>1, <1>2, <1>3, AnsweredThought

-----------------------------------------------------------------------------
(* A quiet alerter agrees with the circuit.                                 *)

AlerterAgrees(s) == InOrder(s) /\ (ThinksOpen(s) <=> IsOpen)

AgreesInv ==
  /\ db.rule.isActive /\ log.faults = 0 /\ hist.saves = 0
  /\ opts.failureThreshold > 0 /\ opts.recoveryWindow = 0
  => \A s \in Servers : Servers = {s} => AlerterAgrees(s)

\* The reply to a check tells whether the circuit is open.
LEMMA ExecuteCheckAgrees ==
  ASSUME IInv, AllTypeOK, NEW s \in Servers, AlerterAgrees(s), ExecuteCheck(s),
         OpenWhenWarm(db), ~hist.saved, db.rule.isActive, opts.failureThreshold > 0
  PROVE  AlerterAgrees(s)'
<1>1. /\ TypeOK /\ now >= Epoch /\ Loaded \in CallData
      /\ Fresh(Loaded) /\ Settled(Loaded) /\ Loaded.st = db.st /\ Loaded.rule = db.rule
  BY LoadedFacts DEF IInv, TypeOK, Database
<1> DEFINE d == Start(Loaded)
<1>2. PICK i \in DOMAIN wire[s], reply \in CheckReplies :
        reply = CheckReply(d, db') /\ db'.st = CheckNotify(d, wire[s][i].level).st
  BY CheckSteps, CheckLeads
<1>3. reply.open <=> IsOpen'
  <2>1. d.rule.isActive /\ ~CheckStatus(d) = "inactive"
    BY <1>1, StartActive DEF CheckStatus
  <2>2. CASE CheckStatus(d) = "ok"
    BY <1>2, <2>2 DEF CheckReply, IsOpen
  <2>3. CASE CheckStatus(d) = "warmup"
    <3>1. OpenWhenWarm(Loaded)
      BY <1>1 DEF OpenWhenWarm, IsWarmingUp
    <3>2. OpenWhenWarm(d)
      BY <1>1, <3>1, StartKeepsWarm
    <3>3. IsWarmingUp(d)
      BY <2>3 DEF CheckStatus
    <3>4. d.st.circuit # "OPEN"
      BY <3>2, <3>3 DEF OpenWhenWarm
    <3>5. db'.st = d.st
      BY <1>2, <2>3 DEF CheckNotify
    <3>6. ~IsOpen'
      BY <3>4, <3>5 DEF IsOpen
    <3>7. ~reply.open
      BY <1>2, <2>3 DEF CheckReply
    <3> QED
      BY <3>6, <3>7
  <2> QED
    BY <2>1, <2>2, <2>3 DEF CheckStatus
<1> QED
  BY <1>2, <1>3, ExecuteCheckThought DEF AlerterAgrees

\* What Redis does for the other commands of an active rule keeps the circuit
\* as it is, if a recovery window does not close it.
LEMMA OtherKeepsOpen ==
  ASSUME IInv, AllTypeOK, NEW s \in Servers, NoResets(s),
         ExecuteAlert(s) \/ ExecuteMark(s) \/ ExecuteStart(s) \/ ExecuteClear(s),
         ~hist.saved, opts.failureThreshold > 0, opts.recoveryWindow = 0
  PROVE  IsOpen' <=> IsOpen
<1>1. /\ TypeOK /\ Loaded \in CallData /\ Loaded.st = db.st /\ db.st \in StateHash
      /\ Settled(Loaded)
  BY LoadedFacts DEF IInv, TypeOK, Database
<1>2. CASE ExecuteAlert(s)
  <2>1. PICK i \in DOMAIN wire[s] :
          /\ UNCHANGED vars \/ \E id \in AlertIds : Alert(id, wire[s][i].level)
          /\ wire[s][i].level \in ErrorLevels
    BY <1>2, AlertCases
  <2>2. CASE UNCHANGED vars
    BY <2>2 DEF vars, IsOpen
  <2>3. CASE \E id \in AlertIds : Alert(id, wire[s][i].level)
    <3>1. PICK id \in AlertIds : db'.st = [db.st EXCEPT !.alertId = id]
      BY <2>1, <2>3, WriteAlertKeeps
    <3>2. db'.st.circuit = db.st.circuit
      BY <1>1, <3>1 DEF StateHash
    <3> QED
      BY <3>2 DEF IsOpen
  <2> QED
    BY <2>1, <2>2, <2>3
<1>3. CASE ExecuteMark(s)
  BY <1>3, MarkKeeps DEF ExecuteMark, IsOpen
<1>4. CASE ExecuteStart(s)
  <2>1. Calm(Loaded, Start(Loaded)) /\ db'.st = Start(Loaded).st
    BY <1>4, CallsAreCalm, CallLeads DEF ExecuteStart
  <2>2. db'.st.circuit = db.st.circuit
    BY <1>1, <2>1, CalmKeepsCircuit
  <2> QED
    BY <2>2 DEF IsOpen
<1>5. CASE ExecuteClear(s)
  <2>1. PICK i \in DOMAIN wire[s] : wire[s][i].op = "clear"
    BY <1>5 DEF ExecuteClear, IsNext
  <2> QED
    BY <2>1 DEF NoResets, Harmless
<1> QED
  BY <1>2, <1>3, <1>4, <1>5

LEMMA StepAgrees ==
  IInv /\ AllTypeOK /\ ActiveInv /\ AgreesInv /\ [AllNext]_allVars => AgreesInv'
<1> SUFFICES ASSUME IInv, AllTypeOK, ActiveInv, AgreesInv, [AllNext]_allVars,
                    db'.rule.isActive, log'.faults = 0, hist'.saves = 0,
                    opts'.failureThreshold > 0, opts'.recoveryWindow = 0,
                    NEW s \in Servers, Servers = {s}
             PROVE  AlerterAgrees(s)'
  BY DEF AgreesInv
<1>1. /\ db.rule.isActive /\ log.faults = 0
      /\ opts.failureThreshold > 0 /\ opts.recoveryWindow = 0
      /\ opts' = opts /\ hist.saves = 0 /\ ~hist.saved
      /\ wire \in Wires /\ log \in Logs /\ alerter \in [Servers -> Alerters]
  BY StepActive, TroublesGrow, OptionsStay, TypeParts DEF LocalTypeOK
<1>2. /\ InOrder(s) /\ (ThinksOpen(s) <=> IsOpen)
      /\ NoResets(s) /\ OpenWhenWarm(db)
  BY <1>1 DEF AgreesInv, AlerterAgrees, ActiveInv
<1>3. ASSUME InOrder(s)', ThinksOpen(s)' <=> ThinksOpen(s), IsOpen' <=> IsOpen
      PROVE  AlerterAgrees(s)'
  BY <1>2, <1>3 DEF AlerterAgrees
<1>4. CASE \/ \E level \in ErrorLevels : HandleResult(s, level)
           \/ Dispatched(s) \/ StartAlerter(s)
  <2>1. /\ UNCHANGED <<vars, alerter>>
        /\ \/ wire' = wire
           \/ \E c \in Commands : ~c.reply.done /\ Send(wire[s], s, c)
    BY <1>4, SentCases
  <2>2. InOrder(s)' /\ (ThinksOpen(s)' <=> ThinksOpen(s))
    BY <1>1, <1>2, <2>1, SameThought, SentThought
  <2> QED
    BY <1>3, <2>1, <2>2 DEF vars, IsOpen
<1>5. CASE Checked(s) \/ Written(s) \/ ClearDone(s) \/ Marked(s) \/ Started(s)
  <2>1. UNCHANGED vars
    BY <1>5 DEF Checked, Written, ClearDone, Marked, Started
  <2> QED
    BY <1>2, <1>3, <1>5, <2>1, AnswerThought DEF vars, IsOpen
<1>6. CASE ExecuteCheck(s)
  BY <1>1, <1>2, <1>6, ExecuteCheckAgrees DEF AlerterAgrees
<1>7. CASE ExecuteAlert(s) \/ ExecuteMark(s) \/ ExecuteStart(s) \/ ExecuteClear(s)
  BY <1>1, <1>2, <1>3, <1>7, ExecuteOtherThought, OtherKeepsOpen
<1>8. CASE Query
  <2>1. Calm(Loaded, UpdateCircuit(Loaded)) /\ db'.st = UpdateCircuit(Loaded).st
    BY <1>8, CallsAreCalm, CallLeads DEF Query
  <2>2. TypeOK /\ Loaded \in CallData /\ Loaded.st = db.st /\ Settled(Loaded)
    BY <1>1, LoadedFacts DEF IInv
  <2>3. db'.st.circuit = db.st.circuit
    BY <1>1, <2>1, <2>2, CalmKeepsCircuit
  <2>4. (IsOpen' <=> IsOpen) /\ UNCHANGED local
    BY <1>8, <2>3 DEF Query, IsOpen
  <2> QED
    BY <1>2, <1>3, <2>4, SameThought DEF local
<1>9. CASE TimePasses \/ UNCHANGED allVars \/ GainLock(s) \/ LoseLock(s)
  <2>1. db' = db /\ UNCHANGED local
    BY <1>9 DEF TimePasses, Tick, allVars, vars, GainLock, LoseLock, Fault
  <2> QED
    BY <1>2, <1>3, <2>1, SameThought DEF local, IsOpen
<1>10. ~Crash(s)
  <2>1. Crash(s) => log'.faults = log.faults + 1
    BY <1>1 DEF Crash, Fault, Logs
  <2> QED
    BY <1>1, <2>1
<1>11. ~UpdateRule
  BY <1>1, UpdatedRule
<1> QED
  BY <1>4, <1>5, <1>6, <1>7, <1>8, <1>9, <1>10, <1>11 DEF AllNext

\* The one alerter of an active rule agrees with the circuit whenever none of
\* its results is under way, however they overlapped: what it learns last is
\* what the circuit did last, as commands are executed and answered in order.
\* This needs a threshold (a start or a query opens the circuit of a rule
\* without one), no recovery window (a query closes the circuit after it), that
\* the server never crashed (a new process takes the rule for untriggered) and
\* that no other options were saved (a query applies them).
THEOREM QuietAlertersAgree == AllSpec => []QuietAgrees
<1>1. AllInit => AgreesInv
  <2> SUFFICES ASSUME AllInit, NEW s \in Servers
               PROVE  AlerterAgrees(s)
    BY DEF AgreesInv
  <2>1. ~IsOpen
    BY DEF AllInit, Init, EmptyState, IsOpen
  <2>2. DOMAIN wire[s] = {} /\ ~alerter[s].tripped
    BY DEF AllInit, NewAlerter
  <2> QED
    BY <2>1, <2>2 DEF AlerterAgrees, InOrder, ThinksOpen
<1>2. AllTypeOK /\ AgreesInv => QuietAgrees
  <2> SUFFICES ASSUME AllTypeOK, AgreesInv, NEW s \in Servers, Servers = {s}, Quiet(s),
                      db.rule.isActive, opts.failureThreshold > 0,
                      opts.recoveryWindow = 0, log.faults = 0, hist.saves = 0
               PROVE  alerter[s].tripped = IsOpen
    BY DEF QuietAgrees
  <2>1. ThinksOpen(s) <=> IsOpen
    BY DEF AgreesInv, AlerterAgrees
  <2>2. \A i \in DOMAIN wire[s] : ~Answer(wire[s][i])
    BY DEF Quiet, Answer
  <2>3. ThinksOpen(s) <=> alerter[s].tripped
    BY <2>2 DEF ThinksOpen, Told, LastAnswer
  <2>4. alerter[s].tripped \in BOOLEAN
    BY TypeParts DEF LocalTypeOK, Alerters
  <2>5. CASE IsOpen
    <3>1. alerter[s].tripped = TRUE
      BY <2>1, <2>3, <2>4, <2>5
    <3>2. IsOpen = TRUE
      BY <2>5 DEF IsOpen
    <3> QED
      BY <3>1, <3>2
  <2>6. CASE ~IsOpen
    <3>1. alerter[s].tripped = FALSE
      BY <2>1, <2>3, <2>4, <2>6
    <3>2. IsOpen = FALSE
      BY <2>6 DEF IsOpen
    <3> QED
      BY <3>1, <3>2
  <2> QED
    BY <2>5, <2>6
<1> QED
  BY <1>1, <1>2, StepAgrees, ActiveInvariance, PTL DEF AllSpec

-----------------------------------------------------------------------------
(* Finite sets.                                                             *)

Within(S, n) == IsFiniteSet(S) /\ Cardinality(S) <= n

LEMMA WithinSubset ==
  ASSUME NEW S, IsFiniteSet(S), NEW T, T \subseteq S
  PROVE  IsFiniteSet(T) /\ Cardinality(T) <= Cardinality(S)
<1>1. T \in SUBSET S
  OBVIOUS
<1> QED
  BY <1>1, FS_Subset

\* Pairs whose second part g moves, where their first part is s, are as many as
\* the places they are moved to at most.
LEMMA Moved ==
  ASSUME NEW P, NEW S, IsFiniteSet(S), NEW T \in SUBSET (P \X Nat), NEW s \in P,
         NEW g \in [Nat -> Nat],
         \A t \in P, i \in Nat : t # s /\ <<t, i>> \in T => <<t, i>> \in S,
         \A i \in Nat : <<s, i>> \in T => <<s, g[i]>> \in S,
         \A i, j \in Nat : <<s, i>> \in T /\ <<s, j>> \in T /\ g[i] = g[j] => i = j
  PROVE  IsFiniteSet(T) /\ Cardinality(T) <= Cardinality(S)
<1> DEFINE f == [x \in T |-> IF x[1] = s THEN <<s, g[x[2]]>> ELSE x]
<1>1. \A x \in T : x[1] \in P /\ x[2] \in Nat /\ x = <<x[1], x[2]>>
  OBVIOUS
<1>2. \A x \in T : f[x] \in S
  BY <1>1
<1>3. ASSUME NEW x \in T, NEW y \in T, f[x] = f[y]
      PROVE  x = y
  <2>1. f[x][1] = x[1] /\ f[y][1] = y[1]
    BY <1>1
  <2>2. CASE x[1] = s
    <3>1. g[x[2]] = g[y[2]]
      BY <1>3, <2>1, <2>2
    <3>2. x = <<s, x[2]>> /\ y = <<s, y[2]>> /\ x[2] \in Nat /\ y[2] \in Nat
      BY <1>1, <1>3, <2>1, <2>2
    <3>3. x[2] = y[2]
      BY <3>1, <3>2
    <3> QED
      BY <3>2, <3>3
  <2>3. CASE x[1] # s
    BY <1>3, <2>1, <2>3
  <2> QED
    BY <2>2, <2>3
<1>4. f \in Injection(T, S)
  BY <1>2, <1>3 DEF Injection, IsInjective
<1> QED
  BY <1>4, FS_Injection

-----------------------------------------------------------------------------
(* The book of the alerts.                                                  *)

\* The alerts that were written in a period of the open circuit
WrittenIn(period) ==
  {a \in AlertIds : db.alerts[a] # "unused" /\ log.of[a] = period}

\* A step that writes no alert and counts the period it opens, if any
Booked ==
  /\ \A a \in AlertIds : db'.alerts[a] = "unused" <=> db.alerts[a] = "unused"
  /\ log'.of = log.of
  /\ log'.period = IF Trips THEN log.period + 1 ELSE log.period

LEMMA StepBooked ==
  ASSUME IInv, AllTypeOK, [AllNext]_allVars,
         \A s \in Servers : ExecuteAlert(s) => ~db.rule.isActive
  PROVE  Booked
<1>1. log \in Logs /\ wire \in Wires
  BY TypeParts DEF LocalTypeOK
<1> DEFINE Counted == log'.of = log.of /\ log'.period = CountPeriod.period
           Kept == log'.of = log.of /\ log'.period = log.period
<1>2. CountPeriod.period = (IF Trips THEN log.period + 1 ELSE log.period)
      /\ CountPeriod.of = log.of /\ CountPeriod \in Logs
  BY <1>1 DEF CountPeriod, Logs
<1>3. ASSUME UNCHANGED vars, Kept
      PROVE  Booked
  <2>1. ~Trips
    BY <1>3 DEF Trips, IsOpen, vars
  <2> QED
    BY <1>3, <2>1 DEF Booked, vars
<1>4. ASSUME NEW s \in Servers, NEW alert, Dispatch(s, alert)
      PROVE  Kept
  BY <1>1, <1>4 DEF Dispatch, Logs
<1>5. ASSUME NEW s \in Servers, Checked(s) \/ Written(s)
      PROVE  Booked
  BY <1>3, <1>4, <1>5 DEF Checked, Written
<1>6. ASSUME NEW s \in Servers,
             \/ \E level \in ErrorLevels : HandleResult(s, level)
             \/ ClearDone(s) \/ Dispatched(s) \/ Marked(s) \/ StartAlerter(s) \/ Started(s)
             \/ GainLock(s) \/ LoseLock(s) \/ Crash(s)
      PROVE  Booked
  BY <1>1, <1>3, <1>6 DEF HandleResult, ClearDone, DispatchReset, Dispatched, Marked,
       StartAlerter, Started, GainLock, LoseLock, Crash, Fault, Logs
<1>7. ASSUME NEW s \in Servers, ExecuteAlert(s)
      PROVE  Booked
  <2>1. UNCHANGED <<vars, log>>
    BY <1>7 DEF ExecuteAlert
  <2> QED
    BY <1>3, <2>1
<1>8. ASSUME Counted, Check("NONE") \/ Check("WARNING") \/ Check("CRITICAL")
                        \/ StartRule \/ Clear \/ QueryState
      PROVE  Booked
  <2>1. \A a \in AlertIds : db'.alerts[a] = "unused" <=> db.alerts[a] = "unused"
    BY <1>8, AlertsStayKnown DEF ErrorLevels
  <2> QED
    BY <1>2, <1>8, <2>1 DEF Booked
<1>9. ASSUME NEW s \in Servers, ExecuteCheck(s)
      PROVE  Booked
  <2>1. PICK i \in DOMAIN wire[s] :
          Check(wire[s][i].level) /\ wire[s][i].level \in ErrorLevels
    BY <1>9, CheckSteps
  <2>2. Counted
    BY <1>2, <1>9 DEF ExecuteCheck
  <2> QED
    BY <1>8, <2>1, <2>2 DEF ErrorLevels
<1>10. ASSUME NEW s \in Servers, ExecuteStart(s) \/ ExecuteClear(s)
       PROVE  Booked
  <2>1. Counted
    BY <1>2, <1>10 DEF ExecuteStart, ExecuteClear
  <2> QED
    BY <1>8, <1>10, <2>1 DEF ExecuteStart, ExecuteClear
<1>11. CASE Query
  <2>1. log' = [CountPeriod EXCEPT !.queries = @ + 1]
    BY <1>11 DEF Query
  <2>2. Counted
    BY <1>2, <2>1 DEF Logs
  <2> QED
    BY <1>8, <1>11, <2>2 DEF Query
<1>12. ASSUME log' = log, IsOpen' = IsOpen,
              MarkNotify \/ Tick
       PROVE  Booked
  <2>1. \A a \in AlertIds : db'.alerts[a] = "unused" <=> db.alerts[a] = "unused"
    BY <1>12, AlertsStayKnown
  <2>2. ~Trips
    BY <1>12 DEF Trips
  <2> QED
    BY <1>12, <2>1, <2>2 DEF Booked
<1>13. ASSUME NEW s \in Servers, ExecuteMark(s)
       PROVE  Booked
  <2>1. MarkNotify /\ log' = log
    BY <1>13 DEF ExecuteMark
  <2>2. IsOpen' = IsOpen
    BY <2>1, MarkKeeps DEF IsOpen
  <2> QED
    BY <1>12, <2>1, <2>2
<1>14. CASE UpdateRule
  BY <1>14, UpdatedRule DEF Booked, Trips
<1>15. CASE TimePasses
  BY <1>12, <1>15 DEF TimePasses, Tick, IsOpen
<1>16. CASE UNCHANGED allVars
  BY <1>3, <1>16 DEF allVars
<1> QED
  BY <1>5, <1>6, <1>7, <1>9, <1>10, <1>11, <1>13, <1>14, <1>15, <1>16 DEF AllNext

\* What was written stays written in its period, and a new period has nothing.
LEMMA BookedWritten ==
  ASSUME Booked, log \in Logs,
         \A a \in AlertIds : db.alerts[a] # "unused" => log.of[a] <= log.period
  PROVE  /\ \A p \in Nat : WrittenIn(p)' = WrittenIn(p)
         /\ Trips => WrittenIn(log.period)' = {}
         /\ \A a \in AlertIds : db'.alerts[a] # "unused" => log'.of[a] <= log'.period
<1>1. \A p \in Nat : WrittenIn(p)' = WrittenIn(p)
  BY DEF WrittenIn, Booked
<1>2. log.period \in Nat /\ \A a \in AlertIds : log.of[a] \in Nat
  BY DEF Logs
<1>3. \A a \in AlertIds : db'.alerts[a] # "unused" => log'.of[a] <= log'.period
  BY <1>2 DEF Booked
<1>4. ASSUME Trips
      PROVE  WrittenIn(log.period)' = {}
  <2>1. log'.period = log.period + 1 /\ log'.of = log.of
    BY <1>4 DEF Booked
  <2>2. \A a \in AlertIds : db'.alerts[a] # "unused" => log'.of[a] # log'.period
    BY <1>2, <2>1 DEF Booked
  <2> QED
    BY <2>2 DEF WrittenIn
<1> QED
  BY <1>1, <1>3, <1>4

-----------------------------------------------------------------------------
(* A rule that is started and warm stays so.                                *)

WarmedUp(d) == d.st.isStarted /\ ~IsWarmingUp(d)

LEMMA UpdateWarm ==
  ASSUME TypeOK, now >= Epoch, NEW d \in CallData, WarmedUp(d)
  PROVE  WarmedUp(UpdateCircuit(d))
<1>1. /\ d.st \in StateHash /\ now \in Nat /\ opts.warmupWindow \in Nat
      /\ opts.warmupWindow <= now
  BY OptionFacts, EpochAssumption DEF CallData, TypeOK, AlertOptions
<1>2. Tripped(d).isStarted = d.st.isStarted /\ Tripped(d).warmupStart = d.st.warmupStart
  BY <1>1 DEF Tripped, StateHash
<1>3. Recovered(d).isStarted = d.st.isStarted /\ Recovered(d).warmupStart = 0
  BY DEF Recovered, EmptyState
<1>4. \/ UpdateCircuit(d) = d
      \/ /\ UpdateCircuit(d).st.isStarted = d.st.isStarted
         /\ UpdateCircuit(d).st.warmupStart \in {0, d.st.warmupStart}
  BY <1>2, <1>3, UpdateCircuitCases
<1>5. /\ UpdateCircuit(d).st.isStarted
      /\ UpdateCircuit(d).st.warmupStart \in {0, d.st.warmupStart}
  BY <1>4 DEF WarmedUp
<1> QED
  BY <1>1, <1>5 DEF WarmedUp, IsWarmingUp

LEMMA CheckNotifyWarm ==
  ASSUME TypeOK, now >= Epoch, NEW d \in CallData, WarmedUp(d), NEW level \in ErrorLevels
  PROVE  WarmedUp(CheckNotify(d, level))
<1>1. ASSUME NEW e \in {HandleFailure(d, level), HandleSuccess(d)}
      PROVE  WarmedUp(UpdateCircuit(e))
  <2>1. /\ e \in CallData
        /\ e.st.isStarted = d.st.isStarted /\ e.st.warmupStart = d.st.warmupStart
    BY ResultCounts
  <2>2. WarmedUp(e)
    BY <2>1 DEF WarmedUp, IsWarmingUp
  <2> QED
    BY <2>1, <2>2, UpdateWarm
<1> QED
  BY <1>1 DEF CheckNotify

LEMMA StepWarm ==
  ASSUME IInv, AllTypeOK, [AllNext]_allVars, WarmedUp(db), hist'.saves = 0
  PROVE  WarmedUp(db)'
<1>1. /\ TypeOK /\ now >= Epoch /\ Loaded \in CallData /\ Loaded.st = db.st
      /\ Loaded.rule = db.rule /\ db.st \in StateHash /\ now \in Nat
      /\ opts.warmupWindow \in Nat
  BY LoadedFacts, OptionFacts DEF IInv, TypeOK, Database, AlertOptions
<1>2. opts' = opts
  BY OptionsStay
<1>3. WarmedUp(Loaded) /\ Start(Loaded) = Loaded
  BY <1>1 DEF WarmedUp, IsWarmingUp, Start
<1>4. ASSUME now' = now, NEW d, db'.st = d.st, WarmedUp(d)
      PROVE  WarmedUp(db)'
  BY <1>2, <1>4 DEF WarmedUp, IsWarmingUp
<1>5. ASSUME UNCHANGED vars
      PROVE  WarmedUp(db)'
  BY <1>4, <1>5 DEF vars
<1>6. ASSUME now' = now, db'.st.isStarted = db.st.isStarted,
             db'.st.warmupStart = db.st.warmupStart
      PROVE  WarmedUp(db)'
  BY <1>2, <1>6 DEF WarmedUp, IsWarmingUp
<1>7. ASSUME NEW s \in Servers, ExecuteCheck(s)
      PROVE  WarmedUp(db)'
  <2>1. PICK i \in DOMAIN wire[s] :
          Check(wire[s][i].level) /\ wire[s][i].level \in ErrorLevels
    BY <1>7, CheckSteps
  <2>2. db'.st = CheckNotify(Loaded, wire[s][i].level).st /\ now' = now
    BY <1>3, <2>1, CheckLeads
  <2>3. WarmedUp(CheckNotify(Loaded, wire[s][i].level))
    BY <1>1, <1>3, <2>1, CheckNotifyWarm
  <2> QED
    BY <1>4, <2>2, <2>3
<1>8. ASSUME NEW s \in Servers, ExecuteStart(s)
      PROVE  WarmedUp(db)'
  BY <1>3, <1>4, <1>8, CallsAreCalm, CallLeads DEF ExecuteStart
<1>9. ASSUME NEW s \in Servers, ExecuteClear(s)
      PROVE  WarmedUp(db)'
  <2>1. ResetAlert(Loaded) \in CallData /\ ResetAlert(Loaded).st = Loaded.st
    BY <1>1, ResetAlertType
  <2>2. WarmedUp(ResetAlert(Loaded))
    BY <1>3, <2>1 DEF WarmedUp, IsWarmingUp
  <2>3. WarmedUp(ClearState(Loaded))
    BY <1>1, <2>1, <2>2, UpdateWarm DEF ClearState
  <2> QED
    BY <1>4, <1>9, <2>3, CallsAreCalm, CallLeads DEF ExecuteClear
<1>10. CASE Query
  <2>1. db'.st = UpdateCircuit(Loaded).st /\ now' = now
    BY <1>10, CallsAreCalm, CallLeads DEF Query
  <2> QED
    BY <1>1, <1>3, <1>4, <2>1, UpdateWarm
<1>11. ASSUME NEW s \in Servers, ExecuteMark(s)
       PROVE  WarmedUp(db)'
  <2>1. MarkNotify /\ now' = now
    BY <1>11 DEF ExecuteMark, MarkNotify
  <2> QED
    BY <1>6, <2>1, MarkKeeps
<1>12. ASSUME NEW s \in Servers, ExecuteAlert(s)
       PROVE  WarmedUp(db)'
  <2>1. PICK i \in DOMAIN wire[s] :
          /\ UNCHANGED vars \/ \E id \in AlertIds : Alert(id, wire[s][i].level)
          /\ wire[s][i].level \in ErrorLevels
    BY <1>12, AlertCases
  <2>2. ASSUME NEW id \in AlertIds, Alert(id, wire[s][i].level)
        PROVE  WarmedUp(db)'
    <3>1. db'.st = [db.st EXCEPT !.alertId = id] /\ now' = now
      BY <2>1, <2>2, WriteAlertKeeps
    <3>2. db'.st.isStarted = db.st.isStarted /\ db'.st.warmupStart = db.st.warmupStart
      BY <1>1, <3>1 DEF StateHash
    <3> QED
      BY <1>6, <3>1, <3>2
  <2> QED
    BY <1>5, <2>1, <2>2
<1>13. CASE UpdateRule
  <2>1. db'.st = db.st /\ now' = now
    BY <1>13, UpdatedRule
  <2> QED
    BY <1>6, <2>1
<1>14. CASE TimePasses
  <2>1. now' = now + 1 /\ db' = db
    BY <1>14 DEF TimePasses, Tick
  <2> QED
    BY <1>1, <1>2, <2>1 DEF WarmedUp, IsWarmingUp, StateHash
<1>15. ASSUME NEW s \in Servers,
              \/ \E level \in ErrorLevels : HandleResult(s, level)
              \/ Checked(s) \/ Written(s) \/ ClearDone(s) \/ Dispatched(s) \/ Marked(s)
              \/ StartAlerter(s) \/ Started(s)
              \/ GainLock(s) \/ LoseLock(s) \/ Crash(s)
       PROVE  UNCHANGED vars
  BY <1>15 DEF HandleResult, Checked, Written, ClearDone, Dispatched, Marked,
       StartAlerter, Started, GainLock, LoseLock, Crash, Fault
<1>16. CASE UNCHANGED allVars
  BY <1>5, <1>16 DEF allVars
<1> QED
  BY <1>5, <1>7, <1>8, <1>9, <1>10, <1>11, <1>12, <1>13, <1>14, <1>15, <1>16 DEF AllNext

-----------------------------------------------------------------------------
(* Who may write an alert.                                                  *)

Bound == 1 + log.faults + log.overlaps

\* A command or an answer from which an alert will come
Due(c) == (c.op = "alert" /\ ~c.reply.done) \/ (Answer(c) /\ NeedsAlert(c))

Unchecked(c) == c.op = "check" /\ ~c.reply.done

Waits(s) == \E i \in DOMAIN wire[s] : Unchecked(wire[s][i])
Owes(s) == \E i \in DOMAIN wire[s] : Due(wire[s][i])

\* Place i of the connection of s is a turn: an alert may come from it, in this
\* period of the circuit or another one.  An owner that waits for no check has
\* one of its own (0), unless it takes the circuit for open and owes the alert.
Turn(s, i) ==
  \/ i = 0 /\ s \in owners /\ ~Waits(s) /\ (ThinksOpen(s) => ~Owes(s))
  \/ i \in DOMAIN wire[s] /\ (Due(wire[s][i]) \/ Unchecked(wire[s][i]))

\* The turn is a claim: an alert may come from it in the current period.
Claim(s, i) ==
  \/ i = 0 /\ IsOpen /\ s \in owners /\ ~Waits(s) /\ ~ThinksOpen(s)
  \/ /\ i \in DOMAIN wire[s]
     /\ \/ Due(wire[s][i])
        \/ IsOpen /\ Unchecked(wire[s][i]) /\ (ThinksOpen(s) => ~wire[s][i].was)

Turns == {x \in Servers \X Nat : Turn(x[1], x[2])}
Claims == {x \in Servers \X Nat : Claim(x[1], x[2])}

\* There are no more turns than troubles explain, and no more claims than the
\* alerts of the period leave.
Shared ==
  /\ Within(Turns, Bound)
  /\ Cardinality(WrittenIn(log.period)) + Cardinality(Claims) <= Bound

LEMMA ClaimsAreTurns == Claims \subseteq Turns
BY DEF Claims, Turns, Claim, Turn

\* A new period has no alert yet, and no more claims than turns.
LEMMA SharedCounts ==
  ASSUME log \in Logs, log' \in Logs, Bound' >= Bound, Shared, Booked,
         IsFiniteSet(WrittenIn(log.period)),
         \A a \in AlertIds : db.alerts[a] # "unused" => log.of[a] <= log.period,
         IsFiniteSet(Turns'), Cardinality(Turns') <= Cardinality(Turns),
         ~Trips => Cardinality(Claims') <= Cardinality(Claims)
  PROVE  Shared'
<1>0. Bound \in Nat /\ Bound' \in Nat
  BY DEF Bound, Logs
<1>1. /\ Bound \in Nat /\ Bound' \in Nat
      /\ Cardinality(Turns) \in Nat /\ Cardinality(Turns') \in Nat
      /\ Cardinality(Turns) <= Bound
  BY <1>0, FS_CardinalityType DEF Shared, Within
<1>2. Within(Turns, Bound)'
  BY <1>1 DEF Within
<1>3. /\ IsFiniteSet(Claims) /\ Cardinality(Claims) \in Nat
      /\ IsFiniteSet(Claims') /\ Cardinality(Claims') <= Cardinality(Turns')
      /\ Cardinality(Claims') \in Nat /\ Cardinality(WrittenIn(log.period)) \in Nat
  <2>1. Claims' \subseteq Turns'
    BY ClaimsAreTurns DEF Claims, Turns, Claim, Turn
  <2> QED
    BY <2>1, ClaimsAreTurns, WithinSubset, FS_CardinalityType DEF Shared, Within
<1>4. Cardinality(WrittenIn(log.period))' + Cardinality(Claims') <= Bound'
  <2>1. CASE Trips
    <3>1. WrittenIn(log.period)' = {}
      BY <2>1, BookedWritten
    <3>2. Cardinality(WrittenIn(log.period)') = 0
      BY <3>1, FS_EmptySet
    <3> QED
      BY <1>1, <1>3, <3>2
  <2>2. CASE ~Trips
    <3>1. log'.period = log.period /\ log.period \in Nat
      BY <2>2 DEF Booked, Logs
    <3>2. WrittenIn(log.period)' = WrittenIn(log.period)
      BY <3>1, BookedWritten DEF WrittenIn
    <3> QED
      BY <1>1, <1>3, <2>2, <3>2 DEF Shared
  <2> QED
    BY <2>1, <2>2
<1> QED
  BY <1>2, <1>4 DEF Shared

\* What s has after the step it had before, at the places that g tells.
Passes(s, g) ==
  /\ \A i \in Nat : Turn(s, i)' => Turn(s, g[i])
  /\ \A i, j \in Nat : Turn(s, i)' /\ Turn(s, j)' /\ g[i] = g[j] => i = j
  /\ ~Trips => \A i \in Nat : Claim(s, i)' => Claim(s, g[i])

Stay == [i \in Nat |-> i]

\* A step that writes no alert and moves the places of one server.
LEMMA SharedMoved ==
  ASSUME log \in Logs, log' \in Logs, Bound' >= Bound, Shared, Booked,
         IsFiniteSet(WrittenIn(log.period)),
         \A a \in AlertIds : db.alerts[a] # "unused" => log.of[a] <= log.period,
         NEW s \in Servers, NEW g \in [Nat -> Nat], Passes(s, g),
         \A t \in Servers : t # s => Passes(t, Stay)
  PROVE  Shared'
<1>1. /\ \A t \in Servers, i \in Nat : <<t, i>> \in Turns <=> Turn(t, i)
      /\ \A t \in Servers, i \in Nat : <<t, i>> \in Claims <=> Claim(t, i)
      /\ \A t \in Servers, i \in Nat : <<t, i>> \in Turns' <=> Turn(t, i)'
      /\ \A t \in Servers, i \in Nat : <<t, i>> \in Claims' <=> Claim(t, i)'
      /\ Turns' \in SUBSET (Servers \X Nat) /\ Claims' \in SUBSET (Servers \X Nat)
  BY DEF Turns, Claims
<1>0. IsFiniteSet(Turns)
  BY DEF Shared, Within
<1>2. \A i \in Nat : g[i] \in Nat /\ Stay[i] = i
  BY DEF Stay
<1>3. IsFiniteSet(Claims) /\ \A i \in Nat : Claim(s, i)' => Turn(s, i)'
  <2>1. IsFiniteSet(Claims)
    BY <1>0, ClaimsAreTurns, WithinSubset
  <2> QED
    BY <2>1 DEF Claim, Turn
<1>4. /\ \A t \in Servers, i \in Nat : t # s /\ <<t, i>> \in Turns' => <<t, i>> \in Turns
      /\ \A i \in Nat : <<s, i>> \in Turns' => <<s, g[i]>> \in Turns
      /\ \A i, j \in Nat : <<s, i>> \in Turns' /\ <<s, j>> \in Turns' /\ g[i] = g[j] => i = j
  BY <1>1, <1>2 DEF Passes
<1>5. IsFiniteSet(Turns') /\ Cardinality(Turns') <= Cardinality(Turns)
  BY <1>0, <1>1, <1>4, Moved, SMTT(30)
<1>6. ASSUME ~Trips
      PROVE  Cardinality(Claims') <= Cardinality(Claims)
  <2>1. /\ \A t \in Servers, i \in Nat : t # s /\ <<t, i>> \in Claims' => <<t, i>> \in Claims
        /\ \A i \in Nat : <<s, i>> \in Claims' => <<s, g[i]>> \in Claims
    BY <1>1, <1>2, <1>6 DEF Passes
  <2>2. \A i, j \in Nat :
          <<s, i>> \in Claims' /\ <<s, j>> \in Claims' /\ g[i] = g[j] => i = j
    BY <1>1, <1>3, <1>4
  <2> QED
    BY <1>1, <1>3, <2>1, <2>2, Moved
<1> QED
  BY <1>5, <1>6, SharedCounts

\* Every server has what it had.
LEMMA SharedStays ==
  ASSUME log \in Logs, log' \in Logs, Bound' >= Bound, Shared, Booked,
         IsFiniteSet(WrittenIn(log.period)),
         \A a \in AlertIds : db.alerts[a] # "unused" => log.of[a] <= log.period,
         \A t \in Servers : Passes(t, Stay)
  PROVE  Shared'
<1>1. \A i \in Nat : Stay[i] = i
  BY DEF Stay
<1>2. Turns' \subseteq Turns /\ (~Trips => Claims' \subseteq Claims)
  BY <1>1 DEF Passes, Turns, Claims
<1>3. IsFiniteSet(Turns) /\ IsFiniteSet(Claims)
  BY ClaimsAreTurns, WithinSubset DEF Shared, Within
<1> QED
  BY <1>2, <1>3, WithinSubset, SharedCounts

\* A trouble gives one more place.
LEMMA SharedMore ==
  ASSUME log \in Logs, log' \in Logs, Bound' >= Bound + 1, Shared,
         UNCHANGED vars, log'.of = log.of, log'.period = log.period,
         IsFiniteSet(WrittenIn(log.period)),
         NEW x, Turns' \subseteq Turns \cup {x}, Claims' \subseteq Claims \cup {x}
  PROVE  Shared'
<1>1. /\ Bound \in Nat /\ Bound' \in Nat /\ IsFiniteSet(Turns)
      /\ Cardinality(Turns) \in Nat /\ Cardinality(Turns) <= Bound
  <2>1. Bound \in Nat /\ Bound' \in Nat
    BY DEF Bound, Logs
  <2>2. IsFiniteSet(Turns) /\ Cardinality(Turns) <= Bound
    BY DEF Shared, Within
  <2> QED
    BY <2>1, <2>2, FS_CardinalityType
<1>2. IsFiniteSet(Claims) /\ Cardinality(Claims) \in Nat
  BY <1>1, ClaimsAreTurns, WithinSubset, FS_CardinalityType
<1> DEFINE More(S) == IsFiniteSet(S \cup {x}) /\ Cardinality(S \cup {x}) <= Cardinality(S) + 1
<1>3. ASSUME NEW S, IsFiniteSet(S), Cardinality(S) \in Nat
      PROVE  More(S)
  <2>1. /\ IsFiniteSet(S \cup {x})
        /\ Cardinality(S \cup {x}) \in {Cardinality(S), Cardinality(S) + 1}
    BY <1>3, FS_AddElement
  <2> QED
    BY <1>3, <2>1
<1>4. More(Turns) /\ More(Claims)
  BY <1>1, <1>2, <1>3
<1>5. /\ IsFiniteSet(Turns') /\ Cardinality(Turns') <= Cardinality(Turns \cup {x})
      /\ IsFiniteSet(Claims') /\ Cardinality(Claims') <= Cardinality(Claims \cup {x})
  BY <1>4, WithinSubset
<1>6. /\ Cardinality(Turns') \in Nat /\ Cardinality(Claims') \in Nat
      /\ Cardinality(Turns \cup {x}) \in Nat /\ Cardinality(Claims \cup {x}) \in Nat
  BY <1>4, <1>5, FS_CardinalityType
<1>7. WrittenIn(log.period)' = WrittenIn(log.period)
  BY DEF WrittenIn, vars
<1>8. Cardinality(Turns') <= Bound'
  BY <1>1, <1>4, <1>5, <1>6
<1>9. Cardinality(WrittenIn(log.period)) + Cardinality(Claims) <= Bound
  BY DEF Shared
<1> DEFINE w == Cardinality(WrittenIn(log.period))
<1>10. w \in Nat
  BY FS_CardinalityType
<1>11. w + Cardinality(Claims') <= Bound'
  BY <1>1, <1>2, <1>4, <1>5, <1>6, <1>9, <1>10
<1> QED
  BY <1>5, <1>7, <1>8, <1>11 DEF Shared, Within

-----------------------------------------------------------------------------
(* Steps that write no alert move the turns.                                *)

\* A server whose connection, belief and ownership stay has what it had.
LEMMA SamePasses ==
  ASSUME NEW s \in Servers, wire'[s] = wire[s],
         alerter'[s].tripped = alerter[s].tripped,
         s \in owners' => s \in owners
  PROVE  Passes(s, Stay)
<1>1. /\ ThinksOpen(s)' <=> ThinksOpen(s)
      /\ Waits(s)' <=> Waits(s)
      /\ Owes(s)' <=> Owes(s)
  BY SameThought DEF Waits, Owes
<1>2. \A i \in Nat : Stay[i] = i
  BY DEF Stay
<1>3. ~Trips => (IsOpen' => IsOpen)
  BY DEF Trips
<1>4. \A i \in Nat : Turn(s, i)' => Turn(s, i)
  BY <1>1 DEF Turn
<1>5. ~Trips => \A i \in Nat : Claim(s, i)' => Claim(s, i)
  BY <1>1, <1>3 DEF Claim
<1> QED
  BY <1>2, <1>4, <1>5 DEF Passes

\* A mark or a start is sent.
LEMMA OtherSentPasses ==
  ASSUME wire \in Wires, NEW s \in Servers, InOrder(s), owners' = owners,
         NEW c \in Commands, ~c.reply.done, c.op \in {"mark", "start"},
         Send(wire[s], s, c), UNCHANGED <<vars, alerter>>
  PROVE  Passes(s, Stay)
<1>1. /\ \A i \in DOMAIN wire[s] : i \in DOMAIN wire'[s] /\ wire'[s][i] = wire[s][i]
      /\ \A i \in DOMAIN wire'[s] :
           \/ i \in DOMAIN wire[s] /\ wire'[s][i] = wire[s][i]
           \/ ~Due(wire'[s][i]) /\ ~Unchecked(wire'[s][i])
  BY SentPlaces DEF Due, Unchecked, Answer
<1>2. /\ ThinksOpen(s)' <=> ThinksOpen(s)
      /\ Waits(s)' <=> Waits(s)
      /\ Owes(s)' <=> Owes(s)
  <2>1. ThinksOpen(s)' <=> ThinksOpen(s)
    BY SentThought
  <2> QED
    BY <1>1, <2>1 DEF Waits, Owes
<1>3. \A i \in Nat : Stay[i] = i
  BY DEF Stay
<1>4. IsOpen' = IsOpen
  BY DEF vars, IsOpen
<1>5. \A i \in Nat : Turn(s, i)' => Turn(s, i)
  BY <1>1, <1>2 DEF Turn
<1>6. \A i \in Nat : Claim(s, i)' => Claim(s, i)
  BY <1>1, <1>2, <1>4 DEF Claim
<1> QED
  BY <1>3, <1>5, <1>6 DEF Passes

\* What a check that is sent changes
LEMMA CheckSent ==
  ASSUME wire \in Wires, NEW s \in Servers, InOrder(s),
         NEW c \in Commands, ~c.reply.done, c.op = "check",
         Send(wire[s], s, c), alerter' = alerter
  PROVE  /\ ThinksOpen(s)' <=> ThinksOpen(s)
         /\ Waits(s)'
         /\ \A i \in DOMAIN wire'[s] :
              \/ i \in DOMAIN wire[s] /\ wire'[s][i] = wire[s][i]
              \/ i = Len(wire[s]) + 1 /\ wire'[s][i] = c
         /\ Len(wire[s]) + 1 \in Nat
<1>1. ThinksOpen(s)' <=> ThinksOpen(s)
  BY SentThought
<1>2. Len(wire[s]) \in Nat
  <2>1. wire[s] \in Seq(Commands)
    BY DEF Wires
  <2> QED
    BY <2>1
<1> QED
  BY <1>1, <1>2, SentPlaces DEF Waits, Unchecked

\* An owner with no result under way sends a check: the check takes its turn.
LEMMA FirstCheckPasses ==
  ASSUME wire \in Wires, NEW s \in Servers, InOrder(s), s \in owners,
         NEW c \in Commands, ~c.reply.done, c.op = "check",
         c.was = alerter[s].tripped, InFlight(s) = 0,
         Send(wire[s], s, c), UNCHANGED <<vars, alerter>>
  PROVE  \E g \in [Nat -> Nat] : Passes(s, g)
<1> DEFINE n == Len(wire[s]) + 1
           g == [i \in Nat |-> 0]
<1>1. /\ ThinksOpen(s)' <=> ThinksOpen(s)
      /\ Waits(s)'
      /\ \A i \in DOMAIN wire'[s] :
           \/ i \in DOMAIN wire[s] /\ wire'[s][i] = wire[s][i]
           \/ i = n /\ wire'[s][i] = c
  BY CheckSent
<1>2. \A i \in DOMAIN wire[s] : ~Due(wire[s][i]) /\ ~Unchecked(wire[s][i])
                                /\ ~Answer(wire[s][i])
  BY NothingInFlight DEF Due, Unchecked, Answer, Results
<1>3. ~Waits(s) /\ ~Owes(s) /\ ~Told(s) /\ (ThinksOpen(s) <=> alerter[s].tripped)
  BY <1>2 DEF Waits, Owes, Told, ThinksOpen, LastAnswer
<1> HIDE DEF n
<1>4. \A i \in Nat : Turn(s, i)' => i = n
  BY <1>1, <1>2 DEF Turn
<1>5. Turn(s, 0)
  BY <1>3 DEF Turn
<1>6. ASSUME NEW i \in Nat, Claim(s, i)'
      PROVE  Claim(s, 0)
  <2>1. i \in DOMAIN wire'[s] /\ wire'[s][i] = c
    BY <1>1, <1>2, <1>6 DEF Claim
  <2>2. IsOpen' /\ (ThinksOpen(s)' => ~c.was)
    BY <1>1, <1>6, <2>1 DEF Claim, Due, Answer
  <2>3. IsOpen /\ ~ThinksOpen(s)
    BY <1>1, <1>3, <2>2 DEF vars, IsOpen
  <2> QED
    BY <1>3, <2>3 DEF Claim
<1>7. g \in [Nat -> Nat] /\ \A i \in Nat : g[i] = 0
  OBVIOUS
<1> HIDE DEF g
<1> QED
  BY <1>4, <1>5, <1>6, <1>7 DEF Passes

\* A check is sent while another result is under way: a place more.
LEMMA OverlapMore ==
  ASSUME wire \in Wires, NEW s \in Servers, InOrder(s), owners' = owners,
         NEW c \in Commands, ~c.reply.done, c.op = "check",
         Send(wire[s], s, c), UNCHANGED <<vars, alerter>>
  PROVE  LET x == <<s, Len(wire[s]) + 1>>
         IN Turns' \subseteq Turns \cup {x} /\ Claims' \subseteq Claims \cup {x}
<1> DEFINE n == Len(wire[s]) + 1
<1>1. /\ ThinksOpen(s)' <=> ThinksOpen(s)
      /\ Waits(s)'
      /\ \A i \in DOMAIN wire'[s] :
           \/ i \in DOMAIN wire[s] /\ wire'[s][i] = wire[s][i]
           \/ i = n /\ wire'[s][i] = c
  BY CheckSent
<1> HIDE DEF n
<1>2. IsOpen' = IsOpen
  BY DEF vars, IsOpen
<1>3. \A i \in Nat : Turn(s, i)' => Turn(s, i) \/ i = n
  BY <1>1 DEF Turn
<1>4. \A i \in Nat : Claim(s, i)' => Claim(s, i) \/ i = n
  BY <1>1, <1>2 DEF Claim
<1>5. ASSUME NEW t \in Servers, t # s, NEW i \in Nat
      PROVE  (Turn(t, i)' => Turn(t, i)) /\ (Claim(t, i)' => Claim(t, i))
  <2>1. wire'[t] = wire[t] /\ alerter'[t].tripped = alerter[t].tripped
    BY <1>5, SendType DEF Send, Wires
  <2>2. Passes(t, Stay) /\ Stay[i] = i /\ ~Trips
    BY <1>2, <2>1, SamePasses DEF Stay, Trips
  <2> QED
    BY <2>2 DEF Passes
<1>6. \A x \in Servers \X Nat : Turn(x[1], x[2])' =>
        Turn(x[1], x[2]) \/ x = <<s, n>>
  BY <1>3, <1>5
<1>7. \A x \in Servers \X Nat : Claim(x[1], x[2])' =>
        Claim(x[1], x[2]) \/ x = <<s, n>>
  BY <1>4, <1>5
<1>8. Turns' \subseteq Turns \cup {<<s, n>>}
  BY <1>6 DEF Turns
<1>9. Claims' \subseteq Claims \cup {<<s, n>>}
  BY <1>7 DEF Claims
<1> QED
  BY <1>8, <1>9 DEF n

\* s takes an answer that asks for no alert.
LEMMA PoppedPasses ==
  ASSUME wire \in Wires, NEW s \in Servers, wire[s] # <<>>,
         wire' = [wire EXCEPT ![s] = Tail(@)],
         ThinksOpen(s)' <=> ThinksOpen(s),
         ~Due(wire[s][1]), ~Unchecked(wire[s][1]),
         owners' = owners, UNCHANGED vars
  PROVE  \E g \in [Nat -> Nat] : Passes(s, g)
<1> DEFINE g == [i \in Nat |-> IF i = 0 THEN 0 ELSE i + 1]
<1>1. /\ \A i \in DOMAIN wire'[s] :
           i \in Nat /\ i > 0 /\ i + 1 \in DOMAIN wire[s] /\ wire'[s][i] = wire[s][i + 1]
      /\ \A i \in DOMAIN wire[s] :
           i = 1 \/ (i > 1 /\ i - 1 \in DOMAIN wire'[s] /\ wire'[s][i - 1] = wire[s][i])
  BY PoppedPlaces
<1>2. Waits(s)' <=> Waits(s)
  BY <1>1 DEF Waits
<1>3. Owes(s)' <=> Owes(s)
  BY <1>1 DEF Owes
<1>4. /\ g \in [Nat -> Nat] /\ g[0] = 0
      /\ \A i \in Nat : i > 0 => g[i] = i + 1
      /\ \A i, j \in Nat : g[i] = g[j] => i = j
  OBVIOUS
<1> HIDE DEF g
<1>5. IsOpen' = IsOpen
  BY DEF vars, IsOpen
<1>6. ASSUME NEW i \in Nat, Turn(s, i)'
      PROVE  Turn(s, g[i])
  <2>1. CASE i = 0
    <3>1. ~(0 \in DOMAIN wire'[s])
      BY <1>1
    <3> QED
      BY <1>2, <1>3, <1>4, <1>6, <2>1, <3>1 DEF Turn
  <2>2. CASE i # 0
    BY <1>1, <1>4, <1>6, <2>2 DEF Turn
  <2> QED
    BY <2>1, <2>2
<1>7. ASSUME NEW i \in Nat, Claim(s, i)'
      PROVE  Claim(s, g[i])
  <2>1. CASE i = 0
    <3>1. ~(0 \in DOMAIN wire'[s])
      BY <1>1
    <3> QED
      BY <1>2, <1>4, <1>5, <1>7, <2>1, <3>1 DEF Claim
  <2>2. CASE i # 0
    BY <1>1, <1>4, <1>5, <1>7, <2>2, ZenonT(60) DEF Claim
  <2> QED
    BY <2>1, <2>2
<1> QED
  BY <1>4, <1>6, <1>7 DEF Passes

\* s takes the answer that asks for an alert, and sends the command for it,
\* which takes over the turn of the answer.
LEMMA ReplacedPasses ==
  ASSUME wire \in Wires, NEW s \in Servers, wire[s] # <<>>,
         NEW c \in Commands, Send(Tail(wire[s]), s, c),
         ThinksOpen(s)' <=> ThinksOpen(s),
         Due(wire[s][1]), ~Unchecked(wire[s][1]), Due(c),
         owners' = owners, UNCHANGED vars
  PROVE  \E g \in [Nat -> Nat] : Passes(s, g)
<1> DEFINE n == Len(wire[s])
           g == [i \in Nat |-> IF i = 0 THEN 0 ELSE IF i = n THEN 1 ELSE i + 1]
<1>1. /\ \A i \in DOMAIN wire'[s] :
           /\ i \in Nat /\ i > 0
           /\ \/ i + 1 \in DOMAIN wire[s] /\ wire'[s][i] = wire[s][i + 1]
              \/ i = n /\ wire'[s][i] = c
      /\ \A i \in DOMAIN wire[s] :
           i = 1 \/ (i > 1 /\ i - 1 \in DOMAIN wire'[s] /\ wire'[s][i - 1] = wire[s][i])
      /\ n \in DOMAIN wire'[s] /\ wire'[s][n] = c
      /\ DOMAIN wire[s] = 1..n
  BY ReplacedPlaces
<1>2. n \in Nat /\ n > 0 /\ 1 \in DOMAIN wire[s]
  <2>1. wire[s] \in Seq(Commands)
    BY DEF Wires
  <2>2. n \in Nat /\ 1 \in DOMAIN wire[s]
    BY <2>1, PopType
  <2> QED
    BY <1>1, <2>2
<1> HIDE DEF n
<1>3. ~Unchecked(c)
  BY DEF Due, Unchecked, Answer
<1>4. Waits(s)' <=> Waits(s)
  BY <1>1, <1>3 DEF Waits
<1>5. Owes(s)' /\ Owes(s)
  BY <1>1, <1>2 DEF Owes
<1>6. /\ g \in [Nat -> Nat] /\ g[0] = 0 /\ g[n] = 1
      /\ \A i \in Nat : i > 0 /\ i # n => g[i] = i + 1
      /\ \A i, j \in Nat : g[i] = g[j] => i = j
  BY <1>2
<1> HIDE DEF g
<1>7. IsOpen' = IsOpen
  BY DEF vars, IsOpen
<1>8. Turn(s, 1) /\ Claim(s, 1)
  BY <1>2 DEF Turn, Claim
<1>9. ASSUME NEW i \in Nat, Turn(s, i)'
      PROVE  Turn(s, g[i])
  <2>1. CASE i = 0
    <3>1. ~(0 \in DOMAIN wire'[s])
      BY <1>1
    <3> QED
      BY <1>4, <1>5, <1>6, <1>9, <2>1, <3>1 DEF Turn
  <2>2. CASE i = n
    BY <1>6, <1>8, <2>2
  <2>3. CASE i # 0 /\ i # n
    <3>1. i \in DOMAIN wire'[s]
      BY <1>9, <2>3 DEF Turn
    <3>2. i + 1 \in DOMAIN wire[s] /\ wire'[s][i] = wire[s][i + 1] /\ i + 1 # 0
      BY <1>1, <2>3, <3>1
    <3>3. g[i] = i + 1
      BY <1>6, <2>3
    <3> QED
      BY <1>9, <2>3, <3>1, <3>2, <3>3 DEF Turn
  <2> QED
    BY <2>1, <2>2, <2>3
<1>10. ASSUME NEW i \in Nat, Claim(s, i)'
       PROVE  Claim(s, g[i])
  <2>1. CASE i = 0
    <3>1. ~(0 \in DOMAIN wire'[s])
      BY <1>1
    <3> QED
      BY <1>4, <1>6, <1>7, <1>10, <2>1, <3>1 DEF Claim
  <2>2. CASE i = n
    BY <1>6, <1>8, <2>2
  <2>3. CASE i # 0 /\ i # n
    <3>1. i \in DOMAIN wire'[s]
      BY <1>10, <2>3 DEF Claim
    <3>2. i + 1 \in DOMAIN wire[s] /\ wire'[s][i] = wire[s][i + 1] /\ i + 1 # 0
      BY <1>1, <2>3, <3>1
    <3>3. g[i] = i + 1
      BY <1>6, <2>3
    <3> QED
      BY <1>7, <1>10, <2>3, <3>1, <3>2, <3>3 DEF Claim
  <2> QED
    BY <2>1, <2>2, <2>3
<1> QED
  BY <1>6, <1>9, <1>10 DEF Passes

\* Every answer
LEMMA AnswerPasses ==
  ASSUME AllTypeOK, NEW s \in Servers, InOrder(s), NoResets(s),
         Checked(s) \/ Written(s) \/ Marked(s) \/ Started(s)
  PROVE  /\ \E g \in [Nat -> Nat] : Passes(s, g)
         /\ \A t \in Servers : t # s => Passes(t, Stay)
<1>1. wire \in Wires /\ alerter \in [Servers -> Alerters]
  BY TypeParts DEF LocalTypeOK
<1>2. ThinksOpen(s)' <=> ThinksOpen(s)
  BY AnswerThought
<1>3. owners' = owners /\ UNCHANGED vars
  BY DEF Checked, Written, Marked, Started
<1>4. ASSUME NEW w, wire' = [wire EXCEPT ![s] = w]
      PROVE  \A t \in Servers : t # s => Passes(t, Stay)
  <2> SUFFICES ASSUME NEW t \in Servers, t # s
               PROVE  Passes(t, Stay)
    OBVIOUS
  <2>1. wire'[t] = wire[t]
    BY <1>1, <1>4 DEF Wires
  <2>2. alerter'[t] = alerter[t]
    BY <1>1 DEF Checked, Written, Marked, Started
  <2> QED
    BY <1>3, <2>1, <2>2, SamePasses
<1>5. CASE Checked(s)
  <2>1. LET c == wire[s][1]
        IN /\ wire[s] # <<>> /\ 1 \in DOMAIN wire[s] /\ c \in Commands /\ Answer(c)
           /\ IF NeedsAlert(c)
                THEN \E a \in Commands :
                       a.op = "alert" /\ ~a.reply.done /\ Send(Tail(wire[s]), s, a)
                ELSE wire' = [wire EXCEPT ![s] = Tail(@)]
    BY <1>5, CheckedCases
  <2>2. ~Unchecked(wire[s][1]) /\ (Due(wire[s][1]) <=> NeedsAlert(wire[s][1]))
    BY <2>1 DEF Unchecked, Due, Answer
  <2>3. CASE NeedsAlert(wire[s][1])
    <3>1. PICK a \in Commands :
            a.op = "alert" /\ ~a.reply.done /\ Send(Tail(wire[s]), s, a)
      BY <2>1, <2>3
    <3>2. Due(a)
      BY <3>1 DEF Due
    <3>3. \E g \in [Nat -> Nat] : Passes(s, g)
      BY <1>1, <1>2, <1>3, <2>1, <2>2, <2>3, <3>1, <3>2, ReplacedPasses
    <3> QED
      BY <1>4, <3>1, <3>3 DEF Send
  <2>4. CASE ~NeedsAlert(wire[s][1])
    <3>1. wire' = [wire EXCEPT ![s] = Tail(wire[s])]
      BY <2>1, <2>4
    <3> QED
      BY <1>1, <1>2, <1>3, <1>4, <2>1, <2>2, <2>4, <3>1, PoppedPasses
  <2> QED
    BY <2>3, <2>4
<1>6. CASE Written(s) \/ Marked(s) \/ Started(s)
  <2>1. /\ wire[s] # <<>> /\ wire' = [wire EXCEPT ![s] = Tail(wire[s])]
        /\ wire[s][1].op # "check"
        /\ wire[s][1].op = "alert" => wire[s][1].reply.done
    <3>1. CASE Written(s)
      BY <3>1, WrittenPops
    <3>2. CASE Marked(s) \/ Started(s)
      <4>1. wire[s] # <<>> /\ wire' = [wire EXCEPT ![s] = Tail(wire[s])]
            /\ Head(wire[s]).op \in {"mark", "start"}
        BY <3>2 DEF Marked, Started
      <4>2. Head(wire[s]) = wire[s][1]
        BY <1>1, <4>1, PopType
      <4> QED
        BY <4>1, <4>2
    <3> QED
      BY <1>6, <3>1, <3>2
  <2>2. ~Due(wire[s][1]) /\ ~Unchecked(wire[s][1])
    BY <2>1 DEF Due, Unchecked, Answer
  <2> QED
    BY <1>1, <1>2, <1>3, <1>4, <2>1, <2>2, PoppedPasses
<1> QED
  BY <1>5, <1>6

\* The other servers have what they had when Redis replies to one.
LEMMA OthersPass ==
  ASSUME AllTypeOK, NEW s \in Servers,
         ExecuteCheck(s) \/ ExecuteAlert(s) \/ ExecuteMark(s) \/ ExecuteStart(s)
           \/ ExecuteClear(s)
  PROVE  \A t \in Servers : t # s => Passes(t, Stay)
<1>1. wire \in Wires
  BY TypeParts DEF LocalTypeOK
<1>2. alerter' = alerter /\ owners' = owners
  BY DEF ExecuteCheck, ExecuteAlert, ExecuteMark, ExecuteStart, ExecuteClear
<1>3. PICK w : wire' = [wire EXCEPT ![s] = w]
  BY DEF ExecuteCheck, ExecuteAlert, ExecuteMark, ExecuteStart, ExecuteClear, Reply
<1>4. \A t \in Servers : t # s => wire'[t] = wire[t]
  BY <1>1, <1>3 DEF Wires
<1> QED
  BY <1>2, <1>4, SamePasses

\* Redis executes a check: the turn of s goes to the check, whose reply either
\* asks for an alert or gives the turn back.
LEMMA ExecuteCheckPasses ==
  ASSUME IInv, AllTypeOK, NEW s \in Servers, InOrder(s),
         ThinksOpen(s) => WarmedUp(db), ExecuteCheck(s), db.rule.isActive
  PROVE  \E g \in [Nat -> Nat] : Passes(s, g)
<1> DEFINE d == Start(Loaded)
<1>1. wire \in Wires
  BY TypeParts DEF LocalTypeOK
<1>2. PICK i \in DOMAIN wire[s], reply \in CheckReplies :
        /\ IsNext(s, i, "check") /\ Reply(s, i, reply)
        /\ reply = CheckReply(d, db')
  BY CheckSteps
<1>3. /\ DOMAIN wire'[s] = DOMAIN wire[s]
      /\ wire'[s][i] = [wire[s][i] EXCEPT !.reply = reply]
      /\ \A j \in DOMAIN wire[s] : j # i => wire'[s][j] = wire[s][j]
  BY <1>1, <1>2, ReplyPlaces
<1>4. /\ wire[s][i] \in Commands /\ i \in Nat /\ i # 0
      /\ DOMAIN wire[s] \subseteq Nat \ {0}
  <2>1. wire[s] \in Seq(Commands)
    BY <1>1 DEF Wires
  <2> QED
    BY <2>1
<1>5. /\ wire'[s][i].op = "check" /\ wire'[s][i].reply = reply
      /\ wire'[s][i].was = wire[s][i].was /\ reply.done
  BY <1>2, <1>3, <1>4 DEF Commands, CommandsOf, IsNext, CheckReplies
<1>6. /\ Unchecked(wire[s][i]) /\ ~Unchecked(wire'[s][i])
      /\ Due(wire'[s][i]) =>
           reply.status = "ok" /\ ~wire[s][i].was /\ reply.open /\ Owes(s)'
  BY <1>2, <1>3, <1>5 DEF IsNext, Unchecked, Due, Answer, NeedsAlert, Owes
<1>7. ThinksOpen(s)' <=> reply.open
  BY <1>2, ExecuteCheckThought
<1>8. /\ reply.status = "ok" => (reply.open <=> IsOpen')
      /\ reply.status # "ok" => ~reply.open
      /\ reply.status = CheckStatus(d)
  BY <1>2 DEF CheckReply, IsOpen
<1>9. reply.status # "ok" => ~ThinksOpen(s)
  <2> SUFFICES ASSUME ThinksOpen(s)
               PROVE  reply.status = "ok"
    OBVIOUS
  <2>1. db.st.isStarted /\ ~IsWarmingUp(db)
    BY DEF WarmedUp
  <2>2. Loaded.st = db.st /\ Loaded.rule = db.rule
    BY LoadedFacts DEF IInv, TypeOK, Database
  <2>3. d = Loaded
    BY <2>1, <2>2 DEF Start
  <2>4. CheckStatus(d) = "ok"
    BY <2>1, <2>2, <2>3 DEF CheckStatus, IsWarmingUp
  <2> QED
    BY <1>8, <2>4
<1> DEFINE g == [j \in Nat |-> IF j = 0 THEN i ELSE j]
<1>10. /\ g \in [Nat -> Nat] /\ g[0] = i
       /\ \A j \in Nat : j # 0 => g[j] = j
  BY <1>4
<1> HIDE DEF d, g
<1>11. owners' = owners
  BY DEF ExecuteCheck
<1>12. Turn(s, i) /\ (Turn(s, i)' => ~Turn(s, 0)')
  <2>1. Turn(s, i)
    BY <1>6 DEF Turn
  <2>2. Turn(s, i)' => Due(wire'[s][i])
    BY <1>4, <1>6 DEF Turn
  <2>3. Turn(s, 0)' => (ThinksOpen(s)' => ~Owes(s)')
    BY <1>3, <1>4 DEF Turn
  <2> QED
    BY <1>6, <1>7, <2>1, <2>2, <2>3
<1>13. \A j \in Nat : j # 0 /\ j # i /\ Turn(s, j)' => Turn(s, j)
  BY <1>3 DEF Turn
<1>14. ASSUME IsOpen' => IsOpen
       PROVE  /\ Claim(s, 0)' => Claim(s, i)
              /\ Claim(s, i)' => Claim(s, i)
              /\ \A j \in Nat : j # 0 /\ j # i /\ Claim(s, j)' => Claim(s, j)
  <2>1. CASE reply.status = "ok"
    <3>1. ~Claim(s, 0)'
      BY <1>3, <1>4, <1>7, <1>8, <2>1 DEF Claim
    <3>2. Claim(s, i)' => Claim(s, i)
      <4>1. Claim(s, i)' => Due(wire'[s][i])
        BY <1>4, <1>6 DEF Claim
      <4>2. ASSUME Due(wire'[s][i])
            PROVE  Claim(s, i)
        <5>1. IsOpen /\ ~wire[s][i].was
          BY <1>6, <1>8, <1>14, <4>2
        <5> QED
          BY <1>6, <5>1 DEF Claim
      <4> QED
        BY <4>1, <4>2
    <3>3. ASSUME NEW j \in Nat, j # 0, j # i, Claim(s, j)'
          PROVE  Claim(s, j)
      <4>1. j \in DOMAIN wire[s] /\ wire'[s][j] = wire[s][j]
        BY <1>3, <3>3 DEF Claim
      <4>2. Due(wire[s][j]) \/ (IsOpen' /\ Unchecked(wire[s][j])
                                /\ (ThinksOpen(s)' => ~wire[s][j].was))
        BY <3>3, <4>1 DEF Claim
      <4>3. IsOpen' => ThinksOpen(s)'
        BY <1>7, <1>8, <2>1
      <4> QED
        BY <1>14, <4>1, <4>2, <4>3 DEF Claim
    <3> QED
      BY <3>1, <3>2, <3>3
  <2>2. CASE reply.status # "ok"
    <3>1. ~ThinksOpen(s)
      BY <1>9, <2>2
    <3>2. Claim(s, 0)' => Claim(s, i)
      <4>1. Claim(s, 0)' => IsOpen'
        BY <1>3, <1>4 DEF Claim
      <4>2. IsOpen => Claim(s, i)
        BY <1>6, <3>1 DEF Claim
      <4> QED
        BY <1>14, <4>1, <4>2
    <3>3. ~Claim(s, i)'
      BY <1>4, <1>6, <2>2 DEF Claim
    <3>4. \A j \in Nat : j # 0 /\ j # i /\ Claim(s, j)' => Claim(s, j)
      BY <1>3, <1>14, <3>1 DEF Claim
    <3> QED
      BY <3>2, <3>3, <3>4
  <2> QED
    BY <2>1, <2>2
<1>15. ~Trips => (IsOpen' => IsOpen)
  BY DEF Trips
<1>16. \A j \in Nat : Turn(s, j)' => Turn(s, g[j])
  BY <1>10, <1>12, <1>13
<1>17. \A j, k \in Nat : Turn(s, j)' /\ Turn(s, k)' /\ g[j] = g[k] => j = k
  BY <1>10, <1>12
<1>18. ~Trips => \A j \in Nat : Claim(s, j)' => Claim(s, g[j])
  BY <1>10, <1>14, <1>15
<1> QED
  BY <1>10, <1>16, <1>17, <1>18 DEF Passes

\* Redis executes a mark or a start.
LEMMA ExecuteOtherPasses ==
  ASSUME AllTypeOK, NEW s \in Servers, InOrder(s), ExecuteMark(s) \/ ExecuteStart(s)
  PROVE  Passes(s, Stay)
<1>1. wire \in Wires
  BY TypeParts DEF LocalTypeOK
<1> DEFINE reply == [done |-> TRUE]
<1>2. PICK i \in DOMAIN wire[s] :
        wire[s][i].op \in {"mark", "start"} /\ Reply(s, i, reply)
  BY DEF ExecuteMark, ExecuteStart, IsNext
<1> HIDE DEF reply
<1>3. /\ DOMAIN wire'[s] = DOMAIN wire[s]
      /\ wire'[s][i] = [wire[s][i] EXCEPT !.reply = reply]
      /\ \A j \in DOMAIN wire[s] : j # i => wire'[s][j] = wire[s][j]
  BY <1>1, <1>2, ReplyPlaces
<1>4. wire'[s][i].op = wire[s][i].op
  <2>1. wire[s][i] \in Commands
    BY <1>1 DEF Wires
  <2> QED
    BY <1>3, <2>1 DEF Commands, CommandsOf
<1>5. /\ ~Due(wire[s][i]) /\ ~Unchecked(wire[s][i])
      /\ ~Due(wire'[s][i]) /\ ~Unchecked(wire'[s][i])
  BY <1>2, <1>4 DEF Due, Unchecked, Answer
<1>6. ThinksOpen(s)' <=> ThinksOpen(s)
  BY ExecuteOtherThought
<1>7. Waits(s)' <=> Waits(s)
  BY <1>3, <1>5 DEF Waits
<1>8. Owes(s)' <=> Owes(s)
  BY <1>3, <1>5 DEF Owes
<1>9. owners' = owners
  BY DEF ExecuteMark, ExecuteStart
<1>10. \A j \in Nat : Turn(s, j)' => Turn(s, j)
  BY <1>3, <1>5, <1>6, <1>7, <1>8, <1>9 DEF Turn
<1>11. ~Trips => \A j \in Nat : Claim(s, j)' => Claim(s, j)
  <2>1. ~Trips => (IsOpen' => IsOpen)
    BY DEF Trips
  <2> QED
    BY <1>3, <1>5, <1>6, <1>7, <1>9, <2>1 DEF Claim
<1>12. \A j \in Nat : Stay[j] = j
  BY DEF Stay
<1> QED
  BY <1>10, <1>11, <1>12 DEF Passes

-----------------------------------------------------------------------------
(* An alert is written: the claim for it becomes an alert of the period.    *)

\* Redis executes the command to write an alert: its place is a turn and a claim.
LEMMA AlertIsWritten ==
  ASSUME AllTypeOK, NEW s \in Servers, ExecuteAlert(s), db.rule.isActive
  PROVE  \E i \in DOMAIN wire[s], id \in AlertIds, reply \in AlertReplies :
           /\ IsNext(s, i, "alert") /\ Reply(s, i, reply) /\ reply.done
           /\ db.alerts[id] = "unused"
           /\ Alert(id, wire[s][i].level) /\ wire[s][i].level \in ErrorLevels
           /\ log' = [log EXCEPT !.of[id] = log.period]
<1> DEFINE id == CHOOSE a \in AlertIds : db.alerts[a] = "unused"
           reply(i) == [done |-> TRUE,
                        alert |-> IF wire[s][i].level = "NONE" THEN NoAlert ELSE id]
<1>1. PICK i \in DOMAIN wire[s] :
        /\ IsNext(s, i, "alert") /\ Reply(s, i, reply(i))
        /\ \E a \in AlertIds : db.alerts[a] = "unused"
        /\ Alert(id, wire[s][i].level)
        /\ log' = [log EXCEPT !.of[id] = log.period]
  BY DEF ExecuteAlert
<1>2. id \in AlertIds /\ db.alerts[id] = "unused"
  BY <1>1
<1>3. wire[s][i].level \in ErrorLevels
  <2>1. wire[s][i] \in Commands
    BY TypeParts DEF LocalTypeOK, Wires
  <2> QED
    BY <2>1, CommandFields
<1>4. reply(i).done /\ reply(i) \in AlertReplies
  BY <1>2 DEF AlertReplies
<1> HIDE DEF id, reply
<1> QED
  BY <1>1, <1>2, <1>3, <1>4

\* The turn and the claim that the command had go; s has no other for them.
LEMMA WrittenTokens ==
  ASSUME AllTypeOK, NEW s \in Servers, InOrder(s), ExecuteAlert(s),
         NEW i \in DOMAIN wire[s], NEW reply,
         IsNext(s, i, "alert"), Reply(s, i, reply), reply.done, IsOpen' = IsOpen
  PROVE  /\ \E g \in [Nat -> Nat] :
              /\ \A j \in Nat : Turn(s, j)' => Turn(s, g[j])
              /\ \A j, k \in Nat : Turn(s, j)' /\ Turn(s, k)' /\ g[j] = g[k] => j = k
         /\ Claims' \subseteq Claims \ {<<s, i>>}
         /\ <<s, i>> \in Claims
<1>1. wire \in Wires
  BY TypeParts DEF LocalTypeOK
<1>2. /\ DOMAIN wire'[s] = DOMAIN wire[s]
      /\ wire'[s][i] = [wire[s][i] EXCEPT !.reply = reply]
      /\ \A j \in DOMAIN wire[s] : j # i => wire'[s][j] = wire[s][j]
  BY <1>1, ReplyPlaces
<1>3. /\ wire[s][i] \in Commands /\ i \in Nat /\ i # 0
      /\ DOMAIN wire[s] \subseteq Nat \ {0}
  <2>1. wire[s] \in Seq(Commands)
    BY <1>1 DEF Wires
  <2> QED
    BY <2>1
<1>4. wire'[s][i].op = "alert" /\ wire'[s][i].reply.done
  BY <1>2, <1>3 DEF Commands, CommandsOf, IsNext
<1>5. /\ Due(wire[s][i]) /\ ~Unchecked(wire[s][i])
      /\ ~Due(wire'[s][i]) /\ ~Unchecked(wire'[s][i])
  BY <1>4 DEF Due, Unchecked, Answer, IsNext
<1>6. ThinksOpen(s)' <=> ThinksOpen(s)
  BY ExecuteOtherThought
<1>7. Waits(s)' <=> Waits(s)
  BY <1>2, <1>5 DEF Waits
<1>8. owners' = owners
  BY DEF ExecuteAlert
<1> DEFINE g == [j \in Nat |-> IF j = 0 THEN i ELSE j]
<1>9. /\ g \in [Nat -> Nat] /\ g[0] = i
      /\ \A j \in Nat : j # 0 => g[j] = j
  BY <1>3
<1> HIDE DEF g
<1>10. Turn(s, i) /\ ~Turn(s, i)' /\ Claim(s, i) /\ ~Claim(s, i)'
  BY <1>2, <1>3, <1>5 DEF Turn, Claim
<1>11. \A j \in Nat : j # 0 /\ j # i /\ Turn(s, j)' => Turn(s, j)
  BY <1>2 DEF Turn
<1>12. \A j \in Nat : Claim(s, j)' => Claim(s, j) /\ j # i
  BY <1>2, <1>5, <1>6, <1>7, <1>8, <1>10 DEF Claim
<1>13. \A t \in Servers, j \in Nat : t # s /\ Claim(t, j)' => Claim(t, j)
  <2>1. ~Trips
    BY DEF Trips
  <2>2. \A j \in Nat : Stay[j] = j
    BY DEF Stay
  <2> QED
    BY <2>1, <2>2, OthersPass DEF Passes
<1>14. \A x \in Servers \X Nat :
         Claim(x[1], x[2])' => Claim(x[1], x[2]) /\ x # <<s, i>>
  <2> SUFFICES ASSUME NEW t \in Servers, NEW j \in Nat, Claim(t, j)'
               PROVE  Claim(t, j) /\ <<t, j>> # <<s, i>>
    OBVIOUS
  <2> QED
    BY <1>12, <1>13
<1>15. Claims' \subseteq Claims \ {<<s, i>>}
  BY <1>14 DEF Claims
<1>16. <<s, i>> \in Claims
  BY <1>3, <1>10 DEF Claims
<1>17. \A j \in Nat : Turn(s, j)' => Turn(s, g[j])
  BY <1>9, <1>10, <1>11
<1>18. \A j, k \in Nat : Turn(s, j)' /\ Turn(s, k)' /\ g[j] = g[k] => j = k
  BY <1>9, <1>10
<1> QED
  BY <1>9, <1>15, <1>16, <1>17, <1>18

\* The alert that is written is one more of the period, for one claim less.
LEMMA AlertShared ==
  ASSUME IInv, AllTypeOK, NEW s \in Servers, InOrder(s), ExecuteAlert(s),
         db.rule.isActive, Shared, IsFiniteSet(WrittenIn(log.period)),
         \A a \in AlertIds : db.alerts[a] # "unused" => log.of[a] <= log.period
  PROVE  /\ \A a \in AlertIds : db'.alerts[a] # "unused" => log'.of[a] <= log'.period
         /\ \A p \in Nat : p # log.period => WrittenIn(p)' = WrittenIn(p)
         /\ Within(WrittenIn(log.period)', Bound)
         /\ log'.period = log.period /\ Bound' = Bound
         /\ Shared'
<1>1. PICK i \in DOMAIN wire[s], id \in AlertIds, reply \in AlertReplies :
        /\ IsNext(s, i, "alert") /\ Reply(s, i, reply) /\ reply.done
        /\ db.alerts[id] = "unused"
        /\ Alert(id, wire[s][i].level) /\ wire[s][i].level \in ErrorLevels
        /\ log' = [log EXCEPT !.of[id] = log.period]
  BY AlertIsWritten
<1>2. /\ log \in Logs /\ db.st \in StateHash
      /\ db.alerts \in [AlertIds -> AlertStatuses]
  BY TypeParts DEF LocalTypeOK, TypeOK, Database
<1>3. /\ db'.st = [db.st EXCEPT !.alertId = id]
      /\ db'.alerts = [db.alerts EXCEPT ![id] = "open"]
  BY <1>1, WriteAlertKeeps
<1>4. /\ db'.alerts[id] = "open"
      /\ \A a \in AlertIds : a # id => db'.alerts[a] = db.alerts[a]
      /\ IsOpen' = IsOpen
  BY <1>2, <1>3 DEF StateHash, IsOpen
<1>5. /\ log'.of = [log.of EXCEPT ![id] = log.period]
      /\ log'.period = log.period /\ log'.faults = log.faults
      /\ log'.overlaps = log.overlaps /\ log.period \in Nat
      /\ log.of \in [AlertIds -> Nat]
  BY <1>1, <1>2 DEF Logs
<1>6. log'.of[id] = log.period /\ \A a \in AlertIds : a # id => log'.of[a] = log.of[a]
  BY <1>5
<1>7. \A a \in AlertIds : db'.alerts[a] # "unused" => log'.of[a] <= log'.period
  BY <1>4, <1>5, <1>6
<1>8. \A p \in Nat : p # log.period => WrittenIn(p)' = WrittenIn(p)
  BY <1>1, <1>4, <1>6 DEF WrittenIn
<1>9. /\ WrittenIn(log.period)' = WrittenIn(log.period) \cup {id}
      /\ id \notin WrittenIn(log.period)
  <2>1. WrittenIn(log.period)' =
          {a \in AlertIds : db'.alerts[a] # "unused" /\ log'.of[a] = log.period}
    BY <1>5 DEF WrittenIn
  <2> QED
    BY <1>1, <1>4, <1>6, <2>1 DEF WrittenIn
<1>10. Bound' = Bound /\ Bound \in Nat
  BY <1>2, <1>5 DEF Bound, Logs
<1>11. /\ \E g \in [Nat -> Nat] :
            /\ \A j \in Nat : Turn(s, j)' => Turn(s, g[j])
            /\ \A j, k \in Nat : Turn(s, j)' /\ Turn(s, k)' /\ g[j] = g[k] => j = k
       /\ Claims' \subseteq Claims \ {<<s, i>>}
       /\ <<s, i>> \in Claims
  BY <1>1, <1>4, WrittenTokens
<1>12. /\ IsFiniteSet(Turns) /\ IsFiniteSet(Claims) /\ Cardinality(Turns) \in Nat
       /\ Cardinality(Claims) \in Nat /\ Cardinality(Turns) <= Bound
  BY ClaimsAreTurns, WithinSubset, FS_CardinalityType DEF Shared, Within
<1>13. Within(Turns, Bound)'
  <2>1. PICK g \in [Nat -> Nat] :
          /\ \A j \in Nat : Turn(s, j)' => Turn(s, g[j])
          /\ \A j, k \in Nat : Turn(s, j)' /\ Turn(s, k)' /\ g[j] = g[k] => j = k
    BY <1>11
  <2>2. \A t \in Servers, j \in Nat : t # s /\ Turn(t, j)' => Turn(t, j)
    <3>1. \A j \in Nat : Stay[j] = j
      BY DEF Stay
    <3> QED
      BY <3>1, OthersPass DEF Passes
  <2>3. /\ \A t \in Servers, j \in Nat : <<t, j>> \in Turns <=> Turn(t, j)
        /\ \A t \in Servers, j \in Nat : <<t, j>> \in Turns' <=> Turn(t, j)'
        /\ Turns' \in SUBSET (Servers \X Nat)
    BY DEF Turns
  <2>4. /\ \A t \in Servers, j \in Nat : t # s /\ <<t, j>> \in Turns' => <<t, j>> \in Turns
        /\ \A j \in Nat : <<s, j>> \in Turns' => <<s, g[j]>> \in Turns
        /\ \A j, k \in Nat : <<s, j>> \in Turns' /\ <<s, k>> \in Turns' /\ g[j] = g[k] => j = k
    BY <2>1, <2>2, <2>3
  <2>5. IsFiniteSet(Turns') /\ Cardinality(Turns') <= Cardinality(Turns)
    BY <1>12, <2>3, <2>4, Moved
  <2>6. Cardinality(Turns') \in Nat
    BY <2>5, FS_CardinalityType
  <2> QED
    BY <1>10, <1>12, <2>5, <2>6 DEF Within
<1> DEFINE W == WrittenIn(log.period)
<1>14. /\ IsFiniteSet(W \cup {id}) /\ Cardinality(W \cup {id}) = Cardinality(W) + 1
       /\ Cardinality(W) \in Nat
  BY <1>9, FS_AddElement, FS_CardinalityType
<1>15. /\ IsFiniteSet(Claims \ {<<s, i>>})
       /\ Cardinality(Claims \ {<<s, i>>}) = Cardinality(Claims) - 1
  BY <1>11, <1>12, FS_RemoveElement
<1>16. IsFiniteSet(Claims') /\ Cardinality(Claims') <= Cardinality(Claims) - 1
  BY <1>11, <1>15, WithinSubset
<1>17. Cardinality(Claims') \in Nat
  BY <1>16, FS_CardinalityType
<1>18. Cardinality(W) + Cardinality(Claims) <= Bound
  BY DEF Shared
<1>19. /\ Cardinality(W \cup {id}) + Cardinality(Claims') <= Bound
       /\ Cardinality(W \cup {id}) <= Bound
  BY <1>10, <1>12, <1>14, <1>16, <1>17, <1>18
<1>20. Within(WrittenIn(log.period)', Bound)
  BY <1>9, <1>14, <1>19 DEF Within
<1>21. Shared'
  BY <1>9, <1>10, <1>13, <1>19 DEF Shared
<1> QED
  BY <1>5, <1>7, <1>8, <1>10, <1>20, <1>21

-----------------------------------------------------------------------------
(* The invariant.                                                           *)

\* An alerter takes the circuit for open only once the rule is warm, so that
\* what it owes is not delayed.
Aware(s) == InOrder(s) /\ (ThinksOpen(s) => WarmedUp(db))

EventsInv ==
  hist.saves = 0 =>
    /\ \A a \in AlertIds : db.alerts[a] # "unused" => log.of[a] <= log.period
    /\ \A p \in Nat : Within(WrittenIn(p), Bound)
    /\ db.rule.isActive => (\A s \in Servers : Aware(s)) /\ Shared

\* The servers other than the one that acts
LEMMA OtherServers ==
  ASSUME AllTypeOK, NEW s \in Servers,
         \/ \E level \in ErrorLevels : HandleResult(s, level)
         \/ Checked(s) \/ Written(s) \/ ClearDone(s)
         \/ Dispatched(s) \/ Marked(s)
         \/ StartAlerter(s) \/ Started(s)
         \/ ExecuteCheck(s) \/ ExecuteAlert(s) \/ ExecuteMark(s)
         \/ ExecuteStart(s) \/ ExecuteClear(s)
         \/ GainLock(s) \/ LoseLock(s) \/ Crash(s)
  PROVE  \A t \in Servers : t # s =>
           /\ wire'[t] = wire[t] /\ alerter'[t] = alerter[t]
           /\ t \in owners' => t \in owners
<1>1. wire \in Wires /\ alerter \in [Servers -> Alerters]
  BY TypeParts DEF LocalTypeOK
<1>2. wire' = wire \/ \E w : wire' = [wire EXCEPT ![s] = w]
  BY DEF HandleResult, Checked, Written, ClearDone, Dispatched, Marked, StartAlerter,
         Started, ExecuteCheck, ExecuteAlert, ExecuteMark, ExecuteStart, ExecuteClear,
         GainLock, LoseLock, Crash, Send, Reply, local
<1>3. alerter' = alerter \/ \E w : alerter' = [alerter EXCEPT ![s] = w]
  BY DEF HandleResult, Checked, Written, ClearDone, Dispatched, Marked, StartAlerter,
         Started, ExecuteCheck, ExecuteAlert, ExecuteMark, ExecuteStart, ExecuteClear,
         GainLock, LoseLock, Crash, local
<1>4. owners' \subseteq owners \cup {s}
  BY DEF HandleResult, Checked, Written, ClearDone, Dispatched, Marked, StartAlerter,
         Started, ExecuteCheck, ExecuteAlert, ExecuteMark, ExecuteStart, ExecuteClear,
         GainLock, LoseLock, Crash
<1>5. \A t \in Servers : t # s => wire'[t] = wire[t]
  BY <1>1, <1>2 DEF Wires
<1>6. \A t \in Servers : t # s => alerter'[t] = alerter[t]
  BY <1>1, <1>3
<1> QED
  BY <1>4, <1>5, <1>6

LEMMA ExecuteCheckAware ==
  ASSUME IInv, AllTypeOK, NEW s \in Servers, Aware(s), ExecuteCheck(s)
  PROVE  Aware(s)'
<1> DEFINE d == Start(Loaded)
<1>1. PICK i \in DOMAIN wire[s] :
        Check(wire[s][i].level) /\ wire[s][i].level \in ErrorLevels
  BY CheckSteps
<1>2. InOrder(s)' /\ (ThinksOpen(s)' <=> CheckReply(d, db').open)
  BY ExecuteCheckThought DEF Aware
<1>3. CheckReply(d, db').open => CheckStatus(d) = "ok"
  BY DEF CheckReply
<1>4. ASSUME CheckStatus(d) = "ok"
      PROVE  WarmedUp(db)'
  <2>1. /\ TypeOK /\ now >= Epoch /\ d \in CallData /\ d.st.isStarted
        /\ db'.st = CheckNotify(d, wire[s][i].level).st
        /\ opts' = opts /\ now' = now
    BY <1>1, CheckLeads DEF IInv
  <2>2. WarmedUp(d)
    BY <1>4, <2>1 DEF WarmedUp, CheckStatus
  <2>3. WarmedUp(CheckNotify(d, wire[s][i].level))
    BY <1>1, <2>1, <2>2, CheckNotifyWarm
  <2> HIDE DEF d
  <2> QED
    BY <2>1, <2>3 DEF WarmedUp, IsWarmingUp
<1> QED
  BY <1>2, <1>3, <1>4 DEF Aware

LEMMA StepAware ==
  ASSUME IInv, AllTypeOK, [AllNext]_allVars, hist'.saves = 0,
         NEW s \in Servers, NoResets(s), Aware(s)
  PROVE  Aware(s)'
<1>1. /\ wire \in Wires /\ alerter \in [Servers -> Alerters]
      /\ WarmedUp(db) => WarmedUp(db)'
  BY StepWarm, TypeParts DEF LocalTypeOK
<1>2. ASSUME InOrder(s)', ThinksOpen(s)' => ThinksOpen(s)
      PROVE  Aware(s)'
  BY <1>1, <1>2 DEF Aware
<1>3. ASSUME wire'[s] = wire[s], alerter'[s].tripped = alerter[s].tripped
      PROVE  Aware(s)'
  BY <1>2, <1>3, SameThought DEF Aware
<1>4. CASE \/ \E level \in ErrorLevels : HandleResult(s, level)
           \/ Dispatched(s) \/ StartAlerter(s)
  <2>1. /\ UNCHANGED <<vars, alerter>>
        /\ \/ wire' = wire
           \/ \E c \in Commands : ~c.reply.done /\ Send(wire[s], s, c)
    BY <1>4, SentCases
  <2> QED
    BY <1>1, <1>2, <1>3, <2>1, SentThought DEF Aware
<1>5. CASE Checked(s) \/ Written(s) \/ ClearDone(s) \/ Marked(s) \/ Started(s)
  BY <1>2, <1>5, AnswerThought DEF Aware
<1>6. CASE ExecuteCheck(s)
  BY <1>6, ExecuteCheckAware
<1>7. CASE ExecuteAlert(s) \/ ExecuteMark(s) \/ ExecuteStart(s) \/ ExecuteClear(s)
  BY <1>2, <1>7, ExecuteOtherThought DEF Aware
<1>8. CASE Crash(s)
  <2>1. wire'[s] = <<>> /\ ~alerter'[s].tripped
    BY <1>1, <1>8 DEF Crash, Wires, NewAlerter
  <2> QED
    BY <2>1 DEF Aware, InOrder, ThinksOpen
<1>9. CASE Query \/ UpdateRule \/ TimePasses \/ UNCHANGED allVars
           \/ GainLock(s) \/ LoseLock(s)
  <2>1. UNCHANGED local
    BY <1>9, UpdatedRule DEF Query, TimePasses, allVars, GainLock, LoseLock, local
  <2> QED
    BY <1>3, <2>1 DEF local
<1>10. ASSUME NEW t \in Servers, t # s,
              \/ \E level \in ErrorLevels : HandleResult(t, level)
              \/ Checked(t) \/ Written(t) \/ ClearDone(t)
              \/ Dispatched(t) \/ Marked(t)
              \/ StartAlerter(t) \/ Started(t)
              \/ ExecuteCheck(t) \/ ExecuteAlert(t) \/ ExecuteMark(t)
              \/ ExecuteStart(t) \/ ExecuteClear(t)
              \/ GainLock(t) \/ LoseLock(t) \/ Crash(t)
       PROVE  Aware(s)'
  BY <1>3, <1>10, OtherServers
<1> QED
  BY <1>4, <1>5, <1>6, <1>7, <1>8, <1>9, <1>10 DEF AllNext

LEMMA BoundGrows ==
  ASSUME AllTypeOK, AllTypeOK', [AllNext]_allVars
  PROVE  Bound' >= Bound
<1>1. log \in Logs /\ log' \in Logs
  BY DEF AllTypeOK, Logs, Wires
<1>2. log'.overlaps >= log.overlaps /\ log'.faults >= log.faults
  BY TroublesGrow
<1>3. /\ log.overlaps \in Nat /\ log.faults \in Nat
      /\ log'.overlaps \in Nat /\ log'.faults \in Nat
  BY <1>1 DEF Logs
<1> QED
  BY <1>2, <1>3 DEF Bound

\* A command is sent: a check when none is under way takes the turn of the
\* owner, and one that overlaps is a turn more and a trouble more.
LEMMA SentShared ==
  ASSUME AllTypeOK, AllTypeOK', [AllNext]_allVars, Shared,
         IsFiniteSet(WrittenIn(log.period)),
         \A a \in AlertIds : db.alerts[a] # "unused" => log.of[a] <= log.period,
         Booked, NEW s \in Servers, InOrder(s),
         \/ \E level \in ErrorLevels : HandleResult(s, level)
         \/ Dispatched(s) \/ StartAlerter(s)
  PROVE  Shared'
<1>1. /\ log \in Logs /\ log' \in Logs /\ wire \in Wires /\ Bound' >= Bound
  BY BoundGrows DEF AllTypeOK, Logs, Wires
<1>2. UNCHANGED <<vars, alerter>> /\ owners' = owners
  BY SentCases DEF HandleResult, Dispatched, StartAlerter
<1>3. \A t \in Servers : t # s => Passes(t, Stay)
  BY <1>2, OtherServers, SamePasses
<1>4. ASSUME NEW g \in [Nat -> Nat], Passes(s, g)
      PROVE  Shared'
  BY <1>1, <1>3, <1>4, SharedMoved
<1>5. Stay \in [Nat -> Nat]
  BY DEF Stay
<1>6. CASE wire' = wire
  <2>1. Passes(s, Stay)
    BY <1>2, <1>6, SamePasses
  <2> QED
    BY <1>4, <1>5, <2>1
<1>7. ASSUME NEW c \in Commands, ~c.reply.done, Send(wire[s], s, c),
             c.op \in {"mark", "start"}
      PROVE  Shared'
  <2>1. Passes(s, Stay)
    BY <1>1, <1>2, <1>7, OtherSentPasses
  <2> QED
    BY <1>4, <1>5, <2>1
<1>8. ASSUME NEW c \in Commands, ~c.reply.done, Send(wire[s], s, c), c.op = "check",
             c.was = alerter[s].tripped, s \in owners, InFlight(s) = 0
      PROVE  Shared'
  <2>1. PICK g \in [Nat -> Nat] : Passes(s, g)
    BY <1>1, <1>2, <1>8, FirstCheckPasses
  <2> QED
    BY <1>4, <2>1
<1>9. ASSUME NEW c \in Commands, ~c.reply.done, Send(wire[s], s, c), c.op = "check",
             log'.overlaps = log.overlaps + 1
      PROVE  Shared'
  <2>1. PICK x : Turns' \subseteq Turns \cup {x} /\ Claims' \subseteq Claims \cup {x}
    BY <1>1, <1>2, <1>9, OverlapMore
  <2>2. Bound' >= Bound + 1
    <3>1. /\ log.overlaps \in Nat /\ log.faults \in Nat
          /\ log'.overlaps \in Nat /\ log'.faults \in Nat
      BY <1>1 DEF Logs
    <3>2. log'.faults >= log.faults
      BY TroublesGrow
    <3> QED
      BY <1>9, <3>1, <3>2 DEF Bound
  <2>3. log'.of = log.of /\ log'.period = log.period
    <3>1. \/ log' = log \/ log' = [log EXCEPT !.overlaps = @ + 1]
      BY DEF HandleResult, Dispatched, StartAlerter
    <3> QED
      BY <1>1, <3>1 DEF Logs
  <2> QED
    BY <1>1, <1>2, <2>1, <2>2, <2>3, SharedMore
<1> QED
  BY <1>6, <1>7, <1>8, <1>9, SentCases

\* The lock is gained, which brings a trouble for the turn it may bring; or it
\* is lost, maybe with the process.
LEMMA FaultShared ==
  ASSUME AllTypeOK, AllTypeOK', [AllNext]_allVars, Shared,
         IsFiniteSet(WrittenIn(log.period)),
         \A a \in AlertIds : db.alerts[a] # "unused" => log.of[a] <= log.period,
         Booked, NEW s \in Servers, GainLock(s) \/ LoseLock(s) \/ Crash(s)
  PROVE  Shared'
<1>1. /\ log \in Logs /\ log' \in Logs /\ wire \in Wires /\ Bound' >= Bound
  BY BoundGrows DEF AllTypeOK, Logs, Wires
<1>2. UNCHANGED vars /\ log' = [log EXCEPT !.faults = @ + 1]
  BY DEF GainLock, LoseLock, Crash, Fault
<1>3. \A t \in Servers : t # s => Passes(t, Stay)
  BY OtherServers, SamePasses
<1>4. CASE LoseLock(s)
  <2>1. Passes(s, Stay)
    BY <1>4, SamePasses DEF LoseLock, local
  <2> QED
    BY <1>1, <1>3, <2>1, SharedStays
<1>5. CASE Crash(s)
  <2>1. wire'[s] = <<>> /\ s \notin owners'
    BY <1>1, <1>5 DEF Crash, Wires
  <2>2. \A i \in Nat : ~Turn(s, i)' /\ ~Claim(s, i)'
    BY <2>1 DEF Turn, Claim
  <2>3. Passes(s, Stay)
    BY <2>2 DEF Passes
  <2> QED
    BY <1>1, <1>3, <2>3, SharedStays
<1>6. CASE GainLock(s)
  <2>1. UNCHANGED local /\ owners' = owners \cup {s}
    BY <1>6 DEF GainLock
  <2>2. \A t \in Servers : /\ ThinksOpen(t)' <=> ThinksOpen(t)
                           /\ Waits(t)' <=> Waits(t)
                           /\ Owes(t)' <=> Owes(t)
    BY <2>1, SameThought DEF Waits, Owes, local
  <2>3. IsOpen' = IsOpen
    BY <1>2 DEF IsOpen, vars
  <2>4. \A t \in Servers, i \in Nat :
          /\ Turn(t, i)' => Turn(t, i) \/ (t = s /\ i = 0)
          /\ Claim(t, i)' => Claim(t, i) \/ (t = s /\ i = 0)
    BY <2>1, <2>2, <2>3 DEF Turn, Claim, local
  <2>5. Turns' \subseteq Turns \cup {<<s, 0>>} /\ Claims' \subseteq Claims \cup {<<s, 0>>}
    BY <2>4 DEF Turns, Claims
  <2>6. Bound' >= Bound + 1
    <3>1. /\ log.overlaps \in Nat /\ log.faults \in Nat
          /\ log'.overlaps \in Nat /\ log'.faults = log.faults + 1
      BY <1>1, <1>2 DEF Logs
    <3>2. log'.overlaps >= log.overlaps
      BY TroublesGrow
    <3> QED
      BY <3>1, <3>2 DEF Bound
  <2>7. log'.of = log.of /\ log'.period = log.period
    BY <1>1, <1>2 DEF Logs
  <2> QED
    BY <1>1, <1>2, <2>5, <2>6, <2>7, SharedMore
<1> QED
  BY <1>4, <1>5, <1>6

\* Every step of an active rule
LEMMA StepShared ==
  ASSUME IInv, AllTypeOK, AllTypeOK', [AllNext]_allVars, ActiveInv, EventsInv,
         db'.rule.isActive, hist'.saves = 0
  PROVE  Shared'
<1>1. /\ log \in Logs /\ log' \in Logs /\ wire \in Wires /\ Bound' >= Bound
      /\ db.rule.isActive /\ opts' = opts /\ hist.saves = 0
  BY BoundGrows, StepActive, OptionsStay DEF AllTypeOK, Logs, Wires
<1>2. /\ Shared /\ IsFiniteSet(WrittenIn(log.period))
      /\ \A a \in AlertIds : db.alerts[a] # "unused" => log.of[a] <= log.period
      /\ \A s \in Servers : InOrder(s) /\ (ThinksOpen(s) => WarmedUp(db))
      /\ \A s \in Servers : NoResets(s)
  BY <1>1 DEF EventsInv, ActiveInv, Aware, Within, Logs
<1>3. CASE \E s \in Servers : ExecuteAlert(s)
  BY <1>1, <1>2, <1>3, AlertShared
<1>4. CASE ~\E s \in Servers : ExecuteAlert(s)
  <2>1. Booked
    BY <1>4, StepBooked
  <2>2. ASSUME NEW s \in Servers, NEW g \in [Nat -> Nat], Passes(s, g),
               \A t \in Servers : t # s => Passes(t, Stay)
        PROVE  Shared'
    BY <1>1, <1>2, <2>1, <2>2, SharedMoved
  <2>3. ASSUME UNCHANGED local, UNCHANGED owners
        PROVE  Shared'
    <3>1. \A t \in Servers : Passes(t, Stay)
      BY <2>3, SamePasses DEF local
    <3> QED
      BY <1>1, <1>2, <2>1, <3>1, SharedStays
  <2>4. ASSUME NEW s \in Servers,
               \/ \E level \in ErrorLevels : HandleResult(s, level)
               \/ Dispatched(s) \/ StartAlerter(s)
        PROVE  Shared'
    BY <1>2, <2>1, <2>4, SentShared
  <2>5. ASSUME NEW s \in Servers, Checked(s) \/ Written(s) \/ Marked(s) \/ Started(s)
        PROVE  Shared'
    BY <1>2, <2>2, <2>5, AnswerPasses
  <2>6. ASSUME NEW s \in Servers, ExecuteCheck(s)
        PROVE  Shared'
    <3>1. \E g \in [Nat -> Nat] : Passes(s, g)
      BY <1>1, <1>2, <2>6, ExecuteCheckPasses
    <3>2. \A t \in Servers : t # s => Passes(t, Stay)
      BY <2>6, OthersPass
    <3> QED
      BY <2>2, <3>1, <3>2
  <2>7. ASSUME NEW s \in Servers, ExecuteMark(s) \/ ExecuteStart(s)
        PROVE  Shared'
    <3>1. Passes(s, Stay) /\ Stay \in [Nat -> Nat]
      BY <1>2, <2>7, ExecuteOtherPasses DEF Stay
    <3>2. \A t \in Servers : t # s => Passes(t, Stay)
      BY <2>7, OthersPass
    <3> QED
      BY <2>2, <3>1, <3>2
  <2>8. ASSUME NEW s \in Servers
        PROVE  ~ClearDone(s) /\ ~ExecuteClear(s)
    <3>1. ClearDone(s) => wire[s] # <<>> /\ Head(wire[s]).op = "clear"
      BY DEF ClearDone
    <3>2. wire[s] # <<>> => Head(wire[s]) = wire[s][1] /\ 1 \in DOMAIN wire[s]
      BY <1>1, PopType
    <3>3. ExecuteClear(s) => \E i \in DOMAIN wire[s] : wire[s][i].op = "clear"
      BY DEF ExecuteClear, IsNext
    <3> QED
      BY <1>2, <3>1, <3>2, <3>3 DEF NoResets, Harmless
  <2>9. ASSUME NEW s \in Servers, GainLock(s) \/ LoseLock(s) \/ Crash(s)
        PROVE  Shared'
    BY <1>2, <2>1, <2>9, FaultShared
  <2>10. CASE Query \/ TimePasses \/ UNCHANGED allVars
    BY <2>3, <2>10 DEF Query, TimePasses, allVars, local
  <2>11. ~UpdateRule
    BY <1>1, UpdatedRule
  <2> QED
    BY <1>4, <2>4, <2>5, <2>6, <2>7, <2>8, <2>9, <2>10, <2>11 DEF AllNext
<1> QED
  BY <1>3, <1>4

\* Alerts are written while the rule is active; once it is not, none is any more.
LEMMA StepEvents ==
  IInv /\ AllTypeOK /\ ActiveInv /\ EventsInv /\ [AllNext]_allVars => EventsInv'
<1> SUFFICES ASSUME IInv, AllTypeOK, ActiveInv, EventsInv, [AllNext]_allVars,
                    hist'.saves = 0
             PROVE  EventsInv'
  BY DEF EventsInv
<1>1. AllTypeOK' /\ hist.saves = 0
  BY StepType, OptionsStay
<1>2. /\ log \in Logs /\ log' \in Logs
      /\ Bound' >= Bound /\ Bound \in Nat /\ Bound' \in Nat
  <2>1. log \in Logs /\ log' \in Logs
    BY <1>1 DEF AllTypeOK, Logs
  <2>2. Bound' >= Bound
    BY <1>1, BoundGrows
  <2>3. Bound \in Nat /\ Bound' \in Nat
    BY <2>1 DEF Logs, Bound
  <2> QED
    BY <2>1, <2>2, <2>3
<1>3. /\ \A a \in AlertIds : db.alerts[a] # "unused" => log.of[a] <= log.period
      /\ \A p \in Nat : IsFiniteSet(WrittenIn(p)) /\ Cardinality(WrittenIn(p)) <= Bound
      /\ \A p \in Nat : IsFiniteSet(WrittenIn(p)) => Cardinality(WrittenIn(p)) \in Nat
  BY <1>1, FS_CardinalityType DEF EventsInv, Within
<1>4. ASSUME db'.rule.isActive
      PROVE  (\A s \in Servers : Aware(s)') /\ Shared'
  <2>1. db.rule.isActive
    BY <1>4, StepActive
  <2>2. \A s \in Servers : NoResets(s) /\ Aware(s)
    BY <1>1, <2>1 DEF EventsInv, ActiveInv
  <2> QED
    BY <1>1, <1>4, <2>2, StepAware, StepShared
<1>5. /\ \A a \in AlertIds : db'.alerts[a] # "unused" => log'.of[a] <= log'.period
      /\ \A p \in Nat : Within(WrittenIn(p)', Bound')
  <2>1. ASSUME NEW s \in Servers, ExecuteAlert(s), db.rule.isActive
        PROVE  <1>5!1 /\ <1>5!2
    <3>1. Shared /\ InOrder(s) /\ log.period \in Nat
      BY <1>1, <1>2, <2>1 DEF EventsInv, Aware, Logs
    <3>2. /\ \A a \in AlertIds : db'.alerts[a] # "unused" => log'.of[a] <= log'.period
          /\ \A p \in Nat : p # log.period => WrittenIn(p)' = WrittenIn(p)
          /\ Within(WrittenIn(log.period)', Bound)
          /\ log'.period = log.period /\ Bound' = Bound
      BY <1>3, <2>1, <3>1, AlertShared
    <3>3. ASSUME NEW p \in Nat
          PROVE  Within(WrittenIn(p)', Bound')
      <4>1. CASE p = log.period
        BY <3>2, <4>1 DEF WrittenIn
      <4>2. CASE p # log.period
        BY <1>3, <3>2, <4>2 DEF Within
      <4> QED
        BY <4>1, <4>2
    <3> QED
      BY <3>2, <3>3
  <2>2. CASE \A s \in Servers : ExecuteAlert(s) => ~db.rule.isActive
    <3>1. Booked
      BY <2>2, StepBooked
    <3>2. /\ \A p \in Nat : WrittenIn(p)' = WrittenIn(p)
          /\ \A a \in AlertIds : db'.alerts[a] # "unused" => log'.of[a] <= log'.period
      BY <1>2, <1>3, <3>1, BookedWritten
    <3>3. \A p \in Nat : Within(WrittenIn(p)', Bound')
      BY <1>2, <1>3, <3>2 DEF Within
    <3> QED
      BY <3>2, <3>3
  <2> QED
    BY <2>1, <2>2
<1> QED
  BY <1>4, <1>5 DEF EventsInv, Within

LEMMA InitEvents == AllInit => EventsInv
<1> SUFFICES ASSUME AllInit
             PROVE  EventsInv
  OBVIOUS
<1>1. /\ \A a \in AlertIds : db.alerts[a] = "unused"
      /\ ~IsOpen
  BY DEF AllInit, Init, EmptyState, IsOpen
<1>2. \A p \in Nat : WrittenIn(p) = {}
  BY <1>1 DEF WrittenIn
<1>3. Bound = 1 /\ log.period = 0
  BY DEF AllInit, Bound
<1>4. IsFiniteSet({}) /\ Cardinality({}) = 0
  BY FS_EmptySet
<1>5. ASSUME NEW s \in Servers
      PROVE  wire[s] = <<>> /\ ~alerter[s].tripped
  BY DEF AllInit, NewAlerter
<1>6. \A s \in Servers : Aware(s)
  BY <1>5 DEF Aware, InOrder, ThinksOpen
<1>7. PICK s \in Servers : owners = {s}
  BY DEF AllInit
<1>8. Turns \subseteq {<<s, 0>>}
  BY <1>5, <1>7 DEF Turns, Turn
<1>9. Claims = {}
  BY <1>1, <1>5 DEF Claims, Claim
<1>10. IsFiniteSet({<<s, 0>>}) /\ Cardinality({<<s, 0>>}) = 1
  BY FS_Singleton
<1>11. IsFiniteSet(Turns) /\ Cardinality(Turns) <= 1
  BY <1>8, <1>10, WithinSubset
<1>12. Shared
  BY <1>2, <1>3, <1>4, <1>9, <1>11 DEF Shared, Within
<1> QED
  BY <1>1, <1>2, <1>3, <1>4, <1>6, <1>12 DEF EventsInv, Within

\* The alerts sent in one period of an open circuit are no more than one, one
\* for every crash and for every server that gains the lock or loses it, and
\* one for every result that overlaps another one, for any number of servers,
\* results and periods: a server may write an alert only from a turn of its
\* own, and only such a trouble brings a turn.
THEOREM EventsNotifiedBounded == AllSpec => []EventsSentBounded
<1>1. ASSUME AllTypeOK, SentInv, EventsInv
      PROVE  EventsSentBounded
  <2> SUFFICES ASSUME NEW b \in AlertIds, hist.saves = 0
               PROVE  Cardinality(SentIn(log.of[b])) <= Bound
    BY DEF EventsSentBounded, Bound
  <2>1. log \in Logs
    BY <1>1, TypeParts DEF LocalTypeOK, Logs
  <2>2. log.of[b] \in Nat /\ Bound \in Nat
    BY <2>1 DEF Logs, Bound
  <2>3. SentIn(log.of[b]) \subseteq WrittenIn(log.of[b])
    <3>1. \A a \in AlertIds : db.alerts[a] = "unused" => log.sent[a] = 0
      BY <1>1 DEF SentInv, SentOf
    <3> QED
      BY <3>1 DEF SentIn, WrittenIn
  <2>4. /\ IsFiniteSet(WrittenIn(log.of[b]))
        /\ Cardinality(WrittenIn(log.of[b])) <= Bound
    BY <1>1, <2>2 DEF EventsInv, Within
  <2>5. /\ Cardinality(SentIn(log.of[b])) <= Cardinality(WrittenIn(log.of[b]))
        /\ IsFiniteSet(SentIn(log.of[b]))
    BY <2>3, <2>4, WithinSubset
  <2>6. /\ Cardinality(SentIn(log.of[b])) \in Nat
        /\ Cardinality(WrittenIn(log.of[b])) \in Nat
    BY <2>4, <2>5, FS_CardinalityType
  <2> QED
    BY <2>2, <2>4, <2>5, <2>6
<1> QED
  BY <1>1, InitEvents, StepEvents, ActiveInvariance, SentInvariance, PTL DEF AllSpec
=============================================================================
