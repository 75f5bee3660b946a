---------------------------- MODULE RuleAlerter ----------------------------
(***************************************************************************)
(* What turns the results of a rule into calls of its script, alerts and   *)
(* notifications: src/src/server/rules/rule-alerter.ts, as rule-manager.ts *)
(* drives it.  Every server has one alerter per rule.  RuleManager does    *)
(* not wait for handleResult(), so several may be under way in a server;   *)
(* what one does between two awaits is one action.  The commands a server  *)
(* has sent are executed and answered in order, on its one connection.     *)
(*                                                                         *)
(* The circuit itself is that of RuleCircuit, which this module extends.   *)
(* A server keeps the copy of the rule that it loaded: options saved at    *)
(* another server reach it through the script alone.                       *)
(* Time: a result is checked, and its alert written, within one tick.      *)
(***************************************************************************)
EXTENDS RuleCircuit, FiniteSets

CONSTANTS
  Servers,      \* the servers that evaluate the rule
  EmptyAlert,   \* {}, in place of the alert of a rule that is not active
  MaxInFlight,  \* results of one server that are under way at a time
  MaxTroubles,  \* bound: faults, overlaps, queries and saves together (see log)
  Deactivation  \* whether a client may deactivate the rule, at another server

ASSUME EmptyAlertAssumption == EmptyAlert \notin AlertIds \cup {NoAlert}
ASSUME MaxInFlightAssumption == MaxInFlight \in Nat \ {0}

VARIABLES
  alerter,    \* per server: the fields of its RuleAlerter
  unstarted,  \* servers whose start() is still in the work queue
  wire,       \* per server: commands sent, and their replies
  sending,    \* per server: alerts that notifications.dispatch() is sending
  owners,     \* the servers with hasLock
  log         \* history: period, of, sent, resets, and troubles (see AllInit)

local == <<alerter, unstarted, wire, sending>>
allVars == <<vars, local, owners, log>>

-----------------------------------------------------------------------------
NewAlerter(active) ==
  [ruleState |-> "undefined", tripped |-> FALSE, shouldNotify |-> FALSE,
   alert |-> NoAlert, isActive |-> active, warmupEnd |-> 0, lastFailedAt |-> 0,
   recoveryWindow |-> opts.recoveryWindow]

NoReply == [done |-> FALSE]

Command(op, level, was) ==
  [op |-> op, level |-> level, was |-> was, reply |-> NoReply]

Send(w, s, c) == wire' = [wire EXCEPT ![s] = Append(w, c)]

\* Calls of handleResult() that have not returned.
InFlight(s) ==
  Cardinality({i \in DOMAIN wire[s] : wire[s][i].op \in {"check", "alert"}})

\* Mutant: takes a level for a state.
getRuleStateRaw(level) == IF level = "NONE" THEN "NORMAL" ELSE level

getRuleState(level) ==
  CASE level = "NONE" -> "NORMAL"
    [] level = "WARNING" -> "WARNING"
    [] OTHER -> "ERROR"

InCooldown(s) ==
  LET since == now - alerter[s].lastFailedAt
  IN alerter[s].lastFailedAt # 0 /\ since # 0 /\ since < alerter[s].recoveryWindow

Cleared(a) == [a EXCEPT !.shouldNotify = FALSE, !.tripped = FALSE, !.alert = NoAlert]

\* dispatchAlert(), up to the await of the notification
Dispatch(s, alert) ==
  /\ sending' = IF alert # NoAlert /\ s \in owners
                  THEN [sending EXCEPT ![s] = @ \cup {alert}] ELSE sending
  /\ log' = IF alert \in AlertIds /\ s \in owners
              THEN [log EXCEPT !.sent[alert] = @ + 1] ELSE log

\* Dispatch of ALERT_RESET
DispatchReset(s) ==
  /\ sending' = IF s \in owners THEN [sending EXCEPT ![s] = @ \cup {EmptyAlert}]
                ELSE sending
  /\ log' = IF s \in owners THEN [log EXCEPT !.resets = @ + 1] ELSE log

AllInit ==
  /\ Init
  /\ alerter = [s \in Servers |-> NewAlerter(db.rule.isActive)]
  /\ unstarted = Servers
  /\ wire = [s \in Servers |-> <<>>]
  /\ sending = [s \in Servers |-> {}]
  /\ owners \in {{s} : s \in Servers}
  \* log.period counts the times the circuit opened, log.of says in which of
  \* them an alert was written, log.sent how often it was sent; log.resets
  \* counts the notifications of resets.  Troubles are counted: faults (crashes,
  \* and servers that gain or lose the lock), overlaps (results handled while
  \* another one of the server is under way), and queries of clients.
  /\ log = [period |-> 0, of |-> [a \in AlertIds |-> 0],
            sent |-> [a \in AlertIds |-> 0], resets |-> 0,
            faults |-> 0, overlaps |-> 0, queries |-> 0]

\* Bound: there may be more trouble.
MoreTrouble == log.faults + log.overlaps + log.queries + hist.saves < MaxTroubles

-----------------------------------------------------------------------------
(* Results.                                                                 *)

\* Bound: the results under way stay within the bounds of the circuit.
WithinBounds(level) ==
  LET waiting(bad) ==
        Cardinality({c \in Servers \X (1..(MaxInFlight + 2)) :
                       /\ c[2] \in DOMAIN wire[c[1]]
                       /\ wire[c[1]][c[2]].op = "check"
                       /\ ~wire[c[1]][c[2]].reply.done
                       /\ (wire[c[1]][c[2]].level # "NONE") = bad})
  IN IF level = "NONE" THEN hist.streak + waiting(FALSE) < MaxStreak
     ELSE db.st.totalFailures + waiting(TRUE) < MaxViolations

\* Mutant: sends good results only while the rule is believed to be normal.
WorthSendingSwapped(a, level) ==
  /\ a.isActive
  /\ a.warmupEnd = 0 \/ now >= a.warmupEnd
  /\ level = "NONE" => a.ruleState = "NORMAL"

\* The early returns of handleResult(): a good result that leaves the rule as
\* it is believed to be is not sent.
WorthSending(a, level) ==
  /\ a.isActive
  /\ a.warmupEnd = 0 \/ now >= a.warmupEnd
  /\ level = "NONE" => a.ruleState # "NORMAL"

\* dispatchRule() and handleResult(), up to the await of checkAlert()
HandleResult(s, level) ==
  /\ s \in owners
  /\ WorthSending(alerter[s], level)
  /\ InFlight(s) < MaxInFlight
  /\ WithinBounds(level)
  /\ Send(wire[s], s, Command("check", level, alerter[s].tripped))
  /\ IF InFlight(s) = 0 THEN UNCHANGED log
     ELSE MoreTrouble /\ log' = [log EXCEPT !.overlaps = @ + 1]
  /\ UNCHANGED <<vars, alerter, unstarted, sending, owners>>

updateLocalState(a, c) ==
  [a EXCEPT !.tripped = c.reply.open,
            !.isActive = c.reply.status # "inactive",
            !.warmupEnd = c.reply.endDelay,
            !.shouldNotify = c.reply.notify,
            !.ruleState = getRuleState(c.level),
            !.lastFailedAt = IF c.reply.open THEN @ ELSE 0]

\* Mutants: writes an alert for every result of an open circuit; looks whether
\* the rule was triggered after the update.
NeedsAlertAlways(c) == c.reply.status = "ok" /\ c.reply.open

NeedsAlertReadLate(c) ==
  LET wasTriggered == c.reply.open
  IN c.reply.status = "ok" /\ ~wasTriggered /\ c.reply.open

NeedsAlert(c) == c.reply.status = "ok" /\ ~c.was /\ c.reply.open

\* Mutant: keeps the alert, to repeat its notification.
AlertLeftKept(a) == a.alert

\* What this._alert becomes when no alert is written: checkAlert() never
\* returns an alertId.
AlertLeft(a) == NoAlert

\* checkAlert() resolves: either the alert is written, or notifyAlert() or
\* handleReset() are called, which do nothing without an alert.
Checked(s) ==
  /\ wire[s] # <<>> /\ Head(wire[s]).op = "check" /\ Head(wire[s]).reply.done
  /\ LET c == Head(wire[s])
         bad == c.level # "NONE"
         updated == updateLocalState(alerter[s], c)
         final == [updated EXCEPT !.alert = AlertLeft(updated),
                                  !.lastFailedAt = IF bad THEN now ELSE @]
     IN IF NeedsAlert(c)
          THEN /\ alerter' = [alerter EXCEPT ![s] = updated]
               /\ Send(Tail(wire[s]), s, Command("alert", c.level, FALSE))
               /\ UNCHANGED <<sending, log>>
          ELSE /\ alerter' = [alerter EXCEPT ![s] =
                    IF c.was /\ ~c.reply.open THEN Cleared(final) ELSE final]
               /\ wire' = [wire EXCEPT ![s] = Tail(@)]
               /\ IF bad /\ c.reply.notify
                    THEN Dispatch(s, final.alert)
                    ELSE UNCHANGED <<sending, log>>
  /\ UNCHANGED <<vars, unstarted, owners>>

\* writeAlert() resolves: notifyAlert() for a violation, else handleReset().
\* The timer that handleReset() creates in the cooldown is never started.
Written(s) ==
  /\ wire[s] # <<>> /\ Head(wire[s]).op = "alert" /\ Head(wire[s]).reply.done
  /\ LET c == Head(wire[s])
         alert == c.reply.alert
         resets == c.level = "NONE" /\ alert # NoAlert /\ ~InCooldown(s)
     IN /\ alerter' = [alerter EXCEPT
                         ![s].alert = IF resets THEN NoAlert ELSE alert,
                         ![s].lastFailedAt = IF c.level = "NONE" THEN @ ELSE now]
        /\ IF resets /\ alerter[s].tripped
             THEN Send(Tail(wire[s]), s, Command("clear", "NONE", FALSE))
             ELSE wire' = [wire EXCEPT ![s] = Tail(@)]
        /\ IF c.level # "NONE" /\ alerter[s].shouldNotify
             THEN Dispatch(s, alert)
             ELSE UNCHANGED <<sending, log>>
  /\ UNCHANGED <<vars, unstarted, owners>>

\* clear() resolves, within handleReset(): the reset is dispatched.
ClearDone(s) ==
  /\ wire[s] # <<>> /\ Head(wire[s]).op = "clear" /\ Head(wire[s]).reply.done
  /\ alerter' = [alerter EXCEPT ![s] = Cleared(@)]
  /\ wire' = [wire EXCEPT ![s] = Tail(@)]
  /\ DispatchReset(s)
  /\ UNCHANGED <<vars, unstarted, owners>>

\* notifications.dispatch() resolves, and markNotify() is sent unless the alert
\* has no id; or it fails.
Dispatched(s) ==
  /\ \E alert \in sending[s] :
       /\ sending' = [sending EXCEPT ![s] = @ \ {alert}]
       /\ \/ alert # EmptyAlert /\ Send(wire[s], s, Command("mark", "NONE", FALSE))
          \/ wire' = wire
  /\ UNCHANGED <<vars, alerter, unstarted, owners, log>>

\* markNotify() resolves.
Marked(s) ==
  /\ wire[s] # <<>> /\ Head(wire[s]).op = "mark" /\ Head(wire[s]).reply.done
  /\ wire' = [wire EXCEPT ![s] = Tail(@)]
  /\ UNCHANGED <<vars, alerter, unstarted, sending, owners, log>>

\* start(), from the work queue of the queue manager
StartAlerter(s) ==
  /\ s \in unstarted
  /\ unstarted' = unstarted \ {s}
  /\ Send(wire[s], s, Command("start", "NONE", FALSE))
  /\ UNCHANGED <<vars, alerter, sending, owners, log>>

\* startRule() resolves.
Started(s) ==
  /\ wire[s] # <<>> /\ Head(wire[s]).op = "start" /\ Head(wire[s]).reply.done
  /\ alerter' = [alerter EXCEPT ![s].ruleState = "NORMAL"]
  /\ wire' = [wire EXCEPT ![s] = Tail(@)]
  /\ UNCHANGED <<vars, unstarted, sending, owners, log>>

-----------------------------------------------------------------------------
(* Redis.                                                                   *)

\* i is the first command of s that Redis has not executed.
IsNext(s, i, op) ==
  /\ i \in DOMAIN wire[s]
  /\ wire[s][i].op = op /\ ~wire[s][i].reply.done
  /\ \A j \in 1..(i - 1) : wire[s][j].reply.done

Reply(s, i, reply) == wire' = [wire EXCEPT ![s][i].reply = reply]

\* Mutant: replies with the state before the result.
CheckReplyBefore(d, e) ==
  LET ok == CheckStatus(d) = "ok"
  IN [done |-> TRUE, status |-> CheckStatus(d),
      open |-> ok /\ d.st.circuit = "OPEN", notify |-> ok /\ e.st.notifyPending,
      endDelay |-> IF CheckStatus(d) = "warmup" THEN now + opts.warmupWindow ELSE 0]

\* The reply of a check that led from d to e.
CheckReply(d, e) ==
  LET ok == CheckStatus(d) = "ok"
  IN [done |-> TRUE, status |-> CheckStatus(d),
      open |-> ok /\ e.st.circuit = "OPEN", notify |-> ok /\ e.st.notifyPending,
      endDelay |-> IF CheckStatus(d) = "warmup" THEN now + opts.warmupWindow ELSE 0]

\* The history of a call of the script: whether it opened the circuit.
CountPeriod == IF Trips THEN [log EXCEPT !.period = @ + 1] ELSE log

ExecuteCheck(s) ==
  /\ \E i \in DOMAIN wire[s] :
       /\ IsNext(s, i, "check")
       /\ Check(wire[s][i].level)
       /\ Reply(s, i, CheckReply(Start(Loaded), db'))
  /\ log' = CountPeriod
  /\ UNCHANGED <<alerter, unstarted, sending, owners>>

\* The alert's id is new; without an error level the script fails in the end.
ExecuteAlert(s) ==
  /\ \E i \in DOMAIN wire[s] :
       /\ IsNext(s, i, "alert")
       /\ LET id == CHOOSE a \in AlertIds : db.alerts[a] = "unused"
              level == wire[s][i].level
          IN IF db.rule.isActive
               THEN /\ \E a \in AlertIds : db.alerts[a] = "unused"
                    /\ Alert(id, level)
                    /\ Reply(s, i, [done |-> TRUE,
                                    alert |-> IF level = "NONE" THEN NoAlert ELSE id])
                    /\ log' = [log EXCEPT !.of[id] = log.period]
               ELSE /\ Reply(s, i, [done |-> TRUE, alert |-> EmptyAlert])
                    /\ UNCHANGED <<vars, log>>
  /\ UNCHANGED <<alerter, unstarted, sending, owners>>

ExecuteMark(s) ==
  /\ \E i \in DOMAIN wire[s] : IsNext(s, i, "mark") /\ Reply(s, i, [done |-> TRUE])
  /\ MarkNotify
  /\ UNCHANGED <<alerter, unstarted, sending, owners, log>>

ExecuteStart(s) ==
  /\ \E i \in DOMAIN wire[s] : IsNext(s, i, "start") /\ Reply(s, i, [done |-> TRUE])
  /\ StartRule
  /\ log' = CountPeriod
  /\ UNCHANGED <<alerter, unstarted, sending, owners>>

ExecuteClear(s) ==
  /\ \E i \in DOMAIN wire[s] : IsNext(s, i, "clear") /\ Reply(s, i, [done |-> TRUE])
  /\ Clear
  /\ log' = CountPeriod
  /\ UNCHANGED <<alerter, unstarted, sending, owners>>

-----------------------------------------------------------------------------
(* The surroundings.                                                        *)

\* A client asks for the state, which updates the circuit.
Query ==
  /\ MoreTrouble
  /\ QueryState
  /\ log' = [CountPeriod EXCEPT !.queries = @ + 1]
  /\ UNCHANGED <<local, owners>>

\* Another server's updateRule() saves the rule as inactive.
Deactivate ==
  /\ Deactivation
  /\ db.rule.isActive
  /\ SaveRule(FALSE, db.rule.state, opts)
  /\ UNCHANGED <<local, owners, log>>

\* Or with other options
UpdateOptions(options) ==
  /\ MoreTrouble
  /\ options # opts
  /\ SaveRule(db.rule.isActive, db.rule.state, options)
  /\ UNCHANGED <<local, owners, log>>

UpdateRule == Deactivate \/ \E options \in Options : UpdateOptions(options)

TimePasses ==
  /\ \A s \in Servers : InFlight(s) = 0
  /\ Tick
  /\ UNCHANGED <<local, owners, log>>

Fault ==
  /\ MoreTrouble
  /\ log' = [log EXCEPT !.faults = @ + 1]
  /\ UNCHANGED vars

GainLock(s) ==
  /\ Fault
  /\ s \notin owners
  /\ owners' = owners \cup {s}
  /\ UNCHANGED local

LoseLock(s) ==
  /\ Fault
  /\ s \in owners
  /\ owners' = owners \ {s}
  /\ UNCHANGED local

\* The process ends and a new one loads the rule, with the options of that time.
Crash(s) ==
  /\ Fault
  /\ owners' = owners \ {s}
  /\ alerter' = [alerter EXCEPT ![s] = NewAlerter(db.rule.isActive)]
  /\ unstarted' = unstarted \cup {s}
  /\ wire' = [wire EXCEPT ![s] = <<>>]
  /\ sending' = [sending EXCEPT ![s] = {}]

AllNext ==
  \/ \E s \in Servers :
       \/ \E level \in ErrorLevels : HandleResult(s, level)
       \/ Checked(s) \/ Written(s) \/ ClearDone(s)
       \/ Dispatched(s) \/ Marked(s)
       \/ StartAlerter(s) \/ Started(s)
       \/ ExecuteCheck(s) \/ ExecuteAlert(s) \/ ExecuteMark(s)
       \/ ExecuteStart(s) \/ ExecuteClear(s)
       \/ GainLock(s) \/ LoseLock(s) \/ Crash(s)
  \/ Query
  \/ UpdateRule
  \/ TimePasses

AllSpec == AllInit /\ [][AllNext]_allVars

-----------------------------------------------------------------------------
(* Properties.                                                              *)

Alerters ==
  [ruleState : RuleStates \cup {"undefined"}, tripped : BOOLEAN,
   shouldNotify : BOOLEAN, alert : AlertIds \cup {NoAlert, EmptyAlert},
   isActive : BOOLEAN, warmupEnd : Nat, lastFailedAt : Nat, recoveryWindow : Nat]

CheckReplies ==
  [done : {TRUE}, status : {"ok", "warmup", "inactive"}, open : BOOLEAN,
   notify : BOOLEAN, endDelay : Nat]

AlertReplies == [done : {TRUE}, alert : AlertIds \cup {NoAlert, EmptyAlert}]

\* Commands with the replies of theirs that they may have.
CommandsOf(ops, replies) ==
  [op : ops, level : ErrorLevels, was : BOOLEAN, reply : {NoReply} \cup replies]

Commands ==
  CommandsOf({"check"}, CheckReplies)
    \cup CommandsOf({"alert"}, AlertReplies)
    \cup CommandsOf({"clear", "mark", "start"}, {[done |-> TRUE]})

\* The type of every variable.
AllTypeOK ==
  /\ TypeOK
  /\ alerter \in [Servers -> Alerters]
  /\ unstarted \subseteq Servers
  /\ wire \in [Servers -> Seq(Commands)]
  /\ sending \in [Servers -> SUBSET (AlertIds \cup {EmptyAlert})]
  /\ owners \subseteq Servers
  /\ log \in [period : Nat, of : [AlertIds -> Nat], sent : [AlertIds -> Nat],
              resets : Nat, faults : Nat, overlaps : Nat, queries : Nat]

\* Nothing of s is under way but notifications.
Quiet(s) == s \notin unstarted /\ \A i \in DOMAIN wire[s] : wire[s][i].op = "mark"

\* No alert is sent twice, whichever servers own the lock and whatever is
\* answered late.
SentOnce == \A a \in AlertIds : log.sent[a] <= 1

\* The one alerter of a rule agrees with the circuit once its commands are
\* answered, however they overlapped: the next result is judged on the truth.
\* (A start or a query opens the circuit of a rule without a threshold.)
QuietAgrees ==
  \A s \in Servers :
    /\ Servers = {s} /\ Quiet(s)
    /\ alerter[s].isActive /\ alerter[s].ruleState # "undefined"
    /\ db.rule.isActive
    /\ opts.failureThreshold > 0 /\ opts.recoveryWindow = 0 /\ log.faults = 0
    /\ hist.saves = 0
    => alerter[s].tripped = IsOpen

\* A rule with one alerter whose results do not overlap is never seen
\* triggered without its alert being open.
TrippedHasAlert ==
  \A s \in Servers :
    /\ Servers = {s} /\ log.overlaps = 0 /\ log.queries = 0 /\ Quiet(s)
    /\ alerter[s].isActive /\ db.rule.isActive
    /\ alerter[s].tripped /\ IsOpen
    => db.st.alertId # NoAlert /\ db.alerts[db.st.alertId] = "open"

\* The alerts of one period of an open circuit that were sent
SentIn(period) == {a \in AlertIds : log.of[a] = period /\ log.sent[a] > 0}

\* An event is notified once, and once more for every crash, every server that
\* gains the lock and every overlap.  (A longer warm-up that is saved makes an
\* alerter forget that the circuit is open.)
EventsSentBounded ==
  hist.saves = 0 =>
    \A a \in AlertIds :
      Cardinality(SentIn(log.of[a])) <= 1 + log.faults + log.overlaps

-----------------------------------------------------------------------------
(* Liveness.  Redis executes and answers every command, the work queue runs *)
(* and the metrics of an owner are evaluated for ever.                      *)

Answered(s) == Checked(s) \/ Written(s) \/ ClearDone(s) \/ Marked(s) \/ Started(s)

Executed(s) ==
  \/ ExecuteCheck(s) \/ ExecuteAlert(s) \/ ExecuteMark(s)
  \/ ExecuteStart(s) \/ ExecuteClear(s)

AlerterFairness ==
  \A s \in Servers :
    /\ WF_allVars(Executed(s)) /\ WF_allVars(Answered(s))
    /\ WF_allVars(Dispatched(s)) /\ WF_allVars(StartAlerter(s))
    /\ WF_allVars(HandleResult(s, "NONE"))

FairAlerterSpec == AllSpec /\ AlerterFairness

Bad == \E s \in Servers, level \in {"WARNING", "CRITICAL"} : HandleResult(s, level)

\* s is the owner, knows of the violation, and start() will not undo that.
Knows(s) ==
  /\ s \in owners \ unstarted
  /\ alerter[s].isActive /\ alerter[s].ruleState \in {"WARNING", "ERROR"}
  /\ \A i \in DOMAIN wire[s] : wire[s][i].op # "start"

\* An owner that knows of the violation closes the circuit again, unless there
\* are violations for ever or it loses the lock, however its results overlap
\* and whatever another owner sends.
GoodResultsRecover ==
  \/ []<><<Bad>>_allVars
  \/ \A s \in Servers : (IsOpen /\ Knows(s)) ~> (~IsOpen \/ s \notin owners)
=============================================================================
