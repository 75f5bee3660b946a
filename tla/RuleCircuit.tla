---------------------------- MODULE RuleCircuit ----------------------------
(***************************************************************************)
(* The circuit breaker of one alerting rule, as the Redis script           *)
(* src/src/server/commands/rules-4.lua keeps it.  Redis runs a script      *)
(* atomically, so one call of the script is one action.  The script is a   *)
(* pipeline of local functions over four keys; they are modelled by        *)
(* operators that map the contents of those keys (a record, db) to the     *)
(* contents after the call:                                                *)
(*                                                                         *)
(*   db.rule   - the fields of the rule hash that the script uses          *)
(*   db.st     - the rule's state hash; 0, NoError and NoAlert stand for a *)
(*               field the hash does not hold                              *)
(*   db.alerts - the status of every alert of the alerts zset              *)
(*   db.bus    - the events the last call appended to the bus stream       *)
(*                                                                         *)
(* Within a call the script also has a copy of the state hash, ruleState,  *)
(* and reads only that.  When the circuit opens or closes, four fields are *)
(* written to Redis alone; d.mem is what the copy goes on to hold of them. *)
(*                                                                         *)
(* hist holds history variables.  They record what was asked of the script *)
(* and are never read by its operators.                                    *)
(***************************************************************************)
EXTENDS Naturals, Sequences

CONSTANTS
  AlertIds,       \* ids for the alerts
  NoAlert,        \* the absent alert id
  Options,        \* the alert options that a rule may be given
  Epoch,          \* the clock (ms since 1970) when the model starts
  MaxTime,        \* bound: last value of the clock
  MaxViolations,  \* bound: violations reported over a run
  MaxStreak,      \* bound: good results reported in a row
  MaxSaves        \* bound: saves that change the options

NoError == "none"
RuleStates == {"NORMAL", "WARNING", "ERROR"}
ErrorLevels == {"NONE", "WARNING", "CRITICAL"}
AlertStatuses == {"unused", "open", "CLOSED", "deleted"}

\* Numbers a rule was created without (rule.ts does not apply the schema's
\* defaults) are 0 here, as in the script's getNumberOption(name, 0).
AlertOptions ==
  [failureThreshold : Nat, successThreshold : Nat, recoveryWindow : Nat,
   warmupWindow : Nat, notifyInterval : Nat, maxAlertsPerEvent : Nat,
   alertOnReset : BOOLEAN, hasChannels : BOOLEAN]

ASSUME OptionsAssumption == Options \subseteq AlertOptions
ASSUME NoAlertAssumption == NoAlert \notin AlertIds
\* A timestamp of today exceeds every window: a deleted (0) warmupStart or
\* lastFailure never lies within one.
ASSUME EpochAssumption ==
  /\ Epoch \in Nat \ {0}
  /\ \A o \in Options : o.warmupWindow <= Epoch /\ o.recoveryWindow <= Epoch

VARIABLES
  opts,   \* the options in the rule hash, which every call reads
  now,    \* the clock every caller passes to the script
  db,     \* the contents of the four keys
  hist    \* history: streak, lastBad, notified, budget, saved, saves (see Init)

vars == <<opts, now, db, hist>>

-----------------------------------------------------------------------------
(* The local functions of the script.                                       *)

EmptyState ==
  [circuit |-> "CLOSED", isStarted |-> FALSE, warmupStart |-> 0,
   failures |-> 0, successes |-> 0, totalFailures |-> 0, lastFailure |-> 0,
   errorType |-> NoError, lastNotify |-> 0, alertCount |-> 0,
   notifyPending |-> FALSE, alertId |-> NoAlert]

\* What ruleState holds of the fields that it may come to differ in
Copy(st) ==
  [failures |-> st.failures, successes |-> st.successes,
   lastNotify |-> st.lastNotify, alertCount |-> st.alertCount]

\* The state an evaluation result stands for.  The script exchanges the two
\* names: its ERROR_LEVEL_WARNING is the string 'CRITICAL'.
RuleStateOf(level) == IF level = "CRITICAL" THEN "WARNING" ELSE "ERROR"

IsWarmingUp(d) == now < d.st.warmupStart + opts.warmupWindow

EmitEvent(d, event, data) ==
  [d EXCEPT !.bus = Append(@, [event |-> event, data |-> data])]

UpdateRuleState(d, state) ==
  IF d.rule.state = state THEN d
  ELSE EmitEvent([d EXCEPT !.rule.state = state], "rule.state-changed", state)

\* Mutant: one success recovers the circuit, whatever the threshold.
AnySuccess(successes) == successes > 0

EnoughSuccesses(successes) ==
  IF opts.successThreshold > 0 THEN successes >= opts.successThreshold
                               ELSE successes > 0

CooledDown(d) ==
  /\ opts.recoveryWindow > 0
  /\ now - d.st.lastFailure >= opts.recoveryWindow

\* Mutant: the circuit opens one violation late.
CalculateStateLate(d) ==
  IF /\ d.mem.failures > opts.failureThreshold
     /\ ~EnoughSuccesses(d.mem.successes)
     /\ ~CooledDown(d)
    THEN "OPEN" ELSE "CLOSED"

\* Mutant: decides on the violations of the rule's whole life.
CalculateStateOnTotal(d) ==
  IF /\ d.st.totalFailures >= opts.failureThreshold
     /\ ~EnoughSuccesses(d.mem.successes)
     /\ ~CooledDown(d)
    THEN "OPEN" ELSE "CLOSED"

CalculateState(d) ==
  IF /\ d.mem.failures >= opts.failureThreshold
     /\ ~EnoughSuccesses(d.mem.successes)
     /\ ~CooledDown(d)
    THEN "OPEN" ELSE "CLOSED"

\* Evaluated after the circuit went to state, on the script's copy.
ShouldNotify(d, state) ==
  /\ state = "CLOSED" => opts.alertOnReset
  /\ opts.hasChannels
  /\ \/ opts.notifyInterval = 0
     \/ d.mem.lastNotify = 0
     \/ now - d.mem.lastNotify >= opts.notifyInterval
  /\ \/ opts.maxAlertsPerEvent = 0
     \/ d.mem.alertCount < opts.maxAlertsPerEvent

ResetAlert(d) ==
  IF d.st.alertId # NoAlert /\ d.alerts[d.st.alertId] \in {"open", "CLOSED"}
    THEN EmitEvent([d EXCEPT !.alerts[d.st.alertId] = "CLOSED"],
                   "alert.reset", d.st.alertId)
    ELSE d

OpenCircuit(d) ==
  LET e == IF d.st.errorType = NoError THEN "WARNING" ELSE d.st.errorType
      n == IF d.mem.lastNotify = 0 THEN now ELSE 0
  IN [UpdateRuleState(d, e) EXCEPT
        !.st = [d.st EXCEPT !.circuit = "OPEN",
                            !.successes = 0,
                            !.lastNotify = n,
                            !.notifyPending = ShouldNotify(d, "OPEN")]]

\* Mutant: forgets the alert without closing it.
CloseCircuitForgetsAlert(d) ==
  [UpdateRuleState(d, "NORMAL") EXCEPT
     !.st = [EmptyState EXCEPT !.isStarted = d.st.isStarted,
                               !.totalFailures = d.st.totalFailures,
                               !.notifyPending = ShouldNotify(d, "CLOSED")],
     !.mem = [d.mem EXCEPT !.successes = 0, !.lastNotify = 0]]

CloseCircuit(d) ==
  [UpdateRuleState(ResetAlert(d), "NORMAL") EXCEPT
     !.st = [EmptyState EXCEPT !.isStarted = d.st.isStarted,
                               !.totalFailures = d.st.totalFailures,
                               !.notifyPending = ShouldNotify(d, "CLOSED")],
     !.mem = [d.mem EXCEPT !.successes = 0, !.lastNotify = 0]]

UpdateCircuit(d) ==
  IF CalculateState(d) = d.st.circuit THEN d
  ELSE IF d.st.circuit = "CLOSED" THEN OpenCircuit(d) ELSE CloseCircuit(d)

HandleFailure(d, level) ==
  LET failures == d.mem.failures + 1
  IN [d EXCEPT !.st = [d.st EXCEPT !.errorType = RuleStateOf(level),
                                   !.lastFailure = now,
                                   !.failures = failures,
                                   !.successes = 0,
                                   !.totalFailures = @ + 1],
               !.mem = [d.mem EXCEPT !.failures = failures, !.successes = 0]]

HandleSuccess(d) ==
  LET successes == d.mem.successes + 1
  IN [d EXCEPT !.st.successes = successes, !.mem.successes = successes]

ClearState(d) == UpdateCircuit(ResetAlert(d))

Start(d) ==
  IF d.st.isStarted THEN d
  ELSE [ClearState([d EXCEPT !.st.isStarted = TRUE]) EXCEPT
          !.st.warmupStart = now]

Stop(d) ==
  IF d.st.isStarted THEN ClearState([d EXCEPT !.st.isStarted = FALSE]) ELSE d

\* status of checkNotify's reply, once the rule is started
CheckStatus(d) ==
  IF ~d.rule.isActive THEN "inactive"
  ELSE IF IsWarmingUp(d) THEN "warmup" ELSE "ok"

CheckNotify(d, level) ==
  IF CheckStatus(d) # "ok" THEN d
  ELSE UpdateCircuit(IF level = "NONE" THEN HandleSuccess(d)
                                       ELSE HandleFailure(d, level))

\* Mutant: the level of the alert becomes the state of the rule as it is.
WriteAlertRawLevel(d, id, level) ==
  UpdateRuleState(
    EmitEvent([d EXCEPT !.st.alertId = id, !.alerts[id] = "open"],
              "alert.triggered", id),
    level)

\* An alert without an error level is stored and announced like any other;
\* then the script fails, as it has no state to give to the rule.
WriteAlert(d, id, level) ==
  LET e == EmitEvent([d EXCEPT !.st.alertId = id, !.alerts[id] = "open"],
                     "alert.triggered", id)
  IN IF level = "NONE" THEN e ELSE UpdateRuleState(e, RuleStateOf(level))

\* Mutant: a marked notification stays pending.
MarkNotificationStaysPending(d) ==
  IF d.st.notifyPending
    THEN [d EXCEPT !.st = [d.st EXCEPT !.lastNotify = now,
                                       !.alertCount = @ + 1]]
    ELSE d

MarkNotification(d) ==
  IF d.st.notifyPending
    THEN [d EXCEPT !.st = [d.st EXCEPT !.lastNotify = now,
                                       !.alertCount = @ + 1,
                                       !.notifyPending = FALSE]]
    ELSE d

-----------------------------------------------------------------------------
(* The calls.  Every call starts with an empty list of emitted events.      *)

Loaded ==
  [rule |-> db.rule, st |-> db.st, alerts |-> db.alerts, bus |-> <<>>,
   mem |-> Copy(db.st)]

\* The copy is gone when the call ends.
Ended(d) == [rule |-> d.rule, st |-> d.st, alerts |-> d.alerts, bus |-> d.bus]

\* Notifications marked within the current period of an open circuit, after a
\* call that led through d to e: zero if the call opened the circuit.
NotifiedAfter(d, e) ==
  IF e.st.circuit = "OPEN" /\ "CLOSED" \in {db.st.circuit, d.st.circuit} THEN 0
  ELSE hist.notified

\* The budget that was in force when the circuit last opened or closed, after
\* such a call.
BudgetAfter(d, e) ==
  IF {db.st.circuit, d.st.circuit, e.st.circuit} = {db.st.circuit} THEN hist.budget
  ELSE opts.maxAlertsPerEvent

Init ==
  /\ opts \in Options
  /\ now = Epoch
  /\ \E active \in BOOLEAN :
       db = [rule |-> [isActive |-> active, state |-> "NORMAL"],
             st |-> EmptyState,
             alerts |-> [a \in AlertIds |-> "unused"],
             bus |-> <<>>]
  \* Good results since the last violation, and the time of that; see above; and
  \* whether options were saved that the circuit was not yet updated by, and how
  \* often that was.
  /\ hist = [streak |-> 0, lastBad |-> 0, notified |-> 0,
             budget |-> opts.maxAlertsPerEvent, saved |-> FALSE, saves |-> 0]

\* rules(..., 'check', level): starts the rule if need be, then counts the
\* result of an evaluation.
Check(level) ==
  LET d == Start(Loaded)
      e == CheckNotify(d, level)
      counted == CheckStatus(d) = "ok"
      bad == level # "NONE"
  IN /\ counted /\ bad => db.st.totalFailures < MaxViolations
     /\ counted /\ ~bad => hist.streak < MaxStreak
     /\ db' = Ended(e)
     /\ hist' = [streak |-> IF ~counted THEN hist.streak
                            ELSE IF bad THEN 0 ELSE hist.streak + 1,
                 lastBad |-> IF counted /\ bad THEN now ELSE hist.lastBad,
                 notified |-> NotifiedAfter(d, e),
                 budget |-> BudgetAfter(d, e),
                 saved |-> hist.saved /\ ~(counted /\ (bad \/ db.st.isStarted)),
                 saves |-> hist.saves]
     /\ UNCHANGED <<opts, now>>

\* A call that leads to d, and whether it updates the circuit
Call(d, updates) ==
  /\ db' = Ended(d)
  /\ hist' = [hist EXCEPT !.notified = NotifiedAfter(d, d),
                          !.budget = BudgetAfter(d, d),
                          !.saved = @ /\ ~updates]
  /\ UNCHANGED <<opts, now>>

\* 'start', 'stop', 'clear' and 'state' (a query, which updates the circuit)
StartRule == Call(Start(Loaded), ~db.st.isStarted)
StopRule == Call(Stop(Loaded), db.st.isStarted)
Clear == Call(ClearState(Loaded), TRUE)
QueryState == Call(UpdateCircuit(Loaded), TRUE)

\* 'alert': stores the alert of a trip.  Its id is new (getUniqueId).
Alert(id, level) ==
  /\ db.rule.isActive
  /\ db.alerts[id] = "unused"
  /\ Call(WriteAlert(Loaded, id, level), FALSE)

\* 'mark-notify'
MarkNotify ==
  /\ db' = Ended(MarkNotification(Loaded))
  /\ hist' = [hist EXCEPT !.notified =
                 IF db.st.notifyPending /\ db.st.circuit = "OPEN"
                   THEN @ + 1 ELSE @]
  /\ UNCHANGED <<opts, now>>

\* What rule-storage.ts does to the same keys, outside of the script: a save
\* writes the caller's copy of every field of the rule, its state included.
SaveRule(active, state, options) ==
  /\ db' = [db EXCEPT !.rule = [isActive |-> active, state |-> state], !.bus = <<>>]
  /\ opts' = options
  /\ IF options = opts THEN UNCHANGED hist
     ELSE /\ hist.saves < MaxSaves
          /\ hist' = [hist EXCEPT !.saved = TRUE, !.saves = @ + 1]
  /\ UNCHANGED now

DeleteAlert(id) ==
  /\ db.alerts[id] \in {"open", "CLOSED"}
  /\ db' = [db EXCEPT !.alerts[id] = "deleted", !.bus = <<>>]
  /\ UNCHANGED <<opts, now, hist>>

Tick ==
  /\ now < MaxTime
  /\ now' = now + 1
  /\ UNCHANGED <<opts, db, hist>>

Next ==
  \/ \E level \in ErrorLevels : Check(level)
  \/ StartRule
  \/ StopRule
  \/ Clear
  \/ QueryState
  \/ \E id \in AlertIds, level \in ErrorLevels : Alert(id, level)
  \/ MarkNotify
  \/ \E active \in BOOLEAN, state \in RuleStates, options \in Options :
       SaveRule(active, state, options)
  \/ \E id \in AlertIds : DeleteAlert(id)
  \/ Tick

Spec == Init /\ [][Next]_vars

-----------------------------------------------------------------------------
(* Properties.                                                              *)

EventNames == {"rule.state-changed", "alert.reset", "alert.triggered"}

Events == [event : EventNames, data : RuleStates \cup AlertIds]

StateHash ==
  [circuit : {"OPEN", "CLOSED"}, isStarted : BOOLEAN, warmupStart : Nat,
   failures : Nat, successes : Nat, totalFailures : Nat, lastFailure : Nat,
   errorType : {NoError, "WARNING", "ERROR"}, lastNotify : Nat,
   alertCount : Nat, notifyPending : BOOLEAN, alertId : AlertIds \cup {NoAlert}]

Database ==
  [rule : [isActive : BOOLEAN, state : RuleStates],
   st : StateHash,
   alerts : [AlertIds -> AlertStatuses],
   bus : Seq(Events)]

\* The type of every variable.
TypeOK ==
  /\ opts \in Options
  /\ now \in Nat
  /\ db \in Database
  /\ hist \in [streak : Nat, lastBad : Nat, notified : Nat, budget : Nat,
               saved : BOOLEAN, saves : Nat]

IsOpen == db.st.circuit = "OPEN"
Trips == ~IsOpen /\ IsOpen'
Recovers == IsOpen /\ ~IsOpen'
CountsViolation == db'.st.totalFailures > db.st.totalFailures

\* The breaker and its counter agree, whichever calls come in whichever order,
\* but for options saved and not yet applied: with a threshold, an open circuit
\* has reached it and is short of good results; a closed one has not, or has had
\* enough good results or a quiet recovery window since.
OpenIffThresholdReached ==
  ~hist.saved /\ opts.failureThreshold > 0 =>
    IF IsOpen
      THEN /\ db.st.failures >= opts.failureThreshold
           /\ ~EnoughSuccesses(db.st.successes)
      ELSE \/ db.st.failures < opts.failureThreshold
           \/ EnoughSuccesses(db.st.successes)
           \/ CooledDown(db)

\* What the hash remembers of the last violation belongs to the current
\* failures: closing forgets all of it, so that no stale time of failure can
\* cool a later event down and no stale error type can name its state.
ViolationRecordConsistent ==
  /\ (db.st.failures > 0) <=> (db.st.errorType # NoError)
  /\ db.st.failures > 0 => db.st.lastFailure = hist.lastBad
  /\ db.st.failures = 0 => db.st.lastFailure = 0
  /\ db.st.failures <= db.st.totalFailures

\* Only results since the last violation are held for a recovery.
SuccessesWithinStreak == db.st.successes <= hist.streak

\* Notifications stay within the budget that the rule had when its circuit last
\* changed, also when another one is saved while a notification is pending, and
\* one period of an open circuit is notified at most once however often it is
\* marked.
NotificationsWithinBudget ==
  /\ hist.budget > 0 => db.st.alertCount <= hist.budget
  /\ hist.notified <= 1
  /\ IsOpen /\ db.st.notifyPending => hist.notified = 0

\* With a threshold, nothing but a violation, or options that were saved, opens a
\* circuit: not a start, a stop, a query or a success, even after warm-up or while
\* inactive.
OnlyViolationsTrip ==
  [][~hist.saved /\ opts.failureThreshold > 0 /\ Trips => CountsViolation]_vars

\* A violation never closes the open circuit of a started rule, not even one
\* that arrives when the recovery window of the earlier ones has passed.  (A
\* check of a stopped rule starts it first, which may well recover it; so may
\* saved options.)
ViolationKeepsOpen ==
  [][~hist.saved /\ IsOpen /\ db.st.isStarted /\ CountsViolation => IsOpen']_vars

\* Unless other options were saved, an open circuit closes only after as many
\* good results in a row as the rule asks for (at least one), or a recovery
\* window without a violation.
RecoveryIsEarned ==
  [][~hist.saved /\ Recovers =>
       \/ /\ hist'.streak >= opts.successThreshold
          /\ hist'.streak > 0
       \/ /\ opts.recoveryWindow > 0
          /\ now - hist.lastBad >= opts.recoveryWindow]_vars

\* Subscribers of the bus see each reset: an alert that stops being open
\* because its circuit recovered or was cleared is announced by that call.
ResetsAreAnnounced ==
  [][\A a \in AlertIds :
       db.alerts[a] = "open" /\ db'.alerts[a] = "CLOSED" =>
         \E i \in DOMAIN db'.bus :
           db'.bus[i] = [event |-> "alert.reset", data |-> a]]_vars

\* Holding the current alert open is the business of an open circuit: a call
\* that recovers leaves no alert id, and the alert it had not open.
RecoveryClosesAlert ==
  [][Recovers => /\ db'.st.alertId = NoAlert
                 /\ db.st.alertId # NoAlert =>
                      db'.alerts[db.st.alertId] # "open"]_vars
=============================================================================
