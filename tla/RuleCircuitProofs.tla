------------------------- MODULE RuleCircuitProofs -------------------------
(***************************************************************************)
(* Theorems about RuleCircuit, for all options and sets of alert ids.      *)
(*                                                                         *)
(* The argument: IInv is inductive.  It has what every call keeps whatever *)
(* options are saved meanwhile (Sound, Budgeted), and what updateCircuit   *)
(* makes true of the circuit and its counter (Settled), which holds from   *)
(* the first update that other options get until the next are saved.       *)
(*                                                                         *)
(* A call goes on with its own copy of the state hash.  Every call that    *)
(* counts no result is Calm: it adds no failure, and on a settled hash it  *)
(* can only close a circuit that cooled down.  A check is a calm start     *)
(* followed by one counted result, and that result is counted on the copy. *)
(***************************************************************************)
EXTENDS RuleCircuit, TLAPS

Copies == [failures : Nat, successes : Nat, lastNotify : Nat, alertCount : Nat]

\* What a call works on: the contents of the keys, and the copy
CallData ==
  [rule : [isActive : BOOLEAN, state : RuleStates],
   st : StateHash,
   alerts : [AlertIds -> AlertStatuses],
   bus : Seq(Events),
   mem : Copies]

-----------------------------------------------------------------------------
(* The inductive invariant.                                                 *)

\* The relations between the fields of the state hash that every call of the
\* script preserves, whatever the options
Sound(d) ==
  /\ d.st.failures > 0 <=> d.st.errorType # NoError
  /\ d.st.failures = 0 => d.st.lastFailure = 0
  /\ d.st.failures <= d.st.totalFailures
  /\ d.st.circuit = "CLOSED" => /\ d.st.alertCount <= 1
                                /\ d.st.notifyPending => d.st.alertCount = 0

\* The hash keeps to a budget, and a pending notification has its place in it.
Budgeted(d, budget) ==
  budget > 0 => /\ d.st.alertCount <= budget
                /\ d.st.notifyPending => d.st.alertCount < budget

\* The circuit is what the options make of the counters.
Settled(d) ==
  /\ opts.failureThreshold > 0 =>
       IF d.st.circuit = "OPEN"
         THEN d.st.failures >= opts.failureThreshold
         ELSE \/ d.st.failures < opts.failureThreshold
              \/ EnoughSuccesses(d.st.successes)
              \/ CooledDown(d)
  /\ d.st.circuit = "OPEN" => ~EnoughSuccesses(d.st.successes)
  /\ d.st.circuit = "OPEN" /\ opts.recoveryWindow > 0 => d.st.failures > 0

IInv ==
  /\ TypeOK
  /\ now >= Epoch
  /\ Sound(db)
  /\ Budgeted(db, hist.budget)
  /\ ~hist.saved => Settled(db)
  /\ hist.saves = 0 => ~hist.saved
  /\ db.st.failures > 0 => db.st.lastFailure = hist.lastBad
  /\ SuccessesWithinStreak
  /\ hist.notified <= 1
  /\ IsOpen /\ db.st.notifyPending => hist.notified = 0

-----------------------------------------------------------------------------
(* Types.                                                                   *)

\* Emitting an event (emitEvent) changes the bus and nothing else.
LEMMA EmitEventType ==
  ASSUME NEW d \in CallData, NEW e \in EventNames,
         NEW x \in RuleStates \cup AlertIds
  PROVE  /\ EmitEvent(d, e, x) \in CallData
         /\ EmitEvent(d, e, x).st = d.st
         /\ EmitEvent(d, e, x).mem = d.mem
         /\ EmitEvent(d, e, x).alerts = d.alerts
         /\ EmitEvent(d, e, x).rule = d.rule
<1>1. [event |-> e, data |-> x] \in Events
  BY DEF Events
<1>2. Append(d.bus, [event |-> e, data |-> x]) \in Seq(Events)
  BY <1>1 DEF CallData
<1> QED
  BY <1>2 DEF EmitEvent, CallData

\* updateRuleState changes at most the state of the rule and the bus.
LEMMA UpdateRuleStateType ==
  ASSUME NEW d \in CallData, NEW s \in RuleStates
  PROVE  /\ UpdateRuleState(d, s) \in CallData
         /\ UpdateRuleState(d, s).st = d.st
         /\ UpdateRuleState(d, s).mem = d.mem
         /\ UpdateRuleState(d, s).alerts = d.alerts
<1> DEFINE c == [d EXCEPT !.rule.state = s]
<1>1. /\ c \in CallData
      /\ c.st = d.st /\ c.mem = d.mem
      /\ c.alerts = d.alerts
  BY DEF CallData
<1>2. "rule.state-changed" \in EventNames
  BY DEF EventNames
<1> QED
  BY <1>1, <1>2, EmitEventType DEF UpdateRuleState

\* Resetting the alert (resetAndCloseCircuit) leaves state hash and rule alone.
LEMMA ResetAlertType ==
  ASSUME NEW d \in CallData
  PROVE  /\ ResetAlert(d) \in CallData
         /\ ResetAlert(d).st = d.st
         /\ ResetAlert(d).mem = d.mem
         /\ ResetAlert(d).rule = d.rule
<1> DEFINE c == [d EXCEPT !.alerts[d.st.alertId] = "CLOSED"]
<1>1. CASE d.st.alertId # NoAlert
  <2>1. d.st.alertId \in AlertIds
    BY <1>1 DEF CallData, StateHash
  <2>2. /\ c \in CallData
        /\ c.st = d.st /\ c.mem = d.mem
        /\ c.rule = d.rule
    BY <2>1 DEF CallData, AlertStatuses
  <2>3. "alert.reset" \in EventNames
    BY DEF EventNames
  <2> QED
    BY <2>1, <2>2, <2>3, EmitEventType DEF ResetAlert
<1>2. CASE d.st.alertId = NoAlert
  BY <1>2 DEF ResetAlert
<1> QED
  BY <1>1, <1>2

\* Opening a circuit keeps the contents of the keys well typed.
LEMMA OpenCircuitType ==
  ASSUME TypeOK, NEW d \in CallData
  PROVE  OpenCircuit(d) \in CallData
<1> DEFINE e == IF d.st.errorType = NoError THEN "WARNING" ELSE d.st.errorType
           n == IF d.mem.lastNotify = 0 THEN now ELSE 0
           st == [d.st EXCEPT !.circuit = "OPEN", !.successes = 0,
                              !.lastNotify = n,
                              !.notifyPending = ShouldNotify(d, "OPEN")]
<1>1. d.st \in StateHash
  BY DEF CallData
<1>2. e \in RuleStates
  BY <1>1 DEF StateHash, RuleStates, NoError
<1>3. UpdateRuleState(d, e) \in CallData
  BY <1>2, UpdateRuleStateType
<1>4. ShouldNotify(d, "OPEN") \in BOOLEAN
  BY DEF ShouldNotify
<1>5. n \in Nat
  BY DEF TypeOK
<1>6. st \in StateHash
  BY <1>1, <1>4, <1>5 DEF StateHash
<1> HIDE DEF e, n, st
<1>7. [UpdateRuleState(d, e) EXCEPT !.st = st] \in CallData
  BY <1>3, <1>6 DEF CallData
<1> QED
  BY <1>7 DEF OpenCircuit, e, n, st

\* Closing a circuit keeps the contents of the keys well typed.
LEMMA CloseCircuitType ==
  ASSUME TypeOK, NEW d \in CallData
  PROVE  CloseCircuit(d) \in CallData
<1> DEFINE r == UpdateRuleState(ResetAlert(d), "NORMAL")
           st == [EmptyState EXCEPT
                    !.isStarted = d.st.isStarted,
                    !.totalFailures = d.st.totalFailures,
                    !.notifyPending = ShouldNotify(d, "CLOSED")]
           mem == [d.mem EXCEPT !.successes = 0, !.lastNotify = 0]
<1>1. r \in CallData
  BY ResetAlertType, UpdateRuleStateType DEF RuleStates
<1>2. ShouldNotify(d, "CLOSED") \in BOOLEAN
  BY DEF ShouldNotify
<1>3. st \in StateHash
  BY <1>2 DEF StateHash, EmptyState, CallData
<1>4. mem \in Copies
  BY DEF CallData, Copies
<1> HIDE DEF r, st, mem
<1>5. [r EXCEPT !.st = st, !.mem = mem] \in CallData
  BY <1>1, <1>3, <1>4 DEF CallData
<1> QED
  BY <1>5 DEF CloseCircuit, r, st, mem

-----------------------------------------------------------------------------
(* The three outcomes of UpdateCircuit: no change, a trip, a recovery.      *)

Tripped(d) ==
  [d.st EXCEPT !.circuit = "OPEN",
               !.successes = 0,
               !.lastNotify = IF d.mem.lastNotify = 0 THEN now ELSE 0,
               !.notifyPending = ShouldNotify(d, "OPEN")]

Recovered(d) ==
  [EmptyState EXCEPT !.isStarted = d.st.isStarted,
                     !.totalFailures = d.st.totalFailures,
                     !.notifyPending = ShouldNotify(d, "CLOSED")]

\* updateCircuit leaves the keys alone, trips the circuit or recovers it.
LEMMA UpdateCircuitCases ==
  ASSUME TypeOK, NEW d \in CallData
  PROVE  /\ UpdateCircuit(d) \in CallData
         /\ \/ /\ UpdateCircuit(d) = d
               /\ d.st.circuit = CalculateState(d)
            \/ /\ d.st.circuit = "CLOSED"
               /\ CalculateState(d) = "OPEN"
               /\ UpdateCircuit(d).st = Tripped(d)
               /\ UpdateCircuit(d).mem = d.mem
            \/ /\ d.st.circuit = "OPEN"
               /\ CalculateState(d) = "CLOSED"
               /\ UpdateCircuit(d).st = Recovered(d)
               /\ UpdateCircuit(d).mem
                    = [d.mem EXCEPT !.successes = 0, !.lastNotify = 0]
<1>1. d.st.circuit \in {"OPEN", "CLOSED"}
  BY DEF CallData, StateHash
<1>2. CalculateState(d) \in {"OPEN", "CLOSED"}
  BY DEF CalculateState
<1>3. CASE CalculateState(d) = d.st.circuit
  BY <1>3 DEF UpdateCircuit
<1>4. CASE d.st.circuit = "CLOSED" /\ CalculateState(d) = "OPEN"
  <2>1. UpdateCircuit(d) = OpenCircuit(d)
    BY <1>4 DEF UpdateCircuit
  <2>2. \A e \in RuleStates : /\ UpdateRuleState(d, e) \in CallData
                              /\ UpdateRuleState(d, e).mem = d.mem
    BY UpdateRuleStateType
  <2>3. (IF d.st.errorType = NoError THEN "WARNING" ELSE d.st.errorType)
          \in RuleStates
    BY DEF CallData, StateHash, RuleStates, NoError
  <2>4. OpenCircuit(d).st = Tripped(d) /\ OpenCircuit(d).mem = d.mem
    BY <2>2, <2>3 DEF OpenCircuit, Tripped, CallData
  <2> QED
    BY <1>4, <2>1, <2>4, OpenCircuitType
<1>5. CASE d.st.circuit = "OPEN" /\ CalculateState(d) = "CLOSED"
  <2>1. UpdateCircuit(d) = CloseCircuit(d)
    BY <1>5 DEF UpdateCircuit
  <2>2. UpdateRuleState(ResetAlert(d), "NORMAL") \in CallData
    BY ResetAlertType, UpdateRuleStateType DEF RuleStates
  <2>3. /\ CloseCircuit(d).st = Recovered(d)
        /\ CloseCircuit(d).mem = [d.mem EXCEPT !.successes = 0, !.lastNotify = 0]
    BY <2>2 DEF CloseCircuit, Recovered, CallData
  <2> QED
    BY <1>5, <2>1, <2>3, CloseCircuitType
<1> QED
  BY <1>1, <1>2, <1>3, <1>4, <1>5

\* Option values are numbers and flags, and the clock exceeds the windows.
LEMMA OptionFacts ==
  ASSUME TypeOK
  PROVE  /\ opts \in AlertOptions
         /\ opts.recoveryWindow <= Epoch /\ opts.warmupWindow <= Epoch
BY OptionsAssumption, EpochAssumption DEF TypeOK

-----------------------------------------------------------------------------
(* What updateCircuit does.                                                 *)

\* What a call keeps of the copy: it never counts less than the hash.
CopySound(d) ==
  /\ d.mem.failures <= d.st.totalFailures
  /\ d.st.alertCount <= d.mem.alertCount

\* e comes from d without a counted result.
Follows(d, e) ==
  /\ e \in CallData /\ Sound(e) /\ CopySound(e)
  /\ e.st.isStarted = d.st.isStarted
  /\ e.st.totalFailures = d.st.totalFailures
  /\ e.mem.failures = d.mem.failures
  /\ e.mem.successes <= d.mem.successes
  /\ e.st.successes <= d.st.successes
  /\ e.st.failures > 0 => /\ d.st.failures > 0
                          /\ e.st.failures = d.st.failures
                          /\ e.st.lastFailure = d.st.lastFailure
  /\ IF e.st.circuit = d.st.circuit
       THEN /\ e.st.notifyPending = d.st.notifyPending
            /\ e.st.alertCount = d.st.alertCount
            /\ e.st.successes = d.st.successes /\ e.st.failures = d.st.failures
            /\ e.st.lastFailure = d.st.lastFailure
            /\ e.mem = d.mem
       ELSE /\ Budgeted(e, opts.maxAlertsPerEvent)
            /\ d.st.circuit = "CLOSED" => e.st.failures = d.st.failures
            /\ d.st.circuit = "OPEN" => e.st.failures = 0 /\ e.st.lastFailure = 0

\* updateCircuit follows, whatever the options are.
LEMMA UpdateFollows ==
  ASSUME TypeOK, NEW d \in CallData, Sound(d), CopySound(d)
  PROVE  Follows(d, UpdateCircuit(d))
<1> DEFINE u == UpdateCircuit(d)
<1>0. /\ d.st \in StateHash /\ d.mem \in Copies
      /\ opts \in AlertOptions
      /\ now \in Nat
  BY OptionFacts DEF CallData, TypeOK
<1>1. u \in CallData
  BY UpdateCircuitCases
<1>2. CASE u = d
  BY <1>0, <1>1, <1>2 DEF Follows, StateHash, Copies
<1>3. CASE d.st.circuit = "CLOSED" /\ u.st = Tripped(d) /\ u.mem = d.mem
  <2>1. /\ u.st.circuit = "OPEN"
        /\ u.st.isStarted = d.st.isStarted
        /\ u.st.failures = d.st.failures
        /\ u.st.errorType = d.st.errorType
        /\ u.st.lastFailure = d.st.lastFailure
        /\ u.st.totalFailures = d.st.totalFailures
        /\ u.st.alertCount = d.st.alertCount
        /\ u.st.notifyPending = ShouldNotify(d, "OPEN")
        /\ u.st.successes = 0
    BY <1>0, <1>3 DEF Tripped, StateHash
  <2>2. Sound(u) /\ CopySound(u)
    BY <1>3, <2>1 DEF Sound, CopySound
  <2>3. Budgeted(u, opts.maxAlertsPerEvent)
    <3>1. d.st.alertCount <= 1 /\ d.st.alertCount <= d.mem.alertCount
      BY <1>3 DEF Sound, CopySound
    <3>2. ShouldNotify(d, "OPEN") /\ opts.maxAlertsPerEvent > 0
            => d.mem.alertCount < opts.maxAlertsPerEvent
      BY <1>0 DEF ShouldNotify, AlertOptions
    <3> QED
      BY <1>0, <2>1, <3>1, <3>2 DEF Budgeted, StateHash, Copies, AlertOptions
  <2> QED
    BY <1>0, <1>1, <1>3, <2>1, <2>2, <2>3 DEF Follows, StateHash, Copies
<1>4. CASE /\ d.st.circuit = "OPEN" /\ u.st = Recovered(d)
           /\ u.mem = [d.mem EXCEPT !.successes = 0, !.lastNotify = 0]
  <2>1. /\ u.st.circuit = "CLOSED"
        /\ u.st.isStarted = d.st.isStarted
        /\ u.st.failures = 0
        /\ u.st.errorType = NoError
        /\ u.st.lastFailure = 0
        /\ u.st.totalFailures = d.st.totalFailures
        /\ u.st.alertCount = 0
        /\ u.st.successes = 0
    BY <1>4 DEF Recovered, EmptyState
  <2>2. /\ u.mem.failures = d.mem.failures /\ u.mem.successes = 0
        /\ u.mem.alertCount = d.mem.alertCount
    BY <1>0, <1>4 DEF Copies
  <2>3. Sound(u) /\ CopySound(u) /\ Budgeted(u, opts.maxAlertsPerEvent)
    BY <1>0, <2>1, <2>2 DEF Sound, CopySound, Budgeted, StateHash, Copies, AlertOptions
  <2> QED
    BY <1>0, <1>1, <1>4, <2>1, <2>2, <2>3 DEF Follows, StateHash, Copies
<1> QED
  BY <1>2, <1>3, <1>4, UpdateCircuitCases

\* The copy and the hash have the same counters.
Agrees(d) == d.mem.failures = d.st.failures /\ d.mem.successes = d.st.successes

\* updateCircuit settles the circuit, whatever it was, if the copy has the
\* counters of the hash.
LEMMA UpdateSettles ==
  ASSUME TypeOK, now >= Epoch, NEW d \in CallData, Sound(d), Agrees(d)
  PROVE  Settled(UpdateCircuit(d))
<1> DEFINE u == UpdateCircuit(d)
<1>0. /\ d.st \in StateHash
      /\ opts \in AlertOptions
      /\ opts.recoveryWindow <= Epoch
      /\ Epoch \in Nat
      /\ now \in Nat
  BY OptionFacts, EpochAssumption DEF CallData, TypeOK
<1>1. CalculateState(d) = "OPEN" =>
        /\ d.st.failures >= opts.failureThreshold
        /\ ~EnoughSuccesses(d.st.successes)
        /\ ~CooledDown(d)
  BY DEF CalculateState, Agrees
<1>2. CalculateState(d) # "OPEN" =>
        \/ ~(d.st.failures >= opts.failureThreshold)
        \/ EnoughSuccesses(d.st.successes)
        \/ CooledDown(d)
  BY DEF CalculateState, Agrees
<1>3. opts.recoveryWindow > 0 /\ ~CooledDown(d) => d.st.failures > 0
  BY <1>0 DEF CooledDown, Sound, StateHash, AlertOptions
<1>4. CASE u = d /\ d.st.circuit = CalculateState(d)
  BY <1>0, <1>1, <1>2, <1>3, <1>4 DEF Settled, StateHash, AlertOptions
<1>5. CASE CalculateState(d) = "OPEN" /\ u.st = Tripped(d)
  <2>1. /\ u.st.circuit = "OPEN"
        /\ u.st.failures = d.st.failures
        /\ u.st.successes = 0
    BY <1>0, <1>5 DEF Tripped, StateHash
  <2>2. ~EnoughSuccesses(0)
    BY <1>0 DEF EnoughSuccesses, AlertOptions
  <2> QED
    BY <1>0, <1>1, <1>3, <1>5, <2>1, <2>2 DEF Settled, StateHash, AlertOptions
<1>6. CASE u.st = Recovered(d)
  <2>1. u.st.circuit = "CLOSED" /\ u.st.failures = 0
    BY <1>6 DEF Recovered, EmptyState
  <2> QED
    BY <1>0, <2>1 DEF Settled, AlertOptions
<1> QED
  BY <1>4, <1>5, <1>6, UpdateCircuitCases

-----------------------------------------------------------------------------
(* A call that counts no result leads from d to e with Calm(d, e).          *)

\* The copy as it was loaded
Fresh(d) == d \in CallData /\ Sound(d) /\ d.mem = Copy(d.st)

Calm(d, e) ==
  /\ e \in CallData /\ Sound(e) /\ CopySound(e)
  /\ e.st.totalFailures = d.st.totalFailures
  /\ e.mem.successes <= d.st.successes
  /\ e.st.successes <= d.st.successes
  /\ e.st.failures > 0 => /\ d.st.failures > 0
                          /\ e.st.lastFailure = d.st.lastFailure
  /\ IF e.st.circuit = d.st.circuit
       THEN /\ e.st.notifyPending = d.st.notifyPending
            /\ e.st.alertCount = d.st.alertCount
            /\ Agrees(e)
       ELSE /\ Budgeted(e, opts.maxAlertsPerEvent)
            /\ d.st.circuit = "CLOSED" => e.mem.failures = e.st.failures
            /\ d.st.circuit = "OPEN" => e.st.failures = 0 /\ e.st.lastFailure = 0
  /\ Settled(d) =>
       /\ Settled(e)
       /\ opts.failureThreshold > 0 /\ d.st.circuit = "CLOSED"
            => e.st.circuit = "CLOSED"
       /\ d.st.circuit = "OPEN" /\ e.st.circuit = "CLOSED" => CooledDown(d)

\* The same to the breaker
SameBreaker(d, e) ==
  /\ d \in CallData /\ e \in CallData
  /\ e.mem = d.mem
  /\ e.st.circuit = d.st.circuit
  /\ e.st.failures = d.st.failures
  /\ e.st.successes = d.st.successes
  /\ e.st.errorType = d.st.errorType
  /\ e.st.lastFailure = d.st.lastFailure
  /\ e.st.totalFailures = d.st.totalFailures
  /\ e.st.alertCount = d.st.alertCount
  /\ e.st.notifyPending = d.st.notifyPending

LEMMA CalmOfSame ==
  ASSUME NEW c, NEW d, NEW e, NEW f,
         SameBreaker(c, d), Calm(d, e), SameBreaker(e, f)
  PROVE  Calm(c, f)
<1>1. (Sound(e) => Sound(f)) /\ (CopySound(e) => CopySound(f))
      /\ (Agrees(e) => Agrees(f))
  BY DEF SameBreaker, Sound, CopySound, Agrees
<1>2. (Settled(c) => Settled(d)) /\ (Settled(e) => Settled(f))
      /\ (CooledDown(d) => CooledDown(c))
  BY DEF SameBreaker, Settled, CooledDown
<1>3. Budgeted(e, opts.maxAlertsPerEvent) => Budgeted(f, opts.maxAlertsPerEvent)
  BY DEF SameBreaker, Budgeted
<1> QED
  BY <1>1, <1>2, <1>3, SMTT(30) DEF SameBreaker, Calm

\* A call that leaves the breaker alone is calm.
LEMMA SameIsCalm ==
  ASSUME NEW d, NEW e, Fresh(d), SameBreaker(d, e)
  PROVE  Calm(d, e)
<1>1. d.st \in StateHash /\ d.mem = Copy(d.st)
  BY DEF Fresh, CallData
<1>2. Sound(e) /\ CopySound(e) /\ Agrees(e)
  BY <1>1 DEF SameBreaker, Fresh, Sound, CopySound, Agrees, Copy, StateHash
<1>3. Settled(d) => Settled(e)
  BY DEF SameBreaker, Settled, CooledDown
<1>4. e.mem.successes = d.st.successes
  BY <1>1 DEF SameBreaker, Copy
<1> QED
  BY <1>1, <1>2, <1>3, <1>4 DEF SameBreaker, Calm, StateHash

\* updateCircuit by itself (a state query) settles the circuit; if that was
\* settled, it can only recover a circuit that cooled down.
LEMMA UpdateCircuitCalm ==
  ASSUME TypeOK, now >= Epoch, NEW d, Fresh(d)
  PROVE  Calm(d, UpdateCircuit(d)) /\ Settled(UpdateCircuit(d))
<1> DEFINE u == UpdateCircuit(d)
<1>1. /\ d \in CallData
      /\ d.st \in StateHash
      /\ opts \in AlertOptions
      /\ now \in Nat
  BY OptionFacts DEF Fresh, CallData, TypeOK
<1>2. /\ d.mem.failures = d.st.failures /\ d.mem.successes = d.st.successes
      /\ Sound(d) /\ Agrees(d) /\ CopySound(d)
  BY <1>1 DEF Fresh, Copy, Agrees, CopySound, Sound, StateHash
<1>3. Settled(u) /\ Follows(d, u)
  BY <1>1, <1>2, UpdateSettles, UpdateFollows
<1>4. ASSUME Settled(d)
      PROVE  /\ opts.failureThreshold > 0 /\ d.st.circuit = "CLOSED"
                  => u.st.circuit = "CLOSED"
             /\ d.st.circuit = "OPEN" /\ u.st.circuit = "CLOSED" => CooledDown(d)
  <2>1. CASE u = d
    BY <2>1
  <2>2. CASE d.st.circuit = "CLOSED" /\ CalculateState(d) = "OPEN"
    BY <1>1, <1>2, <1>4, <2>2 DEF CalculateState, Settled, StateHash, AlertOptions
  <2>3. CASE d.st.circuit = "OPEN" /\ CalculateState(d) = "CLOSED"
    BY <1>1, <1>2, <1>4, <2>3 DEF CalculateState, Settled, StateHash, AlertOptions
  <2> QED
    BY <1>1, <2>1, <2>2, <2>3, UpdateCircuitCases
<1>5. IF u.st.circuit = d.st.circuit THEN Agrees(u)
      ELSE d.st.circuit = "CLOSED" => u.mem.failures = u.st.failures
  BY <1>2, <1>3 DEF Follows, Agrees
<1> HIDE DEF u
<1>6. Calm(d, u)
  BY <1>2, <1>3, <1>4, <1>5 DEF Calm, Follows
<1> QED
  BY <1>3, <1>6 DEF u

\* clearState is calm, too, and leaves the rule started or not.
LEMMA ClearStateCalm ==
  ASSUME TypeOK, now >= Epoch, NEW d, Fresh(d)
  PROVE  /\ Calm(d, ClearState(d)) /\ Settled(ClearState(d))
         /\ ClearState(d).st.isStarted = d.st.isStarted
<1> DEFINE r == ResetAlert(d)
<1>1. /\ d \in CallData /\ d.st \in StateHash
      /\ r \in CallData /\ r.st = d.st /\ r.mem = d.mem
  BY ResetAlertType DEF Fresh, CallData
<1>2. Fresh(r)
  BY <1>1 DEF Fresh, Sound
<1>3. Calm(r, UpdateCircuit(r)) /\ Settled(UpdateCircuit(r))
  BY <1>2, UpdateCircuitCalm
<1>4. SameBreaker(d, r) /\ SameBreaker(UpdateCircuit(r), UpdateCircuit(r))
  BY <1>1, <1>3 DEF SameBreaker, Calm
<1>5. Calm(d, UpdateCircuit(r))
  BY <1>3, <1>4, CalmOfSame
<1>6. UpdateCircuit(r).st.isStarted = r.st.isStarted
  <2>1. Sound(r) /\ CopySound(r)
    BY <1>1, <1>2 DEF Fresh, Copy, CopySound, Sound, StateHash
  <2> QED
    BY <1>1, <2>1, UpdateFollows DEF Follows
<1> QED
  BY <1>1, <1>3, <1>5, <1>6 DEF ClearState

\* start is calm, and leaves the rule started.
LEMMA StartCalm ==
  ASSUME TypeOK, now >= Epoch, NEW d, Fresh(d)
  PROVE  /\ Calm(d, Start(d)) /\ Start(d).st.isStarted
         /\ ~d.st.isStarted => Settled(Start(d))
<1>1. d \in CallData /\ d.st \in StateHash /\ now \in Nat
  BY DEF Fresh, CallData, TypeOK
<1>2. CASE d.st.isStarted
  BY <1>1, <1>2, SameIsCalm DEF Start, SameBreaker
<1>3. CASE ~d.st.isStarted
  <2> DEFINE s == [d EXCEPT !.st.isStarted = TRUE]
             c == ClearState(s)
             w == [c EXCEPT !.st.warmupStart = now]
  <2>1. /\ s \in CallData /\ s.mem = d.mem
        /\ s.st = [d.st EXCEPT !.isStarted = TRUE]
    BY <1>1 DEF CallData, StateHash
  <2>2. SameBreaker(d, s) /\ s.st.isStarted
    BY <1>1, <2>1 DEF SameBreaker, StateHash
  <2>3. Fresh(s)
    <3>1. s.st.lastNotify = d.st.lastNotify
      BY <1>1, <2>1 DEF StateHash
    <3>2. Copy(s.st) = Copy(d.st) /\ Sound(s)
      BY <2>2, <3>1 DEF Fresh, SameBreaker, Sound, Copy
    <3> QED
      BY <2>1, <3>2 DEF Fresh
  <2>4. Calm(s, c) /\ Settled(c) /\ c.st.isStarted
    BY <2>2, <2>3, ClearStateCalm
  <2>5. c \in CallData /\ c.st \in StateHash
    BY <2>4 DEF Calm, CallData
  <2> HIDE DEF s, c
  <2>6. /\ w \in CallData /\ w.mem = c.mem
        /\ w.st = [c.st EXCEPT !.warmupStart = now]
    BY <1>1, <2>5 DEF CallData, StateHash
  <2>7. SameBreaker(c, w) /\ w.st.isStarted
    BY <2>4, <2>5, <2>6 DEF SameBreaker, StateHash
  <2>8. Calm(d, w)
    BY <2>2, <2>4, <2>7, CalmOfSame
  <2>9. Settled(w)
    BY <2>4, <2>7 DEF SameBreaker, Settled, CooledDown
  <2>10. Start(d) = w
    BY <1>3 DEF Start, w, c, s
  <2> QED
    BY <2>7, <2>8, <2>9, <2>10
<1> QED
  BY <1>2, <1>3

\* stop is calm.
LEMMA StopCalm ==
  ASSUME TypeOK, now >= Epoch, NEW d, Fresh(d)
  PROVE  /\ Calm(d, Stop(d))
         /\ d.st.isStarted => Settled(Stop(d))
<1>1. d \in CallData /\ d.st \in StateHash
  BY DEF Fresh, CallData
<1>2. CASE ~d.st.isStarted
  BY <1>1, <1>2, SameIsCalm DEF Stop, SameBreaker
<1>3. CASE d.st.isStarted
  <2> DEFINE s == [d EXCEPT !.st.isStarted = FALSE]
  <2>1. /\ s \in CallData /\ s.mem = d.mem
        /\ s.st = [d.st EXCEPT !.isStarted = FALSE]
    BY <1>1 DEF CallData, StateHash
  <2>2. SameBreaker(d, s)
    BY <1>1, <2>1 DEF SameBreaker, StateHash
  <2>3. Fresh(s)
    <3>1. s.st.lastNotify = d.st.lastNotify
      BY <1>1, <2>1 DEF StateHash
    <3>2. Copy(s.st) = Copy(d.st) /\ Sound(s)
      BY <2>2, <3>1 DEF Fresh, SameBreaker, Sound, Copy
    <3> QED
      BY <2>1, <3>2 DEF Fresh
  <2>4. Calm(s, ClearState(s)) /\ Settled(ClearState(s))
    BY <2>3, ClearStateCalm
  <2>5. SameBreaker(ClearState(s), ClearState(s))
    BY <2>4 DEF Calm, SameBreaker
  <2>6. Calm(d, ClearState(s))
    BY <2>2, <2>4, <2>5, CalmOfSame
  <2> QED
    BY <1>3, <2>4, <2>6 DEF Stop
<1> QED
  BY <1>2, <1>3

\* writeAlert is calm: it does not touch the breaker.
LEMMA WriteAlertCalm ==
  ASSUME NEW d, Fresh(d), NEW id \in AlertIds, NEW level \in ErrorLevels
  PROVE  Calm(d, WriteAlert(d, id, level)) /\ SameBreaker(d, WriteAlert(d, id, level))
<1> DEFINE a == [d EXCEPT !.st.alertId = id, !.alerts[id] = "open"]
           e == EmitEvent(a, "alert.triggered", id)
           w == IF level = "NONE" THEN e
                ELSE UpdateRuleState(e, RuleStateOf(level))
<1>1. d \in CallData /\ d.st \in StateHash
  BY DEF Fresh, CallData
<1>2. /\ a \in CallData /\ a.mem = d.mem
      /\ a.st = [d.st EXCEPT !.alertId = id]
  BY <1>1 DEF CallData, StateHash, AlertStatuses
<1>3. e \in CallData /\ e.st = a.st /\ e.mem = a.mem
  BY <1>2, EmitEventType DEF EventNames
<1>4. RuleStateOf(level) \in RuleStates
  BY DEF RuleStateOf, RuleStates
<1>5. /\ UpdateRuleState(e, RuleStateOf(level)) \in CallData
      /\ UpdateRuleState(e, RuleStateOf(level)).st = a.st
      /\ UpdateRuleState(e, RuleStateOf(level)).mem = a.mem
  BY <1>3, <1>4, UpdateRuleStateType
<1>6. w \in CallData /\ w.st = a.st /\ w.mem = a.mem
  BY <1>3, <1>5
<1>7. SameBreaker(d, w)
  BY <1>1, <1>2, <1>6 DEF SameBreaker, StateHash
<1>8. w = WriteAlert(d, id, level)
  BY DEF WriteAlert
<1> QED
  BY <1>7, <1>8, SameIsCalm

-----------------------------------------------------------------------------
(* Counting a result.                                                       *)

\* The contents a call loads
LEMMA LoadedFacts ==
  ASSUME IInv
  PROVE  /\ Loaded \in CallData
         /\ Fresh(Loaded)
         /\ Loaded.st = db.st /\ Loaded.alerts = db.alerts /\ Loaded.rule = db.rule
         /\ db.st \in StateHash
         /\ ~hist.saved => Settled(Loaded)
<1>1. /\ <<>> \in Seq(Events)
      /\ db.st \in StateHash
  BY DEF IInv, TypeOK, Database
<1>2. Copy(db.st) \in Copies
  BY <1>1 DEF Copy, Copies, StateHash
<1>3. /\ Loaded \in CallData
      /\ Loaded.st = db.st /\ Loaded.alerts = db.alerts /\ Loaded.rule = db.rule
      /\ Loaded.mem = Copy(db.st)
  BY <1>1, <1>2 DEF Loaded, IInv, TypeOK, Database, CallData
<1>4. Fresh(Loaded)
  BY <1>3 DEF Fresh, IInv, Sound
<1>5. ~hist.saved => Settled(Loaded)
  BY <1>3 DEF IInv, Settled, CooledDown
<1> QED
  BY <1>1, <1>3, <1>4, <1>5

\* What a call leaves
LEMMA EndedFacts ==
  ASSUME NEW d \in CallData
  PROVE  /\ Ended(d) \in Database
         /\ Ended(d).st = d.st /\ Ended(d).alerts = d.alerts
         /\ Ended(d).rule = d.rule /\ Ended(d).bus = d.bus
BY DEF Ended, CallData, Database

\* Counting a violation on the copy: whatever it was, the circuit is settled
\* again, the successes are gone, and a circuit that is open by its own counter
\* stays open.
LEMMA FailureCounted ==
  ASSUME TypeOK, now >= Epoch, NEW d \in CallData, Sound(d), CopySound(d),
         NEW level \in ErrorLevels
  PROVE  LET u == UpdateCircuit(HandleFailure(d, level))
         IN /\ u \in CallData
            /\ Sound(u) /\ Settled(u)
            /\ u.st.totalFailures = d.st.totalFailures + 1
            /\ u.st.failures > 0 => u.st.lastFailure = now
            /\ u.st.successes = 0
            /\ IF u.st.circuit = d.st.circuit
                 THEN /\ u.st.notifyPending = d.st.notifyPending
                      /\ u.st.alertCount = d.st.alertCount
                 ELSE Budgeted(u, opts.maxAlertsPerEvent)
            /\ d.st.circuit = "OPEN" /\ Agrees(d) /\ Settled(d) => u.st.circuit = "OPEN"
<1> DEFINE c == HandleFailure(d, level)
           u == UpdateCircuit(c)
           st == [d.st EXCEPT !.errorType = RuleStateOf(level),
                              !.lastFailure = now,
                              !.failures = d.mem.failures + 1,
                              !.successes = 0,
                              !.totalFailures = @ + 1]
           mem == [d.mem EXCEPT !.failures = d.mem.failures + 1, !.successes = 0]
<1>1. /\ d.st \in StateHash /\ d.mem \in Copies
      /\ opts \in AlertOptions
      /\ now \in Nat
  BY OptionFacts DEF CallData, TypeOK
<1>2. RuleStateOf(level) \in {"WARNING", "ERROR"}
  BY DEF RuleStateOf
<1>3. st \in StateHash /\ mem \in Copies
  <2>1. /\ d.mem.failures + 1 \in Nat
        /\ d.st.totalFailures + 1 \in Nat
        /\ RuleStateOf(level) \in {NoError, "WARNING", "ERROR"}
    BY <1>1, <1>2 DEF StateHash, Copies
  <2> QED
    BY <1>1, <2>1 DEF StateHash, Copies
<1>4. c = [d EXCEPT !.st = st, !.mem = mem]
  BY DEF HandleFailure
<1> HIDE DEF c
<1>5. c \in CallData /\ c.st = st /\ c.mem = mem
  BY <1>3, <1>4 DEF CallData
<1>6. /\ c.st.circuit = d.st.circuit
      /\ c.st.errorType \in {"WARNING", "ERROR"}
      /\ c.st.lastFailure = now
      /\ c.st.failures = d.mem.failures + 1
      /\ c.st.successes = 0
      /\ c.st.totalFailures = d.st.totalFailures + 1
      /\ c.st.alertCount = d.st.alertCount
      /\ c.st.notifyPending = d.st.notifyPending
      /\ c.mem.failures = d.mem.failures + 1 /\ c.mem.successes = 0
      /\ c.mem.alertCount = d.mem.alertCount
  BY <1>1, <1>2, <1>5 DEF StateHash, Copies
<1> HIDE DEF st, mem
<1>7. Sound(c) /\ CopySound(c) /\ Agrees(c)
  BY <1>1, <1>6 DEF Sound, CopySound, Agrees, NoError, StateHash, Copies
<1>8. u \in CallData /\ Follows(c, u) /\ Settled(u)
  BY <1>5, <1>7, UpdateFollows, UpdateSettles DEF Follows
<1>9. ASSUME d.st.circuit = "OPEN", Agrees(d), Settled(d)
      PROVE  u.st.circuit = "OPEN"
  <2>1. ~EnoughSuccesses(c.mem.successes) /\ ~CooledDown(c)
    BY <1>1, <1>6 DEF EnoughSuccesses, CooledDown, AlertOptions
  <2>2. c.mem.failures >= opts.failureThreshold
    BY <1>1, <1>6, <1>9 DEF Agrees, Settled, StateHash, Copies, AlertOptions
  <2>3. CalculateState(c) = "OPEN"
    BY <2>1, <2>2 DEF CalculateState
  <2>4. u = c
    BY <1>6, <1>9, <2>3 DEF UpdateCircuit
  <2> QED
    BY <1>6, <1>9, <2>4
<1>10. u.st.successes = 0
  <2>1. u.st \in StateHash /\ u.st.successes <= 0
    BY <1>6, <1>8 DEF Follows, CallData
  <2> QED
    BY <2>1 DEF StateHash
<1> HIDE DEF u
<1>11. /\ u.st.totalFailures = d.st.totalFailures + 1
       /\ u.st.failures > 0 => u.st.lastFailure = now
       /\ IF u.st.circuit = d.st.circuit
            THEN /\ u.st.notifyPending = d.st.notifyPending
                 /\ u.st.alertCount = d.st.alertCount
            ELSE Budgeted(u, opts.maxAlertsPerEvent)
  BY <1>6, <1>8 DEF Follows
<1> QED
  BY <1>8, <1>9, <1>10, <1>11 DEF Follows, u, c

\* Counting a good result on the copy: it never trips a rule with a threshold
\* and never touches the record of the last violation while the circuit stays
\* open.
LEMMA SuccessCounted ==
  ASSUME TypeOK, now >= Epoch, NEW d \in CallData, Sound(d), CopySound(d)
  PROVE  LET u == UpdateCircuit(HandleSuccess(d))
         IN /\ u \in CallData
            /\ Sound(u)
            /\ u.st.totalFailures = d.st.totalFailures
            /\ u.st.successes <= d.mem.successes + 1
            /\ u.st.failures > 0 => /\ d.st.failures > 0
                                    /\ u.st.lastFailure = d.st.lastFailure
            /\ IF u.st.circuit = d.st.circuit
                 THEN /\ u.st.notifyPending = d.st.notifyPending
                      /\ u.st.alertCount = d.st.alertCount
                 ELSE Budgeted(u, opts.maxAlertsPerEvent)
            /\ d.mem.failures = d.st.failures => Settled(u)
            /\ CooledDown(d) /\ d.st.circuit = "CLOSED" /\ d.st.failures = 0
                 => Settled(u) /\ u.st.circuit = "CLOSED"
            /\ Agrees(d) /\ Settled(d) =>
                 /\ opts.failureThreshold > 0 /\ d.st.circuit = "CLOSED"
                      => u.st.circuit = "CLOSED"
                 /\ d.st.circuit = "OPEN" /\ u.st.circuit = "CLOSED"
                      => \/ CooledDown(d)
                         \/ /\ d.st.successes + 1 >= opts.successThreshold
                            /\ d.st.successes + 1 > 0
<1> DEFINE c == HandleSuccess(d)
           u == UpdateCircuit(c)
           n == d.mem.successes + 1
<1>1. /\ d.st \in StateHash /\ d.mem \in Copies
      /\ opts \in AlertOptions
      /\ now \in Nat
  BY OptionFacts DEF CallData, TypeOK
<1>2. n \in Nat /\ n > 0
  BY <1>1 DEF Copies
<1> HIDE DEF n
<1>3. c = [d EXCEPT !.st.successes = n, !.mem.successes = n]
  BY DEF HandleSuccess, n
<1> HIDE DEF c
<1>4. /\ c \in CallData
      /\ c.st = [d.st EXCEPT !.successes = n] /\ c.mem = [d.mem EXCEPT !.successes = n]
  <2>1. /\ [d.st EXCEPT !.successes = n] \in StateHash
        /\ [d.mem EXCEPT !.successes = n] \in Copies
    BY <1>1, <1>2 DEF StateHash, Copies
  <2> QED
    BY <1>3, <2>1 DEF CallData
<1>5. /\ c.st.circuit = d.st.circuit
      /\ c.st.errorType = d.st.errorType
      /\ c.st.lastFailure = d.st.lastFailure
      /\ c.st.failures = d.st.failures
      /\ c.st.successes = n
      /\ c.st.totalFailures = d.st.totalFailures
      /\ c.st.alertCount = d.st.alertCount
      /\ c.st.notifyPending = d.st.notifyPending
      /\ c.mem.failures = d.mem.failures /\ c.mem.successes = n
      /\ c.mem.alertCount = d.mem.alertCount
  BY <1>1, <1>4 DEF StateHash, Copies
<1>6. Sound(c) /\ CopySound(c)
  BY <1>5 DEF Sound, CopySound
<1>7. u \in CallData /\ Follows(c, u)
  BY <1>4, <1>6, UpdateFollows DEF Follows
<1>8. d.mem.failures = d.st.failures => Settled(u)
  BY <1>4, <1>5, <1>6, UpdateSettles DEF Agrees
<1>9. ASSUME CooledDown(d), d.st.circuit = "CLOSED", d.st.failures = 0
      PROVE  Settled(u) /\ u.st.circuit = "CLOSED"
  <2>1. CooledDown(c)
    BY <1>5, <1>9 DEF CooledDown
  <2>2. u = c
    BY <1>5, <1>9, <2>1 DEF UpdateCircuit, CalculateState
  <2> QED
    BY <1>1, <1>5, <1>9, <2>1, <2>2 DEF Settled, AlertOptions
<1>10. ASSUME Agrees(d), Settled(d), opts.failureThreshold > 0, d.st.circuit = "CLOSED"
       PROVE  u.st.circuit = "CLOSED"
  <2>1. EnoughSuccesses(d.st.successes) => EnoughSuccesses(n)
    BY <1>1, <1>2, <1>10 DEF EnoughSuccesses, Agrees, n, StateHash, AlertOptions
  <2>2. CooledDown(d) => CooledDown(c)
    BY <1>5 DEF CooledDown
  <2>3. CalculateState(c) = "CLOSED"
    BY <1>1, <1>5, <1>10, <2>1, <2>2
    DEF CalculateState, Agrees, Settled, StateHash, AlertOptions
  <2> QED
    BY <1>5, <1>10, <2>3 DEF UpdateCircuit
<1>11. ASSUME Agrees(d), Settled(d), d.st.circuit = "OPEN", u.st.circuit = "CLOSED"
       PROVE  \/ CooledDown(d)
              \/ /\ d.st.successes + 1 >= opts.successThreshold
                 /\ d.st.successes + 1 > 0
  <2>1. CalculateState(c) = "CLOSED"
    BY <1>4, <1>5, <1>11, UpdateCircuitCases
  <2>2. c.mem.failures >= opts.failureThreshold
    BY <1>1, <1>5, <1>11 DEF Agrees, Settled, StateHash, AlertOptions
  <2>3. EnoughSuccesses(n) \/ CooledDown(c)
    BY <1>5, <2>1, <2>2 DEF CalculateState
  <2>4. CooledDown(c) => CooledDown(d)
    BY <1>5 DEF CooledDown
  <2>5. EnoughSuccesses(n) => n >= opts.successThreshold
    BY <1>1, <1>2 DEF EnoughSuccesses, AlertOptions
  <2> QED
    BY <1>2, <1>11, <2>3, <2>4, <2>5 DEF Agrees, n
<1> HIDE DEF u
<1>12. /\ Sound(u)
       /\ u.st.totalFailures = d.st.totalFailures
       /\ u.st.successes <= n
       /\ u.st.failures > 0 => /\ d.st.failures > 0
                               /\ u.st.lastFailure = d.st.lastFailure
       /\ IF u.st.circuit = d.st.circuit
            THEN /\ u.st.notifyPending = d.st.notifyPending
                 /\ u.st.alertCount = d.st.alertCount
            ELSE Budgeted(u, opts.maxAlertsPerEvent)
  BY <1>5, <1>7 DEF Follows
<1> QED
  BY <1>7, <1>8, <1>9, <1>10, <1>11, <1>12 DEF u, c, n
-----------------------------------------------------------------------------
(* Every action preserves the invariant.                                    *)

HistType ==
  [streak : Nat, lastBad : Nat, notified : Nat, budget : Nat,
   saved : BOOLEAN, saves : Nat]

\* A call from the current contents of the keys to e that counts no result
CalmCall(e, updates) ==
  /\ Call(e, updates)
  /\ Calm(Loaded, e)
  /\ updates => Settled(e)

\* A calm call preserves the invariant.
LEMMA CallInvariant ==
  ASSUME IInv, NEW e, NEW updates, CalmCall(e, updates)
  PROVE  IInv'
<1>1. /\ Loaded.st = db.st
      /\ db.st \in StateHash
      /\ Calm(Loaded, e) /\ e \in CallData /\ Sound(e)
      /\ e.st \in StateHash
      /\ hist \in HistType
      /\ opts.maxAlertsPerEvent \in Nat
  BY LoadedFacts, OptionFacts
  DEF CalmCall, IInv, TypeOK, CallData, Calm, HistType, AlertOptions
<1>2. NotifiedAfter(e, e) \in Nat /\ BudgetAfter(e, e) \in Nat
  BY <1>1 DEF NotifiedAfter, BudgetAfter, HistType
<1>3. /\ db' \in Database /\ db'.st = e.st
      /\ opts' = opts /\ now' = now
      /\ hist' \in HistType
      /\ hist'.streak = hist.streak
      /\ hist'.lastBad = hist.lastBad
      /\ hist'.notified = NotifiedAfter(e, e)
      /\ hist'.budget = BudgetAfter(e, e)
      /\ hist'.saved = (hist.saved /\ ~updates)
      /\ hist'.saves = hist.saves
  BY <1>1, <1>2, EndedFacts DEF CalmCall, Call, HistType
<1>4. TypeOK' /\ now' >= Epoch
  BY <1>3 DEF IInv, TypeOK, HistType
<1>5. Sound(db)'
  BY <1>1, <1>3 DEF Sound
<1>6. Budgeted(db, hist.budget)'
  BY <1>1, <1>3 DEF IInv, Calm, Budgeted, BudgetAfter
<1>7. (~hist.saved => Settled(db))'
  <2>1. ~hist'.saved => Settled(e)
    BY <1>1, <1>3, LoadedFacts DEF CalmCall, Calm
  <2> QED
    BY <1>3, <2>1 DEF Settled, EnoughSuccesses, CooledDown
<1>8. /\ db'.st.failures > 0 => db'.st.lastFailure = hist'.lastBad
      /\ SuccessesWithinStreak'
  BY <1>1, <1>3 DEF IInv, Calm, SuccessesWithinStreak, StateHash, HistType
<1>9. /\ hist'.notified <= 1
      /\ (IsOpen /\ db.st.notifyPending)' => hist'.notified = 0
  BY <1>1, <1>3 DEF IInv, Calm, NotifiedAfter, IsOpen, StateHash
<1>10. (hist.saves = 0 => ~hist.saved)'
  BY <1>1, <1>3 DEF IInv, HistType
<1> QED
  BY <1>4, <1>5, <1>6, <1>7, <1>8, <1>9, <1>10 DEF IInv

\* A started rule is not started again.
LEMMA StartedOnce ==
  ASSUME IInv, db.st.isStarted
  PROVE  Start(Loaded) = Loaded /\ Agrees(Loaded)
BY LoadedFacts DEF Start, Fresh, Agrees, Copy

\* The two parts of a check: the start, which is calm, and the counted result.
LEMMA CheckFacts ==
  ASSUME IInv, NEW level \in ErrorLevels, Check(level)
  PROVE  LET d == Start(Loaded)
             f == UpdateCircuit(HandleFailure(d, level))
             s == UpdateCircuit(HandleSuccess(d))
         IN /\ Calm(Loaded, d)
            /\ db.st.isStarted => Agrees(d)
            /\ \/ /\ db'.st = d.st
                  /\ hist'.streak = hist.streak
                  /\ hist'.lastBad = hist.lastBad
                  /\ hist'.saved = hist.saved
               \/ /\ level # "NONE"
                  /\ db'.st = f.st
                  /\ hist'.streak = 0
                  /\ hist'.lastBad = now
                  /\ hist'.saved = FALSE
               \/ /\ db'.st = s.st
                  /\ hist'.streak = hist.streak + 1
                  /\ hist'.lastBad = hist.lastBad
                  /\ hist'.saved = (hist.saved /\ ~db.st.isStarted)
            /\ db' \in Database
            /\ hist'.notified = NotifiedAfter(d, db')
            /\ hist'.budget = BudgetAfter(d, db')
            /\ hist' \in HistType /\ hist'.saves = hist.saves
            /\ UNCHANGED <<opts, now>>
<1> DEFINE d == Start(Loaded)
           f == UpdateCircuit(HandleFailure(d, level))
           s == UpdateCircuit(HandleSuccess(d))
           e == CheckNotify(d, level)
<1>1. /\ TypeOK /\ now >= Epoch /\ now \in Nat
      /\ Fresh(Loaded) /\ Loaded.st = db.st
      /\ db.st \in StateHash
      /\ hist \in HistType
      /\ opts.maxAlertsPerEvent \in Nat
  BY LoadedFacts, OptionFacts DEF IInv, TypeOK, HistType, AlertOptions
<1>2. Calm(Loaded, d) /\ (db.st.isStarted => Agrees(d))
  BY <1>1, StartCalm, StartedOnce
<1>3. d \in CallData /\ Sound(d) /\ CopySound(d)
  BY <1>2 DEF Calm
<1>4. f \in CallData
  BY <1>1, <1>3, FailureCounted
<1>5. s \in CallData
  BY <1>1, <1>3, SuccessCounted
<1>6. \/ e = d /\ CheckStatus(d) # "ok"
      \/ e = f /\ CheckStatus(d) = "ok" /\ level # "NONE"
      \/ e = s /\ CheckStatus(d) = "ok" /\ level = "NONE"
  BY DEF CheckNotify
<1>7. /\ db' = Ended(e)
      /\ hist' = [streak |-> IF ~(CheckStatus(d) = "ok") THEN hist.streak
                             ELSE IF level # "NONE" THEN 0 ELSE hist.streak + 1,
                  lastBad |-> IF CheckStatus(d) = "ok" /\ level # "NONE"
                                THEN now ELSE hist.lastBad,
                  notified |-> NotifiedAfter(d, e),
                  budget |-> BudgetAfter(d, e),
                  saved |-> /\ hist.saved
                            /\ ~(/\ CheckStatus(d) = "ok"
                                 /\ level # "NONE" \/ db.st.isStarted),
                  saves |-> hist.saves]
      /\ UNCHANGED <<opts, now>>
  BY DEF Check
<1> HIDE DEF d, f, s, e
<1>8. e \in CallData
  BY <1>3, <1>4, <1>5, <1>6
<1>9. db' \in Database /\ db'.st = e.st
  BY <1>7, <1>8, EndedFacts
<1>10. NotifiedAfter(d, e) \in Nat /\ BudgetAfter(d, e) \in Nat
  BY <1>1 DEF NotifiedAfter, BudgetAfter, HistType
<1>11. hist' \in HistType /\ hist'.saves = hist.saves
  BY <1>1, <1>7, <1>10 DEF HistType
<1>12. /\ hist'.notified = NotifiedAfter(d, db')
       /\ hist'.budget = BudgetAfter(d, db')
  BY <1>7, <1>9 DEF NotifiedAfter, BudgetAfter
<1>13. \/ /\ db'.st = d.st
          /\ hist'.streak = hist.streak
          /\ hist'.lastBad = hist.lastBad
          /\ hist'.saved = hist.saved
       \/ /\ level # "NONE"
          /\ db'.st = f.st
          /\ hist'.streak = 0
          /\ hist'.lastBad = now
          /\ hist'.saved = FALSE
       \/ /\ db'.st = s.st
          /\ hist'.streak = hist.streak + 1
          /\ hist'.lastBad = hist.lastBad
          /\ hist'.saved = (hist.saved /\ ~db.st.isStarted)
  <2>1. hist.saved \in BOOLEAN /\ db.st.isStarted \in BOOLEAN
    BY <1>1 DEF HistType, StateHash
  <2>2. CASE e = d /\ CheckStatus(d) # "ok"
    BY <1>7, <1>9, <2>1, <2>2
  <2>3. CASE e = f /\ CheckStatus(d) = "ok" /\ level # "NONE"
    BY <1>7, <1>9, <2>1, <2>3
  <2>4. CASE e = s /\ CheckStatus(d) = "ok" /\ level = "NONE"
    BY <1>7, <1>9, <2>1, <2>4
  <2> QED
    BY <1>6, <2>2, <2>3, <2>4
<1> QED
  BY <1>2, <1>7, <1>9, <1>11, <1>12, <1>13 DEF d, f, s

\* A check that starts a settled rule leaves it settled when it counts a good
\* result, whether the start recovered the circuit or not.
LEMMA StartThenSuccess ==
  ASSUME IInv, NEW d, Calm(Loaded, d), ~hist.saved \/ Agrees(d)
  PROVE  Settled(UpdateCircuit(HandleSuccess(d)))
<1> DEFINE s == UpdateCircuit(HandleSuccess(d))
<1>1. /\ TypeOK /\ now >= Epoch /\ now \in Nat /\ Epoch \in Nat
      /\ d \in CallData /\ Sound(d) /\ CopySound(d) /\ d.st \in StateHash
      /\ Loaded.st.circuit \in {"OPEN", "CLOSED"}
      /\ opts \in AlertOptions /\ opts.recoveryWindow <= Epoch
      /\ ~hist.saved => Settled(Loaded)
  BY LoadedFacts, OptionFacts, EpochAssumption
  DEF IInv, TypeOK, Calm, CallData, StateHash
<1>2. /\ d.mem.failures = d.st.failures => Settled(s)
      /\ CooledDown(d) /\ d.st.circuit = "CLOSED" /\ d.st.failures = 0 => Settled(s)
  BY <1>1, SuccessCounted
<1> HIDE DEF s
<1>3. CASE d.mem.failures = d.st.failures
  BY <1>2, <1>3 DEF s
<1>4. CASE d.mem.failures # d.st.failures
  <2>1. /\ ~Agrees(d) /\ Settled(Loaded)
        /\ Loaded.st.circuit = "OPEN" /\ d.st.circuit = "CLOSED"
    BY <1>1, <1>4 DEF Agrees, Calm, StateHash
  <2>2. CooledDown(Loaded) /\ d.st.failures = 0 /\ d.st.lastFailure = 0
    BY <2>1 DEF Calm
  <2>3. CooledDown(d)
    BY <1>1, <2>2 DEF CooledDown, AlertOptions
  <2> QED
    BY <1>2, <2>1, <2>2, <2>3 DEF s
<1> QED
  BY <1>3, <1>4

\* A check preserves the invariant, whether it starts the rule first or not.
LEMMA CheckInvariant ==
  ASSUME IInv, NEW level \in ErrorLevels, Check(level)
  PROVE  IInv'
<1> DEFINE d == Start(Loaded)
           f == UpdateCircuit(HandleFailure(d, level))
           s == UpdateCircuit(HandleSuccess(d))
<1>1. /\ TypeOK /\ now >= Epoch /\ now \in Nat
      /\ Loaded.st = db.st
      /\ db.st \in StateHash
      /\ hist \in HistType
      /\ ~hist.saved => Settled(Loaded)
  BY LoadedFacts DEF IInv, TypeOK, HistType
<1>2. /\ Calm(Loaded, d)
      /\ db.st.isStarted => Agrees(d)
      /\ db' \in Database
      /\ hist'.notified = NotifiedAfter(d, db')
      /\ hist'.budget = BudgetAfter(d, db')
      /\ hist' \in HistType /\ hist'.saves = hist.saves
      /\ now' = now /\ opts' = opts
  BY CheckFacts
<1>3. /\ d \in CallData /\ Sound(d) /\ CopySound(d)
      /\ d.st \in StateHash /\ d.mem \in Copies
      /\ db'.st \in StateHash
  BY <1>2 DEF Calm, CallData, Database
<1>4. \/ /\ db'.st = d.st
         /\ hist'.streak = hist.streak
         /\ hist'.lastBad = hist.lastBad
         /\ hist'.saved = hist.saved
      \/ /\ db'.st = f.st
         /\ hist'.streak = 0
         /\ hist'.lastBad = now
         /\ hist'.saved = FALSE
      \/ /\ db'.st = s.st
         /\ hist'.streak = hist.streak + 1
         /\ hist'.lastBad = hist.lastBad
         /\ hist'.saved = (hist.saved /\ ~db.st.isStarted)
  BY CheckFacts
<1>5. /\ Sound(f) /\ Settled(f)
      /\ f.st.failures > 0 => f.st.lastFailure = now
      /\ f.st.successes = 0
      /\ IF f.st.circuit = d.st.circuit
           THEN /\ f.st.notifyPending = d.st.notifyPending
                /\ f.st.alertCount = d.st.alertCount
           ELSE Budgeted(f, opts.maxAlertsPerEvent)
  BY <1>1, <1>3, FailureCounted
<1>6. /\ Sound(s)
      /\ s.st.successes <= d.mem.successes + 1
      /\ s.st.failures > 0 => /\ d.st.failures > 0
                              /\ s.st.lastFailure = d.st.lastFailure
      /\ IF s.st.circuit = d.st.circuit
           THEN /\ s.st.notifyPending = d.st.notifyPending
                /\ s.st.alertCount = d.st.alertCount
           ELSE Budgeted(s, opts.maxAlertsPerEvent)
  BY <1>1, <1>3, SuccessCounted
<1>7. ~hist.saved \/ db.st.isStarted => Settled(s)
  BY <1>2, StartThenSuccess
<1> HIDE DEF d, f, s
<1>8. TypeOK' /\ now' >= Epoch
  BY <1>1, <1>2 DEF TypeOK, HistType
<1>9. Sound(db)'
  <2>1. CASE db'.st = d.st
    BY <1>3, <2>1 DEF Sound
  <2>2. CASE db'.st = f.st
    BY <1>5, <2>2 DEF Sound
  <2>3. CASE db'.st = s.st
    BY <1>6, <2>3 DEF Sound
  <2> QED
    BY <1>4, <2>1, <2>2, <2>3
<1>10. IF db'.st.circuit = d.st.circuit
         THEN /\ db'.st.notifyPending = d.st.notifyPending
              /\ db'.st.alertCount = d.st.alertCount
         ELSE Budgeted(db', opts.maxAlertsPerEvent)
  BY <1>4, <1>5, <1>6 DEF Budgeted
<1>11. IF d.st.circuit = db.st.circuit
         THEN /\ d.st.notifyPending = db.st.notifyPending
              /\ d.st.alertCount = db.st.alertCount
         ELSE Budgeted(d, opts.maxAlertsPerEvent)
  BY <1>1, <1>2 DEF Calm
<1>12. Budgeted(db, hist.budget)'
  BY <1>2, <1>10, <1>11 DEF IInv, Budgeted, BudgetAfter
<1>13. (~hist.saved => Settled(db))'
  <2>1. ~hist.saved => Settled(d)
    BY <1>1, <1>2 DEF Calm
  <2>2. ~hist'.saved => \/ db'.st = d.st /\ Settled(d)
                        \/ db'.st = f.st /\ Settled(f)
                        \/ db'.st = s.st /\ Settled(s)
    BY <1>4, <1>5, <1>7, <2>1
  <2> QED
    BY <1>2, <2>2 DEF Settled, EnoughSuccesses, CooledDown
<1>14. /\ d.st.successes <= hist.streak /\ d.mem.successes <= hist.streak
       /\ d.st.failures > 0 => d.st.lastFailure = hist.lastBad
  BY <1>1, <1>2, <1>3
  DEF IInv, Calm, SuccessesWithinStreak, StateHash, Copies, HistType
<1>15. db'.st.failures > 0 => db'.st.lastFailure = hist'.lastBad
  BY <1>4, <1>5, <1>6, <1>14
<1>16. SuccessesWithinStreak'
  BY <1>1, <1>3, <1>4, <1>5, <1>6, <1>14
  DEF SuccessesWithinStreak, StateHash, Copies, HistType
<1>17. hist'.notified <= 1
  BY <1>1, <1>2 DEF IInv, NotifiedAfter
<1>18. (IsOpen /\ db.st.notifyPending)' => hist'.notified = 0
  BY <1>1, <1>2, <1>3, <1>10, <1>11 DEF IInv, NotifiedAfter, IsOpen, StateHash
<1>19. (hist.saves = 0 => ~hist.saved)'
  <2>1. hist.saved \in BOOLEAN /\ hist'.saved \in BOOLEAN
    BY <1>1, <1>2 DEF HistType
  <2> QED
    BY <1>2, <1>4, <2>1 DEF IInv
<1> QED
  BY <1>8, <1>9, <1>12, <1>13, <1>15, <1>16, <1>17, <1>18, <1>19 DEF IInv

\* Marking a notification preserves the invariant: the budget is spent only
\* while a notification is pending, and pending implies that budget is left.
LEMMA MarkNotifyInvariant ==
  ASSUME IInv, MarkNotify
  PROVE  IInv'
<1> DEFINE m == MarkNotification(Loaded)
<1>1. /\ Loaded \in CallData
      /\ Loaded.st = db.st
      /\ db.st \in StateHash
      /\ hist \in HistType
      /\ now \in Nat
  BY LoadedFacts DEF IInv, TypeOK, HistType
<1>2. /\ m \in CallData
      /\ m.st.circuit = db.st.circuit
      /\ m.st.failures = db.st.failures
      /\ m.st.successes = db.st.successes
      /\ m.st.errorType = db.st.errorType
      /\ m.st.lastFailure = db.st.lastFailure
      /\ m.st.totalFailures = db.st.totalFailures
      /\ m.st.notifyPending = FALSE
      /\ m.st.alertCount
           = IF db.st.notifyPending THEN db.st.alertCount + 1 ELSE db.st.alertCount
  <2>1. CASE ~db.st.notifyPending
    BY <1>1, <2>1 DEF MarkNotification, StateHash
  <2>2. CASE db.st.notifyPending
    <3> DEFINE st == [db.st EXCEPT !.lastNotify = now, !.alertCount = @ + 1,
                                   !.notifyPending = FALSE]
    <3>0. db.st.alertCount + 1 \in Nat
      BY <1>1 DEF StateHash
    <3>1. st \in StateHash
      BY <1>1, <3>0 DEF StateHash
    <3>2. m = [Loaded EXCEPT !.st = st]
      BY <1>1, <2>2 DEF MarkNotification
    <3>3. m \in CallData /\ m.st = st
      BY <1>1, <3>1, <3>2 DEF CallData
    <3> QED
      BY <1>1, <2>2, <3>3 DEF StateHash
  <2> QED
    BY <2>1, <2>2
<1>3. /\ db' = Ended(m) /\ opts' = opts /\ now' = now
      /\ hist' \in HistType
      /\ hist'.streak = hist.streak
      /\ hist'.lastBad = hist.lastBad
      /\ hist'.budget = hist.budget
      /\ hist'.saved = hist.saved /\ hist'.saves = hist.saves
      /\ hist'.notified <= 1
  BY <1>1 DEF MarkNotify, IInv, HistType, IsOpen
<1> HIDE DEF m
<1>4. db' \in Database /\ db'.st = m.st
  BY <1>2, <1>3, EndedFacts
<1>5. TypeOK' /\ now' >= Epoch
  BY <1>3, <1>4 DEF IInv, TypeOK, HistType
<1>6. Sound(db)'
  BY <1>1, <1>2, <1>4 DEF IInv, Sound, StateHash
<1>7. Budgeted(db, hist.budget)'
  BY <1>1, <1>2, <1>3, <1>4 DEF IInv, Budgeted, StateHash, HistType
<1>8. (~hist.saved => Settled(db))'
  BY <1>2, <1>3, <1>4 DEF IInv, Settled, EnoughSuccesses, CooledDown
<1>9. /\ db'.st.failures > 0 => db'.st.lastFailure = hist'.lastBad
      /\ SuccessesWithinStreak'
      /\ ~(IsOpen /\ db.st.notifyPending)'
  BY <1>2, <1>3, <1>4 DEF IInv, SuccessesWithinStreak, IsOpen
<1> QED
  BY <1>3, <1>5, <1>6, <1>7, <1>8, <1>9 DEF IInv

\* What happens outside of the script leaves the state hash alone; with other
\* options it exempts the rule until its circuit is updated.
OutsideFrame ==
  /\ db' \in Database /\ db'.st = db.st
  /\ opts' \in Options
  /\ now' \in Nat /\ now' >= now
  /\ hist' \in HistType
  /\ hist'.streak = hist.streak /\ hist'.lastBad = hist.lastBad
  /\ hist'.notified = hist.notified /\ hist'.budget = hist.budget
  /\ \/ hist'.saved /\ hist'.saves > 0
     \/ /\ opts' = opts
        /\ hist'.saved = hist.saved /\ hist'.saves = hist.saves

LEMMA OutsideSteps ==
  ASSUME IInv,
         \/ \E active \in BOOLEAN, state \in RuleStates, options \in Options :
              SaveRule(active, state, options)
         \/ \E id \in AlertIds : DeleteAlert(id)
         \/ Tick
         \/ UNCHANGED vars
  PROVE  OutsideFrame
<1>1. /\ now \in Nat
      /\ db \in Database
      /\ opts \in Options
      /\ hist \in HistType
  BY DEF IInv, TypeOK, HistType
<1>2. <<>> \in Seq(Events)
  OBVIOUS
<1>3. ASSUME NEW active \in BOOLEAN, NEW state \in RuleStates,
             NEW options \in Options, SaveRule(active, state, options)
      PROVE  OutsideFrame
  <2>1. db' \in Database /\ db'.st = db.st
    BY <1>1, <1>2, <1>3 DEF SaveRule, Database
  <2>2. opts' \in Options /\ now' = now
    BY <1>3 DEF SaveRule
  <2>3. \/ opts' = opts /\ hist' = hist
        \/ hist' = [hist EXCEPT !.saved = TRUE, !.saves = @ + 1]
    BY <1>3 DEF SaveRule
  <2>4. hist.saves + 1 \in Nat /\ hist.saves + 1 > 0
    BY <1>1 DEF HistType
  <2>5. CASE opts' = opts /\ hist' = hist
    BY <1>1, <2>1, <2>2, <2>5 DEF OutsideFrame
  <2>6. CASE hist' = [hist EXCEPT !.saved = TRUE, !.saves = @ + 1]
    <3>1. /\ hist' \in HistType
          /\ hist'.streak = hist.streak /\ hist'.lastBad = hist.lastBad
          /\ hist'.notified = hist.notified /\ hist'.budget = hist.budget
          /\ hist'.saved = TRUE /\ hist'.saves > 0
      BY <1>1, <2>4, <2>6 DEF HistType
    <3> QED
      BY <1>1, <2>1, <2>2, <3>1 DEF OutsideFrame
  <2> QED
    BY <2>3, <2>5, <2>6
<1>4. ASSUME NEW id \in AlertIds, DeleteAlert(id)
      PROVE  OutsideFrame
  <2>1. [db.alerts EXCEPT ![id] = "deleted"] \in [AlertIds -> AlertStatuses]
    BY <1>1 DEF Database, AlertStatuses
  <2>2. db' = [db EXCEPT !.alerts = [db.alerts EXCEPT ![id] = "deleted"],
                         !.bus = <<>>]
    BY <1>4 DEF DeleteAlert
  <2>3. db' \in Database /\ db'.st = db.st
    BY <1>1, <1>2, <2>1, <2>2 DEF Database
  <2> QED
    <3>1. UNCHANGED <<opts, now, hist>>
      BY <1>4 DEF DeleteAlert
    <3> QED
      BY <1>1, <2>3, <3>1 DEF OutsideFrame
<1>5. CASE Tick
  BY <1>1, <1>5 DEF Tick, OutsideFrame
<1>6. CASE UNCHANGED vars
  BY <1>1, <1>6 DEF vars, OutsideFrame
<1> QED
  BY <1>3, <1>4, <1>5, <1>6

\* Time passing can only settle the circuit further: a closed circuit that has
\* cooled down stays so.
LEMMA FrameInvariant ==
  ASSUME IInv, OutsideFrame
  PROVE  IInv'
<1>1. /\ Epoch \in Nat /\ now \in Nat /\ now' \in Nat
      /\ db.st \in StateHash
      /\ opts \in AlertOptions
  BY EpochAssumption, OptionFacts DEF IInv, TypeOK, Database, OutsideFrame
<1>2. TypeOK' /\ now' >= Epoch
  BY <1>1 DEF IInv, TypeOK, OutsideFrame, HistType
<1>3. Sound(db)' /\ Budgeted(db, hist.budget)'
  BY DEF IInv, OutsideFrame, Sound, Budgeted
<1>4. (~hist.saved => Settled(db))'
  <2> SUFFICES ASSUME ~hist'.saved PROVE Settled(db)'
    OBVIOUS
  <2>1. opts' = opts /\ ~hist.saved /\ Settled(db) /\ db'.st = db.st
    BY DEF OutsideFrame, IInv
  <2>2. CooledDown(db) => CooledDown(db)'
    BY <1>1, <2>1 DEF CooledDown, OutsideFrame, StateHash, AlertOptions
  <2> QED
    BY <2>1, <2>2 DEF Settled, EnoughSuccesses
<1>5. /\ db'.st.failures > 0 => db'.st.lastFailure = hist'.lastBad
      /\ SuccessesWithinStreak'
      /\ hist'.notified <= 1
      /\ (hist.saves = 0 => ~hist.saved)'
      /\ (IsOpen /\ db.st.notifyPending)' => hist'.notified = 0
  BY DEF IInv, OutsideFrame, SuccessesWithinStreak, IsOpen, HistType
<1> QED
  BY <1>2, <1>3, <1>4, <1>5 DEF IInv

-----------------------------------------------------------------------------
(* The inductive invariant.                                                 *)

\* The hash a rule starts with satisfies the invariant.
LEMMA InitInvariant == Init => IInv
<1> SUFFICES ASSUME Init PROVE IInv
  OBVIOUS
<1>1. /\ opts \in Options
      /\ opts \in AlertOptions
      /\ opts.recoveryWindow <= Epoch
      /\ now = Epoch /\ Epoch \in Nat
      /\ hist = [streak |-> 0, lastBad |-> 0, notified |-> 0,
                 budget |-> opts.maxAlertsPerEvent, saved |-> FALSE, saves |-> 0]
  BY OptionsAssumption, EpochAssumption DEF Init
<1>2. EmptyState \in StateHash
  BY DEF EmptyState, StateHash, NoError
<1>3. PICK active \in BOOLEAN :
        db = [rule |-> [isActive |-> active, state |-> "NORMAL"],
              st |-> EmptyState,
              alerts |-> [a \in AlertIds |-> "unused"],
              bus |-> <<>>]
  BY DEF Init
<1>4. /\ db \in Database
      /\ db.st = EmptyState
  <2>1. <<>> \in Seq(Events)
    OBVIOUS
  <2> QED
    BY <1>2, <1>3, <2>1 DEF Database, RuleStates, AlertStatuses
<1>5. /\ db.st.circuit = "CLOSED"
      /\ db.st.failures = 0
      /\ db.st.totalFailures = 0
      /\ db.st.successes = 0
      /\ db.st.lastFailure = 0
      /\ db.st.errorType = NoError
      /\ db.st.alertCount = 0
      /\ db.st.notifyPending = FALSE
  BY <1>4 DEF EmptyState
<1>6. Sound(db) /\ Budgeted(db, hist.budget) /\ Settled(db)
  BY <1>1, <1>5 DEF Sound, Budgeted, Settled, AlertOptions
<1>7. TypeOK
  BY <1>1, <1>4 DEF TypeOK, AlertOptions
<1> QED
  BY <1>1, <1>5, <1>6, <1>7 DEF IInv, SuccessesWithinStreak, IsOpen

\* A call that counts no result is one of five; each is calm.
LEMMA CallsAreCalm ==
  ASSUME IInv
  PROVE  /\ StartRule => CalmCall(Start(Loaded), ~db.st.isStarted)
         /\ StopRule => CalmCall(Stop(Loaded), db.st.isStarted)
         /\ Clear => CalmCall(ClearState(Loaded), TRUE)
         /\ QueryState => CalmCall(UpdateCircuit(Loaded), TRUE)
         /\ \A id \in AlertIds, level \in ErrorLevels :
              Alert(id, level) => CalmCall(WriteAlert(Loaded, id, level), FALSE)
<1>1. TypeOK /\ now >= Epoch /\ Fresh(Loaded) /\ Loaded.st = db.st
  BY LoadedFacts DEF IInv
<1>2. StartRule => CalmCall(Start(Loaded), ~db.st.isStarted)
  BY <1>1, StartCalm DEF StartRule, CalmCall
<1>3. StopRule => CalmCall(Stop(Loaded), db.st.isStarted)
  BY <1>1, StopCalm DEF StopRule, CalmCall
<1>4. Clear => CalmCall(ClearState(Loaded), TRUE)
  BY <1>1, ClearStateCalm DEF Clear, CalmCall
<1>5. QueryState => CalmCall(UpdateCircuit(Loaded), TRUE)
  BY <1>1, UpdateCircuitCalm DEF QueryState, CalmCall
<1>6. ASSUME NEW id \in AlertIds, NEW level \in ErrorLevels, Alert(id, level)
      PROVE  CalmCall(WriteAlert(Loaded, id, level), FALSE)
  BY <1>1, <1>6, WriteAlertCalm DEF Alert, CalmCall
<1> QED
  BY <1>2, <1>3, <1>4, <1>5, <1>6

\* Every step preserves the invariant.
LEMMA StepInvariant == IInv /\ [Next]_vars => IInv'
<1> SUFFICES ASSUME IInv, [Next]_vars PROVE IInv'
  OBVIOUS
<1>1. ASSUME NEW level \in ErrorLevels, Check(level)
      PROVE  IInv'
  BY <1>1, CheckInvariant
<1>2. CASE StartRule
  BY <1>2, CallsAreCalm, CallInvariant
<1>3. CASE StopRule
  BY <1>3, CallsAreCalm, CallInvariant
<1>4. CASE Clear
  BY <1>4, CallsAreCalm, CallInvariant
<1>5. CASE QueryState
  BY <1>5, CallsAreCalm, CallInvariant
<1>6. ASSUME NEW id \in AlertIds, NEW level \in ErrorLevels, Alert(id, level)
      PROVE  IInv'
  BY <1>6, CallsAreCalm, CallInvariant
<1>7. CASE MarkNotify
  BY <1>7, MarkNotifyInvariant
<1>8. CASE \/ \E active \in BOOLEAN, state \in RuleStates, options \in Options :
                SaveRule(active, state, options)
           \/ \E id \in AlertIds : DeleteAlert(id)
           \/ Tick
           \/ UNCHANGED vars
  BY <1>8, OutsideSteps, FrameInvariant
<1> QED
  BY <1>1, <1>2, <1>3, <1>4, <1>5, <1>6, <1>7, <1>8 DEF Next

\* IInv holds in every reachable state, for all options and alert ids.
THEOREM Invariance == Spec => []IInv
BY InitInvariant, StepInvariant, PTL DEF Spec

\* Every variable has its type in every reachable state.
THEOREM TypeCorrectness == Spec => []TypeOK
<1>1. IInv => TypeOK
  BY DEF IInv
<1> QED
  BY <1>1, Invariance, PTL

\* Whatever the calls and their order, once a rule with a threshold has been
\* updated by the options it has, it is open exactly while its counter of
\* violations has reached the threshold, short of a recovery.
THEOREM BreakerMatchesCounter == Spec => []OpenIffThresholdReached
<1>1. IInv => OpenIffThresholdReached
  BY DEF IInv, Settled, OpenIffThresholdReached, IsOpen
<1> QED
  BY <1>1, Invariance, PTL

\* No field about the last violation outlives the failures it belongs to,
\* whatever options are saved.
THEOREM ViolationRecord == Spec => []ViolationRecordConsistent
<1>1. IInv => ViolationRecordConsistent
  BY DEF IInv, Sound, ViolationRecordConsistent
<1> QED
  BY <1>1, Invariance, PTL

\* The successes held for a recovery all follow the last violation.
THEOREM SuccessesAreRecent == Spec => []SuccessesWithinStreak
<1>1. IInv => SuccessesWithinStreak
  BY DEF IInv
<1> QED
  BY <1>1, Invariance, PTL

\* The budget in force when the circuit last changed holds in every reachable
\* state, whatever is saved later, and no period of an open circuit is notified
\* twice.
THEOREM NotificationBudget == Spec => []NotificationsWithinBudget
<1>1. IInv => NotificationsWithinBudget
  BY DEF IInv, Budgeted, NotificationsWithinBudget
<1> QED
  BY <1>1, Invariance, PTL

-----------------------------------------------------------------------------
(* What a single step may do to the circuit.                                *)

TripsOnViolation ==
  ~hist.saved /\ opts.failureThreshold > 0 /\ Trips => CountsViolation

StaysOpenOnViolation ==
  ~hist.saved /\ IsOpen /\ db.st.isStarted /\ CountsViolation => IsOpen'

RecoversByRight ==
  ~hist.saved /\ Recovers =>
    \/ /\ hist'.streak >= opts.successThreshold
       /\ hist'.streak > 0
    \/ /\ opts.recoveryWindow > 0
       /\ now - hist.lastBad >= opts.recoveryWindow

StepByRight == TripsOnViolation /\ StaysOpenOnViolation /\ RecoversByRight

\* A circuit that cooled down did so since the last violation.
LEMMA CooledSinceLastBad ==
  ASSUME IInv, NEW d, Settled(d), d.st.circuit = "OPEN",
         d.st.failures > 0 => db.st.failures > 0
                              /\ d.st.lastFailure = db.st.lastFailure,
         CooledDown(d)
  PROVE  opts.recoveryWindow > 0 /\ now - hist.lastBad >= opts.recoveryWindow
BY DEF CooledDown, Settled, IInv

\* A calm call neither trips a settled rule with a threshold nor counts a
\* violation, and closes only a circuit that cooled down.
LEMMA CallCircuit ==
  ASSUME IInv, NEW e, NEW updates, CalmCall(e, updates)
  PROVE  StepByRight
<1>1. /\ Calm(Loaded, e)
      /\ Loaded.st = db.st
      /\ ~hist.saved => Settled(Loaded)
      /\ db'.st = e.st
      /\ db.st \in StateHash /\ e.st \in StateHash
  BY LoadedFacts, EndedFacts DEF CalmCall, Call, Calm, CallData
<1>2. ~CountsViolation
  BY <1>1 DEF CountsViolation, Calm, StateHash
<1>3. TripsOnViolation
  BY <1>1 DEF TripsOnViolation, Trips, IsOpen, Calm, StateHash
<1>4. RecoversByRight
  <2> SUFFICES ASSUME ~hist.saved, Recovers
               PROVE  /\ opts.recoveryWindow > 0
                      /\ now - hist.lastBad >= opts.recoveryWindow
    BY DEF RecoversByRight
  <2>1. Loaded.st.circuit = "OPEN" /\ CooledDown(Loaded) /\ Settled(Loaded)
    BY <1>1 DEF Recovers, IsOpen, Calm, StateHash
  <2> QED
    BY <1>1, <2>1, CooledSinceLastBad
<1> QED
  BY <1>2, <1>3, <1>4 DEF StaysOpenOnViolation, StepByRight

\* A check trips only on a violation, keeps an open circuit on a violation,
\* and recovers only by right.
LEMMA CheckCircuit ==
  ASSUME IInv, NEW level \in ErrorLevels, Check(level)
  PROVE  StepByRight
<1> DEFINE d == Start(Loaded)
           f == UpdateCircuit(HandleFailure(d, level))
           s == UpdateCircuit(HandleSuccess(d))
<1> SUFFICES ASSUME ~hist.saved PROVE StepByRight
  BY DEF StepByRight, TripsOnViolation, StaysOpenOnViolation, RecoversByRight
<1>1. /\ TypeOK /\ now >= Epoch
      /\ Loaded.st = db.st
      /\ Settled(Loaded)
      /\ db.st \in StateHash
      /\ opts \in AlertOptions
      /\ hist.streak \in Nat
  BY LoadedFacts, OptionFacts DEF IInv, TypeOK
<1>2. /\ Calm(Loaded, d)
      /\ d \in CallData /\ Sound(d) /\ CopySound(d) /\ Settled(d)
      /\ d.st \in StateHash
      /\ db'.st \in StateHash
  BY <1>1, CheckFacts DEF Calm, CallData, Database
<1>3. /\ opts.failureThreshold > 0 /\ db.st.circuit = "CLOSED"
           => d.st.circuit = "CLOSED"
      /\ db.st.circuit = "OPEN" /\ d.st.circuit = "CLOSED"
           => CooledDown(Loaded)
      /\ d.st.totalFailures = db.st.totalFailures
      /\ d.st.successes <= db.st.successes
      /\ d.st.failures > 0 => /\ db.st.failures > 0
                              /\ d.st.lastFailure = db.st.lastFailure
      /\ d.st.circuit = db.st.circuit => Agrees(d)
      /\ db.st.isStarted => d.st.circuit = db.st.circuit
  BY <1>1, <1>2, StartedOnce DEF Calm
<1>4. \/ db'.st = d.st
      \/ db'.st = f.st
      \/ db'.st = s.st /\ hist'.streak = hist.streak + 1
  BY CheckFacts
<1>5. /\ f.st.totalFailures = d.st.totalFailures + 1
      /\ d.st.circuit = "OPEN" /\ Agrees(d) => f.st.circuit = "OPEN"
  BY <1>1, <1>2, FailureCounted
<1>6. /\ s.st.totalFailures = d.st.totalFailures
      /\ Agrees(d) =>
           /\ opts.failureThreshold > 0 /\ d.st.circuit = "CLOSED"
                => s.st.circuit = "CLOSED"
           /\ d.st.circuit = "OPEN" /\ s.st.circuit = "CLOSED"
                => \/ CooledDown(d)
                   \/ /\ d.st.successes + 1 >= opts.successThreshold
                      /\ d.st.successes + 1 > 0
  BY <1>1, <1>2, SuccessCounted
<1> HIDE DEF d, f, s
<1>7. TripsOnViolation
  BY <1>1, <1>2, <1>3, <1>4, <1>5, <1>6
  DEF TripsOnViolation, Trips, CountsViolation, IsOpen, StateHash
<1>8. StaysOpenOnViolation
  BY <1>1, <1>2, <1>3, <1>4, <1>5, <1>6
  DEF StaysOpenOnViolation, CountsViolation, IsOpen, StateHash
<1>9. RecoversByRight
  <2> SUFFICES ASSUME db.st.circuit = "OPEN", db'.st.circuit = "CLOSED"
               PROVE  \/ /\ hist'.streak >= opts.successThreshold
                         /\ hist'.streak > 0
                      \/ /\ opts.recoveryWindow > 0
                         /\ now - hist.lastBad >= opts.recoveryWindow
    BY <1>2 DEF RecoversByRight, Recovers, IsOpen, StateHash
  <2>1. CASE d.st.circuit = "CLOSED"
    BY <1>1, <1>3, <2>1, CooledSinceLastBad
  <2>2. CASE d.st.circuit = "OPEN"
    <3>1. db'.st = s.st /\ hist'.streak = hist.streak + 1
      BY <1>3, <1>4, <1>5, <2>2
    <3>2. CASE CooledDown(d)
      BY <1>2, <1>3, <2>2, <3>2, CooledSinceLastBad
    <3>3. CASE /\ d.st.successes + 1 >= opts.successThreshold
               /\ d.st.successes + 1 > 0
      BY <1>1, <1>2, <1>3, <3>1, <3>3
      DEF IInv, SuccessesWithinStreak, StateHash, AlertOptions
    <3> QED
      BY <1>3, <1>6, <2>2, <3>1, <3>2, <3>3
  <2> QED
    BY <1>2, <2>1, <2>2 DEF StateHash
<1> QED
  BY <1>7, <1>8, <1>9 DEF StepByRight

\* Every step keeps to the three.
LEMMA StepCircuit == IInv /\ [Next]_vars => StepByRight
<1> SUFFICES ASSUME IInv, [Next]_vars PROVE StepByRight
  OBVIOUS
<1>1. ASSUME NEW level \in ErrorLevels, Check(level)
      PROVE  StepByRight
  BY <1>1, CheckCircuit
<1>2. CASE StartRule
  BY <1>2, CallsAreCalm, CallCircuit
<1>3. CASE StopRule
  BY <1>3, CallsAreCalm, CallCircuit
<1>4. CASE Clear
  BY <1>4, CallsAreCalm, CallCircuit
<1>5. CASE QueryState
  BY <1>5, CallsAreCalm, CallCircuit
<1>6. ASSUME NEW id \in AlertIds, NEW level \in ErrorLevels, Alert(id, level)
      PROVE  StepByRight
  BY <1>6, CallsAreCalm, CallCircuit
<1>7. CASE db'.st.circuit = db.st.circuit
  BY <1>7 DEF StepByRight, TripsOnViolation, StaysOpenOnViolation,
     RecoversByRight, Trips, Recovers, IsOpen
<1>8. CASE MarkNotify
  <2>1. db.st \in StateHash /\ Loaded.st = db.st /\ Loaded \in CallData
    BY LoadedFacts
  <2>2. MarkNotification(Loaded).st.circuit = db.st.circuit
    BY <2>1 DEF MarkNotification, StateHash, CallData
  <2> QED
    BY <1>7, <1>8, <2>2 DEF MarkNotify, Ended
<1> QED
  BY <1>1, <1>2, <1>3, <1>4, <1>5, <1>6, <1>7, <1>8, OutsideSteps
  DEF Next, OutsideFrame

\* Nothing but a violation opens the circuit of a rule that has a threshold,
\* unless options are saved that it was not yet updated by.
THEOREM OnlyViolations == Spec => OnlyViolationsTrip
<1>1. IInv /\ [Next]_vars => TripsOnViolation
  BY StepCircuit DEF StepByRight
<1> QED
  BY <1>1, Invariance, PTL
  DEF Spec, OnlyViolationsTrip, TripsOnViolation

\* A violation never closes the open circuit of a started rule, under the
\* options that the circuit was last updated by.
THEOREM ViolationsKeepOpen == Spec => ViolationKeepsOpen
<1>1. IInv /\ [Next]_vars => StaysOpenOnViolation
  BY StepCircuit DEF StepByRight
<1> QED
  BY <1>1, Invariance, PTL
  DEF Spec, ViolationKeepsOpen, StaysOpenOnViolation

\* A circuit recovers by enough good results in a row or a quiet recovery
\* window, whatever the order of checks, starts, stops, queries and clears; the
\* first update after a save of other options may recover it otherwise.
THEOREM RecoveryByRight == Spec => RecoveryIsEarned
<1>1. IInv /\ [Next]_vars => RecoversByRight
  BY StepCircuit DEF StepByRight
<1> QED
  BY <1>1, Invariance, PTL DEF Spec, RecoveryIsEarned, RecoversByRight

-----------------------------------------------------------------------------
(***************************************************************************)
(* Proofs about the alerts of a rule: what a call of                       *)
(* src/src/server/commands/rules-4.lua closes is announced, and a recovery *)
(* leaves no alert of the circuit open.  Both follow from a relation       *)
(* between the keys before and after that each local function of the       *)
(* script keeps, and that is transitive.                                   *)
(***************************************************************************)

\* The events of d include the reset of the alert a.
Announced(d, a) ==
  \E i \in DOMAIN d.bus : d.bus[i] = [event |-> "alert.reset", data |-> a]

\* What was emitted for d is emitted for e.
KeepsEvents(d, e) ==
  \A i \in DOMAIN d.bus : i \in DOMAIN e.bus /\ e.bus[i] = d.bus[i]

\* e has the alerts of d, but for those that it closes, and announces.
ClosesAloud(d, e) ==
  \A a \in AlertIds :
    \/ e.alerts[a] = d.alerts[a]
    \/ /\ d.alerts[a] \in {"open", "CLOSED"} /\ e.alerts[a] = "CLOSED"
       /\ Announced(e, a)

\* The circuit's alert is forgotten only when it is not open any more, and
\* always when the circuit recovers.
ForgetsClosed(d, e) ==
  /\ e.st.alertId \in {d.st.alertId, NoAlert}
  /\ d.st.circuit = "OPEN" /\ e.st.circuit = "CLOSED" => e.st.alertId = NoAlert
  /\ d.st.alertId # NoAlert /\ e.st.alertId = NoAlert
       => e.alerts[d.st.alertId] # "open"

Tends(d, e) ==
  /\ d \in CallData /\ e \in CallData
  /\ KeepsEvents(d, e) /\ ClosesAloud(d, e) /\ ForgetsClosed(d, e)

\* Steps of a call compose.
LEMMA TendsTransitive ==
  ASSUME NEW d, NEW e, NEW f, Tends(d, e), Tends(e, f)
  PROVE  Tends(d, f)
<1>1. /\ d \in CallData /\ e \in CallData /\ f \in CallData
      /\ d.st \in StateHash /\ e.st \in StateHash /\ f.st \in StateHash
  BY DEF Tends, CallData
<1>2. KeepsEvents(d, f)
  BY DEF Tends, KeepsEvents
<1>3. ASSUME NEW a \in AlertIds, Announced(e, a)
      PROVE  Announced(f, a)
  BY <1>3 DEF Tends, KeepsEvents, Announced
<1>4. ClosesAloud(d, f)
  <2> SUFFICES ASSUME NEW a \in AlertIds
               PROVE  \/ f.alerts[a] = d.alerts[a]
                      \/ /\ d.alerts[a] \in {"open", "CLOSED"} /\ f.alerts[a] = "CLOSED"
                         /\ Announced(f, a)
    BY DEF ClosesAloud
  <2>1. CASE f.alerts[a] = e.alerts[a]
    BY <2>1, <1>3 DEF Tends, ClosesAloud
  <2>2. CASE /\ e.alerts[a] \in {"open", "CLOSED"} /\ f.alerts[a] = "CLOSED"
             /\ Announced(f, a)
    BY <2>2 DEF Tends, ClosesAloud
  <2> QED
    BY <2>1, <2>2 DEF Tends, ClosesAloud
<1>5. ASSUME NEW a \in AlertIds, e.alerts[a] # "open"
      PROVE  f.alerts[a] # "open"
  BY <1>5 DEF Tends, ClosesAloud
<1>6. ForgetsClosed(d, f)
  <2>1. d.st.alertId \in AlertIds \cup {NoAlert}
    BY <1>1 DEF StateHash
  <2>2. e.st.circuit \in {"OPEN", "CLOSED"}
    BY <1>1 DEF StateHash
  <2>3. /\ e.st.alertId \in {d.st.alertId, NoAlert}
        /\ f.st.alertId \in {e.st.alertId, NoAlert}
    BY DEF Tends, ForgetsClosed
  <2>4. ASSUME d.st.circuit = "OPEN", f.st.circuit = "CLOSED"
        PROVE  f.st.alertId = NoAlert
    BY <2>2, <2>3, <2>4 DEF Tends, ForgetsClosed
  <2>5. ASSUME d.st.alertId # NoAlert, f.st.alertId = NoAlert
        PROVE  f.alerts[d.st.alertId] # "open"
    <3>1. CASE e.st.alertId = NoAlert
      BY <2>1, <2>5, <3>1, <1>5 DEF Tends, ForgetsClosed
    <3>2. CASE e.st.alertId # NoAlert
      BY <2>3, <2>5, <3>2 DEF Tends, ForgetsClosed
    <3> QED
      BY <3>1, <3>2
  <2> QED
    BY <2>3, <2>4, <2>5 DEF ForgetsClosed
<1> QED
  BY <1>1, <1>2, <1>4, <1>6 DEF Tends

\* A change of the state hash alone that keeps circuit and alert.
LEMMA TendsSameAlert ==
  ASSUME NEW d \in CallData, NEW e \in CallData,
         e.bus = d.bus, e.alerts = d.alerts,
         e.st.alertId = d.st.alertId,
         d.st.circuit = "OPEN" => e.st.circuit = "OPEN"
  PROVE  Tends(d, e)
BY DEF Tends, KeepsEvents, ClosesAloud, ForgetsClosed

\* An event is emitted behind those that were.
LEMMA EmitEventKeeps ==
  ASSUME NEW d \in CallData, NEW n \in EventNames,
         NEW x \in RuleStates \cup AlertIds
  PROVE  LET e == EmitEvent(d, n, x)
             k == Len(d.bus) + 1
         IN /\ KeepsEvents(d, e)
            /\ k \in DOMAIN e.bus
            /\ e.bus[k] = [event |-> n, data |-> x]
<1> DEFINE e == EmitEvent(d, n, x)
           r == [event |-> n, data |-> x]
           k == Len(d.bus) + 1
<1>1. d.bus \in Seq(Events)
  BY DEF CallData
<1>2. r \in Events
  BY DEF Events
<1>3. e.bus = Append(d.bus, r)
  BY DEF EmitEvent, CallData
<1>4. /\ Len(e.bus) = k
      /\ \A i \in 1..Len(d.bus) : e.bus[i] = d.bus[i]
      /\ e.bus[k] = r
      /\ e.bus \in Seq(Events)
  BY <1>1, <1>2, <1>3
<1>5. Len(d.bus) \in Nat /\ DOMAIN d.bus = 1..Len(d.bus) /\ DOMAIN e.bus = 1..k
  BY <1>1, <1>4
<1> QED
  BY <1>4, <1>5 DEF KeepsEvents

\* Of the rule's state only (updateRuleState)
LEMMA UpdateRuleStateTends ==
  ASSUME NEW d \in CallData, NEW s \in RuleStates
  PROVE  Tends(d, UpdateRuleState(d, s))
<1> DEFINE c == [d EXCEPT !.rule.state = s]
<1>1. /\ c \in CallData
      /\ c.st = d.st /\ c.alerts = d.alerts /\ c.bus = d.bus
  BY DEF CallData
<1>2. "rule.state-changed" \in EventNames
  BY DEF EventNames
<1>3. KeepsEvents(c, EmitEvent(c, "rule.state-changed", s))
  BY <1>1, <1>2, EmitEventKeeps
<1>4. KeepsEvents(d, UpdateRuleState(d, s))
  BY <1>1, <1>3 DEF UpdateRuleState, KeepsEvents
<1>5. /\ UpdateRuleState(d, s) \in CallData
      /\ UpdateRuleState(d, s).st = d.st
      /\ UpdateRuleState(d, s).alerts = d.alerts
  BY UpdateRuleStateType
<1> QED
  BY <1>4, <1>5 DEF Tends, ClosesAloud, ForgetsClosed

\* resetAlert closes the circuit's alert and announces it; the state hash, and
\* with it the id, stays.
LEMMA ResetAlertTends ==
  ASSUME NEW d \in CallData
  PROVE  /\ Tends(d, ResetAlert(d))
         /\ d.st.alertId # NoAlert => ResetAlert(d).alerts[d.st.alertId] # "open"
<1> DEFINE id == d.st.alertId
           c == [d EXCEPT !.alerts[id] = "CLOSED"]
           r == EmitEvent(c, "alert.reset", id)
<1>1. ResetAlert(d) \in CallData /\ ResetAlert(d).st = d.st
  BY ResetAlertType
<1>2. CASE id # NoAlert /\ d.alerts[id] \in {"open", "CLOSED"}
  <2>1. id \in AlertIds
    BY <1>2 DEF CallData, StateHash
  <2>2. /\ c \in CallData
        /\ c.st = d.st /\ c.bus = d.bus
        /\ c.alerts = [d.alerts EXCEPT ![id] = "CLOSED"]
    BY <2>1 DEF CallData, AlertStatuses
  <2>3. "alert.reset" \in EventNames
    BY DEF EventNames
  <2>4. /\ KeepsEvents(c, r)
        /\ Announced(r, id)
    BY <2>1, <2>2, <2>3, EmitEventKeeps DEF Announced
  <2>5. r.alerts = c.alerts
    BY <2>1, <2>2, <2>3, EmitEventType
  <2>6. ResetAlert(d) = r
    BY <1>2 DEF ResetAlert
  <2>7. d.alerts \in [AlertIds -> AlertStatuses]
    BY DEF CallData
  <2> HIDE DEF c, r
  <2>8. KeepsEvents(d, r)
    BY <2>2, <2>4 DEF KeepsEvents
  <2>9. \A a \in AlertIds : a # id => r.alerts[a] = d.alerts[a]
    BY <2>2, <2>5, <2>7
  <2>10. r.alerts[id] = "CLOSED"
    BY <2>1, <2>2, <2>5, <2>7
  <2>11. ClosesAloud(d, r)
    BY <1>2, <2>4, <2>9, <2>10 DEF ClosesAloud
  <2> QED
    BY <1>1, <2>6, <2>8, <2>10, <2>11 DEF Tends, ForgetsClosed
<1>3. CASE ~(id # NoAlert /\ d.alerts[id] \in {"open", "CLOSED"})
  <2>1. ResetAlert(d) = d
    BY <1>3 DEF ResetAlert
  <2> QED
    BY <1>3, <2>1, TendsSameAlert
<1> QED
  BY <1>2, <1>3

\* updateCircuit: an opened circuit keeps its alert id, a closed one forgets
\* the alert it has just reset.
LEMMA UpdateCircuitTends ==
  ASSUME TypeOK, NEW d \in CallData
  PROVE  Tends(d, UpdateCircuit(d))
<1>0. d.st \in StateHash
  BY DEF CallData
<1>1. CASE UpdateCircuit(d) = d
  BY <1>1, TendsSameAlert
<1>2. CASE UpdateCircuit(d) = OpenCircuit(d) /\ d.st.circuit = "CLOSED"
  <2> DEFINE e == IF d.st.errorType = NoError THEN "WARNING" ELSE d.st.errorType
             u == UpdateRuleState(d, e)
             o == OpenCircuit(d)
  <2>1. e \in RuleStates
    BY <1>0 DEF StateHash, RuleStates, NoError
  <2>2. Tends(d, u) /\ u \in CallData
    BY <2>1, UpdateRuleStateTends, UpdateRuleStateType
  <2>3. o \in CallData
    BY OpenCircuitType
  <2>4. /\ o.alerts = u.alerts /\ o.bus = u.bus
        /\ o.st.alertId = d.st.alertId
    BY <1>0, <2>2 DEF OpenCircuit, CallData, StateHash
  <2> HIDE DEF e, u, o
  <2>5. Tends(d, o)
    BY <1>2, <2>2, <2>3, <2>4 DEF Tends, KeepsEvents, ClosesAloud, ForgetsClosed,
       Announced
  <2> QED
    BY <1>2, <2>5 DEF o
<1>3. CASE UpdateCircuit(d) = CloseCircuit(d)
  <2> DEFINE r == ResetAlert(d)
             u == UpdateRuleState(r, "NORMAL")
             c == CloseCircuit(d)
  <2>1. r \in CallData /\ "NORMAL" \in RuleStates
    BY ResetAlertType DEF RuleStates
  <2>2. /\ Tends(d, r)
        /\ d.st.alertId # NoAlert => r.alerts[d.st.alertId] # "open"
    BY ResetAlertTends
  <2>3. Tends(r, u) /\ u \in CallData /\ u.alerts = r.alerts
    BY <2>1, UpdateRuleStateTends, UpdateRuleStateType
  <2>4. c \in CallData
    BY CloseCircuitType
  <2>5. /\ c.alerts = u.alerts /\ c.bus = u.bus
        /\ c.st.alertId = NoAlert
    BY <2>3 DEF CloseCircuit, CallData, EmptyState
  <2> HIDE DEF r, u, c
  <2>6. Tends(d, u)
    BY <2>2, <2>3, TendsTransitive
  <2>7. Tends(d, c)
    BY <2>2, <2>3, <2>4, <2>5, <2>6 DEF Tends, KeepsEvents, ClosesAloud,
       ForgetsClosed, Announced
  <2> QED
    BY <1>3, <2>7 DEF c
<1> QED
  BY <1>0, <1>1, <1>2, <1>3 DEF UpdateCircuit, StateHash

LEMMA ClearStateTends ==
  ASSUME TypeOK, NEW d \in CallData
  PROVE  Tends(d, ClearState(d))
<1>1. Tends(d, ResetAlert(d)) /\ ResetAlert(d) \in CallData
  BY ResetAlertTends, ResetAlertType
<1> QED
  BY <1>1, UpdateCircuitTends, TendsTransitive DEF ClearState

LEMMA StartTends ==
  ASSUME TypeOK, NEW d \in CallData
  PROVE  Tends(d, Start(d))
<1>0. d.st \in StateHash /\ now \in Nat
  BY DEF CallData, TypeOK
<1>1. CASE d.st.isStarted
  BY <1>1, TendsSameAlert DEF Start
<1>2. CASE ~d.st.isStarted
  <2> DEFINE s == [d EXCEPT !.st.isStarted = TRUE]
             c == ClearState(s)
             w == [c EXCEPT !.st.warmupStart = now]
  <2>1. /\ s \in CallData
        /\ s.bus = d.bus /\ s.alerts = d.alerts
        /\ s.st.alertId = d.st.alertId /\ s.st.circuit = d.st.circuit
    BY <1>0 DEF CallData, StateHash
  <2>2. Tends(d, s)
    BY <2>1, TendsSameAlert
  <2>3. Tends(s, c)
    BY <2>1, ClearStateTends
  <2>4. c \in CallData /\ c.st \in StateHash
    BY <2>3 DEF Tends, CallData
  <2> HIDE DEF c
  <2>5. /\ w \in CallData
        /\ w.bus = c.bus /\ w.alerts = c.alerts
        /\ w.st.alertId = c.st.alertId /\ w.st.circuit = c.st.circuit
    BY <1>0, <2>4 DEF CallData, StateHash
  <2>6. Tends(c, w)
    BY <2>4, <2>5, TendsSameAlert
  <2>7. Tends(d, w)
    BY <2>2, <2>3, <2>6, TendsTransitive
  <2> USE DEF c
  <2>8. Start(d) = w
    BY <1>2 DEF Start
  <2> QED
    BY <2>7, <2>8
<1> QED
  BY <1>1, <1>2

LEMMA StopTends ==
  ASSUME TypeOK, NEW d \in CallData
  PROVE  Tends(d, Stop(d))
<1>0. d.st \in StateHash
  BY DEF CallData
<1>1. CASE ~d.st.isStarted
  BY <1>1, TendsSameAlert DEF Stop
<1>2. CASE d.st.isStarted
  <2> DEFINE s == [d EXCEPT !.st.isStarted = FALSE]
  <2>1. /\ s \in CallData
        /\ s.bus = d.bus /\ s.alerts = d.alerts
        /\ s.st.alertId = d.st.alertId /\ s.st.circuit = d.st.circuit
    BY <1>0 DEF CallData, StateHash
  <2>2. Tends(d, s) /\ Tends(s, ClearState(s))
    BY <2>1, TendsSameAlert, ClearStateTends
  <2> QED
    BY <1>2, <2>2, TendsTransitive DEF Stop
<1> QED
  BY <1>1, <1>2

LEMMA CheckNotifyTends ==
  ASSUME TypeOK, NEW d \in CallData, NEW level \in ErrorLevels
  PROVE  Tends(d, CheckNotify(d, level))
<1> DEFINE s == HandleSuccess(d)
           f == HandleFailure(d, level)
<1>0. d.st \in StateHash /\ d.mem \in Copies /\ now \in Nat
  BY DEF CallData, TypeOK
<1> DEFINE n == d.mem.successes + 1
<1>a. /\ [d.st EXCEPT !.successes = n] \in StateHash
      /\ [d.mem EXCEPT !.successes = n] \in Copies
  BY <1>0 DEF StateHash, Copies
<1>b. /\ s \in CallData
      /\ s.st = [d.st EXCEPT !.successes = n]
      /\ s.bus = d.bus /\ s.alerts = d.alerts
  BY <1>a DEF HandleSuccess, CallData
<1>1. /\ s \in CallData
      /\ s.bus = d.bus /\ s.alerts = d.alerts
      /\ s.st.alertId = d.st.alertId /\ s.st.circuit = d.st.circuit
  BY <1>0, <1>b DEF StateHash
<1>2. RuleStateOf(level) \in {"WARNING", "ERROR"}
  BY DEF RuleStateOf
<1> DEFINE st == [d.st EXCEPT !.errorType = RuleStateOf(level),
                              !.lastFailure = now,
                              !.failures = d.mem.failures + 1,
                              !.successes = 0,
                              !.totalFailures = @ + 1]
           mem == [d.mem EXCEPT !.failures = d.mem.failures + 1, !.successes = 0]
<1>c. st \in StateHash /\ mem \in Copies
  <2>1. /\ d.mem.failures + 1 \in Nat
        /\ d.st.totalFailures + 1 \in Nat
        /\ RuleStateOf(level) \in {NoError, "WARNING", "ERROR"}
    BY <1>0, <1>2 DEF StateHash, Copies
  <2> QED
    BY <1>0, <2>1 DEF StateHash, Copies
<1>d. f = [d EXCEPT !.st = st, !.mem = mem]
  BY DEF HandleFailure
<1>e. /\ f \in CallData
      /\ f.st = st
      /\ f.bus = d.bus /\ f.alerts = d.alerts
  BY <1>c, <1>d DEF CallData
<1>3. /\ f \in CallData
      /\ f.bus = d.bus /\ f.alerts = d.alerts
      /\ f.st.alertId = d.st.alertId /\ f.st.circuit = d.st.circuit
  BY <1>0, <1>e DEF StateHash
<1> HIDE DEF s, f, st, mem, n
<1>4. Tends(d, d)
  BY TendsSameAlert
<1>5. Tends(d, UpdateCircuit(s))
  BY <1>1, TendsSameAlert, UpdateCircuitTends, TendsTransitive
<1>6. Tends(d, UpdateCircuit(f))
  BY <1>3, TendsSameAlert, UpdateCircuitTends, TendsTransitive
<1> QED
  BY <1>4, <1>5, <1>6 DEF CheckNotify, s, f

-----------------------------------------------------------------------------
(* Steps.                                                                   *)

\* What a step does to the alerts
StepAnnounces ==
  \A a \in AlertIds :
    db.alerts[a] = "open" /\ db'.alerts[a] = "CLOSED" => Announced(db', a)

StepForgets ==
  Recovers => /\ db'.st.alertId = NoAlert
              /\ db.st.alertId # NoAlert => db'.alerts[db.st.alertId] # "open"

\* A call of the script that is made of steps as above
LEMMA TendingCall ==
  ASSUME IInv, NEW e, db' = Ended(e), Tends(Loaded, e)
  PROVE  StepAnnounces /\ StepForgets
<1>1. /\ e \in CallData /\ e.st \in StateHash
      /\ Loaded.st = db.st /\ db.st \in StateHash
  BY LoadedFacts DEF Tends, CallData
<1>2. /\ Loaded.alerts = db.alerts
      /\ db'.alerts = e.alerts /\ db'.st = e.st /\ db'.bus = e.bus
  BY <1>1, LoadedFacts, EndedFacts
<1>3. StepAnnounces
  <2> SUFFICES ASSUME NEW a \in AlertIds,
                      db.alerts[a] = "open", db'.alerts[a] = "CLOSED"
               PROVE  Announced(db', a)
    BY DEF StepAnnounces
  <2>1. Announced(e, a)
    BY <1>2 DEF Tends, ClosesAloud
  <2> QED
    BY <1>2, <2>1 DEF Announced
<1>4. StepForgets
  BY <1>1, <1>2 DEF StepForgets, Recovers, IsOpen, Tends, ForgetsClosed, StateHash
<1> QED
  BY <1>3, <1>4

\* A step that closes neither the circuit nor an alert
LEMMA OtherStep ==
  ASSUME ~Recovers,
         \A a \in AlertIds : db'.alerts[a] = db.alerts[a] \/ db'.alerts[a] # "CLOSED"
  PROVE  StepAnnounces /\ StepForgets
BY DEF StepAnnounces, StepForgets

\* The call that writes an alert changes the status of that alert only.
LEMMA AlertWritten ==
  ASSUME IInv, NEW id \in AlertIds, NEW level \in ErrorLevels, Alert(id, level)
  PROVE  /\ db'.alerts = [db.alerts EXCEPT ![id] = "open"]
         /\ db'.st.circuit = db.st.circuit
<1> DEFINE a == [Loaded EXCEPT !.st.alertId = id, !.alerts[id] = "open"]
           e == EmitEvent(a, "alert.triggered", id)
           w == WriteAlert(Loaded, id, level)
<1>1. /\ Loaded \in CallData /\ Loaded.st = db.st /\ db.st \in StateHash
      /\ Loaded.alerts = db.alerts /\ db.alerts \in [AlertIds -> AlertStatuses]
  BY LoadedFacts DEF IInv, TypeOK, Database
<1>2. /\ a \in CallData
      /\ a.st.circuit = db.st.circuit
      /\ a.alerts = [db.alerts EXCEPT ![id] = "open"]
  BY <1>1 DEF CallData, StateHash, AlertStatuses
<1>3. "alert.triggered" \in EventNames /\ RuleStateOf(level) \in RuleStates
  BY DEF EventNames, RuleStateOf, RuleStates
<1> HIDE DEF a
<1>4. e \in CallData /\ e.st = a.st /\ e.alerts = a.alerts
  BY <1>2, <1>3, EmitEventType
<1> HIDE DEF e
<1>5. /\ UpdateRuleState(e, RuleStateOf(level)).st = e.st
      /\ UpdateRuleState(e, RuleStateOf(level)).alerts = e.alerts
  BY <1>3, <1>4, UpdateRuleStateType
<1>6. w = IF level = "NONE" THEN e ELSE UpdateRuleState(e, RuleStateOf(level))
  BY DEF WriteAlert, a, e
<1>7. w.st.circuit = db.st.circuit /\ w.alerts = [db.alerts EXCEPT ![id] = "open"]
  BY <1>2, <1>4, <1>5, <1>6
<1>8. db' = Ended(w)
  BY DEF Alert, Call
<1> QED
  BY <1>7, <1>8 DEF Ended

\* A new alert closes nothing.
LEMMA AlertStep ==
  ASSUME IInv, NEW id \in AlertIds, NEW level \in ErrorLevels, Alert(id, level)
  PROVE  StepAnnounces /\ StepForgets
<1>1. db.alerts \in [AlertIds -> AlertStatuses]
  BY DEF IInv, TypeOK, Database
<1>2. \A x \in AlertIds : db'.alerts[x] = db.alerts[x] \/ db'.alerts[x] # "CLOSED"
  BY <1>1, AlertWritten
<1>3. ~Recovers
  BY AlertWritten DEF Recovers, IsOpen
<1> QED
  BY <1>2, <1>3, OtherStep

\* Neither do a mark and what happens outside of the script.
LEMMA OutsideStep ==
  ASSUME IInv,
         \/ MarkNotify
         \/ \E active \in BOOLEAN, state \in RuleStates, options \in Options :
              SaveRule(active, state, options)
         \/ \E id \in AlertIds : DeleteAlert(id)
         \/ Tick
         \/ UNCHANGED vars
  PROVE  StepAnnounces /\ StepForgets
<1>1. /\ Loaded \in CallData /\ Loaded.st = db.st /\ db.st \in StateHash
      /\ Loaded.alerts = db.alerts /\ db.alerts \in [AlertIds -> AlertStatuses]
      /\ db \in Database
  BY LoadedFacts DEF IInv, TypeOK, Database
<1>2. CASE MarkNotify
  <2>1. db' = Ended(MarkNotification(Loaded))
    BY <1>2 DEF MarkNotify
  <2>2. /\ MarkNotification(Loaded).st.circuit = db.st.circuit
        /\ MarkNotification(Loaded).alerts = db.alerts
    BY <1>1 DEF MarkNotification, CallData, StateHash
  <2>3. db'.st.circuit = db.st.circuit /\ db'.alerts = db.alerts
    BY <2>1, <2>2 DEF Ended
  <2> QED
    BY <2>3, OtherStep DEF Recovers, IsOpen
<1>3. ASSUME NEW active \in BOOLEAN, NEW state \in RuleStates,
             NEW options \in Options, SaveRule(active, state, options)
      PROVE  StepAnnounces /\ StepForgets
  <2>1. db'.st = db.st /\ db'.alerts = db.alerts
    BY <1>1, <1>3 DEF SaveRule, Database
  <2> QED
    BY <2>1, OtherStep DEF Recovers, IsOpen
<1>4. ASSUME NEW id \in AlertIds, DeleteAlert(id)
      PROVE  StepAnnounces /\ StepForgets
  <2>1. /\ db'.st = db.st
        /\ db'.alerts = [db.alerts EXCEPT ![id] = "deleted"]
    BY <1>1, <1>4 DEF DeleteAlert, Database
  <2>2. \A x \in AlertIds : db'.alerts[x] = db.alerts[x] \/ db'.alerts[x] # "CLOSED"
    BY <1>1, <2>1
  <2> QED
    BY <2>1, <2>2, OtherStep DEF Recovers, IsOpen
<1>5. CASE Tick \/ UNCHANGED vars
  <2>1. db' = db
    BY <1>5 DEF Tick, vars
  <2> QED
    BY <2>1, OtherStep DEF Recovers, IsOpen
<1> QED
  BY <1>2, <1>3, <1>4, <1>5

LEMMA StepAlerts == IInv /\ [Next]_vars => StepAnnounces /\ StepForgets
<1> SUFFICES ASSUME IInv, [Next]_vars
             PROVE  StepAnnounces /\ StepForgets
  OBVIOUS
<1>1. TypeOK /\ Loaded \in CallData
  BY LoadedFacts DEF IInv
<1>2. ASSUME NEW d, NEW updates, Call(d, updates), Tends(Loaded, d)
      PROVE  StepAnnounces /\ StepForgets
  BY <1>2, TendingCall DEF Call
<1>3. ASSUME NEW level \in ErrorLevels, Check(level)
      PROVE  StepAnnounces /\ StepForgets
  <2>1. Tends(Loaded, Start(Loaded)) /\ Start(Loaded) \in CallData
    BY <1>1, StartTends DEF Tends
  <2>2. Tends(Start(Loaded), CheckNotify(Start(Loaded), level))
    BY <1>1, <2>1, CheckNotifyTends
  <2>3. db' = Ended(CheckNotify(Start(Loaded), level))
    BY <1>3 DEF Check
  <2>4. Tends(Loaded, CheckNotify(Start(Loaded), level))
    BY <2>1, <2>2, TendsTransitive
  <2> QED
    BY <2>3, <2>4, TendingCall
<1>4. CASE StartRule
  BY <1>1, <1>2, <1>4, StartTends DEF StartRule
<1>5. CASE StopRule
  BY <1>1, <1>2, <1>5, StopTends DEF StopRule
<1>6. CASE Clear
  BY <1>1, <1>2, <1>6, ClearStateTends DEF Clear
<1>7. CASE QueryState
  BY <1>1, <1>2, <1>7, UpdateCircuitTends DEF QueryState
<1> QED
  BY <1>3, <1>4, <1>5, <1>6, <1>7, AlertStep, OutsideStep DEF Next

\* An alert that a call of the script closes is announced by that call, as a
\* reset on the bus: neither emitEvent nor any later part of the script drops it.
THEOREM ResetsAnnounced == Spec => ResetsAreAnnounced
<1>1. IInv /\ [Next]_vars => StepAnnounces
  BY StepAlerts
<1> QED
  BY <1>1, Invariance, PTL
  DEF Spec, ResetsAreAnnounced, StepAnnounces, Announced

\* A circuit that recovers forgets its alert and does not leave it open.
THEOREM RecoveryClosesItsAlert == Spec => RecoveryClosesAlert
<1>1. IInv /\ [Next]_vars => StepForgets
  BY StepAlerts
<1> QED
  BY <1>1, Invariance, PTL DEF Spec, RecoveryClosesAlert, StepForgets
=============================================================================
