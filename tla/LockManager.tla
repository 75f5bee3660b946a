---------------------------- MODULE LockManager ----------------------------
(***************************************************************************)
(* The election of the one server that writes for a host:                  *)
(* src/src/server/redis/lock-manager.ts.  Each server has a LockManager,   *)
(* an object of a single-threaded JavaScript program: what it does between *)
(* two awaits is one action.  Its calls of redlock are commands on its own *)
(* connection to one Redis, which executes and answers them in order.      *)
(*                                                                         *)
(* Time is relative: the key, every lease and every timer count down to 0, *)
(* and a timer that is due fires at any later time (a busy event loop).    *)
(* Redlock is external and modelled from its use: lock() and extend() try  *)
(* a command several times, and count an answer as a success only if the   *)
(* lease that began when the command was sent has not run out.             *)
(***************************************************************************)
EXTENDS Naturals, Sequences, FiniteSets

CONSTANTS
  Managers,    \* the LockManagers
  NoManager,   \* the holder of a free lease
  Serials,     \* bound: locks a manager can be involved in at a time
  NoLock,      \* null
  Ttl,         \* ttl of the key
  Lease,       \* ttl less the clock drift redlock allows for
  RenewTime,   \* interval of renewals
  WaitTime,    \* pause before the next election
  Stoppable,   \* the managers that may be stopped
  KeyMayVanish,\* whether the key can be deleted by others, or lost by Redis
  MaxCalls,    \* bound: calls of lock() and extend() under way in a manager,
  MaxAllCalls, \*   and in all of them
  MaxFaults    \* bound: stops, crashes, losses of the key and overwritten timers in a run

ASSUME TimesAssumption ==
  /\ Ttl \in Nat /\ Lease \in Nat /\ RenewTime \in Nat /\ WaitTime \in Nat
  /\ 0 < Lease /\ Lease < Ttl
\* ttl 10000 and renew 8000, whatever the options say (the defaults overwrite them): a
\* renewal that finds the one before it unanswered finds an expired lock.
ASSUME RenewAssumption == Lease <= 2 * RenewTime
ASSUME ManagersAssumption == NoManager \notin Managers /\ Stoppable \subseteq Managers
ASSUME FaultsAssumption == MaxFaults \in Nat

\* The random value of a lock, unique among the locks in use.
Locks == Managers \X Serials
ASSUME NoLockAssumption == NoLock \notin Locks

VARIABLES
  phase,    \* per manager: "new", "started" or "stopped" by its host manager
  lock,     \* per manager: this.lock
  expires,  \* per lock: the time to its expiration; 0 once that has passed
  renewId,  \* per manager: the interval timer of renew()
  electId,  \* per manager: the timer of the next acquire()
  strays,   \* per manager: such timers that were overwritten, which nothing clears
  wire,     \* per manager: its commands on the way to and from Redis
  retries,  \* per manager: commands redlock will send again
  key,      \* Redis: the value of the lock key
  ttl,      \* Redis: the time the key has left
  faults    \* bound: stops, crashes, losses of the key and overwritten timers so far

local == <<phase, lock, renewId, electId, strays>>
vars == <<phase, lock, expires, renewId, electId, strays, wire, retries, key, ttl, faults>>

-----------------------------------------------------------------------------
NoTimer == [on |-> FALSE, left |-> 0]
Timer(time) == [on |-> TRUE, left |-> time]
Due(timer) == timer.on /\ timer.left = 0

\* lock and extend are redlock's calls; unlockRenew and unlockRelease the
\* unlock() calls in renew() and release(); undoLock and undoExtend redlock's
\* own unlocking of a success that came too late.
Ops == {"lock", "extend", "unlockRenew", "unlockRelease", "undoLock", "undoExtend"}
Command(op, l) == [op |-> op, lock |-> l, reply |-> "none",
                    left |-> IF op \in {"lock", "extend"} THEN Lease ELSE 0]

isOwner(m) == lock[m] # NoLock

Pending(m, ops) ==
  \/ \E i \in DOMAIN wire[m] : wire[m][i].op \in ops
  \/ \E r \in retries[m] : r.op \in ops

Releasing(m) == Pending(m, {"unlockRenew", "unlockRelease"})

\* The locks of the calls of lock() and extend() that have not resolved.
UnderWay(m) == {wire[m][i].lock : i \in DOMAIN wire[m]} \cup {r.lock : r \in retries[m]}

InUse(m) == {lock[m], key} \cup UnderWay(m)

MayCall(m) ==
  /\ Cardinality(UnderWay(m)) < MaxCalls
  /\ Cardinality(UNION {UnderWay(n) : n \in Managers}) < MaxAllCalls

\* w is what the connection of m carries otherwise.
SendOn(w, m, op, l) == wire' = [wire EXCEPT ![m] = Append(w, Command(op, l))]

clearTimers(m) ==
  /\ renewId' = [renewId EXCEPT ![m] = NoTimer]
  /\ electId' = [electId EXCEPT ![m] = NoTimer]

\* clearTimers(); setElectTimeout()
electLater(m) ==
  /\ renewId' = [renewId EXCEPT ![m] = NoTimer]
  /\ electId' = [electId EXCEPT ![m] = Timer(WaitTime)]

Invalidate(l) == expires' = [expires EXCEPT ![l] = 0]

-----------------------------------------------------------------------------
(* Calls of the host manager, and timers.                                   *)

Init ==
  /\ phase = [m \in Managers |-> "new"]
  /\ lock = [m \in Managers |-> NoLock]
  /\ expires = [l \in Locks |-> 0]
  /\ renewId = [m \in Managers |-> NoTimer]
  /\ electId = [m \in Managers |-> NoTimer]
  /\ strays = [m \in Managers |-> 0]
  /\ wire = [m \in Managers |-> <<>>]
  /\ retries = [m \in Managers |-> {}]
  /\ key = NoLock
  /\ ttl = 0
  /\ faults = 0

\* acquire(), up to its await
Acquire(m) ==
  IF isOwner(m) THEN wire' = wire
  ELSE \E s \in Serials :
         /\ <<m, s>> \notin InUse(m)
         /\ \A s2 \in Serials : s2 < s => <<m, s2>> \in InUse(m)
         /\ SendOn(wire[m], m, "lock", <<m, s>>)

\* HostManager.init() starts its manager, once.
Start(m) ==
  /\ phase[m] = "new"
  /\ phase' = [phase EXCEPT ![m] = "started"]
  /\ Acquire(m)
  /\ UNCHANGED <<lock, expires, renewId, electId, strays, retries, key, ttl, faults>>

\* stop() and release(), up to the await of unlock()
Stop(m) ==
  /\ m \in Stoppable
  /\ faults < MaxFaults
  /\ faults' = faults + 1
  /\ phase[m] = "started"
  /\ phase' = [phase EXCEPT ![m] = "stopped"]
  /\ clearTimers(m)
  /\ IF isOwner(m)
       THEN SendOn(wire[m], m, "unlockRelease", lock[m]) /\ Invalidate(lock[m])
       ELSE UNCHANGED <<wire, expires>>
  /\ UNCHANGED <<lock, strays, retries, key, ttl>>

\* Mutant: a timeout in place of the interval.
RenewOnce(m) ==
  /\ Due(renewId[m])
  /\ \/ /\ isOwner(m) /\ expires[lock[m]] > 0
        /\ MayCall(m)
        /\ renewId' = [renewId EXCEPT ![m] = NoTimer]
        /\ SendOn(wire[m], m, "extend", lock[m])
        /\ UNCHANGED <<lock, electId>>
     \/ /\ isOwner(m) => expires[lock[m]] = 0
        /\ lock' = [lock EXCEPT ![m] = NoLock]
        /\ electLater(m)
        /\ UNCHANGED wire
  /\ UNCHANGED <<phase, strays, expires, retries, key, ttl, faults>>

\* The interval timer: renew(), also while an earlier renewal waits for its answer.
\* Redlock refuses to extend a lock that has expired without asking Redis.
Renew(m) ==
  /\ Due(renewId[m])
  /\ \/ /\ isOwner(m) /\ expires[lock[m]] > 0
        /\ MayCall(m)
        /\ renewId' = [renewId EXCEPT ![m] = Timer(RenewTime)]
        /\ SendOn(wire[m], m, "extend", lock[m])
        /\ UNCHANGED <<lock, electId>>
     \/ /\ isOwner(m) => expires[lock[m]] = 0
        /\ lock' = [lock EXCEPT ![m] = NoLock]
        /\ electLater(m)
        /\ UNCHANGED wire
  /\ UNCHANGED <<phase, strays, expires, retries, key, ttl, faults>>

\* The timer of the next election.
Elect(m) ==
  /\ Due(electId[m])
  /\ MayCall(m)
  /\ electId' = [electId EXCEPT ![m] = NoTimer]
  /\ Acquire(m)
  /\ UNCHANGED <<phase, strays, lock, expires, renewId, retries, key, ttl, faults>>

\* A timer of an election that setElectTimeout() overwrote, at some later time.
Stray(m) ==
  /\ strays[m] > 0
  /\ MayCall(m)
  /\ strays' = [strays EXCEPT ![m] = @ - 1]
  /\ Acquire(m)
  /\ UNCHANGED <<phase, lock, expires, renewId, electId, retries, key, ttl, faults>>

-----------------------------------------------------------------------------
(* Redis.                                                                   *)

\* Redis executes the first command of m that it has not executed.
Execute(m) ==
  \E i \in DOMAIN wire[m] :
    /\ wire[m][i].reply = "none"
    /\ \A j \in 1..(i - 1) : wire[m][j].reply # "none"
    /\ LET l == wire[m][i].lock
           op == wire[m][i].op
           done == IF op = "lock" THEN key = NoLock ELSE key = l
       IN /\ wire' = [wire EXCEPT ![m][i].reply = IF done THEN "ok" ELSE "no"]
          /\ IF ~done THEN UNCHANGED <<key, ttl>>
             ELSE IF op \in {"lock", "extend"} THEN key' = l /\ ttl' = Ttl
             ELSE key' = NoLock /\ ttl' = 0
    /\ UNCHANGED <<local, expires, retries, faults>>

\* Mutant: counts below zero.
TickBelowZero ==
  LET age(timer) == [timer EXCEPT !.left = @ - 1]
  IN /\ ttl' = IF ttl > 0 THEN ttl - 1 ELSE 0
     /\ key' = IF ttl <= 1 THEN NoLock ELSE key
     /\ expires' = [l \in Locks |-> IF expires[l] > 0 THEN expires[l] - 1 ELSE 0]
     /\ renewId' = [m \in Managers |-> age(renewId[m])]
     /\ electId' = [m \in Managers |-> age(electId[m])]
     /\ wire' = [m \in Managers |->
                   [i \in DOMAIN wire[m] |-> age(wire[m][i])]]
     /\ UNCHANGED <<phase, strays, lock, retries, faults>>

\* A pass of time.
Tick ==
  LET less(n) == IF n > 0 THEN n - 1 ELSE 0
      age(timer) == [timer EXCEPT !.left = less(@)]
  IN /\ ttl' = less(ttl)
     /\ key' = IF ttl <= 1 THEN NoLock ELSE key
     /\ expires' = [l \in Locks |-> less(expires[l])]
     /\ renewId' = [m \in Managers |-> age(renewId[m])]
     /\ electId' = [m \in Managers |-> age(electId[m])]
     /\ wire' = [m \in Managers |->
                   [i \in DOMAIN wire[m] |-> age(wire[m][i])]]
     /\ UNCHANGED <<phase, strays, lock, retries, faults>>

-----------------------------------------------------------------------------
(* Answers: what follows the awaits.                                        *)

\* The answer to the first command of m.
Answer(m, op, ok) ==
  /\ wire[m] # <<>>
  /\ Head(wire[m]).op = op
  /\ Head(wire[m]).reply = IF ok THEN "ok" ELSE "no"

InTime(m) == Head(wire[m]).left > 0

\* Mutant: the lease begins with the answer, however late that is.
ElectedFromAnswer(m) ==
  /\ Answer(m, "lock", TRUE)
  /\ LET c == Head(wire[m]) IN
       /\ lock' = [lock EXCEPT ![m] = c.lock]
       /\ expires' = [expires EXCEPT ![c.lock] = Lease]
  /\ renewId' = [renewId EXCEPT ![m] = Timer(RenewTime)]
  /\ electId' = [electId EXCEPT ![m] = NoTimer]
  /\ wire' = [wire EXCEPT ![m] = Tail(@)]
  /\ UNCHANGED <<phase, strays, retries, key, ttl, faults>>

\* lock() resolves: acquire() after its await.
Elected(m) ==
  /\ Answer(m, "lock", TRUE) /\ InTime(m)
  /\ LET c == Head(wire[m]) IN
       /\ lock' = [lock EXCEPT ![m] = c.lock]
       /\ expires' = [expires EXCEPT ![c.lock] = c.left]
  /\ renewId' = [renewId EXCEPT ![m] = Timer(RenewTime)]
  /\ electId' = [electId EXCEPT ![m] = NoTimer]
  /\ wire' = [wire EXCEPT ![m] = Tail(@)]
  /\ UNCHANGED <<phase, strays, retries, key, ttl, faults>>

\* Mutant: the extended lease begins with the answer.
RenewedFromAnswer(m) ==
  /\ Answer(m, "extend", TRUE) /\ InTime(m)
  /\ LET c == Head(wire[m]) IN
       /\ lock' = [lock EXCEPT ![m] = c.lock]
       /\ expires' = [expires EXCEPT ![c.lock] = Lease]
  /\ wire' = [wire EXCEPT ![m] = Tail(@)]
  /\ UNCHANGED <<phase, strays, renewId, electId, retries, key, ttl, faults>>

\* extend() resolves with the lock it was called on: renew() after its await.  The
\* interval may have given that lock up meanwhile.
Renewed(m) ==
  /\ Answer(m, "extend", TRUE) /\ InTime(m)
  /\ LET c == Head(wire[m]) IN
       /\ lock' = [lock EXCEPT ![m] = c.lock]
       /\ expires' = [expires EXCEPT ![c.lock] = c.left]
  /\ wire' = [wire EXCEPT ![m] = Tail(@)]
  /\ UNCHANGED <<phase, strays, renewId, electId, retries, key, ttl, faults>>

\* A success that took too long: redlock unlocks what it got.
TooLate(m) ==
  /\ wire[m] # <<>>
  /\ ~InTime(m)
  /\ LET l == Head(wire[m]).lock IN
       \/ Answer(m, "lock", TRUE) /\ SendOn(Tail(wire[m]), m, "undoLock", l)
       \/ Answer(m, "extend", TRUE) /\ SendOn(Tail(wire[m]), m, "undoExtend", l)
  /\ UNCHANGED <<local, expires, retries, key, ttl, faults>>

\* The attempt of lock() or extend() failed.
LockFailed(m) == Answer(m, "lock", FALSE) \/ \E ok \in BOOLEAN : Answer(m, "undoLock", ok)
ExtendFailed(m) == Answer(m, "extend", FALSE) \/ \E ok \in BOOLEAN : Answer(m, "undoExtend", ok)

\* Redlock will try again after a delay, with the same value.
TryAgain(m) ==
  /\ wire[m] # <<>>
  /\ \/ /\ LockFailed(m)
        /\ retries' = [retries EXCEPT ![m] =
                         @ \cup {[op |-> "lock", lock |-> Head(wire[m]).lock]}]
     \/ /\ ExtendFailed(m)
        /\ retries' = [retries EXCEPT ![m] =
                         @ \cup {[op |-> "extend", lock |-> Head(wire[m]).lock]}]
  /\ wire' = [wire EXCEPT ![m] = Tail(@)]
  /\ UNCHANGED <<local, expires, key, ttl, faults>>

Retry(m) ==
  /\ \E r \in retries[m] :
       /\ retries' = [retries EXCEPT ![m] = @ \ {r}]
       /\ SendOn(wire[m], m, r.op, r.lock)
  /\ UNCHANGED <<local, expires, key, ttl, faults>>

\* Mutant: sets no timer for the next election.
NotElectedEver(m) ==
  /\ LockFailed(m)
  /\ lock' = [lock EXCEPT ![m] = NoLock]
  /\ clearTimers(m)
  /\ wire' = [wire EXCEPT ![m] = Tail(@)]
  /\ UNCHANGED <<phase, strays, expires, retries, key, ttl, faults>>

\* lock() gives up: the catch of acquire().
NotElected(m) ==
  /\ LockFailed(m)
  /\ lock' = [lock EXCEPT ![m] = NoLock]
  /\ electLater(m)
  /\ wire' = [wire EXCEPT ![m] = Tail(@)]
  /\ UNCHANGED <<phase, strays, expires, retries, key, ttl, faults>>

\* extend() gives up: the catch of renew(), up to the await of unlock().  With
\* this.lock null meanwhile, the call throws and is caught.
NotRenewed(m) ==
  /\ ExtendFailed(m)
  /\ IF isOwner(m)
       THEN /\ SendOn(Tail(wire[m]), m, "unlockRenew", lock[m])
            /\ Invalidate(lock[m])
            /\ clearTimers(m)
       ELSE /\ wire' = [wire EXCEPT ![m] = Tail(@)]
            /\ electLater(m)
            /\ UNCHANGED expires
  /\ UNCHANGED <<phase, strays, lock, retries, key, ttl, faults>>

\* The rest of that catch.  setElectTimeout() does not clear the timer it overwrites.
GivenUp(m) ==
  /\ \E ok \in BOOLEAN : Answer(m, "unlockRenew", ok)
  /\ lock' = [lock EXCEPT ![m] = NoLock]
  /\ electId' = [electId EXCEPT ![m] = Timer(WaitTime)]
  /\ IF electId[m].on /\ faults < MaxFaults
       THEN strays' = [strays EXCEPT ![m] = @ + 1] /\ faults' = faults + 1
       ELSE UNCHANGED <<strays, faults>>
  /\ wire' = [wire EXCEPT ![m] = Tail(@)]
  /\ UNCHANGED <<phase, expires, renewId, retries, key, ttl>>

\* The rest of release().
Released(m) ==
  /\ \E ok \in BOOLEAN : Answer(m, "unlockRelease", ok)
  /\ lock' = [lock EXCEPT ![m] = NoLock]
  /\ wire' = [wire EXCEPT ![m] = Tail(@)]
  /\ UNCHANGED <<phase, strays, expires, renewId, electId, retries, key, ttl, faults>>

-----------------------------------------------------------------------------
(* Faults.                                                                  *)

\* The process of m ends and a new one takes its place.  What it sent and
\* Redis had not executed is lost.
Crash(m) ==
  /\ faults < MaxFaults
  /\ faults' = faults + 1
  /\ phase' = [phase EXCEPT ![m] = "new"]
  /\ lock' = [lock EXCEPT ![m] = NoLock]
  /\ clearTimers(m)
  /\ strays' = [strays EXCEPT ![m] = 0]
  /\ wire' = [wire EXCEPT ![m] = <<>>]
  /\ retries' = [retries EXCEPT ![m] = {}]
  /\ expires' = [l \in Locks |-> IF l[1] = m THEN 0 ELSE expires[l]]
  /\ UNCHANGED <<key, ttl>>

\* Somebody deletes the key, or Redis loses it (a restart, an eviction).
KeyLost ==
  /\ KeyMayVanish
  /\ key # NoLock
  /\ faults < MaxFaults
  /\ faults' = faults + 1
  /\ key' = NoLock /\ ttl' = 0
  /\ UNCHANGED <<local, expires, wire, retries>>

Next ==
  \/ Tick
  \/ KeyLost
  \/ \E m \in Managers :
       \/ Start(m) \/ Stop(m) \/ Renew(m) \/ Elect(m) \/ Stray(m)
       \/ Execute(m)
       \/ Elected(m) \/ Renewed(m) \/ TooLate(m) \/ TryAgain(m) \/ Retry(m)
       \/ NotElected(m) \/ NotRenewed(m) \/ GivenUp(m) \/ Released(m)
       \/ Crash(m)

Spec == Init /\ [][Next]_vars

-----------------------------------------------------------------------------
(* Properties.                                                              *)

Timers == [on : BOOLEAN, left : Nat]
Commands == [op : Ops, lock : Locks, reply : {"none", "ok", "no"}, left : Nat]

\* The type of every variable.
TypeOK ==
  /\ phase \in [Managers -> {"new", "started", "stopped"}]
  /\ lock \in [Managers -> Locks \cup {NoLock}]
  /\ expires \in [Locks -> Nat]
  /\ renewId \in [Managers -> Timers]
  /\ electId \in [Managers -> Timers]
  /\ strays \in [Managers -> Nat]
  /\ wire \in [Managers -> Seq(Commands)]
  /\ retries \in [Managers -> SUBSET [op : {"lock", "extend"}, lock : Locks]]
  /\ key \in Locks \cup {NoLock}
  /\ ttl \in Nat
  /\ faults \in 0..MaxFaults

\* m owns the lock within its lease, and has not begun to unlock it.  (While it does,
\* the answer to a renewal sent before can set the expiration of a lock whose key is
\* gone; the answer to the unlock then drops the lock.)
Holds(m) == isOwner(m) /\ expires[lock[m]] > 0 /\ ~Releasing(m)

\* m believes to be the writer although its lease has run out.
Stale(m) == isOwner(m) /\ expires[lock[m]] = 0

holders == {m \in Managers : Holds(m)}

\* The one holder, or none; several are no manager, which no lease allows.
holder ==
  IF holders = {} THEN NoManager
  ELSE IF Cardinality(holders) = 1 THEN CHOOSE m \in Managers : m \in holders
  ELSE holders

L == INSTANCE WriterLease
     WITH Managers <- Managers, NoManager <- NoManager, holder <- holder

\* The election implements the lease: at most one server owns the lock within its
\* lease, however late answers and timers are, and nobody takes over from a holder
\* who has not lost it.
ImplementsLease == L!Spec

\* A lease is backed by the key for at least as long as it lasts.
KeyBacksLease ==
  \A m \in Managers : Holds(m) => key = lock[m] /\ ttl > expires[lock[m]]

-----------------------------------------------------------------------------
(* Liveness.  The event loop runs every timer and callback, Redis answers   *)
(* every command, and redlock gives up after retryCount attempts.           *)

AnyAnswer(m) ==
  \/ Elected(m) \/ Renewed(m) \/ TooLate(m) \/ TryAgain(m)
  \/ NotElected(m) \/ NotRenewed(m) \/ GivenUp(m) \/ Released(m)

Fairness ==
  /\ WF_vars(Tick)
  /\ \A m \in Managers :
       /\ WF_vars(Start(m)) /\ WF_vars(Renew(m)) /\ WF_vars(Elect(m))
       /\ WF_vars(Stray(m))
       /\ WF_vars(Execute(m)) /\ WF_vars(AnyAnswer(m)) /\ WF_vars(Retry(m))
       /\ SF_vars(NotRenewed(m)) /\ SF_vars(NotElected(m))

FairSpec == Spec /\ Fairness

\* Time passes with a command that takes as long as a lease.
Overdue ==
  /\ Tick
  /\ \E m \in Managers : \E i \in DOMAIN wire'[m] : wire'[m][i].left = 0

\* m is the owner and has no interval of renewals, nor is it giving the lock up: a
\* renewal was answered after m had given up the lock.  acquire() returns at once for
\* an owner, so nothing is left that renews the lock or drops it.
Adrift(m) == isOwner(m) /\ ~renewId[m].on /\ phase[m] = "started" /\ ~Releasing(m)

\* Unless commands take as long as a lease again and again, the lock is held
\* again and again, also after the holder crashed or the key was lost, for as long as
\* a server is not adrift.
HeldAgain ==
  \/ []<><<Overdue>>_vars
  \/ []<>(\E m \in Managers : Holds(m))
  \/ <>[](\A m \in Managers : Adrift(m))

\* No server believes for ever to be the writer after its lease ran out, unless it is
\* adrift, which only a renewal answered after the lock was given up makes it.
StaleOwnershipEnds ==
  /\ \A m \in Managers : Stale(m) ~> ~Stale(m) \/ Adrift(m)
  /\ [][\A m \in Managers : Adrift(m)' => Adrift(m) \/ (~isOwner(m) /\ Renewed(m))]_vars
=============================================================================
