-------------------------- MODULE LockManagerProofs ---------------------------
(***************************************************************************)
(* The types of the election and its lease, for any number of servers,      *)
(* locks and faults and any times with Lease <= 2 * RenewTime.              *)
(***************************************************************************)
EXTENDS LockManager, TLAPS, FiniteSetTheorems

-----------------------------------------------------------------------------
(* The types.                                                               *)

Attempts == [op : {"lock", "extend"}, lock : Locks]

\* A command that is sent has its type, and so have the sequences it is sent with.
LEMMA SendType ==
  ASSUME TypeOK, NEW m \in Managers, NEW w \in Seq(Commands), NEW op \in Ops, NEW l \in Locks,
         SendOn(w, m, op, l)
  PROVE  /\ wire' \in [Managers -> Seq(Commands)]
         /\ wire'[m] = Append(w, Command(op, l))
         /\ \A n \in Managers : n # m => wire'[n] = wire[n]
<1>1. Command(op, l) \in Commands
  BY TimesAssumption DEF Command, Commands, Ops
<1>2. Append(w, Command(op, l)) \in Seq(Commands)
  BY <1>1
<1> QED
  BY <1>2 DEF SendOn, TypeOK

\* An answer that is handled leaves the connection.
LEMMA PopType ==
  ASSUME TypeOK, NEW m \in Managers, wire[m] # <<>>
  PROVE  /\ Head(wire[m]) \in Commands
         /\ Head(wire[m]) = wire[m][1] /\ 1 \in DOMAIN wire[m]
         /\ Tail(wire[m]) \in Seq(Commands)
<1>1. wire[m] \in Seq(Commands)
  BY DEF TypeOK
<1> QED
  BY <1>1

LEMMA TimerTypes ==
  /\ NoTimer \in Timers
  /\ Timer(RenewTime) \in Timers /\ Timer(WaitTime) \in Timers
BY TimesAssumption DEF NoTimer, Timer, Timers

LEMMA ClearTypes ==
  ASSUME TypeOK, NEW m \in Managers, clearTimers(m) \/ electLater(m)
  PROVE  renewId' \in [Managers -> Timers] /\ electId' \in [Managers -> Timers]
BY TimerTypes DEF TypeOK, clearTimers, electLater

\* acquire() takes a lock of its own that is not in use.
LEMMA AcquireType ==
  ASSUME TypeOK, NEW m \in Managers, Acquire(m)
  PROVE  wire' \in [Managers -> Seq(Commands)]
<1>1. CASE isOwner(m)
  BY <1>1 DEF Acquire, TypeOK
<1>2. CASE ~isOwner(m)
  <2>1. PICK s \in Serials : SendOn(wire[m], m, "lock", <<m, s>>)
    BY <1>2 DEF Acquire
  <2>2. <<m, s>> \in Locks /\ wire[m] \in Seq(Commands) /\ "lock" \in Ops
    BY DEF Locks, TypeOK, Ops
  <2> QED
    BY <2>1, <2>2, SendType
<1> QED
  BY <1>1, <1>2

\* A command that Redis has executed, and all of them after a pass of time.
LEMMA ExecuteType ==
  ASSUME TypeOK, NEW m \in Managers, NEW i \in DOMAIN wire[m], NEW r \in {"none", "ok", "no"},
         wire' = [wire EXCEPT ![m][i].reply = r]
  PROVE  /\ wire' \in [Managers -> Seq(Commands)]
         /\ \A n \in Managers : n # m => wire'[n] = wire[n]
         /\ wire'[m] = [wire[m] EXCEPT ![i] = [wire[m][i] EXCEPT !.reply = r]]
<1>1. wire[m] \in Seq(Commands) /\ wire[m][i] \in Commands
  BY DEF TypeOK
<1>2. [wire[m][i] EXCEPT !.reply = r] \in Commands
  BY <1>1 DEF Commands
<1>3. [wire[m] EXCEPT ![i] = [wire[m][i] EXCEPT !.reply = r]] \in Seq(Commands)
  BY <1>1, <1>2
<1> QED
  BY <1>3 DEF TypeOK

LEMMA TickType ==
  ASSUME TypeOK, Tick
  PROVE  /\ wire' \in [Managers -> Seq(Commands)]
         /\ ttl' \in Nat /\ expires' \in [Locks -> Nat]
         /\ \A m \in Managers : DOMAIN wire'[m] = DOMAIN wire[m]
         /\ \A m \in Managers : \A i \in DOMAIN wire[m] :
              wire'[m][i] = [wire[m][i] EXCEPT
                               !.left = IF wire[m][i].left > 0 THEN wire[m][i].left - 1 ELSE 0]
         /\ ttl' = IF ttl > 0 THEN ttl - 1 ELSE 0
         /\ \A l \in Locks : expires'[l] = IF expires[l] > 0 THEN expires[l] - 1 ELSE 0
<1> DEFINE less(n) == IF n > 0 THEN n - 1 ELSE 0
           age(t) == [t EXCEPT !.left = less(t.left)]
<1>1. wire' = [m \in Managers |-> [i \in DOMAIN wire[m] |-> age(wire[m][i])]]
  BY DEF Tick
<1>2. ASSUME NEW m \in Managers
      PROVE  [i \in DOMAIN wire[m] |-> age(wire[m][i])] \in Seq(Commands)
  <2>1. wire[m] \in Seq(Commands)
    BY DEF TypeOK
  <2>2. ASSUME NEW i \in DOMAIN wire[m]
        PROVE  age(wire[m][i]) \in Commands
    <3>1. wire[m][i] \in Commands
      BY <2>1
    <3>2. wire[m][i].left \in Nat
      BY <3>1 DEF Commands
    <3>3. less(wire[m][i].left) \in Nat
      BY <3>2
    <3> HIDE DEF less
    <3> QED
      BY <3>1, <3>3 DEF Commands
  <2>3. DOMAIN wire[m] = 1..Len(wire[m]) /\ Len(wire[m]) \in Nat
    BY <2>1
  <2> HIDE DEF age
  <2> QED
    BY <2>2, <2>3
<1>3. ttl' \in Nat /\ expires' \in [Locks -> Nat]
  BY DEF Tick, TypeOK
<1> QED
  BY <1>1, <1>2, <1>3 DEF Tick

\* Every variable has its type in every reachable state.
THEOREM TypeCorrectness == Spec => []TypeOK
<1>1. Init => TypeOK
  BY TimerTypes, FaultsAssumption DEF Init, TypeOK
<1>2. TypeOK /\ [Next]_vars => TypeOK'
  <2> SUFFICES ASSUME TypeOK, [Next]_vars
               PROVE  TypeOK'
    OBVIOUS
  <2>1. CASE UNCHANGED vars
    BY <2>1 DEF vars, TypeOK
  <2>2. CASE Tick
    <3> DEFINE less(n) == IF n > 0 THEN n - 1 ELSE 0
               age(t) == [t EXCEPT !.left = less(t.left)]
    <3>1. /\ renewId' = [m \in Managers |-> age(renewId[m])]
          /\ electId' = [m \in Managers |-> age(electId[m])]
      BY <2>2 DEF Tick
    <3>2. ASSUME NEW t \in Timers
          PROVE  age(t) \in Timers
      <4>1. less(t.left) \in Nat
        BY DEF Timers
      <4> HIDE DEF less
      <4> QED
        BY <4>1 DEF Timers
    <3> HIDE DEF age
    <3>3. renewId' \in [Managers -> Timers] /\ electId' \in [Managers -> Timers]
      BY <3>1, <3>2 DEF TypeOK
    <3> QED
      BY <2>2, <3>3, TickType DEF Tick, TypeOK
  <2>3. CASE KeyLost
    BY <2>3, FaultsAssumption DEF KeyLost, TypeOK, local
  <2>4. ASSUME NEW m \in Managers,
               \/ Start(m) \/ Stop(m) \/ Renew(m) \/ Elect(m) \/ Stray(m)
               \/ Execute(m)
               \/ Elected(m) \/ Renewed(m) \/ TooLate(m) \/ TryAgain(m) \/ Retry(m)
               \/ NotElected(m) \/ NotRenewed(m) \/ GivenUp(m) \/ Released(m)
               \/ Crash(m)
        PROVE  TypeOK'
    <3>0. wire[m] \in Seq(Commands)
      BY DEF TypeOK
    <3>1. CASE Start(m) \/ Stray(m)
      <4>1. strays' \in [Managers -> Nat]
        <5>1. strays[m] > 0 => strays[m] - 1 \in Nat
          BY DEF TypeOK
        <5> QED
          BY <3>1, <5>1 DEF Start, Stray, TypeOK
      <4> QED
        BY <3>1, <4>1, AcquireType DEF Start, Stray, TypeOK
    <3>2. CASE Stop(m)
      <4>1. wire' \in [Managers -> Seq(Commands)] /\ expires' \in [Locks -> Nat]
        <5>1. CASE isOwner(m)
          <6>1. lock[m] \in Locks
            BY <5>1 DEF isOwner, TypeOK
          <6>2. /\ SendOn(wire[m], m, "unlockRelease", lock[m])
                /\ expires' = [expires EXCEPT ![lock[m]] = 0]
            BY <3>2, <5>1 DEF Stop, Invalidate
          <6>3. wire' \in [Managers -> Seq(Commands)]
            BY <3>0, <6>1, <6>2, SendType DEF Ops
          <6> QED
            BY <6>2, <6>3 DEF TypeOK
        <5>2. CASE ~isOwner(m)
          BY <3>2, <5>2 DEF Stop, TypeOK
        <5> QED
          BY <5>1, <5>2
      <4>2. faults' \in 0..MaxFaults
        BY <3>2, FaultsAssumption DEF Stop, TypeOK
      <4>3. renewId' \in [Managers -> Timers] /\ electId' \in [Managers -> Timers]
        BY <3>2, ClearTypes DEF Stop
      <4>4. phase' \in [Managers -> {"new", "started", "stopped"}]
        BY <3>2 DEF Stop, TypeOK
      <4> QED
        BY <3>2, <4>1, <4>2, <4>3, <4>4 DEF Stop, TypeOK
    <3>3. CASE Renew(m)
      <4>1. CASE isOwner(m) /\ SendOn(wire[m], m, "extend", lock[m])
        <5>1. lock[m] \in Locks
          BY <4>1 DEF isOwner, TypeOK
        <5>2. wire' \in [Managers -> Seq(Commands)]
          BY <3>0, <4>1, <5>1, SendType DEF Ops
        <5>3. /\ lock' \in [Managers -> Locks \cup {NoLock}]
              /\ renewId' \in [Managers -> Timers] /\ electId' \in [Managers -> Timers]
          BY ZenonT(60), <3>3, TimerTypes DEF Renew, TypeOK, electLater
        <5> QED
          BY <3>3, <5>2, <5>3 DEF Renew, TypeOK
      <4>2. CASE UNCHANGED wire /\ electLater(m)
        BY <3>3, <4>2, ClearTypes DEF Renew, TypeOK
      <4> QED
        BY <3>3, <4>1, <4>2 DEF Renew
    <3>4. CASE Elect(m)
      BY <3>4, AcquireType, TimerTypes DEF Elect, TypeOK
    <3>5. CASE Execute(m)
      <4>1. PICK i \in DOMAIN wire[m], r \in {"ok", "no"} :
              /\ wire' = [wire EXCEPT ![m][i].reply = r]
              /\ key' \in {key, NoLock, wire[m][i].lock} /\ ttl' \in {ttl, Ttl, 0}
        BY <3>5 DEF Execute
      <4>2. wire' \in [Managers -> Seq(Commands)]
        BY <4>1, ExecuteType
      <4>3. wire[m][i] \in Commands
        BY <3>0
      <4> QED
        <5>1. key' \in Locks \cup {NoLock} /\ ttl' \in Nat
          BY SMTT(30), <4>1, <4>3, TimesAssumption DEF TypeOK, Commands
        <5>2. UNCHANGED <<phase, lock, renewId, electId, strays, expires, retries, faults>>
          BY <3>5 DEF Execute, local
        <5> QED
          BY <4>2, <5>1, <5>2 DEF TypeOK
    <3>6. CASE Elected(m) \/ Renewed(m)
      <4>1. wire[m] # <<>> /\ wire' = [wire EXCEPT ![m] = Tail(wire[m])]
        BY <3>6 DEF Elected, Renewed, Answer
      <4>2. Head(wire[m]).lock \in Locks /\ Head(wire[m]).left \in Nat
        BY <4>1, PopType DEF Commands
      <4>3. wire' \in [Managers -> Seq(Commands)]
        BY <4>1, PopType DEF TypeOK
      <4>4. expires' = [expires EXCEPT ![Head(wire[m]).lock] = Head(wire[m]).left]
        BY <3>6 DEF Elected, Renewed
      <4>5. lock' = [lock EXCEPT ![m] = Head(wire[m]).lock]
        BY <3>6 DEF Elected, Renewed
      <4>6. expires' \in [Locks -> Nat] /\ lock' \in [Managers -> Locks \cup {NoLock}]
        BY <4>2, <4>4, <4>5 DEF TypeOK
      <4>7. renewId' \in [Managers -> Timers] /\ electId' \in [Managers -> Timers]
        BY ZenonT(60), <3>6, TimerTypes DEF Elected, Renewed, TypeOK
      <4>8. UNCHANGED <<phase, strays, retries, key, ttl, faults>>
        BY <3>6 DEF Elected, Renewed
      <4> QED
        BY <4>3, <4>6, <4>7, <4>8 DEF TypeOK
    <3>7. CASE TooLate(m)
      <4>1. wire[m] # <<>>
        BY <3>7 DEF TooLate
      <4>2. Head(wire[m]).lock \in Locks
        BY <4>1, PopType DEF Commands
      <4>3. wire' \in [Managers -> Seq(Commands)]
        BY <3>7, <4>1, <4>2, PopType, SendType DEF TooLate, Ops
      <4> QED
        BY <3>7, <4>3 DEF TooLate, TypeOK, local
    <3>8. CASE TryAgain(m)
      <4>1. wire[m] # <<>>
        BY <3>8 DEF TryAgain
      <4>2. Head(wire[m]).lock \in Locks
        BY <4>1, PopType DEF Commands
      <4>3. retries' \in [Managers -> SUBSET Attempts]
        <5>1. PICK op \in {"lock", "extend"} :
                retries' = [retries EXCEPT ![m] =
                              retries[m] \cup {[op |-> op, lock |-> Head(wire[m]).lock]}]
          BY <3>8 DEF TryAgain
        <5>2. [op |-> op, lock |-> Head(wire[m]).lock] \in Attempts
          BY <4>2 DEF Attempts
        <5>3. retries \in [Managers -> SUBSET Attempts]
          BY DEF TypeOK, Attempts
        <5> QED
          BY <5>1, <5>2, <5>3
      <4> QED
        BY <3>8, <4>1, <4>3, PopType DEF TryAgain, TypeOK, local, Attempts
    <3>9. CASE Retry(m)
      <4>1. PICK r \in retries[m] :
              /\ retries' = [retries EXCEPT ![m] = @ \ {r}]
              /\ SendOn(wire[m], m, r.op, r.lock)
        BY <3>9 DEF Retry
      <4>2. r.op \in Ops /\ r.lock \in Locks
        BY DEF TypeOK, Ops
      <4> QED
        BY <3>0, <3>9, <4>1, <4>2, SendType DEF Retry, TypeOK, local
    <3>10. CASE NotElected(m) \/ GivenUp(m) \/ Released(m)
      <4>1. wire[m] # <<>> /\ wire' = [wire EXCEPT ![m] = Tail(wire[m])]
        BY <3>10 DEF NotElected, GivenUp, Released, LockFailed, Answer
      <4>2. strays' \in [Managers -> Nat] /\ faults' \in 0..MaxFaults
        BY <3>10, FaultsAssumption DEF NotElected, GivenUp, Released, TypeOK
      <4> QED
        BY ZenonT(60), <3>10, <4>1, <4>2, PopType, ClearTypes, TimerTypes DEF NotElected, GivenUp, Released, TypeOK
    <3>11. CASE NotRenewed(m)
      <4>1. wire[m] # <<>>
        BY <3>11 DEF NotRenewed, ExtendFailed, Answer
      <4>2. wire' \in [Managers -> Seq(Commands)] /\ expires' \in [Locks -> Nat]
        <5>1. CASE isOwner(m)
          <6>1. lock[m] \in Locks
            BY <5>1 DEF isOwner, TypeOK
          <6>2. /\ SendOn(Tail(wire[m]), m, "unlockRenew", lock[m])
                /\ expires' = [expires EXCEPT ![lock[m]] = 0]
            BY <3>11, <5>1 DEF NotRenewed, Invalidate
          <6>3. wire' \in [Managers -> Seq(Commands)]
            BY <4>1, <6>1, <6>2, PopType, SendType DEF Ops
          <6> QED
            BY <6>2, <6>3 DEF TypeOK
        <5>2. CASE ~isOwner(m)
          BY <3>11, <4>1, <5>2, PopType DEF NotRenewed, TypeOK
        <5> QED
          BY <5>1, <5>2
      <4> QED
        BY <3>11, <4>2, ClearTypes DEF NotRenewed, TypeOK
    <3>12. CASE Crash(m)
      <4>1. /\ expires' \in [Locks -> Nat] /\ wire' \in [Managers -> Seq(Commands)]
            /\ strays' \in [Managers -> Nat]
        BY <3>12 DEF Crash, TypeOK
      <4> QED
        BY <3>12, <4>1, ClearTypes, FaultsAssumption DEF Crash, TypeOK
    <3> QED
      BY <2>4, <3>1, <3>2, <3>3, <3>4, <3>5, <3>6, <3>7, <3>8, <3>9, <3>10, <3>11, <3>12
  <2> QED
    BY <2>1, <2>2, <2>3, <2>4 DEF Next
<1> QED
  BY <1>1, <1>2, PTL DEF Spec

-----------------------------------------------------------------------------
(***************************************************************************)
(* The lease of the election, for any number of servers, locks and faults  *)
(* and any times with Lease <= 2 * RenewTime, if nobody deletes the key:   *)
(* the key backs it for as long as it lasts, and the election implements   *)
(* WriterLease.                                                            *)
(*                                                                         *)
(* A success whose lease has not run out when it is answered has set the   *)
(* key, and set it for longer; only the server's own unlock can have taken *)
(* it away.  An unlock that is not a release is sent for a lock whose      *)
(* lease is over, and stays so because no other answer on the connection   *)
(* can renew that lock: the lock of an election is in use for nothing      *)
(* else, and a second renewal of a lock finds it expired.  That needs the  *)
(* times: the interval fires again only RenewTime after it sent a renewal, *)
(* and when that one is still unanswered the lease that was left is over   *)
(* (TimeInv).  With a shorter interval a renewal answered late could give  *)
(* a lease back after the undoing of another has unlocked the key.         *)
(***************************************************************************)

Acquires == {"lock", "undoLock"}
Extends == {"extend", "undoExtend"}
Unlocks == {"unlockRenew", "unlockRelease"}

\* w: the commands of a server; rs: those that it will send again.

\* There is one renewal of a lock at a time.
Single(w, rs) ==
  /\ \A i, j \in DOMAIN w :
       w[i].op \in Extends /\ w[j].op \in Extends /\ w[i].lock = w[j].lock => i = j
  /\ \A r \in rs : r.op = "extend" =>
       /\ \A i \in DOMAIN w : w[i].op \in Extends => w[i].lock # r.lock
       /\ \A q \in rs : q.op = "extend" /\ q.lock = r.lock => q = r

\* The lock of an election is neither this.lock nor in another command.
Fresh(w, rs, l) ==
  /\ \A i \in DOMAIN w : w[i].op \in Acquires =>
       /\ w[i].lock # l
       /\ \A j \in DOMAIN w : w[j].lock = w[i].lock => i = j
       /\ \A r \in rs : r.lock # w[i].lock
  /\ \A r \in rs : r.op = "lock" =>
       /\ r.lock # l
       /\ \A j \in DOMAIN w : w[j].lock # r.lock
       /\ \A q \in rs : q.lock = r.lock => q = r

\* A lease does not outlive the one that is asked for, and is over when a success that came
\* too late is undone.
Lapsed(w, ex) ==
  \A i \in DOMAIN w :
    /\ w[i].op = "undoExtend" => ex[w[i].lock] = 0
    /\ w[i].op = "extend" => ex[w[i].lock] <= w[i].left

\* A success in time has the key, unless it is about to be unlocked.
Backed(w, k, t) ==
  \A i \in DOMAIN w :
    w[i].op \in {"lock", "extend"} /\ w[i].reply = "ok" /\ w[i].left > 0 =>
      \/ k = w[i].lock /\ t > w[i].left
      \/ \E j \in DOMAIN w : j > i /\ w[j].op \in Unlocks

\* Redis executes in order.
Ordered(w) == \A i, j \in DOMAIN w : w[i].reply = "none" /\ i < j => w[j].reply = "none"

Own(m) == {m} \X Serials

\* What a server's commands are about.
Owned(m) ==
  /\ lock[m] # NoLock => lock[m] \in Own(m)
  /\ \A i \in DOMAIN wire[m] : wire[m][i].lock \in Own(m) /\ wire[m][i].left <= Lease
  /\ \A r \in retries[m] : r.lock \in Own(m)

Orderly(m) ==
  /\ Single(wire[m], retries[m])
  /\ Fresh(wire[m], retries[m], lock[m])
  /\ Lapsed(wire[m], expires)
  /\ Backed(wire[m], key, ttl)
  /\ Ordered(wire[m])

Backs(m) == Holds(m) => key = lock[m] /\ ttl > expires[lock[m]]

\* The inductive invariant.
LeaseInv ==
  /\ \A l \in Locks : expires[l] <= Lease
  /\ \A m \in Managers : Owned(m) /\ Orderly(m) /\ Backs(m)

\* A renewal of lock l is under way.
Extending(w, rs, l) ==
  \/ \E i \in DOMAIN w : w[i].op \in Extends /\ w[i].lock = l
  \/ \E r \in rs : r.op = "extend" /\ r.lock = l

\* A renewal that can succeed was sent when the interval last fired, or before that.
Prompt(w, k, left) ==
  \A i \in DOMAIN w :
    /\ w[i].op = "extend" /\ w[i].left > 0
    /\ w[i].reply = "ok" \/ (w[i].reply = "none" /\ k = w[i].lock)
    => w[i].left + RenewTime <= Lease + left

\* A lease ends before the interval fires for the second time; before it fires again, if a
\* renewal is under way.
Paced(m) ==
  renewId[m].on =>
    /\ Prompt(wire[m], key, renewId[m].left)
    /\ isOwner(m) =>
         /\ expires[lock[m]] > 0 => expires[lock[m]] + RenewTime <= Lease + renewId[m].left
         /\ Extending(wire[m], retries[m], lock[m]) => expires[lock[m]] <= renewId[m].left

\* A renewal that failed once will not succeed: its lock is gone from the key for good.
Spent(w, rs, k) ==
  /\ \A i \in DOMAIN w :
       /\ w[i].op \in Extends
       /\ w[i].reply = "no" \/ (w[i].op = "undoExtend" /\ w[i].reply = "ok")
       => k # w[i].lock
  /\ \A r \in rs : r.op = "extend" => k # r.lock

\* What keeps two renewals of a lock apart.
TimeInv == \A m \in Managers : Paced(m) /\ Spent(wire[m], retries[m], key)

-----------------------------------------------------------------------------
(* Sequences of commands.                                                   *)

\* What is left of the commands when the first is answered.
LEMMA PopKeeps ==
  ASSUME NEW w \in Seq(Commands), w # <<>>, NEW rs, NEW l, NEW ex, NEW k, NEW t
  PROVE  /\ \A i \in DOMAIN Tail(w) : i + 1 \in DOMAIN w /\ Tail(w)[i] = w[i + 1]
         /\ \A i \in DOMAIN w : i # 1 => i - 1 \in DOMAIN Tail(w) /\ Tail(w)[i - 1] = w[i]
         /\ Single(w, rs) => Single(Tail(w), rs)
         /\ Fresh(w, rs, l) => Fresh(Tail(w), rs, l) /\ Fresh(Tail(w), rs, Head(w).lock)
         /\ Lapsed(w, ex) => Lapsed(Tail(w), ex)
         /\ Backed(w, k, t) => Backed(Tail(w), k, t)
         /\ Ordered(w) => Ordered(Tail(w))
<1> DEFINE v == Tail(w)
<1>1. /\ v \in Seq(Commands) /\ DOMAIN v = 1..Len(v) /\ DOMAIN w = 1..Len(w)
      /\ Len(w) \in Nat /\ Len(v) = Len(w) - 1 /\ Head(w) = w[1] /\ Len(w) > 0
  OBVIOUS
<1>2. \A i \in DOMAIN v : i + 1 \in DOMAIN w /\ v[i] = w[i + 1] /\ i \in Int /\ i + 1 # 1
  BY <1>1
<1>3. \A i \in DOMAIN w : i # 1 => i - 1 \in DOMAIN v /\ v[i - 1] = w[i]
  BY <1>1
<1>4. 1 \in DOMAIN w
  BY <1>1
<1> HIDE DEF v
<1>5. \A i, j \in DOMAIN v : (i + 1 = j + 1 => i = j) /\ (i < j <=> i + 1 < j + 1)
  BY <1>1
<1>6. Single(w, rs) => Single(v, rs)
  BY <1>2, <1>5 DEF Single
<1>7. Fresh(w, rs, l) => Fresh(v, rs, l) /\ Fresh(v, rs, Head(w).lock)
  BY <1>1, <1>2, <1>4, <1>5 DEF Fresh
<1>8. Lapsed(w, ex) => Lapsed(v, ex)
  BY <1>2 DEF Lapsed
<1>9. Backed(w, k, t) => Backed(v, k, t)
  <2> SUFFICES ASSUME Backed(w, k, t), NEW i \in DOMAIN v,
                      v[i].op \in {"lock", "extend"}, v[i].reply = "ok", v[i].left > 0,
                      ~(k = v[i].lock /\ t > v[i].left)
               PROVE  \E j \in DOMAIN v : j > i /\ v[j].op \in Unlocks
    BY DEF Backed
  <2>1. PICK j \in DOMAIN w : j > i + 1 /\ w[j].op \in Unlocks
    BY <1>2 DEF Backed
  <2>2. j - 1 > i /\ j # 1
    BY <1>1, <2>1
  <2> QED
    BY <1>3, <2>1, <2>2
<1>10. Ordered(w) => Ordered(v)
  BY <1>2, <1>5 DEF Ordered
<1> QED
  BY <1>2, <1>3, <1>6, <1>7, <1>8, <1>9, <1>10 DEF v

\* What another command adds to the commands that are under way.
LEMMA PushKeeps ==
  ASSUME NEW w \in Seq(Commands), NEW op \in Ops, NEW l \in Locks
  PROVE  LET c == Command(op, l)
             v == Append(w, c)
         IN /\ v \in Seq(Commands) /\ Len(w) + 1 \in Int
            /\ \A i \in DOMAIN w : i \in DOMAIN v /\ v[i] = w[i] /\ i \in Int /\ i < Len(w) + 1
            /\ \A i \in DOMAIN v : i \in DOMAIN w \/ i = Len(w) + 1
            /\ Len(w) + 1 \in DOMAIN v /\ v[Len(w) + 1] = c
            /\ c.op = op /\ c.lock = l /\ c.reply = "none" /\ c.left <= Lease
            /\ op \in {"lock", "extend"} => c.left = Lease
<1> DEFINE c == Command(op, l)
           v == Append(w, c)
<1>1. /\ c.op = op /\ c.lock = l /\ c.reply = "none" /\ c.left <= Lease
      /\ op \in {"lock", "extend"} => c.left = Lease
      /\ c \in Commands
  BY TimesAssumption DEF Command, Commands
<1> HIDE DEF c
<1>2. /\ v \in Seq(Commands) /\ DOMAIN v = 1..(Len(w) + 1) /\ DOMAIN w = 1..Len(w)
      /\ Len(w) \in Nat /\ v[Len(w) + 1] = c
      /\ \A i \in DOMAIN w : v[i] = w[i]
  BY <1>1
<1> HIDE DEF v
<1>3. /\ \A i \in DOMAIN w : i \in DOMAIN v /\ i \in Int /\ i < Len(w) + 1
      /\ \A i \in DOMAIN v : i \in DOMAIN w \/ i = Len(w) + 1
      /\ Len(w) + 1 \in DOMAIN v /\ Len(w) + 1 \in Int
  BY <1>2
<1> QED
  BY <1>1, <1>2, <1>3 DEF c, v

LEMMA PushBacked ==
  ASSUME NEW w \in Seq(Commands), NEW op \in Ops, NEW l \in Locks, NEW k, NEW t,
         Backed(w, k, t), Ordered(w)
  PROVE  Backed(Append(w, Command(op, l)), k, t) /\ Ordered(Append(w, Command(op, l)))
<1> DEFINE v == Append(w, Command(op, l))
           c == Command(op, l)
<1>1. /\ \A i \in DOMAIN w : i \in DOMAIN v /\ v[i] = w[i] /\ i \in Int /\ i < Len(w) + 1
      /\ \A i \in DOMAIN v : i \in DOMAIN w \/ i = Len(w) + 1
      /\ Len(w) + 1 \in DOMAIN v /\ v[Len(w) + 1] = c /\ c.reply = "none"
      /\ Len(w) + 1 \in Int
  BY PushKeeps
<1> HIDE DEF v, c
<1>2. Backed(v, k, t)
  BY <1>1 DEF Backed
<1>3. Ordered(v)
  BY <1>1 DEF Ordered
<1> QED
  BY <1>2, <1>3 DEF v, c

LEMMA PushSingle ==
  ASSUME NEW w \in Seq(Commands), NEW op \in Ops, NEW l \in Locks, NEW rs,
         Single(w, rs),
         op \in Extends => /\ \A i \in DOMAIN w : w[i].op \in Extends => w[i].lock # l
                           /\ \A r \in rs : r.op = "extend" => r.lock # l
  PROVE  Single(Append(w, Command(op, l)), rs)
<1> DEFINE v == Append(w, Command(op, l))
           c == Command(op, l)
<1>1. /\ \A i \in DOMAIN w : i \in DOMAIN v /\ v[i] = w[i]
      /\ \A i \in DOMAIN v : i \in DOMAIN w \/ i = Len(w) + 1
      /\ Len(w) + 1 \in DOMAIN v /\ v[Len(w) + 1] = c /\ c.op = op /\ c.lock = l
  BY PushKeeps
<1> HIDE DEF v, c
<1>2. Single(v, rs)
  BY <1>1 DEF Single
<1> QED
  BY <1>2 DEF v, c

LEMMA PushFresh ==
  ASSUME NEW w \in Seq(Commands), NEW op \in Ops, NEW l \in Locks, NEW rs, NEW lk,
         Fresh(w, rs, lk),
         op \in Acquires => /\ l # lk
                            /\ \A i \in DOMAIN w : w[i].lock # l
                            /\ \A r \in rs : r.lock # l,
         op \notin Acquires => /\ \A i \in DOMAIN w : w[i].op \in Acquires => w[i].lock # l
                               /\ \A r \in rs : r.op = "lock" => r.lock # l
  PROVE  Fresh(Append(w, Command(op, l)), rs, lk)
<1> DEFINE v == Append(w, Command(op, l))
           c == Command(op, l)
<1>1. /\ \A i \in DOMAIN w : i \in DOMAIN v /\ v[i] = w[i] /\ i \in Int /\ i < Len(w) + 1
      /\ \A i \in DOMAIN v : i \in DOMAIN w \/ i = Len(w) + 1
      /\ Len(w) + 1 \in DOMAIN v /\ v[Len(w) + 1] = c /\ c.op = op /\ c.lock = l
      /\ Len(w) + 1 \in Int
  BY PushKeeps
<1> HIDE DEF v, c
<1>2. ASSUME NEW i \in DOMAIN v, v[i].op \in Acquires
      PROVE  /\ v[i].lock # lk
             /\ \A j \in DOMAIN v : v[j].lock = v[i].lock => i = j
             /\ \A r \in rs : r.lock # v[i].lock
  BY <1>1, <1>2 DEF Fresh
<1>3. ASSUME NEW r \in rs, r.op = "lock"
      PROVE  /\ r.lock # lk
             /\ \A j \in DOMAIN v : v[j].lock # r.lock
             /\ \A q \in rs : q.lock = r.lock => q = r
  BY <1>1, <1>3 DEF Fresh, Acquires
<1>4. Fresh(v, rs, lk)
  BY <1>2, <1>3 DEF Fresh
<1> QED
  BY <1>4 DEF v, c

LEMMA PushLapsed ==
  ASSUME NEW w \in Seq(Commands), NEW op \in Ops, NEW l \in Locks, NEW ex,
         Lapsed(w, ex),
         op = "undoExtend" => ex[l] = 0,
         op = "extend" => ex[l] <= Lease
  PROVE  Lapsed(Append(w, Command(op, l)), ex)
<1> DEFINE v == Append(w, Command(op, l))
           c == Command(op, l)
<1>1. /\ \A i \in DOMAIN w : i \in DOMAIN v /\ v[i] = w[i]
      /\ \A i \in DOMAIN v : i \in DOMAIN w \/ i = Len(w) + 1
      /\ v[Len(w) + 1] = c /\ c.op = op /\ c.lock = l /\ (op = "extend" => c.left = Lease)
  BY PushKeeps
<1> HIDE DEF v, c
<1>2. Lapsed(v, ex)
  BY <1>1 DEF Lapsed
<1> QED
  BY <1>2 DEF v, c

\* An answer that a server tries again for.
LEMMA RetryKeeps ==
  ASSUME NEW w \in Seq(Commands), w # <<>>, NEW rs, NEW lk, NEW op \in {"lock", "extend"},
         op = "lock" => Head(w).op \in Acquires,
         op = "extend" => Head(w).op \in Extends,
         Single(w, rs), Fresh(w, rs, lk),
         NEW r, r = [op |-> op, lock |-> Head(w).lock]
  PROVE  Single(Tail(w), rs \cup {r}) /\ Fresh(Tail(w), rs \cup {r}, lk)
<1>1. r.op = op /\ r.lock = Head(w).lock
  OBVIOUS
<1>2. /\ Head(w) = w[1] /\ 1 \in DOMAIN w
      /\ \A i \in DOMAIN Tail(w) : /\ i + 1 \in DOMAIN w /\ Tail(w)[i] = w[i + 1]
                                   /\ i + 1 # 1 /\ i \in Int
  <2>1. \A i \in DOMAIN Tail(w) : i \in Int /\ i + 1 # 1
    OBVIOUS
  <2> QED
    BY <2>1, PopKeeps
<1>3. \A i, j \in DOMAIN Tail(w) : i + 1 = j + 1 => i = j
  BY <1>2
<1>4. Single(Tail(w), rs \cup {r})
  BY <1>1, <1>2, <1>3 DEF Single, Extends
<1>5. Fresh(Tail(w), rs \cup {r}, lk)
  <2>1. ASSUME NEW i \in DOMAIN Tail(w), Tail(w)[i].op \in Acquires
        PROVE  /\ Tail(w)[i].lock # lk
               /\ \A j \in DOMAIN Tail(w) : Tail(w)[j].lock = Tail(w)[i].lock => i = j
               /\ \A q \in rs \cup {r} : q.lock # Tail(w)[i].lock
    BY <1>1, <1>2, <1>3, <2>1 DEF Fresh
  <2>2. ASSUME NEW q \in rs \cup {r}, q.op = "lock"
        PROVE  /\ q.lock # lk
               /\ \A j \in DOMAIN Tail(w) : Tail(w)[j].lock # q.lock
               /\ \A p \in rs \cup {r} : p.lock = q.lock => p = q
    BY <1>1, <1>2, <1>3, <2>2 DEF Fresh, Acquires
  <2> QED
    BY <2>1, <2>2 DEF Fresh
<1> QED
  BY <1>4, <1>5

\* What does not depend on answers and times.
LEMMA AlikeKeeps ==
  ASSUME NEW w, NEW v, DOMAIN v = DOMAIN w, NEW rs, NEW lk, NEW ex,
         \A i \in DOMAIN w : v[i].op = w[i].op /\ v[i].lock = w[i].lock
  PROVE  /\ Single(w, rs) => Single(v, rs)
         /\ Fresh(w, rs, lk) => Fresh(v, rs, lk)
<1>1. Single(w, rs) => Single(v, rs)
  BY DEF Single
<1>2. Fresh(w, rs, lk) => Fresh(v, rs, lk)
  BY DEF Fresh
<1> QED
  BY <1>1, <1>2

LEMMA OwnDisjoint ==
  ASSUME NEW m \in Managers, NEW n \in Managers, NEW l \in Own(m), l \in Own(n)
  PROVE  m = n
BY DEF Own

LEMMA OwnLocks ==
  ASSUME NEW m \in Managers
  PROVE  Own(m) \subseteq Locks /\ NoLock \notin Own(m)
BY NoLockAssumption DEF Own, Locks

\* A server that has no lock cannot have that of an election.
LEMMA FreshNone ==
  ASSUME TypeOK, NEW m \in Managers, NEW w \in Seq(Commands), NEW lk,
         Fresh(w, retries[m], lk)
  PROVE  Fresh(w, retries[m], NoLock)
<1>0. \A i \in DOMAIN w : w[i] \in Commands
  OBVIOUS
<1>1. \A i \in DOMAIN w : w[i].lock # NoLock
  BY <1>0, NoLockAssumption DEF Commands
<1>2. \A r \in retries[m] : r.lock # NoLock
  BY NoLockAssumption DEF TypeOK
<1> QED
  BY <1>1, <1>2 DEF Fresh

\* Leases may end early.
LEMMA LapsedDown ==
  ASSUME NEW w \in Seq(Commands), NEW ex \in [Locks -> Nat], NEW ey \in [Locks -> Nat],
         Lapsed(w, ex), \A l \in Locks : ey[l] <= ex[l]
  PROVE  Lapsed(w, ey)
<1>0. \A i \in DOMAIN w : w[i] \in Commands
  OBVIOUS
<1>1. \A i \in DOMAIN w : w[i].lock \in Locks /\ w[i].left \in Nat
  BY <1>0 DEF Commands
<1>2. \A l \in Locks : ey[l] \in Nat /\ ex[l] \in Nat
  OBVIOUS
<1> QED
  BY <1>1, <1>2 DEF Lapsed

-----------------------------------------------------------------------------
(* Steps of one server.                                                     *)

\* The part of the invariant that is about one server.
Sound(m) == Owned(m) /\ Orderly(m) /\ Backs(m)

\* A step of m does not touch what the other servers have.
Elsewhere(m) ==
  /\ \A n \in Managers : n # m =>
       wire'[n] = wire[n] /\ retries'[n] = retries[n] /\ lock'[n] = lock[n]
  /\ \A l \in Locks : l \notin Own(m) => expires'[l] = expires[l]
  /\ \A l \in Own(m) : expires'[l] <= Lease
  /\ UNCHANGED <<key, ttl>> \/ key = NoLock \/ key \in Own(m)

LEMMA OthersKeep ==
  ASSUME TypeOK, LeaseInv, NEW m \in Managers, Elsewhere(m), Sound(m)'
  PROVE  LeaseInv'
<1>1. \A l \in Locks : expires'[l] <= Lease
  BY DEF Elsewhere, LeaseInv
<1>2. ASSUME NEW n \in Managers, n # m
      PROVE  Sound(n)'
  <2>1. wire'[n] = wire[n] /\ retries'[n] = retries[n] /\ lock'[n] = lock[n]
    BY <1>2 DEF Elsewhere
  <2>2. Owned(n) /\ Orderly(n) /\ Backs(n)
    BY DEF LeaseInv
  <2>3. \A l \in Own(n) : l \in Locks /\ l # NoLock /\ expires'[l] = expires[l]
    BY <1>2, OwnLocks, OwnDisjoint DEF Elsewhere
  <2>4. UNCHANGED <<key, ttl>> \/ key \notin Own(n)
    BY <1>2, OwnLocks, OwnDisjoint DEF Elsewhere
  <2>5. wire[n] \in Seq(Commands)
    BY DEF TypeOK
  <2>6. Owned(n)'
    BY <2>1, <2>2 DEF Owned
  <2>7. Lapsed(wire[n], expires)'
    BY <2>1, <2>2, <2>3 DEF Lapsed, Orderly, Owned
  <2>8. Backed(wire[n], key, ttl)'
    BY <2>1, <2>2, <2>4 DEF Backed, Orderly, Owned
  <2>9. Single(wire[n], retries[n])' /\ Fresh(wire[n], retries[n], lock[n])' /\ Ordered(wire[n])'
    BY <2>1, <2>2 DEF Orderly
  <2>10. Backs(n)'
    BY <2>1, <2>2, <2>3, <2>4 DEF Backs, Holds, isOwner, Releasing, Pending, Owned
  <2> QED
    BY <2>6, <2>7, <2>8, <2>9, <2>10 DEF Sound, Orderly
<1> QED
  BY <1>1, <1>2 DEF LeaseInv, Sound

\* What is known of a server before its step.
LEMMA Before ==
  ASSUME TypeOK, LeaseInv, NEW m \in Managers
  PROVE  /\ Owned(m) /\ Orderly(m) /\ Backs(m)
         /\ wire[m] \in Seq(Commands)
         /\ \A i \in DOMAIN wire[m] : wire[m][i] \in Commands
         /\ retries[m] \subseteq Attempts
         /\ lock[m] \in Locks \cup {NoLock}
         /\ expires \in [Locks -> Nat]
         /\ \A l \in Locks : expires[l] \in Nat /\ expires[l] <= Lease
         /\ ttl \in Nat
<1>1. wire[m] \in Seq(Commands)
  BY DEF TypeOK
<1>2. \A i \in DOMAIN wire[m] : wire[m][i] \in Commands
  BY <1>1
<1> QED
  BY <1>1, <1>2 DEF TypeOK, LeaseInv, Attempts

\* An answer that makes the server give up its lock: the catch of acquire(), and the
\* ends of renew() and release().
LEMMA DroppedKeeps ==
  ASSUME TypeOK, LeaseInv, NEW m \in Managers, wire[m] # <<>>,
         wire' = [wire EXCEPT ![m] = Tail(wire[m])],
         lock' = [lock EXCEPT ![m] = NoLock],
         UNCHANGED <<expires, retries, key, ttl>>
  PROVE  Sound(m)' /\ Elsewhere(m)
<1> DEFINE v == Tail(wire[m])
<1>1. /\ wire'[m] = v /\ lock'[m] = NoLock /\ retries'[m] = retries[m]
      /\ v \in Seq(Commands)
  BY PopType DEF TypeOK
<1>2. /\ \A i \in DOMAIN v : i + 1 \in DOMAIN wire[m] /\ v[i] = wire[m][i + 1]
      /\ Single(v, retries[m]) /\ Fresh(v, retries[m], lock[m]) /\ Lapsed(v, expires)
      /\ Backed(v, key, ttl) /\ Ordered(v)
  BY PopKeeps, Before DEF Orderly
<1> HIDE DEF v
<1>3. Fresh(v, retries[m], NoLock)
  BY <1>1, <1>2, FreshNone
<1>4. Owned(m)'
  BY <1>1, <1>2, Before DEF Owned
<1>5. Orderly(m)'
  BY <1>1, <1>2, <1>3 DEF Orderly
<1>6. Backs(m)'
  BY <1>1 DEF Backs, Holds, isOwner
<1>7. Elsewhere(m)
  BY OwnLocks, Before DEF Elsewhere, TypeOK
<1> QED
  BY <1>4, <1>5, <1>6, <1>7 DEF Sound

\* An answer after which a lease begins or is extended.
LEMMA GrantedKeeps ==
  ASSUME TypeOK, LeaseInv, NEW m \in Managers, Elected(m) \/ Renewed(m)
  PROVE  Sound(m)' /\ Elsewhere(m)
<1> DEFINE v == Tail(wire[m])
           c == Head(wire[m])
<1>1. /\ wire[m] # <<>> /\ c.op \in {"lock", "extend"} /\ c.reply = "ok" /\ c.left > 0
      /\ wire' = [wire EXCEPT ![m] = v]
      /\ lock' = [lock EXCEPT ![m] = c.lock]
      /\ expires' = [expires EXCEPT ![c.lock] = c.left]
      /\ UNCHANGED <<retries, key, ttl>>
  BY DEF Elected, Renewed, Answer, InTime
<1>2. /\ c \in Commands /\ c = wire[m][1] /\ 1 \in DOMAIN wire[m] /\ v \in Seq(Commands)
      /\ \A i \in DOMAIN v : i \in Int /\ i + 1 # 1
  BY <1>1, PopType
<1>3. /\ \A i \in DOMAIN v : i + 1 \in DOMAIN wire[m] /\ v[i] = wire[m][i + 1]
      /\ \A i \in DOMAIN wire[m] : i # 1 => i - 1 \in DOMAIN v /\ v[i - 1] = wire[m][i]
      /\ Single(v, retries[m]) /\ Fresh(v, retries[m], c.lock) /\ Lapsed(v, expires)
      /\ Backed(v, key, ttl) /\ Ordered(v)
  BY <1>1, PopKeeps, Before DEF Orderly
<1> HIDE DEF v, c
<1>4. /\ c.lock \in Locks /\ c.lock \in Own(m) /\ c.left \in Nat /\ c.left <= Lease
  BY <1>2, Before DEF Commands, Owned
<1>5. /\ wire'[m] = v /\ lock'[m] = c.lock /\ retries'[m] = retries[m]
      /\ expires'[c.lock] = c.left
      /\ \A l \in Locks : l # c.lock => expires'[l] = expires[l]
  BY <1>1, <1>4 DEF TypeOK
<1>6. Lapsed(v, expires')
  <2>1. ASSUME NEW i \in DOMAIN v, v[i].op \in Extends
        PROVE  v[i].lock # c.lock
    BY SMTT(30), <1>1, <1>2, <1>3, <2>1, Before DEF Orderly, Single, Fresh, Extends, Acquires
  <2>2. \A i \in DOMAIN v : v[i].lock \in Locks
    BY <1>3, Before DEF Commands
  <2> QED
    BY <1>3, <1>5, <2>1, <2>2 DEF Lapsed, Extends
<1>7. Owned(m)'
  BY <1>3, <1>4, <1>5, Before DEF Owned
<1>8. Orderly(m)'
  BY <1>1, <1>3, <1>5, <1>6 DEF Orderly
<1>9. Backs(m)'
  <2>1. CASE key = c.lock /\ ttl > c.left
    BY <1>1, <1>5, <2>1 DEF Backs
  <2>2. CASE \E j \in DOMAIN wire[m] : j > 1 /\ wire[m][j].op \in Unlocks
    <3>1. PICK j \in DOMAIN wire[m] : j > 1 /\ wire[m][j].op \in Unlocks
      BY <2>2
    <3>2. j - 1 \in DOMAIN v /\ v[j - 1].op \in Unlocks
      BY <1>3, <3>1
    <3> QED
      BY <1>5, <3>2 DEF Backs, Holds, Releasing, Pending, Unlocks
  <2> QED
    BY <1>1, <1>2, <2>1, <2>2, Before DEF Orderly, Backed
<1>10. Elsewhere(m)
  BY <1>1, <1>4, <1>5, OwnLocks, Before DEF Elsewhere, TypeOK
<1> QED
  BY <1>7, <1>8, <1>9, <1>10 DEF Sound

\* A lease that is left alone.
LEMMA BacksKept ==
  ASSUME NEW m \in Managers, Backs(m), lock'[m] = lock[m],
         lock[m] # NoLock => expires'[lock[m]] = expires[lock[m]],
         Releasing(m) => Releasing(m)', UNCHANGED <<key, ttl>>
  PROVE  Backs(m)'
BY DEF Backs, Holds, isOwner

\* What holds of any command that a server sends after its other commands, or in place of
\* the answer to the first.
LEMMA SentKeeps ==
  ASSUME TypeOK, LeaseInv, NEW m \in Managers, NEW w \in Seq(Commands),
         \/ w = wire[m]
         \/ wire[m] # <<>> /\ w = Tail(wire[m]),
         NEW op \in Ops, NEW l \in Own(m), SendOn(w, m, op, l)
  PROVE  /\ wire'[m] = Append(w, Command(op, l))
         /\ \A n \in Managers : n # m => wire'[n] = wire[n]
         /\ \A i \in DOMAIN wire'[m] : wire'[m][i].lock \in Own(m) /\ wire'[m][i].left <= Lease
         /\ Backed(wire'[m], key, ttl) /\ Ordered(wire'[m])
         /\ \/ Releasing(m)'
            \/ ~Releasing(m)
            \/ wire[m] # <<>> /\ Head(wire[m]).op \in Unlocks /\ w = Tail(wire[m])
<1> DEFINE v == Append(w, Command(op, l))
<1>1. l \in Locks
  BY OwnLocks
<1>2. wire'[m] = v /\ \A n \in Managers : n # m => wire'[n] = wire[n]
  BY <1>1, SendType
<1>3. /\ Backed(w, key, ttl) /\ Ordered(w)
      /\ \A i \in DOMAIN w : w[i].lock \in Own(m) /\ w[i].left <= Lease
  <2>1. CASE w = wire[m]
    BY <2>1, Before DEF Orderly, Owned
  <2>2. CASE wire[m] # <<>> /\ w = Tail(wire[m])
    BY <2>2, PopKeeps, Before DEF Orderly, Owned
  <2> QED
    BY <2>1, <2>2
<1>4. /\ \A i \in DOMAIN w : i \in DOMAIN v /\ v[i] = w[i]
      /\ \A i \in DOMAIN v : i \in DOMAIN w \/ v[i] = Command(op, l)
  BY <1>1, PushKeeps
<1>4a. Backed(v, key, ttl) /\ Ordered(v)
  BY <1>1, <1>3, PushBacked
<1> HIDE DEF v
<1>5. \A i \in DOMAIN v : v[i].lock \in Own(m) /\ v[i].left <= Lease
  <2>1. Command(op, l).lock = l /\ Command(op, l).left <= Lease
    BY <1>1, PushKeeps
  <2>2. \A i \in DOMAIN v : \/ v[i].lock = l /\ v[i].left <= Lease
                            \/ v[i].lock \in Own(m) /\ v[i].left <= Lease
    BY <1>3, <1>4, <2>1
  <2> QED
    BY <2>1, <2>2
<1>6. ASSUME Releasing(m), ~(wire[m] # <<>> /\ Head(wire[m]).op \in Unlocks /\ w = Tail(wire[m]))
      PROVE  Releasing(m)'
  <2>0. \A r \in retries[m] : r.op \notin Unlocks
    BY Before DEF Attempts, Unlocks
  <2>1. PICK i \in DOMAIN wire[m] : wire[m][i].op \in Unlocks
    BY <1>6, <2>0 DEF Releasing, Pending, Unlocks
  <2>2. CASE w = wire[m]
    BY <1>2, <1>4, <2>1, <2>2 DEF Releasing, Pending, Unlocks
  <2>3. CASE wire[m] # <<>> /\ w = Tail(wire[m])
    <3>1. i # 1
      BY <1>6, <2>1, <2>3, PopType
    <3>2. i - 1 \in DOMAIN w /\ w[i - 1] = wire[m][i]
      BY <2>3, <3>1, PopKeeps, Before
    <3> QED
      BY <1>2, <1>4, <2>1, <3>2 DEF Releasing, Pending, Unlocks
  <2> QED
    BY <2>2, <2>3
<1> QED
  BY <1>2, <1>4a, <1>5, <1>6 DEF v

\* acquire() asks for a lock that is not in use.
LEMMA AcquireKeeps ==
  ASSUME TypeOK, LeaseInv, NEW m \in Managers, Acquire(m),
         UNCHANGED <<lock, expires, retries, key, ttl>>
  PROVE  Sound(m)' /\ Elsewhere(m)
<1>1. CASE isOwner(m)
  <2>1. UNCHANGED wire
    BY <1>1 DEF Acquire
  <2> QED
    BY <2>1, OwnLocks, Before
    DEF Sound, Elsewhere, Owned, Orderly, Backs, Holds, isOwner, Releasing, Pending
<1>2. CASE ~isOwner(m)
  <2>1. PICK s \in Serials : <<m, s>> \notin InUse(m) /\ SendOn(wire[m], m, "lock", <<m, s>>)
    BY <1>2 DEF Acquire
  <2> DEFINE l == <<m, s>>
             v == Append(wire[m], Command("lock", l))
  <2>2. /\ l \in Own(m) /\ l \in Locks /\ "lock" \in Ops /\ l # lock[m]
        /\ \A i \in DOMAIN wire[m] : wire[m][i].lock # l
        /\ \A r \in retries[m] : r.lock # l
    BY <2>1 DEF Own, Locks, Ops, InUse, UnderWay
  <2> HIDE DEF l
  <2>3. /\ wire'[m] = v
        /\ \A n \in Managers : n # m => wire'[n] = wire[n]
        /\ \A i \in DOMAIN wire'[m] : wire'[m][i].lock \in Own(m) /\ wire'[m][i].left <= Lease
        /\ Backed(wire'[m], key, ttl) /\ Ordered(wire'[m])
    BY <2>1, <2>2, SentKeeps, Before DEF l
  <2>4. Single(v, retries[m]) /\ Fresh(v, retries[m], lock[m]) /\ Lapsed(v, expires)
    <3>1. /\ Single(wire[m], retries[m]) /\ Fresh(wire[m], retries[m], lock[m])
          /\ Lapsed(wire[m], expires) /\ wire[m] \in Seq(Commands)
          /\ "lock" \notin Extends
      BY Before DEF Orderly, Extends
    <3>2. Single(v, retries[m])
      BY <2>2, <3>1, PushSingle
    <3>3. Fresh(v, retries[m], lock[m])
      BY <2>2, <3>1, PushFresh DEF Acquires
    <3>4. Lapsed(v, expires)
      BY <2>2, <3>1, PushLapsed
    <3> QED
      BY <3>2, <3>3, <3>4
  <2>5. Owned(m)' /\ Orderly(m)'
    BY <2>3, <2>4, Before DEF Owned, Orderly
  <2>6. Backs(m)'
    BY <1>2 DEF Backs, Holds, isOwner
  <2>7. Elsewhere(m)
    BY <2>3, OwnLocks, Before DEF Elsewhere
  <2> QED
    BY <2>5, <2>6, <2>7 DEF Sound
<1> QED
  BY <1>1, <1>2

\* stop() and release(): the lease is over at once, its key is unlocked later.
LEMMA StopKeeps ==
  ASSUME TypeOK, LeaseInv, NEW m \in Managers, Stop(m)
  PROVE  Sound(m)' /\ Elsewhere(m)
<1>1. CASE ~isOwner(m)
  <2>1. UNCHANGED <<lock, expires, wire, retries, key, ttl>>
    BY <1>1 DEF Stop
  <2> QED
    BY <2>1, OwnLocks, Before
    DEF Sound, Elsewhere, Owned, Orderly, Backs, Holds, isOwner, Releasing, Pending
<1>2. CASE isOwner(m)
  <2> DEFINE l == lock[m]
             w == wire[m]
             v == Append(w, Command("unlockRelease", l))
             ey == [expires EXCEPT ![l] = 0]
  <2>1. /\ SendOn(w, m, "unlockRelease", l) /\ expires' = ey
        /\ UNCHANGED <<lock, retries, key, ttl>>
    BY <1>2 DEF Stop, Invalidate
  <2>2. /\ l \in Own(m) /\ l \in Locks /\ "unlockRelease" \in Ops /\ w \in Seq(Commands)
        /\ Single(w, retries[m]) /\ Fresh(w, retries[m], l) /\ Lapsed(w, expires)
        /\ "unlockRelease" \notin Extends \cup Acquires \cup {"undoExtend", "extend"}
    BY <1>2, OwnLocks, Before DEF isOwner, Owned, Orderly, Ops, Extends, Acquires
  <2>3. /\ ey \in [Locks -> Nat] /\ ey[l] = 0
        /\ \A k \in Locks : k # l => ey[k] = expires[k]
        /\ \A k \in Locks : ey[k] <= expires[k] /\ ey[k] <= Lease
    BY <2>2, Before, TimesAssumption
  <2> HIDE DEF l, w, ey
  <2>4. /\ wire'[m] = v
        /\ \A n \in Managers : n # m => wire'[n] = wire[n]
        /\ \A i \in DOMAIN wire'[m] : wire'[m][i].lock \in Own(m) /\ wire'[m][i].left <= Lease
        /\ Backed(wire'[m], key, ttl) /\ Ordered(wire'[m])
    BY <2>1, <2>2, SentKeeps DEF w
  <2>5. Single(v, retries[m])
    BY <2>2, PushSingle
  <2>6. Fresh(v, retries[m], l)
    <3>1. /\ \A i \in DOMAIN w : w[i].op \in Acquires => w[i].lock # l
          /\ \A r \in retries[m] : r.op = "lock" => r.lock # l
      BY <2>2 DEF Fresh
    <3> QED
      BY <2>2, <3>1, PushFresh
  <2>7. Lapsed(v, ey)
    <3>1. Lapsed(w, ey)
      BY <2>2, <2>3, LapsedDown, Before
    <3> QED
      BY <2>2, <3>1, PushLapsed
  <2>8. Owned(m)' /\ Orderly(m)'
    BY <2>1, <2>2, <2>4, <2>5, <2>6, <2>7, Before DEF Owned, Orderly, l
  <2>9. Backs(m)'
    BY <2>1, <2>3 DEF Backs, Holds, l
  <2>10. Elsewhere(m)
    BY <2>1, <2>2, <2>3, <2>4, OwnLocks DEF Elsewhere
  <2> QED
    BY <2>8, <2>9, <2>10 DEF Sound
<1> QED
  BY <1>1, <1>2

\* renew(), up to its await.
LEMMA RenewKeeps ==
  ASSUME TypeOK, LeaseInv, TimeInv, NEW m \in Managers, Renew(m)
  PROVE  Sound(m)' /\ Elsewhere(m)
<1> DEFINE l == lock[m]
           w == wire[m]
           v == Append(w, Command("extend", l))
<1>1. CASE /\ isOwner(m) /\ expires[lock[m]] > 0
           /\ SendOn(wire[m], m, "extend", lock[m]) /\ UNCHANGED lock
  <2>1. /\ SendOn(w, m, "extend", l) /\ UNCHANGED <<lock, expires, retries, key, ttl>>
    BY <1>1 DEF Renew
  <2>2. /\ l \in Own(m) /\ l \in Locks /\ "extend" \in Ops /\ w \in Seq(Commands)
        /\ Single(w, retries[m]) /\ Fresh(w, retries[m], l) /\ Lapsed(w, expires)
        /\ "extend" \notin Acquires /\ expires[l] <= Lease
    BY <1>1, OwnLocks, Before DEF isOwner, Owned, Orderly, Ops, Acquires
  <2>3. /\ \A i \in DOMAIN w : w[i].op \in Extends => w[i].lock # l
        /\ \A r \in retries[m] : r.op = "extend" => r.lock # l
    <3>1. isOwner(m) /\ renewId[m].on /\ renewId[m].left = 0
      BY <1>1 DEF Renew, Due
    <3>2. expires[l] \in Nat /\ expires[l] > 0
      BY <1>1, <2>2, Before
    <3> QED
      BY <2>2, <3>1, <3>2 DEF TimeInv, Paced, Extending
  <2> HIDE DEF l, w
  <2>4. /\ wire'[m] = v
        /\ \A n \in Managers : n # m => wire'[n] = wire[n]
        /\ \A i \in DOMAIN wire'[m] : wire'[m][i].lock \in Own(m) /\ wire'[m][i].left <= Lease
        /\ Backed(wire'[m], key, ttl) /\ Ordered(wire'[m])
    BY <2>1, <2>2, SentKeeps DEF w
  <2>5. Single(v, retries[m])
    BY <2>2, <2>3, PushSingle
  <2>6. Fresh(v, retries[m], l)
    <3>1. /\ \A i \in DOMAIN w : w[i].op \in Acquires => w[i].lock # l
          /\ \A r \in retries[m] : r.op = "lock" => r.lock # l
      BY <2>2 DEF Fresh
    <3> QED
      BY <2>2, <3>1, PushFresh
  <2>7. Lapsed(v, expires)
    BY <2>2, PushLapsed
  <2>8. Owned(m)' /\ Orderly(m)'
    BY <2>1, <2>2, <2>4, <2>5, <2>6, <2>7, Before DEF Owned, Orderly, l
  <2>9. Releasing(m) => Releasing(m)'
    <3>1. \A i \in DOMAIN w : i \in DOMAIN v /\ v[i] = w[i]
      BY <2>2, PushKeeps
    <3> QED
      BY <2>1, <2>4, <3>1 DEF Releasing, Pending, w
  <2>10. Backs(m)'
    BY <2>1, <2>9, Before, BacksKept
  <2>11. Elsewhere(m)
    BY <2>1, <2>4, OwnLocks, Before DEF Elsewhere
  <2> QED
    BY <2>8, <2>10, <2>11 DEF Sound
<1>2. CASE UNCHANGED wire /\ lock' = [lock EXCEPT ![m] = NoLock]
  <2>1. UNCHANGED <<expires, wire, retries, key, ttl>> /\ lock'[m] = NoLock
    BY <1>2 DEF Renew, TypeOK
  <2>2. Fresh(wire[m], retries[m], NoLock)
    BY Before, FreshNone DEF Orderly
  <2>3. Owned(m)' /\ Orderly(m)'
    BY <2>1, <2>2, Before DEF Owned, Orderly
  <2>4. Backs(m)'
    BY <2>1 DEF Backs, Holds, isOwner
  <2>5. Elsewhere(m)
    BY <1>2, <2>1, OwnLocks, Before DEF Elsewhere, TypeOK
  <2> QED
    BY <2>3, <2>4, <2>5 DEF Sound
<1> QED
  BY <1>1, <1>2 DEF Renew

\* A success that took too long: its lock is unlocked.
LEMMA TooLateKeeps ==
  ASSUME TypeOK, LeaseInv, NEW m \in Managers, TooLate(m)
  PROVE  Sound(m)' /\ Elsewhere(m)
<1> DEFINE c == Head(wire[m])
           w == Tail(wire[m])
           l == c.lock
<1>1. PICK op \in {"undoLock", "undoExtend"} :
        /\ wire[m] # <<>> /\ SendOn(w, m, op, l)
        /\ op = "undoLock" => c.op = "lock"
        /\ op = "undoExtend" => c.op = "extend"
        /\ ~(c.left > 0) /\ UNCHANGED <<lock, expires, retries, key, ttl>>
  BY DEF TooLate, InTime, Answer, local
<1> DEFINE v == Append(w, Command(op, l))
<1>2. /\ c = wire[m][1] /\ c \in Commands /\ w \in Seq(Commands) /\ 1 \in DOMAIN wire[m]
      /\ \A i \in DOMAIN w : i + 1 \in DOMAIN wire[m] /\ w[i] = wire[m][i + 1] /\ i + 1 # 1
  <2>1. \A i \in DOMAIN w : i + 1 # 1
    BY <1>1, PopType
  <2> QED
    BY <1>1, <2>1, PopType, PopKeeps, Before
<1>3. /\ l \in Own(m) /\ l \in Locks /\ op \in Ops /\ c.left \in Nat /\ expires[l] \in Nat
  BY <1>2, OwnLocks, Before DEF Owned, Ops, Commands
<1>4. /\ Single(w, retries[m]) /\ Fresh(w, retries[m], lock[m]) /\ Lapsed(w, expires)
  BY <1>1, PopKeeps, Before DEF Orderly
<1>5. c.op = "extend" => /\ expires[l] = 0
                         /\ \A i \in DOMAIN w : w[i].op \in Extends => w[i].lock # l
                         /\ \A r \in retries[m] : r.op = "extend" => r.lock # l
  <2>1. c.op = "extend" => expires[l] = 0
    BY <1>1, <1>2, <1>3, Before DEF Orderly, Lapsed
  <2>2. c.op = "extend" => \A i \in DOMAIN w : w[i].op \in Extends => w[i].lock # l
    BY <1>2, Before DEF Orderly, Single, Extends
  <2>3. c.op = "extend" => \A r \in retries[m] : r.op = "extend" => r.lock # l
    BY <1>2, Before DEF Orderly, Single, Extends
  <2> QED
    BY <2>1, <2>2, <2>3
<1>6. c.op = "lock" => /\ l # lock[m]
                       /\ \A i \in DOMAIN w : w[i].lock # l
                       /\ \A r \in retries[m] : r.lock # l
  <2>1. c.op \in Acquires => l # lock[m] /\ \A r \in retries[m] : r.lock # l
    BY <1>2, Before DEF Orderly, Fresh
  <2>2. c.op \in Acquires => \A i \in DOMAIN w : w[i].lock # l
    BY <1>2, Before DEF Orderly, Fresh
  <2> QED
    BY <2>1, <2>2 DEF Acquires
<1>7. /\ \A i \in DOMAIN w : w[i].op \in Acquires => w[i].lock # l
      /\ \A r \in retries[m] : r.op = "lock" => r.lock # l
  <2>1. \A i \in DOMAIN w : w[i].op \in Acquires => w[i].lock # l
    BY <1>2, Before DEF Orderly, Fresh
  <2>2. \A r \in retries[m] : r.op = "lock" => r.lock # l
    BY <1>2, Before DEF Orderly, Fresh
  <2> QED
    BY <2>1, <2>2
<1> HIDE DEF c, w, l
<1>8. /\ wire'[m] = v
      /\ \A n \in Managers : n # m => wire'[n] = wire[n]
      /\ \A i \in DOMAIN wire'[m] : wire'[m][i].lock \in Own(m) /\ wire'[m][i].left <= Lease
      /\ Backed(wire'[m], key, ttl) /\ Ordered(wire'[m])
      /\ Releasing(m) => Releasing(m)'
  BY <1>1, <1>2, <1>3, SentKeeps DEF w, c, Unlocks
<1>9. Single(v, retries[m])
  <2>1. op \in Extends => c.op = "extend"
    BY <1>1 DEF Extends
  <2> QED
    BY <1>2, <1>3, <1>4, <1>5, <2>1, PushSingle
<1>10. Fresh(v, retries[m], lock[m])
  <2>1. op \in Acquires => c.op = "lock"
    BY <1>1 DEF Acquires
  <2> QED
    BY <1>2, <1>3, <1>4, <1>6, <1>7, <2>1, PushFresh
<1>11. Lapsed(v, expires)
  BY <1>1, <1>2, <1>3, <1>4, <1>5, PushLapsed
<1>12. Owned(m)' /\ Orderly(m)'
  BY <1>1, <1>8, <1>9, <1>10, <1>11, Before DEF Owned, Orderly
<1>13. Backs(m)'
  BY <1>1, <1>8, Before, BacksKept
<1>14. Elsewhere(m)
  BY <1>1, <1>8, OwnLocks, Before DEF Elsewhere
<1> QED
  BY <1>12, <1>13, <1>14 DEF Sound

\* A failed attempt, which redlock will make again.
LEMMA TryAgainKeeps ==
  ASSUME TypeOK, LeaseInv, NEW m \in Managers, TryAgain(m)
  PROVE  Sound(m)' /\ Elsewhere(m)
<1> DEFINE c == Head(wire[m])
           w == Tail(wire[m])
<1>1. PICK op \in {"lock", "extend"} :
        /\ wire[m] # <<>> /\ wire' = [wire EXCEPT ![m] = w]
        /\ retries' = [retries EXCEPT ![m] = retries[m] \cup {[op |-> op, lock |-> c.lock]}]
        /\ op = "lock" => c.op \in Acquires
        /\ op = "extend" => c.op \in Extends
        /\ c.op \notin Unlocks /\ UNCHANGED <<lock, expires, key, ttl>>
  <2>1. CASE LockFailed(m) /\ retries' = [retries EXCEPT ![m] =
                                            retries[m] \cup {[op |-> "lock", lock |-> c.lock]}]
    <3>1. c.op \in Acquires /\ c.op \notin Unlocks
      BY <2>1 DEF LockFailed, Answer, Acquires, Unlocks
    <3> QED
      BY <2>1, <3>1 DEF TryAgain, local
  <2>2. CASE ExtendFailed(m) /\ retries' = [retries EXCEPT ![m] =
                                              retries[m] \cup {[op |-> "extend", lock |-> c.lock]}]
    <3>1. c.op \in Extends /\ c.op \notin Unlocks
      BY <2>2 DEF ExtendFailed, Answer, Extends, Unlocks
    <3> QED
      BY <2>2, <3>1 DEF TryAgain, local
  <2> QED
    BY <2>1, <2>2 DEF TryAgain
<1> DEFINE r == [op |-> op, lock |-> c.lock]
<1>2. /\ c = wire[m][1] /\ 1 \in DOMAIN wire[m] /\ w \in Seq(Commands)
      /\ \A i \in DOMAIN w : i + 1 \in DOMAIN wire[m] /\ w[i] = wire[m][i + 1]
      /\ \A i \in DOMAIN wire[m] : i # 1 => i - 1 \in DOMAIN w /\ w[i - 1] = wire[m][i]
      /\ Lapsed(w, expires) /\ Backed(w, key, ttl) /\ Ordered(w)
  BY <1>1, PopType, PopKeeps, Before DEF Orderly
<1>3. Single(w, retries[m] \cup {r}) /\ Fresh(w, retries[m] \cup {r}, lock[m])
  BY <1>1, RetryKeeps, Before DEF Orderly
<1>4. /\ wire'[m] = w /\ retries'[m] = retries[m] \cup {r}
      /\ \A n \in Managers : n # m => wire'[n] = wire[n] /\ retries'[n] = retries[n]
  BY <1>1 DEF TypeOK
<1>5. r.lock \in Own(m)
  BY <1>2, Before DEF Owned
<1> HIDE DEF c, w, r
<1>6. Owned(m)'
  BY <1>1, <1>2, <1>4, <1>5, Before DEF Owned
<1>7. Orderly(m)'
  BY <1>1, <1>2, <1>3, <1>4 DEF Orderly
<1>8. Releasing(m) => Releasing(m)'
  BY <1>1, <1>2, <1>4 DEF Releasing, Pending, Unlocks
<1>9. Backs(m)'
  BY <1>1, <1>8, Before, BacksKept
<1>10. Elsewhere(m)
  BY <1>1, <1>4, OwnLocks, Before DEF Elsewhere
<1> QED
  BY <1>6, <1>7, <1>9, <1>10 DEF Sound

\* Redlock makes an attempt again.
LEMMA RetriedKeeps ==
  ASSUME TypeOK, LeaseInv, NEW m \in Managers, Retry(m)
  PROVE  Sound(m)' /\ Elsewhere(m)
<1>1. PICK r \in retries[m] :
        /\ retries' = [retries EXCEPT ![m] = retries[m] \ {r}]
        /\ SendOn(wire[m], m, r.op, r.lock)
        /\ UNCHANGED <<lock, expires, key, ttl>>
  BY DEF Retry, local
<1> DEFINE w == wire[m]
           rs == retries[m] \ {r}
           op == r.op
           l == r.lock
           v == Append(w, Command(op, l))
<1>2. /\ l \in Own(m) /\ l \in Locks /\ op \in Ops /\ op \in {"lock", "extend"}
      /\ w \in Seq(Commands) /\ expires[l] <= Lease /\ Lapsed(w, expires)
  BY OwnLocks, Before DEF Owned, Ops, Attempts, Orderly
<1>3. Single(w, rs) /\ Fresh(w, rs, lock[m])
  <2>1. Single(w, rs)
    BY Before DEF Orderly, Single
  <2>2. Fresh(w, rs, lock[m])
    BY Before DEF Orderly, Fresh
  <2> QED
    BY <2>1, <2>2
<1>4. op \in Extends => /\ \A i \in DOMAIN w : w[i].op \in Extends => w[i].lock # l
                        /\ \A q \in rs : q.op = "extend" => q.lock # l
  BY <1>2, Before DEF Orderly, Single, Extends
<1>5. op \in Acquires => /\ l # lock[m]
                         /\ \A i \in DOMAIN w : w[i].lock # l
                         /\ \A q \in rs : q.lock # l
  BY <1>2, Before DEF Orderly, Fresh, Acquires
<1>6. /\ \A i \in DOMAIN w : w[i].op \in Acquires => w[i].lock # l
      /\ \A q \in rs : q.op = "lock" => q.lock # l
  BY <1>2, Before DEF Orderly, Fresh
<1>7. retries'[m] = rs /\ \A n \in Managers : n # m => retries'[n] = retries[n]
  BY <1>1 DEF TypeOK
<1>7a. \A q \in rs : q.lock \in Own(m) /\ q.op \notin Unlocks /\ q \in retries[m]
  BY Before DEF Owned, Attempts, Unlocks
<1>8. /\ wire'[m] = v
      /\ \A n \in Managers : n # m => wire'[n] = wire[n]
      /\ \A i \in DOMAIN wire'[m] : wire'[m][i].lock \in Own(m) /\ wire'[m][i].left <= Lease
      /\ Backed(wire'[m], key, ttl) /\ Ordered(wire'[m])
      /\ Releasing(m) => Releasing(m)'
  <2>1. \A i \in DOMAIN w : i \in DOMAIN v /\ v[i] = w[i]
    BY <1>2, PushKeeps
  <2>2. wire'[m] = v /\ \A n \in Managers : n # m => wire'[n] = wire[n]
    BY <1>1, <1>2, SentKeeps
  <2>3. \A i \in DOMAIN wire'[m] : wire'[m][i].lock \in Own(m) /\ wire'[m][i].left <= Lease
    BY <1>1, <1>2, SentKeeps
  <2>4. Backed(wire'[m], key, ttl) /\ Ordered(wire'[m])
    BY <1>1, <1>2, SentKeeps
  <2>5. Releasing(m) => Releasing(m)'
    <3> HIDE DEF v
    <3>1. \A q \in retries[m] : q.op \notin Unlocks
      BY Before DEF Attempts, Unlocks
    <3> QED
      BY <2>1, <2>2, <3>1 DEF Releasing, Pending, Unlocks
  <2> QED
    BY <2>2, <2>3, <2>4, <2>5
<1> HIDE DEF w, rs, op, l
<1>9. Single(v, rs)
  BY <1>2, <1>3, <1>4, PushSingle
<1>10. Fresh(v, rs, lock[m])
  BY <1>2, <1>3, <1>5, <1>6, PushFresh
<1>11. Lapsed(v, expires)
  BY <1>2, PushLapsed
<1>12. Owned(m)' /\ Orderly(m)'
  BY <1>1, <1>7, <1>7a, <1>8, <1>9, <1>10, <1>11, Before DEF Owned, Orderly
<1>13. Backs(m)'
  BY <1>1, <1>8, Before, BacksKept
<1>14. Elsewhere(m)
  BY <1>1, <1>7, <1>8, OwnLocks, Before DEF Elsewhere
<1> QED
  BY <1>12, <1>13, <1>14 DEF Sound

\* extend() gives up: the lease is over at once, its key is unlocked later.
LEMMA NotRenewedKeeps ==
  ASSUME TypeOK, LeaseInv, NEW m \in Managers, NotRenewed(m)
  PROVE  Sound(m)' /\ Elsewhere(m)
<1> DEFINE c == Head(wire[m])
           w == Tail(wire[m])
<1>1. /\ wire[m] # <<>> /\ c.op \in {"extend", "undoExtend"}
      /\ UNCHANGED <<lock, retries, key, ttl>>
  BY DEF NotRenewed, ExtendFailed, Answer
<1>2. /\ c = wire[m][1] /\ 1 \in DOMAIN wire[m] /\ w \in Seq(Commands)
      /\ \A i \in DOMAIN w : i + 1 \in DOMAIN wire[m] /\ w[i] = wire[m][i + 1] /\ i + 1 # 1
      /\ Single(w, retries[m]) /\ Fresh(w, retries[m], lock[m])
      /\ Lapsed(w, expires) /\ Backed(w, key, ttl) /\ Ordered(w)
  <2>1. \A i \in DOMAIN w : i + 1 # 1
    BY <1>1, PopType
  <2> QED
    BY <1>1, <2>1, PopType, PopKeeps, Before DEF Orderly
<1>3. CASE ~isOwner(m)
  <2>1. wire' = [wire EXCEPT ![m] = w] /\ UNCHANGED expires
    BY <1>3 DEF NotRenewed
  <2>2. wire'[m] = w /\ \A n \in Managers : n # m => wire'[n] = wire[n]
    BY <2>1 DEF TypeOK
  <2> HIDE DEF w
  <2>3. Owned(m)' /\ Orderly(m)'
    BY SMTT(30), <1>1, <1>2, <2>1, <2>2, Before DEF Owned, Orderly
  <2>4. Backs(m)'
    BY <1>1, <1>3 DEF Backs, Holds, isOwner
  <2>5. Elsewhere(m)
    BY <1>1, <2>1, <2>2, OwnLocks, Before DEF Elsewhere
  <2> QED
    BY <2>3, <2>4, <2>5 DEF Sound
<1>4. CASE isOwner(m)
  <2> DEFINE l == lock[m]
             v == Append(w, Command("unlockRenew", l))
             ey == [expires EXCEPT ![l] = 0]
  <2>1. SendOn(w, m, "unlockRenew", l) /\ expires' = ey
    BY <1>4 DEF NotRenewed, Invalidate
  <2>2. /\ l \in Own(m) /\ l \in Locks /\ "unlockRenew" \in Ops
        /\ "unlockRenew" \notin Acquires \cup Extends
    BY <1>4, OwnLocks, Before DEF isOwner, Owned, Ops, Acquires, Extends
  <2>3. /\ ey \in [Locks -> Nat] /\ ey[l] = 0
        /\ \A k \in Locks : k # l => ey[k] = expires[k]
        /\ \A k \in Locks : ey[k] <= expires[k] /\ ey[k] <= Lease
    BY <2>2, Before, TimesAssumption
  <2> HIDE DEF l, w, ey, c
  <2>5. /\ wire'[m] = v
        /\ \A n \in Managers : n # m => wire'[n] = wire[n]
        /\ \A i \in DOMAIN wire'[m] : wire'[m][i].lock \in Own(m) /\ wire'[m][i].left <= Lease
        /\ Backed(wire'[m], key, ttl) /\ Ordered(wire'[m])
    BY <1>1, <1>2, <2>1, <2>2, SentKeeps DEF w
  <2>6. Single(v, retries[m])
    BY <1>2, <2>2, PushSingle
  <2>7. Fresh(v, retries[m], l)
    <3>1. /\ \A i \in DOMAIN w : w[i].op \in Acquires => w[i].lock # l
          /\ \A r \in retries[m] : r.op = "lock" => r.lock # l
      BY <1>2 DEF Fresh, l
    <3> QED
      BY <1>2, <2>2, <3>1, PushFresh DEF l
  <2>8. Lapsed(v, ey)
    <3>1. Lapsed(w, ey)
      BY <1>2, <2>3, LapsedDown, Before
    <3> QED
      BY <1>2, <2>2, <2>3, <3>1, PushLapsed
  <2>9. Owned(m)' /\ Orderly(m)'
    BY <1>1, <2>1, <2>2, <2>5, <2>6, <2>7, <2>8, Before DEF Owned, Orderly, l
  <2>10. Backs(m)'
    BY <1>1, <2>1, <2>3 DEF Backs, Holds, l
  <2>11. Elsewhere(m)
    BY <1>1, <2>1, <2>2, <2>3, <2>5, OwnLocks DEF Elsewhere
  <2> QED
    BY <2>9, <2>10, <2>11 DEF Sound
<1> QED
  BY <1>3, <1>4

LEMMA CrashKeeps ==
  ASSUME TypeOK, LeaseInv, NEW m \in Managers, Crash(m)
  PROVE  Sound(m)' /\ Elsewhere(m)
<1>1. /\ lock' = [lock EXCEPT ![m] = NoLock]
      /\ wire' = [wire EXCEPT ![m] = <<>>] /\ retries' = [retries EXCEPT ![m] = {}]
      /\ expires' = [l \in Locks |-> IF l[1] = m THEN 0 ELSE expires[l]]
      /\ UNCHANGED <<key, ttl>>
  BY DEF Crash
<1>2. /\ lock'[m] = NoLock /\ wire'[m] = <<>> /\ retries'[m] = {}
      /\ \A n \in Managers : n # m =>
           wire'[n] = wire[n] /\ retries'[n] = retries[n] /\ lock'[n] = lock[n]
  BY <1>1 DEF TypeOK
<1>3. \A i \in DOMAIN wire'[m] : FALSE
  BY <1>2
<1>4. Owned(m)' /\ Orderly(m)'
  BY <1>2, <1>3 DEF Owned, Orderly, Single, Fresh, Lapsed, Backed, Ordered
<1>5. Backs(m)'
  BY <1>2 DEF Backs, Holds, isOwner
<1>6. /\ \A l \in Locks : l \notin Own(m) => expires'[l] = expires[l]
      /\ \A l \in Own(m) : expires'[l] <= Lease
  <2>1. \A l \in Locks : l \notin Own(m) => l[1] # m
    BY DEF Locks, Own
  <2> QED
    BY <1>1, <2>1, OwnLocks, Before, TimesAssumption
<1>7. Elsewhere(m)
  BY <1>1, <1>2, <1>6 DEF Elsewhere
<1> QED
  BY <1>4, <1>5, <1>7 DEF Sound

\* Redis executes a command: an unlock takes the key only from a lease that is over or
\* being released.
LEMMA ExecuteKeeps ==
  ASSUME TypeOK, LeaseInv, NEW m \in Managers, Execute(m)
  PROVE  Sound(m)' /\ Elsewhere(m)
<1> DEFINE w == wire[m]
           v == wire'[m]
<1>1. PICK i \in DOMAIN w, r \in {"ok", "no"} :
        /\ w[i].reply = "none" /\ \A j \in 1..(i - 1) : w[j].reply # "none"
        /\ wire' = [wire EXCEPT ![m][i].reply = r]
        /\ \/ r = "no" /\ UNCHANGED <<key, ttl>>
           \/ w[i].op = "lock" /\ key = NoLock /\ key' = w[i].lock /\ ttl' = Ttl
           \/ w[i].op = "extend" /\ key = w[i].lock /\ key' = w[i].lock /\ ttl' = Ttl
           \/ /\ w[i].op \notin {"lock", "extend"} /\ key = w[i].lock
              /\ key' = NoLock /\ ttl' = 0
  BY DEF Execute
<1>2. UNCHANGED <<lock, expires, retries>>
  BY DEF Execute, local
<1>3. /\ \A n \in Managers : n # m => wire'[n] = wire[n]
      /\ v = [w EXCEPT ![i] = [w[i] EXCEPT !.reply = r]]
  BY <1>1, ExecuteType
<1>4. /\ DOMAIN v = DOMAIN w
      /\ \A j \in DOMAIN w : /\ j # i => v[j] = w[j]
                             /\ v[j].op = w[j].op /\ v[j].lock = w[j].lock /\ v[j].left = w[j].left
                             /\ j = i => v[j].reply = r
  <2>1. w[i] \in Commands /\ [w[i] EXCEPT !.reply = r].reply = r
        /\ [w[i] EXCEPT !.reply = r].op = w[i].op
        /\ [w[i] EXCEPT !.reply = r].lock = w[i].lock
        /\ [w[i] EXCEPT !.reply = r].left = w[i].left
    BY Before DEF Commands
  <2> QED
    BY <1>3, <2>1, Before
<1>5. /\ w \in Seq(Commands) /\ \A j \in DOMAIN w : j \in Int /\ w[j] \in Commands
      /\ \A j \in DOMAIN w : j < i => w[j].reply # "none"
      /\ \A j \in DOMAIN w : w[j].reply # "none" => j <= i
  <2>1. \A j \in DOMAIN w : j \in Int /\ (j < i => j \in 1..(i - 1))
    BY Before
  <2>2. \A j \in DOMAIN w : w[j].reply # "none" => ~(i < j)
    BY <1>1, Before DEF Orderly, Ordered
  <2> QED
    BY <1>1, <2>1, <2>2, Before
<1>6. /\ Single(w, retries[m]) /\ Fresh(w, retries[m], lock[m])
      /\ Lapsed(w, expires) /\ Backed(w, key, ttl) /\ Ordered(w) /\ Owned(m) /\ Backs(m)
  BY Before DEF Orderly
<1>7. w[i].lock \in Own(m) /\ w[i].lock # NoLock
  BY <1>6, OwnLocks DEF Owned
<1> HIDE DEF w, v
<1>8. Single(v, retries[m]) /\ Fresh(v, retries[m], lock[m])
  BY <1>4, <1>6, AlikeKeeps
<1>9. Lapsed(v, expires)
  BY <1>4, <1>6 DEF Lapsed
<1>10. Ordered(v)
  <2> SUFFICES ASSUME NEW j \in DOMAIN w, NEW k \in DOMAIN w, v[j].reply = "none", j < k
               PROVE  v[k].reply = "none"
    BY <1>4 DEF Ordered
  <2>1. w[j].reply = "none" /\ j # i
    BY <1>4
  <2>2. w[k].reply = "none" /\ k # i
    BY <1>5, <1>6, <2>1 DEF Ordered
  <2> QED
    BY <1>4, <2>2
<1>11. Backed(v, key', ttl')
  <2> SUFFICES ASSUME NEW j \in DOMAIN w, w[j].op \in {"lock", "extend"}, v[j].reply = "ok",
                      w[j].left > 0,
                      ~\E k \in DOMAIN w : k > j /\ w[k].op \in Unlocks
               PROVE  key' = w[j].lock /\ ttl' > w[j].left
    BY <1>4 DEF Backed
  <2>0. w[j].left \in Nat /\ w[j].left <= Lease /\ Ttl > w[j].left
    <3>1. w[j].left \in Nat /\ w[j].left <= Lease
      BY <1>5, <1>6 DEF Commands, Owned, w
    <3> QED
      BY <3>1, TimesAssumption
  <2>1. CASE j = i
    BY <1>1, <1>4, <2>0, <2>1
  <2>2. CASE j # i
    <3>1. w[j].reply = "ok" /\ key = w[j].lock /\ ttl > w[j].left
      BY <1>4, <1>6, <2>2 DEF Backed
    <3>2. j < i
      BY <1>5, <2>2, <3>1
    <3>3. w[j].lock \in Own(m) /\ w[j].lock # NoLock
      BY <1>6, OwnLocks DEF Owned, w
    <3>4. CASE UNCHANGED <<key, ttl>>
      BY <3>1, <3>4
    <3>5. CASE w[i].op = "extend" /\ key' = w[i].lock /\ key = w[i].lock /\ ttl' = Ttl
      BY <2>0, <3>1, <3>5
    <3>6. CASE w[i].op \notin {"lock", "extend"} /\ key = w[i].lock
      <4>1. w[i].op \in Ops /\ w[i].op \notin Unlocks
        BY <1>5, <3>2, <3>6 DEF Commands
      <4>2. w[i].op \in Acquires \/ w[i].op \in Extends
        BY <4>1, <3>6 DEF Ops, Acquires, Extends, Unlocks
      <4>3. w[i].op \notin Acquires /\ w[j].op \notin Acquires
        BY <1>6, <2>2, <3>1, <3>6 DEF Fresh
      <4>4. w[j].op \in Extends
        BY <4>3 DEF Acquires, Extends
      <4> QED
        BY <1>6, <2>2, <3>1, <3>6, <4>2, <4>3, <4>4 DEF Single
    <3> QED
      BY <1>1, <3>1, <3>3, <3>4, <3>5, <3>6
  <2> QED
    BY <2>1, <2>2
<1>12. Owned(m)'
  BY <1>2, <1>4, <1>6 DEF Owned, w, v
<1>13. Orderly(m)'
  BY <1>2, <1>8, <1>9, <1>10, <1>11 DEF Orderly, v
<1>14. Backs(m)'
  <2> SUFFICES ASSUME isOwner(m), expires[lock[m]] > 0, ~Releasing(m)'
               PROVE  key' = lock[m] /\ ttl' > expires[lock[m]]
    BY <1>2 DEF Backs, Holds, isOwner
  <2>1. ~Releasing(m) /\ \A j \in DOMAIN w : w[j].op \notin Unlocks
    BY <1>2, <1>4 DEF Releasing, Pending, Unlocks, w, v
  <2>2. key = lock[m] /\ ttl > expires[lock[m]] /\ lock[m] # NoLock /\ lock[m] \in Locks
    BY <1>6, <2>1, Before DEF Backs, Holds, isOwner
  <2>3. CASE UNCHANGED <<key, ttl>>
    BY <2>2, <2>3
  <2>4. CASE w[i].op = "extend" /\ key' = w[i].lock /\ key = w[i].lock /\ ttl' = Ttl
    <3>1. expires[lock[m]] \in Nat /\ expires[lock[m]] <= Lease
      BY <2>2, Before
    <3>2. Ttl > expires[lock[m]]
      BY <3>1, TimesAssumption
    <3> QED
      BY <2>2, <2>4, <3>2
  <2>5. CASE w[i].op \notin {"lock", "extend"} /\ key = w[i].lock
    <3>1. w[i].op \in Ops /\ w[i].op \notin Unlocks
      BY <1>5, <2>1 DEF Commands
    <3>2. w[i].op \notin Acquires
      BY <1>6, <2>2, <2>5 DEF Fresh
    <3>3. w[i].op = "undoExtend"
      BY <2>5, <3>1, <3>2 DEF Ops, Acquires, Unlocks
    <3>4. expires[lock[m]] = 0
      BY <1>6, <2>2, <2>5, <3>3 DEF Lapsed
    <3> QED
      BY <3>4
  <2> QED
    BY <1>1, <2>2, <2>3, <2>4, <2>5
<1>15. Elsewhere(m)
  BY <1>1, <1>2, <1>3, <1>7, OwnLocks, Before DEF Elsewhere
<1> QED
  BY <1>12, <1>13, <1>14, <1>15 DEF Sound

\* A pass of time: keys last longer than leases.
LEMMA TickKeeps ==
  ASSUME TypeOK, LeaseInv, Tick
  PROVE  LeaseInv'
<1>1. /\ UNCHANGED <<lock, retries>>
      /\ key' = IF ttl <= 1 THEN NoLock ELSE key
      /\ ttl' = IF ttl > 0 THEN ttl - 1 ELSE 0
      /\ \A l \in Locks : expires'[l] = IF expires[l] > 0 THEN expires[l] - 1 ELSE 0
  BY TickType DEF Tick
<1>2. ttl \in Nat /\ \A l \in Locks : expires[l] \in Nat /\ expires[l] <= Lease
  BY DEF TypeOK, LeaseInv
<1>3. \A l \in Locks : expires'[l] <= Lease
  BY <1>1, <1>2, TimesAssumption
<1>4. ASSUME NEW m \in Managers
      PROVE  Sound(m)'
  <2> DEFINE w == wire[m]
             v == wire'[m]
  <2>0. DOMAIN v = DOMAIN w
    BY TickType
  <2>1. ASSUME NEW i \in DOMAIN w
        PROVE  /\ w[i].lock \in Locks /\ w[i].left \in Nat /\ w[i].left <= Lease
               /\ v[i].op = w[i].op /\ v[i].lock = w[i].lock
               /\ v[i].reply = w[i].reply
               /\ v[i].left = IF w[i].left > 0 THEN w[i].left - 1 ELSE 0
    <3>1. w[i] \in Commands /\ w[i].left <= Lease
      BY Before DEF Owned
    <3> DEFINE left == IF w[i].left > 0 THEN w[i].left - 1 ELSE 0
    <3>2. v[i] = [w[i] EXCEPT !.left = left]
      BY TickType
    <3> HIDE DEF left, v, w
    <3>3. /\ v[i].op = w[i].op /\ v[i].lock = w[i].lock
          /\ v[i].reply = w[i].reply /\ v[i].left = left
          /\ w[i].lock \in Locks /\ w[i].left \in Nat
      BY <3>1, <3>2 DEF Commands
    <3> QED
      BY <3>1, <3>3 DEF left
  <2>2. /\ Single(w, retries[m]) /\ Fresh(w, retries[m], lock[m])
        /\ Lapsed(w, expires) /\ Backed(w, key, ttl) /\ Ordered(w) /\ Owned(m) /\ Backs(m)
    BY Before DEF Orderly
  <2>3. Owned(m)'
    <3>1. \A i \in DOMAIN w : v[i].left <= Lease
      BY <2>0, <2>1, TimesAssumption
    <3> QED
      BY <1>1, <2>0, <2>1, <2>2, <3>1 DEF Owned
  <2> HIDE DEF w, v
  <2>4. Single(v, retries[m]) /\ Fresh(v, retries[m], lock[m])
    BY <2>0, <2>1, <2>2, AlikeKeeps
  <2>5. Lapsed(v, expires')
    BY <1>1, <1>2, <2>0, <2>1, <2>2 DEF Lapsed
  <2>6. Ordered(v)
    BY <2>0, <2>1, <2>2 DEF Ordered
  <2>7. Backed(v, key', ttl')
    <3> SUFFICES ASSUME NEW i \in DOMAIN w, w[i].op \in {"lock", "extend"}, w[i].reply = "ok",
                        v[i].left > 0,
                        ~\E j \in DOMAIN w : j > i /\ w[j].op \in Unlocks
                 PROVE  key' = w[i].lock /\ ttl' > v[i].left
      BY <2>0, <2>1 DEF Backed
    <3>1. w[i].left > 1 /\ v[i].left = w[i].left - 1 /\ w[i].left \in Nat
      BY <2>0, <2>1
    <3>2. key = w[i].lock /\ ttl > w[i].left
      BY <2>2, <3>1 DEF Backed
    <3> QED
      BY <1>1, <1>2, <3>1, <3>2
  <2>8. Orderly(m)'
    BY <1>1, <2>4, <2>5, <2>6, <2>7 DEF Orderly, v
  <2>9. Backs(m)'
    <3> SUFFICES ASSUME isOwner(m), expires'[lock[m]] > 0, ~Releasing(m)'
                 PROVE  key' = lock[m] /\ ttl' > expires'[lock[m]]
      BY <1>1 DEF Backs, Holds, isOwner
    <3>1. ~Releasing(m) /\ lock[m] # NoLock /\ lock[m] \in Locks
      BY <1>1, <2>0, <2>1, Before DEF Releasing, Pending, isOwner, w, v
    <3>2. /\ expires[lock[m]] > 1 /\ expires'[lock[m]] = expires[lock[m]] - 1
          /\ expires[lock[m]] \in Nat
      BY <1>1, <1>2, <3>1
    <3>3. key = lock[m] /\ ttl > expires[lock[m]]
      BY <2>2, <3>1, <3>2 DEF Backs, Holds, isOwner
    <3> QED
      BY <1>1, <1>2, <3>2, <3>3
  <2> QED
    BY <2>3, <2>8, <2>9 DEF Sound
<1> QED
  BY <1>3, <1>4 DEF LeaseInv, Sound

-----------------------------------------------------------------------------
(* What keeps two renewals of a lock apart.                                 *)

OnTime(m) == Paced(m) /\ Spent(wire[m], retries[m], key)

\* A step of m leaves the timers of the others alone, and the key to m or to nobody.
TimersElsewhere(m) ==
  /\ \A n \in Managers : n # m => renewId'[n] = renewId[n]
  /\ key' = key \/ key' = NoLock \/ key' \in Own(m)

LEMMA OthersOnTime ==
  ASSUME TypeOK, LeaseInv, TimeInv, NEW m \in Managers, Elsewhere(m), TimersElsewhere(m),
         OnTime(m)'
  PROVE  TimeInv'
<1> SUFFICES ASSUME NEW n \in Managers, n # m
             PROVE  OnTime(n)'
  BY DEF TimeInv, OnTime
<1>1. /\ wire'[n] = wire[n] /\ retries'[n] = retries[n] /\ lock'[n] = lock[n]
      /\ renewId'[n] = renewId[n]
  BY DEF Elsewhere, TimersElsewhere
<1>2. \A l \in Own(n) : /\ l \in Locks /\ l # NoLock /\ expires'[l] = expires[l]
                        /\ key' = l => key = l
  BY OwnLocks, OwnDisjoint DEF Elsewhere, TimersElsewhere
<1>3. Owned(n) /\ Paced(n) /\ Spent(wire[n], retries[n], key)
  BY DEF LeaseInv, TimeInv
<1>4. /\ lock[n] # NoLock => lock[n] \in Own(n)
      /\ \A i \in DOMAIN wire[n] : wire[n][i].lock \in Own(n)
      /\ \A r \in retries[n] : r.lock \in Own(n)
  BY <1>3 DEF Owned
<1>5. Spent(wire[n], retries[n], key')
  BY <1>2, <1>3, <1>4 DEF Spent
<1>6. ASSUME NEW left, Prompt(wire[n], key, left)
      PROVE  Prompt(wire[n], key', left)
  BY <1>2, <1>4, <1>6 DEF Prompt
<1>7. Paced(n)'
  BY <1>1, <1>2, <1>3, <1>4, <1>6 DEF Paced, isOwner
<1> QED
  BY <1>1, <1>5, <1>7 DEF OnTime

\* A step after which no renewal is under way that was not before, and none that can succeed
\* is newly asked for.
LEMMA FewerKeep ==
  ASSUME TypeOK, NEW m \in Managers, OnTime(m),
         \A i \in DOMAIN wire'[m] : wire'[m][i].op \in Extends =>
           \/ \E j \in DOMAIN wire[m] : wire[m][j] = wire'[m][i]
           \/ /\ wire'[m][i].reply = "none"
              /\ wire'[m][i].op = "undoExtend" \/ key # wire'[m][i].lock
              /\ Extending(wire[m], retries[m], wire'[m][i].lock),
         \A r \in retries'[m] : r.op = "extend" =>
           \/ r \in retries[m]
           \/ key # r.lock /\ Extending(wire[m], retries[m], r.lock),
         renewId'[m] = renewId[m] \/ ~renewId'[m].on,
         \/ lock'[m] = NoLock
         \/ /\ lock'[m] = lock[m]
            /\ lock[m] # NoLock => expires'[lock[m]] \in {expires[lock[m]], 0},
         UNCHANGED key
  PROVE  OnTime(m)'
<1> DEFINE v == wire'[m]
           w == wire[m]
           ss == retries'[m]
           rs == retries[m]
<1>1. \A l : Extending(v, ss, l) => Extending(w, rs, l)
  BY DEF Extending
<1>2. Spent(v, ss, key)
  <2>1. Spent(w, rs, key)
    BY DEF OnTime
  <2>2. ASSUME NEW i \in DOMAIN v, v[i].op \in Extends,
               v[i].reply = "no" \/ (v[i].op = "undoExtend" /\ v[i].reply = "ok")
        PROVE  key # v[i].lock
    <3>1. PICK j \in DOMAIN w : w[j] = v[i]
      BY <2>2
    <3> QED
      BY <2>1, <2>2, <3>1 DEF Spent
  <2>3. ASSUME NEW r \in ss, r.op = "extend"
        PROVE  key # r.lock
    BY <2>1, <2>3 DEF Spent
  <2> QED
    BY <2>2, <2>3 DEF Spent
<1>3. ASSUME NEW left, Prompt(w, key, left)
      PROVE  Prompt(v, key, left)
  BY <1>3 DEF Prompt, Extends
<1>4. renewId[m].left \in Nat
  BY DEF TypeOK, Timers
<1>5. Paced(m)'
  <2> SUFFICES ASSUME renewId'[m].on
               PROVE  /\ Prompt(v, key, renewId'[m].left)
                      /\ lock'[m] # NoLock =>
                           /\ expires'[lock'[m]] > 0 =>
                                expires'[lock'[m]] + RenewTime <= Lease + renewId'[m].left
                           /\ Extending(v, ss, lock'[m]) =>
                                expires'[lock'[m]] <= renewId'[m].left
    BY DEF Paced, isOwner
  <2>1. renewId'[m] = renewId[m] /\ renewId[m].on
    OBVIOUS
  <2>2. /\ Prompt(w, key, renewId[m].left)
        /\ lock[m] # NoLock =>
             /\ expires[lock[m]] > 0 => expires[lock[m]] + RenewTime <= Lease + renewId[m].left
             /\ Extending(w, rs, lock[m]) => expires[lock[m]] <= renewId[m].left
    BY <2>1 DEF OnTime, Paced, isOwner
  <2>3. Prompt(v, key, renewId'[m].left)
    BY <1>3, <2>1, <2>2
  <2>4. ASSUME lock'[m] # NoLock
        PROVE  /\ expires'[lock'[m]] > 0 =>
                    expires'[lock'[m]] + RenewTime <= Lease + renewId'[m].left
               /\ Extending(v, ss, lock'[m]) => expires'[lock'[m]] <= renewId'[m].left
    <3>1. lock'[m] = lock[m] /\ lock[m] # NoLock
      BY <2>4
    <3> HIDE DEF v, w, ss, rs
    <3>2. CASE expires'[lock[m]] = 0
      BY <1>4, <2>1, <3>1, <3>2
    <3>3. CASE expires'[lock[m]] = expires[lock[m]]
      BY <1>1, <2>1, <2>2, <3>1, <3>3
    <3> QED
      BY <3>1, <3>2, <3>3
  <2> QED
    BY <2>3, <2>4
<1> QED
  BY <1>2, <1>5 DEF OnTime

LEMMA BeforeTime ==
  ASSUME TypeOK, TimeInv, NEW m \in Managers
  PROVE  /\ OnTime(m) /\ renewId[m] \in Timers /\ renewId[m].left \in Nat
         /\ NoTimer.on = FALSE
BY DEF TimeInv, OnTime, TypeOK, Timers, NoTimer

\* A command that is no renewal.
LEMMA PushOnTime ==
  ASSUME TypeOK, NEW m \in Managers, OnTime(m), NEW w \in Seq(Commands),
         w = wire[m] \/ (wire[m] # <<>> /\ w = Tail(wire[m])),
         NEW op \in Ops, NEW l \in Locks, op \notin Extends, SendOn(w, m, op, l),
         UNCHANGED <<retries, key>>,
         renewId'[m] = renewId[m] \/ ~renewId'[m].on,
         \/ lock'[m] = NoLock
         \/ /\ lock'[m] = lock[m]
            /\ lock[m] # NoLock => expires'[lock[m]] \in {expires[lock[m]], 0}
  PROVE  OnTime(m)'
<1>1. wire'[m] = Append(w, Command(op, l))
  BY SendType
<1>2. /\ \A i \in DOMAIN wire'[m] : i \in DOMAIN w \/ wire'[m][i].op = op
      /\ \A i \in DOMAIN w : wire'[m][i] = w[i]
  BY <1>1, PushKeeps
<1>3. \A i \in DOMAIN w : \E j \in DOMAIN wire[m] : wire[m][j] = w[i]
  <2>1. wire[m] \in Seq(Commands)
    BY DEF TypeOK
  <2>2. CASE w = wire[m]
    BY <2>2
  <2>3. CASE wire[m] # <<>> /\ w = Tail(wire[m])
    BY <2>1, <2>3, PopKeeps
  <2> QED
    BY <2>2, <2>3
<1>4. \A i \in DOMAIN wire'[m] : wire'[m][i].op \in Extends =>
        \E j \in DOMAIN wire[m] : wire[m][j] = wire'[m][i]
  BY <1>2, <1>3
<1> QED
  BY <1>4, FewerKeep

\* An answer that is handled.
LEMMA PopOnTime ==
  ASSUME TypeOK, NEW m \in Managers, OnTime(m), wire[m] # <<>>, wire'[m] = Tail(wire[m]),
         UNCHANGED <<retries, key>>,
         renewId'[m] = renewId[m] \/ ~renewId'[m].on,
         lock'[m] = NoLock
  PROVE  OnTime(m)'
<1>1. \A i \in DOMAIN wire'[m] : \E j \in DOMAIN wire[m] : wire[m][j] = wire'[m][i]
  <2>1. wire[m] \in Seq(Commands)
    BY DEF TypeOK
  <2> QED
    BY <2>1, PopKeeps
<1> QED
  BY <1>1, FewerKeep

LEMMA LittleOnTime ==
  ASSUME TypeOK, LeaseInv, TimeInv, NEW m \in Managers,
         \/ Start(m) \/ Elect(m) \/ Stray(m) \/ Stop(m) \/ NotElected(m) \/ NotRenewed(m)
         \/ GivenUp(m) \/ Released(m) \/ Crash(m)
  PROVE  OnTime(m)' /\ TimersElsewhere(m)
<1>0. /\ OnTime(m) /\ wire[m] \in Seq(Commands) /\ NoTimer.on = FALSE
      /\ {"lock", "unlockRenew", "unlockRelease"} \cap Extends = {}
      /\ {"lock", "unlockRenew", "unlockRelease"} \subseteq Ops
      /\ wire \in [Managers -> Seq(Commands)]
      /\ renewId \in [Managers -> Timers] /\ lock \in [Managers -> Locks \cup {NoLock}]
      /\ expires \in [Locks -> Nat] /\ lock[m] \in Locks \cup {NoLock}
  BY BeforeTime, Before DEF Extends, Ops, TypeOK
<1>1. CASE Start(m) \/ Elect(m) \/ Stray(m)
  <2>1. UNCHANGED <<lock, expires, renewId, retries, key>> /\ Acquire(m)
    BY <1>1 DEF Start, Elect, Stray
  <2>2. CASE isOwner(m)
    <3>1. UNCHANGED wire
      BY <2>1, <2>2 DEF Acquire
    <3> QED
      BY <1>0, <2>1, <3>1 DEF OnTime, Paced, isOwner, TimersElsewhere
  <2>3. CASE ~isOwner(m)
    <3>1. PICK s \in Serials : SendOn(wire[m], m, "lock", <<m, s>>)
      BY <2>1, <2>3 DEF Acquire
    <3>2. <<m, s>> \in Locks
      BY DEF Locks
    <3>3. OnTime(m)'
      BY <1>0, <2>1, <3>1, <3>2, PushOnTime
    <3> QED
      BY <2>1, <3>3 DEF TimersElsewhere
  <2> QED
    BY <2>2, <2>3
<1>2. CASE Stop(m)
  <2>1. /\ UNCHANGED <<lock, retries, key>> /\ renewId' = [renewId EXCEPT ![m] = NoTimer]
    BY <1>2 DEF Stop, clearTimers
  <2>2. /\ ~renewId'[m].on /\ \A n \in Managers : n # m => renewId'[n] = renewId[n]
    BY <1>0, <2>1
  <2>3. CASE isOwner(m)
    <3>1. /\ lock[m] \in Locks /\ SendOn(wire[m], m, "unlockRelease", lock[m])
          /\ expires'[lock[m]] = 0
      BY <1>0, <1>2, <2>3 DEF Stop, Invalidate, isOwner
    <3>2. OnTime(m)'
      BY <1>0, <2>1, <2>2, <3>1, PushOnTime
    <3> QED
      BY <2>1, <2>2, <3>2 DEF TimersElsewhere
  <2>4. CASE ~isOwner(m)
    <3>1. UNCHANGED <<wire, expires>>
      BY <1>2, <2>4 DEF Stop
    <3>2. OnTime(m)'
      BY <1>0, <2>1, <2>2, <3>1 DEF OnTime, Paced
    <3> QED
      BY <2>1, <2>2, <3>2 DEF TimersElsewhere
  <2> QED
    BY <2>3, <2>4
<1>3. CASE NotElected(m) \/ GivenUp(m) \/ Released(m)
  <2>1. /\ wire[m] # <<>> /\ wire' = [wire EXCEPT ![m] = Tail(wire[m])]
        /\ lock' = [lock EXCEPT ![m] = NoLock]
        /\ renewId' = renewId \/ renewId' = [renewId EXCEPT ![m] = NoTimer]
        /\ UNCHANGED <<retries, key>>
    BY <1>3 DEF NotElected, GivenUp, Released, LockFailed, Answer, electLater
  <2>2. /\ renewId'[m] = renewId[m] \/ ~renewId'[m].on
        /\ \A n \in Managers : n # m => renewId'[n] = renewId[n]
    BY <1>0, <2>1
  <2>3. wire'[m] = Tail(wire[m]) /\ lock'[m] = NoLock
    BY <1>0, <2>1
  <2>4. OnTime(m)'
    BY <1>0, <2>1, <2>2, <2>3, PopOnTime
  <2> QED
    BY <2>1, <2>2, <2>4 DEF TimersElsewhere
<1>4. CASE NotRenewed(m)
  <2>1. /\ wire[m] # <<>> /\ UNCHANGED <<lock, retries, key>>
        /\ renewId' = [renewId EXCEPT ![m] = NoTimer]
    BY <1>4 DEF NotRenewed, ExtendFailed, Answer, electLater, clearTimers
  <2>2. /\ ~renewId'[m].on /\ \A n \in Managers : n # m => renewId'[n] = renewId[n]
        /\ Tail(wire[m]) \in Seq(Commands) /\ lock'[m] = lock[m]
    BY <1>0, <2>1, PopType
  <2>3. CASE isOwner(m)
    <3>1. /\ lock[m] \in Locks /\ SendOn(Tail(wire[m]), m, "unlockRenew", lock[m])
          /\ expires'[lock[m]] = 0
      BY <1>0, <1>4, <2>3 DEF NotRenewed, Invalidate, isOwner
    <3>2. OnTime(m)'
      BY <1>0, <2>1, <2>2, <3>1, PushOnTime
    <3> QED
      BY <2>1, <2>2, <3>2 DEF TimersElsewhere
  <2>4. CASE ~isOwner(m)
    <3>1. wire'[m] = Tail(wire[m]) /\ lock'[m] = NoLock
      BY <1>0, <1>4, <2>2, <2>4 DEF NotRenewed, isOwner
    <3>2. OnTime(m)'
      BY <1>0, <2>1, <2>2, <3>1, PopOnTime
    <3> QED
      BY <2>1, <2>2, <3>2 DEF TimersElsewhere
  <2> QED
    BY <2>3, <2>4
<1>5. CASE Crash(m)
  <2>1. /\ lock' = [lock EXCEPT ![m] = NoLock]
        /\ wire' = [wire EXCEPT ![m] = <<>>] /\ retries' = [retries EXCEPT ![m] = {}]
        /\ renewId' = [renewId EXCEPT ![m] = NoTimer] /\ UNCHANGED key
    BY <1>5 DEF Crash, clearTimers
  <2>2. /\ ~renewId'[m].on /\ \A n \in Managers : n # m => renewId'[n] = renewId[n]
        /\ wire'[m] = <<>> /\ retries'[m] = {}
    BY <1>0, <2>1 DEF TypeOK
  <2>3. \A i \in DOMAIN wire'[m] : FALSE
    BY <2>2
  <2>4. OnTime(m)'
    BY <2>2, <2>3 DEF OnTime, Paced, Spent
  <2> QED
    BY <2>1, <2>2, <2>4 DEF TimersElsewhere
<1> QED
  BY <1>1, <1>2, <1>3, <1>4, <1>5

\* Redlock's own steps after a failed attempt of a renewal.
LEMMA AgainOnTime ==
  ASSUME TypeOK, LeaseInv, TimeInv, NEW m \in Managers, TooLate(m) \/ TryAgain(m) \/ Retry(m)
  PROVE  OnTime(m)' /\ TimersElsewhere(m)
<1>0. /\ UNCHANGED <<lock, renewId, expires, key>> /\ OnTime(m)
      /\ wire[m] \in Seq(Commands)
  BY BeforeTime, Before DEF TooLate, TryAgain, Retry, local
<1>1. TimersElsewhere(m)
  BY <1>0 DEF TimersElsewhere
<1>2. Spent(wire[m], retries[m], key)
  BY <1>0 DEF OnTime
<1>3. CASE TooLate(m)
  <2> DEFINE c == Head(wire[m])
             w == Tail(wire[m])
  <2>1. PICK op \in {"undoLock", "undoExtend"} :
          /\ wire[m] # <<>> /\ SendOn(w, m, op, c.lock) /\ UNCHANGED retries
          /\ op = "undoExtend" => c.op = "extend"
    BY <1>3 DEF TooLate, Answer
  <2>2. /\ c = wire[m][1] /\ 1 \in DOMAIN wire[m] /\ c.lock \in Locks
        /\ w \in Seq(Commands) /\ op \in Ops
        /\ \A i \in DOMAIN w : i + 1 \in DOMAIN wire[m] /\ w[i] = wire[m][i + 1]
    BY <1>0, <2>1, PopType, PopKeeps DEF Commands, Ops
  <2>3. wire'[m] = Append(w, Command(op, c.lock)) /\ retries'[m] = retries[m]
    BY <2>1, <2>2, SendType
  <2> HIDE DEF c, w
  <2>4. \A i \in DOMAIN wire'[m] :
          \/ i \in DOMAIN w /\ wire'[m][i] = w[i]
          \/ wire'[m][i].op = op /\ wire'[m][i].lock = c.lock /\ wire'[m][i].reply = "none"
    BY <2>2, <2>3, PushKeeps
  <2>5. ASSUME NEW i \in DOMAIN wire'[m], wire'[m][i].op \in Extends
        PROVE  \/ \E j \in DOMAIN wire[m] : wire[m][j] = wire'[m][i]
               \/ /\ wire'[m][i].reply = "none" /\ wire'[m][i].op = "undoExtend"
                  /\ Extending(wire[m], retries[m], wire'[m][i].lock)
    <3>1. CASE i \in DOMAIN w /\ wire'[m][i] = w[i]
      BY <2>2, <3>1
    <3>2. CASE wire'[m][i].op = op /\ wire'[m][i].lock = c.lock /\ wire'[m][i].reply = "none"
      BY <2>1, <2>2, <2>5, <3>2 DEF Extends, Extending
    <3> QED
      BY <2>4, <3>1, <3>2
  <2> QED
    BY <1>0, <1>1, <2>3, <2>5, FewerKeep
<1>4. CASE TryAgain(m)
  <2> DEFINE c == Head(wire[m])
             w == Tail(wire[m])
  <2>1. /\ wire[m] # <<>> /\ wire' = [wire EXCEPT ![m] = w]
    BY <1>4 DEF TryAgain
  <2>2. PICK r : /\ retries' = [retries EXCEPT ![m] = retries[m] \cup {r}]
                 /\ r.op = "extend" =>
                      /\ r.lock = c.lock /\ c.op \in Extends
                      /\ c.reply = "no" \/ (c.op = "undoExtend" /\ c.reply = "ok")
    <3>1. CASE /\ LockFailed(m)
               /\ retries' = [retries EXCEPT ![m] =
                                retries[m] \cup {[op |-> "lock", lock |-> c.lock]}]
      <4> DEFINE q == [op |-> "lock", lock |-> c.lock]
      <4>1. q.op # "extend"
        OBVIOUS
      <4> HIDE DEF q
      <4> WITNESS q
      <4> QED
        BY <3>1, <4>1 DEF q
    <3>2. CASE /\ ExtendFailed(m)
               /\ retries' = [retries EXCEPT ![m] =
                                retries[m] \cup {[op |-> "extend", lock |-> c.lock]}]
      <4>1. c.op \in Extends /\ (c.reply = "no" \/ (c.op = "undoExtend" /\ c.reply = "ok"))
        BY <3>2 DEF ExtendFailed, Answer, Extends
      <4> DEFINE q == [op |-> "extend", lock |-> c.lock]
      <4>2. q.lock = c.lock
        OBVIOUS
      <4> WITNESS q
      <4> HIDE DEF c
      <4> QED
        BY <3>2, <4>1, <4>2
    <3> QED
      BY <1>4, <3>1, <3>2 DEF TryAgain
  <2>3. /\ c = wire[m][1] /\ 1 \in DOMAIN wire[m]
        /\ \A i \in DOMAIN w : i + 1 \in DOMAIN wire[m] /\ w[i] = wire[m][i + 1]
    BY <1>0, <2>1, PopType, PopKeeps
  <2>4. wire'[m] = w /\ retries'[m] = retries[m] \cup {r}
    BY <2>1, <2>2 DEF TypeOK
  <2> HIDE DEF c, w
  <2>5. ASSUME NEW q \in retries'[m], q.op = "extend"
        PROVE  q \in retries[m] \/ (key # q.lock /\ Extending(wire[m], retries[m], q.lock))
    <3>1. CASE q = r
      BY <1>2, <2>2, <2>3, <2>5, <3>1 DEF Spent, Extending
    <3> QED
      BY <2>4, <3>1
  <2> QED
    BY <1>0, <1>1, <2>3, <2>4, <2>5, FewerKeep
<1>5. CASE Retry(m)
  <2>1. PICK r \in retries[m] :
          /\ retries' = [retries EXCEPT ![m] = retries[m] \ {r}]
          /\ SendOn(wire[m], m, r.op, r.lock)
    BY <1>5 DEF Retry
  <2>2. r.op \in Ops /\ r.lock \in Locks /\ r.op \in {"lock", "extend"}
    BY Before DEF Attempts, Ops
  <2>3. wire'[m] = Append(wire[m], Command(r.op, r.lock)) /\ retries'[m] = retries[m] \ {r}
    BY <1>0, <2>1, <2>2, SendType DEF TypeOK
  <2>4. \A i \in DOMAIN wire'[m] :
          \/ i \in DOMAIN wire[m] /\ wire'[m][i] = wire[m][i]
          \/ wire'[m][i].op = r.op /\ wire'[m][i].lock = r.lock /\ wire'[m][i].reply = "none"
    BY <1>0, <2>2, <2>3, PushKeeps
  <2>5. ASSUME NEW i \in DOMAIN wire'[m], wire'[m][i].op \in Extends
        PROVE  \/ \E j \in DOMAIN wire[m] : wire[m][j] = wire'[m][i]
               \/ /\ wire'[m][i].reply = "none" /\ key # wire'[m][i].lock
                  /\ Extending(wire[m], retries[m], wire'[m][i].lock)
    <3>1. CASE i \in DOMAIN wire[m] /\ wire'[m][i] = wire[m][i]
      BY <3>1
    <3>2. CASE /\ wire'[m][i].op = r.op /\ wire'[m][i].lock = r.lock
               /\ wire'[m][i].reply = "none"
      <4>1. r.op = "extend"
        BY <2>2, <2>5, <3>2 DEF Extends
      <4> QED
        BY <1>2, <3>2, <4>1 DEF Spent, Extending
    <3> QED
      BY <2>4, <3>1, <3>2
  <2> QED
    BY <1>0, <1>1, <2>3, <2>5, FewerKeep
<1> QED
  BY <1>3, <1>4, <1>5

\* renew() up to its await, and the answers after which a lease begins or is extended.
LEMMA RenewOnTime ==
  ASSUME TypeOK, LeaseInv, TimeInv, NEW m \in Managers, Renew(m)
  PROVE  OnTime(m)' /\ TimersElsewhere(m)
<1>0. /\ OnTime(m) /\ wire[m] \in Seq(Commands) /\ NoTimer.on = FALSE
      /\ renewId \in [Managers -> Timers] /\ lock \in [Managers -> Locks \cup {NoLock}]
      /\ wire \in [Managers -> Seq(Commands)]
      /\ UNCHANGED <<expires, retries, key>>
      /\ renewId[m].on /\ renewId[m].left = 0
  BY BeforeTime, Before DEF TypeOK, Renew, Due
<1>1. CASE /\ isOwner(m) /\ expires[lock[m]] > 0
           /\ SendOn(wire[m], m, "extend", lock[m]) /\ UNCHANGED lock
           /\ renewId' = [renewId EXCEPT ![m] = Timer(RenewTime)]
  <2> DEFINE l == lock[m]
  <2>1. /\ l \in Locks /\ "extend" \in Ops /\ expires[l] \in Nat /\ expires[l] <= Lease
    BY <1>1, Before DEF isOwner, Ops
  <2>2. wire'[m] = Append(wire[m], Command("extend", l))
    BY <1>0, <1>1, <2>1, SendType
  <2>3. /\ renewId'[m].on /\ renewId'[m].left = RenewTime
        /\ \A n \in Managers : n # m => renewId'[n] = renewId[n]
    BY <1>0, <1>1 DEF Timer
  <2>4. expires[l] + RenewTime <= Lease /\ expires[l] <= RenewTime
    <3>1. expires[l] + RenewTime <= Lease + 0
      BY <1>0, <1>1 DEF OnTime, Paced
    <3> QED
      BY <2>1, <3>1, TimesAssumption, RenewAssumption
  <2> HIDE DEF l
  <2>5. \A i \in DOMAIN wire'[m] :
          \/ i \in DOMAIN wire[m] /\ wire'[m][i] = wire[m][i]
          \/ wire'[m][i].op = "extend" /\ wire'[m][i].reply = "none"
    BY <1>0, <2>1, <2>2, PushKeeps
  <2>6. \A i \in DOMAIN wire'[m] : wire'[m][i].left \in Nat /\ wire'[m][i].left <= Lease
    <3>1. /\ \A i \in DOMAIN wire[m] : wire[m][i].left \in Nat /\ wire[m][i].left <= Lease
      BY Before DEF Owned, Commands
    <3>2. Command("extend", l).left \in Nat /\ Command("extend", l).left <= Lease
      BY TimesAssumption DEF Command
    <3>3. \A i \in DOMAIN wire'[m] : wire'[m][i] = Command("extend", l)
                                     \/ (i \in DOMAIN wire[m] /\ wire'[m][i] = wire[m][i])
      BY <1>0, <2>1, <2>2, PushKeeps
    <3> QED
      BY <3>1, <3>2, <3>3
  <2>7. Prompt(wire'[m], key, RenewTime)
    BY <2>6, TimesAssumption DEF Prompt
  <2>8. Spent(wire'[m], retries[m], key)
    BY <1>0, <2>5 DEF OnTime, Spent
  <2>9. lock'[m] = l
    BY <1>1 DEF l
  <2>10. Paced(m)'
    BY <1>0, <2>1, <2>3, <2>4, <2>7, <2>9, TimesAssumption DEF Paced
  <2> QED
    BY <1>0, <2>3, <2>8, <2>10 DEF OnTime, TimersElsewhere
<1>2. CASE UNCHANGED wire /\ lock' = [lock EXCEPT ![m] = NoLock] /\ electLater(m)
  <2>1. /\ lock'[m] = NoLock /\ ~renewId'[m].on
        /\ \A n \in Managers : n # m => renewId'[n] = renewId[n]
    BY <1>0, <1>2 DEF electLater
  <2>2. OnTime(m)'
    BY <1>0, <1>2, <2>1 DEF OnTime, Paced
  <2> QED
    BY <1>0, <2>1, <2>2 DEF TimersElsewhere
<1> QED
  BY <1>1, <1>2 DEF Renew

LEMMA GrantedOnTime ==
  ASSUME TypeOK, LeaseInv, TimeInv, NEW m \in Managers, Elected(m) \/ Renewed(m)
  PROVE  OnTime(m)' /\ TimersElsewhere(m)
<1> DEFINE v == Tail(wire[m])
           c == Head(wire[m])
<1>1. /\ wire[m] # <<>> /\ c.reply = "ok" /\ c.left > 0
      /\ wire' = [wire EXCEPT ![m] = v]
      /\ lock' = [lock EXCEPT ![m] = c.lock]
      /\ expires' = [expires EXCEPT ![c.lock] = c.left]
      /\ UNCHANGED <<retries, key>>
      /\ \/ c.op = "lock" /\ renewId' = [renewId EXCEPT ![m] = Timer(RenewTime)]
         \/ c.op = "extend" /\ renewId' = renewId
  BY DEF Elected, Renewed, Answer, InTime
<1>2. /\ c \in Commands /\ c = wire[m][1] /\ 1 \in DOMAIN wire[m]
      /\ \A i \in DOMAIN v : i \in Int /\ i + 1 # 1
      /\ \A i \in DOMAIN v : i + 1 \in DOMAIN wire[m] /\ v[i] = wire[m][i + 1]
  <2>1. \A i \in DOMAIN v : i \in Int /\ i + 1 # 1
    BY <1>1, PopType
  <2> QED
    BY <1>1, <2>1, PopType, PopKeeps, Before
<1>3. /\ c.lock \in Locks /\ c.left \in Nat /\ c.left <= Lease
      /\ \A i \in DOMAIN v : v[i].left \in Nat /\ v[i].left <= Lease
  BY <1>2, Before DEF Commands, Owned
<1> HIDE DEF v, c
<1>4. /\ wire'[m] = v /\ lock'[m] = c.lock /\ retries'[m] = retries[m]
      /\ expires'[c.lock] = c.left
  BY <1>1, <1>3 DEF TypeOK
<1>5. ~Extending(v, retries[m], c.lock)
  <2>1. \A i \in DOMAIN v : v[i].op \in Extends => v[i].lock # c.lock
    BY SMTT(30), <1>1, <1>2, Before DEF Orderly, Single, Fresh, Extends, Acquires
  <2>2. \A r \in retries[m] : r.op = "extend" => r.lock # c.lock
    BY SMTT(30), <1>1, <1>2, Before DEF Orderly, Single, Fresh, Extends, Acquires
  <2> QED
    BY <2>1, <2>2 DEF Extending
<1>6. OnTime(m) /\ renewId[m].left \in Nat
  BY BeforeTime
<1>7. Spent(v, retries[m], key)
  BY <1>2, <1>6 DEF OnTime, Spent
<1>8. CASE c.op = "lock" /\ renewId' = [renewId EXCEPT ![m] = Timer(RenewTime)]
  <2>1. /\ renewId'[m].left = RenewTime
        /\ \A n \in Managers : n # m => renewId'[n] = renewId[n]
    BY <1>8 DEF TypeOK, Timer
  <2>2. Prompt(v, key, RenewTime) /\ c.left + RenewTime <= Lease + RenewTime
    BY <1>3, TimesAssumption DEF Prompt
  <2>3. Paced(m)'
    BY <1>1, <1>4, <1>5, <2>1, <2>2 DEF Paced
  <2> QED
    BY <1>1, <1>4, <1>7, <2>1, <2>3 DEF OnTime, TimersElsewhere
<1>9. CASE c.op = "extend" /\ renewId' = renewId
  <2>1. ASSUME renewId[m].on
        PROVE  /\ Prompt(v, key, renewId[m].left)
               /\ c.left + RenewTime <= Lease + renewId[m].left
    <3>1. Prompt(wire[m], key, renewId[m].left)
      BY <1>6, <2>1 DEF OnTime, Paced
    <3>2. Prompt(v, key, renewId[m].left)
      BY <1>2, <3>1 DEF Prompt
    <3> QED
      BY <1>1, <1>2, <1>9, <3>1, <3>2 DEF Prompt
  <2>2. Paced(m)'
    BY <1>1, <1>4, <1>5, <1>9, <2>1 DEF Paced
  <2> QED
    BY <1>1, <1>4, <1>7, <1>9, <2>2 DEF OnTime, TimersElsewhere
<1> QED
  BY <1>1, <1>8, <1>9

LEMMA ExecuteOnTime ==
  ASSUME TypeOK, LeaseInv, TimeInv, NEW m \in Managers, Execute(m)
  PROVE  OnTime(m)' /\ TimersElsewhere(m)
<1> DEFINE w == wire[m]
           v == wire'[m]
<1>1. PICK i \in DOMAIN w, r \in {"ok", "no"} :
        /\ w[i].reply = "none"
        /\ wire' = [wire EXCEPT ![m][i].reply = r]
        /\ \/ r = "no" /\ UNCHANGED key /\ (w[i].op # "lock" => key # w[i].lock)
           \/ r = "ok" /\ w[i].op = "lock" /\ key = NoLock /\ key' = w[i].lock
           \/ r = "ok" /\ w[i].op = "extend" /\ key = w[i].lock /\ key' = w[i].lock
           \/ /\ r = "ok" /\ w[i].op \notin {"lock", "extend"} /\ key = w[i].lock
              /\ key' = NoLock
  BY DEF Execute
<1>2. UNCHANGED <<lock, expires, retries, renewId>>
  BY DEF Execute, local
<1>3. v = [w EXCEPT ![i] = [w[i] EXCEPT !.reply = r]]
  BY <1>1, ExecuteType
<1>4. /\ DOMAIN v = DOMAIN w
      /\ \A j \in DOMAIN w : /\ j # i => v[j] = w[j]
                             /\ v[j].op = w[j].op /\ v[j].lock = w[j].lock /\ v[j].left = w[j].left
                             /\ j = i => v[j].reply = r
  <2>1. w[i] \in Commands /\ [w[i] EXCEPT !.reply = r].reply = r
        /\ [w[i] EXCEPT !.reply = r].op = w[i].op
        /\ [w[i] EXCEPT !.reply = r].lock = w[i].lock
        /\ [w[i] EXCEPT !.reply = r].left = w[i].left
    BY Before DEF Commands
  <2> QED
    BY <1>3, <2>1, Before
<1>5. /\ \A j \in DOMAIN w : w[j].lock \in Own(m) /\ w[j].lock # NoLock
      /\ \A q \in retries[m] : q.lock \in Own(m) /\ q.lock # NoLock
      /\ Fresh(w, retries[m], lock[m])
  BY Before, OwnLocks DEF Owned, Orderly
<1>6. OnTime(m)
  BY BeforeTime
<1> HIDE DEF w, v
<1>7. \A j \in DOMAIN w : j # i /\ key' = w[j].lock => key = w[j].lock
  BY <1>1, <1>5 DEF Fresh, Acquires
<1>8. \A q \in retries[m] : key' = q.lock => key = q.lock
  BY <1>1, <1>5 DEF Fresh, Acquires
<1>9. Spent(w, retries[m], key)
  BY <1>6 DEF OnTime, w
<1>10. Spent(v, retries[m], key')
  <2>1. ASSUME NEW j \in DOMAIN w, v[j].op \in Extends,
               v[j].reply = "no" \/ (v[j].op = "undoExtend" /\ v[j].reply = "ok")
        PROVE  key' # v[j].lock
    <3>1. CASE j = i
      <4>1. v[j].op = w[i].op /\ v[j].lock = w[i].lock /\ v[j].reply = r /\ w[i].op # "lock"
        BY <1>4, <2>1, <3>1 DEF Extends
      <4> QED
        BY <1>1, <1>5, <2>1, <4>1
    <3>2. CASE j # i
      BY <1>4, <1>7, <1>9, <2>1, <3>2 DEF Spent
    <3> QED
      BY <3>1, <3>2
  <2>2. \A q \in retries[m] : q.op = "extend" => key' # q.lock
    BY <1>8, <1>9 DEF Spent
  <2> QED
    BY <1>4, <2>1, <2>2 DEF Spent
<1>11. ASSUME NEW left, Prompt(w, key, left)
       PROVE  Prompt(v, key', left)
  <2> SUFFICES ASSUME NEW j \in DOMAIN w, w[j].op = "extend", w[j].left > 0,
                      v[j].reply = "ok" \/ (v[j].reply = "none" /\ key' = w[j].lock)
               PROVE  w[j].left + RenewTime <= Lease + left
    BY <1>4 DEF Prompt
  <2>1. CASE j = i
    BY <1>1, <1>4, <1>11, <2>1 DEF Prompt
  <2>2. CASE j # i
    BY <1>4, <1>7, <1>11, <2>2 DEF Prompt
  <2> QED
    BY <2>1, <2>2
<1>12. \A l : Extending(v, retries[m], l) <=> Extending(w, retries[m], l)
  BY <1>4 DEF Extending
<1>13. Paced(m)'
  BY <1>2, <1>6, <1>11, <1>12 DEF OnTime, Paced, isOwner, w, v
<1>14. TimersElsewhere(m)
  BY <1>1, <1>2, <1>5 DEF TimersElsewhere
<1> QED
  BY <1>2, <1>10, <1>13, <1>14 DEF OnTime, v

LEMMA TickOnTime ==
  ASSUME TypeOK, LeaseInv, TimeInv, Tick
  PROVE  TimeInv'
<1> SUFFICES ASSUME NEW m \in Managers
             PROVE  OnTime(m)'
  BY DEF TimeInv, OnTime
<1> DEFINE w == wire[m]
           v == wire'[m]
           left == renewId[m].left
           leftN == renewId'[m].left
<1>1. /\ UNCHANGED <<lock, retries>> /\ (key' = key \/ key' = NoLock)
      /\ \A l \in Locks : expires'[l] = IF expires[l] > 0 THEN expires[l] - 1 ELSE 0
      /\ DOMAIN v = DOMAIN w
  BY TickType DEF Tick
<1>2. /\ \A l \in Locks : expires[l] \in Nat
      /\ OnTime(m) /\ left \in Nat /\ renewId[m] \in Timers
  BY Before, BeforeTime
<1>3. renewId'[m].on = renewId[m].on /\ leftN = IF left > 0 THEN left - 1 ELSE 0
  <2> DEFINE less == IF left > 0 THEN left - 1 ELSE 0
  <2>1. renewId'[m] = [renewId[m] EXCEPT !.left = less]
    BY DEF Tick
  <2> HIDE DEF less
  <2>2. renewId'[m].on = renewId[m].on /\ leftN = less
    BY <1>2, <2>1 DEF Timers
  <2> QED
    BY <2>2 DEF less
<1>4. ASSUME NEW i \in DOMAIN w
      PROVE  /\ w[i].lock \in Locks /\ w[i].lock # NoLock /\ w[i].left \in Nat
             /\ v[i].op = w[i].op /\ v[i].lock = w[i].lock /\ v[i].reply = w[i].reply
             /\ v[i].left = IF w[i].left > 0 THEN w[i].left - 1 ELSE 0
  <2>1. w[i] \in Commands
    BY Before
  <2> DEFINE less == IF w[i].left > 0 THEN w[i].left - 1 ELSE 0
  <2>2. v[i] = [w[i] EXCEPT !.left = less]
    BY TickType
  <2> HIDE DEF less, v, w
  <2>3. /\ v[i].op = w[i].op /\ v[i].lock = w[i].lock
        /\ v[i].reply = w[i].reply /\ v[i].left = less
        /\ w[i].lock \in Locks /\ w[i].left \in Nat
    BY <2>1, <2>2 DEF Commands
  <2> QED
    BY <2>3, NoLockAssumption DEF less
<1>5. \A r \in retries[m] : r.lock # NoLock
  BY Before, NoLockAssumption DEF Attempts
<1>6. lock[m] # NoLock => lock[m] \in Locks
  BY Before
<1>7. /\ Spent(w, retries[m], key)
      /\ renewId[m].on =>
           /\ Prompt(w, key, left)
           /\ lock[m] # NoLock =>
                /\ expires[lock[m]] > 0 => expires[lock[m]] + RenewTime <= Lease + left
                /\ Extending(w, retries[m], lock[m]) => expires[lock[m]] <= left
  BY <1>2 DEF OnTime, Paced, isOwner
<1> HIDE DEF w, v, left, leftN
<1>8. Spent(v, retries[m], key')
  BY <1>1, <1>4, <1>5, <1>7 DEF Spent
<1>9. \A l : Extending(v, retries[m], l) <=> Extending(w, retries[m], l)
  BY <1>1, <1>4 DEF Extending
<1>10. ASSUME renewId[m].on
       PROVE  Prompt(v, key', leftN)
  <2> SUFFICES ASSUME NEW i \in DOMAIN w, w[i].op = "extend", v[i].left > 0,
                      w[i].reply = "ok" \/ (w[i].reply = "none" /\ key' = w[i].lock)
               PROVE  v[i].left + RenewTime <= Lease + leftN
    BY <1>1, <1>4 DEF Prompt
  <2>1. w[i].left = v[i].left + 1 /\ v[i].left \in Nat /\ w[i].left > 0
    BY <1>4
  <2>2. w[i].left + RenewTime <= Lease + left
    BY <1>1, <1>4, <1>7, <1>10, <2>1 DEF Prompt
  <2> QED
    BY <1>2, <1>3, <2>1, <2>2, TimesAssumption
<1>11. ASSUME renewId[m].on, lock[m] # NoLock
       PROVE  /\ expires'[lock[m]] > 0 => expires'[lock[m]] + RenewTime <= Lease + leftN
              /\ Extending(v, retries[m], lock[m]) => expires'[lock[m]] <= leftN
  BY <1>1, <1>2, <1>3, <1>6, <1>7, <1>9, <1>11, TimesAssumption
<1>12. Paced(m)'
  BY <1>1, <1>3, <1>10, <1>11 DEF Paced, isOwner, v, leftN
<1> QED
  BY <1>1, <1>8, <1>12 DEF OnTime, v

-----------------------------------------------------------------------------
(* The theorems.                                                            *)

\* A step of one server.
ServerStep(m) ==
  \/ Start(m) \/ Stop(m) \/ Renew(m) \/ Elect(m) \/ Stray(m)
  \/ Execute(m)
  \/ Elected(m) \/ Renewed(m) \/ TooLate(m) \/ TryAgain(m) \/ Retry(m)
  \/ NotElected(m) \/ NotRenewed(m) \/ GivenUp(m) \/ Released(m)
  \/ Crash(m)

LEMMA ServerKeeps ==
  ASSUME TypeOK, LeaseInv, TimeInv, NEW m \in Managers, ServerStep(m)
  PROVE  LeaseInv'
<1>1. CASE Start(m) \/ Elect(m) \/ Stray(m)
  BY <1>1, AcquireKeeps, OthersKeep DEF Start, Elect, Stray
<1>2. CASE Stop(m) \/ Renew(m)
  BY <1>2, StopKeeps, RenewKeeps, OthersKeep
<1>3. CASE Execute(m)
  BY <1>3, ExecuteKeeps, OthersKeep
<1>4. CASE Elected(m) \/ Renewed(m)
  BY <1>4, GrantedKeeps, OthersKeep
<1>5. CASE TooLate(m) \/ TryAgain(m) \/ Retry(m)
  BY <1>5, TooLateKeeps, TryAgainKeeps, RetriedKeeps, OthersKeep
<1>6. CASE NotRenewed(m) \/ Crash(m)
  BY <1>6, NotRenewedKeeps, CrashKeeps, OthersKeep
<1>7. CASE NotElected(m) \/ GivenUp(m) \/ Released(m)
  <2>1. /\ wire[m] # <<>> /\ wire' = [wire EXCEPT ![m] = Tail(wire[m])]
        /\ lock' = [lock EXCEPT ![m] = NoLock]
        /\ UNCHANGED <<expires, retries, key, ttl>>
    BY <1>7 DEF NotElected, GivenUp, Released, LockFailed, Answer
  <2> QED
    BY <2>1, DroppedKeeps, OthersKeep
<1> QED
  BY <1>1, <1>2, <1>3, <1>4, <1>5, <1>6, <1>7 DEF ServerStep

LEMMA LeaseInit == Init => LeaseInv
<1> SUFFICES ASSUME Init PROVE LeaseInv
  OBVIOUS
<1>1. \A l \in Locks : expires[l] = 0
  BY DEF Init
<1>2. ASSUME NEW m \in Managers
      PROVE  Sound(m)
  <2>1. lock[m] = NoLock /\ wire[m] = <<>> /\ retries[m] = {}
    BY DEF Init
  <2>2. \A i \in DOMAIN wire[m] : FALSE
    BY <2>1
  <2>3. Owned(m) /\ Orderly(m)
    BY <2>1, <2>2 DEF Owned, Orderly, Single, Fresh, Lapsed, Backed, Ordered
  <2>4. Backs(m)
    BY <2>1 DEF Backs, Holds, isOwner
  <2> QED
    BY <2>3, <2>4 DEF Sound
<1> QED
  BY <1>1, <1>2, TimesAssumption DEF LeaseInv, Sound

LEMMA LeaseStep ==
  ASSUME ~KeyMayVanish, TypeOK, LeaseInv, TimeInv, [Next]_vars
  PROVE  LeaseInv'
<1>1. CASE UNCHANGED vars
  BY <1>1 DEF vars, LeaseInv, Owned, Orderly, Backs, Holds, isOwner, Releasing, Pending
<1>2. CASE Tick
  BY <1>2, TickKeeps
<1>3. CASE \E m \in Managers : ServerStep(m)
  BY <1>3, ServerKeeps
<1> QED
  BY <1>1, <1>2, <1>3 DEF Next, ServerStep, KeyLost

LEMMA TimeInit == Init => TimeInv
<1> SUFFICES ASSUME Init, NEW m \in Managers PROVE Paced(m) /\ Spent(wire[m], retries[m], key)
  BY DEF TimeInv
<1>1. ~renewId[m].on /\ wire[m] = <<>> /\ retries[m] = {}
  BY DEF Init, NoTimer
<1>2. \A i \in DOMAIN wire[m] : FALSE
  BY <1>1
<1> QED
  BY <1>1, <1>2 DEF Paced, Spent

LEMMA TimeStep ==
  ASSUME ~KeyMayVanish, TypeOK, LeaseInv, TimeInv, [Next]_vars
  PROVE  TimeInv'
<1>1. CASE UNCHANGED vars
  BY <1>1 DEF vars, TimeInv, Paced, isOwner
<1>2. CASE Tick
  BY <1>2, TickOnTime
<1>3. ASSUME NEW m \in Managers, ServerStep(m)
      PROVE  TimeInv'
  <2>1. CASE Start(m) \/ Elect(m) \/ Stray(m)
    BY <2>1, AcquireKeeps, LittleOnTime, OthersOnTime DEF Start, Elect, Stray
  <2>2. CASE Stop(m) \/ NotRenewed(m) \/ Crash(m)
    BY <2>2, StopKeeps, NotRenewedKeeps, CrashKeeps, LittleOnTime, OthersOnTime
  <2>3. CASE NotElected(m) \/ GivenUp(m) \/ Released(m)
    <3>1. /\ wire[m] # <<>> /\ wire' = [wire EXCEPT ![m] = Tail(wire[m])]
          /\ lock' = [lock EXCEPT ![m] = NoLock]
          /\ UNCHANGED <<expires, retries, key, ttl>>
      BY <2>3 DEF NotElected, GivenUp, Released, LockFailed, Answer
    <3> QED
      BY <2>3, <3>1, DroppedKeeps, LittleOnTime, OthersOnTime
  <2>4. CASE TooLate(m) \/ TryAgain(m) \/ Retry(m)
    BY <2>4, TooLateKeeps, TryAgainKeeps, RetriedKeeps, AgainOnTime, OthersOnTime
  <2>5. CASE Renew(m) \/ Elected(m) \/ Renewed(m)
    BY <2>5, RenewKeeps, GrantedKeeps, RenewOnTime, GrantedOnTime, OthersOnTime
  <2>6. CASE Execute(m)
    BY <2>6, ExecuteKeeps, ExecuteOnTime, OthersOnTime
  <2> QED
    BY <1>3, <2>1, <2>2, <2>3, <2>4, <2>5, <2>6 DEF ServerStep
<1> QED
  BY <1>1, <1>2, <1>3 DEF Next, ServerStep, KeyLost

\* If nobody deletes the key and Lease <= 2 * RenewTime, the key backs every lease for longer
\* than the lease lasts: the answers of Redis may come late and the timers of renew() and
\* acquire() fire late.
THEOREM KeyBacks ==
  ASSUME ~KeyMayVanish
  PROVE  Spec => []KeyBacksLease
<1>1. LeaseInv => KeyBacksLease
  BY DEF LeaseInv, KeyBacksLease, Backs
<1>2. TypeOK /\ LeaseInv /\ TimeInv /\ [Next]_vars => LeaseInv' /\ TimeInv'
  BY LeaseStep, TimeStep
<1> QED
  BY <1>1, <1>2, LeaseInit, TimeInit, TypeCorrectness, PTL DEF Spec

\* A server comes to hold the lease only by a step that leaves the key alone.
LEMMA GainKeepsKey ==
  ASSUME TypeOK, [Next]_vars, NEW m \in Managers, Holds(m)', ~Holds(m)
  PROVE  UNCHANGED key
<1>1. CASE Tick
  <2>1. /\ lock' = lock /\ retries' = retries /\ DOMAIN wire'[m] = DOMAIN wire[m]
        /\ \A i \in DOMAIN wire[m] : wire'[m][i].op = wire[m][i].op
    <3>1. /\ lock' = lock /\ retries' = retries /\ DOMAIN wire'[m] = DOMAIN wire[m]
          /\ wire[m] \in Seq(Commands)
      BY <1>1, TickType DEF Tick, TypeOK
    <3>2. ASSUME NEW i \in DOMAIN wire[m]
          PROVE  wire'[m][i].op = wire[m][i].op
      <4>1. wire[m][i] \in Commands
        BY <3>1
      <4> DEFINE left == IF wire[m][i].left > 0 THEN wire[m][i].left - 1 ELSE 0
      <4>2. wire'[m][i] = [wire[m][i] EXCEPT !.left = left]
        BY <1>1, TickType
      <4> HIDE DEF left
      <4> QED
        BY <4>1, <4>2 DEF Commands
    <3> QED
      BY <3>1, <3>2
  <2>2. isOwner(m) => expires[lock[m]] \in Nat
                      /\ expires'[lock[m]] = IF expires[lock[m]] > 0 THEN expires[lock[m]] - 1 ELSE 0
    BY <1>1, TickType DEF isOwner, TypeOK
  <2> QED
    BY <2>1, <2>2 DEF Holds, isOwner, Releasing, Pending
<1>2. CASE \E n \in Managers : Execute(n)
  <2>1. PICK n \in Managers : Execute(n)
    BY <1>2
  <2>2. UNCHANGED <<lock, expires, retries>>
    BY <2>1 DEF Execute, local
  <2>3. PICK i \in DOMAIN wire[n], r \in {"ok", "no"} : wire' = [wire EXCEPT ![n][i].reply = r]
    BY <2>1 DEF Execute
  <2>4. /\ \A k \in Managers : k # n => wire'[k] = wire[k]
        /\ wire'[n] = [wire[n] EXCEPT ![i] = [wire[n][i] EXCEPT !.reply = r]]
    BY <2>3, ExecuteType
  <2>5. DOMAIN wire'[m] = DOMAIN wire[m] /\ \A j \in DOMAIN wire[m] : wire'[m][j].op = wire[m][j].op
    <3>1. wire[n] \in Seq(Commands)
      BY DEF TypeOK
    <3>2. wire[n][i] \in Commands
      BY <3>1
    <3>3. [wire[n][i] EXCEPT !.reply = r].op = wire[n][i].op
      BY <3>2 DEF Commands
    <3> QED
      BY <2>4, <3>1, <3>3
  <2> QED
    BY <2>2, <2>5 DEF Holds, isOwner, Releasing, Pending
<1>3. CASE KeyLost
  BY <1>3 DEF KeyLost, local, Holds, isOwner, Releasing, Pending
<1>4. CASE UNCHANGED vars
  BY <1>4 DEF vars
<1>5. CASE \E n \in Managers : ServerStep(n) /\ ~Execute(n)
  BY <1>5 DEF ServerStep, Start, Stop, Renew, Elect, Stray, Elected, Renewed, TooLate, TryAgain, Retry,
              NotElected, NotRenewed, GivenUp, Released, Crash
<1> QED
  BY <1>1, <1>2, <1>3, <1>4, <1>5 DEF Next, ServerStep

\* The holder of the lease, as WriterLease sees it.
Known ==
  /\ \A m \in Managers : Holds(m) => holder = m
  /\ (\A m \in Managers : ~Holds(m)) => holder = NoManager

LEMMA HolderKnown == LeaseInv => Known
<1> SUFFICES ASSUME LeaseInv PROVE Known
  OBVIOUS
<1>1. ASSUME NEW m \in Managers, NEW n \in Managers, Holds(m), Holds(n)
      PROVE  m = n
  <2>1. lock[m] = key /\ lock[n] = key /\ lock[m] # NoLock /\ lock[n] # NoLock
    BY <1>1 DEF LeaseInv, Backs, Holds, isOwner
  <2>2. lock[m] \in Own(m) /\ lock[n] \in Own(n)
    BY <2>1 DEF LeaseInv, Owned
  <2> QED
    BY <2>1, <2>2, OwnDisjoint
<1>2. ASSUME NEW m \in Managers, Holds(m)
      PROVE  holder = m
  <2>1. holders = {m}
    BY <1>1, <1>2 DEF holders
  <2>2. Cardinality(holders) = 1
    BY <2>1, FS_Singleton
  <2> QED
    BY <2>1, <2>2 DEF holder
<1>3. ASSUME \A m \in Managers : ~Holds(m)
      PROVE  holder = NoManager
  BY <1>3 DEF holder, holders
<1> QED
  BY <1>2, <1>3 DEF Known

LEMMA HolderStep ==
  ASSUME TypeOK, LeaseInv, LeaseInv', Known, Known', [Next]_vars
  PROVE  [L!Next]_holder
<1>1. CASE \A m \in Managers : ~Holds(m)
  <2>1. holder = NoManager
    BY <1>1 DEF Known
  <2>2. CASE \A m \in Managers : ~Holds(m)'
    BY <2>1, <2>2 DEF Known
  <2>3. CASE \E m \in Managers : Holds(m)'
    <3>1. PICK m \in Managers : Holds(m)'
      BY <2>3
    <3>2. holder' = m
      BY <3>1 DEF Known
    <3> QED
      BY <2>1, <3>2 DEF L!Next, L!Take
  <2> QED
    BY <2>2, <2>3
<1>2. CASE \E m \in Managers : Holds(m)
  <2>1. PICK m \in Managers : Holds(m)
    BY <1>2
  <2>2. holder = m /\ m # NoManager
    BY <2>1, ManagersAssumption DEF Known
  <2>3. CASE \A n \in Managers : ~Holds(n)'
    <3>1. holder' = NoManager
      BY <2>3 DEF Known
    <3> QED
      BY <2>2, <3>1 DEF L!Next, L!Lose
  <2>4. CASE \E n \in Managers : Holds(n)'
    <3>1. PICK n \in Managers : Holds(n)'
      BY <2>4
    <3>2. n = m
      <4>1. CASE Holds(n)
        BY <2>2, <4>1 DEF Known
      <4>2. CASE ~Holds(n)
        <5>1. UNCHANGED key
          BY <3>1, <4>2, GainKeepsKey
        <5>2. lock[m] = key /\ lock[m] # NoLock /\ lock[m] \in Own(m)
          BY <2>1 DEF LeaseInv, Backs, Holds, isOwner, Owned
        <5>3. lock'[n] = key' /\ lock'[n] \in Own(n)
          BY <3>1 DEF LeaseInv, Backs, Holds, isOwner, Owned
        <5> QED
          BY <5>1, <5>2, <5>3, OwnDisjoint
      <4> QED
        BY <4>1, <4>2
    <3>3. holder' = m
      BY <3>1, <3>2 DEF Known
    <3> QED
      BY <2>2, <3>3
  <2> QED
    BY <2>3, <2>4
<1> QED
  BY <1>1, <1>2

\* If nobody deletes the key and Lease <= 2 * RenewTime, the election of a host's writer
\* implements the lease: at most one server holds it, and nobody takes it from a holder who
\* has not lost it, in whatever order Redis, the answers and the timers of the servers come.
THEOREM ElectionImplementsLease ==
  ASSUME ~KeyMayVanish
  PROVE  Spec => ImplementsLease
<1>1. Init => L!Init
  <2> SUFFICES ASSUME Init PROVE L!Init
    OBVIOUS
  <2>1. \A m \in Managers : ~Holds(m)
    BY DEF Init, Holds, isOwner
  <2> QED
    BY <2>1, LeaseInit, HolderKnown DEF Known, L!Init
<1>2. TypeOK /\ LeaseInv /\ TimeInv /\ [Next]_vars => LeaseInv' /\ TimeInv'
  BY LeaseStep, TimeStep
<1>3. TypeOK /\ LeaseInv /\ LeaseInv' /\ Known /\ Known' /\ [Next]_vars => [L!Next]_holder
  BY HolderStep
<1> QED
  BY <1>1, <1>2, <1>3, LeaseInit, TimeInit, HolderKnown, TypeCorrectness, PTL
  DEF Spec, ImplementsLease, L!Spec
=============================================================================
