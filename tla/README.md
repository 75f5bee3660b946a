# toro-api: models, checks and proofs

toro-api is a GraphQL server that watches BullMQ queues: it counts jobs, keeps
statistics and metrics in Redis, evaluates alerting rules on the metrics and
notifies people. Several servers may watch the same queues; one of them, the
*writer* of a host, holds a lock in Redis and writes. Its hard parts are not in
any function but between them: calls that are not awaited, answers that come
after the state they answer has gone, and servers that each believe to be the
one that writes.

This directory holds TLA+ modules of those parts, the configurations with which
TLC checks them, and proofs that TLAPS checks. Run, in this directory:

    tlc -config RuleCircuit.cfg MCRuleCircuit      # one line of the table below
    tlapm RuleCircuitProofs.tla                    # and the other *Proofs modules

Paths below are relative to `src/src/server/`, unless they begin with `src/`.

## 1. The system

### Parts

| Part | Code | State | Operations |
|---|---|---|---|
| rule circuit breaker | `commands/rules-4.lua` | per rule, in Redis: the state hash (circuit, failures, successes, times, alertId, notifyPending, alertCount ...), `isActive` and `state` of the rule's hash, the zset of alerts, the bus stream | check, start, stop, clear, state, alert, mark-notify |
| client of that script | `commands/rule-scripts.ts` | none | checkAlert, writeAlert, markNotify, startRule, clearAlertState, getState; pipelines of alert counts |
| rule alerter | `rules/rule-alerter.ts` | per server and rule: `_ruleState`, `wasTriggered`, `_shouldNotify`, `_alert`, `_isActive`, `_warmupEnd`, `_lastFailedAt` | start, handleResult, notifyAlert, handleReset, clear |
| rule registry | `rules/rule-manager.ts` | per server and queue: `_metas`, `metricRuleMap` | load, create, update, delete, activate; dispatch of metric updates; events of other servers |
| rule evaluation | `rules/*evaluator*.ts` | the last value, the peak detector | evaluate |
| alert storage | `rules/rule-storage.ts`, `commands/update*AlertCount*.lua` | rule and alert hashes, their indexes and counters, in Redis | create, save, delete, markAlertAsRead, clearAlerts, pruneAlerts |
| writer election | `redis/lock-manager.ts` | per server: `lock`, `isStarted`, two timers; in Redis: one key with a ttl | start, stop, acquire, renew, release |
| stream reader | `redis/stream-aggregator.ts` | subscriptions with cursors, `readStreamActive`, two connections | subscribe, unsubscribe, readStream, unblock, disconnect |
| event bus | `redis/event-bus.ts` | local listeners of one queue's stream | on, emit, pipelineEmit, dispatch, destroy |
| write cache | `redis/write-cache.ts` | buffered hash, zset and timeseries writes; a timer | set, del, incr ..., flush, discard on loss of the lock |
| statistics | `stats/*.ts` | histograms, roll-up snapshots, write cursors | take a snapshot, roll up, catch up |
| metrics | `metrics/*.ts` | registered metrics, their timers and last saves | register, unregister, poll, dispatch of queue events |
| queues | `queues/*.ts` | per queue: the listener's job cache and iterators | listen, unlisten, sweep, destroy |
| hosts, supervisor | `hosts/*.ts`, `supervisor/*.ts` | maps of hosts and queue managers | init, add, remove, delete, destroy |
| notifications | `notifications/**` | the list of channels | get, add, update, remove, dispatch |
| GraphQL subscriptions | `graphql/helpers/*`, `lib/refcount-cache.ts` | iterators shared by reference counts | subscribe, unsubscribe |
| timeseries script, job scripts | `commands/*.lua` | none of their own | range queries; read-only job queries |
| GraphQL API, schemas, library | `graphql/**`, `validation/**`, `config/**`, `lib/**` | none | thin calls, parsers, helpers |

### How they interact

A queue event of BullMQ reaches the *queue listener*, which emits job events to
the *metrics* and the *statistics*. An updated metric is given to the *rule
registry*, which evaluates the rules of that metric and, if this server holds
the lock, hands each result to the rule's *alerter* without waiting for it. The
alerter calls the *rule script* (one atomic step of Redis), and by its reply
writes an alert (another call), sends it by the *notifications* and marks it as
notified (a third call). The script appends events to a stream in Redis; the
*stream reader* of every server, the writer included, reads it for the *event
buses*, which tell rule registries and GraphQL subscriptions. *Write caches*
and *statistics* write only while the *lock manager* says that this server is
the owner.

### What is hard, and what makes each part correct

- **Circuit breaker.** Seven actions and two direct writes reach the same keys in
  any order, over many open periods. Correct: circuit and counter agree; only
  violations open it, only earned recoveries close it; nothing of an earlier
  period counts in the next; the budget of notifications is kept.
- **Election.** Answers, timers and the clock race. Correct: at most one server
  is an owner within its lease; an owner's key exists; no started server drops
  out; the lock is held again after a crash.
- **Alerter.** Beliefs read before an await and used after it. Correct: no alert
  is sent twice; at rest it agrees with the circuit; alerts without a circuit
  that would close them are bounded by what went wrong; good results recover.
- **Stream reader.** One read loop per subscription on one connection. Correct:
  no message behind a cursor is lost, cursors do not go back, the last word is
  the latest message, loops end when told to.
- **Write cache, statistics.** Buffered writes and later reads of the same keys,
  while the lock changes hands. Correct: no count without its record, each
  interval once, the hour is the sum of its minutes.
- **Registry.** Look-up, await, insert, on several servers that hear of each
  other by events, beside commands on another connection. Correct: the index
  lists the rules, every server knows them, none evaluates one that is deleted.
- **Alert counts.** Counts kept beside what they count, by pipelines that are no
  transactions. Correct: at rest the sums agree, and the sweep repairs the rest.
- **Queue listener.** A job's data fetched while its next events are handled.
  Correct: each finish is emitted, with the durations that the queue had.
- **Metrics listener, notifications, subscriptions, hosts** (planned). Look-up,
  await, insert. Correct: one entry per id, none after its removal.

`PROJECT.json` lists the single hazards, each with its line and with the
properties that watch it, or the planned module that will.

## 2. Modules

### RuleCircuit

The script `commands/rules-4.lua`. Redis runs a script without interleaving, so
a call is one action, and within it the script's local functions are operators
from the contents of its keys (the record `db`) to the new contents, composed as
the script composes them: `Check` is `checkRule` with its `startRule`, warm-up,
`updateCircuit`, cooldown and notification parts, `WriteAlert` is `createAlert`,
and so on; `MarkNotify`, `StartRule`, `StopRule`, `Clear` and `QueryState` are the other
actions. `SaveRule` and `DeleteAlert` are what `rules/rule-storage.ts` writes to
the same keys directly. `opts` are the rule's options, which every call reads anew
and a save may change: what the script reads by `getNumberOption(name, 0)` is 0 when
the rule was created without it. Within a call the script reads a copy of the state
hash, and when the circuit opens or closes it writes four fields to Redis alone:
`d.mem` is what the copy goes on to hold of them, from `Loaded` to `Ended`. `hist`
records what was asked of the script (good results in a row, the time of the last
violation, notifications of this period, the budget that was in force when the
circuit last changed, and whether options were saved that no call has applied to the
circuit yet) and is read by properties only.

Left out: the contents of alerts and events beyond their kind and alert id, and
'mark-read', which the script does not handle.

### WriterLease, LockManager

`WriterLease` is the promise: a lease is taken when it is free, and lost.
`LockManager` is `redis/lock-manager.ts` for several servers, each with its
`phase`, `lock`, timers and a queue of commands (`wire`) on the way to Redis
and back, and the key with its `ttl`. One action per piece of code between two
awaits: `start`, `stop`, `acquire` and what follows its answer, `renew` and what
follows, `release`. Time is relative: key, leases and timers count down together
in one step; a timer that has run out may fire at any later time, for a busy
event loop. Redlock is external: a command is tried again, a success is one
only if the lease counted from *sending* has not run out, and a success that
comes too late is unlocked again. `ImplementsLease` maps the holder to the
server that is the owner within its lease, and says that every step of the
election takes a free lease, loses it, or leaves it alone.

`renewId` is an interval: `Renew` fires again while an earlier `extend()` waits for
its answer. At the code's times (interval 8000, lease 9900, which no option changes)
such a second renewal finds an expired lease: it sets `lock` to null and asks for an
election, and the late answer then sets `lock` again. `RenewAssumption`,
Lease <= 2 * RenewTime, is what these times have in common with the small ones TLC
uses. `GivenUp` may overwrite the timer of an election (`strays`), since
`setElectTimeout()` clears none; the overwritten one still fires (`Stray`). Left out:
errors of the connection itself.

### RuleAlerter

`rules/rule-alerter.ts` with the part of `rules/rule-manager.ts` that drives
it, on top of the circuit (it EXTENDS RuleCircuit: its steps of Redis take the
circuit's actions). Each server has its alerter's fields and a queue of commands that
Redis executes and answers in order; `HandleResult` runs up to the await of
`checkAlert()`, `Checked` from there to the await of `writeAlert()`, `Written`
from there on, and `Dispatched` is the end of `notifications.dispatch()` (or its failure) with the
sending of `markNotify()`. Servers gain and lose the lock at any time (two may
believe to own it), crash and come back; clients query the state, and another
server may deactivate the rule or save other options for it (`UpdateRule`). The
alerter keeps the `recoveryWindow` of the rule that its server loaded; the script
applies the saved options from its next call on.

Left out: `stop()`, which nothing calls; the timer in `handleReset()`, which is
created and never started; the deletion of the rule, which is in RuleRegistry; a save
by way of the alerter's own server, which makes its rule inactive in memory
(`rules/rule-manager.ts:238-241`). `Crash` loads the rule again also when the schema
would refuse it (RuleRegistry's `foreign`), so that more happens here than in the code,
and as active as its hash says, where in the code the first check of an inactive rule
finds that out (section 6).

### StreamAggregator

`redis/stream-aggregator.ts` as the event buses use it, with offset `$`. A call
of `readStream()` ends by calling `readStream()`, and each `subscribe()` begins
another such loop; `loop` says what each is doing, `wire` holds the XREADs on
the read connection, of which the first one blocks, and `unblocks` the CLIENT UNBLOCKs on
the write connection. A reply hands its messages to handlers, `Concurrency` of
them at a time (pAll, 6 in the code), and the loop goes on when the last of them
has returned. Connecting, a failing read, time-outs, unsubscribing and
disconnecting are actions.

Left out: subscriptions at other offsets (nothing in the server makes one), a
server's own messages (the bus drops them), reconnection.

### StatsWriter

`stats/stats-listener.ts` and `stats/stats-writer.ts` over `redis/write-cache.ts`.
Each server collects the finished jobs of a minute; `UpdateStats` handles an event
and, at the end of the minute, takes the snapshot: an owner buffers the minute's
record and the counts and sends for the hour's record, and `Rollup` buffers the
sum when the answer comes. `Flush`, `Flushed` and `Discard` are the buffer's
timer. A snapshot is the set of its jobs, which makes "counted twice" and "lost"
visible. Several flags of ownership would only repeat what LockManager shows, so
there is at most one owner here, who may lose the lock between any two steps.

Left out: the day and the week, which are rolled up as the hour is; the host,
which section 6 describes; `destroy()` of the buffer, which flushes nothing.

### RuleRegistry

`rules/rule-storage.ts` and `rules/rule-manager.ts` for several servers: each
call (create, update, look up, delete, set the status, load) is a record in
`calls` that one action takes from one await to the next, so that calls of one
server overlap like those of two. `hash`, `states` and `index` are the keys in
Redis, `metas` and `metricRules` what a server has registered, `inbox` the bus.
The script calls of RuleCircuit appear as `Starts`, by what they leave of a
rule's keys; `foreign` are the rules into whose hash something has written a field that
the schema of a rule refuses, so that no server can read them again. A process may
be started again at any point.

Left out: a rule's data but for its metric; the calls of a client that make the script
look at the circuit, which write no more into the hash than a check does.

### AlertCounts

The alerts of `rules/rule-storage.ts` and the counts that `commands/rule-scripts.ts`
and the `update...AlertCount` scripts keep of them. A server sends a pipeline;
Redis executes one command at a time, those of another server in between.
`Sweep` is `pruneAlerts()` of the registry, `Close` the circuit's recovery, and
`copy` the count that a registered rule carries and `SaveRule` writes back.

Left out: the count of the host, which is always 0 (section 6); what `deleteAlert()` and
`clearAlerts()` do to the count of a rule's object that is given to them (the server
gives them ids).

### QueueListener

`queues/queue-listener.ts`: `Handle` is the handler of one event of the queue,
which uses and changes the cached `objects` of jobs; a finish whose job is not
fully known sends a pipeline (`wire`) and is emitted when `Answer` has stored
what it brought and `EmitFetched` continues `markFinished()`. The other events
of the job are handled meanwhile. BullMQ is external: `Add`, `Activate`, `Finish`,
`Again`, `Retry` and `Remove` publish an event and change the job's hash in one
step. A time is the position of the event in the stream, so that a duration is
exact and comparable; an id names one job.

Left out: progress and stalled events, which change no time; delayed jobs, which
are handled as waiting ones are; `unlisten()` and `destroy()`, after which nothing
is emitted.

### Modules beside them

`MC*` modules define the options and the symmetry of the runs. `RuleRegistryClaims`
states what a test says of the program and what TLC refutes. `*Proofs` modules
hold theorems and their proofs. An operator whose comment begins with *Mutant* is a
plausible mistake in the operator after it; with it in place the property named
in `PROJECT.json` fails.

## 3. What is checked

| Run (cfg, module) | Question | Instance | Distinct states |
|---|---|---|---|
| `RuleCircuit`, MCRuleCircuit | Do circuit, counter, alerts and budget agree after any calls? | four kinds of options, one alert, three violations, two good results in a row, clock 3 to 5, one save of other options | 1,835,000 |
| `LockManager`, MCLockManager | Is there at most one owner within a lease, backed by the key? Is the lease abstraction implemented? | two servers, one stop or crash, two calls under way, ttl 3, lease 2, interval 1 | 1,995,000 |
| `LockManagerLive`, MCLockManager | Is the lock held again, and does stale ownership end? | the same with the loss of the key for the stop, one call under way per server | 82,000 |
| `RuleAlerter`, MCRuleAlerter | Are beliefs, alerts and notifications right? | one server, two results under way, two violations, two troubles (one of them may be a save of other options), three kinds of options | 2,707,000 |
| `RuleAlerterLive`, MCRuleAlerter | Do good results close the circuit when one success is enough? | one server, options with and without windows of time, not changed | 80,000 |
| `StreamAggregator`, MCStreamAggregator | Is anything behind a cursor lost? | two streams, two loops, two messages each, one failing read, from before the connections are ready | 173,000 |
| `StreamAggregatorLive`, MCStreamAggregator | Order, the last word, delivery, the end of the loops | one stream, two loops, three messages | 22,000 |
| `StatsWriter`, StatsWriter | What is counted, recorded and rolled up while the lock changes hands? | two servers, three jobs in minutes 0, 2 and 3, three changes of the lock, one fault | 542,000 |
| `RuleRegistry`, MCRuleRegistry | What does the index list, and what does each server know and evaluate? | two servers, one rule, two metrics, two calls besides creations | 4,144,000 |
| `AlertCounts`, AlertCounts | Do counts agree with what they count, and does the sweep repair them? | two servers, two rules, two alerts, three calls | 829,000 |
| `QueueListener`, QueueListener | Are the durations of finished jobs right, and is each emitted? | two jobs, six events, one failing fetch | 555,000 |
| `RuleRegistryStatus`, RuleRegistryClaims | Does setting a rule's status keep the rule? Refuted: section 6 | one server, one call | |

What the properties say is written above each of them in its module. In short:

- *Circuit.* `OpenIffThresholdReached`, `NotificationsWithinBudget`, and of steps
  `OnlyViolationsTrip`, `RecoveryIsEarned`, `RecoveryClosesAlert`.
- *Election.* `KeyBacksLease` (who thinks it is in its lease has the key in Redis)
  and `ImplementsLease`; `HeldAgain` and `StaleOwnershipEnds` in the long run.
- *Alerter.* `SentOnce`, `QuietAgrees`, `TrippedHasAlert`, `EventsSentBounded`;
  `GoodResultsRecover` in the long run.
- *Stream reader.* `NothingSkipped`, `CursorsNeverRegress`, `SettledOnLatest`;
  `Delivered` and `LoopsEnd` in the long run.
- *Statistics.* `CountsMatchRecords` (of one transaction), `HourMatchesRecords`,
  `RecordedOnce`, of steps `HourNeverLoses`; `BuffersDrain` in the long run.
- *Registry.* `IndexListsRules`, `DeletedForgotten`, `KnownEverywhere`,
  `EvaluatedAreRegistered`.
- *Alert counts.* `ConsistentAtRest`; `CountsRepaired` in the long run.
- *Queue listener.* `DurationsRight`; `FinishesEmitted` in the long run.

Several properties except cases that the code does get wrong. Each exception is a
history variable that names the exact overlap, so that the property still says
everything of the other behaviours, and section 6 describes what happens in it:

| Exception | What it names |
|---|---|
| `crossed` (registry, counts) | a rule saved while, or after, it was deleted |
| `erased`, `raced`, `unread`, `refused`, `unheard`, `moved` (registry) | a rule given to `setRuleStatus()`; found by a look-up that ended after its deletion was heard of; looked up before it was stored and listed; looked up by this server when its hash had a field that the schema refuses; created or deleted while the server was not listening; given another metric by this server |
| `overlapped` (statistics) | a minute rolled up before the one before it was in Redis, or the lock won with an old buffer |
| `unsummed` (counts) | a count written by a save or by a closing circuit, or a pipeline cut off, and no sum since |
| `hidden`, `retried` (queue listener) | a start handled while an earlier finish of the job was fetched; a finish retried before it was emitted |
| `saved` (circuit) | options saved since the last call that updated the circuit: the next such call may open or close it by the new ones |
| `budget` (circuit) | not an exception: the budget that was in force when the circuit last changed, which a saved one does not replace |
| `saves` (alerter) | other options saved: they open and close the circuit by calls whose answers the alerter does not look at |
| faults, overlaps, queries (alerter) | numbers: each allows one notification more, or ends what is promised of beliefs |
| `since` (stream reader) | the last read at `$`, before which messages may be lost |

### Bounds, and why they are enough

- *Circuit.* A threshold of 2 and three violations trip, violate while open, and
  leave room for a second count; two good results in a row meet and miss a
  success threshold of 2; the clock's last value lies beyond every window. `MaxSaves`
  is 1: one save of other options turns any of the four kinds into any other at any
  point, under an open circuit or a pending notification. One alert id suffices, as
  the circuit names one alert at a time. The proofs of section 5 depend on none of this.
- *Election.* Two servers suffice for each race of one key. Lease < ttl is
  redlock's allowance for drift; each time is long enough for a command to be
  answered before and after it, and the interval of 1 fires twice within a lease of 2
  and a third time after it, while a renewal is unanswered. One stop, crash, loss of
  the key or overwritten timer per run (`MaxFaults`), and two calls of `lock()` or
  `extend()` under way (`MaxCalls`, `MaxAllCalls`; one per server for liveness, which
  already has the late answer after the lock was given up). The proofs depend on
  none of these bounds.
- *Alerter.* Two results under way make every overlap of two; two violations open
  the circuit twice when one is enough, so that state left from the first period
  meets the second. `MaxTroubles` bounds faults, overlaps, queries and saves of other
  options together; the bounded properties allow one alert for each of the first two. One server suffices: `SentOnce`
  is proved for any number, and beliefs are promised only to a rule's one alerter.
- *Stream reader.* Two loops on one connection are the first that can duplicate;
  three messages are the least of which one reply may hand out a part before
  another loop's reply arrives. With `Concurrency` 1 a reply keeps messages
  waiting, as seven messages do in the code.
- *Statistics.* Minutes 0, 2 and 3 have an idle gap and two that follow each
  other; three jobs let a listener lag behind the clock and catch up. Three
  changes of the lock give it to a server, to the other, and back.
- *Registry.* Two calls beside creations meet each other and the events of a
  creation on two servers; two metrics let one rule be evaluated for the wrong one.
- *Alert counts.* Two rules make a sum; three calls are enough for a deletion
  crossed by an alert and a save, or a crash in the middle of two pipelines.
- *Queue listener.* Six events are a job's whole life, a retry and a second finish,
  or two jobs whose fetches overlap, or a job whose first events are missed.

`CHECK_DEADLOCK FALSE` stands in the configurations of all but the circuit and
the election: their runs end when the counted inputs are used up.

Symmetry is used for servers, metrics, alert ids and streams, which no definition
distinguishes, and in runs of safety properties only. (`ExecuteAlert` chooses an unused
alert id by CHOOSE; `RuleAlerter` runs therefore have no symmetry of alert ids.)

### Fairness, and why the code justifies it

- *Election*: Redis executes and answers commands and the clock goes on; a timer
  that is due fires; awaits that are resolved continue; a server that is up is
  started by its host manager (`HostManager.init`), also after a crash. Redlock
  tries a command a limited number of times, so a failure that is possible again
  and again is reported in the end (strong fairness of `NotElected` and
  `NotRenewed`; the number of attempts is not modelled). No fairness is assumed
  of stop, crash or the loss of the key. `HeldAgain` excepts runs in which
  commands take as long as a lease for ever: nothing can be held then, and runs
  that end with every server `Adrift` (section 6).
- *Alerter*: commands are executed and answered, the work queue runs `start()`,
  dispatching ends, and metrics are evaluated for ever (a timer polls them). No
  fairness of violations, faults, queries or time. `GoodResultsRecover` excepts
  violations for ever.
- *Stream reader*: commands are executed, a blocked XREAD times out, handlers
  return. Messages, subscriptions, disconnection and failures are not fair.
- *Statistics*: the timer of the buffer fires, Redis answers, events that are there
  are handled. Nothing is assumed of the lock. The number of jobs is bounded, so
  `BuffersDrain` says that what was buffered is gone in the end.
- *Alert counts*: commands are executed and the owner's sweep goes on for ever;
  alerts, calls and crashes are not fair. (The condition in `CountsRepaired` that
  the owner has registered a rule is met by most runs: only with more calls
  can all the rules be deleted and one be saved again.)
- *Queue listener*: the event loop handles what it has read, and Redis answers.
  The queue, evictions and failures are not fair.

## 4. Reading order

RuleCircuit and its proofs, WriterLease, LockManager, RuleAlerter (which uses
RuleCircuit), StreamAggregator; then, each on its own, RuleRegistry, AlertCounts,
StatsWriter and QueueListener; of each the module first, then its proofs.

## 5. What is proved

Every safety invariant and action property of the passing runs is proved, for every value of the constants that satisfies the named assumptions:
any number of servers, streams, jobs, rules and calls, where TLC sees two or
three. Each `*Proofs` module EXTENDS the module it is about.

### RuleCircuitProofs

From `OptionsAssumption` (options are natural numbers and Booleans),
`NoAlertAssumption` and `EpochAssumption` (today's timestamp is larger than a
rule's windows):

| Theorem | Property |
|---|---|
| `TypeCorrectness` | `TypeOK` |
| `Invariance` | `IInv`, the inductive invariant |
| `BreakerMatchesCounter` | `OpenIffThresholdReached` |
| `ViolationRecord` | `ViolationRecordConsistent` |
| `SuccessesAreRecent` | `SuccessesWithinStreak` |
| `NotificationBudget` | `NotificationsWithinBudget` |
| `OnlyViolations` | `OnlyViolationsTrip` |
| `ViolationsKeepOpen` | `ViolationKeepsOpen` |
| `RecoveryByRight` | `RecoveryIsEarned` |
| `ResetsAnnounced` | `ResetsAreAnnounced` |
| `RecoveryClosesItsAlert` | `RecoveryClosesAlert` |

The argument. None of the state properties is inductive: that a violation
trips at the threshold needs that the circuit was closed with fewer failures,
that a recovery resets the counter needs that successes have not long been
enough, and that the budget holds needs that a pending notification leaves room
for it. What relates the fields of the state hash falls into three: `Sound` holds
whatever the options are; `Budgeted` is about the budget that was in force when the
circuit last changed; `Settled` is the agreement of circuit, counters and present
options, which a save breaks and every call that updates the circuit restores
(`~hist.saved`). `IInv` is these with the relations to the history variables. Because a
call of the script is a composition of operators on its data, the proof follows that
composition: `Fresh` says that the copy agrees with the hash, `CopySound` and `Follows`
what is left of that in the middle of a call, a lemma for each operator what it keeps
and what it changes of circuit and counters. `CallsAreCalm` collects the calls that
count nothing: they lead from fresh data to `Calm` ones; `check` starts the rule by
such a step and then counts. The step theorem splits Next into its actions; PTL makes
it an invariant. The action properties follow from the same lemmas under `IInv`.

For the alerts, `Tends(d, e)` says that from `d` to `e` events are only added, alerts
only become closed with a reset among the events, and the circuit's alert is
forgotten only when it is not open. Each local function of the script keeps this
relation, it is transitive, and a call is a composition of them.

### LockManagerProofs

| Theorem | Property |
|---|---|
| `TypeCorrectness` | `TypeOK` |
| `KeyBacks` | `KeyBacksLease`, if nobody deletes the key and Lease <= 2 * RenewTime |
| `ElectionImplementsLease` | `ImplementsLease`, under the same two conditions |

The argument. That the key backs a lease is not inductive: it depends on what is
still on its way to Redis and back. `LeaseInv` says that a server's commands are
about its own locks (`Owned`) and executed in order (`Ordered`), that it has one
renewal of a lock under way (`Single`) and elects itself with a lock that nothing else
mentions (`Fresh`), that a lease is over before its lock is given up (`Lapsed`), and
that a success on the way back, like a lease in use, is backed by a key that
outlives it (`Backed`, `Backs`). `Single` is not the work of a guard: the interval
fires whatever is under way. `TimeInv` relates its timer to what is left of the
leases: a renewal that can still succeed was sent at the last firing or before
(`Prompt`), so the lease it may give, and the lease in use while a renewal is under
way, is over when the interval fires again (`Paced`), and a renewal that failed once
never succeeds (`Spent`). That is where Lease <= 2 * RenewTime is used. One key then
means one holder. The refinement
follows step by step: two holders would have one key, and a step that changes
the holder passes through a state without one, because a new key is only set
where there is none. The assumption `~KeyMayVanish` is needed: without the key
another server may take the lease within the first one's.

### RuleAlerterProofs

From the circuit's assumptions, `EmptyAlertAssumption` and `MaxInFlightAssumption`:

| Theorem | Property |
|---|---|
| `AllTypeCorrectness` | `AllTypeOK` |
| `AlertersKeepCircuit` | every behaviour of the alerters is one of RuleCircuit |
| `SendsOnce` | `SentOnce` |
| `TriggeredRulesHaveAlerts` | `TrippedHasAlert` |
| `QuietAlertersAgree` | `QuietAgrees` |
| `EventsNotifiedBounded` | `EventsSentBounded` |

The argument. Each action of an alerter takes an action of the circuit or leaves
it alone, so that the theorems of the circuit hold under the alerters.
`SentInv` says where an alert can still be sent from: the reply to the
command that wrote it, which exists once, and that the ids of such replies were
not sent and are not free. Each action keeps it (`Keeps`), and an id that is used
stays used.

What an alerter believes is proved along what Redis has told it and it has not looked
at yet. `ActiveInv` comes first: the circuit of a rule with a threshold is not open
before the rule has warmed up, and while the rule is active no alerter asks for a
reset. `AlertInv` then says of an alerter whose results do not overlap that
at most one of them is under way (`Alone`), that it believes the rule triggered only
while the circuit is open with its alert open or about to be (`BelievesRight`), and
that a check under way remembers that belief (`CheckRight`). `AgreesInv` is for
overlapping results: Redis has answered the commands in order (`InOrder`), and what the
alerter will believe once it has looked at its last answer (`ThinksOpen`) is what the
circuit is. Clears, starts and marks do not spoil that, as they leave a circuit with a
threshold and without a recovery window as it is, if its options are those that it was
opened by: `QuietAgrees` and `EventsSentBounded`, and with them the parts of these
invariants that say when the circuit is open, suppose that no others have been saved
(`hist.saves = 0`; `OptionsStay` says what follows from that for a step).
`TrippedHasAlert` needs no such condition.

That the alerts of an event are bounded by the troubles (crashes, changes of the lock,
overlapping results) is a matter of counting over any number of servers, results and
periods. `EventsInv` gives each possible writer of an alert a *turn*: a check that Redis
has not executed, an answer or a command that an alert will come from, and one of its
own for an owner that waits for no check, unless it takes the circuit for open and
still owes the alert. A turn that may write in the period of the circuit that is open
now is a *claim* (`Turn`, `Claim`). `Shared` says that there are no
more turns than one and one for each trouble, and no more claims than the alerts already
written in the period leave of that number. A step moves the turns of one server
(`Passes`, an injection from the places after the step to those before, from which
`SharedMoved` concludes on the cardinalities), a trouble may bring one more
(`SharedMore`), and an alert that is written uses up its claim (`AlertShared`). A new
period starts without alerts, and every turn may be a claim again. While the rule is
active no server that takes the circuit for open meets a warm-up (`Aware`): otherwise
the reply to a check would say "closed" of an open circuit and the event would be
notified again without a trouble.

The proof attempts found two things that TLC's options had hidden, both for a rule
created without `failureThreshold`, which counts as 0 in the script: a query or a
start opens its circuit unseen by the alerter, so that `QuietAgrees` supposes a
threshold; and such an opening begins a period like any other, which `log.period` now
counts.

### StreamAggregatorProofs

From `OffsetAssumption` ('$' and "no subscription" are no message ids),
`ConcurrencyAssumption`, `MaxLoopsAssumption` and `SizeAssumption` (finitely many
streams of bounded length):

| Theorem | Property |
|---|---|
| `CursorInvariance` | `CursorInv`, the inductive invariant |
| `CursorsOnlyAdvance` | `CursorsNeverRegress` |
| `TypeCorrectness` | `TypeOK` |
| `NothingLost` | `NothingSkipped` |
| `LatestHasTheLastWord` | `SettledOnLatest` |

The argument. A loop may send a read with a cursor that others have moved since,
so that the reply to it repeats messages; that it cannot end before the cursor
is not a matter of that reply alone. `CursorInv` says of all replies on the
connection: they are in the order of execution, what one brings ends at or
behind the cursor and within the stream, and a later one ends no earlier.
It holds because the connection executes in order, streams only grow, and a
reply that brings anything brings all up to the end. `OffsetInv` adds how far
back a read can begin, and `LoopInv` which loop waits for which read: each for
one. `ReaderInv` is all of these with the types. `SkipInv` follows a message from the
reply to a loop's list to its handler; `LatestInv`, for replies that `pAll()` hands
out at once, says that no list is left waiting and the last message handed out is
the one at the cursor, so that a repeated reply ends there too.

### StatsWriterProofs

From `StatsAssumption` (finitely many servers, the bounds are numbers, and `NoHour` is
no record of an hour):

| Theorem | Property |
|---|---|
| `TypeCorrectness` | `TypeOK` |
| `CollectedOnce` | `CollectedInv`, on which the others rest |
| `CountsMatch` | `CountsMatchRecords` |
| `HourMatches` | `HourMatchesRecords` |
| `RecordedOnceHolds` | `RecordedOnce` |
| `HourNeverLosesHolds` | `HourNeverLoses` |

The argument. `CollectedInv` follows a finished job on each server from the
listener to the buffer, to the transaction, to Redis: it is in one of these
places at most. With it a transaction that writes a record writes a count that was
not written before. The hour has its own: `AskedInv` says which jobs wait for the
answer of a read, and `HoursInv` that whatever is known of the hour, in Redis, in
an answer or in a buffer, counts a job at most as often as it was rolled up
(`Tally`). While no minute was rolled up before its predecessor was in Redis,
`RollupInv` holds: one server at most is active, it has one roll-up under way, and
what it started from is the hour in Redis, so that nothing is written over. With one
owner and no faults `SoleInv` says that Redis has the minutes that were written once,
and that the roll-up under way, or else the hour, counts each of them once.

### RuleRegistryProofs

From `RegistryAssumption` (`Absent` and `Nameless` are no metrics, and `Absent` is no list
of events; the latter was missing until the proof needed it):

| Theorem | Property |
|---|---|
| `TypeCorrectness` | `TypeOK` |
| `EvaluatedOnlyRegistered` | `EvaluatedAreRegistered` |
| `IndexListsStored` | `IndexListsRules` |
| `DeletedRulesForgotten` | `DeletedForgotten` |
| `RulesKnownEverywhere` | `KnownEverywhere` |

The argument. Of the first, `EvaluatedInv` needs no more than that what is
evaluated and what is registered are changed together. The others are about rest
only and are far from inductive: `LifeInv` says of a rule that nobody has deleted that
it is stored as soon as any server knows it or can find it, and is in the index or
will be put there by a save that is under way (`Living`); and of a deleted one that
was not saved meanwhile that it is not stored again, and is in the index only
until the deletion that takes it out has ended (`Leaving`). `KnownInv` says that a
created rule is registered on every server or is coming there (its event is in the
inbox, or a look-up that has not failed is under way), unless the look-up came too
early or was refused. `ForgetInv` says that a server
holds a deleted rule only while the rule is still stored or the event of its deletion
is in the inbox. Each step is reduced to what it tells the servers and what it does
to a rule's keys. At rest the calls and the inboxes are empty and what was promised is
there.

### AlertCountsProofs

From `CountsAssumption` (there is a server, and there are finitely many rules):

| Theorem | Property |
|---|---|
| `TypeCorrectness` | `TypeOK` |
| `CountsConsistent` | `ConsistentAtRest` |

The argument. `CountsInv` is about the pipelines on the way, whatever their order. Each
ends with the sum of the counts unless it only closes alerts or saves a rule, and one
that deletes a rule goes on to take it out of the index (`PipesInv`). Unless a
count was written without a sum, the total is the sum or such a pipeline is still to
be finished (`SumInv`). A rule that was deleted and not saved meanwhile has no
alerts and no counts, and is out of the index or about to leave it (`GoneInv`).

### QueueListenerProofs

From `BoundsAssumption` (the bounds are numbers):

| Theorem | Property |
|---|---|
| `TypeCorrectness` | `TypeOK` |
| `DurationsAreRight` | `DurationsRight` |

The argument. `QueueInv` is about the queue alone: a job's first event is its creation,
the event before a finish is its start, after a finish that is not retried the job can
only be removed, and its hash has the times of its last start and finish. `ListenerInv`
then says what the listener knows: the object in the cache has the start that was
heard last (`CacheInv`); a fetch on the way is for a finish that was heard, and what it
brings, or what its object knew before, are the times of that finish, unless an earlier
fetch may write over them (`WireInv`); and what was emitted has the times of the queue
unless one of the named exceptions applies (`EmittedInv`).

### Only model-checked

All liveness properties (`HeldAgain`, `StaleOwnershipEnds`, `GoodResultsRecover`,
`Delivered`, `LoopsEnd`, `BuffersDrain`, `CountsRepaired`, `FinishesEmitted`), which need
ENABLED and are beyond the prover.

## 6. Where code and documentation differ

In the run `RuleRegistryStatus` TLC violates what a test says:

- `StatusKeepsRule`. `setRuleStatus()` reads `reply[0]` of a pipeline that it does
  not wait for (`rules/rule-storage.ts:267`), takes the rule to be absent, deletes
  its hash and throws; "updates the ACTIVE status" in
  `src/__tests__/server/rules/rule-manager.spec.ts:247` expects the new status.

Met while modelling, in the modules as the code has them, without a run. First
those that a line of the repository contradicts:

- The script's two error level constants have each other's value
  (`commands/rules-4.lua:36-38`), so a WARNING result puts the rule in state ERROR;
  `src/__tests__/server/commands/rule-scripts.spec.ts:238` expects WARNING.
- With `successThreshold` of two or more the circuit stays open: after its first
  good result the alerter believes the rule to be NORMAL and sends no other
  (`rules/rule-alerter.ts:200`), against `graphql/sdl/sdl.graphql:2689`.
  `GoodResultsRecover` is therefore about a threshold of one.
- Two overlapping results each find the rule untriggered
  (`rules/rule-alerter.ts:203`) and each write and send an alert, against
  `maxAlertsPerEvent` in `graphql/sdl/sdl.graphql:2695`. `EventsSentBounded` counts
  the overlaps.
- What is published between two reads at `$` is lost
  (`redis/stream-aggregator.ts:300`), against "continues reading after a BLOCK
  timeout with no messages" in `src/__tests__/server/redis/stream-aggregator.ts:48`.
- `catchUp()` is to process what was missed while the server was down
  (`stats/stats-listener.ts:214-218`); it asks for the cursors of a series
  without a granularity, which nobody writes, and finds no gap (`:291`).
- `clearAlerts()` deletes a rule's alerts and sums the counts, but leaves the
  rule's own count in Redis (`rules/rule-storage.ts:608`), against "the current
  count of alerts available for this rule" (`graphql/sdl/sdl.graphql:1591`), until
  the sweep.
- The host's alert count is always 0: its script reads the field of keys that
  do not exist (`graphql/sdl/sdl.graphql:1362` promises the number of the host's
  alerts).
- `getDurations()` is to fetch "data for other jobs at the same time"
  (`queues/queue-listener.ts:336`), but `fetchJobData()` asks `needsMeta()` about a
  job where it looks at an event's data, and never fetches another job.
- `Timeseries.truncate` takes ids for milliseconds (`commands/timeseries-1.lua:635`),
  while `pruneAlerts()` gives it a duration and alert ids are snowflakes
  (`rules/rule-storage.ts:645`), so that its bound has little to do with the retention
  asked for. Nor does the bound mean what it is: Lua prints a number of that size in
  exponent form, and the digits of the ids are compared with that text. `Removable`
  therefore lets the sweep remove any older alerts, or none.
- Shared subscriptions end for everybody when one subscriber's iterator returns
  (`graphql/helpers/subscriptionManager.ts:124`), against "as long as there is an
  external reference" in `lib/refcount-cache.ts:24`.

Then those that nothing contradicts, by module:

- *LockManager.* `stop()` during an acquisition leaves the lock held: the answer sets
  `lock` without a look at `isStarted` (`redis/lock-manager.ts:131`). `isOwner`
  ignores the expiration of the lease (`:109`); the holder of `ImplementsLease` is
  therefore an owner within its lease. `Object.assign` in the constructor lets the
  defaults override the given options (`:68`), so that every host uses one key.
  A renewal that is answered only after the interval fired again and gave up the
  expired lock (`:188`) sets `lock` once more (`:165`), with no interval to renew or drop
  it; `acquire()` returns at once for an owner (`:129`), so the server believes to be the
  writer until the process ends and takes no part in elections. `Adrift` names
  these servers: `HeldAgain` and `StaleOwnershipEnds` except them, and
  `StaleOwnershipEnds` says that only such an answer makes one.
- *RuleAlerter.* It never sends a reset for a circuit that closed by good results:
  `checkAlert()` returns no alert id, so `_alert` is null when `handleReset()`
  looks at it (`rules/rule-alerter.ts:222`, `:243`). A client's query may close the
  circuit by the recovery window; the alerter, which still believes the rule
  triggered, writes no alert for the next trip (`:219`); a save of other options may
  open or close the circuit unseen in the same way. `start()` sets the alerter's state
  to NORMAL, whatever the circuit is (`:164`): after a restart, or when a result was
  handled before the start, the good results of an open circuit are dropped (`:200`)
  until the next violation. `Knows` in `GoodResultsRecover` names the servers whose
  start is over.
- *RuleCircuit.* `failureThreshold` without a value is 0 in the script: the rule opens
  on its start or its first query; `OpenIffThresholdReached` supposes a threshold.
  When the circuit closes, the script sets `failures` and `alertCount` to 0 in Redis and
  leaves them in its copy (`commands/rules-4.lua:591`): a check of a stopped rule without
  warm-up, which starts the rule and closes its circuit, then counts its violation on
  top of the old failures (`:622`) and opens it again, and whether it notifies is
  decided by the old number of alerts (`:452`). Options that are saved do not touch the
  circuit; the next call applies them, be it a query: a lower threshold opens the
  circuit without a violation, a higher one closes it without a good result.
- *StreamAggregator.* A bus that subscribes before the connections are ready is not
  read until another subscription begins a loop (`redis/stream-aggregator.ts:255`).
  A read that fails ends its loop with `readStreamActive` true (`:281`). With more
  than six messages in a reply an older duplicate may be handled last (`:308`);
  `SettledOnLatest` supposes that a reply fits into one round of handlers.
- *StatsWriter.* Every job is counted twice in COMPLETED or FAILED, with its latency
  and with its wait. After an idle gap each event ends one interval only, so a
  listener labels records with earlier minutes and rolls them up faster than
  they are written; the later roll-up then writes over the earlier.
  The host's roll-up (`stats/stats-writer.ts:105-130`, `:215-250`) waits for the
  queues to report and sums what is there; a queue that reports later arms it
  again, and the other queues' minute is added to the host's hour twice.
- *RuleRegistry.* A look-up that ends after its server heard of the deletion registers
  the deleted rule for ever (`raced`). The event of a creation may arrive before the
  hash, and the look-up it causes finds nothing (`unread`). When a circuit closes, the
  script writes `lastResolvedAt` into the rule's hash (`commands/rules-4.lua:358`), which
  the schema refuses (`rules/schemas.ts:106`): a server that is started again, or looks
  the rule up, reports an error and does not evaluate it (`refused`). What happens before the
  bus's first read, at `$`, is not heard of (`unheard`). A save that crosses a deletion
  brings the rule back (`crossed`). A changed metric is looked for under its new
  name, and the rule goes on being evaluated for the old one (`moved`). A script call after the
  deletion leaves a hash without a rule.
  A rule that `rules/rule.ts` reads from Redis is active in memory whatever its hash
  says: the constructor takes `active` (`:69`, `:113`) where schema and hash have
  `isActive`. The script has its own look at the hash, so an inactive rule is evaluated
  and not counted.
- *AlertCounts.* `saveRule()` writes the count and the state that its server remembers
  over those in Redis.
- *QueueListener.* `attemptsMade` is read from the place of `failedReason` (`:391`);
  `data.prevState` is never set, so a waiting job is always taken for new (`:263`).
  For a job that was removed when it finished, `wait` and sometimes `latency` are
  NaN, also when its creation and its start were heard: the job's name is unknown, so
  that its data are fetched all the same, and what is not there is written over the
  times that were known (`:326-327`, `:394`). A job that is retried while its data are fetched is emitted with the times
  of the other attempt, which may be the negative latency of the TODO at `:342`.
- *Timeseries script.* `incrementTimestamp` never looks at the first digit, and loses it
  when all others are nines: 1999 becomes 000 (`commands/timeseries-1.lua:202`). No
  module models this helper.

## 7. Not modelled, and why

- Metrics listener, shared subscriptions, channel map, shutdown of a host, and the
  supervisor: state around awaits that could be modelled; they are the plan below.
- Evaluators, aggregators, histograms, outlier and peak detection: floating point
  statistics without concurrency.
- Read-only Lua scripts, expression and date parsers, schemas, generated types,
  GraphQL resolvers and loaders: no state.
- Delivery of mail, Slack and web hooks: I/O; its success or failure is an action
  of RuleAlerter.
- ioredis, redlock, BullMQ: external, modelled as far as the code relies on them.
- Of the repository's lines by far the most are a vendored release of yarn
  (147,000 lines) and generated GraphQL types; the modules are about the others.

## 8. Plan

Done: RuleCircuit with proofs; WriterLease and LockManager with the proof of the
refinement; RuleAlerter over RuleCircuit; StreamAggregator; StatsWriter, the write
cache included; RuleRegistry; AlertCounts; QueueListener; and the proofs of section 5
for all of them. Next, in this order:

1. **MetricsListener**: registration, timers and saves around `poll()`, fed by the
   events of QueueListener.
2. **SharedSubscription**: iterators and reference counts around the await of
   their creation; abstraction: one source per key while it has subscribers.
3. **Notifications**, then **Host**, which composes start and stop of
   LockManager, the write cache and StreamAggregator; then the supervisor.
4. Pure operators: `incrementTimestamp` against addition, condition evaluators
   against a reference.

Theorems planned: the safety halves of the liveness properties
(what is on `FinishesEmitted`'s wire is neither emitted nor lost), the refinement of an
abstract alert log by AlertCounts, and those of the modules above, each with its invariant.
