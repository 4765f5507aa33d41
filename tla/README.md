# Vela in TLA+

Vela is a single process that watches services: it checks their health, restarts
the failed ones, alerts people and proxies traffic to what is healthy. This
directory holds TLA+ models of its engines, the TLC configurations that check
them on small instances and the TLAPS proofs of what holds for every instance.
Source paths below are relative to the repository's `src/`.

## 1. Inventory

### Components, their state and their operations

| component | code | state it keeps | operations |
|---|---|---|---|
| health engine | `health.rs` | one task per upstream, a cancellation token | tick, inspect the container, probe the port, record, broadcast, stop |
| state store | `state.rs` | services' statuses, upstream entries, health, restart and alert histories under one `RwLock`; a broadcast channel of 256 events | `record_upstream_health_check`, `record_restart`, `record_alert`, snapshots |
| recovery engine | `recovery.rs`, `RecoveryState` in `models.rs` | per service: attempts, `restart_in_progress`, backoff and its start | poll, reset, restart, give up, record, stop |
| alert engine | `alert.rs` | per service: the time and the kind of the last alert | receive, suppress, limit, deliver to each target, record, stop |
| proxy engine | `proxy.rs` | per listener: a semaphore and a round-robin counter; one detached task per connection | accept, read the healthy set, pick, connect, forward, stop |
| config engine | `config.rs` | none | load, synthesise legacy fields, validate, register |
| docker engine | `docker_engine.rs` | a client | container status, restart, repull |
| lifecycle | `main.rs` | the handles | start in order, wait for Ctrl-C, stop in order |
| API, `vela-ctl` | `api.rs`, `bin/vela_ctl` | none that others read | answer from a copy of the store; ask, and tell the answer |
| dashboard | `dashboard` | none | show the API's answers in a browser |

### How they interact

All engines share the store. The health engine is the only writer of statuses;
the recovery engine polls a *copy* of them every three seconds; the proxy reads
the healthy upstreams of a service for every connection; the API reads
everything. Status changes (health) and give-ups (recovery) travel to the alert
engine over the broadcast channel, which never blocks its senders and loses its
oldest event when full. No engine calls another one.

### What is hard

* **Interleaving.** Upstreams of one service are checked by separate tasks that
  write one aggregate status, and broadcast only after the lock is released.
* **Staleness.** The coordinator of the recovery engine awaits each restart
  (30 s for a command, longer for a pull) in the middle of a scan over a
  snapshot. A proxied connection uses a healthy set it has read earlier.
* **Time.** Backoff and cooldown windows are crossed by slow restarts and slow
  deliveries.
* **Bounds.** The event channel overflows, histories are trimmed, permits run
  out, the counter of the proxy wraps.
* **Failure of one step of several.** Deliveries to some targets, the steps of
  a repull.
* **Start and shutdown.** The engines start one by one while the first already
  work, and a failure of one ends the process; every loop has an unbiased
  `select!`; the engines stop one by one; connection tasks are detached.

`PROJECT.json` lists each of these hazards at its line, with the properties that
would show it going wrong.

### What makes each component correct

* health and store: the status is a function of the checks made, whatever their
  order; no status change goes unreported; a lasting outage is detected.
* recovery: one restart at a time; no more restarts or give-ups in an outage than
  configured, although decisions rest on old snapshots; waits that double up to a
  cap; attempts given back after recovery; a history that tells what happened.
* alert: no two failure alerts within a cooldown; every target tried; a lasting
  failure told in the end, and a lasting recovery, unless a sibling's event or a
  give-up overtakes it.
* proxy: permits neither leak nor multiply; turns are even; only upstreams that
  were Healthy are used; connections end.
* config: what it accepts keeps the engines' assumptions, and what is written out
  is what they run with.
* docker: settings survive any attempt, success means a fresh image, only a lost
  container stays down.
* lifecycle: until the alert engine ends an event is lost only by falling off the
  full channel, no engine outlives one it needs, every engine stops.
* API and `vela-ctl`: what is told of a service is so.

## 2. Modules

| module | models | checked by |
|---|---|---|
| `HealthEngine` | `health.rs`, `record_upstream_health_check` of `state.rs` | `MCHealth`, `HealthEngine_proofs` |
| `StatusFeed` | the statuses and the changes not yet broadcast, as the other engines see them | `HealthEngine!ImplementsFeed` |
| `RecoveryEngine` | `recovery.rs`, `RecoveryState`, `record_restart` | `MCRecovery`, `RecoveryEngine_proofs` |
| `RestartPolicy` | what the recovery engine promises, abstractly | `RecoveryEngine!ImplementsPolicy` |
| `AlertEngine` | `alert.rs`, the broadcast channel, `record_alert` | `MCAlert`, `AlertEngine_proofs` |
| `RecoveryAlert` | the two engines on one store and one channel | `MCRecoveryAlert`, `RecoveryAlert_proofs` |
| `ProxyEngine` | `proxy.rs`, `get_healthy_upstreams` | `MCProxy`, `ProxyEngine_proofs` |
| `DockerEngine` | `restart_container`, `repull_and_restart` of `docker_engine.rs` | `MCDocker`, `DockerEngine_proofs` |
| `ConfigEngine` | `config.rs`, `validate_proxy_config`, `build_proxy_bindings` | through `Lifecycle` |
| `ApiEngine` | the router, `auth_middleware` and the handlers of `api.rs`, `get_json` of `vela-ctl` | through `Lifecycle` |
| `Lifecycle` | `main.rs` around all engines, with one `vela-ctl` | `MCLifecycle`, `Lifecycle_proofs` |

`Lifecycle` extends the pure modules `ConfigEngine` and `ApiEngine`, `AlertEngine`
extends `StatusFeed`; `HealthEngine`, `RecoveryEngine` and `RecoveryAlert` instantiate
others. An engine's module is the engine with its surroundings as an environment. The
environments are not arbitrary: a module assumes of its neighbours only what the
neighbour's module is shown to do. `AlertEngine` and `RecoveryAlert` take statuses and
events from `StatusFeed`, which the health engine is proved to implement
(`HealthImplementsFeed`); `RecoveryEngine!StatusChange`, which looks at no event, allows
all the health engine writes (`HealthWritesChanges`), and more: a service with several
upstreams is not told apart. `AlertEngine` takes the give-ups that
`RecoveryAlert!ImplementsAlertEngine` shows recovery to make. The `ASSUME`s about
services and modes are what `Lifecycle!ConfigSound` shows of every configuration that
starts an engine.

An operator whose name ends in `_Something` next to an operator of the model
(`Finish_KeepFlag` next to `Finish`) is a plausible mistake in that code, kept to
show that the properties notice it: put in place of the right one it makes TLC
report a violation. Nothing of the specifications uses them.

### HealthEngine

`task[u]` follows the loop of upstream `u`: `waiting` in the `select!`,
`inspecting` the container, `probing` the port, `passed` or `failed` before the
write lock, `sending` between the release of the lock and `event_tx.send`. A
task whose service has a zero check interval is `panicked` from the start, as
`tokio::time::interval` panics on it. `Record` is the whole critical section:
the entry found by address (so a repeated address shares the entry of the
first), the streak, the aggregate, the history. `reach[u]` is the world: whether
the port accepts and whether the container runs; it may change between any two
steps, the two halves of a check included. `failures` is saturated at the
threshold: above it the code only counts on. Latency, timestamps and the text of
errors are left out. `last_sent` and `flow` are history variables: the last event
sent per service, and per status how many events led into it less how many led out.

### RecoveryEngine

`pc` is the coordinator: `idle` in the `select!`, `scanning` over `snapshot` with
`todo` left to visit (a `HashMap` is visited in any order), `restarting` while the
restart is awaited, `recording` before `record_restart`. The visit of a service is
one of `Settle`, `Leave`, `GiveUp`, `Begin`, one for each branch of
`scan_and_recover` and `handle_failed_service`. `Finish` stands for the end of
any restart with any `RestartOutcome`: all four change the recovery state
alike, and `succeeded` only goes into the record. Time is a clock per service in
whole seconds (`waited`), as the code compares whole seconds. `tries`, `give_ups`
and `rested` are history variables counted by *outage*, the time from leaving
Healthy or Unknown to being one of them again, which is not what the engine's own
counter counts: the engine sees outages only through its polls.

### RestartPolicy, and that RecoveryEngine implements it

The policy has no poll, snapshot, counter or backoff: services go down and come back,
a restart needs an outage with restarts left and no give-up (or a service that is up
again: the decision was made earlier), and one restart is under way at a time.
`RecoveryEngine!Policy` maps it: an outage is a status that is neither Healthy nor
Unknown, `spent` is `tries`, a give-up is one counted in `give_ups`, `busy` is the
restart that is awaited. `ImplementsPolicy` says that whatever the order of polls,
visits and status changes, the steps of the coordinator are the policy's or stutters.

### StatusFeed

The health engine without its checks. `ChangeStatus` is the critical section of a check
that changes the aggregate, `TakeChange` the `send` behind it, after the lock is
released: between the two another task may write and send, so the events of siblings
arrive in any order. `Feasible` is what keeps the feed from making changes no checks
could. A service with siblings passes Degraded on its way to and from Failed, and it
turns Failed (Healthy) only over unsent changes that its siblings' last checks can have
left behind. That the feed is not too narrow is what `ImplementsFeed` says: every step of
the health engine is one of the feed or a stutter.

### AlertEngine

`channel` and `lagged` are the tokio broadcast channel as its one receiver sees
it. `Alert` is the part of `handle_event` before the first delivery, `Deliver` one
iteration of its loop, with the cooldown begun after the last. `Scan` and
`PublishGiveUp` are the recovery engine as far as events are concerned: the
give-up is decided on a snapshot and sent later, and a snapshot that has the service
Healthy or Unknown makes another one possible. An event sent when the task has stopped
is gone (`Send`): the receiver ended with it. `told` and `quiet` are history
variables: what the last alert about a service said, and how long ago its failure
was last told. What came of a delivery is left out, since the loop, the records and the
limit do not depend on it: `Deliver` is any end of it.

Events out of order limit what can be said of a recovery. A sibling may write Degraded
and send it only after another task has written and sent Healthy; the alert about
Healthy has cleared the limit, the late one is delivered, and Degraded is the last word
on a service that stays Healthy. So `RecoveryIsTold` promises Healthy as the last word
when no two siblings have a change to send at a time (`InOrder`, always so with one
upstream). Without `InOrder` it promises that Failed is not the last word as long as no
event is lost. `FailureIsTold` needs no such premise: Failed is written only after the
last check of every sibling has failed, so nothing sent late can tell of a recovery.

### RecoveryAlert

`RecoveryEngine` and `AlertEngine` side by side, sharing the statuses. `StatusChange`
writes a status, a step of the store that recovery sees and the channel does not yet;
`Publish` broadcasts it; a give-up goes on the channel at once, as the coordinator sends
it itself. Every other step of one engine leaves the other's state alone. `GiveUpState`
is `AlertEngine!give_up` seen through the coordinator: *due* from the scan whose snapshot
has the service Failed with its attempts used up, until the visit; *done* until a scan
will reset the attempts. `ImplementsAlertEngine` then says that the alert engine's
environment allows all the recovery engine does. The three `ASSUME`s are those of the
modules put together. `late` is a history variable: the services given up after they had
recovered, which `RecoveryToldUnlessLate` shows to be the only exception for a service
whose events come in order. Main stops recovery only after the alert engine, and so does
`Recover`.

### ProxyEngine

`conn[c]` follows a connection task through `handle_connection`. A client that is
accepted without a permit is dropped at once, which changes nothing, so it is a
stuttering step; clients waiting in the kernel's queue and bytes are not modelled.
`Read` and `Pick` are separate steps, as the task may be overtaken between
reading the healthy set and `fetch_add`. `was_healthy` and `turns` are history
variables. `turns` keeps, for the set the last turns were taken over, how often
each upstream had its turn, less the whole rounds, and starts again when the
counter wraps, where the code may give one upstream two turns in a row.

### DockerEngine

One restart as a series of calls to the Docker daemon: `pc` is the call made next,
`captured` the two variables that hold the configuration from the inspection to the
recreation. Every call has three outcomes where the daemon allows them: it succeeds,
it fails without effect, or it has its effect and reports an error (an answer lost,
a timeout of the client). The last two need a daemon that is not `steady`, or a
container that is not as the call wants it. A start that fails for good, because of a
port taken or an image that does not run, counts as an unsteady daemon. `Kill` is a
Vela that dies between two calls: `main` awaits Ctrl-C alone, so SIGTERM kills it. What
a call already sent does after that is the third outcome, without the answer; the
model lets Vela die only before or after the call's effect. Between two calls the
container exits or is started (`Flip`), an operator removes it or makes it anew
(`Withdraw`, `Provide`), and images are published. A version is how new an image is;
the configuration of a container is one value, and what in it comes from the
image's own defaults is not told apart. `asked`, `owned`, `touched` are history
variables. The recovery engine awaits one restart before the next begins, so one
container is enough; when and how often it restarts is `RecoveryEngine`, for which
this module is the inside of one `Begin` to `Finish`.

### ConfigEngine

A configuration is what TOML has parsed, with the fields a rule looks at: ids, ports
and hosts are values, other texts present or absent. `Synthesized` is the translation
of a block with flat fields, `Loads` what `load_config` accepts,
`validate_proxy_config` the port rules, `Sound` and `Conservative` what the engines
and the operator rely on. The order of the rules decides only which error is reported.

### ApiEngine

`Code` is the status code of a request: the layer that asks for the key, which wraps the
routes and the fallback alike, then the router (an empty id matches no path: `Routed`),
then the handler, which looks a service up in the copy of the store and its histories in
the configuration. `Told` is what `vela-ctl` makes of
the code. Ids with characters that mean something in a URL, and keys with blanks at the
ends, are left out: `vela-ctl` puts both into the request as they are.

### Lifecycle

`stage` and `step` are where `main` is: the two validations, the registration, one
`Start` per engine in `StartOrder`, one `Cancel` and one `Join` per engine in
`StopOrder`. `StartFails` is a `run()` that returns an error: a port of the proxy or the
API that is bound already (`taken` by another process or `bound` by Vela), or an HTTP
client the alert engine cannot build. `CtrlC` stops a server that awaits it, kills one
that does not yet, and is not heard any more during the shutdown. An engine is a task
that runs, is cancelled and ends; that it does end is what `ShutdownCompletes`,
`StopsOnCancel` and `AlertStops` show in the engines' own modules. What ties the engines
together stays: the health engine writes the store (`Check`) and then the channel
(`Broadcast`), the recovery engine puts its give-ups there, the alert engine empties it,
the API reads the store for `vela-ctl`. A give-up is allowed at any time; when
recovery makes one is `RecoveryEngine`. The channel holds the events' services, up to
`Capacity`, and drops its oldest; its receiver is made with the store and ends with the
alert engine (`HasReceiver`). A cancelled task of the health engine still sends the
change it has written, which `End` does in one step, as nobody receives it any more. `ctl`
is one `vela-ctl`, which may ask at any moment; `written`, `owed` and `seen` are history
variables. `owed` counts per service the events made and not yet received, from the
moment a status is written, so `NoSilentLoss` says where each of them is.

## 3. Runs

| run | instance | shows |
|---|---|---|
| `health_siblings` | 1 service, 2 upstreams, one a container, threshold 2, history of 2 | `TypeOK`, `StoreConsistent`, `EventsBalance`, `ImplementsFeed`, `DownIsDetected`, `ShutdownCompletes` |
| `health_edges` | a container with no Docker daemon, a repeated address, a zero interval | `SoleEventsChain`, `HistoryEndsWithStreak`, `RepeatedAddressUndecided` |
| `recovery_episode` | 1 service, 2 restarts, backoff 2 to 5 s, history of 2 | `TypeOK`, `RestartHistory`, `BackoffCeiling`, `ImplementsPolicy`, `BackoffRespected`, `FailedIsGivenUp`, `HealthyIsReset`, `StopsOnCancel` |
| `alert_one` | 1 service with 2 upstreams, a webhook and a log, cooldown 2 s, channel of 1 | `TypeOK`, `NoTargetSkipped`, `CooldownRespected`, `RecoveryIsTold`, `FailureIsTold`, `AlertStops` |
| `recovery_alert` | 1 service with 1 upstream, 1 restart, a log, cooldown 1 s, channel of 1, no backoff | `ImplementsAlertEngine`, `RecoveryToldUnlessLate` |
| `proxy_listener` | 3 clients, 2 permits, 2 upstreams, a counter of 4 values | `TypeOK`, `PermitsAccounted`, `TurnsBalanced`, `RoutedToHealthy`, `ConnectionsEnd` |
| `docker_restart` | 1 container, 2 settings, 2 versions of the image | `TypeOK`, `SettingsKept`, `FreshImage`, `RunsOrLost` |
| `lifecycle` | 19 configurations of one or two services, 3 sets of taken ports, 8 requests, channel of 2 | `TypeOK`, `ConfigSound`, `NoSilentLoss`, `OrderKept`, `CtlTellsTruth`, `ShutdownEnds` |

Four runs each look for one counterexample, to a sentence of the
repository that the code does not keep (section 5).

Every configuration but `MCDocker.cfg` switches off TLC's deadlock check, because the
engines may really stop: after a shutdown nothing is left to do.

### Bounds, and why they are enough

* *Two upstreams, three clients.* All code is symmetric in them and
  tasks meet pairwise: at one entry, one aggregate, one counter. Three clients and two
  permits make the limit bite while two tasks race.
* *One service.* Recovery and alerting keep their state per service, and a snapshot
  grows stale with one service too, between poll and visit and during its own restart.
  `recovery_stale` has three, though one is enough for its counterexample; the theorems
  hold for any number.
* *Threshold 2, 2 restarts.* One failure below the threshold and one at it; a first
  restart, a doubled wait, a give-up.
* *Histories of 1 or 2 records.* They overflow within a few steps.
* *Backoff 2 and 5.* One doubling is below the cap and the next is cut by it.
* *Two settings, two versions.* Those captured and those the operator has changed to
  meanwhile; the image there was and the one published during the attempt.
* *`CountCap`* stops counting `restart_count`; `RestartHistory` needs it only up to
  the length of the history. *`Longest`* stops the backoff clock, which no wait
  exceeds (`BackoffCeiling`, proved). `rested` stops at the cap, `quiet` and
  `last_alert_age` at the cooldown: beyond, nothing compares them.
* *Configurations.* A flat service block, every block that differs from it in one field
  a rule looks at, and pairs that clash or seem to: the same id, the same listen port, a
  proxy port that is the other's own port. Each may be refused or accepted by one rule.
* *A channel of one* in the alert runs: it overflows whenever two events meet, which is
  what a larger one does after more steps. *A channel of two* in `lifecycle` holds events
  of two services, or two of one, and still overflows.
* *Cooldown 1, backoff 0, one record, one upstream* in `recovery_alert`: the two engines'
  own runs have the larger ones, and siblings that overtake each other are in `alert_one`;
  what is new together, a give-up between a write and its event or between two events,
  needs none of them. `RecoveryAlertImplements` is proved for any number of upstreams.
* *`CounterSize` 4* stands for the 2^64 values of the counter: a power of two, so it
  wraps in step with two upstreams, as the real counter does with two. For a number
  of upstreams that does not divide it the turns start again at the wrap.

The theorems below do not depend on any of these values.

### Fairness, and why the code justifies it

* `WF` on the steps of a task: tokio polls a woken task; every await ends, because
  probes, commands, deliveries, connects and transfers are under a timeout. Docker
  calls (`AttemptStep` of `DockerEngine`) rely on the client's own timeout; that a
  pull which keeps its stream open without an answer ends is an assumption about the
  daemon.
* `SF` on the cancellation branches: `select!` is not biased, it picks among
  ready branches at random, and a cancelled token stays ready. A branch that is
  ready again and again is taken with probability one. The comment in
  `health.rs:175` that cancellation takes priority is not what an unbiased select
  does; `ShutdownCompletes` does not need it.
* `WF` on `Publish` in `AlertEngine` and `RecoveryAlert`, for every upstream: nothing is
  awaited between the write of a status and the `send` of its event.
* `WF` on `Second`: time passes.
* `WF` on `MainStep`, on `End` of any engine and on `Reply` in `Lifecycle`: main is
  never blocked but by a join, engines end once cancelled (shown in their own modules),
  handlers only read. `vela-ctl` and Ctrl-C have no fairness.
* `RecoveryAlert` has fairness for the alert loop, the broadcasts and the clock alone:
  nothing there needs the recovery engine to go on. `Lifecycle` has none for `Check`,
  `Broadcast`, `GiveUp` and `Read`: the shutdown does not wait for them.
* No fairness for the world, clients, statuses or a shutdown: `DownIsDetected`,
  `FailedIsGivenUp`, `HealthyIsReset`, `RecoveryIsTold`, `FailureIsTold`, `RunsOrLost`
  are conditional on a world that settles and a Vela that goes on running.

## 4. Proofs

All theorems assume only the `ASSUME` of the module: types of the constants, that
every service has an upstream (`LifecycleConfigSound` proves it of every configuration
that starts an engine), a base backoff not above the cap.

**HealthEngine_proofs.** The inductive invariant is

    HealthInv == TypeOK /\ StoreConsistent /\ ShadowUnknown /\ LastCheckAgrees
                        /\ HistoryBounded /\ HistoryEndsWithStreak
                        /\ SoleEventsChain /\ EventsBalance

`TypeOK` is inductive alone and is proved first; every other part is shown to be
kept by a step that starts in a state with `TypeOK` and the parts it needs.
`LastCheckAgrees` needs `StatusIsAggregate`: a service becomes Healthy or Failed
only by the check that is at that moment appended. `RepeatedAddressUndecided`
follows from `ShadowUnknown` (the entry of a repetition is never written) and
the aggregate rule. `HistoryEndsWithStreak`
is not inductive: a history above its bound would be cut by a push and come out shorter
than the streak without being full. `HistoryBounded` excludes it, and then a failure
pushed on a history that ends with a streak makes one that ends with the longer streak
(`PushFailure`). `EventsBalance` needs, for `Record` and
`Broadcast`, how the set of unsent events of a service changes and that it is
finite. Theorems: `HealthTypeOK`, `HealthStoreConsistent`,
`HealthLastCheckAgrees`, `HealthHistoryEndsWithStreak`, `HealthEventsBalance`,
`HealthSoleEventsChain`, `HealthRepeatedAddress`.

Two more say that the health engine is what the other engines' modules take it for:
`HealthWritesChanges`, by which every write of a status is a change
`RecoveryEngine!StatusChange` may make, and `HealthImplementsFeed`, by which it
implements `StatusFeed`. A `Record` that changes the status is a `ChangeStatus`, a
`Broadcast` a `TakeChange`, all else a stutter. For this `EventsTell` joins the invariant:
a change that waits to be sent agrees with the last check of its upstream, for the task
has made no other since. So a service that turns Failed, whose entries have all
failed, has no sibling with a change to Healthy or Unknown still to send, and one that
turns Healthy none with a change to Failed (`RecordFeasible`). A service that repeats an
address, whose tasks share an entry, turns neither.

**RecoveryEngine_proofs.** The invariant is

    RecoveryInv == TypeOK /\ Flight /\ InProgressExact /\ (\A s : Ledger(s))
                          /\ FreshEpisode /\ BackoffCeiling

`OutageBudget` is not inductive: it relates what was spent in the outage to the
maximum, while the engine compares its own counter with the maximum and may reset
that counter because of an old snapshot. `Ledger` is what bridges the two: the
counter is at least what was spent, *and*, as long as a service is still to be
visited with a settled status in the snapshot, nothing has been spent in its
present outage, because a service is visited once per scan and one coordinator does
all visits. So the late reset never gives back attempts of the current
outage. The same bridge carries the refinement: `RecoveryImplementsPolicy` shows, action
by action, that a step of the engine is a step of `RestartPolicy` or a stutter, with
`Ledger` where the policy asks for restarts left and no give-up before.

Two more invariants rest on this one. `HistoryInv` carries `RestartHistory`: the restart
in flight has the number of the service's present attempt (`Numbered`), as one
coordinator resets, counts and records, and visits nobody while it awaits a restart; and a
push keeps a history whose numbers grow by one or
start again (`EpisodicPush`). `BackoffInv` carries `BackoffRespected`, which speaks of
what was waited, where the engine compares a clock with a backoff it has doubled, capped
and lengthened at the end of every restart: the backoff is at least what the restarts that
have *ended* make it (`Ended`, one less than the attempts during a restart), `rested` is
never behind the engine's clock up to the cap, and once there is an attempt the clock
runs - unless `max_restarts` is
zero, when the one attempt counted is the give-up and nothing was ever begun. That
doubling and cutting at the cap agree with cutting `base * 2^n` needs `2^(n+1) = 2 * 2^n`:
the library has no theorem of powers, but states that `2^n` is the number of subsets of a
set of n elements, and each subset of `1 .. n` makes two of `1 .. n + 1` (`PowerNext`).
Theorems:
`RecoveryTypeOK`, `RecoveryInProgressExact`, `RecoveryOutageBudget`,
`RecoveryFreshEpisode`, `RecoveryBackoffCeiling`, `RecoveryRestartHistory`,
`RecoveryBackoffRespected`, `RecoveryImplementsPolicy`. (No run
repeats `InProgressExact`, `OutageBudget`, `FreshEpisode` and the health engine's
`LastCheckAgrees`: they are parts of the invariants, and the policy says the first two.)

**AlertEngine_proofs.** The invariant is

    AlertInv == TypeOK /\ Dispatch /\ \A s \in Service : Untold(s) /\ Covered(s) /\ Tried(s)

`Dispatch`: the alert under delivery is the last one told, and has a target to go to.
`Untold`: nothing is told of a service without targets. `Covered`: after a failure alert
the engine's own entry is set and not older than `quiet`, so its limit lasts at least the
cooldown of the property; a dispatch, during which `quiet` runs and the entry is not yet
written, is the exception it makes. `Tried`: how many targets of the last alert have been
tried, and that the newest records are theirs, which carries `NoTargetSkipped` through
the deliveries. Theorems: `AlertTypeOK`, `AlertNoTargetSkipped`, `AlertCooldownRespected`.

**RecoveryAlert_proofs.** The two engines' proofs are used, not repeated: `RP` and `AP` are
`RecoveryEngine_proofs` and `AlertEngine_proofs` with the composition's variables (for
`AP` the give-ups are `GiveUpState`), and their lemmas are cited once their `ASSUME`s are
shown to follow from those of `RecoveryAlert`. The invariant is

    CompositionInv == RP!RecoveryInv /\ NothingPending

`NothingPending` (nobody waits for a visit between two scans) is what a `Poll` starts
from: no give-up of an earlier scan is still due. `RecoveryAlertImplements` then goes action by action: a
`Poll` is a `Scan`, a `GiveUp` is a `PublishGiveUp`, a change of status and its broadcast
are a `StatusChange` and a `Publish`, the alert engine's steps are its own, and no other step of the coordinator changes any
`GiveUpState`. That last part is where the recovery engine's invariant is needed: a visit
must not skip a give-up that is due because a restart is in progress, and none is while a
scan visits (`InProgressExact`). From the mapping the alert engine's invariant holds of the
composition (`ComposedAlertInv`), and with it the cooldown, for the give-ups the recovery
engine really makes; from the recovery engine's, the policy. Theorems:
`RecoveryAlertImplements`, `CompositionImplementsPolicy`, `CompositionCooldownRespected`.
(The last two have no run of their own: `recovery_episode` and `alert_one` check the same
of each engine alone.)

**ProxyEngine_proofs.** The invariant is

    ProxyInv == TypeOK /\ PermitsAccounted /\ \A c \in Conn : Offer(c)

`PermitsAccounted` counts: `Accept` adds one connection to a finite set and takes one
permit, `End` and the other ways out remove one and return it. `Offer` says what a
connection task holds: until it reads, all that is Healthy now has been Healthy since it
came in; from the read on, what it read is not empty and was Healthy. That the counter
modulo the length always finds a member (`NthMember`) is an argument about ranks: the
numbers of smaller members are an injection of the set into as many numbers, so every
number below its size is the rank of a member.

`TurnsBalanced` has an invariant of its own, `TurnsInv`. That no upstream has had two
turns more than another is not inductive: which one is next depends on the counter, and
the turns must say which have been. `Window` does: the upstreams one turn ahead are
exactly those the counter led to from some value `first` on, and fewer than a round ago. The
next remainder then is none of those in the window (`RemaindersDiffer`), so its upstream
is not ahead yet; and a window that would be a whole round long contains every remainder
(`EveryRemainder`), so all upstreams are ahead and the round is taken off. A set that is
read for the first time starts with an empty window. The tasks' order plays no part: the
set goes with the task and the value with the turn. Theorems: `ProxyTypeOK`,
`ProxyPermitsAccounted`, `ProxyRoutedToHealthy`, `ProxyTurnsBalanced`.

**Lifecycle_proofs.** The invariant is

    LifecycleInv == TypeOK /\ Shape /\ Loaded /\ StoreKnown /\ Asking
                           /\ NoSilentLoss /\ CtlTellsTruth

`Shape` says which tasks run at which stage and step; `OrderKept` follows from it, and so
does that a task that is cancelled is the one main stops, which `NoSilentLoss` needs at
the end of the health engine, whose last events nobody receives: the alert engine has ended.
`NoSilentLoss` itself is counting. An event that is written is owed and unsent; a send moves
it to the channel (`AppendOccurs`); a `recv`, or the end of a full channel, takes it off
there and off what is owed (`TailOccurs`, `PublishAccounts`). `Loaded` says how far the configuration has been
validated; `ConfigSound` is then a fact about the operators of `ConfigEngine` alone
(`AcceptedIsSound`), for configurations of any size. `StoreKnown` and `Asking` relate the
store to `config.toml` and the status asked for to those seen. Theorems:
`LifecycleTypeOK`, `LifecycleConfigSound`, `LifecycleNoSilentLoss`, `LifecycleOrderKept`,
`LifecycleCtlTellsTruth`.

**DockerEngine_proofs.** The invariant is

    DockerInv == TypeOK /\ SettingsKept /\ CaptureTrue /\ PulledEnough

`SettingsKept` says nothing of what an attempt holds while there is no container;
`CaptureTrue` (what is captured is what the operator gave) carries the settings from the
inspection over the removal to the recreation, and a return that drops the capture
keeps it from being used against a container the operator has made since.
`PulledEnough` does the same for the version: what is behind the pull rests on an
image at least as new as `asked`. Most steps change only whether the container runs, and
`SameContainer` says once that settings and version survive that. Theorems:
`DockerTypeOK`, `DockerSettingsKept`, `DockerFreshImage`.

**Only model-checked.** What the prover cannot do, as it has no fairness and no `ENABLED`:
`DownIsDetected`, `ShutdownCompletes`, `FailedIsGivenUp`, `HealthyIsReset`,
`StopsOnCancel`, `RecoveryIsTold`, `FailureIsTold`, `AlertStops`,
`RecoveryToldUnlessLate`, `ConnectionsEnd`, `RunsOrLost`, `ShutdownEnds`. Every invariant,
action property and refinement of the passing runs is proved.

## 5. Where the repository says otherwise

| run | what is said | what the code does |
|---|---|---|
| `recovery_stale` | "Vela's recovery engine only acts on `Failed`" (`TESTING.md:557`) | restarts a service that has left Failed between the poll's snapshot (`recovery.rs:170`) and its visit |
| `alert_give_up` | the give-up event is broadcast "so the alert engine notifies operators" (`recovery.rs:285`) | the cooldown drops it within 60 s of the last failure alert, and it is not sent again |
| `startup_abort` | a misconfigured proxy port must "never leave health/recovery/alert engines running only to be exit(1)'d" (`main.rs:64`) | a listen port that is another service's own port passes validation and fails at the bind, after three engines have started |
| `proxy_drain` | "Waits for all in-flight connection handlers to complete" (`proxy.rs:54`) | joins only the listeners |

Smaller ones, without a run: no restart wait "will exceed" `MAX_BACKOFF_SECS`
(`models.rs:542`), but the jitter is added after the cap (`models.rs:524-526`): up to
362 s for a maximum of 300, which `BackoffCeiling` states; `Unknown` is not only
"never successfully checked"
(`models.rs:382`), a service is Unknown while any upstream awaits its first check;
attempts are "reset to 0 when the service returns to Healthy" (`models.rs:494`)
only if a poll sees it Healthy; `BASE_BACKOFF_SECS` is not waited "before the first
restart attempt" (`models.rs:539`); the jitter is said to be ±20% and is only added;
"Update rate limit state after successful dispatch" (`alert.rs:249`) also begins the
cooldown when every delivery failed; `is_recovering` (`models.rs:409`) is never set; an id
must be lowercase (`models.rs:57`), but uppercase letters pass, and so does the empty id,
which no API path matches, so `vela-ctl` says it is not found; a webhook without an
endpoint, a zero check interval and a repeated upstream address pass validation; an
`api_key` that is not ASCII passes too, and then every request with it is denied; a
second Ctrl-C during the shutdown does nothing.

## 6. Not modelled, and why

* The dashboard, the liveness probe, the security headers, `vela-ctl`'s tables: they
  depend on no state but what they show. Error types and deployment files have no
  behaviour.
* `record_health_check` and `snapshot_upstream_states` of `state.rs`: nothing in the
  running program calls them.
* Latencies, timestamps, the texts of errors, logs and alerts, the bytes of a tunnel:
  no property depends on them.
* A wall clock that steps back. The code would see a backoff or cooldown of a very long
  or a negative time; what it should do is said nowhere.
* What in a container's configuration comes from its image: `docker_engine.rs:195`
  carries the defaults of the old image over to the new one, and nothing says it should not.

## 7. What may come next

1. *Compose health with recovery:* attempts and statuses, the policy from the checks
   themselves in place of `StatusChange`.
2. *Abstract further:* one restart as a single step, implemented by `DockerEngine`.
3. *Prove* what a composition of health and recovery adds, in the way
   `RecoveryAlert_proofs` uses the engines' own proofs.
4. *A wall clock that steps back,* once it is decided what the engine should do.
