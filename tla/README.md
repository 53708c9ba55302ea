# A verification of Notion 5G's probe

Notion 5G measures the connection of several 5G/LTE routers installed together. A Go backend
(`src/server`) keeps measurements and hands out work; routers with an agent
(`src/server/cmd/routeragent`) and scripts poll it for commands; and a **probe** — an Android
phone (`src/mobile/android`) behind a MikroTik (`src/scripts/mikrotik`) — executes orders: it forces
the routing rule of the MikroTik to one router, measures, puts the rule back, uploads the result, or
reboots the router over SSH. This directory holds TLA+ models of that work, model-checked with TLC and
in part proved with TLAPS.

`PROJECT.json` maps every definition to the lines it models, every run to its properties, every
property to a plausible bug that it notices, and lists the hazards of the code.

## 1. The system

| Component | State | Operations | Talks to | What is hard | What makes it correct |
|---|---|---|---|---|---|
| Phone order store (`store/phoneprobe.go`, `reboot.go`) | rows of `commands` with `runner='phone'`, `probe_results`/measurements | create (single, batch, reboot), ack, cancel, state report, sweep, result upload | phone by HTTP, dashboard | late, repeated, reordered reports; sweep and cancel against reports; cooldown of reboots | order and measurement agree; a final the phone gave is final; no reboot waits beside another open one; cooldown counts what the phone said it sent; silent orders are swept |
| Phone worker and control (`ProbeWorker.kt`, `ProbeControl.kt`, `ProbeDb.kt`) | SQLite: orders, outbox, results; two threads | poll, ingest, ack, flush, upload; expire, pick, execute, recover | store by HTTP, router by SSH | crash between two transactions, lost answers (of the backend and of the router), two senders, the loss of the database | an order starts at most once; both sides agree once everything arrived; everything arrives |
| Route rule (`ProbeWorker.kt`, `RouterOsApi.kt`, `ControlPlane.kt`, `probe-ab.rsc`) | the table of one rule in the MikroTik; flags of the worker; counter of the router | force, check, restore, reading at rest, watchdog, switch by hand | MikroTik API | sessions cut anywhere, death of the app, two clocks | the rule comes back; a test is not disturbed; the phone's traffic avoids a router under test |
| Command queue (`store/store.go`, `probes.go`, `routeragent`) | rows of `commands` with `runner` agent or probe | create, cycle, claim (SELECT then UPDATE), complete | agents and scripts by HTTP | statements of two requests mix; an agent dies | measured once; closed stays closed; nobody blocks the queue |
| Probe configuration (`probes.go`) | `probes`, `probe_targets` (router, table, letter, operator) | upsert, migration | dashboard, attribution | letters worked out again at each save; old rows without one; change of runner with open orders | letters are distinct and stay with their router |
| Cycles of the phone and of the script | `last_cycle_at`, batches | enqueue when due | scheduler | count and insert are apart, for two cycles at once | no duplicated tests (they may be: finding 6) |
| Probe status and phone log (`store/phoneprobe.go`) | `probe_status`: the last status, with its sequence number | upsert | phone | uploads overtake each other, the service starts again | what is known of a router never goes back |
| Reboot advice (`reboot.go`, `RouterHealth.kt`, `ProbeBus.kt`) | none in the backend (a query); the health of each slot in the phone | evalReboot | phone, agents, dashboard | two clocks, delayed statuses, swapped cables | advice only for a router that was down that long, none missed, none that the creation refuses |
| Network classification (`netclass.go`, `clientip.go`, `asn.go`, `api.go`, tests of `app.js`) | `device_egress`, ledger of observations, queue of the worker, verdict of each measurement | learn an address, observe, classify, revise, preview | browser, routers, DNS | addresses rotate, are shared and relayed; the phone changes network during a test; DNS answers late; the tunnel is unverified | the headline speed comes from the router; doubt never turns into certainty; the operator belongs to its address |
| Attribution of the phone's results (`api/phoneprobe.go`) | targets, measurements | handlePostResults, storeResult, classifyPhoneResult | phone, DNS, dashboard | the targets and the operators change while a name is resolved; cables move during a test | a result that is surely of a router is of that router |
| Devices, measurements, heartbeats (`store.go`, `api.go`) | tables | single-row writes, merges of JSON | agents, dashboard | read-modify-write of JSON | no lost update |
| Services, channels, screens, I/O with routers | — | — | Android | decided by Android or by other devices | taken as choices of the environment |

`PROJECT.json` lists every component with what is and is not modelled, and 40 hazards with the
properties that cover each, or the reason why none does.

## 2. The modules

| Module | Models | Checked by | Proved in |
|---|---|---|---|
| `OrderLifecycle` | abstract specification: one small automaton per order | as a property of `PhoneOrders` | `PhoneOrdersProofs` |
| `PhoneOrders` | the order store of the backend | `PhoneSafety`, `PhoneRunnerChange` | `PhoneOrdersProofs` |
| `ProbePhone` | the two threads of the phone and its database | through `ProbeSystem` | in `ProbeSystemProofs` |
| `ProbeSystem` | phone and store joined by an unreliable network | `SystemOne`, `SystemLiveness`, `SystemRebootsInARow` | `ProbeSystemProofs`, `ProbeAgreementProofs` |
| `CommandLifecycle` | abstract specification: the life of one command | as a property of `CommandQueue` | `CommandQueueProofs` |
| `CommandQueue` | the queue of the routers and of the script | `Queue`, `QueueDoubleClaim`, `QueueDoubleCycle` | `CommandQueueProofs` |
| `RouteRule` | the routing rule of the MikroTik | `Route` | `RouteRuleProofs` |
| `NetRoute` | which network a browser test went through | `Dashboard`, `ExitLostUpdate` | `NetRouteProofs` |
| `ProbeConfig` | the configuration of the probe and the attribution of the phone's results | `Dashboard` | `ProbeConfigProofs` |
| `RouterWatch` | from the ping of a router to the advice to reboot it | `Dashboard`, `WatchSwapped` | `RouterWatchProofs` |

`MCPhoneOrders`, `MCProbeSystem` and `MCCommandQueue` add the symmetry sets of the instances, `MCNetRoute` a small Internet.
`MCDashboard` puts the three modules the dashboard draws on (`NetRoute`, `ProbeConfig`, `RouterWatch`) in one instance; they share no state, so each
behaviour is of one of them (`view`) and their state spaces add up instead of multiplying. In
every module a definition whose name ends in `_Something` is the definition after it with a plausible
bug; the properties are run against it and must notice.

### 2.1 PhoneOrders and OrderLifecycle

One action is one transaction (or one UPDATE) of the store, so it is atomic; the clock is the server's.
`orders[o]` is the row of an order, with the columns that some guard reads; `measurements[r]` is the
row of a result. `CreatePhoneOrders`, `createPhoneOrderForDevice`, `CreateRebootOrder` (with its
cooldown and its `force`), `AckPhoneOrders`, `CancelPhoneOrders`, `SetPhoneOrderState` (split, as
the switch of the code, into close, reopen, progress, advance and ignored), `InsertProbeResult` and the
two UPDATEs of the sweep (apart, or together in `SweepPhoneOrders`) are operators of the same name. Any state report the API accepts may arrive at any time;
`SpeedTestUpdates` and `RebootUpdates` are those the phone can build.

`OrderLifecycle` is what the contract promises of each order — waiting, running, closed by the phone, swept
("soft", reopened by a result in time), cancelled. `PhoneOrders` implements it (`ImplementsOrderLifecycle`)
under the mapping `Phase`.

### 2.2 ProbePhone and ProbeSystem

`local`, `outbox` and `results` are the tables of the phone; `worker` and `control` are the places of
its threads. An action is one SQLite transaction or one call that leaves the phone. `ProbeSystem` takes
`PhoneOrders` by INSTANCE and joins each call of the control thread with what it does in the store: the call may
not arrive, its answer may be lost (the phone repeats it), or a report may arrive late (`late`). The app
may die at every step (`Dies`, then `Recover`) and may be installed again with an empty database (`Forgets`). The list of open orders may be
truncated (the code stops at 200), and then the phone may not conclude that an order it does not see is gone.

The command of a reboot has three ends. It may not leave the phone (`CommandRefused`, before it is in `commanded`); it may reach the router and be
answered (`KeepPartial`); or it may leave and its answer be lost (`CommandUnanswered`): `RouterSsh.kt:157-180` then reports `ssh-connect` without `ssh_ok`, as for a
command that never left, and `rebootCountsCond` does not count it. Nothing in phone or backend tells the two apart, so `SentRebootsCount` and `NeverTwoRebootsInARow` except these reboots by name (`Unanswered`).

`PhoneOrders` alone takes for granted what a phone may report (`StateUpdates`). `PhoneKeepsContract` says that every
report and every result that leaves the phone, now or late, is one of those: with it, what is shown of
`PhoneOrders` alone, with more orders and by theorems without bounds, carries over to the composition. Both are proved as well as checked: `StoreIsPhoneOrders`.

### 2.3 CommandQueue and CommandLifecycle

No operation here is a transaction, so an action is one SQL statement: `Select` and `Mark` are the two halves of
`claimWhere`, `Check`, `Measure` and `Close` the three of `CompleteCommand` under its mutex `lock`,
`Counted` and `Enqueued` those of a cycle (the dashboard's and the scheduler's may overlap). `CompleteFails` cuts a completion between two statements, `Die`
loses an execution or the answer of a claim.

`CommandLifecycle` is what all that comes to for one command: created, claimed, closed once by somebody who was given it, with at most one measurement
besides those of the completions that were cut (`failures` counts every cut before the UPDATE, those before the INSERT too, so the bound is a little loose), and frozen from then on. In the mapping (`Abs`) a measurement counts once its completion ends:
between the INSERT and the UPDATE it is only in hand (`InHand`).

### 2.4 RouteRule

`rule` is the table of the rule; `watchdog` what the scheduler of the router remembers (minutes forced, last
table, whether the phone logged in since the last round); `phase`, `test`, `forcedAge`, `ruleOnFallback` and
`routeNotRestored` are the fields of the worker. A session with the router ends well, without a
login, or cut before or after its `set`. `Minute` is a round of the router's scheduler. `Stretch` and `GpsWait` bound the
time between two checkpoints of a test; `stretch < Patience` in `Minute` says so.

### 2.5 NetRoute

One device. `egress` is its row of `device_egress`, `ledger` the observations the server keeps in memory while a test
runs, `queue` and `worker` the channel and the goroutine that ask for operators, `row` the measurements with the verdict twice: in
the columns (`col`), which choose the headline, and in the JSON (`raw`), which the lists return. `test` is the state of the page. `ipSignal`, `hintSignal`, `asnSignal`,
`classifySignals` and `classify` are the functions of `netclass.go`; an address keeps only what they compare: its family, its
/24 or /48 (`Pool`), its /64 (`Link`) and its operator. A handler that reads and then writes is two actions or more
(`CommandLearns`, `CommandReads`, `CommandWrites`), because others run in between; each may be cut, and `Restart` cuts them all.

The world is part of the model: the router's address rotates, the phone moves (a transfer that loses its network fails, so each transfer
uses one), each connection picks a family, the tunnel becomes known or moves, ten minutes pass. `went`, `steady`,
`window`, `unverified` and `match` in `row`, and `seen` in `ledger`, are history: no guard reads them, the properties do. `NetworkAssumption` is what
the comments of the code take for granted, and no more: a /64 belongs to one subscriber, while a v4 address (CGNAT) and a /48 (a pool of the operator) may be shared by the
router, the phone's SIM and another WiFi; and the router's operator differs from one moment to the next only behind a relay.

### 2.6 ProbeConfig

`targets` is `probe_targets` in the order of its position; `UpsertProbe` works out the letters in its two passes (`Kept`: those asked for and those kept; then `FreeSlot` for the rest) and
what happens to `expected_asn` (absent, null, a number); `StartServer` is the migration of old rows. `results[t]` follows a result of the phone from its test to its row: `ReadTargets`, `ReadExpected` and `StoreResult` are three
steps because `handlePostResults` reads the targets, resolves operators over DNS and stores. `cable` is the world: which router is behind each table.

### 2.7 RouterWatch

`health` is what `RouterHealth.kt` keeps of each slot, `sent` the statuses on their way (each may arrive late, twice or never), `stored` the row of `probe_status`,
`agent` the last heartbeat of an agent, `reboots` what the cooldown reads. `time` is the backend's clock and the phone's is `time + Skew`. `checks` and the fields `known` of a status are
history. `Recommended` is `evalReboot` with the helpers it calls.

## 3. What the runs check

| Run | Instance | Question | Answer |
|---|---|---|---|
| `PhoneSafety` | 2 orders, 1 result, both types, clock 0..1 | does the store keep its promises, leave no result in time out and implement the life cycle? | yes |
| `PhoneRunnerChange` | 2 reboots, clock 0..2 | does the cooldown cover every reboot that was sent? | **no**: finding 1 |
| `SystemOne` | 1 order, 2 results, 1 late report, 1 crash or reinstallation | do phone and store agree in the end, does an order start at most once, do sent reboots count (one whose answer was lost apart), does the phone report only what the store expects? | yes |
| `SystemLiveness` | 1 test, 1 result, clock 0..1, 1 crash or reinstallation | does everything the phone has to say arrive, is an order it says no more of swept? | yes |
| `SystemRebootsInARow` | 2 reboots | can two reboot commands go out one after the other? | **yes**: finding 2 |
| `Queue` | 2 commands, 2 executions, 1 cut per command, 1 death, 1 cycle at a time | one measurement per command, closed once and for good, an abandoned command closed in the end? | yes |
| `QueueDoubleClaim` | 1 command, 2 executions | is a claim exclusive? | **no**: finding 3 |
| `QueueDoubleCycle` | 2 commands of 1 router, 2 cycles at once | can two cycles insert the same test twice? | **yes**: finding 6 |
| `Dashboard`, network | 2 tests, or a test and a command, or one of them and 2 changes of the world | can what the server says of a test be false, and what can the worker change? | no; only downwards |
| `Dashboard`, configuration | 3 routers, 2 tables, 3 letters, 2 saves, 1 result | are letters distinct and kept, is a sure attribution true? | yes |
| `Dashboard`, watch | 1 router, clock 0..3, 3 checks, 2 statuses, 1 restart, request or heartbeat | is advice earned, complete and acceptable; does the status go back? | yes; no |
| `ExitLostUpdate` | 1 test, 1 command | do the columns and the JSON of a measurement agree? | **no**: finding 4 |
| `WatchSwapped` | 1 router | is a router told to be rebooted for what was seen of another one? | **yes**: finding 5 |
| `Route` | 2 routers, 8 and 10 minutes, 3 failed sessions, 1 death, 1 switch by hand | does the rule come back, is a test left alone, does the phone know where the rule is? | yes |

**Bounds.** The properties relate at most two orders (or one order and two results), two reboots of one
router, or two executions of one command; the instances have those (a second result of one order is in `SystemOne`, and `NoResultLeftOut` is proved for any number of them). Times only matter compared with
each other, so the windows, the cooldown and the stale times are 0 or 1 and the clock goes one past each. `Route` uses
the real times, since the property is about their margin. `SystemOne` looks at its states through `OneOrderView`, which leaves out what one order
cannot tell apart (the device of its row, and whether a list that shows all the phone knows was truncated). `MaxLate`, `MaxFaults`, `MaxCrashes`, `MaxFailures`, `MaxDeaths` and
`MaxSwitches` bound faults, not the normal steps; `MaxTime` stops the clock of the store; in the network view of `Dashboard`, each test or command costs 2 of `MaxEvents` and each change of the world 1, while
heartbeats and the worker are free: 4 is enough for two tests to fill the ledger and the queue (`ObsMax` and `QueueMax` are 1, 512 and 64 in the code) and for a test to meet a
rotation and a move; the six addresses of `MCNetRoute` give every outcome of `ipSignal` and `asnSignal`; `Tries` is 2 in `Route` (3 in the code) so that
all tries and the restoration can fail within `MaxFailures`.
In `Dashboard` the phone starts in the WiFi of the router (going elsewhere is one of the changes) and `d1` is behind one of the tables. Two saves let a router leave the probe and come back, or swap its letter and its table, around the three steps of an upload; three letters are one more than a configuration uses. In the watch view, the skew of 3 is larger than every
threshold (0 or 1 here, minutes in the code), so a mixture of clocks shows; three checks give up, down and down again, and each check may be overtaken by the statuses before it. Deadlock is not checked in
any run: with the bounds used up, everything asked for done and the clock at its end, the system really stops.

**Fairness.** `ProbeSystem`: the control thread takes its tasks in order and each call ends (its timeouts are finite); a call that is
repeated again and again is answered some time — the network is not down for ever; the backend's scheduler sweeps every 30 s and its clock goes on.
The worker is under no obligation: a phone may stay silent for ever. `CommandQueue`: agents and the script come back to poll for ever (`routeragent` runs once and ends, and cron starts it
every N minutes, `main.go:8`), an execution goes on, a handler ends, and the mutex
lets everybody in. `RouteRule`: the router's clock runs; the worker, when it lives, ticks every 5 s and reads
the rule when that is due; a dead phone is not obliged to anything.

## 4. What is proved

For every value of the constants allowed by the ASSUMEs, with TLAPS:

* `PhoneOrdersProofs`: `TypeCorrect`, `LinksAgree`, `NothingLeftOut`, `FinalStays`, `NeverTwoQueued`, `SentRebootsAreCovered` and
  `Implements` (the refinement of `OrderLifecycle`). The links between orders and measurements are not inductive alone:
  the invariant adds that an open order has no measurement and that nobody was uploaded for it; each action then
  changes one order and, at most, one measurement. The cooldown rests on `SentRowsKept`: a reboot that the phone said it sent (`Sent`) is running or closed in a way
  that counts, whichever of the sweep, a late report and a duplicate's cancellation closed or reopened it; it never falls back to waiting and never becomes "not sent" or "not started".
  The sweep inside `CreateRebootOrder` keeps it (`SweptSent`), so its check of the cooldown finds every such reboot.
* `CommandQueueProofs`: `QueueTypeCorrect`, `MeasuredOnceHolds` and `QueueImplementsLifecycle` (the refinement of `CommandLifecycle`). The invariant
  says who holds the mutex and what may be in the hands of an execution (`Holds`: whoever is between `Check` and `Close` holds the mutex and a claimed command), and counts the
  measurements of a command by where its completion is (`Counts`).
* `RouteRuleProofs`: `TypeCorrect`, `TestsAreSpared`, `CableOnlyOnFallback`, `EndIsHonest`. The invariant
  `InTime` bounds the counter of the router by the minutes the test has spent in each stage since the login
  that forced the rule; the assumption `Margins` (`MaxForced + Stretch < WatchdogMin`) is what 8 and 10 minutes give. `EndIsHonest`
  needs `MaxSwitches <= 1`: a person who moves the rule away and back is not noticed by one reading at the end.

* `NetRouteProofs`: `NetTypeInvariant`, `EgressAsnInvariant`, `UnverifiedInvariant`, `EquipmentInvariant`, `LatePromotionInvariant`, `HeadlineInvariant` and `SureOtherInvariant`.
  `EgressAsnInvariant` needs only that the worker is about to save the operator of the very address it names (`WorkerKnows`). The next three
  share `VerdictInv`: every queued job carries the evidence its row was classified with (`JobOK`), and no test has two jobs (`OneJob`).
  The lemma `OperatorsOnlyTakeAway` then says that adding the operators to that evidence either leaves a verdict "router" as it was or
  takes it away. Of `AddressAssumption` they use that "no address" is not an address and 0 not an operator; of `NetworkAssumption`, only the types.
  `HeadlineInvariant` and `SureOtherInvariant` relate a verdict to the world, and need `TruthInv`: the address learned from a heartbeat or a command is one the router had (`LearnedTrue`);
  what a test remembers of its transfers agrees with where the phone was (`TestsTrue`); what the server noted of a test is what its requests showed (`WindowsTrue`); and the evidence of every queued job is
  that of its row (`JobsTrue`). From such evidence `classify` cannot conclude "router" of a test that never touched it, nor be sure of "another network" when it stayed: here
  what `NetworkAssumption` says of /64s, operators and relays does its work.
  `RouterMatch` is the step from a verdict "router" to the address that gave it: the router's own /64, or one that others may share, and then a hint of WiFi, which excludes the SIM but not another WiFi. `UnverifiedInvariant` speaks of the requests of the test itself only (§5). A row that the worker revises later is carried by `NoLatePromotion`.

* `ProbeConfigProofs`: `ConfigTypeCorrect`, `LettersAreDistinctHolds`, `LettersAreKeptHolds`, `SureResultIsTrueHolds`, for any configuration, number of routers and number of saves.
  `ConfigInv` adds to the distinct letters that no router has two rows and that an operator that is noted is the right one (what `ConfigAssumption` asks of the administrator), and says of
  each result what its test saw (`Measured`) and what each step of its upload may conclude (`Sure`), whatever configuration it read.
* `RouterWatchProofs`: `WatchTypeCorrect`, `AdviceIsEarnedHolds`, `AdviceIsNotMissedHolds`, `AdviceIsActionableHolds`, `StatusNeverGoesBackHolds`, for any skew, delay and thresholds.
  `WatchInv` ties the health of each slot to the history of its checks (`HealthInv`) and carries that to every status on its way (`SentInv`) and to the one stored (`StoredInv`).
* `ProbeSystemProofs`: `SystemTypeCorrect`, `PhoneKeepsContractHolds` and `StartsOnceHolds`, for any number of orders, results, late reports, crashes and reinstallations. The steps of the store are
  taken from `PhoneOrdersProofs` by INSTANCE and seen by the phone as `Heeds`: the row of an order changes gently, without a word of the phone, or because of a report or result of an
  order the phone has started. `SystemInv` adds that an order that has not started is silent (`SilentInv`: no report and no result of it exists), so what waits on the phone, or is listed to it, is still
  untouched in the store (`LocalInv`, `ListInv`); that the worker holds an order of the type its stage asks for, and before the command of a reboot goes out nothing said it did (`WorkerInv`); and that a report
  "never sent" excludes any other that says it was (`ReportsInv`), which is what the contract needs and no single table of the phone shows.
  From the contract follows `StoreIsPhoneOrders` (each step of the system is in the store a step of `PhoneOrders` or none), and with the lemmas of `PhoneOrdersProofs` its promises for the whole
  system: `StoreKeepsPromises` (orders and measurements agree, no result in time is left out, no reboot *waits* beside another open one of its router: two that run are not excluded), `SystemKeepsCooldown` and the refinement `SystemImplementsLifecycle`. Assumed: finitely many orders, and that `None` is none of the names.
* `ProbeAgreementProofs`: `AgreementHolds` and `SentRebootsCountHolds`, what the phone and the store keep together, for any number of orders and faults; TLC checks them with one order only.
  `AgreeInv` stands on `SystemInv` and says where the outcome of an order is. An order runs on the phone only while the worker holds it, and its result is not written yet (`RunningInv`); once closed there,
  its close is in a stored result, in the outbox, or already final in the store (`DoneInv`). Final (`ClosedForGood`) means that no report still on its way says "running", which would open a reboot again,
  and that a close the phone alone can know of was the phone's. Around it: a report that closes tells what the phone has, and "expired" is told only of orders that nobody heard to run (`SaidInv`);
  the store's word of a phone's close is the phone's (`HeardInv`); a result that was answered is stored as it was told (`MeasuredInv`); what the phone was listed and has not started is still so (`ListedInv`);
  nothing told of a reboot whose command went out would make it not count, unless the phone closed it without an answer of the router, which it then keeps (`SentInv`, `StaysUnanswered`). A row of the store moves in three ways only (`RowMoves`), and the phone in those of `PhoneActs`: one lemma per action shows that it
  is one of them. The last step uses `NoResultLeftOut` of the store for the tests that the sweep had closed.

Only model-checked: the liveness properties (`SilentOrdersAreSwept`, `EverythingArrives`, `NoneBlocked`, `RuleReturns`), because liveness under fairness and ENABLED are beyond the proof system.
Every safety invariant and action property of the passing runs is a theorem.

## 5. What the models found

1. **A cancelled reboot that ran does not count** (`PhoneRunnerChange`). Moving a probe to the script cancels running reboots;
   `rebootCountsCond` leaves cancelled ones out, so a second unforced reboot is accepted in the cooldown.
2. **Two reboots in a row** (`SystemRebootsInARow`). The poll gives new orders to the worker before it sends
   the outbox, so a reboot executed but not reported (and swept or cancelled meanwhile) does not stop the next.
3. **A command claimed twice** (`QueueDoubleClaim`). SELECT and UPDATE of `claimWhere` are two statements; one
   connection does not make them atomic, and the UPDATE's row count is not looked at.

4. **Columns and JSON of a measurement part ways** (`ExitLostUpdate`). The classification and the end location each read the JSON
   and write it back in another statement; when they overlap, one of them vanishes from the JSON and stays in the columns.

5. **A router blamed for another** (`WatchSwapped`). The health of every slot is recorded before its page is read; when the page is of another router
   (the cables were changed), only an alert is raised, `down_since` goes on and the router of the slot is to be rebooted.

6. **Two cycles duplicate tests** (`QueueDoubleCycle`). `enqueueScriptCycle` counts the open tests of a router and inserts the new one in two statements
   (`probes.go:548-559`), and the scheduler and the dashboard may both be in it: both count none and both insert, against `probes.go:500-501`.

Each is quoted with its lines in `PROJECT.json`.

Three more places where the code does less than a reader of it may expect have no run of their own; the properties name what they leave out:

* A reboot whose SSH answer was lost is closed, and shown, as one that was never sent (`RouterSsh.kt:157-180`; `reboot.go:55-57`; `reboot_test.go:232` says "el comando nunca salió"), so
  another may follow at once. `SentRebootsCount` excepts it.
* An address of the router learned through an unverified tunnel is used, once the tunnel is known, like any other (`api.go:373-377` says "lo que se degrada es la confianza"). So
  `UnverifiedRequestIsNeverSure` is about the requests of a test, not about the reference they are compared with.
* `netclass.go:363-369` takes for granted that another WiFi does not exit by the same public IP, and says nothing of one that shares the /48, which `netclass.go:336-341` calls the operator's pool. In both cases a
  hint of WiFi is enough for "router", medium: this is the exception in `HeadlineIsHonest`.

`HeadlineIsHonest` marks how far a verdict can be trusted. When the phone stays on its network the headline is true, but for that other WiFi; a SIM never gets in. When it moves in the middle
of a test without a change event, it is true only if the server saw both transfers and both came from the router's own /64: through a shared v4 address, or in a
test against Cloudflare, whose transfers the server does not see, a test half through the SIM can still count.

## 6. What is not modelled, and the plan

Out of reach or without logic of its own: speed tests, GPS, SSH and web reading of routers (their
outcomes are choices), Android's life cycle, Flutter screens, the dashboard's JavaScript, one-shot installers and operator scripts.

Left out of components that are modelled in part, each with what it would take:

1. The plan the phone follows after hours without the backend (`ProbeWorker.kt:338`): local orders beside those of the server in `ProbePhone`, and a property about what
   the backend does with both; a router measured twice is accepted by the code, so there is no promise yet to check.
2. The bounded log of the phone and the statistics of a probe: rows added and trimmed, read by nobody who decides.
3. The deletion of a probe and the token of its script: single statements that cut off everything else.
4. `handleRebootDevice` when its sweep fails (`api/reboot.go:22`): `CreateRebootOrder` has the sweep inside, as in the normal case. Without it a reboot past its deadline, or running and long silent, stays open
   until the next sweep, 30 s later: within the cooldown it refuses the new one, and with force the new one waits beside it, so `OneRebootQueued` holds only of sweeps that succeed.
5. A request that chose the cable before the rule was forced (`ControlPlane.kt:31`): `EthernetOnlyOnFallback` speaks of the choice, not of how long the request goes on.
6. Two orders on the phone at once in a passing run of `ProbeSystem`: TLC checks its properties with one order (and pairs of reboots in `SystemRebootsInARow` and in the store); for several orders its invariants and `StartsOnce` rest on the proofs.
7. Two cycles at a time in `Queue`: they have a run of their own (`QueueDoubleCycle`); beside the cuts and the death they would need more commands than TLC can bear, and the theorems of the queue hold for any number of cycles.
