# Edge collector: TLA+ models, model checking and proofs

The edge collector is one Python process at a customer's site. It reads field
devices (Modbus, OPC UA, serial, microcontroller nodes over HTTP or MQTT), keeps
every measurement in a local SQLite outbox, and posts it to **Main** (Odoo).
Main in turn configures the edge, sends commands to devices and nodes through
it, and gives it print jobs.

This directory holds models of that process written in TLA+, the TLC
configurations that check them on small instances, and theorems proved with
TLAPS for every value of the constants. Source positions below are relative to
`src/`; files without a directory are in `src/edge_collector/`.

- [1. The system](#1-the-system)
- [2. Plan](#2-plan)
- [3. The models](#3-the-models)
- [4. Runs, bounds, fairness](#4-runs-bounds-fairness)
- [5. Proofs](#5-proofs)
- [6. What disagrees with the documents](#6-what-disagrees-with-the-documents)
- [7. What is not modelled](#7-what-is-not-modelled)
- [8. How to run it](#8-how-to-run-it)

## 1. The system

### Components

| Component | State it keeps | Operations | Correct means |
|---|---|---|---|
| `EdgeAgent`, data path (`scheduler.py`) | `_pending`, `_boot_id`; a round of coroutines with one HTTP call each | `_on_value`, `_flush_loop`, `_sender_loop`, `_drain_serial` | what was flushed reaches Main exactly once and in order, whatever fails |
| `Store` (`store.py`) | SQLite: `kv`, `seq_counter`, `outbox`, `history` | `next_seq`, `outbox_push/oldest/delete/serials`, `kv_get/set` | numbers are never drawn twice; a row leaves only after its own answer |
| Change detection (`scheduler.py:71-107`) | `_last_enqueued`, `_channel_meta` | `_should_skip_duplicate` | a repeat that is left out never hides a change, and never for longer than a heartbeat |
| Pace of retries (`scheduler.py:212-242`) | `_backoff_until`, `_backoff_delay` | `_note_backoff`, `_clear_backoff` | doubling up to a cap, reset by success, never silent for good |
| `SourceManager`, configuration (`manager.py:106-196`, `scheduler.py:159-178`) | `_drivers`, `_source_rev`, `channel_meta_for`, `api_keys`, applied revision | `_config_loop`, `apply_config` | the drivers that run are those of one configuration; one connection per device |
| `SourceManager`, node commands (`manager.py:198-360`) | `_node_futures`, `_node_queues`, `_node_cmd_owner` | `queue_command`, `node_pull_command`, `node_ack_command` | "error" only for a command that never runs; an outcome only if the node reported it |
| `MqttConsumer`, uplink (`mqtt_consumer.py:137-371`) | `stats`, `caps`, `sig_caps`, `_signed_kinds`, subscriptions | `_on_connect`, `_on_message`, `_handle` | the newest measurement wins; the view of a node is what it said last |
| `MqttConsumer`, downlink (`mqtt_consumer.py:373-512`) | `_pending_mids`, paho's `_out_messages` | `publish_command`, `cancel_pending`, the cmdack branch of `_handle` | nothing is sent after its caller was answered |
| Settings (`config.py`, `settings_api.py`) | `.env`, `settings`, the page's fingerprint, HTTP client's `base_url` | `GET/POST /setup`, `reload` | an edit is never silently overwritten; the edge keeps its identity |
| Drivers (`drivers/`) | a connection, a status and a polling task each; the line reader's buffer | `start`, `stop`, `command`, callbacks of paho | the status follows the device; "error" only for a write that was not done; a cut line costs one reading |
| Node API (`node_api.py`) | none | hello, measurements, commands, ack | calls the same functions as the MQTT consumer |
| Downlink API (`inbound_api.py`) | `_seen_sigs`, the signatures used | command, browse, publish, stats | a request that the network brings twice is served once, and an old one not at all |
| Print jobs (`scheduler.py:318-330`, `printer.py`) | none | fetch, print, acknowledge | depends on what Main does with a job it handed out |
| Operations page, health, logging | none of its own | read-only views | |

### How they interact

Everything but paho's network thread runs on **one asyncio loop**. A coroutine
is atomic between two awaits, so the interleavings that matter are at awaits
(an HTTP call, a driver's `stop`, a future) and where paho's thread hands a
callback over with `call_soon_threadsafe`: paho acknowledges a QoS 1 message when
the *scheduling* callback returns, not when it has been handled.

    driver ──_on_value──▶ _pending ──_flush_loop──▶ outbox ──_drain_serial──▶ Main
    node ─▶ broker ─▶ paho ─▶ _handle ──push_node_reading──▶ _pending
    Main ─▶ api_command ─▶ queue_command ─▶ publish_command ─▶ paho ─▶ broker ─▶ node
                                        └▶ _node_queues ◀─ poll ─ node (old firmware)
    node ─▶ cmdack ─▶ _handle ─▶ node_ack_command ─▶ future of queue_command
    Main ◀─ pull_config ─ _config_loop ─▶ apply_config ─▶ drivers, api_keys, channels
    Main ─▶ signed request ─▶ _seen_sigs ─▶ publish_raw ─▶ paho ─▶ broker
    /setup ─▶ .env ─▶ settings.reload ─▶ HTTP client

### What is hard here

Retries after lost answers, requests that arrive after they were given up on,
crashes between two SQLite commits, several serials draining one table under a
semaphore, a configuration edited while the previous one is being applied,
commands that time out while they are on the wire, the retransmissions of paho
and pymodbus, paho's thread between two lines of a coroutine, copies of one
request around a cache that forgets, devices that come and go between two polls, a
broker that sends old messages after new ones, caches that must follow what is
sent, and a file edited by two browsers and an editor at once. `PROJECT.json`
lists each such place as a hazard with its line, the properties that cover it,
or why none does.

## 2. Plan

Order: most important behaviour first. Each model is written so that it can be
proved about: parameters are constants with named assumptions, one action per
operation, invariants are conjunctions of named parts, and no `RECURSIVE`.

| # | Modules | Question | State |
|---|---|---|---|
| 1 | `Delivery` ← `Telemetry` | is a batch delivered once, in order, and in the end? | checked; safety, refinement and the steps of liveness proved |
| 2 | `CallPromise` ← `NodeCommand` | what may the caller of a command believe? | checked, proved |
| 3 | `SourceConfig` | which drivers run while configurations come and go? | checked; safety and the end of `apply_config` proved |
| 4 | `Dedup`, `Backoff` ← `Pacing` | what is left out, and how long does a serial rest? | checked, proved |
| 5 | `MqttUplink` | what becomes of what a node publishes? | checked, proved |
| 6 | `SettingsPage` | whose edit of `.env` wins? | checked, proved |
| 7 | `RequestGate`, `CallPromise` ← `RawPublish`; both ← `Downlink` | is a request served twice, and what may the caller of `/api/publish` believe? | checked, proved |
| 8 | `CallPromise`, `SerialLine`, `Registers` ← `SourceDriver` | does a source come back, is a line misread, is a write reported truly? | checked; safety and a part of liveness proved |
| 9 | print jobs | printed once? | not modelled, section 7 |

`Downlink` and `Pacing` compose components that live in one process: a restart
is one step of both parts. `SourceDriver` builds on its two parts by their
operators.

Two abstract specifications, each of two actions:

- `Delivery` says what the telemetry path promises (take a batch; apply the
  oldest of its serial). `Telemetry` is checked to implement it, liveness
  included, and proved to implement its safety.
- `CallPromise` says what the caller of anything the edge passes on may believe:
  the other side carries a call out early, late or more than once, the caller is
  told one thing once, an outcome only if there was one, and "never" only if there
  is none, then or later. A command for a node, a message for the broker and a
  write to a point, three pieces of code with nothing in common, are proved to implement it.

## 3. The models

### Telemetry and Delivery

`Telemetry` follows one reading from `_on_value` to Main's log.

- *Durable state*: `kvBoot`, `seqCounter`, `outbox` (a set of rows, ordered by
  `id`). *RAM*: `pending`, `batch` (the dictionary `_flush_loop` swapped out),
  `ticket` (a sequence number drawn and not yet used), `round`, `calls`,
  `resting`. *Environment*: `mainBoot`, `mainSeq`, `mainLog`, and `late`, the
  requests httpx gave up on which may still arrive.
- `_flush_loop` is `FlushSwap`, then for each serial `FlushSeq` and `FlushPush`:
  two commits with room for a crash between them, but for no other coroutine
  (there is no await), hence the guard `Running`. `FlushDies` is a raising store.
- A round of `_sender_loop` is `StartRound`; each coroutine does `Enter`
  (semaphore, backoff check), then posts, then `HandleOk` or `HandleFailure`, with
  `DeleteRaises` for `gather(return_exceptions=True)`. What a coroutine does after
  an answer (delete, clear the backoff, read the next row, post it or return)
  is one action, since the code has no await in it.
- Main is `_seen_batch`: same boot id and a sequence number not above the mark is
  a duplicate. Replies may be lost, come as 429/5xx, or from a portal.
- Abstracted: a batch's readings are numbers in the order they were taken; how
  long a rest lasts is left to `Backoff`; `pull_config` and the other endpoints
  are not calls of this model.

`Delivery` has `waiting` and `log`. The refinement mapping is
`waiting <- Unapplied` (rows in the outbox Main has not applied),
`log <- mainLog`: applying happens when Main commits, not when the edge hears
of it, so a lost answer is a step of `Delivery` and its retry a stutter.

### NodeCommand

A command from `queue_command` to its answer. Edge state as in the code
(`_node_futures` is `reply` and `answer`; `_node_cmd_owner` is `sentTo`; `_node_queues` is
`polls`; what a poll takes out of it is `Rest`), paho as its connection, `_out_messages` and the PUBLISH and PUBACK packets
on the wire, the broker as what it holds for each node, nodes as the set of
outcomes of the runs of each command. Callbacks from paho's thread queue up in `callbacks` and
run in order. Pollers are nodes with old firmware; signers declare `sig_cmd`.
Timeout and cancellation may happen at any time. The request number is drawn in
order from a start that is taken as 0.

In the terms of `CallPromise`, `done <- did` (the outcomes of the runs of a command) and
`told` is the answer: an outcome is itself, the error of a command that was taken
back is "never", every other ending is "unknown".

### RequestGate, RawPublish, Downlink

`RequestGate` is `_downlink_auth_error` and `_remember_sig` for requests that the network
may copy, delay and reorder. Time is Main's clock; `time.monotonic()` keeps up with
it, the edge's corrected wall clock is off by any amount up to `Drift`. A copy
goes `Arrive` (its time stamp is looked at), then its body is awaited for up to `BodyTime`,
then `Admit` or `Repeat` (its signature is looked up, and remembered). The cache
drops what has expired and, when it is full, the signatures that expire first;
`ForgetSeen` is a restart. `dropped` counts signatures lost before they expired.

`RawPublish` is `publish_raw` step by step: `Call` up to `publish()`, `TakeBack` (under
paho's mutex, what is left of a `NO_CONN` message), `Waited` for the loop that
polls `is_published()`. paho's thread runs between any two of them: it loses,
makes and acknowledges connections, marks what it sends again as `dup`, and tells
the loop of it by `_set_connected`, later. `Downlink` puts them together: an
admitted copy is a call. In the terms of `CallPromise`, a message is done when the broker has
it, "broker_down" is "never" and "ok" the outcome. paho's state "queued" is left out, since it takes more
than 20 messages in flight.

### SourceDriver, SerialLine, Registers

`SourceDriver` is one source of any of five kinds; the kind is chosen in the
initial state. The manager starts and stops the driver, pymodbus and paho find
connections dead and make new ones, paho's callbacks queue up as notices. Two
things come and go, each on its own:

- `device`, what sends and answers (`Gone`, `Back`): a slave, a balance, the OPC UA
  server, the MQTT broker (the sensors behind a broker are not modelled). Behind an adapter or a
  gateway its loss shows nothing at the connection: polls go unanswered, and
  each read of a serial port times out.
- `path`, what there is to connect to (`Unplug`, `Plug`): the USB adapter of a serial
  source, the gateway of a Modbus one, or, where the device has TCP itself, that
  socket. A serial port that is open when its adapter is pulled is dead from then on
  (`conn = "lost"`), the adapter plugged in again or not, since it is opened once.

A polled source reads point by point with an await in each; some points the device always refuses. `command()` is `Ask`, up to the first
await, then for Modbus and OPC UA the frame and its answer travel one by one:
`Again` (pymodbus' retry), `Execute`, `Receive`, `GiveUp`. In the terms of `CallPromise`, a
write is done when the device has written it; "error" after one frame is "never",
"ok" of a protocol that confirms is the outcome, the rest is "unknown".

`SerialLine` is the reader behind the `ascii` kind: characters in the kernel's
buffer, the buffer of `_read_line_ascii`, its time-out of a second (`Pause`), and the ways
in which a line is cut: a restart, a probe of the same port by
`/api/source/test` (`Flush`), an unplugged adapter, a balance that was cut off from its
adapter or started again in the middle of a line (`Unheard`). `Registers` is the arithmetic of
`_encode_32` and `_decode` for any register width.

### SourceConfig

`_config_loop`, one action per stretch between awaits: pull, debounce, begin to
apply, stop what is not wanted, keep or stop-and-start the rest, and record the
revision. Main's edits happen at any time. Drivers whose `start()` fails after it has
opened a connection (`opcua.py`) are the constant `Leaky`. `conns` counts what
is really open, `drivers` what the manager believes.

### Dedup, Backoff, Pacing

`Dedup` is change detection on one channel, with time in ticks up to a horizon;
`Backoff` is the arithmetic of `_note_backoff` in fifths of a second, so that
the jitter of ±20 % is exact at every delay the doubling reaches.
`Pacing` extends both: they live in one process and one restart forgets
`_last_enqueued`, `_backoff_delay` and `_backoff_until` together.

### MqttUplink

One node, the broker, paho and the consumer. The broker's session, its queue,
what it has sent and not seen acknowledged (`onLink`), the retained status; the
edge's scheduled handlers (`ready`), its view of the node, its sticky signature
requirement, `_pending` and the outbox. A lost connection puts unacknowledged
messages back at the head of the queue, which is how old measurements come after
new ones. Firmware comes in two kinds, given as records of what it declares and
signs.

### SettingsPage

The `.env` file, the running settings, two tabs with the fingerprint of the page
each shows, an editor over SSH, and a handler that reads the fingerprint, writes
the file and reloads in separate steps: no other *request* gets in between (no
await), but another *process* may, and so may a crash. Writing truncates
first (`Torn`).

## 4. Runs, bounds, fairness

Every property of a passing run has a mutant in `PROJECT.json`: an operator in the
model, marked `Mutant:` in a comment, that changes one definition in the way a
slip in the code would, and makes TLC find the property violated.

| Run | Shows | Bounds, and why they are enough |
|---|---|---|
| `telemetry_safety` | `MainLogInOrder`, `NothingLost`, `NoFalseDuplicate`, `OneCallForTheOldest` | 2 serials and 2 slots (coroutines side by side); 3 readings, so one serial has two batches behind a retry and a request still on its way; 2 starts, one crash at every possible place; the proof covers the rest |
| `telemetry_live` | `OutboxDrains`, refinement of `Delivery` with its fairness | 1 slot, 1 row a round, one serial refused for good: the tightest sharing the code allows |
| `telemetry_malformed` | `MalformedIsFailure` violated | see section 6 |
| `nodecommand_safety` | `SureErrorNeverRuns`, `HeldIsAwaited`, `PolledInTurn`, refinement of `CallPromise` (`CommandPromiseKept`) | a signing MQTT node and a poller; `MaxEvents` = 3 shared by commands (at most 2) and losses: two commands overlap around one reconnect, or one meets two |
| `nodecommand_late` | `NoLateSend` violated | see section 6 |
| `sourceconfig` | `ConfigInForce`, `OneConnection`, `Undisturbed`, `ConfigArrives` | 2 sources (one edited while the other is awaited), 3 edits (before, during and after), 2 faults, 1 restart |
| `sourceconfig_recovers` | `SourceRecovers` violated | see section 6 |
| `pacing` | `ShownIsRead`, `HeartbeatKept`, `Doubling`, `NeverSilent` | 2 values, heartbeats of 2 and 3 ticks with time counted to 4; 7 failures in a row, the cap is met at the sixth |
| `uplink` | `NewestWins`, `ViewIsCurrent` | 2 measurements and 4 events: go, come back with other firmware, lose a connection, change a key, expire or restart, in any order |
| `settings` | `NoLostEdit`, `FileInForce`, `IdentityKept` | 2 tabs, 2 submits, 1 SSH edit, 2 restarts (a code is generated by the second only if the edit took it away after the first); one typed value is enough, as the default and "blank" are others |
| `downlink` | `ServedOnce`, `OldNeverServed`, `DownNeverSent`, refinement of `CallPromise` (`PublishPromiseKept`) | 2 requests in 3 copies, a cache for 1: each other signature evicts; window, drift and body one tick each, the signature outlives their sum by one; time to 4, so a signature expires and a copy may still come; 2 losses or a loss and a restart: a message is held, sent and sent again |
| `drivers` | `AnswersAreTrue`, `CutCostsOne`, `LossIsSeen`, `ComesBack` | all 5 kinds, 2 points (one is always refused), 2 commands with numbers at the edges of their formats and beyond, 2 frames each, registers that count to 4; 2 lines of 2 characters; 2 faults, 1 stop, 1 probe: the device goes and its adapter too, in either order and with every return between them, or one of them goes twice |

A property named `TypeOK` (`PacingTypeOK` for `pacing`) is the type invariant of its run.

**Fairness.** `telemetry_live`, the `sourceconfig` runs and `drivers` assume it.

- `Telemetry!Fairness`: weak fairness of `Start` (the supervisor restarts the
  process), of the steps of the flush loop and of every coroutine (asyncio runs
  what is ready, timers fire) and of the network as a whole for each serial
  (httpx ends every call with its timeout at the latest); strong fairness of
  `MainAccepts(s)`: a serial that keeps asking is answered in the end, unless
  it is in `Rejecting`. Nothing is assumed about readings or about crashes but that
  they are finitely many.
- `SourceConfig!FairSpec`: weak fairness of the loop and its clock, each awaited
  start returns or raises, and a start that is tried again and again succeeds
  in the end. `SourceRecovers` fails even so: nothing tries again.
- `SourceDriver!Fairness`: weak fairness of the poll loop (`NewRound`, `ReadPoint`: it has
  a time-out at each await), of the blocking read of a dead port (`ReadRaises`), of
  the event loop (`Notice`), of the libraries that look after their connections
  (`DeadLink`: keep-alive and time-outs; `Reconnect`: pymodbus and paho try for good) and
  of the end of each call (`Again` or `GiveUp`). Nothing is assumed of the
  device, the manager or Main: both liveness properties speak of a device that
  is away, or there, for good.

**Symmetry** is used where serials, tabs, or two copies of one request, are
interchangeable and no liveness is checked (`telemetry_safety`, `settings`, `downlink`).
**Deadlock** is switched off where bounded inputs run out and the system then
rightly rests; each such configuration says so, or is a run that looks for one
violation.

### Properties that need an exception, and what it is

- `NothingLost` excepts batches for which a portal's 2xx passed for Main's answer
  (`mistaken`); `DeliveryKept` and `DeliveryMade` are checked where there is none.
- `NewestWins` and `ViewIsCurrent` except what was published while the broker held
  no session, was refused for its signature, or was in RAM when the process died
  (`unheld`, `lost`, `unheard`).
- `OneConnection` excepts sources whose failed start leaks.
- `NoLostEdit` excepts edits by another process between two file accesses of one
  handler; `FileInForce` and `IdentityKept` a file changed by hand or torn.
- `ServedOnce` allows as many further times as the signature was lost from RAM before
  it expired (`dropped`): a restart, or a full cache. The signature is checked where
  the router requires one; `/api/latest` and `/api/stats`, which only read, do not.
- `LossIsSeen` excepts OPC UA, which never looks at its connection again and stays
  "online", and a serial device that falls silent behind a living port: `_read_line_ascii`
  returns "" after each time-out, `_loop` goes on (`serial_ascii.py:80-82`, `157-159`), and the source
  stays "online" for as long as it runs. On a serial line it therefore speaks of dead ports only
  (`OutOfReach`). `ComesBack` excepts OPC UA and the serial line, which never reopen theirs.
- `AnswersAreTrue` excepts a Modbus write that was sent more than once: the device
  may have done it at the first frame and refuse the second.
- `ShownIsRead` is stated for channels that are filtered whenever they are
  configured (section 6, last list).

## 5. Proofs

`TelemetryProofs`, for every set of serials, every number of readings, starts,
slots and rows a round, with and without store faults, portals and refusals:

| Theorem | Says |
|---|---|
| `TypeCorrect` | `Spec => []TypeOK` |
| `Inductive` | `Spec => []IInv` |
| `NeverLost` | `Spec => []NothingLost` |
| `ExactlyOnceInOrder` | `Spec => []MainLogInOrder` |
| `NeverFalselyDuplicate` | `Spec => []NoFalseDuplicate` |
| `InTurn` | `Spec => []OneCallForTheOldest` |

None of these properties is inductive. Main's log is in order *because* its mark
covers exactly what it has applied, and that depends on what can still arrive: a
request given up on in an earlier round may come after its row was delivered by
the retry and deleted. `IInv` adds

- `Identity`: every row and Main's mark carry the boot id kept in `kv`;
- `Ledger`: ids and sequence numbers are drawn once and order a serial alike, and
  the drawn number (`ticket`) is above all of them, so a crash burns it;
- `Mark`: Main's mark is the number of a batch the outbox had, the log is
  below it and increasing, and of the rows still in the outbox it covers only those applied;
- `Due`: whatever is on the wire, late requests included, has no *older* row of
  its serial left in the outbox, and an "ok" belongs to a settled row;
- `ReadingOrder`: readings only move from `pending` over `batch` to rows, in order.

`Due` is the heart of it: since a serial has one call at a time and it carries the
oldest row, a late request is either for the oldest row (then it is the retry
that becomes the duplicate) or for a deleted one (then the mark covers it).
There is one lemma for each conjunct and in it one step for each action that can
disturb the conjunct.

The last part of the module: `ImplementsDelivery`, that with `~Malformed` every behaviour of `Telemetry`
is one of `Delivery` under the mapping above (`Spec => DeliveryKept`). A push is
`Take`, since the drawn number is above all earlier ones of its serial (`Ledger`);
a request that Main has not seen is `Apply`, since it is due (`Due`) and its row
still in the outbox; deleting an acknowledged row is invisible, since "ok" implies
applied.

| Theorem | Says |
|---|---|
| `ImplementsDelivery` | `~Malformed => (Spec => DeliveryKept)` |
| `DeliveryMeans` | what a user gets from `Delivery` alone, whoever implements it: the log of a serial rises, no batch that waits is forgotten, an applied one stays where it is |
| `NeverOvertaken` | the outbox of a serial is a queue: nothing gets in before a row, and a row leaves only when nothing is ahead of it |
| `EveryRowAdvances` | if `HandleOk` comes again and again for a serial with rows, what is ahead of a row becomes less, from every set, or the row is out |

`EveryRowAdvances` is the step of `OutboxDrains` at which starvation *within* a serial would
show; the induction over the finite set of rows ahead is left to the reader, and that
`HandleOk` does come again is left to TLC.

`SourceConfigProofs`, for every set of sources and every number of edits, faults and restarts:

| Theorem | Says |
|---|---|
| `SourceTyped` | `Spec => []TypeOK` |
| `NeverTwoConnections` | `Spec => []OneConnection`; it rests on `Awaiting` (one stop at a time, its driver unregistered) and `Owned` (an open connection is a registered driver's or one being stopped) |
| `DriversFollowConfig` | `Spec => []ConfigInForce`; it rests on `Versions` (a version names one configuration, and applied ≤ pulled ≤ Main's) and `Progress` (how far the two loops of `apply_config` have come) |
| `OthersUndisturbed` | `Spec => Undisturbed` |
| `ApplyIsBounded` | for a finite set of n sources, `apply_config` has at most 5 n + 2 steps to take (`Work`), and each of its steps leaves it fewer, whatever Main edits and whichever starts fail |
| `ApplyGoesOn` | while its awaits return (`[]([]Applying => <><<ApplyStep>>_vars)`), what it has left to do becomes less, from every number, or it is over |

`Work` counts the sources still to be visited, those of them whose old driver must
be stopped first, and a stop under way; `StartFails` counts as a visit, which is why one
source that cannot be reached does not hold up the others.

`PacingProofs`, for every set of values, every configuration and every horizon:

| Theorem | Says |
|---|---|
| `EachKeepsItsSpec` | the composition adds nothing: `PacingSpec => Spec /\ BackoffSpec` |
| `DedupTyped`, `BackoffTyped` | the type invariants |
| `HeartbeatAlwaysKept` | `PacingSpec => HeartbeatKept`; it rests on `SilenceIsCounted`, that the cached time stamp is as old as the silence |
| `NothingHidden` | `PacingSpec => []ShownIsRead` when every channel setting is filtered (`AlwaysFiltered`); it rests on `CacheIsNewest` |
| `RestIsBounded` | `PacingSpec => []NeverSilent` |
| `PaceDoubles` | `PacingSpec => []Doubling`: after n failures in a row the delay is that of n - 1 doublings of the base up to the cap, less or more the jitter, for every n and any Retry-After |

`Doubling` compares with a recursively defined function, which would need induction over
data. The proof does without: the numbers at which the function differs from its
table of values (`Schedule`) would have a least one (`LeastNumber`, since < on the naturals
is well-founded), and the equation of the function contradicts it there.

`NodeCommandProofs`, for every set of nodes, pollers and signers among them, and every
number of commands and losses:

| Theorem | Says |
|---|---|
| `CommandInductive`, `CommandTyped` | `Spec => []IInv`, `Spec => []TypeOK` |
| `ErrorMeansNeverRun` | `Spec => []SureErrorNeverRuns` |
| `OutcomeIsReported` | `Spec => []AnswerIsTrue` |
| `ImplementsPromise` | `Spec => CommandPromiseKept`: every step of the edge, paho, the broker and the nodes is one of `CallPromise` or nothing to it |
| `PromiseMeans` | the promise gives back what the two invariants above say, and that a caller is told once |
| `NothingHeldBack` | `Spec => []HeldIsAwaited` |
| `PollsInTurn` | `Spec => PolledInTurn`: a polling node is handed its commands in the order they were given, each once; it rests on `Owned` (a command belongs to one node, and is queued for no other and with no other) and `InTurn` (each queue rises, and what the node has or has run comes before all of it) |

That "error" means never has to be known *before* it is said: while a command
is tracked its message sits unsent in paho, marked by nothing on the wire
(`Unsent`), which needs that a command has one message at most (`OneMessage`) and
that a number not drawn yet is nowhere (`Fresh`). After it is said, nothing brings
the command back (`Sure`). Outcomes are reports all the way: in the callbacks, in the
broker's session and at the caller (`Truth`).

`MqttUplinkProofs`, for every set of firmwares and any number of measurements, keys, lost
connections, expired sessions and restarts:

| Theorem | Says |
|---|---|
| `UplinkTyped` | `Spec => []TypeOK` |
| `NewestAlwaysWins` | `Spec => []NewestWins`; it rests on `Streams` and `Latest` |
| `ViewAlwaysCurrent` | `Spec => []ViewIsCurrent`; it rests on `Heard` |

A lost connection makes the broker send a run of old measurements again, while
their first copies may still wait in the loop, so neither queue is in order. What
is kept instead (`Climbs`) is that behind every measurement, in the same queue or in a later
one, there is a copy of each greater one that is not excepted; what is
acknowledged, and so dropped by the broker, is a beginning of what was sent, which leaves
that true. `Latest` says the same of what Main is shown and of the last in `_pending`. `Heard`
says that the last status on its way, wherever it is, is the retained one.

`DownlinkProofs`, for every set of requests and copies, every window, drift, body time and
cache size, provided that a signature is remembered for longer than window,
drift and body time together (`TTLOutlivesCopies`; the code has 120 s against a window of 30 s, which leaves
90 s for the clock's error and a slow body; nothing in the edge ends a body that is slower):

| Theorem | Says |
|---|---|
| `PartsKeepTheirSpecs` | `DownlinkSpec => GateSpec /\ PublishSpec`: the composition adds nothing to either part |
| `DownlinkTyped` | `DownlinkSpec => []TypeOK` |
| `ServedAtMostOnce` | `DownlinkSpec => []ServedOnce`; it rests on `Outlives`: a copy that is still on its way in was looked at before the signature of its served twin expires |
| `OldIsRefused` | `DownlinkSpec => OldNeverServed` |
| `PublishKeepsPromise` | `DownlinkSpec => PublishPromiseKept` |
| `BrokerDownIsSure`, `OkIsSure` | `DownNeverSent` and `OkIsAtBroker`; they rest on `OnTheWay` and `UnsentIsUnknown`: what paho has not marked as sent, the broker has not seen |

`SettingsProofs`, for every set of tabs and values and every number of saves, edits and starts:

| Theorem | Says |
|---|---|
| `PageInductive`, `PageTyped` | `Spec => []IInv`, `Spec => []TypeOK` |
| `NoEditIsLost` | `Spec => NoLostEdit`; it rests on `Forms` (where nothing was typed, a tab shows what its fingerprint stands for) and `Accepted` (what is about to be written was rendered from the file as it is) |
| `FileAlwaysInForce` | `Spec => []FileInForce`; it rests on `Saved`: a save leaves no key without a line |
| `IdentityAlwaysKept` | `Spec => IdentityKept` |

`DriverProofs`, for every register width, set of points and commands, and every number of
faults, restarts and probes:

| Theorem | Says |
|---|---|
| `RoundTrip` | `Decode` of `Encode` is the number itself, for every number its format is made for |
| `WrapsAround` | a number that does not fit is read back as another one that does, a whole number of spans away |
| `DriverTyped` | `Spec => []TypeOK` |
| `AnswersAlwaysTrue` | `Spec => []AnswersAreTrue`; it rests on `Once` (a frame sent once is on the wire or answered, not both) and `Honest`, `Written` (an accepting reply comes of a write, of what was asked for) |
| `CutsPay` | `Spec => []CutCostsOne`, for lines of any length and any number of faults; it rests on `Paid`: the places between the reader and the device where characters are missing are counted along what is still to be read (`Owes`), the count never exceeds `cuts - wrong`, and a line that comes out false takes one off it |
| `DriverKeepsPromise` | `Spec => WritePromiseKept`, the refinement of `CallPromise`; no run states it besides, since `AnswersAreTrue` is checked already |
| `DeadPortIsSeen` | `LossIsSeen` for the serial line, where it speaks of a port whose adapter was pulled under the driver, if reads of a dead port raise in the end (`ReadsEnd`, which weak fairness of `ReadRaises` implies) |

`DeadPortIsSeen` is liveness without `ENABLED`: the fairness is written with the guard of
the action in its place, and one step is all that is needed, so there is no
induction either. For the polled kinds and MQTT a loss takes a round, or a queue of
notices, and stays with TLC.

Assumptions are those the modules name (`TelemetryAssumption`,
`SourceConfigAssumption`, `DedupAssumption`, `BackoffAssumption`, `NodeCommandAssumption`, `MqttUplinkAssumption`,
`GateAssumption`, `TTLOutlivesCopies`, `PublishAssumption`, `CallsAreCopies`,
`SettingsPageAssumption`, `LineAssumption`, `WordAssumption`, `DriverAssumption`): types of
the bounds, that there is a firmware, that `None` is no value and no number and "blank" none either, that a register counts to
an even number, that Retry-After is a whole number of seconds. TLC evaluates each
on every run of its module.

**Only model-checked.** `DeliveryMade` (the fairness of `Delivery`), `OutboxDrains`,
`ConfigArrives`, `ComesBack`, and `LossIsSeen` but for the serial line. They rest on weak or strong
fairness, and the prover has no `ENABLED`; and most of them need an induction over
how much is left to do, for which the library's theorems take an operator that the
installed provers cannot instantiate. What can be proved of them is: that what is
left becomes less (`ApplyIsBounded`, `ApplyGoesOn`, `NeverOvertaken`, `EveryRowAdvances`), from a
fairness with its guard written out.

## 6. What disagrees with the documents

Three runs expect a violation. Each states what a document or comment says.

1. `telemetry_malformed`: README.md:178-179 says a malformed body is treated as a
   failure. `_parse` sets `ok` to true on any 2xx, so the page of a proxy or portal
   makes the edge delete a batch that Main never saw (`odoo_client.py:126`).
2. `nodecommand_late`: `mqtt_consumer.py:488-490` says an expired command is
   taken back so that a node does not run it late. A command that was on the wire
   when the connection broke is not tracked, and paho sends it again.
3. `sourceconfig_recovers`: `docs/kien-truc-he-thong-giam-sat-iot.html:537` says every
   part recovers by itself. A source whose start failed is not tried again.

Other differences seen while reading, which no run states:

- `scheduler.py:297-299` says every other loop has its try/except. `_flush_loop` has
  none; one SQLite error ends it (`FlushDies` in `Telemetry`).
- `mqtt_consumer.py:46-51` says no sample is lost across a restart. A measurement is
  acknowledged before it is handled (`lost` in `MqttUplink`).
- A serial source shows "online" for good when its device is switched off or cut off behind
  a living adapter: time-outs are no errors (`serial_ascii.py:80-82`, `157-159`), and
  nothing else looks at the device. OPC UA does the same whenever its server goes.
- `manager.py:167-168` says a test of a source does not disturb the collection under
  way. On a serial line it opens the port a second time, and pyserial empties the
  buffer in the middle of a line (`Probe` in `SourceDriver`).
- `docs/technical-reference-dev.html:277` describes a new boot id after a restart;
  the code keeps it in `kv`, and the theorems rest on that.
- The comment at `scheduler.py:213-214` on Retry-After: the cap and the jitter come
  after it (`228-229`), so a serial may be sent earlier than asked.
- A channel that must send every reading does not write `_last_enqueued`
  (`scheduler.py:73-74`); when the filter returns, the first readings are
  compared with an old one. The next heartbeat repairs it.
- Before the first status of an MQTT node its command is put into the poll queue
  (`manager.py:285-292`), which such a node never reads: it ends as "unknown".
- `by_serial` is set although `_subscribe_status` may have been dropped for want
  of a connection (`mqtt_consumer.py:322`): the lamp then stays unknown.
- A node downgraded to firmware that does not sign is refused until its key
  changes, against the comment at `mqtt_consumer.py:275-277`.
- `.env` is compared and then written (`settings_api.py:877`, `912`): another process
  may write in between. A crash while it is written tears it.
- The MQTT `client_id` follows the edge code (`config.py`), so a restart under
  another code leaves the old session behind at the broker.

## 7. What is not modelled

| Part | Why |
|---|---|
| `history` table and its gc | nothing of it comes back into the data path |
| print jobs | one sequential loop (fetch, print, acknowledge); whether a job is printed twice or never depends on what Main does with one it handed out and heard nothing of, which is not in this repository |
| drivers: values of readings (scale, f32, patterns), browse, the simulator | data, not control; the simulator has no device |
| downlink API: API key, topic rules of `/api/publish`, latest, browse, stats | stateless, or they only read |
| node API: `POST /node/v1/measurements` | the same call as the MQTT consumer makes |
| MQTT heartbeat forwarding, lamps, traffic log | read-only views of modelled state |
| operations page, health, logging, start-up | no state of their own |
| shape of a malformed configuration | Main validates what it sends |

Within what is modelled:

- `Telemetry`: Main may answer `ok: true` with some or none of the readings accepted
  and keep the rest in its own dead letters (`docs/technical-reference-dev.html:330-342`). The edge looks
  at `ok` only, so such an answer is not told apart: `mainLog` is what Main has committed
  as received, not what its cron job made of it.
- `SourceConfig`: `StopEnds` always closes the connection. `_stop_source` swallows what `stop()`
  raises (`manager.py:160-164`), so a port whose `close()` raises may stay open, which is not modelled.
- `Dedup`: a channel that is dropped and configured again is `Unconfigured` in between, which must
  send every reading; neither the run nor `NothingHidden` has it (section 6).
- `SettingsPage`: a key with an empty value and a key without a line are one (`Blank`); the
  refusal of forms that come from another origin (403) and the stripping of blanks are left out.

Main, the broker, paho and node firmware are external; they are modelled from how
this code and its documents use them, and marked so in the map.

## 8. How to run it

    tlc -workers 2 -config MCTelemetry_safety.cfg MCTelemetry
    tlapm TelemetryProofs.tla

A run is named `<module>_<run>.cfg`; an MC module gives the constants that are not
model values. The longest runs are `downlink` (2.6 million states, two minutes),
`drivers` (1.3 million, with liveness, two to three minutes), `uplink` (3.3 million) and
`nodecommand_safety` (1.4 million), a minute or so each; the others take seconds.
