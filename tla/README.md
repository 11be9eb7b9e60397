# Zephyr industrial gateway: verification project

TLA+ models of the C modules under `src/gateway` of this repository, checked with TLC
and, where a property matters for every size of the system, proved with TLAPS.

## 1. The system

The gateway reads field devices, watches the readings for anomalies and sends both to
cloud brokers over MQTT. While the uplink is down it keeps the data in flash and replays
it later. Each part is a C module with the same life cycle (`init`, `start`, `stop`,
`shutdown`, `on_event`, `control`), called by a module manager one call at a time. The
modules meet in three ways:

* the **event bus** (external framework): one dispatcher thread, queued copies, two
  priorities. `event_publish_copy` does not block and may refuse an event;
* the **data bus** (external framework): sensor samples, delivered on its own thread;
* **direct calls**: `cloud_provider_publish_all`, `protocol_mqtt_publish`, `set_*`.

    modbus/can/simulator --data bus--> anomaly_detection --ANOMALY_*--> cloud_upload
                         --data bus--------------------------------->  cloud_upload
    cloud_upload --publish_all--> cloud_provider --> protocol_mqtt --> broker
    cloud_upload --CLOUD_UPLOAD--> offline_cache --CLOUD_REPLAY--> cloud_upload
    network_manager --NET_UP/DOWN--> protocol_mqtt --CLOUD_(DIS)CONNECTED--> offline_cache

| Component | State | Operations | What makes it correct |
|---|---|---|---|
| `offline_cache` | ring (head, tail, count) in RAM; entries and state record in NVS; `net_connected`; delayable work item; mutex | cache an entry, replay a batch, link events, CLEAR, start/stop, reboot | nothing lost silently, oldest first, at most a batch replayed twice, the replay always armed |
| `protocol_mqtt` | connection state, `net_up`, `pending_disconnect`, back-off delay, parameters and their snapshot, client mutex, worker thread | connect, poll, disconnect, publish, `set_*`, network events, start/stop | exclusive use of the client, changed parameters applied, link state announced truly, stop returns, reconnects |
| `cloud_upload` | last sample and throttle, bounded queue, worker thread, `cached_count` | sensor callback, anomaly, replay, FORCE_UPLOAD, send, fall back, start/stop | each item handled once, nothing stale after a stop, stop returns, queue drains |
| `network_manager` | `net_up`, poll thread | poll, publish edges, start/stop | each edge published, MQTT agrees with the interface |
| event bus and subscriptions | queued events of two priorities | publish, dispatch | a reading in one place at a time, link events before the data they decide about |
| `cloud_provider` | registry under a mutex | register, snapshot, publish to all | idempotent registration, one failure does not stop the others |
| cloud providers, `cloud_crypto` | credentials | build parameters, call `set_*` | the identity complete before a connection uses it |
| `protocol_modbus` | one serial line, receive ring filled by an interrupt, poll thread | request, response, time-out, control | a response answers its own request |
| `protocol_can` | controller, filter, queue on the thread's stack, receive thread | receive, start/stop | the filter never outlives the thread, no frame of an earlier run |
| `data_simulator` | interval, time of the last round, thread | round, SET_INTERVAL, start/stop | rounds keep the interval over a wrap of the clock |
| `anomaly_detection` | per sensor type a window with running sums, last level, time of the last alert | sample, thresholds, reset, start/stop | the sums are those of the window, an alert carries what it was judged by, alerts are spaced, the rule over two sensors uses no stale level |
| `webshell` | none of its own | commands | - |

The hard part of this code is that `status`, `state`, `net_connected`, `net_up` and
`pending_disconnect` are read and written without a lock by several threads; that flash
and RAM change in separate steps; and that start and stop run against everything else.
`PROJECT.json` lists each hazard at its line under "hazards".

## 2. The modules

| Module | Models | Composed of |
|---|---|---|
| `OfflineCache` | `offline_cache.c`, with power loss and reboot | implements `StoreForward` |
| `StoreForward` | what the cache promises with the power on: a bounded FIFO | |
| `ProtocolMqtt` | `protocol_mqtt.c`; the MQTT library and the broker are its environment | implements `MqttSession` |
| `MqttSession` | what `protocol_mqtt.c` is to the others: an identity set value by value, a copy of it, a session and requests to drop it | |
| `CloudUpload` | `cloud_upload.c`; buses and providers are its environment | |
| `Uplink` | `network_manager.c`, the bus, and the `net_up` half of `protocol_mqtt.c` | two components |
| `Gateway` | `cloud_upload`, `offline_cache`, the session and the event bus with its priorities | four components, coarser |
| `CloudProvider` | `cloud_provider.c`, the start of each provider, and the MQTT module that takes their values | with `MqttSession` |
| `ProtocolModbus` | `protocol_modbus.c`; the slaves and the line are its environment | |
| `AnomalyDetection` | `anomaly_detection.c`; the producers of samples are its environment | |
| `ProtocolCan`, `DataSimulator` | `protocol_can.c`, `data_simulator.c` | |
| `FieldSources` | the two under one module manager | both |
| `...Proofs` | theorems about the module of that name; `FieldSourcesProofs` also about `ProtocolModbus` | |
| `MC...` | the instances TLC runs | |

Conventions. Each thread that can be inside a module has a program counter (`disp`,
`work`, `life`, `ctl`, `w`, `pub`, `at`, `nm`, `rx`, `sim`); an action is what a thread
does between two points where another thread can see or change what it uses. A critical
section is one step when nothing inside it is visible outside or can be cut by a power
loss, and several steps otherwise: each `nvs_write` of `OfflineCache` is its own step, the
lock-protected sections of `CloudUpload` are one each. A `k_mutex` is a variable that
names its holder where a thread keeps it over several steps. Operations marked "Mutant"
(`...Uncapped`, `...Keeps` and so on) are wrong variants that show that a property can
fail; variables marked "history" are not in the code, and a guard
reads one only to bound a run.

**OfflineCache.** `slot` and `saved` are NVS ids 64.. and 61; they survive `PowerLoss`,
which reboots into `LoadState(saved)`. `ring` is head/tail/count. `UploadEvent`,
`UploadLock`, `UploadWrite`, `UploadSave` are `cache_on_cloud_upload`; `WorkStart` to
`WorkTail` are `cache_upload_work_handler`, whose last step reads the count without the
lock as the code does; `armed` is the delayable work item. `StopCancel` and
`StopCancelled` are `k_work_cancel_delayable_sync`: while it waits for a running handler,
an immediate resubmission is refused, a delayed one is not. An entry is its arrival
number. CRC and length checks of the state record are one outcome, "no valid record".

**ProtocolMqtt.** `w` follows `mqtt_worker_thread`; `Disconnect` is `mqtt_do_disconnect`
at its four call sites; `Snapshot`, `Prepare`, `Connect`/`ConnectFails` are
`mqtt_do_connect`, of which only the first and the last part hold the mutex. `Accepted`,
`Refused`, `Lost`, `Subscribed`, `Quiet` are what the library may report to
`mqtt_evt_handler` in `mqtt_input` and `mqtt_live`. A message of the broker is two steps:
`PayloadBegins`, after which the worker sits in the blocking reads of the handler with the
mutex, and `PayloadRead`, which comes only if the broker goes on. The handler runs on whatever
thread is in the library: in `PubLost` the write of a publisher fails, and the session ends on
that publisher's thread between two steps of the worker. `ends` counts the CLOUD_DISCONNECTED
made since the last connection: `Disconnect` makes two when `mqtt_disconnect` calls the handler
before `mqtt_do_disconnect` announces on its own. `cfg` and `conn` hold versions of the
parameters and of their snapshot. Time is one bit, `due`: the delay since the last attempt has
passed. Calls that wait for no payload (name resolution, `mqtt_connect`, writes) are single
steps that return.

**MqttSession.** The worker of `ProtocolMqtt` with its program counter cut down to five places
(`SessionWorkerAt`) and the state to three values (`SessionOf`). The network, the delays, the
mutex and the publishers are gone; what is left is when the identity is copied, when a request
is taken, and where a session may begin and end: in a step of the worker, or (`End`) on the
thread of a publisher whose write failed.

**CloudUpload.** `at` and `held` follow the three callers of
`cloud_enqueue_or_fallback`; `w` and `item` the worker. The data bus may still be
dispatching when the consumer is unregistered, and FORCE_UPLOAD checks no status, as in
the code. `elapsed` is one bit of time: the upload interval has passed. `uploaded`,
`cached` and `givenUp` record how each item ended.

**ProtocolModbus.** `pc` follows the two readers, the poll thread and the shell, through
`protocol_modbus_read_holding_regs`; `Lock` takes `bus_mutex` and clears `rx_buf`,
`Receive` and `TimeOut` are the two ends of `modbus_receive_response`, with the checks
that follow and the unlock. `line` holds the answers on their way; `Arrive` is the
interrupt, which gets a frame whole or in two pieces and drops what finds the buffer full.
`rxBuf` is the buffer as a sequence of pieces, so a frame counts only if its pieces join, and
`rxLen` is its `rx_len`. Its definitions carry the prefix `Modbus`, as those of the CAN and
simulator modules carry theirs, so that the proofs about the three field sources share a module.
An answer carries whose request it is for (`to`), which the code cannot see: that is how
the properties tell the right answer from a wrong one. Register addresses and values are
left out; a response does not name the address either.

**AnomalyDetection.** `Callback` is the status check, the last point before the lock, so
that a sample may still be taken after stop; `Take` and `Drop` are what follows under the
lock. `late` is that callback. A window keeps its values, their sum and the sum of their
squares as the code does, and every operation on these is rounded: `Float` is the rounding of
the build, a constant of the module, and `Fused` says whether the compiler contracts a square
and its addition into one rounding. A number stands for a multiple of the finest place of the
floats, so that fractions are covered; squares below the smallest normal float are not.
What the floats make of mean, variance, deviation and quotient is not computed. The variance is
the difference of two rounded numbers, `avg_sq - mean_sq`, which for nearly constant readings
of a large value has lost its last digits when it is compared with 0.001; `score`, the
quotient, is therefore any of `Scores`, or `Flat` (the deviation counted as none), each time.
`event` is the alert that the step published, with the score and the window it came from.
`drift` adds up the rounding errors of the additions since a reset. `time` is real, `Uptime`
wraps. The counters of GET_STATS are left out.

**Uplink.** `known` is `net_up` of the manager, `netUp` that of the MQTT module. `Poll` reads
the interface and keeps the edge, `PublishEdge` is the call that may be refused.
`StartReads` and `StartSets` are lines 186 and 187 of `protocol_mqtt.c`; `OnEvent`, which
looks at no status, may come between them. `astray` remembers which party had the last
word on `net_up`.

**Gateway.** One step per handler, and three for the replay, which holds the mutex of the
cache while `cloud_upload` goes on. `high` and `normal` are the queues of the bus; a NORMAL
event is served only when no HIGH one waits, as the priorities given in the code ask of
the bus. The cache is the FIFO that `OfflineCache` is shown to implement, without power
loss. The session comes and goes freely; an attempt dropped before the broker accepted is
announced as an end too, as `mqtt_do_disconnect` does. `dropped` names for every reading given
up the reason the code has.

**CloudProvider.** `build` is chosen once: the provider of Kconfig, AWS with TLS or without,
and the set of values that do not fit their buffers. `Calls` is the sequence of calls in the
provider's start, `setup` the one at hand. A setter is two steps, the write under the mutex
(`Set`) and the request to reconnect after it (`RequestReconnect`), because the worker may
act between them. The MQTT module is `MqttSession`, instantiated for the values a provider may
set, with its worker started and stopped at any time. A value is only its origin: Kconfig, the
provider, or none.

**ProtocolCan.** `CanStopped` leaves the controller started when `can_stop` fails;
`RxAddFails` ends the thread with the status still RUNNING. A restart finds the controller
started in that case and fails, as `can_set_mode` does. `FrameArrives` is the interrupt.

**DataSimulator.** The clock counts sleeps of the thread and wraps at `W`; it may stand
anywhere at boot. `age` is the time that has really passed since the last round.
`FieldSources` lets the manager make one call at a time: a `stop` that waits for one thread
keeps back every call to the other module.

## 3. The runs

| Run | Question | Result |
|---|---|---|
| `cache_safety` | power loss, wrap-around, overwrite, errors: is anything lost, out of shape or repeated too often, and is the ring a bounded FIFO while the power is on? | holds (the last by refinement) |
| `cache_robust` | every operation may fail, any number of stops and starts: does the backlog drain? | holds |
| `mqtt` | stale parameters, clean stop, announced state, delay; does stop return if the broker finishes its messages, does the session come back, and is the module what `MqttSession` says? | holds (the last by refinement) |
| `mqtt_client` | is `g_mqtt.client` used exclusively? | no: `protocol_mqtt.c:557` |
| `uplink` | does `net_up` follow what the manager saw, but for the exceptions named? | holds |
| `uplink_stuck` | is an interface that stays up believed to be up? | no: `protocol_mqtt.c:186` |
| `providers` | does a broker ever see half an identity, is the last one applied, is a reading offered once? | holds |
| `cloud_upload` | is each item handled exactly once, does nothing stale survive, does stop return, does the queue drain? | holds |
| `gateway` | is every reading in one place or ended for a known reason, does the cache believe the truth, does the backlog end? | holds |
| `modbus_line` | does a read get its own answer, do reads and stop return? | holds |
| `anomaly` | are the running sums those of the window, does each alert carry its baseline, its level and its distance, is no level stale? | holds |
| `sources` | does the filter have its thread, is every frame fresh, do rounds keep the interval? | holds |

The two that fail are listed as findings. `mqtt_client`: the worker clears and refills the
client structure without the mutex that `protocol_mqtt_publish` holds. `uplink_stuck`: a
NET_UP handled between the read of the interface and the write of `net_up` is overwritten
by the older reading, and nothing is published while the network stays up.

What the properties leave out on purpose, because the code does it:

* *Power loss on a full ring* (`offline_cache.c:286`). The write of the entry reuses the slot
  that the durable record still names as the oldest, and the record is written afterwards.
  A power loss between the two loses the overwritten entry and replays the newest one first.
  `NoSilentLoss` admits this window and no other.
* *Replay after stop* (`offline_cache.c:190`). `stop` cancels the work item while the status is
  still RUNNING; a CLOUD_CONNECTED handled after that submits it again, and the handler may
  go on past the stop. `NoSilentLoss` and `RingClosed` hold in these states too.
* *Late Modbus answers* (`protocol_modbus.c:288`). `rx_buf` is cleared once, before the request.
  An answer that comes after its read timed out, or after a fragment ended its read early, is
  accepted by the next read if slave and length fit. `OwnAnswer` is therefore stated for
  `Punctual` slaves, whose answers end before the next request is sent.
* *Rounded sums* (`anomaly_detection.c:378`). The sums are floats kept by adding and subtracting
  and are never recomputed: what rounding took while a large sample was in the window is
  missing when it has left. `SumsOfWindow` bounds the difference by the errors made so far, and
  says that nothing else adds to it; the errors themselves may grow as long as the sensor is
  not reset. What they, and the cancellation at line 398, do to a verdict is not bounded.
* *A broker that stops in mid-message* (`protocol_mqtt.c:792`). The handler reads a payload in
  blocking reads without a time limit, inside `mqtt_input` and with `client_mutex`. A broker that
  begins a message on the subscribed topic and does not finish it holds the worker, which then
  never comes to the check of the status that the comment at line 208 relies on, and the join
  at line 213 waits for ever. `StopTerminates` and `Reconnects` are stated under `NoStall`; with
  `StallSpec` in the place of `FairSpec` in `Mqtt.cfg`, TLC finds this behaviour.
* *The handler on a publisher's thread* (`protocol_mqtt.c:302`). The comment at lines 713-715 says
  that `mqtt_evt_handler` runs in the worker's context only; `PubLost` is the step where it does
  not. `AnnouncedTruly`, `ImplementsSession` and `Reconnects` hold in spite of it.
* *The end of a session announced twice* (`protocol_mqtt.c:669`). `AnnouncedTruly` allows a second
  CLOUD_DISCONNECTED, which changes nothing in its receiver, and no third.
* *A refused CONNACK* (`protocol_mqtt.c:727`) leaves the delay as it is; only a connection that
  cannot be made doubles it.
* *A stale belief after a restart of the cache* (`offline_cache.c:166`) and *a replayed entry no
  provider takes* (`cloud_upload.c:270`). `LinkTruth` names the first (`blind`), `Conserved` the
  second (`"replay"`).
* *A filter refused* (`protocol_can.c:286`). The thread ends, the status stays RUNNING.

Bounds, and why they suffice:

* `cache_safety`: three slots, four entries, batches of two. The ring fills, wraps and
  overwrites, with live slots on both sides of the wrap, and a batch is cut in its middle.
  `cache_robust`: two slots and batches of one, smaller than the ring, so batches chain.
  The code has 16 to 1024 slots and batches of 10; the arithmetic does not depend on
  them, which is what `RingAlwaysClosed` proves.
* One power loss (`MaxCrashes`): the state after a reboot is one that `LoadState` can
  give from any record, and the actions do not count reboots.
* One publisher, one parameter changed twice: a holder of the mutex besides the worker, and
  a second change while the first is being applied. The theorems cover any number of both.
  `MaxDelay` = 3 times the minimum is not a power of two, so the cap is met in between.
* `cloud_upload`: a queue of one and three items: full with one item, and one in each
  caller's hands. The theorems cover every depth and number.
* `gateway`: a queue of one, a ring of two, batches of one and three readings: each bound is
  met, and every reason to give up a reading occurs. Two events of each priority on the bus.
* `uplink`, `uplink_stuck`: two events on the bus, one more than the edges of two polls leave
  waiting when the dispatcher is behind.
* `providers`: all four providers and every combination of values that fail; two readings, so
  that the counters of a call are reset once.
* `sources`: a queue of one frame and two frames, so that one is dropped or left over; a clock
  of six ticks and intervals of one and three, so that a round is due across the wrap.
* Two slaves and frames of two lengths, one of which does not fit the buffer (in the code
  only noise can fill it), two answers on the line.
* Windows of two samples: a baseline needs two, and every further sample replaces one. With
  six samples each of two sensors gets a full window and a verdict, so that the rule over
  both fires. Floats of three bits round most of the squares and sums of the two samples.
  Every level, and no level with a deviation, is some score's. A clock that wraps at 4 with alerts 2 apart: an alert just before the wrap
  and the next one after it. The code's values are 100 samples, 2^32 and 5000;
  `AlertsAlwaysSpaced` covers them.

The flash and bus failures of a run are the members of `Faults`: `cache_safety` leaves out
the failures of the state record, which its properties assume away (`ReliableState`).

Fairness, and what in the code justifies it:

* weak fairness for the steps of a thread that is not blocked: all threads are
  preemptible and none spins;
* strong fairness where a thread waits for a mutex: `k_mutex` hands over to its waiters;
* strong fairness for `WorkReplay`, `WorkDrop` and, in `Gateway`, `WorkPublish`: bus refusals
  and flash read errors are transient. A permanent read error on the oldest slot does stop
  the replay (see the hazards);
* `FairBroker`: a broker that is reachable and answers CONNACK in the end. The code has no
  time-out for CONNACK of its own;
* `NoStall`: the broker finishes a message it has begun, or the connection ends. This is an
  assumption about the broker and the network, which nothing in the code enforces: `StallSpec`
  is the specification without it;
* in `ProtocolModbus`, strong fairness for taking `bus_mutex` and for the end of a wait,
  which is at the latest its time-out;
* no fairness for the environment: links may flap, nobody has to call start or stop, and
  entries need not arrive. `BacklogEnds`, `Believed` and `Drains` say what happens *if* the
  link or the interface stays up.

## 4. The proofs

`OfflineCacheProofs` proves, for every `N`, `Batch`, set of faults and number of entries
and power losses (`CacheAssumption` is the only assumption):

* `TypeCorrect`: `TypeOK`. It is inductive as it stands; `DataStep` and `ControlStep`
  each do one half of it, action by action.
* `MutexHeld`: the holder of the mutex is exactly the thread past `k_mutex_lock`.
  Needed by the next ones: the ring changes only under the mutex.
* `RingAlwaysClosed`: `head = (tail + count) % N` in RAM and in the record. The lemmas
  `PushClosed` and `CommitClosed` are the two operations on the ring, with the
  overwrite of a full one; `LoadState` keeps it because it accepts a record as a whole or
  not at all. With `MutexHeld` no two threads mix their updates.
* `StateAlwaysDurable`: `StateDurable` is not inductive, since the mutex can be given back
  by `UploadWriteFails` without a save. `Durable` adds the states in which the dispatcher
  holds it and has not written yet; it is inductive together with `TypeOK` and `LockHeld`.
* `NothingSilentlyLost`: `NoSilentLoss` says nothing of flash, so it does not survive a power
  loss. `Accounted` says it of the ring in RAM (`InRam`) and of the ring a boot would load
  (`InFlash`, but for the entry whose record is not saved yet). A write overwrites a slot that
  the old record may still call live: `Durable` makes that record the ring itself, so the slot
  is the oldest one of a full ring and its entry is given up by name. `LiveAt`, the slots less
  than `count` ahead of the tail, carries the arithmetic; `PushEntries`, `CommitEntries` and
  `SpoilEntries` say what each operation may take out.
* `ReplayAgainIsBounded`: `OneBatch` puts what was handed on within `Batch` of the read
  position, in both rings, and `Behind` says that during a batch the record lags the ring by
  `iter`. `Distinct` (no entry in two slots) makes the entry published one slot only. The
  cardinality comes from a surjection of `0 .. Batch - 1`.
* `CacheIsFifo`: the refinement of `StoreForward`, one lemma for each of its actions.
  `PushQueue`, `CommitQueue` and `SpoilQueue` turn the arithmetic of the ring into `Append`,
  `Tail` and an update of one element; `InOrder` gives `Forward` its guard.

`ProtocolMqttProofs` proves, for every set of parameters and publishers and every pair of
delays (`MqttAssumption`):

* `TypeCorrect`: `TypeOK`, one lemma for the worker and one for the other threads. The
  bounds of the delay are part of it, so it carries the cap of the back-off.
* `DelayOnlyResetByConnack`: an action property; it needs `TypeOK` for `delay`.
* `NoStaleConnection`: `StaleConnectionDropped` is inductive as it stands. `Attempting`
  includes the steps between the snapshot and `mqtt_connect`; without them it would not be.
* `LinkAnnouncedTruly` and `StopsClean` rest on `WorkerLife`: the worker is there only
  between the end of start and the join of stop, and begins an attempt, or leaves, with the
  session closed. `StartSpawn` sets `state` without announcing it, `Connect` leaves
  `DISCONNECTED` without looking at it: each is harmless only because of `WorkerLife`.
* `ImplementsMqttSession`: the refinement of `MqttSession`, one case for each action of the
  worker and one for each kind of step of the other threads, the end of a session on a
  publisher's thread among them. `SessionView` says what the
  mapping makes of each place and state; `WorkerLife` gives `Snapshot` and `Spawn` their guard,
  that no session is open. With it the theorems about `CloudProvider`, which is composed with
  `MqttSession`, rest on a specification the MQTT module is shown to keep.

`AnomalyDetectionProofs` proves, for every window size, clock, interval and set of sensor
types (`AnomalyAssumption`):

* `AlertsAlwaysSpaced`: `Stamped` (the last alert's stamp is its real time modulo the
  clock) is inductive, and `AgeIsNoMore`, from division with remainder, says that a
  difference modulo the clock is never more than the real one.
* `LevelsHaveBaselines`: inductive as it stands, because a full window stays full and a
  reset clears level and window together.
* `SumsAlwaysOfWindow`, for any `Float` that gives numbers for numbers (`Rounding`), any samples
  and either value of `Fused`. The inductive invariant is `RunningSums`: `sum` and `sum_sq` of
  each window are within `drift` of the sums over its live values. A sample that takes the
  place of the oldest value changes the exact sums by the difference and the kept ones by two
  rounded additions: `StaysNear`, from the triangle inequality. `SumLaws` (one more element,
  one element changed) says what an update does to `SumFunctionOnSet`. The library defines that
  sum by recursion over the set, so its laws need induction: `Induction` derives it from
  `WFMin`, the least counterexample, and `SetInduction` states it with a *set* of subsets where
  the library's theorem has an operator, which the provers cannot instantiate.
* `AlertsAlwaysExplained`: inductive with the shape of `win`. `VerdictIsHighest` says that the
  order of the code's tests finds the highest level reached, in whatever order the thresholds
  are. It assumes nothing of samples or floats.
* `TypeCorrect`, under `Rounding`: with `RunningSums`, `Shaped` (a window has the fields of the
  structure) and `AlertTypes`, in which a callback past its check still has a sample to take.

`CloudUploadProofs` proves, for every depth of the queue and any number of items, whether
or not the bus refuses events:

* `AlwaysOneWorker`: `Control` ties the worker, the manager's call and the status together.
* `AlwaysHandledOnce` and `AlwaysNoStaleData`: the invariant `Ways` is `Control`, `Hands` (types,
  and that a caller holds an item only between two calls) and, for each item, `Once` (the
  places that hold it and the ways it ended add up to one) and `Left` (an item from before a
  stop that is still about was in a caller's hands or pending). Neither is inductive without
  the other two: a purge that runs with a worker alive would break both. The lemmas
  `CountExcept`, `CountAppend` and `CountTail` count an item in a queue that changes.
* `TypeCorrect`: `TypeOK`. It needs `Filled` (who is on the way with an item has one), and for
  the upper bound of `cached_count` `Counted` (no more is counted than was cached) together
  with `Ways`: an item that goes to the cache is not in it yet, so the set grows with the
  counter.

`GatewayProofs` proves, for every size of queue, ring, batch and bus and any faults
(`GatewayAssumption`):

* `LinkAlwaysTrue`: `Told` says that the *last* link event on the way tells the session there
  is, or that the cache knows it when none is on the way; `LinkTruth` alone does not survive
  the step that serves the last event.
* `AlwaysStoredWhenDown`: from `Told` and the priority of the bus. When a CLOUD_UPLOAD is
  served no link event waits, so the cache knows of the outage.
* `AlwaysConserved`: `Whole` adds up, for one reading, the places that hold it and the ways it
  ended: the sum is one from its arrival on. `NumberAppend` and `NumberTail` count it in a
  queue that changes, `Lost` needs that a reading given up was not given up before, which
  `Whole` gives. It holds through stops of the cache, refused events and failed flash writes.
* `TypeCorrect`: `TypeOK` is inductive as it stands. `PushedTypes` is the ring, which gives up
  its oldest entry when it is full, `Bounded` what is said of queue, ring and bus alike.

`UplinkProofs` proves, for every size of the bus (`UplinkAssumption`):

* `AlwaysFollows`: `Tells` also covers the states between the read and the write of
  `protocol_mqtt_start`, in which `net_up` will be overwritten but an event still waits that
  will put it right.
* `TypeCorrect`: `TypeOK` is inductive as it stands; `BusSteps` is the bus, with its bound.

`CloudProviderProofs` proves, for every build and number of readings:

* `AlwaysCompleteAtOwnBroker`: `Identity` says that the values of the calls done are the
  provider's and that `broker` is its own only if all are. It rests on the one fact about the
  sources that `CallsOfBuild` states: the broker is the last call of every start.
* `AlwaysOwnCloud`: `Adopted` says that a session, or an attempt at one, of another identity
  than the one set has a request pending, being taken, or about to be made. `SessionSteps` is
  all it needs of the MQTT module.
* `AlwaysOfferedOnce`: the registry never holds more than the one provider.
* `TypeCorrect`: with `Identity`, for the calls of the setup, and `Registered`.
  `SessionTypesKept` is stated of `MqttSession`'s actions, whoever takes them.

`FieldSourcesProofs` proves, for every queue, clock and set of intervals (`CanAssumption`,
`SimAssumption`: an interval and two looks at the clock are shorter than its wrap):

* `FilterAlwaysHasThread`: with `Spawning`, that a thread is made only in a start.
* `FramesAlwaysFresh`: `Ordered` puts the frame published, the one in hand and those in the
  queue in order, all of them after `since` once the thread has added its filter.
* `RoundsAlwaysOnTime`: `Timed` bounds `age` and says that `now` is `last` plus `age` on the
  clock; `ClockArithmetic` takes the difference back out of it.
* `TypeCorrect`: the types of both sources, from `Ordered` and `Timed` for the numbers.

and, for every set of slaves, every size of `rx_buf`, every cut of an answer and every number
of answers on the line (`ModbusAssumption`):

* `ModbusTypeCorrect`: with `Unfinished` (an answer on the line has a byte left), which the
  interrupt needs so that a piece is never of negative length. `StoreTypes` is the bound of
  `rx_buf`.
* `ModbusStoppedClean`: `StoppedClean`, which no run checks, is inductive together with the
  types; `AlwaysOwnAnswer` needs it.
* `AlwaysOwnAnswer`: `Owned` says that `bus_mutex` is held exactly by the reader between its
  request and its answer, `OwnLine` that all there is on the line and in `rx_buf` meanwhile is
  meant for it. `Owned` alone says nothing of the line, and `OwnAnswer` alone nothing of what
  the next check will find. The lock establishes `OwnLine` (the line is silent, the buffer
  cleared), the interrupt keeps it, the check uses it for the first piece in the buffer.

Every safety property the passing runs check has its theorem, and every component its
`TypeCorrect`. Only model-checked are the
liveness properties (`Drains`, `StopTerminates`, `Reconnects`, `Believed`, `Settles`,
`StopReturns`, `ReadReturns`, `BacklogEnds`): liveness and fairness are beyond this prover.

## 5. Not modelled

* `webshell`: text over the `control` calls of the other modules. The calls that change state
  (CLEAR, FORCE_UPLOAD, SET_SLAVE_ID, SET_INTERVAL, thresholds, RESET_WINDOW) are actions of
  the module they change.
* Configuration and boards: the bounds they set are CONSTANTS.
* The framework: the dispatcher's own queues, module manager, MQTT library, broker, Zephyr
  kernel and NVS beyond what the code relies on. Whether the bus keeps the order the
  priorities ask for is assumed, not shown.
* `protocol_can_send` and the controller's state callback (which only logs), the simulator's
  INJECT, baselines and ranges: they change what a message says, not the state the
  properties are about.
* JSON texts, topics, credentials, HMAC and encodings; logging; statistics counters.
* The float arithmetic of the anomaly detector behind its sums: mean, variance, deviation and
  the quotient compared with the thresholds. Nothing is shown of which level a sample *should*
  get; the cancellation in the variance decides for nearly constant readings (see the hazards).
* Time limits of the MQTT library's own calls: name resolution, `mqtt_connect` and the writes
  are taken to return.
* A second `init` after a `shutdown`, but for the modules in which it matters to another
  (`Uplink`, the field sources, the registry): nothing in the repository calls it.
* A firmware whose `CACHE_MAX_ENTRIES` differs from the one that wrote the flash.

## 6. Plan

Done in this order: the cache, MQTT, upload, Modbus and anomaly modules; `Uplink`; `Gateway`;
`CloudProvider`; the field sources; the proofs, which now state every safety property of the
passing runs. What remains worth doing:

1. `Gateway` with power loss, once its cache is `OfflineCache` itself: the state space is the
   product of two that take a minute each.
