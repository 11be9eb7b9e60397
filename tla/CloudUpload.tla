----------------------------- MODULE CloudUpload -----------------------------
(***************************************************************************)
(* The upload module (src/gateway/cloud_upload.c): sensor samples and      *)
(* anomalies are copied into a bounded queue by the callbacks, and one     *)
(* worker thread sends them to the cloud providers.  What cannot be sent,  *)
(* or does not fit the queue, becomes a CLOUD_UPLOAD event for the offline *)
(* cache.                                                                  *)
(*                                                                         *)
(* Three callers may be inside the module at once: the data bus thread     *)
(* (sensor callback), the event dispatcher (anomalies, replays) and the    *)
(* shell (CLOUD_CMD_FORCE_UPLOAD).  g_cloud.lock is never held across a    *)
(* blocking call, so each section under it is one step.  The queue has its *)
(* own lock, and status is read with none.                                 *)
(***************************************************************************)
EXTENDS Naturals, Sequences, FiniteSets

CONSTANTS
  Depth,       \* CLOUD_UPLOAD_QUEUE_DEPTH
  MaxItems,    \* bound: samples and anomalies the environment produces
  BusRefuses   \* whether event_publish_copy may fail

ASSUME UploadAssumption ==
  /\ Depth \in Nat \ {0}
  /\ MaxItems \in Nat
  /\ BusRefuses \in BOOLEAN

Callers == {"bus", "disp", "shell"}
None == 0   \* no item: items are numbered from 1

VARIABLES
  status,
  consumer,     \* g_cloud_sensor_consumer # NULL
  queue,        \* upload_msgq
  last,         \* last_sensor
  pending,      \* has_pending_sensor
  elapsed,      \* upload_interval_ms have passed since last_upload_ms
  cachedCount,  \* cached_count
  at,           \* where each caller is
  held,         \* the item each caller has in its hands
  w,            \* the worker thread
  item,         \* the worker's item
  life,         \* the thread inside start, stop or shutdown
  closing,      \* stop was called by shutdown
  nextItem,     \* history: number of the next sample or anomaly
  uploaded,     \* history: items some provider took
  cached,       \* history: items the bus took as CLOUD_UPLOAD
  givenUp,      \* history: superseded, refused by the bus, or met by a stop
  stopped,      \* history: items that existed when stop last returned
  onTheWay      \* history: those of them a caller held or FORCE could still take

sampling == <<last, pending, elapsed>>
callers  == <<at, held>>
worker   == <<w, item>>
lifetime == <<status, consumer, life, closing, stopped, onTheWay>>
vars == <<status, consumer, queue, last, pending, elapsed, cachedCount, at, held,
          w, item, life, closing, nextItem, uploaded, cached, givenUp, stopped, onTheWay>>

Items == 1 .. MaxItems

Init ==
  /\ status = "INITIALIZED" /\ consumer = FALSE /\ queue = <<>>
  /\ last = None /\ pending = FALSE /\ elapsed = FALSE /\ cachedCount = 0
  /\ at = [c \in Callers |-> "idle"] /\ held = [c \in Callers |-> None]
  /\ w = "off" /\ item = None /\ life = "idle" /\ closing = FALSE
  /\ nextItem = 1 /\ uploaded = {} /\ cached = {} /\ givenUp = {}
  /\ stopped = 0 /\ onTheWay = {}

Move(c, from, to) == at[c] = from /\ at' = [at EXCEPT ![c] = to]
Take(c, i) == held' = [held EXCEPT ![c] = i]

\* A new sample or anomaly comes into the hands of caller c.
Produce(c) ==
  /\ nextItem <= MaxItems
  /\ nextItem' = nextItem + 1
  /\ Take(c, nextItem)

-----------------------------------------------------------------------------
(* The sensor callback, on the data bus thread.  The bus does not wait for *)
(* a dispatch in progress when the consumer is unregistered.               *)

SensorDispatch ==
  /\ consumer
  /\ Move("bus", "idle", "check")
  /\ Produce("bus")
  /\ UNCHANGED <<lifetime, queue, sampling, cachedCount, worker, uploaded, cached, givenUp>>

SensorCheck ==
  /\ IF status = "RUNNING"
     THEN Move("bus", "check", "sample") /\ UNCHANGED <<held, givenUp>>
     ELSE /\ Move("bus", "check", "idle") /\ Take("bus", None)
          /\ givenUp' = givenUp \cup {held["bus"]}
  /\ UNCHANGED <<lifetime, queue, sampling, cachedCount, worker, nextItem, uploaded, cached>>

Superseded == IF pending THEN {last} ELSE {}

\* cloud_on_sensor_data_internal(force = false), the part under the lock.
Sample ==
  /\ last' = held["bus"]
  /\ pending' = ~elapsed
  /\ elapsed' = FALSE
  /\ givenUp' = givenUp \cup Superseded
  /\ IF elapsed
     THEN Move("bus", "sample", "put") /\ UNCHANGED held
     ELSE Move("bus", "sample", "idle") /\ Take("bus", None)
  /\ UNCHANGED <<lifetime, queue, cachedCount, worker, nextItem, uploaded, cached>>

IntervalElapses ==
  /\ ~elapsed /\ elapsed' = TRUE
  /\ UNCHANGED <<lifetime, queue, last, pending, cachedCount, callers, worker,
                 nextItem, uploaded, cached, givenUp>>

-----------------------------------------------------------------------------
(* The event dispatcher: cloud_upload_on_event                             *)

Anomaly ==
  /\ status = "RUNNING"
  /\ Move("disp", "idle", "put")
  /\ Produce("disp")
  /\ UNCHANGED <<lifetime, queue, sampling, cachedCount, worker, uploaded, cached, givenUp>>

\* Mutant: cached_count is not kept from going below zero.
ReplayUnderflows ==
  /\ status = "RUNNING" /\ at["disp"] = "idle"
  /\ cachedCount' = cachedCount - 1
  /\ UNCHANGED <<lifetime, queue, sampling, callers, worker, nextItem, uploaded,
                 cached, givenUp>>

\* CLOUD_REPLAY: sent at once, and counted out of the cache whatever became of
\* it.  The entry may be one that was cached before a reboot.
Replay ==
  /\ status = "RUNNING" /\ at["disp"] = "idle"
  /\ cachedCount' = IF cachedCount > 0 THEN cachedCount - 1 ELSE 0
  /\ UNCHANGED <<lifetime, queue, sampling, callers, worker, nextItem, uploaded,
                 cached, givenUp>>

-----------------------------------------------------------------------------
(* The shell: CLOUD_CMD_FORCE_UPLOAD, whatever the status                  *)

\* Mutant: the sample stays pending while it is being uploaded.
ForceUploadKeeps ==
  /\ pending
  /\ Move("shell", "idle", "put") /\ Take("shell", last)
  /\ UNCHANGED <<lifetime, queue, sampling, cachedCount, worker, nextItem,
                 uploaded, cached, givenUp>>

ForceUpload ==
  /\ pending /\ pending' = FALSE
  /\ Move("shell", "idle", "put") /\ Take("shell", last)
  /\ UNCHANGED <<lifetime, queue, last, elapsed, cachedCount, worker, nextItem,
                 uploaded, cached, givenUp>>

-----------------------------------------------------------------------------
(* cloud_enqueue_or_fallback                                               *)

Enqueue(c) ==
  /\ Len(queue) < Depth
  /\ Move(c, "put", "idle") /\ Take(c, None)
  /\ queue' = Append(queue, held[c])
  /\ UNCHANGED <<lifetime, sampling, cachedCount, worker, nextItem, uploaded, cached, givenUp>>

QueueFull(c) ==
  /\ Len(queue) = Depth
  /\ Move(c, "put", "fallback")
  /\ UNCHANGED <<lifetime, queue, sampling, cachedCount, held, worker, nextItem,
                 uploaded, cached, givenUp>>

\* cloud_handle_offline_unlocked: counted only if the bus takes the event.
HandleOffline(i) ==
  \/ cached' = cached \cup {i} /\ cachedCount' = cachedCount + 1 /\ UNCHANGED givenUp
  \/ /\ BusRefuses
     /\ givenUp' = givenUp \cup {i} /\ UNCHANGED <<cached, cachedCount>>

Fallback(c) ==
  /\ Move(c, "fallback", "idle") /\ Take(c, None)
  /\ HandleOffline(held[c])
  /\ UNCHANGED <<lifetime, queue, sampling, worker, nextItem, uploaded>>

-----------------------------------------------------------------------------
(* cloud_upload_worker_thread                                              *)

WorkerStep(from, to) == w = from /\ w' = to

\* Mutant: the loop goes on whatever the status.
WorkerTopForever ==
  /\ WorkerStep("top", "get")
  /\ UNCHANGED <<lifetime, queue, sampling, cachedCount, callers, item, nextItem,
                 uploaded, cached, givenUp>>

WorkerTop ==
  /\ WorkerStep("top", IF status = "RUNNING" THEN "get" ELSE "off")
  /\ UNCHANGED <<lifetime, queue, sampling, cachedCount, callers, item, nextItem,
                 uploaded, cached, givenUp>>

\* Mutant: a timeout of k_msgq_get ends the loop.
WorkerTimeoutLeaves ==
  /\ WorkerStep("get", "off") /\ queue = <<>>
  /\ UNCHANGED <<lifetime, queue, sampling, cachedCount, callers, item, nextItem,
                 uploaded, cached, givenUp>>

WorkerTimeout ==
  /\ WorkerStep("get", "top") /\ queue = <<>>
  /\ UNCHANGED <<lifetime, queue, sampling, cachedCount, callers, item, nextItem,
                 uploaded, cached, givenUp>>

WorkerGet ==
  /\ WorkerStep("get", "check") /\ queue # <<>>
  /\ item' = Head(queue) /\ queue' = Tail(queue)
  /\ UNCHANGED <<lifetime, sampling, cachedCount, callers, nextItem, uploaded, cached, givenUp>>

\* The item in hand is left when the module was stopped meanwhile.
WorkerCheck ==
  /\ IF status = "RUNNING"
     THEN WorkerStep("check", "publish") /\ UNCHANGED <<item, givenUp>>
     ELSE /\ WorkerStep("check", "off")
          /\ item' = None /\ givenUp' = givenUp \cup {item}
  /\ UNCHANGED <<lifetime, queue, sampling, cachedCount, callers, nextItem, uploaded, cached>>

\* cloud_provider_publish_all: at least one provider took it, or none did.
WorkerPublish ==
  /\ \/ /\ WorkerStep("publish", "top")
        /\ uploaded' = uploaded \cup {item} /\ item' = None
     \/ WorkerStep("publish", "store") /\ UNCHANGED <<item, uploaded>>
  /\ UNCHANGED <<lifetime, queue, sampling, cachedCount, callers, nextItem, cached, givenUp>>

WorkerStore ==
  /\ WorkerStep("store", "top")
  /\ HandleOffline(item) /\ item' = None
  /\ UNCHANGED <<lifetime, queue, sampling, callers, nextItem, uploaded>>

-----------------------------------------------------------------------------
(* start, stop and shutdown                                                *)

data == <<sampling, cachedCount, callers, nextItem, uploaded, cached>>

StartRegister ==
  /\ life = "idle" /\ status \in {"INITIALIZED", "STOPPED"}
  /\ consumer' = TRUE /\ life' = "run"
  /\ UNCHANGED <<status, closing, stopped, onTheWay, queue, data, worker, givenUp>>

StartRun ==
  /\ life = "run" /\ life' = "spawn"
  /\ status' = "RUNNING" /\ elapsed' = FALSE
  /\ UNCHANGED <<consumer, closing, stopped, onTheWay, queue, last, pending,
                 cachedCount, callers, nextItem, uploaded, cached, worker, givenUp>>

StartSpawn ==
  /\ life = "spawn" /\ life' = "idle"
  /\ w' = "top"
  /\ UNCHANGED <<status, consumer, closing, stopped, onTheWay, queue, data, item, givenUp>>

StopUnregister ==
  /\ life = "idle" /\ status = "RUNNING"
  /\ consumer' = FALSE /\ life' = "flag"
  /\ closing' \in BOOLEAN
  /\ UNCHANGED <<status, stopped, onTheWay, queue, data, worker, givenUp>>

StopFlag ==
  /\ life = "flag" /\ life' = "join"
  /\ status' = "STOPPED"
  /\ UNCHANGED <<consumer, closing, stopped, onTheWay, queue, data, worker, givenUp>>

\* Mutant: stop does not wait for the worker.
StopUnjoined ==
  /\ life = "join" /\ life' = "purge"
  /\ UNCHANGED <<status, consumer, closing, stopped, onTheWay, queue, data, worker, givenUp>>

StopJoin ==
  /\ life = "join" /\ w = "off" /\ life' = "purge"
  /\ UNCHANGED <<status, consumer, closing, stopped, onTheWay, queue, data, worker, givenUp>>

Queued == {queue[i] : i \in DOMAIN queue}
InHands == {held[c] : c \in Callers} \ {None}

\* Mutant: the queue is kept for the next start.
StopUnpurged ==
  /\ life = "purge" /\ life' = IF closing THEN "close" ELSE "idle"
  /\ stopped' = nextItem - 1
  /\ onTheWay' = InHands \cup Superseded
  /\ UNCHANGED <<status, consumer, closing, queue, data, worker, givenUp>>

StopPurge ==
  /\ life = "purge" /\ life' = IF closing THEN "close" ELSE "idle"
  /\ queue' = <<>> /\ givenUp' = givenUp \cup Queued
  /\ stopped' = nextItem - 1
  /\ onTheWay' = InHands \cup Superseded
  /\ UNCHANGED <<status, consumer, closing, data, worker>>

\* shutdown, after the stop it begins with or when there is nothing to stop.
ShutdownDone ==
  /\ life = "close" \/ (life = "idle" /\ status # "RUNNING")
  /\ life' = "idle" /\ closing' = FALSE
  /\ status' = "UNINITIALIZED"
  /\ UNCHANGED <<consumer, stopped, onTheWay, queue, data, worker, givenUp>>

-----------------------------------------------------------------------------
Caller(c) == Enqueue(c) \/ QueueFull(c) \/ Fallback(c)
Worker ==
  \/ WorkerTop \/ WorkerTimeout \/ WorkerGet \/ WorkerCheck \/ WorkerPublish \/ WorkerStore
Lifecycle ==
  \/ StartRegister \/ StartRun \/ StartSpawn
  \/ StopUnregister \/ StopFlag \/ StopJoin \/ StopPurge \/ ShutdownDone

Next ==
  \/ SensorDispatch \/ SensorCheck \/ Sample \/ IntervalElapses
  \/ Anomaly \/ Replay \/ ForceUpload
  \/ \E c \in Callers : Caller(c)
  \/ Worker \/ Lifecycle

Spec == Init /\ [][Next]_vars

\* Callers and the worker are never blocked for good (k_msgq_get and the
\* providers' publish return), and start, stop and shutdown go on once called.
Fairness ==
  /\ WF_vars(SensorCheck) /\ WF_vars(Sample) /\ WF_vars(Worker)
  /\ \A c \in Callers : WF_vars(Caller(c))
  /\ WF_vars(StartRun) /\ WF_vars(StartSpawn) /\ WF_vars(StopFlag)
  /\ WF_vars(StopJoin) /\ WF_vars(StopPurge) /\ WF_vars(life = "close" /\ ShutdownDone)

FairSpec == Spec /\ Fairness

-----------------------------------------------------------------------------
(* Properties                                                              *)

\* The queue, the sampling state, the counter and the items in hand.
DataOK ==
  /\ queue \in Seq(Items) /\ Len(queue) <= Depth
  /\ last \in Items \cup {None} /\ pending \in BOOLEAN /\ elapsed \in BOOLEAN
  /\ cachedCount \in 0 .. MaxItems
  /\ held \in [Callers -> Items \cup {None}]
  /\ item \in Items \cup {None}
  /\ nextItem \in 1 .. MaxItems + 1
  /\ uploaded \subseteq Items /\ cached \subseteq Items /\ givenUp \subseteq Items
  /\ stopped \in 0 .. MaxItems /\ onTheWay \subseteq Items

\* Where each thread is.
ControlOK ==
  /\ status \in {"UNINITIALIZED", "INITIALIZED", "RUNNING", "STOPPED"}
  /\ consumer \in BOOLEAN /\ closing \in BOOLEAN
  /\ at \in [Callers -> {"idle", "check", "sample", "put", "fallback"}]
  /\ w \in {"off", "top", "get", "check", "publish", "store"}
  /\ life \in {"idle", "run", "spawn", "flag", "join", "purge", "close"}

\* The types of every variable.  That cached_count never wraps below zero is
\* part of it: more entries may be replayed than were cached since the reboot.
TypeOK == DataOK /\ ControlOK

\* Every sample and anomaly is in exactly one place, in the hands of one thread
\* or finished in one way: none is uploaded twice, none both uploaded and
\* cached, and none is lost but by a stop, a newer sample or a refusing bus.
Places(i) ==
  Cardinality({c \in Callers : held[c] = i})
  + Cardinality({n \in DOMAIN queue : queue[n] = i})
  + (IF item = i THEN 1 ELSE 0) + (IF pending /\ last = i THEN 1 ELSE 0)
  + (IF i \in uploaded THEN 1 ELSE 0) + (IF i \in cached THEN 1 ELSE 0)
  + (IF i \in givenUp THEN 1 ELSE 0)
HandledOnce == \A i \in 1 .. nextItem - 1 : Places(i) = 1

\* The worker's k_thread is never created while its last thread still runs.
OneWorker == life \in {"run", "spawn"} => w = "off"

\* stop purges the queue so that the next start meets no stale data: what is
\* queued from before a stop was still in a caller's hands when stop returned,
\* or is the pending sample a later FORCE asked for.
NoStaleData == Queued \cap 1 .. stopped \subseteq onTheWay

\* stop and shutdown return: the worker leaves its loop whatever it was doing.
StopReturns == life = "flag" ~> life = "idle"

\* While the module stays running, everything queued or in hand is settled.
Settles ==
  <>[](status = "RUNNING" /\ life = "idle") => <>[](queue = <<>> /\ item = None /\ InHands = {})

=============================================================================
