------------------------------ MODULE Gateway ------------------------------
(***************************************************************************)
(* The way of a reading through the gateway: cloud_upload, offline_cache,  *)
(* the MQTT session and the event bus between them, joined by the          *)
(* subscriptions of gateway_init.c.  Each component is as coarse as the    *)
(* others can tell: the cache is the FIFO of StoreForward with its work    *)
(* item, the session what ProtocolMqtt announces, the uploader its queue   *)
(* and its worker.  The bus (external) keeps the events of one priority in *)
(* order and hands out a HIGH event before any NORMAL one.                 *)
(***************************************************************************)
EXTENDS Naturals, Sequences, FiniteSets

CONSTANTS
  Depth,     \* CLOUD_UPLOAD_QUEUE_DEPTH
  Capacity,  \* CACHE_MAX_ENTRIES
  Batch,     \* CACHE_REPLAY_BATCH_LIMIT
  BusSize,   \* events of one priority the bus holds
  MaxItems,  \* bound: readings that arrive
  Faults     \* what may fail: "bus" refuses an event, "send" a reading, "flash" a write

ASSUME GatewayAssumption ==
  /\ {Depth, Capacity, Batch, BusSize} \subseteq Nat \ {0}
  /\ MaxItems \in Nat
  /\ Faults \subseteq {"bus", "send", "flash"}

VARIABLES
  session,   \* protocol_mqtt_is_connected()
  say,       \* whether the change of the session is still to be announced
  high,      \* HIGH events waiting: TRUE for CLOUD_CONNECTED, FALSE for the other
  normal,    \* NORMAL events waiting: CLOUD_UPLOAD and CLOUD_REPLAY
  link,      \* net_connected of the cache
  running,   \* whether the status of the cache is RUNNING
  armed,     \* upload_work is submitted
  batch,     \* upload_work is in a batch, with the mutex of the cache
  sent,      \* how many entries its batch has published
  ring,      \* the entries cached, oldest first
  queue,     \* upload_msgq
  worker,    \* the upload thread: its step and its item
  made,      \* how many readings have arrived; a reading is its number
  delivered, \* history: readings a provider took
  dropped,   \* history: the readings given up, by reason
  blind      \* history: the cache was not told of the session there is

uplink == <<session, say, high, blind>>
cache  == <<link, running, armed, batch, sent, ring>>
upload == <<queue, worker, made>>
fate   == <<delivered, dropped>>
vars   == <<uplink, normal, cache, upload, fate>>

Reasons == {"refused", "connected", "stopped", "flash", "overwritten", "replay"}
Idle == [at |-> "idle", item |-> 0]

Init ==
  /\ session = FALSE /\ say = FALSE /\ high = <<>> /\ blind = FALSE
  /\ normal = <<>>
  /\ link = FALSE /\ running = TRUE /\ armed = FALSE /\ ring = <<>>
  /\ batch = FALSE /\ sent = 0
  /\ queue = <<>> /\ worker = Idle /\ made = 0
  /\ delivered = {} /\ dropped = [r \in Reasons |-> {}]

Lose(reason, items) == dropped' = [dropped EXCEPT ![reason] = @ \cup items]

\* event_publish_copy: a bus with room takes an event, unless it fails; a full
\* one refuses it.
Room(q) == Len(q) < BusSize
MayRefuse(q) == "bus" \in Faults \/ ~Room(q)

Event(kind, item) == [kind |-> kind, item |-> item]
Publish(kind, item) == Room(normal) /\ normal' = Append(normal, Event(kind, item))

-----------------------------------------------------------------------------
(* The MQTT session.  Its state changes before the change is announced,    *)
(* and a publisher looks at the state alone.                               *)

\* An attempt that fails before there is a session is announced like its end.
SessionChanges ==
  /\ ~say /\ say' = TRUE
  /\ session' \in {~session, FALSE}
  /\ UNCHANGED <<high, blind, normal, cache, upload, fate>>

\* The result of event_publish_copy is ignored.
Announce ==
  /\ say /\ say' = FALSE
  /\ \/ /\ Room(high)
        /\ high' = Append(high, session) /\ blind' = FALSE
     \/ /\ MayRefuse(high)
        /\ blind' = TRUE /\ UNCHANGED high
  /\ UNCHANGED <<session, normal, cache, upload, fate>>

-----------------------------------------------------------------------------
(* cloud_upload                                                            *)

\* A CLOUD_UPLOAD event for an item that was not sent.
FallBack(item) ==
  \/ Publish("upload", item) /\ UNCHANGED dropped
  \/ MayRefuse(normal) /\ Lose("refused", {item}) /\ UNCHANGED normal

\* cloud_enqueue_or_fallback, from a callback
Arrive ==
  /\ made < MaxItems /\ made' = made + 1
  /\ IF Len(queue) < Depth
     THEN queue' = Append(queue, made') /\ UNCHANGED <<normal, dropped>>
     ELSE FallBack(made') /\ UNCHANGED queue
  /\ UNCHANGED <<uplink, cache, worker, delivered>>

WorkerTake ==
  /\ worker.at = "idle" /\ queue # <<>>
  /\ worker' = [at |-> "send", item |-> Head(queue)]
  /\ queue' = Tail(queue)
  /\ UNCHANGED <<uplink, normal, cache, made, fate>>

\* cloud_provider_publish_all: some provider takes the item, or none does.
WorkerSend ==
  /\ worker.at = "send"
  /\ \/ /\ session
        /\ delivered' = delivered \cup {worker.item} /\ worker' = Idle
     \/ /\ ~session \/ "send" \in Faults
        /\ worker' = [worker EXCEPT !.at = "fallback"]
        /\ UNCHANGED delivered
  /\ UNCHANGED <<uplink, normal, cache, queue, made, dropped>>

WorkerFallBack ==
  /\ worker.at = "fallback" /\ worker' = Idle
  /\ FallBack(worker.item)
  /\ UNCHANGED <<uplink, cache, queue, made, delivered>>

-----------------------------------------------------------------------------
(* The event dispatcher                                                    *)

\* Mutant: a bus that hands out NORMAL events whatever waits before them.
ServeAny(kind) == normal # <<>> /\ Head(normal).kind = kind

Serve(kind) == high = <<>> /\ normal # <<>> /\ Head(normal).kind = kind

\* Mutant: the edge does not submit the work item.
OnLinkForgets ==
  /\ high # <<>> /\ high' = Tail(high)
  /\ IF running THEN link' = Head(high) ELSE UNCHANGED link
  /\ UNCHANGED <<session, say, blind, normal, running, armed, batch, sent, ring, upload, fate>>

\* cache_on_net_state
OnLink ==
  /\ high # <<>> /\ high' = Tail(high)
  /\ IF running
     THEN link' = Head(high) /\ armed' = (armed \/ (Head(high) /\ ~link))
     ELSE UNCHANGED <<link, armed>>
  /\ UNCHANGED <<session, say, blind, normal, running, batch, sent, ring, upload, fate>>

\* The oldest entry goes when the ring is full.
Overwritten == IF Len(ring) = Capacity THEN {Head(ring)} ELSE {}

Pushed(item) == Append(IF Len(ring) = Capacity THEN Tail(ring) ELSE ring, item)

\* offline_cache_on_event, cache_on_cloud_upload.  The handler waits for the
\* mutex while the work item is in a batch.
OnUpload ==
  /\ Serve("upload") /\ normal' = Tail(normal)
  /\ LET item == Head(normal).item
     IN  \/ ~running /\ Lose("stopped", {item}) /\ UNCHANGED ring
         \/ running /\ link /\ Lose("connected", {item}) /\ UNCHANGED ring
         \/ /\ running /\ ~link /\ ~batch
            /\ ring' = Pushed(item) /\ Lose("overwritten", Overwritten)
         \/ /\ running /\ ~link /\ ~batch /\ "flash" \in Faults
            /\ Lose("flash", {item}) /\ UNCHANGED ring
  /\ UNCHANGED <<uplink, link, running, armed, batch, sent, upload, delivered>>

\* cloud_upload_on_event: a replayed reading is sent at once, or given up.
OnReplay ==
  /\ Serve("replay") /\ normal' = Tail(normal)
  /\ LET item == Head(normal).item
     IN  \/ session /\ delivered' = delivered \cup {item} /\ UNCHANGED dropped
         \/ /\ ~session \/ "send" \in Faults
            /\ Lose("replay", {item}) /\ UNCHANGED delivered
  /\ UNCHANGED <<uplink, cache, upload>>

-----------------------------------------------------------------------------
(* The work item of the cache.  It holds the mutex of the cache from       *)
(* WorkBegin to WorkEnd, and looks at the link only before and after.      *)

WorkBegin ==
  /\ armed /\ ~batch /\ armed' = FALSE
  /\ batch' = (running /\ link)
  /\ UNCHANGED <<uplink, normal, link, running, sent, ring, upload, fate>>

InBatch == batch /\ ring # <<>> /\ sent < Batch

\* Mutant: an entry published is not committed.
WorkPublishKeeps ==
  /\ InBatch
  /\ Publish("replay", Head(ring))
  /\ sent' = sent + 1
  /\ UNCHANGED <<uplink, link, running, armed, batch, ring, upload, fate>>

\* An entry leaves the ring once the bus has taken it.
WorkPublish ==
  /\ InBatch
  /\ Publish("replay", Head(ring))
  /\ ring' = Tail(ring) /\ sent' = sent + 1
  /\ UNCHANGED <<uplink, link, running, armed, batch, upload, fate>>

\* The batch ends at its limit, with the last entry, or when the bus refuses
\* one; the work item submits itself again while there is more to do.
WorkEnd ==
  /\ batch /\ batch' = FALSE /\ sent' = 0
  /\ InBatch => MayRefuse(normal)
  /\ armed' = (armed \/ (ring # <<>> /\ link))
  /\ UNCHANGED <<uplink, normal, link, running, ring, upload, fate>>

-----------------------------------------------------------------------------
(* The module manager stops and starts the cache                           *)

\* k_work_cancel_delayable_sync waits for a batch in progress.
CacheStop ==
  /\ running /\ ~batch
  /\ running' = FALSE /\ armed' = FALSE
  /\ UNCHANGED <<uplink, normal, link, batch, sent, ring, upload, fate>>

\* Mutant: start keeps net_connected.
CacheStartKeeps ==
  /\ ~running /\ running' = TRUE
  /\ blind' = IF high = <<>> THEN session /\ ~say ELSE blind
  /\ UNCHANGED <<session, say, high, normal, link, armed, batch, sent, ring, upload, fate>>

\* net_connected is reset: the cache is blind to a session that is up and has
\* no event on the way.
CacheStart ==
  /\ ~running /\ running' = TRUE
  /\ link' = FALSE
  /\ blind' = IF high = <<>> THEN session /\ ~say ELSE blind
  /\ UNCHANGED <<session, say, high, normal, armed, batch, sent, ring, upload, fate>>

-----------------------------------------------------------------------------
Worker == WorkerTake \/ WorkerSend \/ WorkerFallBack
Dispatcher == OnLink \/ OnUpload \/ OnReplay
Work == WorkBegin \/ WorkPublish \/ WorkEnd

Next ==
  \/ SessionChanges \/ Announce
  \/ Arrive \/ Worker
  \/ Dispatcher
  \/ Work
  \/ CacheStop \/ CacheStart

Spec == Init /\ [][Next]_vars

\* The threads go on: the MQTT worker announces what it has changed, the upload
\* worker, the dispatcher and the work queue run, and a bus that is tried again
\* and again takes an event at last.
FairSpec ==
  /\ Spec
  /\ WF_vars(Announce) /\ WF_vars(Worker) /\ WF_vars(Dispatcher)
  /\ WF_vars(Work) /\ SF_vars(WorkPublish)

-----------------------------------------------------------------------------
(* Properties                                                              *)

Items == 1 .. MaxItems
ItemsOf(q) == {q[i] : i \in DOMAIN q}
OnBus == {e.item : e \in ItemsOf(normal)}

\* Every variable has its type.
TypeOK ==
  /\ {session, say, link, running, armed, batch, blind} \subseteq BOOLEAN
  /\ high \in Seq(BOOLEAN) /\ Len(high) <= BusSize
  /\ normal \in Seq([kind : {"upload", "replay"}, item : Items]) /\ Len(normal) <= BusSize
  /\ sent \in IF batch THEN 0 .. Batch ELSE {0}
  /\ ring \in Seq(Items) /\ Len(ring) <= Capacity
  /\ queue \in Seq(Items) /\ Len(queue) <= Depth
  /\ worker = Idle \/ worker \in [at : {"send", "fallback"}, item : Items]
  /\ made \in 0 .. MaxItems
  /\ delivered \subseteq Items
  /\ dropped \in [Reasons -> SUBSET Items]

\* How often an item is somewhere in the gateway.
Copies(i) ==
  Cardinality({n \in DOMAIN queue : queue[n] = i})
  + Cardinality({n \in DOMAIN normal : normal[n].item = i})
  + Cardinality({n \in DOMAIN ring : ring[n] = i})
  + (IF worker.item = i THEN 1 ELSE 0)

Ended(i) == i \in delivered \/ \E r \in Reasons : i \in dropped[r]

\* A reading is in exactly one place at any time: it is never both on its way
\* and sent or given up, never kept twice, and none disappears without one of
\* the reasons the code knows.  (commit after the bus has taken the event;
\* CLOUD_UPLOAD and CLOUD_REPLAY kept apart so that no replay is cached again)
Conserved ==
  \A i \in 1 .. made :
    Copies(i) + Cardinality({r \in Reasons : i \in dropped[r]})
      + (IF i \in delivered THEN 1 ELSE 0) = 1

\* A running cache that has handled every event of the link believes in the
\* session there is, unless an announcement was refused or it was started in
\* the middle of a session.  (offline_cache.c cache_on_net_state, start)
LinkTruth == running /\ ~say /\ high = <<>> /\ ~blind => link = session

\* In an outage that was announced no reading is dropped because the cache
\* thinks the session is up, though the event that says otherwise may still be
\* on the bus: it is handled first.  (cache_on_cloud_upload; HIGH priority of
\* CLOUD_DISCONNECTED, NORMAL of CLOUD_UPLOAD)
StoredWhenDown ==
  [][~session /\ ~say /\ ~blind
       => dropped'["connected"] = dropped["connected"]]_vars

\* Once the session stays up, with the cache running and told of it, every
\* reading ends: nothing stays in a queue, on the bus or in the ring.
BacklogEnds ==
  <>[](session /\ ~say /\ running /\ ~blind) => <>[](\A i \in 1 .. made : Ended(i))

=============================================================================
