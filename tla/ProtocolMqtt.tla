---------------------------- MODULE ProtocolMqtt ----------------------------
(***************************************************************************)
(* The MQTT client module (src/gateway/protocol_mqtt.c).  One worker       *)
(* thread drives the connection; other threads publish on it, change its   *)
(* parameters, deliver NET_UP/NET_DOWN and start or stop the module.       *)
(*                                                                         *)
(* client_mutex is meant to guard the mqtt_client; status, state, net_up   *)
(* and pending_disconnect are read and written without it.  The Zephyr     *)
(* MQTT library and the broker are the environment: what mqtt_connect,     *)
(* mqtt_input, mqtt_live and mqtt_publish report is chosen freely, and any *)
(* of the last three may close the connection and say so to the module's   *)
(* mqtt_evt_handler on the thread that called it.                          *)
(***************************************************************************)
EXTENDS Naturals

CONSTANTS
  Fields,      \* connection parameters: broker, client id, auth, TLS
  Publishers,  \* threads that call protocol_mqtt_publish
  MinDelay,    \* RECONNECT_MIN_MS
  MaxDelay,    \* RECONNECT_MAX_MS
  MaxVersion,  \* bound: changes of one connection parameter
  BusRefuses   \* whether event_publish_copy may fail

ASSUME MqttAssumption ==
  /\ MinDelay \in Nat \ {0}
  /\ MaxDelay \in Nat /\ MinDelay <= MaxDelay
  /\ MaxVersion \in Nat
  /\ BusRefuses \in BOOLEAN
  /\ {"free", "worker"} \cap Publishers = {}

VARIABLES
  status,     \* module status
  state,      \* mqtt_state_t
  netUp,      \* net_up
  pending,    \* pending_disconnect
  delay,      \* reconnect_delay_ms
  due,        \* reconnect_delay_ms have passed since last_connect_attempt
  cfg,        \* broker_addr, client_id, mqtt_username...: version of each
  conn,       \* conn_*: the versions the last connection attempt used
  mutex,      \* the publisher holding client_mutex over a step, "worker" or "free"
  w,          \* the worker thread
  pub,        \* the publishers
  setter,     \* the thread inside protocol_mqtt_set_*
  life,       \* the thread inside start or stop
  seen,       \* what network_is_up() told protocol_mqtt_start
  announced,  \* history: the last CLOUD_CONNECTED/DISCONNECTED the bus took
  ends        \* history: CLOUD_DISCONNECTED made since the last mqtt_connect

history    == <<announced, ends>>
connection == <<state, delay, due, conn, history>>
threads    == <<w, pub, setter, life, seen>>
vars == <<status, state, netUp, pending, delay, due, cfg, conn, mutex, w, pub,
          setter, life, seen, history>>

Online == state \in {"CONNECTED", "SUBSCRIBED"}

Init ==
  /\ status = "INITIALIZED" /\ state = "DISCONNECTED"
  /\ netUp = FALSE /\ pending = FALSE
  /\ delay = MinDelay /\ due \in BOOLEAN
  /\ cfg = [f \in Fields |-> 0] /\ conn = [f \in Fields |-> 0]
  /\ mutex = "free" /\ w = "off" /\ pub = [p \in Publishers |-> "idle"]
  /\ setter = "idle" /\ life = "idle" /\ seen = FALSE
  /\ announced = FALSE /\ ends = 1

\* mqtt_publish_state_event: the result of event_publish_copy is ignored.
Announce(up) ==
  announced' \in {up} \cup (IF BusRefuses THEN {announced} ELSE {})

-----------------------------------------------------------------------------
(* mqtt_worker_thread                                                      *)

WorkerStep(from, to) == w = from /\ w' = to

\* Mutant: pending_disconnect is tested and not cleared.
TopKeepsPending ==
  /\ \/ status # "RUNNING" /\ WorkerStep("top", "exit")
     \/ status = "RUNNING" /\ pending /\ WorkerStep("top", "dropPending")
     \/ status = "RUNNING" /\ ~pending /\ WorkerStep("top", "net")
  /\ UNCHANGED <<status, netUp, pending, cfg, mutex, connection, pub, setter, life, seen>>

Top ==
  /\ \/ status # "RUNNING" /\ WorkerStep("top", "exit") /\ UNCHANGED pending
     \/ status = "RUNNING" /\ pending /\ WorkerStep("top", "dropPending") /\ pending' = FALSE
     \/ status = "RUNNING" /\ ~pending /\ WorkerStep("top", "net") /\ UNCHANGED pending
  /\ UNCHANGED <<status, netUp, cfg, mutex, connection, pub, setter, life, seen>>

\* mqtt_do_disconnect, from the four places that call it.  When the library has
\* a connection, mqtt_disconnect says so to mqtt_evt_handler before it returns,
\* and the end of the session is announced there and then here again.
Disconnect(from, to) ==
  /\ WorkerStep(from, to)
  /\ mutex = "free"
  /\ IF state = "DISCONNECTED"
     THEN UNCHANGED connection
     ELSE /\ state' = "DISCONNECTED"
          /\ Announce(FALSE)
          /\ ends' \in {1, IF Online THEN 2 ELSE 1}
          /\ UNCHANGED <<delay, due, conn>>
  /\ UNCHANGED <<status, netUp, pending, cfg, mutex, pub, setter, life, seen>>

DropPending == Disconnect("dropPending", "net")
DropNet     == Disconnect("dropNet", "top")
DropError   == Disconnect("dropError", "top")
\* Mutant: the worker leaves without mqtt_do_disconnect.
ExitConnected ==
  /\ WorkerStep("exit", "off")
  /\ UNCHANGED <<status, netUp, pending, cfg, mutex, connection, pub, setter, life, seen>>

Exit == Disconnect("exit", "off")

\* Mutant: the worker waits for the network without looking at the status again.
CheckNetWaits ==
  /\ \/ netUp /\ WorkerStep("net", "fsm")
     \/ ~netUp /\ state # "DISCONNECTED" /\ WorkerStep("net", "dropNet")
     \/ ~netUp /\ state = "DISCONNECTED" /\ WorkerStep("net", "net")
  /\ UNCHANGED <<status, netUp, pending, cfg, mutex, connection, pub, setter, life, seen>>

CheckNet ==
  /\ \/ netUp /\ WorkerStep("net", "fsm")
     \/ ~netUp /\ state # "DISCONNECTED" /\ WorkerStep("net", "dropNet")
     \/ ~netUp /\ state = "DISCONNECTED" /\ WorkerStep("net", "top")
  /\ UNCHANGED <<status, netUp, pending, cfg, mutex, connection, pub, setter, life, seen>>

\* The switch on the state: wait, start an attempt, or poll the connection.
Dispatch ==
  /\ \/ state = "DISCONNECTED" /\ due /\ WorkerStep("fsm", "setup") /\ due' = FALSE
     \/ state = "DISCONNECTED" /\ ~due /\ WorkerStep("fsm", "top") /\ UNCHANGED due
     \/ state # "DISCONNECTED" /\ WorkerStep("fsm", "input") /\ UNCHANGED due
  /\ UNCHANGED <<status, state, netUp, pending, delay, cfg, conn, mutex, pub,
                 setter, life, seen, history>>

\* mqtt_do_connect: at "setup" it clears the client without the mutex, then
\* copies the parameters under it, then ("prepare") resolves the broker and
\* fills the client in without the mutex, and calls mqtt_connect under it.
Snapshot ==
  /\ WorkerStep("setup", "prepare")
  /\ mutex = "free"
  /\ conn' = cfg
  /\ UNCHANGED <<status, state, netUp, pending, delay, due, cfg, mutex, pub,
                 setter, life, seen, history>>

\* Mutant: the client is filled in from what the setters have written since.
PrepareRereads ==
  /\ WorkerStep("prepare", "connect")
  /\ conn' = cfg
  /\ UNCHANGED <<status, state, netUp, pending, delay, due, cfg, mutex, pub, setter, life,
                 seen, history>>

Prepare ==
  /\ WorkerStep("prepare", "connect")
  /\ UNCHANGED <<status, netUp, pending, cfg, mutex, connection, pub, setter, life, seen>>

\* Mutant: the delay has no cap.
BackOffUncapped == 2 * delay

\* Name resolution or mqtt_connect fails: exponential back-off.
BackOff == IF 2 * delay > MaxDelay THEN MaxDelay ELSE 2 * delay

ConnectFails ==
  /\ WorkerStep("prepare", "top") \/ (mutex = "free" /\ WorkerStep("connect", "top"))
  /\ delay' = BackOff
  /\ UNCHANGED <<status, state, netUp, pending, due, cfg, conn, mutex, pub,
                 setter, life, seen, history>>

\* Mutant: mqtt_connect takes the place of the reconnection that was asked for.
ConnectClearsPending ==
  /\ WorkerStep("connect", "top")
  /\ mutex = "free"
  /\ state' = "CONNECTING" /\ ends' = 0 /\ pending' = FALSE
  /\ UNCHANGED <<status, netUp, delay, due, cfg, conn, mutex, pub,
                 setter, life, seen, announced>>

\* Mutant: the delay starts again once TCP is up, before the broker answered.
ConnectResetsDelay ==
  /\ WorkerStep("connect", "top")
  /\ mutex = "free"
  /\ state' = "CONNECTING" /\ ends' = 0 /\ delay' = MinDelay
  /\ UNCHANGED <<status, netUp, pending, due, cfg, conn, mutex, pub,
                 setter, life, seen, announced>>

Connect ==
  /\ WorkerStep("connect", "top")
  /\ mutex = "free"
  /\ state' = "CONNECTING" /\ ends' = 0
  /\ UNCHANGED <<status, netUp, pending, delay, due, cfg, conn, mutex, pub,
                 setter, life, seen, announced>>

-----------------------------------------------------------------------------
(* mqtt_evt_handler, called by the library inside mqtt_input, mqtt_live,   *)
(* mqtt_publish and mqtt_disconnect                                        *)

Quiet == UNCHANGED <<state, delay, pending, announced, ends>>

\* MQTT_EVT_DISCONNECT, when the state is not that already.
Closed == state' = "DISCONNECTED" /\ Announce(FALSE) /\ ends' = 1

\* CONNACK accepted.  The subscription that follows may fail, by itself or
\* because its write closes the connection.
Accepted ==
  /\ state = "CONNECTING"
  /\ delay' = MinDelay
  /\ \/ /\ state' = "CONNECTED"
        /\ Announce(TRUE)
        /\ pending' \in {pending, TRUE}
        /\ UNCHANGED ends
     \/ /\ state' = "DISCONNECTED" /\ ends' = 1
        /\ announced' \in IF BusRefuses THEN BOOLEAN ELSE {FALSE}
        /\ pending' = TRUE

\* CONNACK with an error code, after which the library may close the connection.
Refused ==
  /\ state = "CONNECTING"
  /\ pending' = TRUE
  /\ Closed \/ UNCHANGED <<state, announced, ends>>
  /\ UNCHANGED delay

\* Mutant: the end of the session is not announced.
LostSilently ==
  /\ state # "DISCONNECTED"
  /\ state' = "DISCONNECTED"
  /\ UNCHANGED <<history, delay, pending>>

\* The library closes the connection: the peer did, or a read or a write failed.
Lost ==
  /\ state # "DISCONNECTED"
  /\ Closed
  /\ UNCHANGED <<delay, pending>>

Subscribed ==
  /\ state = "CONNECTED"
  /\ state' = "SUBSCRIBED"
  /\ UNCHANGED <<delay, pending, history>>

\* mqtt_input, then mqtt_live, each under the mutex.
Input ==
  /\ mutex = "free"
  /\ Quiet \/ Accepted \/ Refused \/ Lost \/ Subscribed
  /\ WorkerStep("input", "live") \/ WorkerStep("input", "dropError")
  /\ UNCHANGED <<status, netUp, due, cfg, conn, mutex, pub, setter, life, seen>>

\* MQTT_EVT_PUBLISH: the handler reads the payload inside mqtt_input, with the
\* mutex, in blocking reads that have no time limit ...
PayloadBegins ==
  /\ WorkerStep("input", "payload")
  /\ state # "DISCONNECTED"
  /\ mutex = "free" /\ mutex' = "worker"
  /\ UNCHANGED <<status, netUp, pending, cfg, connection, pub, setter, life, seen>>

\* ... and mqtt_input returns when it has the last byte, or the connection ended.
PayloadRead ==
  /\ WorkerStep("payload", "live") \/ WorkerStep("payload", "dropError")
  /\ Quiet \/ Lost
  /\ mutex' = "free"
  /\ UNCHANGED <<status, netUp, due, cfg, conn, pub, setter, life, seen>>

Live ==
  /\ mutex = "free"
  /\ Quiet \/ Lost
  /\ WorkerStep("live", "top") \/ WorkerStep("live", "dropError")
  /\ UNCHANGED <<status, netUp, due, cfg, conn, mutex, pub, setter, life, seen>>

\* The clock reaches last_connect_attempt + reconnect_delay_ms.
DelayElapses ==
  /\ ~due /\ due' = TRUE
  /\ UNCHANGED <<status, state, netUp, pending, delay, cfg, conn, mutex, threads,
                 history>>

-----------------------------------------------------------------------------
(* protocol_mqtt_publish                                                   *)

PubStep(p, from, to) == pub[p] = from /\ pub' = [pub EXCEPT ![p] = to]

PubCheck(p) ==
  /\ PubStep(p, "idle", "lock")
  /\ status = "RUNNING" /\ Online
  /\ UNCHANGED <<status, netUp, pending, cfg, mutex, connection, w, setter, life, seen>>

PubLock(p) ==
  /\ PubStep(p, "lock", "sending")
  /\ mutex = "free" /\ mutex' = p
  /\ UNCHANGED <<status, netUp, pending, cfg, connection, w, setter, life, seen>>

PubTimeout(p) ==
  /\ PubStep(p, "lock", "idle")
  /\ UNCHANGED <<status, netUp, pending, cfg, mutex, connection, w, setter, life, seen>>

\* The message is written, or refused by a client that is not connected.
PubDone(p) ==
  /\ PubStep(p, "sending", "idle")
  /\ mutex' = "free"
  /\ UNCHANGED <<status, netUp, pending, cfg, connection, w, setter, life, seen>>

\* The write fails: the library closes the connection, and mqtt_evt_handler ends
\* the session on the publisher's thread, wherever the worker is.
PubLost(p) ==
  /\ PubStep(p, "sending", "idle")
  /\ mutex' = "free"
  /\ Online /\ Lost
  /\ UNCHANGED <<status, netUp, due, cfg, conn, w, setter, life, seen>>

-----------------------------------------------------------------------------
(* set_broker, set_client_id, set_auth, set_tls and clear_tls: the new     *)
(* value is written under the mutex, the reconnection requested after it   *)

SetField(f) ==
  /\ setter = "idle" /\ mutex = "free"
  /\ cfg[f] < MaxVersion
  /\ cfg' = [cfg EXCEPT ![f] = @ + 1]
  /\ setter' = "flag"
  /\ UNCHANGED <<status, netUp, pending, mutex, connection, w, pub, life, seen>>

RequestReconnect ==
  /\ setter = "flag" /\ setter' = "idle"
  /\ pending' = TRUE
  /\ UNCHANGED <<status, netUp, cfg, mutex, connection, w, pub, life, seen>>

-----------------------------------------------------------------------------
(* protocol_mqtt_on_event, start, stop and shutdown                        *)

NetEvent(up) ==
  /\ netUp' = up
  /\ UNCHANGED <<status, pending, cfg, mutex, connection, threads>>

Start ==
  /\ life = "idle" /\ status \in {"INITIALIZED", "STOPPED"}
  /\ status' = "RUNNING" /\ life' = "readNet"
  /\ UNCHANGED <<netUp, pending, cfg, mutex, connection, w, pub, setter, seen>>

StartReadNet(up) ==
  /\ life = "readNet" /\ life' = "setNet"
  /\ seen' = up
  /\ UNCHANGED <<status, netUp, pending, cfg, mutex, connection, w, pub, setter>>

StartSetNet ==
  /\ life = "setNet" /\ life' = "spawn"
  /\ netUp' = seen
  /\ UNCHANGED <<status, pending, cfg, mutex, connection, w, pub, setter, seen>>

StartSpawn ==
  /\ life = "spawn" /\ life' = "idle"
  /\ state' = "DISCONNECTED" /\ pending' = FALSE
  /\ w' = "top"
  /\ UNCHANGED <<status, netUp, delay, due, cfg, conn, mutex, pub, setter, seen,
                 history>>

Stop ==
  /\ life = "idle" /\ status = "RUNNING"
  /\ status' = "STOPPED" /\ life' = "flag"
  /\ UNCHANGED <<netUp, pending, cfg, mutex, connection, w, pub, setter, seen>>

StopFlag ==
  /\ life = "flag" /\ life' = "join"
  /\ pending' = TRUE
  /\ UNCHANGED <<status, netUp, cfg, mutex, connection, w, pub, setter, seen>>

StopJoin ==
  /\ life = "join" /\ w = "off" /\ life' = "idle"
  /\ UNCHANGED <<status, netUp, pending, cfg, mutex, connection, w, pub, setter, seen>>

Shutdown ==
  /\ life = "idle" /\ status \in {"INITIALIZED", "STOPPED"}
  /\ status' = "UNINITIALIZED"
  /\ UNCHANGED <<netUp, pending, cfg, mutex, connection, threads>>

-----------------------------------------------------------------------------
Worker ==
  \/ Top \/ DropPending \/ DropNet \/ DropError \/ Exit \/ CheckNet \/ Dispatch
  \/ Snapshot \/ Prepare \/ ConnectFails \/ Connect \/ Input \/ PayloadBegins \/ Live
Publish(p) == PubCheck(p) \/ PubLock(p) \/ PubTimeout(p) \/ PubDone(p) \/ PubLost(p)
Configure == RequestReconnect \/ \E f \in Fields : SetField(f)
Lifecycle ==
  \/ Start \/ StartSetNet \/ StartSpawn \/ Stop \/ StopFlag \/ StopJoin \/ Shutdown
  \/ \E up \in BOOLEAN : StartReadNet(up)

Next ==
  \/ Worker \/ PayloadRead \/ DelayElapses \/ Configure \/ Lifecycle
  \/ \E p \in Publishers : Publish(p)
  \/ \E up \in BOOLEAN : NetEvent(up)

Spec == Init /\ [][Next]_vars

\* No thread stops for good: the worker gets the mutex in the end (its waiters
\* are woken in priority order), and so do the short steps of start, stop, set_*
\* and publish.  A call of the library or of the resolver that has no payload to
\* wait for is taken to return.
Fairness ==
  /\ SF_vars(Worker) /\ WF_vars(DelayElapses) /\ WF_vars(RequestReconnect)
  /\ \A p \in Publishers :
       WF_vars(PubLock(p) \/ PubTimeout(p)) /\ WF_vars(PubDone(p) \/ PubLost(p))
  /\ WF_vars(\E up \in BOOLEAN : StartReadNet(up))
  /\ WF_vars(StartSetNet) /\ WF_vars(StartSpawn) /\ WF_vars(StopFlag) /\ WF_vars(StopJoin)

\* A reachable broker accepts in the end.
FairBroker ==
  SF_vars(Prepare) /\ SF_vars(Connect) /\ SF_vars(Input /\ Accepted /\ state' = "CONNECTED")

\* The broker's side, not the code's: a message that was begun is finished, or its
\* connection ends.  Nothing in the gateway bounds the wait.
NoStall == WF_vars(PayloadRead)

\* A broker that may stop in the middle of a message, and one that does not.
StallSpec == Spec /\ Fairness /\ FairBroker
FairSpec  == StallSpec /\ NoStall

-----------------------------------------------------------------------------
(* Properties                                                              *)

\* The connection and its history: the delay stays within its bounds.
StateOK ==
  /\ state \in {"DISCONNECTED", "CONNECTING", "CONNECTED", "SUBSCRIBED"}
  /\ delay \in MinDelay .. MaxDelay
  /\ due \in BOOLEAN
  /\ cfg \in [Fields -> Nat]
  /\ conn \in [Fields -> Nat]
  /\ announced \in BOOLEAN
  /\ ends \in 0 .. 2
  /\ seen \in BOOLEAN

\* What the threads share and where each of them is.
ThreadOK ==
  /\ status \in {"UNINITIALIZED", "INITIALIZED", "RUNNING", "STOPPED"}
  /\ netUp \in BOOLEAN
  /\ pending \in BOOLEAN
  /\ mutex \in Publishers \cup {"free", "worker"}
  /\ w \in {"off", "top", "net", "fsm", "setup", "prepare", "connect", "input",
            "payload", "live", "dropPending", "dropNet", "dropError", "exit"}
  /\ pub \in [Publishers -> {"idle", "lock", "sending"}]
  /\ setter \in {"idle", "flag"}
  /\ life \in {"idle", "readNet", "setNet", "spawn", "flag", "join"}

\* Every variable has its type.
TypeOK == StateOK /\ ThreadOK

\* A connection, or an attempt at one, that uses parameters changed since is
\* about to be dropped: the request is pending, or the setter is about to make
\* it, or the worker has just consumed it and is dropping the connection.
Attempting == state # "DISCONNECTED" \/ w \in {"prepare", "connect"}
StaleConnectionDropped ==
  Attempting /\ conn # cfg => pending \/ setter = "flag" \/ w = "dropPending"

\* protocol_mqtt_stop leaves nothing behind: the worker has gone, the session is
\* closed and its end was announced.
StoppedClean ==
  status \in {"STOPPED", "UNINITIALIZED"} /\ life = "idle"
    => /\ w = "off" /\ state = "DISCONNECTED"
       /\ ~BusRefuses => ~announced

\* On every path, and on whatever thread the session ends, the last link event on
\* the bus tells what the session is; and the end of a session, or of an attempt
\* that connected, is announced, at most twice (mqtt_disconnect calls the handler,
\* and mqtt_do_disconnect announces after it), and never while it goes on.
AnnouncedTruly ==
  /\ ~BusRefuses => (announced <=> Online)
  /\ state = "DISCONNECTED" <=> ends \in {1, 2}

\* A delay shrinks only in the mqtt_input of a client that waits for its CONNACK.
DelayResetByConnack == [][delay' < delay => state = "CONNECTING" /\ w = "input"]_vars

\* stop returns, as long as the broker finishes the messages it begins (NoStall):
\* k_thread_join is not waiting for a worker that cannot leave.
StopTerminates == life = "flag" ~> life = "idle"

\* While the module runs and the network stays up, the session is always
\* established again, and with the parameters last set, whatever refused, failed
\* or dropped it and whenever they were changed.
Reconnects == <>[](status = "RUNNING" /\ netUp) => []<>(Online /\ conn = cfg)

-----------------------------------------------------------------------------
(* What the module is to the others                                        *)

SessionWorkerAt ==
  CASE w \in {"off", "top", "exit"}   -> w
    [] w = "dropPending"             -> "drop"
    [] w \in {"prepare", "connect"}  -> "attempt"
    [] OTHER                         -> "act"

SessionOf ==
  IF Online THEN "up" ELSE IF state = "CONNECTING" THEN "trying" ELSE "down"

Session ==
  INSTANCE MqttSession WITH Values <- Nat, w <- SessionWorkerAt, session <- SessionOf

\* The worker connects only with an identity it copied in one piece, while no
\* session was open; a request is cleared only by a worker that goes on to drop
\* the session, or begins without one; and a session begins, ends and is dropped
\* nowhere else.  (CloudProvider is composed with this specification)
ImplementsSession == Session!SessionSpec

-----------------------------------------------------------------------------
(* A claim of comments that the code does not keep                         *)

\* The comments of mqtt_worker_thread, mqtt_do_connect and mqtt_do_disconnect
\* say that the uses of g_mqtt.client exclude each other by client_mutex.
ClientExclusive ==
  \A p \in Publishers : pub[p] = "sending" => w \notin {"setup", "prepare"}

=============================================================================
